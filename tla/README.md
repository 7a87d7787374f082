# Verification of libsdi12-verifier

TLA+ models of the SDI-12 compliance verifier, checked with TLC, and theorems
about them proved with TLAPS. The models follow the C sources of the
repository (`src/`, `include/`, `hal/`); the map in `PROJECT.json` gives the lines
each definition stands for.

## The system

The program has four modes. In the **sensor test** it is an SDI-12 master and
judges a sensor; in the **recorder test** it simulates a sensor and judges a data
recorder; the **monitor** prints what is on the bus; the **transparent** mode sends
what the user types. `--self-test` runs the sensor tests against a sensor
simulated in the same process.

| Component | State it keeps | Operations | What makes it correct |
|---|---|---|---|
| Timing layer (`src/timing.c`) | stamps of break, command, reply, bytes and lines; receive mode | `cb_send`, `cb_recv`, `cb_break` called by libsdi12's master; the latency and gap functions called by the tests | a recv loses no byte, never overruns its buffer, ends; stamps are ordered, so unsigned differences are durations; a measurement is of the reply it claims |
| Loopback HAL (`hal/hal_loopback.c`) | response ring, command buffer, break, pacing and faults | write, flush, read, set_break, set_faults | the ring is a bounded queue; the sensor gets the command that was sent; a break drops what was pending; pacing is never faster than a line and holds nothing back for ever |
| POSIX and Windows HAL | the port | open, read, write, break, framing | system calls |
| Recorder receive path (`src/recorder_tests.c`, first part) | `last_cmd`, break and marking stamps, the deferred measurement | `wait_for_command` and the loops over it | the sensor gets whole commands with their own break; a wait ends |
| Recorder tests (`src/recorder_tests.c`, the rest) | what a test has heard, the last response | 16 tests | a verdict is backed by what the recorder said |
| Sensor tests (`src/sensor_tests.c`) | none between tests, but they change the sensor | 31 tests | a compliant sensor is not failed; the sensor and the line are left as found |
| Fault self-tests (`src/selftest_faults.c`) | the loopback's fault mask, the receive mode | 9 tests, two value validators | a sound library passes, a defective one does not, each fault is put back, and a value that is not one is noticed |
| Suite, reporter, main | registered tests, results, the HAL | register, run, report, clean up | the port is released, the report complete, verdict and exit code agree |
| Monitor (`src/monitor.c`), transparent mode (`src/transparent.c`) | a line buffer, the default address, the running flag | read and print; obey what is typed | no byte lost, what is typed is what is sent, the mode ends when it is asked to |
| libsdi12 | master and sensor state machines | | a submodule that is not in the repository: external |

They interact by calls and callbacks in one thread: a test calls libsdi12's
master, which calls the timing layer, which calls the HAL. What runs
concurrently is outside: the device on the bus, the receive buffer the
operating system fills, the clock, and the scheduler that may preempt the thread
between reading a byte and reading the clock. This is where the hard behaviour
is: answers that come late, bytes that straddle two windows, timeouts racing
with bytes, commands abandoned half-way and repeated, and what was remembered
from the command before. `PROJECT.json` lists the hazards, each at its line.

## The modules

| Module | Models | Abstracts |
|---|---|---|
| `TimingLayer` | `timing.c` and `timing.h`, with the receive buffer, a sensor and the clock | bytes are a newline or not; one unit of time is one character at 1200 baud |
| `ByteFifo` | what the loopback's ring promises: a bounded queue | |
| `LoopbackRing` | `lb_ring_t` | |
| `LoopbackHal` | the calls of `hal_loopback.c`, on top of `LoopbackRing` | a byte is the number of the command it answers and its place; a unit of time is the 2 ms of one paced byte |
| `PddGrammar` | `sdi12v_valid_pdd`, `sdi12v_validate_values`, and the grammar they are for | a digit is a digit |
| `SelftestFaults` | the 9 fault tests, the faults of `lb_read_param`, `lb_send_response` and `lb_format_binary_page`; on top of `PddGrammar` | a value is its text, a packet its sender and its payload |
| `RecorderRx` | the receive path of the recorder tests, with a recorder and the clock | a byte is a break's NUL, a character or `!` |
| `RecorderTests` | loops and verdicts of 13 recorder tests | a command is its kind, its address and whether a break came before it; one wait is one step |
| `SensorTests` | the 31 sensor tests, with a sensor and a line that loses things | a test is a script of master calls; contents and timing of an answer are good or "bad" |
| `Verifier` | `main.c`, `test_suite.c`, the results and verdict of `reporter.c` | a test is any outcome, the filter the set of tests it matches; an interactive mode is one step |
| `BusModes` | `Verifier` with the loops of `monitor.c` and `transparent.c` and Ctrl+C | a byte is a newline or not; a typed line is what it asks for and whom |
| `TimingProofs`, `RingProofs`, `LoopbackHalProofs`, `RecorderRxProofs`, `RecorderTestsProofs`, `SensorTestsProofs`, `VerifierProofs` (also of `BusModes`), `SelftestProofs` | the theorems | |
| `TimingMC`, `LoopbackHalMC`, `RecorderRxMC`, `RecorderTestsMC`, `SensorTestsMC`, `VerifierMC`, `SelftestFaultsMC` | small instances for TLC | |

Three modules build on another: `LoopbackHal` composes the ring with the calls
that use it, so that the refinement `RingIsFifo` is checked and proved of the
ring as the HAL drives it; `BusModes` opens up the one step `RunInteractive` of
`Verifier` and is shown to implement it; `SelftestFaults` judges pages with the
validators of `PddGrammar`.

**How state and actions correspond to code.** A variable is a struct member or a
local with the same name in camel case (`resp_start_us` is `respStart`). A
function that does not wait is one action. A function that waits is split where it
waits, and nowhere else: `cb_break` is `BreakOn` and `BreakOff`, `cb_send` is `Send`
and `Sent`, a round of `cb_recv`'s loop is `Read` (the HAL's read) and then `Store`
or `Quiet` (the clock is read, the byte stored or the deadline looked at), because
the thread may be preempted between the two. `wait_for_command` has an action for
each byte (`ReadNul`, `ReadChar`), for each step of a burst of NULs (`BurstNul`,
`BurstEnd`) and for its return; its callers are the actions around it. In
`RecorderTests` a whole wait is one action, because `RecorderRx` shows that a wait
delivers a whole command or nothing. Each of its tests has a definition that says what its
loop looks for and when it ends (`ServiceReq` is `test_rec_service_req`), `Loop`
is that of the test that runs, and the actions `Hear`, `HearBreak`, `Silence` and `Judge` are the
one loop they all are. In `SensorTests` and `SelftestFaults` a call of libsdi12's master is
one action: a test is a sequence of steps with a definition of its own
(`AddressChange` is `test_address_change`), and the actions say how a step's answer
is judged, where a test returns early and with which verdict. In `LoopbackHal` an
action is a call; a write is followed by its flush and the start of a break by its
end, as in `cb_send` and `cb_break`; the clock runs all the while, and the fault mask
may change between two commands. In `BusModes` a turn of a loop is split where it waits, at the
monitor's read and at `fgets`, and where it looks at the flag that Ctrl+C clears.
History variables, so marked in the modules, are read by properties only.

**The environment.** The sensor answers when it likes, or never, with one of
`Replies`, late answers included; within a line it sends back to back, as SDI-12
asks. It takes no command while it still answers the one before. The recorder
begins a command at any time, with or without a break, may abandon it, and then
repeats with a break. libsdi12's sensor, in `RecorderTests`, answers what is
addressed to it. A break silences the sensor. The sensor of `SensorTests` sleeps until a break
wakes it, and sleeps again after a command for another address or a wait; ignores
commands while it stores a new address; loses a measurement to a break or, if it
is a concurrent one, to a command; and may end one early. It may have one defect:
it keeps the data of an aborted measurement, forgets them at a break, sends no
service request or too few values, answers to any address, or does not change its
own. The library of `SelftestFaults` is sound or has one defect: a call fails; a number
is misprinted; values or packets are cut; bytes that were not sent are taken for
payload, packets of another sender for its own, or values lost; the checksum is
missing or wrong; a response lacks its end; or the master gives up too soon. The
user of `BusModes` types any line, ends the input, or presses Ctrl+C at any time. The
line of `SensorTests` may lose a break, a command, an answer or a request, or spoil
an answer.

**Mistakes.** A definition `Bug...` is the definition after it with a plausible
mistake. No specification uses it. Each property of a passing run is shown to fail
when one definition is replaced by its mistaken form (`mutants` in `PROJECT.json`).

## The runs

| Run | Question | Bounds |
|---|---|---|
| `timing_jitter` | are stamps ordered, is every byte kept, and on the loopback every reply after a break fresh, when the thread may lag at any step? | two commands, two recvs each, replies of two characters in one line or two, one unit of lag; buffer 3, two byte stamps, two lines; sensor inside the program or behind a port |
| `timing_prompt` | with a thread that is never late, are latency and gaps those of the line, is an answer in time heard, and does every recv return? | two commands, three recvs each, replies of two lines, text and binary mode, both kinds of sensor; what is measured is said of replies to the last command (`OwnReply`), since a late answer to the first may be taken for one to the second |
| `timing_multiline` | is the latency that of the first byte of a reply of several lines? Violated | two lines |
| `loopback` | does the sensor get the commands that were sent, is the ring a queue, does a break leave nothing stale, and do paced bytes come no faster than on a line, and all of them? | ring of 4, two commands of four shapes (one too long, one without `!`, one with two), answers of 0, 2 or 4 bytes, reads of up to two, pacing switched at any time, six units of time after the start of a schedule |
| `recorder_wait` | are commands whole, with their own break, and none lost; has a wait that gives up read all that came in time, and does every wait end? | two commands of 2 or 4 characters for a buffer of 3, breaks of two NULs, waits of 3 with windows of 2; a thread that may lag and one that may not |
| `recorder_request` | is the service request sent between commands? Violated | two commands, one measurement |
| `verdicts` | is every verdict backed by what was heard? | 13 tests, two in a row, three attempts, a recorder that sends any command of 14 kinds |
| `verdict_breaks`, `verdict_extended` | two verdicts whose comment promises more than the code checks. Violated | one test, three attempts |
| `sensor_tests` | is only a sensor or a line at fault failed, is each defect found, are the sensor's address and the receive mode left as found, are data asked for in time? | 31 tests in any order and number, six defects or none, two losses, measurements of up to two values on up to two pages, two groups for nine, three addresses for 62 |
| `lifecycle` | is the port released, the report complete, do exit code and verdict agree; does the monitor print every byte and stop, and does the transparent mode send what was typed? | two sensor tests, one fault test, two recorder tests, room for three; a line buffer of 2, five bytes heard, four pieces typed, one of the seven lines too long for `fgets` |
| `selftest_faults` | does a sound library pass and each defect fail its test, is every fault put back, do the validators accept exactly the grammar? | 9 tests in any order and number, 11 defects or none, all texts of up to 4 characters and those longer ones that differ in one place from a row of digits |

**Why the bounds are enough.** What the properties tell apart happens within them.
A reply of two lines is longer than the byte stamps and as long as the buffer,
so all three limits are met; two commands are what a late answer needs; a sensor's pause is
shorter than the idle time and the timeout is shorter than the sensor's delay can
be, so that every window closes both ways. A command of the recorder is longer
than its buffer or not, a window shorter than a wait, a wait shorter than the
time of two commands. Two tests in a row are what stale state needs; the sensor tests run on without a
bound. Two losses are one in a step and one in the step that was to repair it, two
pages are the last and one before, two groups one break between them. In `lifecycle`
one suite fits exactly and the report too; a line of the monitor is longer than
its buffer; a change of the default address, and lines before and after it, are typed.
In `loopback` an answer may be longer than the ring, stay in it over a break, or
be followed by another one while its schedule still runs. The numbers of
`selftest_faults` are those of the code (9 parameters, 7 digits, 35 and 75
characters), so that pages break where they do there. Time is bounded by `MaxTime`: no call
starts after it, but what has begun goes on to its end. Terminal states are reached
when the bounds are used up, so those configurations do not check for deadlock;
`loopback`, `sensor_tests` and `selftest_faults` do.

**Fairness.** Of the program's steps weak fairness: the thread is scheduled again
and again and nothing in it blocks without a timeout. Of the clock strong fairness
in `TimingLayer`, because each poll of `cb_recv` takes up to a millisecond and the
clock cannot stand still for ever while the loop turns; weak fairness in `RecorderRx` and `LoopbackHal`.
In `LoopbackHal` a flush follows its write and the end of a break its start, as the
callbacks make them, and reads go on, as they do in `cb_recv`'s window: `Delivered` is
about an answer that somebody polls for. In `BusModes` the monitor's turns and the
return to `main` are fair, its read returns within 100 ms; nothing is assumed of
`fgets`, which may wait for ever, so that of the transparent mode it is only said that it
obeys at most one more piece of input after Ctrl+C (`OneMoreLine`).
A sensor that has begun a reply goes on; nothing is assumed of the recorder, nor of
the master calling again. The other modules have safety properties only.

## What the violated runs show

Each states what a comment or the README says and what the code does not do; the
quotations are in `PROJECT.json`.

1. The latency reported for a reply of several lines is that of the last recv.
2. The service request may be sent after the recorder's break or within its command.
3. `test_rec_break_between` cannot fail: it ignores commands without a break.
4. `test_rec_extended` passes on the answer to an earlier command.

Other observations have no run of their own. `test_rec_address` keeps the
address it started with, so a recorder that changes the address with `aAb!` and
then rightly uses `b` is failed: what `FailJustified` says of that test holds only as
long as the address is not changed (`Steady`). A run whose filter matched no test prints an
unqualified `COMPLIANT`, although the reporter's comment says that a verdict must
disclose what it did not check; and exit code 0, "All tests passed" in the README,
includes skipped tests. `ExitMatchesVerdict` says what does hold of the two. A late answer
in a serial port's receive buffer is returned, and timed, as the reply to the next
command, break or not: `FreshOnLoopback` holds only of the loopback, which drops
what is pending at a break. Of the sensor tests, `test_break_abort` and
`test_concurrent_abort` take no answer to the D command for an empty buffer, which
is why `DefectFound` excludes losses there; they fail a compliant sensor that ended
its measurement just before the abort and keeps its data, which
`CompliantNotFailed` excludes (`missed`); and `test_break_abort`, unlike the other,
also passes a sensor that has no values to empty. When the answer to the first
change is lost `test_address_change` gives up without trying to change the address
back: step 2 among those of `RestoredUnlessLost`.

The header of `transparent.c` (line 12) and the banner (line 55) say that a bare body
gets the default address prepended; the code, and the help text (lines 93-99), send
a line as it is unless it begins with `.`, which is what `Addressed` models. A typed
line of more than 127 characters is obeyed in pieces, each a line of its own. The
monitor and the transparent mode end in the report of a run, which says `COMPLIANT`
of no tests. The pacing schedule of an answer that a break cut short is still running
when the next answer comes and lets its bytes out early, although the comment at
`hal_loopback.c:110` ties the schedule to the response: `PacedAsLine` is about answers
that find no schedule left over (`own`), and `Delivered` shows that the leftover
schedule never holds a byte back. Of the fault tests, `test_fault_bin_foreign_addr`
passes on any error, not only on one about the address, and the check for pages of
more than 75 characters cannot fire with the values the loopback offers. The
validators accept a value without a digit before the point (`+.5`), as `PddTexts`
does: Table 11 as the code quotes it does not exclude it.

## What is proved

Under the assumptions on the constants named in the modules (sizes positive, times
natural numbers, a command of at least one character, in `RecorderRx` no wait of no
length, in `Verifier` that the suites fit), for all their values. Each module has
an inductive invariant, or a few, of which the theorems are consequences; those of
a later theorem build on those of an earlier one, each kept by a lemma of its own.

- **`TimingProofs`**: `TypeCorrect`, `BufferSafe`, `StampsSafe`, `OneLineEach`,
  `BytesKept`, `LoopbackFresh`. The properties are about the state between calls and
  are not inductive. `IInv` adds what holds during them: no stamp lies in the future
  (`PastStamps`), the line being received has started after the one before ended
  (`LineOpen`), the reply under way started after the command ended, since a recv
  clears the stamps before it waits and only `Sent` moves `cmdEnd`
  (`RespAfterCmd`), and what a text-mode recv has so far holds no newline
  (`NoNewlineYet`). `StreamInv` is about bytes: what was heard, what is in hand and
  what waits in the port form one `Stream` that ends with the last byte the sensor
  sent; a read and a store move a byte along it (`Moves`), an answer prolongs it
  (`Prolonged`), a command or a break cuts it (`CutInTwo`). Between the loopback's
  break and the next command its end is missing; no answer can come then, and the
  command forgets what was heard. Nothing is assumed of the sensor, the lag or the
  lengths of time.
- **`TimingProofs`, for a thread that is never late** (`Jitter = 0`, the hypothesis of
  these four theorems and the setting of `timing_prompt`; with a lag all four are
  false, since a stamp is then as late as the thread): `InTimeHeard`,
  `LatencyMeasured`, `GapsMeasured`, `PausesMeasured`. `PunctualInv`: between a read that
  finds nothing and the look at the clock nothing comes but at that very time.
  `NoneAhead`: no byte answers a command to come, nor one still being sent, so
  that the first byte of the reply is one that came after. `FirstInv`: until it is
  stored, a byte of the reply has come just now. For the gaps, `LineInv` says that
  the last byte sent tells whether the sensor is in a line, and that in one it is
  less than a character behind; `OpenInv` that the character after the last one stored,
  be it in hand, in the port or still to be sent, is due within a character of it;
  `Stamping` that this last one is the last stamp while there is room.
  `PausesMeasured` is about replies the layer is built for (`RepliesFit`: each line
  ends, is no longer than the buffer of one recv, and there are no more lines than
  stamps for them, 16 in `timing.h`) and an idle time longer than a character
  (25000 and 8333 in `timing.c`); without any one of these it is false: a line cut in
  two stamps its start again, a seventeenth line has no stamp. `timing_prompt` meets all of them.
  `ReplyInv`: behind the bytes that came late, what was received since the command
  and what the sensor has yet to send is one reply, so that a line fits
  (`LineFits`), a stamp is left for it (`StampLeft`) and a recv waits for its end
  (`NoGivingUp`). With that `PauseInv` is inductive: the pairs of stamps taken so far, the line in
  progress included, are the pairs of times at the newlines heard.
- **`RingProofs`**: `RingTyped`, and `RingImplementsFifo`, the refinement: for every
  ring size each put, get and drain of the ring is that step of the queue under
  the mapping `Contents`. The lemmas are about positions modulo the size.
- **`LoopbackHalProofs`**: `HalKeepsFifo` (each call of the HAL is a step of the ring,
  so the refinement carries over), `BreakDiscards`, `CommandArrives`, `PacedSafe`. For
  the break: what is on the ring answers a command after `drained`, the number of
  commands at the last break (`FreshRing`), because none is written between the
  halves of a break, nor a break made between a write and its flush (`Calls`). For
  the command: the buffer is empty before each write and then holds a prefix of the
  command, whose first `!` is that of the whole (`CommandInv`); that a set of
  positions has a least element is proved by well-founded induction (`HasLeast`).
  For the pace: an answer that has the line for itself has a schedule of its own, as
  old as the answer and as far (`OwnSchedule`).
- **`RecorderRxProofs`**: `TypeCorrect` (with the room of `last_cmd`), `MarkingSafe`,
  `WholeCommands`, `OwnBreak`, `NoneLost` and, for a thread that is never late,
  `InTimeHeard`.
  `IInv` says that no stamp lies in the future (`PastStamps`) and that after a burst of
  NULs its start and end are in order, the end of the marking is not stamped or not
  before them, and is stamped once `last_cmd` has a byte (`AfterBurst`).
  The last three follow from `CommandInv`, which names the last byte read, `b`: what the
  port's buffer holds is what the recorder sent behind `b`, byte after byte, a new
  command with its break if the one before it was left unfinished (`OnLine`); and what
  `last_cmd` holds is the command of `b` up to `b`, from its first character unless that
  was thrown away, with `break_seen` saying whether it had a break (`Holds`). An empty
  `last_cmd` is the point that needs it: `break_seen` must then be set if `b` is a NUL
  and clear if `b` ended a command, or the next one would be given a break that is not
  its own. `Given` says that a wait that goes on holds no complete command.
- **`RecorderTestsProofs`**: `SkipJustified`, `SequenceShown`, `AnswerShown`,
  `RequestBetween`, `NotFailedWrongly`, for every recorder and number of attempts. A
  verdict is given when the loop has ended and speaks of what was said during it, so
  the invariants are about what the loops remember (`Known`: `first` only if a command
  that opens the test was said, not `first` only if none was, `second` only if data
  were asked for behind it) and about what was pronounced (`Pronounced`). `AnswerInv`
  relates `last_response` and `good` to the answers recorded; `ServiceInv` places the
  request, last sent after command `asked`, behind every command that opened the test
  and before the D that ends it; `FailInv` is the converse: data asked for behind
  the opening command are remembered, and `wrong` counts only commands for another address.
- **`SensorTestsProofs`**: `FramingIsRestored`, `MeasurementIsAwaited`,
  `AddressIsRestored`, `CompliantIsNotFailed`, `DefectIsFound`: all five properties of
  `sensor_tests`, for any sequence of tests, any addresses, layouts and numbers of
  losses. A test is a script, so the proofs have two halves. The static one
  says of the 31 scripts what follows what: every measurement is started behind a break, and
  before the step that reads its data there is one that waits for it, but for the two
  tests that abort it. The dynamic one says what holds
  at a step. `AwaitedInv`: a sensor that measures has announced a time to wait, and after
  the wait it is done. `ChangeInv` follows `test_address_change`: which losses leave the
  sensor at which address. `HomeInv`: if nothing was lost the sensor is awake, free and at
  its address wherever a test asks it something. `ChainInv`: the number of values announced
  is that of the pages the sensor has or will have. `TallyInv`: the sum so far is that of
  the pages read. `RetainInv`, `AbortInv` and `CountInv` say the same of the tests that
  compare two answers, abort a measurement or count answers. No
  hypothesis is made of the order of tests: every invariant allows for what the test
  before left in the sensor.
- **`VerifierProofs`**: of `Verifier`, `TypeCorrect`, `Released`, `ExitAgrees`,
  `Complete`. `IInv` follows one run: before the report there is no verdict and no
  result in it; while the tests run the results are those of the matching tests before
  `next`, in order; from the report on it holds them all and `rc` says what the verdict
  will. Of `BusModes`, `ModesImplementVerifier`, the refinement of `Verifier` by the run
  with its loops; hence `RunSafe`, the same theorems for that run; `MonitorComplete`
  (the line under way has room for one more byte, and behind what was shown it is
  all that was heard); `StopsAfterLine` (`fgets` is entered only while the flag is set,
  and so at most once after Ctrl+C); `TypedSent`, where the default address in force is
  the last one typed, the greatest of a set of positions, which is found by well-founded
  induction.
- **`SelftestProofs`**: all four properties of `selftest_faults`, `NoFaultLeft`,
  `SoundPass`, `DefectsCaught` and `MalformedCaught`, for any sequence of tests, any
  packet size above 36 bytes and texts of any length; and of the validators,
  `GrammarExact` (`sdi12v_valid_pdd` accepts the grammar and nothing else), `ValueExact`
  and `PagesAddUp` (`sdi12v_validate_values` counts a page value by value). `FaultsInv` ties
  the fault mask to the test that runs and the receive mode to the call it makes; each
  return clears the mask, and a test that sets none finds none. The verdicts
  need to know what is on the pages. `Book` says it of the nine values put there one
  after the other: every sign is still on some page, a page ends before a sign, all pages
  but the first are valid, and the first is exactly if the first text is. It
  rests on `Joined`: two texts of which the second begins with a sign are
  valid together exactly if each is, because a value ends at the next sign, the least of
  a set of positions, found by well-founded induction. `JudgeInv` adds where a test
  is in these pages and that it has counted those it has read (`Progress`): behind the
  last page it has the signs of the first text and eight, so nine exactly if that
  text is one value. Two cases are apart: a first text longer than a page leaves an
  empty first page (`Nothing`), and a library that drops the value that just fits
  makes one page of eight (`Dropping`).

**Only model-checked**: liveness (`RecvReturns`, `WaitReturns`, `Delivered`,
`MonitorStops`), which needs fairness. Every invariant a passing run checks is also
a theorem.

## Not modelled

- `rec_break`, `rec_marking` and `rec_interchar` compare one measured duration with a
  limit. The order of the stamps they subtract is `MarkingMeasured`; how far a stamp
  lies from the edge on the line is a property of the UART and its driver, of
  which the code shows nothing.
- System calls of the POSIX and Windows HALs: opening, configuring and timing a
  port. What the timing layer sees of them, a receive buffer that a break does not
  empty, is in `TimingLayer`; a write cut short is a lost command of `SensorTests`.
- In `SensorTests` the contents of answers (identification, metadata, CRC) and their
  timing are good or bad; the value grammar is `PddGrammar`. A service request that
  arrives when nobody waits for it is the late answer of `TimingLayer`.
- In `BusModes` how a byte is printed (a final `\r` left over when the monitor is
  stopped is printed as `\x0D`), time stamps, and the `!` that is appended to a typed
  command that lacks one.
- The layout and escaping of the reports, output formatting, build and packaging
  files.
- libsdi12 is a submodule whose contents are not in the repository. It is modelled only
  as its callers use it, and such definitions are marked external in the map.
