---------------------------- MODULE RecorderTests ----------------------------
(***************************************************************************)
(* The verdicts of the recorder tests (src/recorder_tests.c): each test    *)
(* resets the simulated sensor, hears some commands of the recorder, lets  *)
(* the sensor answer them and judges what it heard.  One call of           *)
(* wait_and_respond, wait_and_respond_poll or wait_for_break is one step   *)
(* here; RecorderRx shows that it delivers whole commands with their own   *)
(* break.  The tests that judge a duration (rec_break, rec_marking,        *)
(* rec_interchar) are not among them.                                      *)
(*                                                                         *)
(* Outside: the recorder, which sends any command of Commands at any time  *)
(* or falls silent, and libsdi12's sensor, which answers the well-formed   *)
(* commands sent to its address.                                           *)
(*                                                                         *)
(* A definition named Bug... is the one after it with a mistake.           *)
(***************************************************************************)
EXTENDS Integers, Sequences

CONSTANTS
  Tests,       \* the tests run, by name
  Commands,    \* what the recorder may send
  Tries,       \* attempts of a test that waits for a certain command, 5 to 15;
               \* bound: commands sent during test_rec_break_between
  MaxTests     \* bound: tests run in a row

\* "own" is the address under test, "new" another one, "?" the query and
\* "bad" no address at all.  "X?" and "A?" are an extended command that the
\* sensor discards and a change to no address; "odd" is any other such one.
Addresses == {"own", "new", "?", "bad"}
Kinds == {"ack", "I", "M", "MC", "C", "CC", "D", "R", "V", "A", "A?", "X", "X?",
          "odd"}
AllTests == {"cmd_fmt", "address", "sequence", "ack", "identify", "brk_between",
             "svc_req", "concurrent", "crc", "continuous", "addr_change",
             "verify", "extended"}

ASSUME TestsKnown == Tests \subseteq AllTests
ASSUME CommandsKnown ==
  Commands \subseteq [to : Addresses, kind : Kinds, brk : BOOLEAN]
ASSUME TriesPositive == Tries \in Nat \ {0} /\ MaxTests \in Nat

VARIABLES
  pc,          \* "idle", "waiting" for a command, "judging"
  test, attempt,
  first, second,   \* got_m, got_c, ... and got_d
  good,        \* format_ok, data_ok, crc_in_response
  wrong,       \* test_rec_address: commands with another address
  breaks, commands,    \* test_rec_break_between
  reply,       \* last_response: whose and what
  srSent,      \* service_req_sent
  sensor,      \* libsdi12's sensor: address, data, measurement under way
  verdict,
  run,         \* history: tests begun
  said,        \* history: what the recorder said during the test
  asked        \* history: how much of it before the last service request

vars == <<pc, test, attempt, first, second, good, wrong, breaks, commands,
          reply, srSent, sensor, verdict, run, said, asked>>

NoReply  == [from |-> "bad", body |-> "none"]
Silent   == [addr |-> "own", data |-> "none", busy |-> "no", next |-> "none"]
Deferred == test = "svc_req"       \* its ttt is 1 s, the others' is 0

Init ==
  /\ pc = "idle" /\ test = "ack" /\ attempt = 0
  /\ first = FALSE /\ second = FALSE /\ good = FALSE /\ wrong = 0
  /\ breaks = 0 /\ commands = 0
  /\ reply = NoReply /\ srSent = FALSE /\ sensor = Silent
  /\ verdict = "none" /\ run = 0 /\ said = <<>> /\ asked = 0

\* sim_init_ex.
BugSimInit == UNCHANGED reply /\ sensor' = Silent /\ srSent' = FALSE
SimInit    == reply' = NoReply /\ sensor' = Silent /\ srSent' = FALSE

Start ==
  /\ pc = "idle" /\ run < MaxTests
  /\ test' \in Tests
  /\ SimInit
  /\ attempt' = 0 /\ first' = FALSE /\ second' = FALSE /\ good' = FALSE
  /\ wrong' = 0 /\ breaks' = 0 /\ commands' = 0
  /\ verdict' = "none" /\ run' = run + 1 /\ said' = <<>>
  /\ asked' = 0
  /\ pc' = "waiting"

-----------------------------------------------------------------------------
(* libsdi12's sensor.                                                      *)

Answers(c) ==
  /\ \/ c.to = sensor.addr
     \/ c.to = "?" /\ c.kind = "ack"
  /\ c.kind \notin {"odd", "A?", "X?"}

Measures(c) == c.kind \in {"M", "MC", "C", "CC", "V"}
Result(c)   == IF c.kind \in {"MC", "CC"} THEN "crc" ELSE "plain"

Body(c) ==
  CASE c.kind = "I"                  -> "ident"
    [] c.kind \in {"M", "MC", "V"}   -> "atttn"
    [] c.kind \in {"C", "CC"}        -> "atttnn"
    [] c.kind = "D"                  -> sensor.data
    [] c.kind = "R"                  -> "plain"
    [] OTHER                         -> "none"      \* the bare address

\* A break aborts a measurement.  Its data are there at once or, when it is
\* deferred, at its end, which is announced unless it is a concurrent one.
Sensed(c) ==
  LET after == IF c.brk THEN [sensor EXCEPT !.busy = "no"] ELSE sensor
  IN  IF ~Answers(c) THEN after
      ELSE CASE Measures(c) /\ Deferred ->
                  [after EXCEPT !.busy = IF c.kind \in {"C", "CC"}
                                         THEN "silent" ELSE "announced",
                                !.next = Result(c), !.data = "none"]
             [] Measures(c) /\ ~Deferred -> [after EXCEPT !.data = Result(c)]
             [] c.kind = "A" -> [after EXCEPT !.addr = "new"]
             [] OTHER -> after

\* sdi12_sensor_process: the sensor hears the command, and sim_send_response
\* keeps what it answers.  A measurement begun clears service_req_sent.
Started(c) == srSent /\ ~(Deferred /\ Measures(c) /\ Answers(c))

Process(c) ==
  /\ sensor' = Sensed(c)
  /\ reply' = IF Answers(c) THEN [from |-> Sensed(c).addr, body |-> Body(c)]
                            ELSE reply
  /\ srSent' = Started(c)

\* sim_poll_measurement: the measurement ends, and is announced if it must.
Announce ==
  /\ pc = "waiting" /\ sensor.busy # "no"
  /\ sensor' = [sensor EXCEPT !.busy = "no", !.data = sensor.next]
  /\ srSent' = (srSent \/ sensor.busy = "announced")
  /\ asked' = IF sensor.busy = "announced" THEN Len(said) ELSE asked
  /\ UNCHANGED <<pc, test, attempt, first, second, good, wrong, breaks,
                 commands, reply, verdict, run, said>>

-----------------------------------------------------------------------------
(* The loops.                                                              *)

\* What each test looks for: the command it is about, to whom, and the one
\* that must follow it, if any; and how often it waits.
LooksFor(to, kinds, then) ==
  [to |-> to, opens |-> kinds, closes |-> then, tries |-> Tries]
JustListens(tries) == [to |-> {}, opens |-> {}, closes |-> {}, tries |-> tries]

CmdFormat     == JustListens(1)
Address       == JustListens(3)
BreakBetween  == JustListens(5)
Acknowledge   == LooksFor({"own", "?"}, {"ack"}, {})
Identify      == LooksFor({"own"}, {"I"}, {})
Sequence      == LooksFor({"own"}, {"M", "MC"}, {"D"})
ServiceReq    == LooksFor({"own"}, {"M", "MC"}, {"D"})
Concurrent    == LooksFor({"own"}, {"C", "CC"}, {"D"})
Crc           == LooksFor({"own"}, {"MC", "CC"}, {"D"})
Continuous    == LooksFor({"own"}, {"R"}, {})
AddressChange == LooksFor({"own"}, {"A", "A?"}, {})
Verify        == LooksFor({"own"}, {"V"}, {})
Extended      == LooksFor({"own"}, {"X", "X?"}, {})

Loop ==
  CASE test = "cmd_fmt"     -> CmdFormat
    [] test = "address"     -> Address
    [] test = "brk_between" -> BreakBetween
    [] test = "ack"         -> Acknowledge
    [] test = "identify"    -> Identify
    [] test = "sequence"    -> Sequence
    [] test = "svc_req"     -> ServiceReq
    [] test = "concurrent"  -> Concurrent
    [] test = "crc"         -> Crc
    [] test = "continuous"  -> Continuous
    [] test = "addr_change" -> AddressChange
    [] test = "verify"      -> Verify
    [] test = "extended"    -> Extended

Opens(c) == c.to \in Loop.to /\ c.kind \in Loop.opens
TwoSteps == Loop.closes # {}

BugNoted(c)    == Opens(c)
BugNotedAny(c) == TRUE
Noted(c)       == first \/ Opens(c)

Closes(c) == first /\ c.to = "own" /\ c.kind \in Loop.closes

\* What is checked of the answer at once: its address, its length, its CRC.
BugChecked(c) ==
  IF test = "crc" THEN reply'.body = "crc"
  ELSE Opens(c) /\ reply'.from = "own" /\ reply'.body # "none"
Checked(c) ==
  CASE test = "concurrent" /\ Opens(c) /\ ~first
         -> reply'.from = "own" /\ reply'.body # "none"
    [] test = "crc" /\ Closes(c)        -> reply'.body = "crc"
    [] test = "continuous" /\ Opens(c)
         -> reply'.from = "own" /\ reply'.body # "none"
    [] OTHER                            -> good

\* test_rec_address accepts the address it was started with, and the query.
RightAddress(c) == c.to \in {"own", "?"}

\* wait_and_respond, or its polling variant, returns with a command.
Hear(c) ==
  /\ pc = "waiting" /\ test # "brk_between"
  /\ Process(c)
  /\ attempt' = attempt + 1
  /\ first' = Noted(c)
  /\ second' = (second \/ Closes(c))
  /\ good' = Checked(c)
  /\ wrong' = IF RightAddress(c) THEN wrong ELSE wrong + 1
  /\ said' = Append(said, [cmd |-> c, at |-> sensor.addr,
                           answered |-> Answers(c)])
  /\ pc' = IF \/ attempt + 1 = Loop.tries
              \/ IF TwoSteps THEN Closes(c) ELSE Opens(c)
           THEN "judging" ELSE "waiting"
  /\ UNCHANGED <<test, breaks, commands, verdict, run, asked>>

Enough == commands' >= 2

\* test_rec_break_between: wait_for_break drops a command without a break;
\* after a break, read_command finds the command, or not in time.
HearBreak(c) ==
  /\ pc = "waiting" /\ test = "brk_between"
  /\ IF c.brk
     THEN /\ breaks' = breaks + 1 /\ attempt' = attempt + 1
          /\ \/ Process(c) /\ commands' = commands + 1
             \/ UNCHANGED <<sensor, reply, srSent, commands>>
     ELSE UNCHANGED <<breaks, attempt, sensor, reply, srSent, commands>>
  /\ said' = Append(said, [cmd |-> c, at |-> sensor.addr,
                           answered |-> commands' # commands /\ Answers(c)])
  /\ Len(said) < Tries
  /\ pc' = IF Enough \/ attempt' = Loop.tries THEN "judging" ELSE "waiting"
  /\ UNCHANGED <<test, first, second, good, wrong, verdict, run, asked>>

\* The recorder is silent for a whole wait.
Silence ==
  /\ pc = "waiting"
  /\ pc' = "judging"
  /\ UNCHANGED <<test, attempt, first, second, good, wrong, breaks, commands,
                 reply, srSent, sensor, verdict, run, said, asked>>

-----------------------------------------------------------------------------
(* The verdicts.                                                           *)

Last == said[Len(said)].cmd

BugJudgeService == IF ~first THEN "SKIP" ELSE IF second THEN "PASS" ELSE "FAIL"
JudgeService    == IF ~first THEN "SKIP"
                   ELSE IF srSent /\ second THEN "PASS" ELSE "FAIL"

\* One-step tests look at last_response, whatever command it answered.
ReplyGood ==
  CASE test = "ack"         -> reply.from = "own"
    [] test = "verify"      -> reply.from = "own" /\ reply.body # "none"
    [] test = "extended"    -> reply.from = "own"
    [] test = "addr_change" -> Last.kind = "A" /\ reply.from = "new"
    [] test = "identify"    -> reply.body \in {"ident", "plain", "crc"}
    [] OTHER                -> good

Judgement ==
  CASE test = "cmd_fmt" ->
         IF said = <<>> THEN "ERROR" ELSE IF Last.to = "bad" THEN "FAIL" ELSE "PASS"
    [] test = "address" ->
         IF said = <<>> THEN "ERROR" ELSE IF wrong > 0 THEN "FAIL" ELSE "PASS"
    [] test = "brk_between" ->
         IF commands < 2 THEN "SKIP" ELSE IF breaks >= commands THEN "PASS" ELSE "FAIL"
    [] test = "svc_req" -> JudgeService
    [] test = "sequence" ->
         IF ~first THEN "SKIP" ELSE IF second THEN "PASS" ELSE "FAIL"
    [] test \in {"concurrent", "crc"} ->
         IF ~first THEN "SKIP" ELSE IF second /\ good THEN "PASS" ELSE "FAIL"
    [] OTHER ->
         IF ~first THEN "SKIP" ELSE IF ReplyGood THEN "PASS"
         ELSE IF test = "identify" THEN "ERROR" ELSE "FAIL"

\* The test returns; test_rec_addr_change puts the sensor back.
Judge ==
  /\ pc = "judging"
  /\ pc' = "idle"
  /\ verdict' = Judgement
  /\ sensor' = IF test = "addr_change" /\ first /\ Last.kind = "A"
               THEN [sensor EXCEPT !.addr = "own"] ELSE sensor
  /\ UNCHANGED <<test, attempt, first, second, good, wrong, breaks, commands,
                 reply, srSent, run, said, asked>>

Next ==
  \/ Start \/ Announce \/ Silence \/ Judge
  \/ \E c \in Commands : Hear(c) \/ HearBreak(c)

Spec == Init /\ [][Next]_vars

-----------------------------------------------------------------------------
(* What a verdict says of the recorder.                                    *)

Said == DOMAIN said
Data(c) == c.to = "own" /\ c.kind = "D"

\* The first command the test was waiting for.
OpenedAt(i) == Opens(said[i].cmd) /\ \A j \in 1 .. i - 1 : ~Opens(said[j].cmd)

\* The sensor has kept its address so far.
Steady == \A i \in Said : ~(said[i].answered /\ said[i].cmd.kind = "A")

\* A test of a sequence passes only a recorder that first sent the command
\* that opens it and later, in the same test, a D command.
PassShowsSequence ==
  verdict = "PASS" /\ TwoSteps
    => \E i, j \in Said : i < j /\ OpenedAt(i) /\ Data(said[j].cmd)

\* A test is skipped only if the recorder never sent the command it is about.
SkipMeansUnsent ==
  verdict = "SKIP" => \A i \in Said : ~Opens(said[i].cmd)

\* test_rec_service_req passes only if the service request came after the
\* measurement that opened the test and before the D that ended it.
RequestComesBetween ==
  verdict = "PASS" /\ test = "svc_req" /\ Steady
    => \E i \in Said : OpenedAt(i) /\ i <= asked /\ asked < Len(said)

\* A recorder that did fetch the data after its measurement is not failed.
FailMeansNoData ==
  verdict = "FAIL" /\ test \in {"sequence", "concurrent"} /\ Steady
    => \A i, j \in Said : OpenedAt(i) /\ i < j => ~Data(said[j].cmd)

\* test_rec_address fails a recorder only for a command that was addressed
\* to something else than the sensor, unless its address has been changed.
FailMeansMisaddressed ==
  verdict = "FAIL" /\ test = "address" /\ Steady
    => \E i \in Said : said[i].cmd.to \notin {"?", said[i].at}

\* No recorder is failed for what it did right: a fetch of its data, or the
\* address it used.
FailJustified == FailMeansNoData /\ FailMeansMisaddressed

\* A test that judges by last_response passes on an answer of this test, not
\* of the one before it.
PassHasAnswer ==
  verdict = "PASS" /\ test \in {"ack", "verify", "extended", "continuous",
                                "addr_change", "identify"}
    => \E i \in Said : said[i].answered

\* test_rec_break_between passes a recorder as sending a break before each
\* command only if it did.
BreakBeforeEach ==
  verdict = "PASS" /\ test = "brk_between" => \A i \in Said : said[i].cmd.brk

\* test_rec_extended fails a recorder whose X command got no answer.
ExtendedAnswered ==
  verdict = "PASS" /\ test = "extended" => said[Len(said)].answered
==============================================================================
