----------------------------- MODULE SensorTests -----------------------------
(***************************************************************************)
(* The sensor tests (src/sensor_tests.c) against a sensor on a line that   *)
(* may lose things.  A test is a script of steps, the calls it makes in    *)
(* their order, and each kind of step is an action that says how the call  *)
(* is judged.  A call of libsdi12's master is one step: TimingLayer models *)
(* what happens below it.  What is judged of the contents of an answer     *)
(* (identification, metadata, signs, CRC) is left out, and such an answer  *)
(* is "bad"; so are the limits on its timing.                              *)
(*                                                                         *)
(* Outside: the sensor, which follows SDI-12 but for at most one defect.   *)
(* The line loses at most MaxLost breaks, commands, answers or requests.   *)
(*                                                                         *)
(* A definition named Bug... is the one after it with a mistake.           *)
(***************************************************************************)
EXTENDS Integers, Sequences

CONSTANTS
  Tests,       \* the tests run, in any order and number
  Defects,     \* what may be wrong with the sensor, or "none"
  Layouts,     \* how the values of a measurement may lie on data pages: for
               \* each page, how many there are up to its end
  MaxPages,    \* pages asked for at most: 10, of high volume 1000
  Groups,      \* bound: groups of additional measurements, 9
  MaxLost      \* bound: what the line loses

AllTests ==
  {"acknowledge", "query_address", "identify", "identify_ver", "wrong_addr",
   "response_time", "interchar_gap", "meas_m", "meas_mc", "meas_c", "meas_cc",
   "service_req", "data_d0", "data_retain", "continuous", "continuous_crc",
   "verify", "addr_change", "break_abort", "conc_abort", "extended",
   "extended_ml", "meas_groups", "conc_groups", "cont_groups", "bus_scan",
   "resp_compliance", "hv_ascii", "hv_binary", "identify_meas",
   "ident_param_crc"}
AllDefects == {"none", "keeps", "forgets", "no request", "few", "any address",
               "stays"}

ASSUME TestsKnown   == Tests \subseteq AllTests /\ Defects \subseteq AllDefects
ASSUME LayoutsFit   ==
  /\ <<>> \in Layouts /\ Layouts \subseteq Seq(Nat \ {0})
  /\ \A l \in Layouts : /\ Len(l) <= MaxPages
                         /\ \A i, j \in DOMAIN l : i < j => l[i] < l[j]
ASSUME BoundsNatural == {MaxPages, Groups} \subseteq Nat \ {0} /\ MaxLost \in Nat

VARIABLES
  pc,          \* "idle" or "running"
  test, at,    \* the test, and its step
  loc,         \* its locals: mresp, total, page, found or failures, d1, err
  binary,      \* binary_recv of the timing layer
  verdict,     \* r.status, which a test may set before it returns
  sensor,      \* address; hears commands; stores its address; measurement
               \* under way and its pages; pages it can give
  defect,
  lost,        \* bound: what the line has lost
  missed       \* history: the steps of the test at which the line lost something
               \* or a measurement ended before its abort; 0, if the sensor was
               \* not ready at its address when the test began

vars == <<pc, test, at, loc, binary, verdict, sensor, defect, lost, missed>>

Addresses == {"own", "temp", "other"}     \* bound: of the 62
Cleared   == [ttt |-> 0, n |-> 0, total |-> 0, page |-> 0, count |-> 0,
              first |-> 0, err |-> "ok"]

Init ==
  /\ pc = "idle" /\ test = "acknowledge" /\ at = 0 /\ loc = Cleared
  /\ binary = FALSE /\ verdict = "none"
  /\ sensor = [addr |-> "own", awake |-> FALSE, saving |-> FALSE, busy |-> "no",
               next |-> <<>>, data |-> <<>>]
  /\ defect \in Defects /\ lost = 0 /\ missed = {}

-----------------------------------------------------------------------------
(* The scripts.  A step has an operation, named below where it is taken,   *)
(* and, if it asks the sensor something, a command and whom it is sent to. *)

Step(op, cmd, to) == [op |-> op, cmd |-> cmd, to |-> to]
Do(op)            == Step(op, "none", "own")
Brk               == Do("break")
Own(op, cmd)      == Step(op, cmd, "own")
Asked(cmd)        == <<Brk, Own("ask", cmd)>>
Started(cmd)      == <<Brk, Own("start", cmd)>>

Acknowledge     == Asked("ack")
ResponseTiming  == Asked("ack")
QueryAddress    == <<Brk, Step("ask", "query", "all")>>
WrongAddress    == <<Brk, Step("hush", "ack", "other")>>
Identify        == Asked("I")
IdentifyVersion == Asked("I")
IntercharGap    == Asked("I")
Continuous      == Asked("R")
ContinuousCrc   == Asked("R")
Extended        == Asked("X")
ExtendedMultiline == Asked("X")
IdentifyParams  == <<Brk, Own("ask", "I"), Brk, Own("ask", "I")>>
IdentifyMeas    == <<Brk, Own("start", "IM"), Do("some"), Own("params", "I")>>

MeasurementM   == Started("M")
MeasurementC   == Started("C")
Verify         == Started("M")
MeasurementCrc == <<Brk, Own("start", "M"), Do("await"), Do("some"), Own("data", "D")>>
ConcurrentCrc  == <<Brk, Own("start", "C"), Do("delay"), Do("some"), Brk,
                    Own("data", "D")>>
ServiceRequest == <<Brk, Own("start", "M"), Do("slow"), Do("some"), Do("heed")>>
DataRetrieval  == <<Brk, Own("start", "M"), Do("await"), Do("some"), Own("pages", "D")>>
DataRetention  == <<Brk, Own("start", "M"), Do("some"), Do("await"), Own("data", "D"),
                    Brk, Own("again", "D")>>
BreakAbort     == <<Brk, Own("start", "M"), Do("slow"), Brk, Own("ask", "ack"),
                    Own("empty", "D")>>
ConcurrentAbort == <<Brk, Own("start", "C"), Do("some"), Do("slow"), Own("ask", "ack"),
                     Own("empty", "D")>>
HighVolAscii   == <<Brk, Own("start", "HA"), Do("some"), Do("heed"), Own("pages", "D")>>
HighVolBinary  == <<Brk, Own("start", "HB"), Do("some"), Do("heed"), Do("binary"),
                    Own("pages", "D")>>

AddressChange ==
  <<Brk, Own("change", "A"), Do("settle"), Brk, Step("found", "ack", "temp"),
    Brk, Step("restore", "A", "temp"), Do("settle"), Brk, Own("ask", "ack")>>

\* A break after each group.
GroupTest(cmd) ==
  [i \in 1 .. 2 * Groups + 1 |-> IF i % 2 = 1 THEN Brk ELSE Own("group", cmd)]
MeasurementGroups == GroupTest("M")
ConcurrentGroups  == GroupTest("C")
ContinuousGroups  == GroupTest("R")

\* A break before each of some steps.
AfterBreaks(steps) ==
  [i \in 1 .. 2 * Len(steps) |-> IF i % 2 = 1 THEN Brk ELSE steps[i \div 2]]

Looks      == [i \in 1 .. 3 |-> Step("look", "ack", <<"temp", "own", "other">>[i])]
BugBusScan == [i \in 1 .. 4 |-> IF i = 1 THEN Brk ELSE Looks[i - 1]]
BusScan    == AfterBreaks(Looks)

\* The required commands, three of the optional ones, a wrong address.
ResponseCompliance ==
  AfterBreaks(<<Own("must", "ack"), Own("must", "I"), Own("must", "M"),
                Own("must", "D"), Step("must", "query", "all"), Own("may", "C"),
                Own("may", "R"), Own("may", "X"), Step("mustnot", "ack", "other")>>)

Script(t) ==
  CASE t = "acknowledge"     -> Acknowledge
    [] t = "query_address"   -> QueryAddress
    [] t = "identify"        -> Identify
    [] t = "identify_ver"    -> IdentifyVersion
    [] t = "wrong_addr"      -> WrongAddress
    [] t = "response_time"   -> ResponseTiming
    [] t = "interchar_gap"   -> IntercharGap
    [] t = "meas_m"          -> MeasurementM
    [] t = "meas_mc"         -> MeasurementCrc
    [] t = "meas_c"          -> MeasurementC
    [] t = "meas_cc"         -> ConcurrentCrc
    [] t = "service_req"     -> ServiceRequest
    [] t = "data_d0"         -> DataRetrieval
    [] t = "data_retain"     -> DataRetention
    [] t = "continuous"      -> Continuous
    [] t = "continuous_crc"  -> ContinuousCrc
    [] t = "verify"          -> Verify
    [] t = "addr_change"     -> AddressChange
    [] t = "break_abort"     -> BreakAbort
    [] t = "conc_abort"      -> ConcurrentAbort
    [] t = "extended"        -> Extended
    [] t = "extended_ml"     -> ExtendedMultiline
    [] t = "meas_groups"     -> MeasurementGroups
    [] t = "conc_groups"     -> ConcurrentGroups
    [] t = "cont_groups"     -> ContinuousGroups
    [] t = "bus_scan"        -> BusScan
    [] t = "resp_compliance" -> ResponseCompliance
    [] t = "hv_ascii"        -> HighVolAscii
    [] t = "hv_binary"       -> HighVolBinary
    [] t = "identify_meas"   -> IdentifyMeas
    [] t = "ident_param_crc" -> IdentifyParams

Here     == Script(test)[at]
At(op)   == pc = "running" /\ Here.op = op
HighVolume == test \in {"hv_ascii", "hv_binary"}
Aborts     == {"break_abort", "conc_abort"}

\* The verdict of a test that came to its end.
Conclusion(l) ==
  CASE test \in {"meas_groups", "conc_groups", "cont_groups"} ->
         IF l.count = 0 THEN "SKIP" ELSE "PASS"
    [] test = "bus_scan"   -> IF l.count = 0 THEN "FAIL" ELSE "PASS"
    [] test = "resp_compliance" -> IF l.count > 0 THEN "FAIL" ELSE "PASS"
    [] OTHER               -> "PASS"

Return(v) == pc' = "idle" /\ at' = 0 /\ verdict' = v /\ UNCHANGED test
Proceed   == IF at < Len(Script(test))
             THEN at' = at + 1 /\ UNCHANGED <<pc, test, verdict>>
             ELSE Return(Conclusion(loc'))

-----------------------------------------------------------------------------
(* The sensor and the line.                                                *)

\* An aborted measurement leaves no data.
Aborted(s) ==
  [s EXCEPT !.busy = "no", !.next = <<>>,
            !.data = IF defect = "keeps" THEN s.next ELSE <<>>]
Finished(s) ==
  IF s.busy = "no" THEN s
  ELSE [s EXCEPT !.busy = "no", !.data = s.next, !.next = <<>>]

\* A break wakes the sensor and aborts all but a concurrent measurement.
Woken(s) ==
  LET w == IF s.busy = "M" THEN Aborted(s) ELSE s
  IN  [w EXCEPT !.awake = TRUE,
                !.data = IF defect = "forgets" THEN <<>> ELSE w.data]

Measuring == {"M", "C", "HA", "HB"}
Optional  == {"X", "HA", "HB"}
Offers(cmd) == IF cmd \in Measuring \cup {"R", "IM"}
               THEN [ttt : {0, 1}, pages : Layouts]
               ELSE {[ttt |-> 0, pages |-> <<>>]}

\* Its defect may be to drop the last page.
Given(pages) == IF defect = "few" THEN SubSeq(pages, 1, Len(pages) - 1) ELSE pages
UpTo(pages, k) == IF k = 0 THEN 0 ELSE pages[k]
Values(pages)  == UpTo(pages, Len(pages))

\* A command that reaches the sensor: it aborts a concurrent measurement.
Obeyed(c, m) ==
  LET s == IF sensor.busy = "C" THEN Aborted(sensor) ELSE sensor
  IN  CASE c.cmd \in Measuring /\ m.ttt = 0 -> [s EXCEPT !.data = Given(m.pages)]
        [] c.cmd \in Measuring /\ m.ttt > 0 ->
             [s EXCEPT !.data = <<>>, !.next = Given(m.pages),
                       !.busy = IF c.cmd = "C" THEN "C" ELSE "M"]
        [] c.cmd = "A" /\ defect # "stays" ->
             [s EXCEPT !.addr = IF c.to = "own" THEN "temp" ELSE "own",
                       !.saving = TRUE]
        [] OTHER -> s

Addressed(c) == c.to \in {sensor.addr, "all"} \/ defect = "any address"
Hears(c) ==
  sensor.awake /\ ~sensor.saving /\ sensor.busy # "M" /\ Addressed(c)

\* What becomes of a command, and how much of that is a loss.
Fates(c) ==
  {"ok"} \cup (IF Hears(c) /\ c.cmd \in Optional THEN {"ignored"} ELSE {})
         \cup (IF Hears(c) /\ lost < MaxLost
               THEN {"unheard", "unanswered", "garbled"} ELSE {})
Line(fate) ==
  LET loss == fate \notin {"ok", "ignored"}
  IN  /\ lost' = IF loss THEN lost + 1 ELSE lost
      /\ missed' = IF loss THEN missed \cup {at} ELSE missed
      /\ UNCHANGED defect

Arrives(c, fate) == Hears(c) /\ fate \notin {"unheard", "ignored"}

Exchange(c, fate, m) ==
  /\ Line(fate)
  /\ sensor' = IF Arrives(c, fate) THEN Obeyed(c, m)
               ELSE IF Addressed(c) THEN sensor
               ELSE [sensor EXCEPT !.awake = FALSE]

\* sdi12_err_t of the call, and the values of its answer.
Err(c, fate) == IF ~Arrives(c, fate) \/ fate = "unanswered" THEN "timeout"
                ELSE IF fate = "garbled" THEN "bad" ELSE "ok"
Page(k) == IF k < Len(sensor'.data)
           THEN UpTo(sensor'.data, k + 1) - UpTo(sensor'.data, k) ELSE 0

\* By itself the sensor ends a measurement, early or not, or its storing.
Finish ==
  /\ sensor.busy # "no"
  /\ sensor' = Finished(sensor)
  /\ missed' = IF pc = "running" /\ test \in Aborts THEN missed \cup {at} ELSE missed
  /\ UNCHANGED <<pc, test, at, loc, binary, verdict, defect, lost>>

Saved ==
  /\ sensor.saving
  /\ sensor' = [sensor EXCEPT !.saving = FALSE]
  /\ UNCHANGED <<pc, test, at, loc, binary, verdict, defect, lost, missed>>

-----------------------------------------------------------------------------
(* Steps that ask nothing.                                                 *)

Begin ==
  /\ pc = "idle"
  /\ test' \in Tests
  /\ pc' = "running" /\ at' = 1 /\ loc' = Cleared /\ verdict' = "none"
  /\ missed' = IF sensor.addr = "own" /\ ~sensor.saving THEN {} ELSE {0}
  /\ UNCHANGED <<binary, sensor, defect, lost>>

\* sdi12_master_send_break.
Break ==
  /\ At("break")
  /\ \/ Line("ok") /\ sensor' = Woken(sensor)
     \/ lost < MaxLost /\ Line("unheard") /\ UNCHANGED sensor
  /\ UNCHANGED <<loc, binary>>
  /\ Proceed

\* A test is skipped without values, or without a measurement to wait for; that
\* of the metadata is over.
Some ==
  /\ At("some") \/ At("slow")
  /\ UNCHANGED <<loc, binary, sensor, defect, lost, missed>>
  /\ IF (IF Here.op = "some" THEN loc.n ELSE loc.ttt) = 0
     THEN Return(IF test = "identify_meas" THEN "PASS" ELSE "SKIP") ELSE Proceed

\* sdi12_master_wait_service_request for longer than the sensor may take.  A
\* sensor that is left waiting for a command goes back to sleep.
BugAwaits == loc.ttt > 1
Awaits    == loc.ttt > 0
Await ==
  /\ At("await") \/ At("heed")
  /\ UNCHANGED <<loc, binary>>
  /\ \/ ~Awaits /\ UNCHANGED <<sensor, defect, lost, missed>> /\ Proceed
     \/ /\ Awaits
        /\ \E fate \in IF lost < MaxLost THEN {"ok", "unheard"} ELSE {"ok"} :
             LET heard == fate = "ok" /\ defect # "no request"
             IN  /\ Line(fate)
                 /\ sensor' = [Finished(sensor) EXCEPT !.awake = heard]
                 /\ IF Here.op = "heed" /\ ~heard THEN Return("FAIL") ELSE Proceed

\* The test of a concurrent measurement waits for as long as that may take.
Delay ==
  /\ At("delay")
  /\ sensor' = IF loc.ttt > 0 THEN [Finished(sensor) EXCEPT !.awake = FALSE]
               ELSE sensor
  /\ UNCHANGED <<loc, binary, defect, lost, missed>>
  /\ Proceed

\* The second that a sensor may take to store its address is waited for after
\* each change, and then the test of a restored address may be over.
Settle ==
  /\ At("settle")
  /\ sensor' = [sensor EXCEPT !.saving = FALSE, !.awake = FALSE]
  /\ UNCHANGED <<loc, binary, defect, lost, missed>>
  /\ IF verdict = "FAIL" THEN Return("FAIL")
     ELSE IF loc.err # "ok" THEN Return("ERROR") ELSE Proceed

\* timing_set_binary_recv(ctx, true).
SetBinary ==
  /\ At("binary")
  /\ binary' = TRUE
  /\ UNCHANGED <<loc, sensor, defect, lost, missed>>
  /\ Proceed

-----------------------------------------------------------------------------
(* Steps that ask, and how they judge the answer.                          *)

\* a!, ?!, aI!, aR0!, aX! and the commands for one parameter.
AskFailed(err) ==
  CASE test \in {"response_time", "interchar_gap", "addr_change"} -> "ERROR"
    [] test = "identify_ver" /\ err = "timeout"                   -> "ERROR"
    [] test \in {"extended", "extended_ml"} /\ err = "timeout"    -> "SKIP"
    [] OTHER                                                      -> "FAIL"
Ask(err) ==
  /\ Here.op = "ask"
  /\ UNCHANGED <<loc, binary>>
  /\ IF err = "ok" /\ (Here.to = "all" => sensor.addr = "own")
     THEN Proceed ELSE Return(AskFailed(err))

\* The metadata of each parameter, which a sensor need not have.
Params(err) ==
  /\ Here.op = "params"
  /\ UNCHANGED binary
  /\ loc' = [loc EXCEPT !.count = @ + 1]
  /\ IF loc.count + 1 < loc.n THEN UNCHANGED <<pc, test, at, verdict>> ELSE Proceed

\* test_wrong_address_silence.
Hush(err) ==
  /\ Here.op = "hush"
  /\ UNCHANGED <<loc, binary>>
  /\ IF err = "ok" THEN Return("FAIL") ELSE Proceed

\* The start of a measurement.
StartFailed(err) ==
  CASE test \in {"service_req", "data_d0"} \cup Aborts -> "ERROR"
    [] test = "data_retain"                            -> "SKIP"
    [] HighVolume /\ err = "timeout"                   -> "SKIP"
    [] OTHER                                           -> "FAIL"
Start(err, m) ==
  /\ Here.op = "start"
  /\ UNCHANGED binary
  /\ IF err = "ok"
     THEN loc' = [loc EXCEPT !.ttt = m.ttt, !.n = Values(m.pages)] /\ Proceed
     ELSE UNCHANGED loc /\ Return(StartFailed(err))

\* One group: silence is a violation, an error is not.
Group(err, m) ==
  /\ Here.op = "group"
  /\ UNCHANGED binary
  /\ loc' = [loc EXCEPT !.count = IF err = "ok" /\ Values(m.pages) > 0
                                  THEN @ + 1 ELSE @]
  /\ IF err = "timeout" THEN Return("FAIL") ELSE Proceed

\* One address of test_bus_scan, one probe of test_response_compliance.
Probe(err) ==
  /\ Here.op \in {"look", "must", "may", "mustnot"}
  /\ UNCHANGED binary
  /\ loc' = [loc EXCEPT !.count =
               IF \/ Here.op \in {"look", "mustnot"} /\ err = "ok"
                  \/ Here.op = "must" /\ err = "timeout"
               THEN @ + 1 ELSE @]
  /\ Proceed

\* The address is changed, looked for, and changed back even if not found.
Change(err) ==
  /\ Here.op = "change"
  /\ UNCHANGED <<loc, binary>>
  /\ IF err = "ok" THEN Proceed ELSE Return("FAIL")

BugFound(err) ==
  /\ Here.op = "found"
  /\ UNCHANGED <<loc, binary>>
  /\ IF err = "ok" THEN Proceed ELSE Return("FAIL")
Found(err) ==
  /\ Here.op = "found"
  /\ UNCHANGED <<loc, binary, pc, test>>
  /\ at' = at + 1
  /\ verdict' = IF err = "ok" THEN verdict ELSE "FAIL"

Restore(err) ==
  /\ Here.op = "restore"
  /\ loc' = [loc EXCEPT !.err = err]
  /\ UNCHANGED binary
  /\ Proceed

\* One page of data, and in test_data_retention the same page again.
Data(err) ==
  /\ Here.op \in {"data", "again"}
  /\ UNCHANGED binary
  /\ loc' = [loc EXCEPT !.first = IF Here.op = "data" THEN Page(0) ELSE @]
  /\ IF err = "ok" /\ (Here.op = "again" => Page(0) = loc.first)
     THEN Proceed ELSE Return("FAIL")

\* The data after an abort.
Empty(err) ==
  /\ Here.op = "empty"
  /\ UNCHANGED <<loc, binary>>
  /\ IF err = "ok" /\ Page(0) > 0 THEN Return("FAIL") ELSE Proceed

\* Page after page until all values are there; high volume ends with an
\* empty one.  Every way out of hv_binary_cycle's loop resets the receive mode.
BugTextMode(err)  == IF err = "ok" THEN FALSE ELSE binary
TextMode(err)     == FALSE
BugCounted(total) == TRUE
Counted(total)    == total = loc.n
More(total)       == total < loc.n /\ loc.page + 1 < MaxPages
Pages(err) ==
  /\ Here.op = "pages"
  /\ LET total == loc.total + Page(loc.page)
         empty == HighVolume /\ Page(loc.page) = 0
     IN  CASE err # "ok" ->
                /\ UNCHANGED loc /\ binary' = TextMode(err) /\ Return("FAIL")
           [] err = "ok" /\ More(total) /\ ~empty ->
                /\ loc' = [loc EXCEPT !.total = total, !.page = @ + 1]
                /\ UNCHANGED <<pc, test, at, verdict, binary>>
           [] OTHER ->
                /\ loc' = [loc EXCEPT !.total = total, !.page = @ + 1]
                /\ binary' = TextMode(err)
                /\ IF Counted(total) THEN Proceed ELSE Return("FAIL")

Transact ==
  /\ pc = "running" /\ Here.cmd # "none"
  /\ \E fate \in Fates(Here), m \in Offers(Here.cmd) :
       /\ Exchange(Here, fate, m)
       /\ LET err == Err(Here, fate)
          IN  \/ Ask(err) \/ Params(err) \/ Hush(err) \/ Start(err, m) \/ Group(err, m)
              \/ Probe(err) \/ Change(err) \/ Found(err)
              \/ Restore(err) \/ Data(err) \/ Empty(err)
              \/ Pages(err)

Next ==
  \/ Begin \/ Finish \/ Saved
  \/ Break \/ Some \/ Await \/ Delay \/ Settle \/ SetBinary
  \/ Transact

Spec == Init /\ [][Next]_vars

-----------------------------------------------------------------------------
(* What the tests owe the sensor, and their reader.                        *)

Over  == pc = "idle"
Clean == missed = {}

\* A sensor that does as it should is neither failed nor found in error by a
\* test that loses nothing, whatever the tests before it left behind.
CompliantNotFailed ==
  Over /\ Clean /\ defect = "none" => verdict \in {"none", "PASS", "SKIP"}

\* A test that is about a defect does not pass the sensor that has it; for the
\* first three defects not even when the line lost something.
DefectFound ==
  Over /\ verdict = "PASS"
    => CASE defect = "no request"  -> test # "service_req"
         [] defect = "few"         -> test \notin {"data_d0", "hv_ascii", "hv_binary"}
         [] defect = "stays"       -> test # "addr_change"
         [] defect = "forgets"     -> Clean => test # "data_retain"
         [] defect = "any address" -> Clean => test \notin {"wrong_addr", "resp_compliance"}
         [] defect = "keeps"       -> Clean /\ test \in Aborts => sensor.data = <<>>
         [] OTHER                  -> TRUE

\* test_address_change leaves the sensor at another address only if the change,
\* the restoring change or the break before that was lost, and does not pass it.
RestoredUnlessLost ==
  Over /\ test = "addr_change" /\ sensor.addr # "own"
    => missed \cap {0, 2, 6, 7} # {} /\ verdict # "PASS"

\* The binary receive mode is on only while test_hv_binary reads its pages,
\* however that ends.
FramingRestored == binary => test = "hv_binary" /\ At("pages")

\* No test asks for data while the sensor measures, unless to see that it
\* was aborted, whatever the line loses.
MeasurementAwaited ==
  pc = "running" /\ Here.op \in {"data", "again", "pages"} => sensor.busy = "no"
==============================================================================
