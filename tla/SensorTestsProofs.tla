--------------------------- MODULE SensorTestsProofs -------------------------
(***************************************************************************)
(* Theorems about SensorTests, for every choice of tests, measurements,    *)
(* number of pages, groups and losses.                                     *)
(***************************************************************************)
EXTENDS SensorTests, TLAPS

-----------------------------------------------------------------------------
(* The scripts.  Each fact about a step and the one behind it that the     *)
(* proofs need holds of every script.                                      *)

Quiet == {"break", "some", "slow", "await", "heed", "delay", "settle", "binary"}
Asks  == {"ask", "params", "hush", "start", "group", "look", "must", "may",
          "mustnot", "change", "found", "restore", "data", "again", "empty",
          "pages"}
Reads == {"data", "again", "pages"}
Waits == {"await", "heed", "delay"}

\* A measurement has been started whose end is yet to be waited for, if it
\* must be.
Begun(t, i) ==
  \/ t \in {"meas_mc", "meas_cc", "data_d0"} /\ i = 3
  \/ t \in {"data_retain", "hv_ascii", "hv_binary"} /\ i \in {3, 4}

\* It has been waited for.
Waited(t, i) ==
  \/ t \in {"meas_mc", "data_d0"} /\ i \in {4, 5}
  \/ t = "meas_cc" /\ i \in {4, 5, 6}
  \/ t = "data_retain" /\ i \in {5, 6, 7}
  \/ t = "hv_ascii" /\ i = 5
  \/ t = "hv_binary" /\ i \in {5, 6}

\* Its pages are still those it gave.
Chained(t, i) == 
  Begun(t, i) \/ (Waited(t, i) /\ t # "meas_cc" /\ ~(t = "data_retain" /\ i = 7))

\* It has values.
Rich(t, i) ==
  \/ t = "data_d0" /\ i = 5
  \/ t \in {"data_retain", "hv_ascii", "hv_binary"} /\ i \in {4, 5, 6, 7}

\* The sensor has been woken by a break, and not left since.
Woke(t, c) ==
  \/ c.cmd # "none"
  \/ c.op \in {"some", "slow", "await", "heed", "binary"} /\ t # "meas_cc"

\* It does not measure, or a measurement that a command would abort.
Calm(t, i, c) ==
  \/ c.cmd # "none"
  \/ t \in {"conc_abort", "identify_meas", "addr_change"} /\ i > 1
  \/ Waited(t, i)

\* What is so of step i, c, of the n of test t ...
Sound(t, i, c, n) ==
  /\ c.op \in IF c.cmd = "none" THEN Quiet ELSE Asks
  /\ c.to \in {"own", "temp", "other", "all"}
  /\ i = 1 => c.op = "break"
  /\ c.op \in Reads => Waited(t, i) /\ c.cmd = "D" /\ c.to = "own"
  /\ (c.op = "again") <=> (t = "data_retain" /\ i = 7)
  /\ c.op = "data" /\ t = "data_retain" => i = 5
  /\ t = "data_retain" /\ i > 4 => c.op \in {"data", "again", "break"}
  /\ c.op = "pages" => i = n /\ t \in {"data_d0", "hv_ascii", "hv_binary"}
  /\ (t \in {"data_d0", "hv_ascii", "hv_binary"}) /\ i = n => c.op = "pages"
  /\ c.op = "pages" => Rich(t, i)
  /\ c.op = "binary" => t = "hv_binary" /\ i = 5 /\ n = 6
  /\ c.op = "params" => t = "identify_meas" /\ c.to = "own" /\ c.cmd = "I"
  /\ c.op = "start" => i = 2 /\ c.to = "own" /\ c.cmd \in Measuring \cup {"IM"}
  /\ c.op \in {"change", "found", "restore", "settle"} => t = "addr_change"
  /\ c.cmd = "A" => t = "addr_change"
  /\ c.cmd = "IM" => t = "identify_meas"
  /\ c.cmd \in Optional => \/ c.op = "ask" /\ t \in {"extended", "extended_ml"}
                           \/ c.op = "start" /\ t \in {"hv_ascii", "hv_binary"}
                           \/ c.op = "may"
  /\ c.to \in {"temp", "other"} => \/ c.op \in {"look", "hush", "mustnot"}
                                   \/ t = "addr_change"
  /\ c.op \in {"hush", "mustnot"} => c.to = "other"
  /\ c.op = "found" => i < n
  /\ c.op = "look" => t = "bus_scan"
  /\ c.op \in {"must", "may", "mustnot"} => t = "resp_compliance"
  /\ t = "bus_scan" => c.op = "look" \/ (c.op = "break" /\ i < n)
  /\ t = "resp_compliance" => \/ c.op \in {"must", "may"} /\ i < n
                              \/ c.op = "break" /\ i < n
                              \/ c.op = "mustnot" /\ i = n
  /\ t = "wrong_addr" /\ i = n => c.op = "hush"
  /\ c.op = "hush" => t = "wrong_addr"
  /\ t = "service_req" /\ i = n => c.op = "heed" /\ i = 5
  /\ t = "service_req" /\ i = 3 => c.op = "slow"
  /\ c.op = "empty" => t \in Aborts /\ i = 6 /\ i = n /\ c.cmd = "D" /\ c.to = "own"

\* ... and of the step behind it.
Follows(t, i, c, d) ==
  /\ Begun(t, i + 1) => \/ c.op = "start" /\ c.cmd \in Measuring
                        \/ Begun(t, i) /\ c.op = "some"
  /\ Waited(t, i + 1) => \/ Begun(t, i) /\ c.op \in Waits
                         \/ Waited(t, i) /\ c.op \in {"some", "break", "binary"} \cup Reads
  /\ Chained(t, i + 1) => \/ c.op = "start" /\ c.cmd \in Measuring
                          \/ /\ Chained(t, i)
                             /\ c.op \in {"some", "binary"} \cup Waits \cup Reads
  /\ Rich(t, i + 1) => c.op = "some" \/ (Rich(t, i) /\ c.op # "start")
  /\ Woke(t, d) => \/ c.op = "break"
                   \/ /\ Woke(t, c) /\ c.op \notin {"delay", "settle"}
                      /\ c.to \in {"own", "all"}
  /\ Calm(t, i + 1, d) => \/ c.op = "break"
                          \/ Calm(t, i, c) /\ c.cmd \notin {"M", "HA", "HB"}
                          \/ Waited(t, i + 1)

WellMade(t, s) ==
  /\ Len(s) \in Nat /\ Len(s) >= 2
  /\ \A i \in 1 .. Len(s) : Sound(t, i, s[i], Len(s))
  /\ \A i \in 1 .. Len(s) - 1 : Follows(t, i, s[i], s[i + 1])

\* The three tests of measurement groups are well made.
LEMMA GroupsWellMade ==
  ASSUME NEW t \in {"meas_groups", "conc_groups", "cont_groups"},
         NEW cmd \in {"M", "C", "R"}
  PROVE  WellMade(t, GroupTest(cmd))
<1> DEFINE s == GroupTest(cmd)
<1> USE DEF Brk, Own, Do, Step, Quiet, Asks, Reads, Waits, Begun, Waited, Chained, Rich,
            Woke, Calm, Measuring, Optional, Aborts
<1>1. Groups \in Nat /\ Groups > 0
  BY BoundsNatural
<1>2. Len(s) = 2 * Groups + 1 /\ Len(s) \in Nat /\ Len(s) >= 2
  BY <1>1 DEF GroupTest
<1>3. \A i \in 1 .. Len(s) : s[i] = IF i % 2 = 1 THEN Brk ELSE Own("group", cmd)
  BY <1>1, <1>2 DEF GroupTest
<1> HIDE DEF s
<1>4. ASSUME NEW i \in 1 .. Len(s)
      PROVE  Sound(t, i, s[i], Len(s))
  <2>1. i = 1 => i % 2 = 1
    OBVIOUS
  <2>2. CASE i % 2 = 1
    BY <1>3, <2>2 DEF Sound
  <2>3. CASE i % 2 # 1
    BY <1>3, <2>1, <2>3 DEF Sound
  <2>4. QED
    BY <2>2, <2>3
<1>5. ASSUME NEW i \in 1 .. Len(s) - 1
      PROVE  Follows(t, i, s[i], s[i + 1])
  <2>1. i \in 1 .. Len(s) /\ i + 1 \in 1 .. Len(s)
    BY <1>2
  <2>2. i % 2 = 1 \/ (i + 1) % 2 = 1
    BY <1>2
  <2>3. s[i] = Brk \/ s[i + 1] = Brk
    BY <1>3, <2>1, <2>2
  <2>4. s[i] \in {Brk, Own("group", cmd)}
    BY <1>3, <2>1
  <2>5. QED
    BY <2>3, <2>4 DEF Follows
<1>6. QED
  BY <1>2, <1>4, <1>5 DEF WellMade, s

\* The scripts of two tests, in full.
LEMMA ComplianceSteps ==
  ResponseCompliance =
    <<Brk, Own("must", "ack"), Brk, Own("must", "I"), Brk, Own("must", "M"),
      Brk, Own("must", "D"), Brk, Step("must", "query", "all"), Brk, Own("may", "C"),
      Brk, Own("may", "R"), Brk, Own("may", "X"), Brk, Step("mustnot", "ack", "other")>>
BY DEF ResponseCompliance, AfterBreaks

\* The other of the two.
LEMMA ScanSteps ==
  BusScan = <<Brk, Step("look", "ack", "temp"), Brk, Step("look", "ack", "own"),
              Brk, Step("look", "ack", "other")>>
BY DEF BusScan, Looks, AfterBreaks

\* The script of each test.
LEMMA Scripts ==
  /\ Script("acknowledge") = Asked("ack")
  /\ Script("response_time") = Asked("ack")
  /\ Script("identify") = Asked("I")
  /\ Script("identify_ver") = Asked("I")
  /\ Script("interchar_gap") = Asked("I")
  /\ Script("continuous") = Asked("R")
  /\ Script("continuous_crc") = Asked("R")
  /\ Script("extended") = Asked("X")
  /\ Script("extended_ml") = Asked("X")
  /\ Script("meas_m") = Started("M")
  /\ Script("meas_c") = Started("C")
  /\ Script("verify") = Started("M")
  /\ Script("meas_groups") = GroupTest("M")
  /\ Script("conc_groups") = GroupTest("C")
  /\ Script("cont_groups") = GroupTest("R")
  /\ Script("query_address") = QueryAddress
  /\ Script("wrong_addr") = WrongAddress
  /\ Script("ident_param_crc") = IdentifyParams
  /\ Script("identify_meas") = IdentifyMeas
  /\ Script("meas_mc") = MeasurementCrc
  /\ Script("meas_cc") = ConcurrentCrc
  /\ Script("service_req") = ServiceRequest
  /\ Script("data_d0") = DataRetrieval
  /\ Script("data_retain") = DataRetention
  /\ Script("break_abort") = BreakAbort
  /\ Script("conc_abort") = ConcurrentAbort
  /\ Script("hv_ascii") = HighVolAscii
  /\ Script("hv_binary") = HighVolBinary
  /\ Script("addr_change") = AddressChange
  /\ Script("bus_scan") = BusScan
  /\ Script("resp_compliance") = ResponseCompliance
BY DEF Script, Acknowledge, ResponseTiming, Identify, IdentifyVersion, IntercharGap, Continuous, ContinuousCrc, Extended, ExtendedMultiline, MeasurementM, MeasurementC, Verify, MeasurementGroups, ConcurrentGroups, ContinuousGroups

\* A test of a break and one question is well made.
LEMMA AskedWellMade ==
  ASSUME NEW t \in {"acknowledge", "response_time", "identify", "identify_ver", "interchar_gap", "continuous", "continuous_crc", "extended", "extended_ml"},
         NEW cmd \in {"ack", "I", "R", "X"},
         cmd = "X" => t \in {"extended", "extended_ml"}
  PROVE  WellMade(t, Asked(cmd))
BY DEF Asked, WellMade, Sound, Follows, Brk, Own, Do, Step, Quiet, Asks, Reads, Waits, Begun,
       Waited, Chained, Rich, Woke, Calm, Measuring, Optional, Aborts

\* So is one that starts a measurement and looks at the answer.
LEMMA StartedWellMade ==
  ASSUME NEW t \in {"meas_m", "meas_c", "verify"}, NEW cmd \in {"M", "C"}
  PROVE  WellMade(t, Started(cmd))
BY DEF Started, WellMade, Sound, Follows, Brk, Own, Do, Step, Quiet, Asks, Reads, Waits, Begun,
       Waited, Chained, Rich, Woke, Calm, Measuring, Optional, Aborts

\* So are the tests with a script of their own.
LEMMA OthersWellMade ==
  /\ WellMade("query_address", QueryAddress)
  /\ WellMade("wrong_addr", WrongAddress)
  /\ WellMade("ident_param_crc", IdentifyParams)
  /\ WellMade("identify_meas", IdentifyMeas)
  /\ WellMade("meas_mc", MeasurementCrc)
  /\ WellMade("meas_cc", ConcurrentCrc)
  /\ WellMade("service_req", ServiceRequest)
  /\ WellMade("data_d0", DataRetrieval)
  /\ WellMade("data_retain", DataRetention)
  /\ WellMade("break_abort", BreakAbort)
  /\ WellMade("conc_abort", ConcurrentAbort)
  /\ WellMade("hv_ascii", HighVolAscii)
  /\ WellMade("hv_binary", HighVolBinary)
  /\ WellMade("addr_change", AddressChange)
  /\ WellMade("bus_scan", BusScan)
  /\ WellMade("resp_compliance", ResponseCompliance)
<1> USE DEF Sound, Follows, Brk, Own, Do, Step, Quiet, Asks, Reads, Waits, Begun,
       Waited, Chained, Rich, Woke, Calm, Measuring, Optional, Aborts
<1>1. WellMade("query_address", QueryAddress)
  BY DEF WellMade, QueryAddress
<1>2. WellMade("wrong_addr", WrongAddress)
  BY DEF WellMade, WrongAddress
<1>3. WellMade("ident_param_crc", IdentifyParams)
  BY DEF WellMade, IdentifyParams
<1>4. WellMade("identify_meas", IdentifyMeas)
  BY DEF WellMade, IdentifyMeas
<1>5. WellMade("meas_mc", MeasurementCrc)
  BY DEF WellMade, MeasurementCrc
<1>6. WellMade("meas_cc", ConcurrentCrc)
  BY DEF WellMade, ConcurrentCrc
<1>7. WellMade("service_req", ServiceRequest)
  BY DEF WellMade, ServiceRequest
<1>8. WellMade("data_d0", DataRetrieval)
  BY DEF WellMade, DataRetrieval
<1>9. WellMade("data_retain", DataRetention)
  BY DEF WellMade, DataRetention
<1>10. WellMade("break_abort", BreakAbort)
  BY DEF WellMade, BreakAbort
<1>11. WellMade("conc_abort", ConcurrentAbort)
  BY DEF WellMade, ConcurrentAbort
<1>12. WellMade("hv_ascii", HighVolAscii)
  BY DEF WellMade, HighVolAscii
<1>13. WellMade("hv_binary", HighVolBinary)
  BY DEF WellMade, HighVolBinary
<1>14. WellMade("addr_change", AddressChange)
  BY DEF WellMade, AddressChange
<1>15. WellMade("bus_scan", BusScan)
  BY ScanSteps DEF WellMade
<1>16. WellMade("resp_compliance", ResponseCompliance)
  BY ComplianceSteps DEF WellMade
<1>17. QED
  BY <1>1, <1>2, <1>3, <1>4, <1>5, <1>6, <1>7, <1>8, <1>9, <1>10, <1>11, <1>12, <1>13, <1>14, <1>15, <1>16

\* So are all 31.
LEMMA ScriptsWellMade ==
  ASSUME NEW t \in AllTests
  PROVE  WellMade(t, Script(t))
<1>1. CASE t \in {"acknowledge", "response_time", "identify", "identify_ver", "interchar_gap", "continuous", "continuous_crc", "extended", "extended_ml"}
  BY <1>1, Scripts, AskedWellMade
<1>2. CASE t \in {"meas_m", "meas_c", "verify"}
  BY <1>2, Scripts, StartedWellMade
<1>3. CASE t \in {"meas_groups", "conc_groups", "cont_groups"}
  BY <1>3, Scripts, GroupsWellMade
<1>4. CASE t \in {"query_address", "wrong_addr", "ident_param_crc", "identify_meas", "meas_mc", "meas_cc", "service_req", "data_d0", "data_retain", "break_abort", "conc_abort", "hv_ascii", "hv_binary", "addr_change", "bus_scan", "resp_compliance"}
  BY <1>4, Scripts, OthersWellMade
<1>5. QED
  BY <1>1, <1>2, <1>3, <1>4 DEF AllTests

-----------------------------------------------------------------------------
(* Types.                                                                  *)

\* The pages a sensor may hold: those of a measurement, or all but the last.
Held == Layouts \cup {SubSeq(l, 1, Len(l) - 1) : l \in Layouts}

\* A sequence without its last element.
LEMMA WithoutLast ==
  ASSUME NEW l \in Seq(Nat \ {0}), Len(l) > 0, NEW d, d = SubSeq(l, 1, Len(l) - 1)
  PROVE  /\ d \in Seq(Nat \ {0}) /\ Len(d) = Len(l) - 1
         /\ \A i \in 1 .. Len(l) - 1 : d[i] = l[i]
<1>1. Len(l) \in Nat /\ DOMAIN l = 1 .. Len(l)
  OBVIOUS
<1>2. QED
  BY <1>1

\* The pages a sensor may hold: each ends further on than the one before.
LEMMA HeldPages ==
  ASSUME NEW d \in Held
  PROVE  /\ d \in Seq(Nat \ {0}) /\ Len(d) \in Nat /\ Len(d) <= MaxPages
         /\ \A i, j \in 1 .. Len(d) : i < j => d[i] < d[j]
<1>1. CASE d \in Layouts
  <2>1. d \in Seq(Nat \ {0}) /\ Len(d) <= MaxPages
    BY <1>1, LayoutsFit
  <2>2. DOMAIN d = 1 .. Len(d) /\ Len(d) \in Nat
    BY <2>1
  <2>3. \A i, j \in DOMAIN d : i < j => d[i] < d[j]
    BY <1>1, LayoutsFit
  <2>4. QED
    BY <2>1, <2>2, <2>3
<1>2. ASSUME NEW l \in Layouts, d = SubSeq(l, 1, Len(l) - 1)
      PROVE  /\ d \in Seq(Nat \ {0}) /\ Len(d) \in Nat /\ Len(d) <= MaxPages
             /\ \A i, j \in 1 .. Len(d) : i < j => d[i] < d[j]
  <2>1. l \in Seq(Nat \ {0}) /\ Len(l) <= MaxPages
    BY LayoutsFit
  <2>2. DOMAIN l = 1 .. Len(l) /\ Len(l) \in Nat
    BY <2>1
  <2>3. \A i, j \in 1 .. Len(l) : i < j => l[i] < l[j]
    BY <2>2, LayoutsFit
  <2>4. CASE Len(l) = 0
    <3>1. d = <<>>
      BY <1>2, <2>1, <2>4
    <3>2. QED
      BY <3>1, BoundsNatural
  <2>5. CASE Len(l) > 0
    <3>1. /\ d \in Seq(Nat \ {0}) /\ Len(d) = Len(l) - 1
          /\ \A i \in 1 .. Len(l) - 1 : d[i] = l[i]
      BY <1>2, <2>1, <2>5, WithoutLast
    <3>2. QED
      BY <2>1, <2>2, <2>3, <2>5, <3>1, BoundsNatural
  <2>6. QED
    BY <2>2, <2>4, <2>5
<1>3. QED
  BY <1>1, <1>2 DEF Held

\* A sensor holds no pages, or those it gives of a layout.
LEMMA GivenHeld ==
  /\ <<>> \in Held
  /\ \A l \in Layouts : Given(l) \in Held
BY LayoutsFit DEF Held, Given

\* The number of values up to a page, and of all.
LEMMA UpToNatural ==
  ASSUME NEW d \in Held
  PROVE  /\ \A k \in 0 .. Len(d) : UpTo(d, k) \in Nat
         /\ Values(d) \in Nat
         /\ Values(d) = 0 <=> Len(d) = 0
BY HeldPages DEF UpTo, Values

Errs    == {"ok", "timeout", "bad"}
Sensors == [addr : {"own", "temp"}, awake : BOOLEAN, saving : BOOLEAN,
            busy : {"no", "M", "C"}, next : Held, data : Held]
Locals  == [ttt : Nat, n : Nat, total : Int, page : Nat, count : Nat,
            first : Int, err : Errs]

TypeOK ==
  /\ pc \in {"idle", "running"} /\ test \in AllTests
  /\ pc = "running" => at \in 1 .. Len(Script(test))
  /\ loc \in Locals /\ binary \in BOOLEAN
  /\ verdict \in {"none", "PASS", "FAIL", "SKIP", "ERROR"}
  /\ sensor \in Sensors /\ defect \in AllDefects
  /\ lost \in Nat /\ missed \subseteq Nat

\* Where the test is after a step of its own.
Stays  == pc' = "running" /\ test' = test /\ at' = at
Steps  == /\ pc' = "running" /\ test' = test /\ at' = at + 1
          /\ at < Len(Script(test)) /\ Here' = Script(test)[at + 1]
Leaves == pc' = "idle" /\ test' = test

\* The step a running test is at, and the one behind it.
LEMMA HereSound ==
  ASSUME TypeOK, pc = "running"
  PROVE  /\ at \in Nat /\ at >= 1 /\ Len(Script(test)) \in Nat
         /\ Sound(test, at, Here, Len(Script(test)))
         /\ at < Len(Script(test))
              => Follows(test, at, Here, Script(test)[at + 1])
BY ScriptsWellMade DEF TypeOK, WellMade, Here

\* A test goes on to its next step, or ends with its conclusion.
LEMMA Proceeding ==
  ASSUME TypeOK, pc = "running", Proceed
  PROVE  (Steps /\ verdict' = verdict) \/ (Leaves /\ verdict' = Conclusion(loc)')
BY DEF Proceed, Return, Steps, Leaves, Here, Conclusion

\* A measurement on offer has a time to wait and a layout.
LEMMA OfferTyped ==
  ASSUME NEW cmd, NEW m \in Offers(cmd)
  PROVE  m.ttt \in {0, 1} /\ m.pages \in Layouts
BY LayoutsFit DEF Offers

\* A sensor stays one when it is aborted, finishes or is woken.
LEMMA SensorTyped ==
  ASSUME TypeOK, NEW s \in Sensors
  PROVE  /\ Aborted(s) \in Sensors /\ Finished(s) \in Sensors
         /\ Woken(s) \in Sensors
<1>1. Aborted(s) \in Sensors /\ Finished(s) \in Sensors
  BY GivenHeld DEF Sensors, Aborted, Finished
<1>2. QED
  BY <1>1, GivenHeld DEF Sensors, Woken

\* And when it obeys a command.
LEMMA ObeyedTyped ==
  ASSUME TypeOK, NEW c, NEW m \in Offers(c.cmd)
  PROVE  Obeyed(c, m) \in Sensors
<1> DEFINE s == IF sensor.busy = "C" THEN Aborted(sensor) ELSE sensor
<1>1. s \in Sensors
  BY SensorTyped DEF TypeOK
<1>2. Given(m.pages) \in Held /\ <<>> \in Held
  BY OfferTyped, GivenHeld
<1> HIDE DEF s
<1>3. /\ [s EXCEPT !.data = Given(m.pages)] \in Sensors
      /\ [s EXCEPT !.data = <<>>, !.next = Given(m.pages),
                   !.busy = IF c.cmd = "C" THEN "C" ELSE "M"] \in Sensors
      /\ [s EXCEPT !.addr = IF c.to = "own" THEN "temp" ELSE "own",
                   !.saving = TRUE] \in Sensors
  BY <1>1, <1>2 DEF Sensors
<1>4. QED
  BY <1>1, <1>3 DEF Obeyed, s

\* What the line does is counted, and remembered with its step.
LEMMA LineTyped ==
  ASSUME TypeOK, pc = "running", NEW fate, Line(fate)
  PROVE  /\ lost' \in Nat /\ missed' \subseteq Nat /\ defect' = defect
         /\ fate \in {"ok", "ignored"} => missed' = missed
         /\ fate \notin {"ok", "ignored"} => missed' = missed \cup {at}
<1>1. at \in Nat
  BY HereSound
<1>2. lost' \in Nat /\ defect' = defect
  BY DEF Line, TypeOK
<1>3. missed' = IF fate \notin {"ok", "ignored"} THEN missed \cup {at} ELSE missed
  BY DEF Line
<1>4. QED
  BY <1>1, <1>2, <1>3 DEF TypeOK

\* A command and its answer keep the types.
LEMMA ExchangeTyped ==
  ASSUME TypeOK, pc = "running", NEW fate \in Fates(Here), NEW m \in Offers(Here.cmd),
         Exchange(Here, fate, m)
  PROVE  /\ sensor' \in Sensors /\ lost' \in Nat /\ missed' \subseteq Nat
         /\ defect' = defect /\ Err(Here, fate) \in Errs
<1>1. sensor' \in Sensors
  <2>1. Obeyed(Here, m) \in Sensors
    BY ObeyedTyped
  <2>2. [sensor EXCEPT !.awake = FALSE] \in Sensors
    BY DEF TypeOK, Sensors
  <2>3. QED
    BY <2>1, <2>2 DEF Exchange, TypeOK
<1>2. QED
  BY <1>1, LineTyped DEF Exchange, Err, Errs

\* A page holds a number of values, none if it is behind the last.
LEMMA PageNatural ==
  ASSUME sensor' \in Sensors
  PROVE  \A k \in Nat : Page(k) \in Nat /\ (Page(k) = 0 <=> k >= Len(sensor'.data))
<1> DEFINE d == sensor'.data
<1>1. d \in Held
  BY DEF Sensors
<1>2. /\ d \in Seq(Nat \ {0}) /\ Len(d) \in Nat
      /\ \A i, j \in 1 .. Len(d) : i < j => d[i] < d[j]
  BY <1>1, HeldPages
<1> HIDE DEF d
<1>3. SUFFICES ASSUME NEW k \in Nat
               PROVE  Page(k) \in Nat /\ (Page(k) = 0 <=> k >= Len(d))
  BY DEF d
<1>4. CASE k >= Len(d)
  BY <1>2, <1>4 DEF Page, d
<1>5. CASE k < Len(d)
  <2>1. Page(k) = d[k + 1] - (IF k = 0 THEN 0 ELSE d[k])
    BY <1>5, <1>2 DEF Page, UpTo, d
  <2>2. d[k + 1] \in Nat \ {0} /\ (k # 0 => d[k] \in Nat /\ d[k] < d[k + 1])
    BY <1>2, <1>5
  <2>3. QED
    BY <2>1, <2>2, <1>2, <1>5
<1>6. QED
  BY <1>2, <1>4, <1>5

\* What a step that asks does but for the sensor and the line, by its kind.
Judge(err, m) ==
  \/ Ask(err) \/ Params(err) \/ Hush(err) \/ Start(err, m) \/ Group(err, m)
  \/ Probe(err) \/ Change(err) \/ Found(err) \/ Restore(err) \/ Data(err)
  \/ Empty(err) \/ Pages(err)

\* How an answer is judged: the test goes on, ends, or asks again.
LEMMA JudgedTyped ==
  ASSUME TypeOK, pc = "running", NEW err \in Errs, NEW m \in Offers(Here.cmd),
         sensor' \in Sensors, Judge(err, m)
  PROVE  /\ loc' \in Locals /\ binary' \in BOOLEAN
         /\ verdict' \in {"none", "PASS", "FAIL", "SKIP", "ERROR"}
         /\ Steps \/ Leaves \/ (Stays /\ Here.op \in {"params", "pages"})
<1>1. Values(m.pages) \in Nat /\ m.ttt \in Nat
  BY OfferTyped, UpToNatural DEF Held
<1>2. /\ loc \in Locals /\ binary \in BOOLEAN
      /\ verdict \in {"none", "PASS", "FAIL", "SKIP", "ERROR"}
      /\ \A l : Conclusion(l) \in {"PASS", "FAIL", "SKIP"}
  BY DEF TypeOK, Conclusion
<1>3. \A k \in Nat : Page(k) \in Nat
  BY PageNatural
<1>4. Proceed => /\ Steps \/ Leaves
                 /\ verdict' \in {"none", "PASS", "FAIL", "SKIP", "ERROR"}
  BY <1>2, Proceeding DEF Proceed, Return
<1>5. \A v : Return(v) => Leaves /\ verdict' = v
  BY DEF Return, Leaves
<1>6. CASE Ask(err)
  BY <1>2, <1>4, <1>5, <1>6 DEF Ask, AskFailed
<1>7. CASE Params(err)
  BY <1>2, <1>4, <1>7 DEF Params, Locals, Stays
<1>8. CASE Hush(err) \/ Change(err) \/ Empty(err)
  BY <1>2, <1>4, <1>5, <1>8 DEF Hush, Change, Empty
<1>9. CASE Start(err, m)
  BY <1>1, <1>2, <1>4, <1>5, <1>9 DEF Start, StartFailed, Locals
<1>10. CASE Group(err, m)
  BY <1>2, <1>4, <1>5, <1>10 DEF Group, Locals
<1>11. CASE Probe(err)
  BY <1>2, <1>4, <1>11 DEF Probe, Locals
<1>12. CASE Found(err)
  BY <1>2, <1>12, HereSound DEF Found, Steps, Sound, Here, TypeOK
<1>13. CASE Restore(err)
  BY <1>2, <1>4, <1>13 DEF Restore, Locals
<1>14. CASE Data(err)
  BY <1>2, <1>3, <1>4, <1>5, <1>14 DEF Data, Locals
<1>15. CASE Pages(err)
  <2>1. PICK p \in Nat : p = Page(loc.page)
    BY <1>2, <1>3 DEF Locals
  <2>2. [loc EXCEPT !.total = loc.total + p, !.page = @ + 1] \in Locals
    <3>1. loc.total + p \in Int /\ loc.page + 1 \in Nat
      BY <1>2 DEF Locals
    <3>2. QED
      BY <3>1, <1>2 DEF Locals
  <2>3. [loc EXCEPT !.total = loc.total + Page(loc.page), !.page = @ + 1] \in Locals
    BY <2>1, <2>2
  <2>4. QED
    BY <2>3, <1>2, <1>4, <1>5, <1>15 DEF Pages, TextMode, Stays
<1>16. QED
  BY <1>6, <1>7, <1>8, <1>9, <1>10, <1>11, <1>12, <1>13, <1>14, <1>15 DEF Judge

\* So the types are kept.
LEMMA TypeKept ==
  ASSUME TypeOK, pc = "running", Steps \/ Leaves \/ Stays, loc' \in Locals,
         binary' \in BOOLEAN, sensor' \in Sensors, lost' \in Nat,
         verdict' \in {"none", "PASS", "FAIL", "SKIP", "ERROR"},
         missed' \subseteq Nat, defect' = defect
  PROVE  TypeOK'
<1>1. pc' = "running" => at' \in 1 .. Len(Script(test))
  BY HereSound DEF Steps, Leaves, Stays, TypeOK
<1>2. test' = test /\ pc' \in {"running", "idle"}
  BY DEF Steps, Leaves, Stays
<1>3. pc' = "running" => at' \in 1 .. Len(Script(test))'
  BY <1>1, <1>2
<1>4. QED
  BY <1>2, <1>3 DEF TypeOK

\* A step that asks nothing goes on or ends the test.
LEMMA QuietTyped ==
  ASSUME TypeOK, Break \/ Some \/ Await \/ Delay \/ Settle \/ SetBinary
  PROVE  /\ pc = "running" /\ TypeOK' /\ (Steps \/ Leaves)
         /\ loc' = loc /\ defect' = defect
<1> DEFINE Kept == /\ sensor' \in Sensors /\ lost' \in Nat /\ missed' \subseteq Nat
                   /\ defect' = defect
           Gone == /\ Steps \/ Leaves
                   /\ verdict' \in {"none", "PASS", "FAIL", "SKIP", "ERROR"}
<1>1. pc = "running"
  BY DEF Break, Some, Await, Delay, Settle, SetBinary, At
<1>2. Proceed => Gone
  BY <1>1, Proceeding DEF TypeOK, Conclusion
<1>3. \A v \in {"PASS", "FAIL", "SKIP", "ERROR"} : Return(v) => Gone
  BY DEF Return, Leaves
<1>4. \A s \in Sensors, a \in BOOLEAN : [s EXCEPT !.awake = a] \in Sensors
  BY DEF Sensors
<1>5. Finished(sensor) \in Sensors /\ Woken(sensor) \in Sensors /\ sensor \in Sensors
  BY SensorTyped DEF TypeOK
<1>6. \A fate : Line(fate) => lost' \in Nat /\ missed' \subseteq Nat /\ defect' = defect
  BY <1>1, LineTyped
<1> HIDE DEF Gone
<1>7. Break => Kept /\ Gone /\ UNCHANGED loc /\ binary' \in BOOLEAN
  BY <1>2, <1>5, <1>6 DEF Break, TypeOK
<1>8. Some => Kept /\ Gone /\ UNCHANGED loc /\ binary' \in BOOLEAN
  BY <1>2, <1>3 DEF Some, TypeOK
<1>9. Await => Kept /\ Gone /\ UNCHANGED loc /\ binary' \in BOOLEAN
  BY <1>2, <1>3, <1>4, <1>5, <1>6 DEF Await, TypeOK
<1>10. Delay => Kept /\ Gone /\ UNCHANGED loc /\ binary' \in BOOLEAN
  BY <1>2, <1>4, <1>5 DEF Delay, TypeOK
<1>11. Settle => Kept /\ Gone /\ UNCHANGED loc /\ binary' \in BOOLEAN
  BY <1>2, <1>3 DEF Settle, TypeOK, Sensors
<1>12. SetBinary => Kept /\ Gone /\ UNCHANGED loc /\ binary' \in BOOLEAN
  BY <1>2 DEF SetBinary, TypeOK
<1>13. Gone /\ Kept /\ UNCHANGED loc /\ binary' \in BOOLEAN => TypeOK'
  BY <1>1, TypeKept DEF Gone, TypeOK
<1>14. QED
  BY <1>1, <1>7, <1>8, <1>9, <1>10, <1>11, <1>12, <1>13 DEF Gone

\* A step that asks does too, or asks again.
LEMMA TransactTyped ==
  ASSUME TypeOK, Transact
  PROVE  /\ pc = "running" /\ TypeOK'
         /\ Steps \/ Leaves \/ (Stays /\ Here.op \in {"params", "pages"})
<1>1. pc = "running"
  BY DEF Transact
<1>2. PICK fate \in Fates(Here), m \in Offers(Here.cmd) :
        Exchange(Here, fate, m) /\ Judge(Err(Here, fate), m)
  BY DEF Transact, Judge
<1>3. /\ sensor' \in Sensors /\ lost' \in Nat /\ missed' \subseteq Nat
      /\ defect' = defect /\ Err(Here, fate) \in Errs
  BY <1>1, <1>2, ExchangeTyped
<1>4. PICK err \in Errs : err = Err(Here, fate)
  BY <1>3
<1>5. Judge(err, m)
  BY <1>2, <1>4
<1>6. QED
  BY <1>1, <1>3, <1>5, JudgedTyped, TypeKept

\* Every variable has its type in every state.
LEMMA TypeInvariant == Spec => []TypeOK
<1>1. Init => TypeOK
  <2>1. SUFFICES ASSUME Init
                 PROVE  TypeOK
    OBVIOUS
  <2>2. loc \in Locals
    BY <2>1 DEF Init, Cleared, Locals, Errs
  <2>3. sensor \in Sensors
    BY <2>1, GivenHeld DEF Init, Sensors
  <2>4. defect \in AllDefects
    BY <2>1, TestsKnown DEF Init
  <2>5. test \in AllTests
    BY <2>1 DEF Init, AllTests
  <2>6. QED
    BY <2>1, <2>2, <2>3, <2>4, <2>5 DEF Init, TypeOK
<1>2. TypeOK /\ [Next]_vars => TypeOK'
  <2>1. SUFFICES ASSUME TypeOK, [Next]_vars
                 PROVE  TypeOK'
    OBVIOUS
  <2>2. CASE Begin
    <3>1. test' \in AllTests
      BY <2>2, TestsKnown DEF Begin
    <3>2. 1 \in 1 .. Len(Script(test'))
      BY <3>1, ScriptsWellMade DEF WellMade
    <3>3. Len(Script(test')) = Len(Script(test))'
      OBVIOUS
    <3>4. QED
      BY <2>1, <2>2, <3>1, <3>2, <3>3 DEF Begin, TypeOK, Locals, Cleared, Errs
  <2>3. CASE Finish
    <3>1. Finished(sensor) \in Sensors
      BY <2>1, SensorTyped DEF TypeOK
    <3>2. pc = "running" => at \in Nat
      BY <2>1, HereSound
    <3>3. Len(Script(test)) = Len(Script(test))'
      BY <2>3 DEF Finish
    <3>4. QED
      BY <2>1, <2>3, <3>1, <3>2, <3>3 DEF Finish, TypeOK
  <2>4. CASE Saved
    <3>1. Len(Script(test)) = Len(Script(test))'
      BY <2>4 DEF Saved
    <3>2. QED
      BY <2>1, <2>4, <3>1 DEF Saved, TypeOK, Sensors
  <2>5. CASE Break \/ Some \/ Await \/ Delay \/ Settle \/ SetBinary
    BY <2>1, <2>5, QuietTyped
  <2>6. CASE Transact
    BY <2>1, <2>6, TransactTyped
  <2>7. CASE UNCHANGED vars
    <3>1. Len(Script(test)) = Len(Script(test))'
      BY <2>7 DEF vars
    <3>2. QED
      BY <2>1, <2>7, <3>1 DEF vars, TypeOK
  <2>8. QED
    BY <2>1, <2>2, <2>3, <2>4, <2>5, <2>6, <2>7 DEF Next
<1>3. QED
  BY <1>1, <1>2, PTL DEF Spec

\* What is so of every step: the test's own, and the sensor's.
Quietly == Break \/ Some \/ Await \/ Delay \/ Settle \/ SetBinary

\* A step begins or ends something, is silent, or is an exchange with the sensor.
LEMMA NextCases ==
  ASSUME [Next]_vars
  PROVE  Begin \/ Finish \/ Saved \/ Quietly \/ Transact \/ UNCHANGED vars
BY DEF Next, Quietly

-----------------------------------------------------------------------------
(* The receive mode.                                                       *)

Framed == binary => pc = "running" /\ test = "hv_binary" /\ at = 6

\* The receive mode is binary only behind the step that sets it.
LEMMA FramedKept == TypeOK /\ Framed /\ [Next]_vars => Framed'
<1> SUFFICES ASSUME TypeOK, Framed, [Next]_vars
             PROVE  Framed'
  OBVIOUS
<1>1. Len(Script("hv_binary")) = 6 /\ Script("hv_binary")[6].op = "pages"
  BY Scripts DEF HighVolBinary, Own, Step
<1>2. CASE Begin \/ Finish \/ Saved \/ UNCHANGED vars
  BY <1>2 DEF Begin, Finish, Saved, vars, Framed
<1>3. CASE Quietly
  <2>1. pc = "running" /\ (Steps \/ Leaves)
    BY <1>3, QuietTyped DEF Quietly
  <2>2. Here.op \in Quiet
    BY <1>3 DEF Quietly, Quiet, Break, Some, Await, Delay, Settle, SetBinary, At
  <2>3. binary = FALSE
    BY <1>1, <2>1, <2>2 DEF Framed, Here, Quiet, TypeOK
  <2>4. CASE SetBinary
    BY <2>1, <2>4, HereSound, <1>1 DEF SetBinary, At, Sound, Steps, Leaves, Framed, Proceed
  <2>5. CASE ~SetBinary
    BY <1>3, <2>3, <2>5 DEF Quietly, Break, Some, Await, Delay, Settle, Framed
  <2>6. QED
    BY <2>4, <2>5
<1>4. CASE Transact
  <2>1. pc = "running" /\ (Steps \/ Leaves \/ (Stays /\ Here.op \in {"params", "pages"}))
    BY <1>4, TransactTyped
  <2>2. PICK fate \in Fates(Here), m \in Offers(Here.cmd) :
          Exchange(Here, fate, m) /\ Judge(Err(Here, fate), m)
    BY <1>4 DEF Transact, Judge
  <2>3. CASE Here.op = "pages"
    <3>1. Pages(Err(Here, fate))
      BY <2>2, <2>3 DEF Judge, Ask, Params, Hush, Start, Group, Probe, Change, Found,
                        Restore, Data, Empty
    <3>2. binary' = FALSE \/ UNCHANGED <<pc, test, at, binary>>
      BY <3>1 DEF Pages, TextMode
    <3>3. QED
      BY <3>2 DEF Framed
  <2>4. CASE Here.op # "pages"
    <3>1. binary = FALSE
      BY <1>1, <2>1, <2>4 DEF Framed, Here, TypeOK
    <3>2. UNCHANGED binary
      BY <2>2, <2>4 DEF Judge, Ask, Params, Hush, Start, Group, Probe, Change, Found,
                        Restore, Data, Empty, Pages
    <3>3. QED
      BY <3>1, <3>2 DEF Framed
  <2>5. QED
    BY <2>3, <2>4
<1>5. QED
  BY <1>2, <1>3, <1>4, NextCases

\* test_hv_binary leaves the timing layer in the mode it found it in, whatever
\* becomes of its pages.
THEOREM FramingIsRestored == Spec => []FramingRestored
<1>1. Init => Framed
  BY DEF Init, Framed
<1>2. Framed => FramingRestored
  BY Scripts DEF Framed, FramingRestored, At, Here, HighVolBinary, Own, Step
<1>3. QED
  BY <1>1, <1>2, FramedKept, TypeInvariant, PTL DEF Spec

-----------------------------------------------------------------------------
(* Waiting for a measurement.                                              *)

\* The call was answered: the command reached the sensor and nothing was lost.
LEMMA Answered ==
  ASSUME TypeOK, NEW fate \in Fates(Here), NEW m \in Offers(Here.cmd),
         Exchange(Here, fate, m), Err(Here, fate) = "ok"
  PROVE  fate = "ok" /\ Hears(Here) /\ sensor' = Obeyed(Here, m)
BY DEF Err, Arrives, Exchange, Fates

\* A sensor that does not measure only sends its data.
LEMMA Sent ==
  ASSUME TypeOK, NEW fate \in Fates(Here), NEW m \in Offers(Here.cmd),
         Exchange(Here, fate, m), Here.cmd = "D", sensor.busy = "no"
  PROVE  /\ sensor'.busy = "no" /\ sensor'.data = sensor.data
         /\ sensor'.addr = sensor.addr /\ sensor'.saving = sensor.saving
BY DEF Exchange, Obeyed, Measuring, TypeOK, Sensors

\* One that starts to measure at once needs time, or has its values.
LEMMA Measured ==
  ASSUME TypeOK, NEW c, c.cmd \in Measuring, NEW m \in Offers(c.cmd), Hears(c)
  PROVE  LET o == Obeyed(c, m)
         IN  /\ m.ttt = 0 => o.busy = "no" /\ o.data = Given(m.pages)
             /\ m.ttt > 0 => /\ o.busy = (IF c.cmd = "C" THEN "C" ELSE "M")
                             /\ o.next = Given(m.pages)
<1> DEFINE s == IF sensor.busy = "C" THEN Aborted(sensor) ELSE sensor
<1>1. s \in Sensors
  BY SensorTyped DEF TypeOK
<1>2. s.busy = "no"
  BY DEF Hears, Aborted, TypeOK, Sensors
<1>3. m.ttt \in {0, 1}
  BY OfferTyped
<1> HIDE DEF s
<1>4. Obeyed(c, m) =
        IF m.ttt = 0 THEN [s EXCEPT !.data = Given(m.pages)]
        ELSE [s EXCEPT !.data = <<>>, !.next = Given(m.pages),
                       !.busy = IF c.cmd = "C" THEN "C" ELSE "M"]
  <2>1. CASE m.ttt = 0
    BY <2>1 DEF Obeyed, Measuring, s
  <2>2. CASE m.ttt = 1
    BY <2>2 DEF Obeyed, Measuring, s
  <2>3. QED
    BY <1>3, <2>1, <2>2
<1>5. QED
  BY <1>1, <1>2, <1>3, <1>4 DEF Sensors

AwaitedInv ==
  pc = "running" =>
    /\ Begun(test, at) /\ sensor.busy # "no" => loc.ttt > 0
    /\ Waited(test, at) => sensor.busy = "no"

\* A break or a wait leaves what was announced, or ends the measurement.
LEMMA AwaitedQuietly ==
  ASSUME TypeOK, AwaitedInv, Quietly
  PROVE  AwaitedInv'
<1>1. pc = "running" /\ (Steps \/ Leaves) /\ loc' = loc
  BY QuietTyped DEF Quietly
<1>2. SUFFICES ASSUME Steps
               PROVE  /\ Begun(test, at + 1) /\ sensor'.busy # "no" => loc.ttt > 0
                      /\ Waited(test, at + 1) => sensor'.busy = "no"
  BY <1>1 DEF AwaitedInv, Steps, Leaves
<1>3. Here.op \in Quiet
  BY DEF Quietly, Quiet, Break, Some, Await, Delay, Settle, SetBinary, At
<1>4. Follows(test, at, Here, Script(test)[at + 1])
  BY <1>1, <1>2, HereSound DEF Steps
<1>5. ASSUME Begun(test, at + 1)
      PROVE  sensor'.busy # "no" => loc.ttt > 0
  <2>1. Begun(test, at) /\ Here.op = "some"
    BY <1>3, <1>4, <1>5 DEF Follows, Quiet
  <2>2. UNCHANGED sensor
    BY <2>1 DEF Quietly, Break, Some, Await, Delay, Settle, SetBinary, At
  <2>3. QED
    BY <1>1, <2>1, <2>2 DEF AwaitedInv
<1>6. ASSUME Waited(test, at + 1)
      PROVE  sensor'.busy = "no"
  <2>1. \/ Begun(test, at) /\ Here.op \in Waits
        \/ Waited(test, at) /\ Here.op \in {"some", "break", "binary"}
    BY <1>3, <1>4, <1>6 DEF Follows, Quiet, Reads
  <2>2. CASE Begun(test, at) /\ Here.op \in Waits
    <3>1. Await \/ Delay
      BY <2>2 DEF Quietly, Break, Some, Await, Delay, Settle, SetBinary, At, Waits
    <3>2. loc.ttt \in Nat /\ (sensor.busy # "no" => loc.ttt > 0)
      BY <1>1, <2>2 DEF AwaitedInv, TypeOK, Locals
    <3>3. Finished(sensor) \in Sensors /\ Finished(sensor).busy = "no"
      BY SensorTyped DEF TypeOK, Finished, Sensors
    <3>4. QED
      BY <3>1, <3>2, <3>3 DEF Await, Awaits, Delay, Sensors
  <2>3. CASE Waited(test, at) /\ Here.op \in {"some", "break", "binary"}
    <3>1. sensor.busy = "no"
      BY <1>1, <2>3 DEF AwaitedInv
    <3>2. Some \/ Break \/ SetBinary
      BY <2>3 DEF Quietly, Break, Some, Await, Delay, Settle, SetBinary, At
    <3>3. QED
      BY <3>1, <3>2 DEF Some, Break, SetBinary, Woken, TypeOK, Sensors
  <2>4. QED
    BY <2>1, <2>2, <2>3
<1>7. QED
  BY <1>5, <1>6

\* A measurement that starts has announced its time.
LEMMA AwaitedTransact ==
  ASSUME TypeOK, AwaitedInv, Transact
  PROVE  AwaitedInv'
<1>1. pc = "running" /\ (Steps \/ Leaves \/ (Stays /\ Here.op \in {"params", "pages"}))
  BY TransactTyped
<1>2. PICK fate \in Fates(Here), m \in Offers(Here.cmd) :
        Exchange(Here, fate, m) /\ Judge(Err(Here, fate), m) /\ Here.cmd # "none"
  BY DEF Transact, Judge
<1>3. /\ at \in Nat /\ Sound(test, at, Here, Len(Script(test)))
      /\ Steps => Follows(test, at, Here, Script(test)[at + 1])
  BY <1>1, HereSound DEF Steps
<1>4. ASSUME Waited(test, at), Here.op \in Reads
      PROVE  sensor'.busy = "no"
  BY <1>1, <1>2, <1>3, <1>4, Sent DEF AwaitedInv, Sound
<1>5. CASE Stays
  <2>1. Here.op = "params" \/ Here.op = "pages"
    BY <1>1, <1>3, <1>5 DEF Steps, Stays, Leaves
  <2>2. Here.op = "pages" => Waited(test, at) /\ sensor'.busy = "no"
    BY <1>3, <1>4 DEF Sound, Reads
  <2>3. Here.op = "params" => ~Waited(test, at)
    BY <1>3 DEF Sound, Waited
  <2>4. Here.op \in {"params", "pages"} => ~Begun(test, at)
    BY <1>3, <2>2 DEF Sound, Begun, Waited
  <2>5. QED
    BY <1>5, <2>1, <2>2, <2>3, <2>4 DEF Stays, AwaitedInv
<1>6. CASE Steps
  <2>1. ASSUME Waited(test, at + 1)
        PROVE  sensor'.busy = "no"
    BY <1>2, <1>3, <1>4, <1>6, <2>1 DEF Follows, Sound, Waits, Asks
  <2>2. ASSUME Begun(test, at + 1)
        PROVE  sensor'.busy # "no" => loc'.ttt > 0
    <3>1. Here.op = "start" /\ Here.cmd \in Measuring
      BY <1>2, <1>3, <1>6, <2>2 DEF Follows, Sound, Quiet, Asks
    <3>2. Start(Err(Here, fate), m)
      BY <1>2, <3>1 DEF Judge, Ask, Params, Hush, Group, Probe, Change, Found, Restore,
                        Data, Empty, Pages
    <3>3. Err(Here, fate) = "ok" /\ loc'.ttt = m.ttt
      BY <1>6, <3>2 DEF Start, Return, Steps, TypeOK, Locals
    <3>4. m.ttt \in {0, 1}
      BY OfferTyped
    <3>5. m.ttt = 0 => sensor'.busy = "no"
      BY <1>2, <3>1, <3>3, Answered, Measured
    <3>6. QED
      BY <3>3, <3>4, <3>5
  <2>3. QED
    BY <1>6, <2>1, <2>2 DEF Steps, AwaitedInv
<1>7. CASE Leaves
  BY <1>7 DEF Leaves, AwaitedInv
<1>8. QED
  BY <1>1, <1>5, <1>6, <1>7

\* Every step keeps to it.
LEMMA AwaitedKept == TypeOK /\ AwaitedInv /\ [Next]_vars => AwaitedInv'
<1> SUFFICES ASSUME TypeOK, AwaitedInv, [Next]_vars
             PROVE  AwaitedInv'
  OBVIOUS
<1>1. CASE Begin
  BY <1>1 DEF Begin, AwaitedInv, Begun, Waited
<1>2. CASE Finish \/ Saved
  BY <1>2 DEF Finish, Finished, Saved, AwaitedInv, TypeOK, Sensors
<1>3. CASE UNCHANGED vars
  BY <1>3 DEF vars, AwaitedInv
<1>4. QED
  BY <1>1, <1>2, <1>3, AwaitedQuietly, AwaitedTransact, NextCases

\* So it is in every state.
LEMMA AwaitedInvariant == Spec => []AwaitedInv
<1>1. Init => AwaitedInv
  BY DEF Init, AwaitedInv
<1>2. QED
  BY <1>1, AwaitedKept, TypeInvariant, PTL DEF Spec

\* A test that reads data of a measurement has waited for its end.
THEOREM MeasurementIsAwaited == Spec => []MeasurementAwaited
<1>1. TypeOK /\ AwaitedInv => MeasurementAwaited
  BY HereSound DEF AwaitedInv, MeasurementAwaited, Sound, Reads
<1>2. QED
  BY <1>1, AwaitedInvariant, TypeInvariant, PTL

-----------------------------------------------------------------------------
(* The change of address.                                                  *)

\* What a command does to all but the pages.
LEMMA ObeyedFields ==
  ASSUME TypeOK, NEW c, NEW m \in Offers(c.cmd)
  PROVE  LET o == Obeyed(c, m)
         IN  /\ o.awake = sensor.awake
             /\ o.addr = IF c.cmd = "A" /\ defect # "stays"
                         THEN IF c.to = "own" THEN "temp" ELSE "own"
                         ELSE sensor.addr
             /\ o.saving = (sensor.saving \/ (c.cmd = "A" /\ defect # "stays"))
             /\ c.cmd \notin {"M", "HA", "HB"} /\ sensor.busy # "M" => o.busy # "M"
<1> DEFINE s == IF sensor.busy = "C" THEN Aborted(sensor) ELSE sensor
<1>1. s \in Sensors
  BY SensorTyped DEF TypeOK
<1>2. /\ s.awake = sensor.awake /\ s.addr = sensor.addr /\ s.saving = sensor.saving
      /\ sensor.busy # "M" => s.busy = "no"
  BY DEF Aborted, TypeOK, Sensors
<1>3. m.ttt \in {0, 1} /\ sensor.saving \in BOOLEAN
  BY OfferTyped DEF TypeOK, Sensors
<1> HIDE DEF s
<1>4. CASE c.cmd \in Measuring /\ m.ttt = 0
  <2>1. Obeyed(c, m) = [s EXCEPT !.data = Given(m.pages)]
    BY <1>4 DEF Obeyed, Measuring, s
  <2>2. QED
    BY <2>1, <1>1, <1>2, <1>3, <1>4 DEF Sensors, Measuring
<1>5. CASE c.cmd \in Measuring /\ m.ttt = 1
  <2>1. Obeyed(c, m) = [s EXCEPT !.data = <<>>, !.next = Given(m.pages),
                               !.busy = IF c.cmd = "C" THEN "C" ELSE "M"]
    BY <1>5 DEF Obeyed, Measuring, s
  <2>2. QED
    BY <2>1, <1>1, <1>2, <1>3, <1>5 DEF Sensors, Measuring
<1>6. CASE c.cmd = "A" /\ defect # "stays"
  <2>1. Obeyed(c, m) = [s EXCEPT !.addr = IF c.to = "own" THEN "temp" ELSE "own",
                               !.saving = TRUE]
    BY <1>6 DEF Obeyed, Measuring, s
  <2>2. QED
    BY <2>1, <1>1, <1>2, <1>3, <1>6 DEF Sensors
<1>7. CASE c.cmd \notin Measuring /\ ~(c.cmd = "A" /\ defect # "stays")
  <2>1. Obeyed(c, m) = s
    BY <1>7 DEF Obeyed, s
  <2>2. QED
    BY <2>1, <1>1, <1>2, <1>3, <1>7 DEF Sensors
<1>8. QED
  BY <1>3, <1>4, <1>5, <1>6, <1>7

\* Silence and time change no address.
LEMMA QuietFields ==
  ASSUME TypeOK, Quietly \/ Finish \/ Saved
  PROVE  /\ sensor'.addr = sensor.addr /\ defect' = defect
         /\ sensor'.saving => sensor.saving
BY DEF Quietly, Break, Some, Await, Delay, Settle, SetBinary, Finish, Saved, Woken,
       Finished, Aborted, TypeOK, Sensors, Line

\* Only a change of address that is heard and obeyed does.
LEMMA ExchangeFields ==
  ASSUME TypeOK, NEW fate \in Fates(Here), NEW m \in Offers(Here.cmd),
         Exchange(Here, fate, m)
  PROVE  /\ Here.cmd # "A" \/ defect = "stays" \/ ~Arrives(Here, fate)
              => sensor'.addr = sensor.addr /\ sensor'.saving = sensor.saving
         /\ Here.cmd = "A" /\ defect # "stays" /\ Arrives(Here, fate)
              => sensor'.addr = IF Here.to = "own" THEN "temp" ELSE "own"
<1>1. sensor' = IF Arrives(Here, fate) THEN Obeyed(Here, m)
                ELSE IF Addressed(Here) THEN sensor
                ELSE [sensor EXCEPT !.awake = FALSE]
  BY DEF Exchange
<1>2. sensor.saving \in BOOLEAN
  BY DEF TypeOK, Sensors
<1>3. QED
  BY <1>1, <1>2, ObeyedFields DEF TypeOK, Sensors

\* The ten steps of test_address_change.
LEMMA ChangeSteps ==
  ASSUME TypeOK, test = "addr_change", pc = "running"
  PROVE  /\ Len(Script(test)) = 10 /\ at \in 1 .. 10
         /\ at \in {1, 4, 6, 9} => Here.op = "break"
         /\ at \in {3, 8} => Here.op = "settle"
         /\ at = 2 => Here.op = "change" /\ Here.cmd = "A" /\ Here.to = "own"
         /\ at = 5 => Here.op = "found" /\ Here.cmd = "ack" /\ Here.to = "temp"
         /\ at = 7 => Here.op = "restore" /\ Here.cmd = "A" /\ Here.to = "temp"
         /\ at = 10 => Here.op = "ask" /\ Here.cmd = "ack" /\ Here.to = "own"
<1>1. Script(test) = AddressChange
  BY Scripts
<1>2. Len(AddressChange) = 10
  BY DEF AddressChange
<1>3. at \in 1 .. 10
  BY <1>1, <1>2 DEF TypeOK
<1>4. QED
  BY <1>1, <1>2, <1>3 DEF AddressChange, Here, Brk, Own, Do, Step

ChangeInv ==
  /\ defect = "stays" => sensor.addr = "own"
  /\ test = "addr_change" /\ pc = "running" =>
       /\ at \in {1, 2} /\ sensor.addr # "own" => 0 \in missed
       /\ at <= 7 => loc.err = "ok"
       /\ at <= 5 => verdict = "none"
       /\ at \in 4 .. 7 => ~sensor.saving
       /\ at = 7 /\ 6 \notin missed => sensor.awake /\ sensor.busy # "M"
       /\ at = 8 /\ sensor.addr # "own" => loc.err # "ok" /\ missed \cap {6, 7} # {}
       /\ at \in {9, 10} => sensor.addr = "own"
       /\ defect = "stays" => (at \in 6 .. 8 => verdict = "FAIL") /\ at \notin {9, 10}
  /\ test = "addr_change" /\ pc = "idle" =>
       /\ sensor.addr # "own" => missed \cap {0, 2, 6, 7} # {} /\ verdict # "PASS"
       /\ defect = "stays" => verdict # "PASS"

\* Only a change of address changes it.
LEMMA AddrStays == TypeOK /\ ChangeInv /\ [Next]_vars /\ defect = "stays"
                     => sensor'.addr = "own" /\ defect' = "stays"
<1> SUFFICES ASSUME TypeOK, ChangeInv, [Next]_vars, defect = "stays"
             PROVE  sensor'.addr = "own" /\ defect' = "stays"
  OBVIOUS
<1>1. sensor.addr = "own"
  BY DEF ChangeInv
<1>2. CASE Begin \/ UNCHANGED vars
  BY <1>1, <1>2 DEF Begin, vars
<1>3. CASE Quietly \/ Finish \/ Saved
  BY <1>1, <1>3, QuietFields
<1>4. CASE Transact
  BY <1>1, <1>4, ExchangeFields DEF Transact, Exchange, Line
<1>5. QED
  BY <1>2, <1>3, <1>4, NextCases

\* Its silent steps wake the sensor or let it store its address.
LEMMA ChangeQuietly ==
  ASSUME TypeOK, ChangeInv, Quietly
  PROVE  ChangeInv'
<1>1. pc = "running" /\ (Steps \/ Leaves) /\ loc' = loc /\ defect' = defect
  BY QuietTyped DEF Quietly
<1>2. sensor'.addr = sensor.addr /\ (sensor'.saving => sensor.saving)
  BY QuietFields
<1>3. test' = test
  BY <1>1 DEF Steps, Leaves
<1>4. ASSUME test = "addr_change"
      PROVE  ChangeInv'
  <2>1. at \in 1 .. 10 /\ Here.op \in Quiet
    BY <1>1, <1>4, ChangeSteps
       DEF Quietly, Quiet, Break, Some, Await, Delay, Settle, SetBinary, At
  <2>2. at \in {1, 4, 6, 9} \/ at \in {3, 8}
    BY <1>1, <1>4, <2>1, ChangeSteps DEF Quiet
  <2>3. CASE at \in {1, 4, 6, 9}
    <3>1. Break
      BY <1>1, <1>4, <2>3, ChangeSteps
         DEF Quietly, Break, Some, Await, Delay, Settle, SetBinary, At
    <3>2. Proceed /\ at < Len(Script(test))
      <4>1. Len(Script(test)) = 10
        BY <1>1, <1>4, ChangeSteps
      <4>2. QED
        BY <2>3, <3>1, <4>1 DEF Break
    <3>3. pc' = "running" /\ at' = at + 1 /\ verdict' = verdict
      BY <1>1, <3>2 DEF Proceed
    <3>4. /\ missed' = missed \/ missed' = missed \cup {at}
          /\ at \in missed' \/ (sensor'.awake /\ sensor'.busy # "M")
      BY <3>1 DEF Break, Line, Woken, Aborted, TypeOK, Sensors
    <3>5. CASE at \in {1, 4}
      BY <1>1, <1>2, <1>4, <3>3, <3>4, <3>5 DEF ChangeInv
    <3>6. CASE at = 6
      BY <1>1, <1>2, <1>4, <3>3, <3>4, <3>6 DEF ChangeInv
    <3>7. CASE at = 9
      BY <1>1, <1>2, <1>4, <3>3, <3>4, <3>7 DEF ChangeInv
    <3>8. QED
      BY <2>3, <3>5, <3>6, <3>7
  <2>4. CASE at \in {3, 8}
    <3>1. Settle
      BY <1>1, <1>4, <2>4, ChangeSteps
         DEF Quietly, Break, Some, Await, Delay, Settle, SetBinary, At
    <3>2. at < Len(Script(test))
      <4>1. Len(Script(test)) = 10
        BY <1>1, <1>4, ChangeSteps
      <4>2. QED
        BY <2>4, <4>1
    <3>3. sensor'.saving = FALSE /\ missed' = missed
      BY <3>1 DEF Settle, TypeOK, Sensors
    <3>4. IF verdict = "FAIL" THEN Return("FAIL")
          ELSE IF loc.err # "ok" THEN Return("ERROR")
          ELSE pc' = "running" /\ at' = at + 1 /\ verdict' = verdict
      BY <1>1, <3>1, <3>2 DEF Settle, Proceed
    <3>5. CASE at = 3
      BY <1>1, <1>2, <1>4, <3>3, <3>4, <3>5 DEF ChangeInv, Return
    <3>6. CASE at = 8
      BY <1>1, <1>2, <1>4, <3>3, <3>4, <3>6 DEF ChangeInv, Return
    <3>7. QED
      BY <2>4, <3>5, <3>6
  <2>5. QED
    BY <2>2, <2>3, <2>4
<1>5. QED
  BY <1>1, <1>2, <1>3, <1>4 DEF ChangeInv

\* Its exchanges move the sensor, or show that something was lost.
LEMMA ChangeTransact ==
  ASSUME TypeOK, ChangeInv, Transact, test = "addr_change"
  PROVE  ChangeInv'
<1>1. pc = "running" /\ (Steps \/ Leaves \/ (Stays /\ Here.op \in {"params", "pages"}))
  BY TransactTyped
<1>2. PICK fate \in Fates(Here), m \in Offers(Here.cmd) :
        Exchange(Here, fate, m) /\ Judge(Err(Here, fate), m) /\ Here.cmd # "none"
  BY DEF Transact, Judge
<1>3. PICK err \in Errs : err = Err(Here, fate)
  BY ExchangeTyped, <1>1, <1>2
<1>4. at \in {2, 5, 7, 10} /\ (Steps \/ Leaves) /\ test' = test
  <2>1. Here.op \notin {"params", "pages", "break", "settle"}
    <3>1. Here.op \in Asks
      BY <1>1, <1>2, HereSound DEF Sound
    <3>2. Here.op \notin {"params", "pages"}
      BY <1>1, HereSound DEF Sound
    <3>3. QED
      BY <3>1, <3>2 DEF Asks
  <2>2. at \in 1 .. 10
    BY <1>1, ChangeSteps
  <2>3. QED
    BY <1>1, <2>1, <2>2, ChangeSteps DEF Steps, Leaves
<1>5. /\ defect' = defect
      /\ missed' = IF fate \in {"ok", "ignored"} THEN missed ELSE missed \cup {at}
  BY <1>2 DEF Exchange, Line
<1>6. defect = "stays" => sensor'.addr = "own"
  <2>1. [Next]_vars
    BY DEF Next
  <2>2. QED
    BY <2>1, AddrStays
<1>7. fate \in {"ok", "unheard", "unanswered", "garbled"}
  <2>1. Here.cmd \notin Optional
    BY <1>1, <1>4, ChangeSteps DEF Optional
  <2>2. QED
    BY <1>2, <2>1 DEF Fates
<1>8. at < 10 => at < Len(Script(test))
  BY <1>1, ChangeSteps, HereSound
<1>9. CASE at = 2
  <2>1. Change(err)
    BY <1>1, <1>2, <1>3, <1>9, ChangeSteps
       DEF Judge, Ask, Params, Hush, Start, Group, Probe, Found, Restore, Data, Empty, Pages
  <2>2. IF err = "ok" THEN pc' = "running" /\ at' = 3 /\ verdict' = verdict
        ELSE pc' = "idle" /\ verdict' = "FAIL"
    <3>1. at < Len(Script(test))
      BY <1>8, <1>9
    <3>2. Proceed => pc' = "running" /\ at' = 3 /\ verdict' = verdict
      BY <1>1, <1>9, <3>1 DEF Proceed
    <3>3. QED
      BY <2>1, <3>2 DEF Change, Return
  <2>3. loc' = loc
    BY <2>1 DEF Change
  <2>4. sensor'.addr # "own" => sensor.addr # "own" \/ Arrives(Here, fate)
    BY <1>2, ExchangeFields DEF Exchange
  <2>5. err # "ok" /\ Arrives(Here, fate) => 2 \in missed'
    BY <1>3, <1>5, <1>7, <1>9 DEF Err
  <2>6. 0 \in missed => 0 \in missed'
    BY <1>5
  <2>7. QED
    BY <1>1, <1>4, <1>6, <1>9, <2>2, <2>3, <2>4, <2>5, <2>6, <1>5 DEF ChangeInv
<1>10. CASE at = 5
  <2>1. Found(err)
    BY <1>1, <1>2, <1>3, <1>10, ChangeSteps
       DEF Judge, Ask, Params, Hush, Start, Group, Probe, Change, Restore, Data, Empty, Pages
  <2>2. /\ pc' = "running" /\ at' = 6 /\ loc' = loc
        /\ err # "ok" => verdict' = "FAIL"
    BY <1>1, <1>10, <2>1 DEF Found
  <2>3. sensor'.addr = sensor.addr /\ sensor'.saving = sensor.saving
    BY <1>1, <1>2, <1>10, ExchangeFields, ChangeSteps
  <2>4. defect = "stays" => err # "ok"
    BY <1>1, <1>2, <1>3, <1>10, ChangeSteps DEF Err, Arrives, Hears, Addressed, ChangeInv
  <2>5. QED
    BY <1>1, <1>4, <1>5, <1>6, <1>10, <2>2, <2>3, <2>4 DEF ChangeInv
<1>11. CASE at = 7
  <2>1. Restore(err)
    BY <1>1, <1>2, <1>3, <1>11, ChangeSteps
       DEF Judge, Ask, Params, Hush, Start, Group, Probe, Change, Found, Data, Empty, Pages
  <2>2. /\ pc' = "running" /\ at' = 8 /\ verdict' = verdict
        /\ loc'.err = err
    <3>1. at < Len(Script(test))
      BY <1>8, <1>11
    <3>2. Proceed => pc' = "running" /\ at' = 8 /\ verdict' = verdict
      BY <1>1, <1>11, <3>1 DEF Proceed
    <3>3. QED
      BY <2>1, <3>2 DEF Restore, TypeOK, Locals
  <2>3. Arrives(Here, fate) => sensor'.addr = "own"
    BY <1>1, <1>2, <1>6, <1>11, ExchangeFields, ChangeSteps
  <2>4. err = "ok" => Arrives(Here, fate)
    BY <1>3 DEF Err
  <2>5. ~Arrives(Here, fate) /\ sensor'.addr # "own" => missed' \cap {6, 7} # {}
    <3>1. SUFFICES ASSUME ~Arrives(Here, fate), sensor'.addr # "own"
                   PROVE  6 \in missed \/ fate = "unheard"
      BY <1>5, <1>11
    <3>2. sensor'.addr = sensor.addr
      BY <1>2, <3>1, ExchangeFields
    <3>3. sensor.addr = "temp"
      BY <3>1, <3>2 DEF TypeOK, Sensors
    <3>4. 6 \notin missed => Hears(Here)
      <4>1. 6 \notin missed => sensor.awake /\ sensor.busy # "M"
        BY <1>1, <1>11 DEF ChangeInv
      <4>2. ~sensor.saving
        BY <1>1, <1>11 DEF ChangeInv
      <4>3. Here.to = "temp"
        BY <1>1, <1>11, ChangeSteps
      <4>4. QED
        BY <3>3, <4>1, <4>2, <4>3 DEF Hears, Addressed
    <3>5. QED
      BY <3>1, <3>4, <1>7 DEF Arrives
  <2>6. QED
    BY <1>1, <1>4, <1>5, <1>6, <1>11, <2>2, <2>3, <2>4, <2>5 DEF ChangeInv
<1>12. CASE at = 10
  <2>1. sensor'.addr = "own" /\ pc' = "idle"
    <3>1. Leaves
      BY <1>1, <1>4, <1>12, ChangeSteps DEF Steps
    <3>2. QED
      BY <1>1, <1>2, <1>12, <3>1, ExchangeFields, ChangeSteps DEF Leaves, ChangeInv
  <2>2. defect # "stays"
    BY <1>1, <1>12 DEF ChangeInv
  <2>3. QED
    BY <1>5, <2>1, <2>2 DEF ChangeInv
<1>13. QED
  BY <1>4, <1>9, <1>10, <1>11, <1>12

\* Every step of every test keeps to it.
LEMMA ChangeKept == TypeOK /\ ChangeInv /\ [Next]_vars => ChangeInv'
<1> SUFFICES ASSUME TypeOK, ChangeInv, [Next]_vars
             PROVE  ChangeInv'
  OBVIOUS
<1>1. CASE Begin
  BY <1>1 DEF Begin, ChangeInv, Cleared
<1>2. CASE Finish \/ Saved
  <2>1. /\ sensor'.addr = sensor.addr /\ (sensor'.saving => sensor.saving)
        /\ sensor'.awake = sensor.awake /\ (sensor'.busy = sensor.busy \/ sensor'.busy = "no")
    BY <1>2 DEF Finish, Finished, Saved, TypeOK, Sensors
  <2>2. test \in Aborts \/ missed' = missed
    BY <1>2 DEF Finish, Saved
  <2>3. UNCHANGED <<pc, test, at, loc, verdict, defect>>
    BY <1>2 DEF Finish, Saved
  <2>4. QED
    BY <2>1, <2>2, <2>3 DEF ChangeInv, Aborts
<1>3. CASE UNCHANGED vars
  BY <1>3 DEF vars, ChangeInv
<1>4. CASE Transact
  <2>1. CASE test = "addr_change"
    BY <1>4, <2>1, ChangeTransact
  <2>2. CASE test # "addr_change"
    <3>1. test' = test
      BY <1>4, TransactTyped DEF Steps, Leaves, Stays
    <3>2. defect' = defect
      BY <1>4 DEF Transact, Exchange, Line
    <3>3. QED
      BY <2>2, <3>1, <3>2, AddrStays DEF ChangeInv
  <2>3. QED
    BY <2>1, <2>2
<1>5. QED
  BY <1>1, <1>2, <1>3, <1>4, ChangeQuietly, NextCases

\* So it is in every state.
LEMMA ChangeInvariant == Spec => []ChangeInv
<1>1. Init => ChangeInv
  BY DEF Init, ChangeInv
<1>2. QED
  BY <1>1, ChangeKept, TypeInvariant, PTL DEF Spec

\* test_address_change restores the address it found, unless one of the calls
\* that do it was lost, and then does not pass the sensor.
THEOREM AddressIsRestored == Spec => []RestoredUnlessLost
<1>1. TypeOK /\ ChangeInv => RestoredUnlessLost
  BY DEF TypeOK, ChangeInv, RestoredUnlessLost, Over
<1>2. QED
  BY <1>1, ChangeInvariant, TypeInvariant, PTL

-----------------------------------------------------------------------------
(* A test that loses nothing finds the sensor awake, at its address and    *)
(* free to answer, whenever it asks it something.                          *)

Sure == missed = {} /\ defect \notin {"no request", "stays"}

HomeInv ==
  pc = "running" /\ Sure =>
    /\ sensor.addr = IF test = "addr_change" /\ at \in 3 .. 7 THEN "temp" ELSE "own"
    /\ sensor.saving => test = "addr_change" /\ at \in {3, 8}
    /\ Woke(test, Here) => sensor.awake
    /\ Calm(test, at, Here) => sensor.busy # "M"
    /\ test = "addr_change" => verdict = "none" /\ loc.err = "ok"

\* Where nothing has been lost, nothing had been lost before.
LEMMA SureBefore ==
  ASSUME TypeOK, Quietly \/ Transact \/ Finish \/ Saved, Sure'
  PROVE  Sure /\ missed' = missed /\ defect' = defect
<1>1. CASE Quietly
  BY <1>1 DEF Quietly, Sure, Break, Some, Await, Delay, Settle, SetBinary, Line
<1>2. CASE Transact
  BY <1>2 DEF Transact, Exchange, Line, Sure
<1>3. CASE Finish \/ Saved
  BY <1>3 DEF Finish, Saved, Sure
<1>4. QED
  BY <1>1, <1>2, <1>3

\* Such a test's break is heard, and its wait for a service request is not in
\* vain.
LEMMA HeardQuietly ==
  ASSUME TypeOK, Quietly, Sure'
  PROVE  /\ Here.op = "break" => sensor' = Woken(sensor)
         /\ Here.op \in {"some", "slow", "binary"} => sensor' = sensor
         /\ Here.op \in {"await", "heed"} =>
              sensor' = IF Awaits THEN [Finished(sensor) EXCEPT !.awake = TRUE] ELSE sensor
         /\ Here.op = "settle" => sensor'.saving = FALSE
         /\ Here.op \in {"settle", "delay"} => sensor'.busy \in {sensor.busy, "no"}
<1>1. Sure /\ missed' = missed
  BY SureBefore
<1>2. ASSUME NEW fate, Line(fate), fate # "ignored"
      PROVE  fate = "ok"
  BY <1>1, <1>2 DEF Line, Sure
<1>3. Here.op = "break" => sensor' = Woken(sensor)
  BY <1>2 DEF Quietly, Break, Some, Await, Delay, Settle, SetBinary, At
<1>4. Here.op \in {"some", "slow", "binary"} => sensor' = sensor
  BY DEF Quietly, Break, Some, Await, Delay, Settle, SetBinary, At
<1>5. Here.op \in {"await", "heed"} =>
        sensor' = IF Awaits THEN [Finished(sensor) EXCEPT !.awake = TRUE] ELSE sensor
  <2>1. SUFFICES ASSUME Here.op \in {"await", "heed"}
                 PROVE  sensor' = IF Awaits THEN [Finished(sensor) EXCEPT !.awake = TRUE]
                                  ELSE sensor
    OBVIOUS
  <2>2. Await
    BY <2>1 DEF Quietly, Break, Some, Delay, Settle, SetBinary, At
  <2>3. QED
    BY <1>1, <1>2, <2>2 DEF Await, Sure
<1>6. /\ Here.op = "settle" => sensor'.saving = FALSE
      /\ Here.op \in {"settle", "delay"} => sensor'.busy \in {sensor.busy, "no"}
  BY DEF Quietly, Break, Some, Await, Delay, Settle, SetBinary, At, Finished, TypeOK, Sensors
<1>7. QED
  BY <1>3, <1>4, <1>5, <1>6

\* A break wakes the sensor, a wait lets it finish.
LEMMA HomeQuietly ==
  ASSUME TypeOK, HomeInv, AwaitedInv', Quietly
  PROVE  HomeInv'
<1>1. SUFFICES ASSUME pc' = "running", Sure'
               PROVE  HomeInv'
  BY DEF HomeInv
<1>2. pc = "running" /\ Steps /\ loc' = loc /\ Sure
  BY <1>1, QuietTyped, SureBefore DEF Quietly, Leaves
<1>3. /\ at \in Nat /\ at < Len(Script(test))
      /\ Sound(test, at, Here, Len(Script(test))) /\ Follows(test, at, Here, Here')
      /\ test' = test /\ at' = at + 1
  BY <1>2, HereSound DEF Steps
<1>4. /\ Here.op \in Quiet /\ Here.cmd = "none"
      /\ Here.op \in Quiet \ {"settle"} => (verdict' = verdict)
  <2>1. Here.op \in Quiet
    BY DEF Quietly, Quiet, Break, Some, Await, Delay, Settle, SetBinary, At
  <2>2. verdict' = verdict
    BY <1>1 DEF Quietly, Break, Some, Await, Delay, Settle, SetBinary, At, Proceed, Return
  <2>3. QED
    BY <1>3, <2>1, <2>2 DEF Sound, Quiet, Asks
<1>5. sensor'.addr = sensor.addr /\ (sensor'.saving => sensor.saving)
  BY QuietFields
<1>6. sensor'.addr = IF test = "addr_change" /\ at + 1 \in 3 .. 7 THEN "temp" ELSE "own"
  <2>1. test = "addr_change" => at # 2 /\ at # 7
    BY <1>2, <1>4, ChangeSteps DEF Quiet
  <2>2. QED
    BY <1>2, <1>3, <1>5, <2>1 DEF HomeInv
<1>7. sensor'.saving = FALSE
  <2>1. sensor.saving => Here.op = "settle"
    BY <1>2, ChangeSteps DEF HomeInv
  <2>2. sensor'.saving \in BOOLEAN /\ sensor.saving \in BOOLEAN
    BY QuietTyped DEF Quietly, TypeOK, Sensors
  <2>3. QED
    BY <1>1, <1>5, <2>1, <2>2, HeardQuietly
<1>8. Woke(test, Here') => sensor'.awake
  <2>1. SUFFICES ASSUME Woke(test, Here')
                 PROVE  sensor'.awake = TRUE
    OBVIOUS
  <2>2. CASE Here.op = "break"
    BY <1>1, <2>2, HeardQuietly DEF Woken, Aborted, TypeOK, Sensors
  <2>3. CASE Here.op # "break"
    <3>1. Woke(test, Here) /\ Here.op \in {"some", "slow", "await", "heed", "binary"}
      BY <1>3, <1>4, <2>1, <2>3 DEF Follows, Quiet
    <3>2. sensor.awake = TRUE
      BY <1>2, <3>1 DEF HomeInv, TypeOK, Sensors
    <3>3. Finished(sensor) \in Sensors
      BY SensorTyped DEF TypeOK
    <3>4. [Finished(sensor) EXCEPT !.awake = TRUE].awake = TRUE
      BY <3>3 DEF Sensors
    <3>5. QED
      BY <1>1, <3>1, <3>2, <3>4, HeardQuietly
  <2>4. QED
    BY <2>2, <2>3
<1>9. Calm(test, at + 1, Here') => sensor'.busy # "M"
  <2>1. SUFFICES ASSUME Calm(test, at + 1, Here')
                 PROVE  sensor'.busy # "M"
    OBVIOUS
  <2>2. CASE Here.op = "break"
    BY <1>1, <2>2, HeardQuietly DEF Woken, Aborted, TypeOK, Sensors
  <2>3. CASE Waited(test, at + 1)
    BY <1>1, <1>3, <2>3 DEF AwaitedInv
  <2>4. CASE Here.op # "break" /\ Calm(test, at, Here)
    <3>1. sensor.busy # "M"
      BY <1>2, <2>4 DEF HomeInv
    <3>2. Finished(sensor) \in Sensors /\ Finished(sensor).busy = "no"
      BY SensorTyped DEF TypeOK, Finished, Sensors
    <3>3. [Finished(sensor) EXCEPT !.awake = TRUE].busy = "no"
      BY <3>2 DEF Sensors
    <3>4. QED
      BY <1>1, <1>4, <2>4, <3>1, <3>3, HeardQuietly DEF Quiet
  <2>5. QED
    BY <1>3, <2>1, <2>2, <2>3, <2>4 DEF Follows
<1>10. test = "addr_change" => verdict' = "none" /\ loc'.err = "ok"
  <2>1. verdict' = verdict
    BY <1>1 DEF Quietly, Break, Some, Await, Delay, Settle, SetBinary, Proceed, Return
  <2>2. QED
    BY <1>2, <2>1 DEF HomeInv
<1>11. Woke(test', Here') => Woke(test, Here')
  BY <1>3
<1>12. QED
  BY <1>3, <1>6, <1>7, <1>8, <1>9, <1>10, <1>11 DEF HomeInv

\* It is asked while it is ready, so every command for it is answered, or is
\* one it need not know.
LEMMA ReadyAsked ==
  ASSUME TypeOK, HomeInv, pc = "running", Sure, Here.cmd # "none"
  PROVE  /\ ~sensor.saving /\ sensor.awake /\ sensor.busy # "M"
         /\ Here.to \in {"own", "all"} /\ test # "addr_change" => Hears(Here)
         /\ test = "addr_change" => Hears(Here)
         /\ Here.to = "other" /\ defect # "any address" => ~Hears(Here)
         /\ Here.to = "other" /\ defect = "any address" => Hears(Here)
<1>1. sensor.awake /\ sensor.busy # "M"
  BY DEF HomeInv, Woke, Calm
<1>2. sensor.addr = IF test = "addr_change" /\ at \in 3 .. 7 THEN "temp" ELSE "own"
  BY DEF HomeInv
<1>3. ~sensor.saving
  BY ChangeSteps, HereSound DEF HomeInv, Sound, Quiet, Asks
<1>4. test = "addr_change" => Here.to = sensor.addr
  <2>1. SUFFICES ASSUME test = "addr_change"
                 PROVE  Here.to = sensor.addr
    OBVIOUS
  <2>2. Here.op \notin Quiet
    BY HereSound DEF Sound, Quiet, Asks
  <2>3. at \in {2, 5, 7, 10}
    BY <2>1, <2>2, ChangeSteps DEF Quiet
  <2>4. QED
    BY <1>2, <2>1, <2>3, ChangeSteps
<1>5. QED
  BY <1>1, <1>2, <1>3, <1>4 DEF Hears, Addressed

\* Where nothing is lost a command is heard, and answered if it must be.
LEMMA SureFate ==
  ASSUME TypeOK, Sure', NEW fate \in Fates(Here), NEW m \in Offers(Here.cmd),
         Exchange(Here, fate, m)
  PROVE  /\ fate \in {"ok", "ignored"} /\ missed' = missed
         /\ fate = "ignored" => Here.cmd \in Optional /\ Hears(Here)
         /\ Err(Here, fate) = IF Hears(Here) /\ fate = "ok" THEN "ok" ELSE "timeout"
<1>1. fate \in {"ok", "ignored"} /\ missed' = missed
  BY DEF Exchange, Line, Sure
<1>2. fate = "ignored" => Here.cmd \in Optional /\ Hears(Here)
  BY DEF Fates
<1>3. QED
  BY <1>1, <1>2 DEF Err, Arrives

\* An exchange leaves the sensor awake, unless it was meant for another.
LEMMA HomeTransact ==
  ASSUME TypeOK, HomeInv, AwaitedInv', Transact
  PROVE  HomeInv'
<1>1. SUFFICES ASSUME pc' = "running", Sure'
               PROVE  HomeInv'
  BY DEF HomeInv
<1>2. /\ pc = "running" /\ Sure
      /\ Steps \/ (Stays /\ Here.op \in {"params", "pages"})
  BY <1>1, TransactTyped, SureBefore DEF Leaves
<1>3. PICK fate \in Fates(Here), m \in Offers(Here.cmd) :
        Exchange(Here, fate, m) /\ Judge(Err(Here, fate), m) /\ Here.cmd # "none"
  BY DEF Transact, Judge
<1>4. /\ at \in Nat /\ Here.op \in Asks /\ Sound(test, at, Here, Len(Script(test)))
      /\ Steps => Follows(test, at, Here, Here')
      /\ test' = test
  BY <1>2, <1>3, HereSound DEF Sound, Steps, Stays
<1>5. ~sensor.saving /\ sensor.awake /\ sensor.busy # "M"
  BY <1>2, <1>3, ReadyAsked
<1>6. fate \in {"ok", "ignored"}
  BY <1>1, <1>3, SureFate
<1>7. test = "addr_change" => at \in {2, 5, 7, 10} /\ Arrives(Here, fate) /\ Steps
  <2>1. SUFFICES ASSUME test = "addr_change"
                 PROVE  at \in {2, 5, 7, 10} /\ Arrives(Here, fate) /\ Steps
    OBVIOUS
  <2>2. at \in {2, 5, 7, 10}
    BY <1>2, <1>4, <2>1, ChangeSteps DEF Asks
  <2>3. Here.cmd \notin Optional
    BY <1>2, <2>1, <2>2, ChangeSteps DEF Optional
  <2>4. Hears(Here)
    BY <1>2, <1>3, <2>1, ReadyAsked
  <2>5. fate # "ignored"
    BY <1>1, <1>3, <2>3, SureFate
  <2>6. Here.op \notin {"params", "pages"}
    BY <2>1, <1>4 DEF Sound
  <2>7. QED
    BY <1>2, <2>2, <2>4, <2>5, <2>6, <1>6 DEF Arrives
<1>8. test # "addr_change" => Here.cmd # "A"
  BY <1>4 DEF Sound
<1>9. sensor'.addr = IF test' = "addr_change" /\ at' \in 3 .. 7 THEN "temp" ELSE "own"
  <2>1. CASE test = "addr_change"
    <3>1. sensor'.addr = IF Here.cmd = "A" THEN IF Here.to = "own" THEN "temp" ELSE "own"
                         ELSE sensor.addr
      BY <1>2, <1>3, <1>7, <2>1, ExchangeFields DEF Sure
    <3>2. at' = at + 1
      BY <1>7, <2>1 DEF Steps
    <3>3. QED
      BY <1>2, <1>4, <1>7, <2>1, <3>1, <3>2, ChangeSteps DEF HomeInv
  <2>2. CASE test # "addr_change"
    BY <1>2, <1>3, <1>4, <1>8, <2>2, ExchangeFields DEF HomeInv
  <2>3. QED
    BY <2>1, <2>2
<1>10. sensor'.saving => test' = "addr_change" /\ at' \in {3, 8}
  <2>1. SUFFICES ASSUME sensor'.saving
                 PROVE  test = "addr_change" /\ at' \in {3, 8}
    BY <1>4
  <2>2. Here.cmd = "A"
    BY <1>3, <1>5, <2>1, ExchangeFields
  <2>3. test = "addr_change"
    BY <1>8, <2>2
  <2>4. at \in {2, 7}
    BY <1>2, <1>7, <2>2, <2>3, ChangeSteps
  <2>5. QED
    BY <1>7, <2>3, <2>4 DEF Steps
<1>11. Woke(test', Here') => sensor'.awake
  <2>1. SUFFICES ASSUME Woke(test, Here')
                 PROVE  sensor'.awake
    BY <1>4
  <2>2. test = "addr_change" \/ Here.to \in {"own", "all"}
    BY <1>2, <1>4, <2>1 DEF Follows, Sound, Asks
  <2>3. Addressed(Here) \/ Arrives(Here, fate)
    BY <1>2, <1>7, <2>2 DEF Addressed, HomeInv
  <2>4. sensor' = Obeyed(Here, m) \/ sensor' = sensor
    BY <1>3, <2>3 DEF Exchange
  <2>5. QED
    BY <1>5, <2>4, ObeyedFields
<1>12. Calm(test', at', Here') => sensor'.busy # "M"
  <2>1. SUFFICES ASSUME Calm(test, at', Here')
                 PROVE  sensor'.busy # "M"
    BY <1>4
  <2>2. CASE Waited(test, at')
    BY <1>1, <1>4, <2>2 DEF AwaitedInv
  <2>3. CASE ~Waited(test, at')
    <3>1. Here.cmd \notin {"M", "HA", "HB"}
      <4>1. CASE Steps
        BY <1>4, <2>1, <2>3, <4>1 DEF Follows, Asks, Steps
      <4>2. CASE Stays
        BY <1>2, <1>4, <4>2 DEF Sound, Stays, Steps, Reads
      <4>3. QED
        BY <1>2, <4>1, <4>2
    <3>2. Obeyed(Here, m).busy # "M"
      BY <1>5, <3>1, ObeyedFields
    <3>3. QED
      BY <1>3, <1>5, <3>2 DEF Exchange, TypeOK, Sensors
  <2>4. QED
    BY <2>2, <2>3
<1>13. test' = "addr_change" => verdict' = "none" /\ loc'.err = "ok"
  <2>1. SUFFICES ASSUME test = "addr_change"
                 PROVE  verdict' = "none" /\ loc'.err = "ok"
    BY <1>4
  <2>2. Err(Here, fate) = "ok"
    BY <1>6, <1>7, <2>1 DEF Err, Arrives
  <2>3. /\ verdict = "none" /\ loc.err = "ok" /\ loc \in Locals
        /\ Here.op \in {"change", "found", "restore", "ask"}
    BY <1>2, <1>7, <2>1, ChangeSteps DEF HomeInv, TypeOK
  <2>4. \/ Change("ok") \/ Found("ok") \/ Restore("ok") \/ Ask("ok")
    BY <1>3, <2>2, <2>3 DEF Judge, Params, Hush, Start, Group, Probe, Data, Empty, Pages
  <2>5. Proceed => verdict' = verdict
    BY <1>1, <1>2 DEF Proceed, Return
  <2>6. QED
    BY <1>1, <2>3, <2>4, <2>5 DEF Change, Found, Restore, Ask, Return, Locals
<1>14. QED
  BY <1>9, <1>10, <1>11, <1>12, <1>13 DEF HomeInv

\* Every step keeps to it.
LEMMA HomeKept == TypeOK /\ HomeInv /\ AwaitedInv' /\ [Next]_vars => HomeInv'
<1> SUFFICES ASSUME TypeOK, HomeInv, AwaitedInv', [Next]_vars
             PROVE  HomeInv'
  OBVIOUS
<1>1. CASE Begin
  <2>1. pc' = "running" /\ at' = 1 /\ verdict' = "none" /\ loc' = Cleared
        /\ test' \in AllTests /\ sensor' = sensor
    BY <1>1, TestsKnown DEF Begin
  <2>2. Sound(test', 1, Script(test')[1], Len(Script(test')))
    BY <2>1, ScriptsWellMade DEF WellMade
  <2>3. Here'.op = "break" /\ Here'.cmd = "none"
    BY <2>1, <2>2 DEF Sound, Here, Asks
  <2>4. ~Woke(test', Here') /\ ~Calm(test', at', Here')
    BY <2>1, <2>3 DEF Woke, Calm, Waited
  <2>5. Sure' => sensor.addr = "own" /\ ~sensor.saving
    BY <1>1 DEF Begin, Sure
  <2>6. QED
    BY <2>1, <2>4, <2>5 DEF HomeInv, Cleared
<1>2. CASE Finish \/ Saved
  <2>1. UNCHANGED <<pc, test, at, loc, verdict>> /\ Here' = Here
    BY <1>2 DEF Finish, Saved, Here
  <2>2. /\ sensor'.addr = sensor.addr /\ sensor'.awake = sensor.awake
        /\ sensor'.saving => sensor.saving
        /\ sensor'.busy \in {sensor.busy, "no"}
    BY <1>2 DEF Finish, Saved, Finished, TypeOK, Sensors
  <2>3. Sure' => Sure
    BY <1>2, SureBefore
  <2>4. QED
    BY <2>1, <2>2, <2>3 DEF HomeInv
<1>3. CASE UNCHANGED vars
  BY <1>3 DEF vars, HomeInv, Sure, Here
<1>4. QED
  BY <1>1, <1>2, <1>3, HomeQuietly, HomeTransact, NextCases

\* So it is in every state.
LEMMA HomeInvariant == Spec => []HomeInv
<1>1. Init => HomeInv
  BY DEF Init, HomeInv
<1>2. QED
  BY <1>1, HomeKept, TypeInvariant, AwaitedInvariant, PTL DEF Spec

-----------------------------------------------------------------------------
(* The values that a sensor announces are those of the pages it then has,  *)
(* whatever the line loses: all of them, if its defect is not to drop the  *)
(* last.                                                                   *)

\* The pages it has or will have.
Has(s) == IF s.busy = "no" THEN s.data ELSE s.next

ChainInv ==
  pc = "running" =>
    /\ Chained(test, at) => \E l \in Layouts : loc.n = Values(l) /\ Given(l) = Has(sensor)
    /\ Rich(test, at) => loc.n > 0

\* An answer that starts nothing changes neither what was announced nor, if it
\* is data, what there is.
LEMMA JudgedLocals ==
  ASSUME TypeOK, NEW err, NEW m, Judge(err, m), Here.op # "start"
  PROVE  loc'.n = loc.n /\ loc'.ttt = loc.ttt
BY DEF Judge, Ask, Params, Hush, Start, Group, Probe, Change, Found, Restore, Data,
       Empty, Pages, TypeOK, Locals

\* A measurement that finishes gives the pages it had promised.
LEMMA HasFinished ==
  ASSUME TypeOK
  PROVE  /\ Has(Finished(sensor)) = Has(sensor)
         /\ \A a \in BOOLEAN : Has([Finished(sensor) EXCEPT !.awake = a]) = Has(sensor)
         /\ \A a \in BOOLEAN : Has([sensor EXCEPT !.awake = a]) = Has(sensor)
         /\ \A a \in BOOLEAN : Has([sensor EXCEPT !.saving = a]) = Has(sensor)
<1>1. Finished(sensor) \in Sensors /\ sensor \in Sensors
  BY SensorTyped DEF TypeOK
<1>2. \A s \in Sensors, a \in BOOLEAN : /\ Has([s EXCEPT !.awake = a]) = Has(s)
                                       /\ Has([s EXCEPT !.saving = a]) = Has(s)
  BY DEF Has, Sensors
<1>3. Has(Finished(sensor)) = Has(sensor)
  BY <1>1 DEF Has, Finished, Sensors
<1>4. QED
  BY <1>1, <1>2, <1>3

\* Silence takes nothing away where the data are still to be read.
LEMMA ChainQuietly ==
  ASSUME TypeOK, ChainInv, Quietly
  PROVE  ChainInv'
<1>1. pc = "running" /\ (Steps \/ Leaves) /\ loc' = loc /\ defect' = defect
  BY QuietTyped DEF Quietly
<1>2. SUFFICES ASSUME Steps
               PROVE  ChainInv'
  BY <1>1 DEF ChainInv, Leaves
<1>3. /\ Here.op \in Quiet /\ test' = test /\ at' = at + 1
      /\ Follows(test, at, Here, Script(test)[at + 1])
  BY <1>1, <1>2, HereSound
     DEF Quietly, Quiet, Break, Some, Await, Delay, Settle, SetBinary, At, Steps
<1>4. Chained(test, at + 1) => Chained(test, at) /\ Has(sensor') = Has(sensor)
  <2>1. SUFFICES ASSUME Chained(test, at + 1)
                 PROVE  Chained(test, at) /\ Has(sensor') = Has(sensor)
    OBVIOUS
  <2>2. Chained(test, at) /\ Here.op \in {"some", "binary"} \cup Waits
    BY <1>3, <2>1 DEF Follows, Quiet, Reads
  <2>3. Some \/ SetBinary \/ Await \/ Delay
    BY <2>2 DEF Quietly, Break, Some, Await, Delay, Settle, SetBinary, At, Waits
  <2>4. CASE Some \/ SetBinary
    BY <2>2, <2>4 DEF Some, SetBinary
  <2>5. CASE Await
    BY <2>2, <2>5, HasFinished DEF Await
  <2>6. CASE Delay
    BY <2>2, <2>6, HasFinished DEF Delay
  <2>7. QED
    BY <2>3, <2>4, <2>5, <2>6
<1>5. Rich(test, at + 1) => loc.n > 0
  <2>1. CASE Here.op = "some"
    <3>1. Some
      BY <2>1 DEF Quietly, Break, Some, Await, Delay, Settle, SetBinary, At
    <3>2. loc.n # 0 /\ loc.n \in Nat
      BY <1>2, <2>1, <3>1 DEF Some, Return, Steps, TypeOK, Locals
    <3>3. QED
      BY <3>2
  <2>2. CASE Here.op # "some"
    BY <1>1, <1>3, <2>2 DEF Follows, ChainInv
  <2>3. QED
    BY <2>1, <2>2
<1>6. \A l : Given(l)' = Given(l)
  BY <1>1 DEF Given
<1>7. QED
  BY <1>1, <1>3, <1>4, <1>5, <1>6 DEF ChainInv

\* What a measurement announces is what it will have.
LEMMA ChainTransact ==
  ASSUME TypeOK, AwaitedInv, ChainInv, Transact
  PROVE  ChainInv'
<1>1. pc = "running" /\ (Steps \/ Leaves \/ (Stays /\ Here.op \in {"params", "pages"}))
  BY TransactTyped
<1>2. PICK fate \in Fates(Here), m \in Offers(Here.cmd) :
        Exchange(Here, fate, m) /\ Judge(Err(Here, fate), m) /\ Here.cmd # "none"
  BY DEF Transact, Judge
<1>3. /\ at \in Nat /\ Sound(test, at, Here, Len(Script(test))) /\ Here.op \in Asks
      /\ Steps => Follows(test, at, Here, Script(test)[at + 1])
  BY <1>1, <1>2, HereSound DEF Steps, Sound
<1>4. /\ defect' = defect /\ (\A l : Given(l)' = Given(l))
      /\ Here.op # "start" => loc'.n = loc.n
  BY <1>2, JudgedLocals DEF Exchange, Line, Given
<1>5. Here.op \in Reads => Has(sensor') = Has(sensor)
  <2>1. SUFFICES ASSUME Here.op \in Reads
                 PROVE  Has(sensor') = Has(sensor)
    OBVIOUS
  <2>2. Here.cmd = "D" /\ sensor.busy = "no"
    BY <1>1, <1>3, <2>1 DEF Sound, AwaitedInv
  <2>3. QED
    BY <1>2, <2>2, Sent DEF Has
<1>6. CASE Stays
  <2>1. Here.op \in {"params", "pages"}
    BY <1>1, <1>3, <1>6 DEF Stays, Steps, Leaves
  <2>2. CASE Here.op = "params"
    BY <1>3, <1>6, <2>2 DEF Sound, Stays, ChainInv, Chained, Begun, Waited, Rich
  <2>3. CASE Here.op = "pages"
    <3>1. Has(sensor') = Has(sensor) /\ loc'.n = loc.n
      BY <1>4, <1>5, <2>3 DEF Reads
    <3>2. QED
      BY <1>1, <1>4, <1>6, <3>1 DEF Stays, ChainInv
  <2>4. QED
    BY <2>1, <2>2, <2>3
<1>7. CASE Steps
  <2>1. CASE Here.op = "start"
    <3>1. Start(Err(Here, fate), m)
      BY <1>2, <2>1 DEF Judge, Ask, Params, Hush, Group, Probe, Change, Found, Restore,
                        Data, Empty, Pages
    <3>2. Err(Here, fate) = "ok" /\ loc'.n = Values(m.pages)
      BY <1>7, <3>1 DEF Start, Return, Steps, TypeOK, Locals
    <3>3. m.ttt \in {0, 1} /\ m.pages \in Layouts
      BY OfferTyped
    <3>4. Here.cmd \in Measuring => Given(m.pages) = Has(sensor')
      <4>1. SUFFICES ASSUME Here.cmd \in Measuring
                     PROVE  Given(m.pages) = Has(sensor')
        OBVIOUS
      <4>2. sensor' = Obeyed(Here, m) /\ Hears(Here)
        BY <1>2, <3>2, Answered
      <4>3. QED
        BY <3>3, <4>1, <4>2, Measured DEF Has
    <3>5. Chained(test, at + 1) => Here.cmd \in Measuring
      BY <1>3, <1>7, <2>1 DEF Follows, Waits, Reads
    <3>6. ~Rich(test, at + 1)
      BY <1>3, <1>7, <2>1 DEF Follows
    <3>7. QED
      BY <1>4, <1>7, <3>2, <3>3, <3>4, <3>5, <3>6 DEF ChainInv, Steps
  <2>2. CASE Here.op # "start"
    <3>1. Chained(test, at + 1) => Chained(test, at) /\ Here.op \in Reads
      BY <1>3, <1>7, <2>2 DEF Follows, Asks, Waits
    <3>2. Rich(test, at + 1) => Rich(test, at)
      BY <1>3, <1>7 DEF Follows, Asks
    <3>3. QED
      BY <1>1, <1>4, <1>5, <1>7, <2>2, <3>1, <3>2 DEF ChainInv, Steps
  <2>3. QED
    BY <2>1, <2>2
<1>8. QED
  BY <1>1, <1>6, <1>7 DEF Leaves, ChainInv

\* Every step keeps to it.
LEMMA ChainKept == TypeOK /\ AwaitedInv /\ ChainInv /\ [Next]_vars => ChainInv'
<1> SUFFICES ASSUME TypeOK, AwaitedInv, ChainInv, [Next]_vars
             PROVE  ChainInv'
  OBVIOUS
<1>1. CASE Begin
  BY <1>1 DEF Begin, ChainInv, Chained, Begun, Waited, Rich
<1>2. CASE Finish \/ Saved
  <2>1. /\ UNCHANGED <<pc, test, at, loc, defect>> /\ Has(sensor') = Has(sensor)
        /\ \A l : Given(l)' = Given(l)
    BY <1>2, HasFinished DEF Finish, Saved, Given
  <2>2. QED
    BY <2>1 DEF ChainInv
<1>3. CASE UNCHANGED vars
  <2>1. \A l : Given(l)' = Given(l)
    BY <1>3 DEF vars, Given
  <2>2. QED
    BY <1>3, <2>1 DEF vars, ChainInv
<1>4. QED
  BY <1>1, <1>2, <1>3, ChainQuietly, ChainTransact, NextCases

\* So it is in every state.
LEMMA ChainInvariant == Spec => []ChainInv
<1>1. Init => ChainInv
  BY DEF Init, ChainInv
<1>2. QED
  BY <1>1, ChainKept, TypeInvariant, AwaitedInvariant, PTL DEF Spec

\* The values on the first k pages.
Sum(d, k) == IF k <= Len(d) THEN UpTo(d, k) ELSE Values(d)

\* The sum of the pages read, and of one more.
LEMMA SumOfPages ==
  ASSUME sensor' \in Sensors, NEW k \in Nat
  PROVE  /\ Sum(sensor'.data, k) \in Nat
         /\ Sum(sensor'.data, k) + Page(k) = Sum(sensor'.data, k + 1)
         /\ Sum(sensor'.data, k) <= Values(sensor'.data)
         /\ k >= Len(sensor'.data) => Sum(sensor'.data, k) = Values(sensor'.data)
<1> DEFINE d == sensor'.data
<1>1. d \in Held
  BY DEF Sensors
<1>2. /\ d \in Seq(Nat \ {0}) /\ Len(d) \in Nat
      /\ \A i, j \in 1 .. Len(d) : i < j => d[i] < d[j]
  BY <1>1, HeldPages
<1>3. Page(k) = IF k < Len(d) THEN UpTo(d, k + 1) - UpTo(d, k) ELSE 0
  BY DEF Page
<1> HIDE DEF d
<1>4. Values(d) = IF Len(d) = 0 THEN 0 ELSE d[Len(d)]
  BY <1>2 DEF Values, UpTo
<1>5. \A j \in 1 .. Len(d) : d[j] \in Nat /\ d[j] <= d[Len(d)]
  BY <1>2
<1>6. CASE k >= Len(d)
  <2>1. Sum(d, k) = Values(d) /\ Sum(d, k + 1) = Values(d)
    BY <1>2, <1>6 DEF Sum, Values
  <2>2. Values(d) \in Nat
    BY <1>2, <1>4, <1>5
  <2>3. Page(k) = 0
    BY <1>2, <1>3, <1>6
  <2>4. QED
    BY <2>1, <2>2, <2>3 DEF d
<1>7. CASE k < Len(d)
  <2>1. /\ Sum(d, k) = (IF k = 0 THEN 0 ELSE d[k])
        /\ Sum(d, k + 1) = d[k + 1]
        /\ Page(k) = d[k + 1] - (IF k = 0 THEN 0 ELSE d[k])
    BY <1>2, <1>3, <1>7 DEF Sum, UpTo
  <2>2. /\ d[k + 1] \in Nat /\ d[k + 1] <= d[Len(d)] /\ d[Len(d)] \in Nat
        /\ k # 0 => d[k] \in Nat /\ d[k] <= d[Len(d)]
    BY <1>2, <1>5, <1>7
  <2>3. Values(d) = d[Len(d)]
    BY <1>2, <1>4, <1>7
  <2>4. QED
    BY <1>2, <1>7, <2>1, <2>2, <2>3 DEF d
<1>8. QED
  BY <1>2, <1>6, <1>7

TallyInv ==
  pc = "running" =>
    IF Here.op = "pages" THEN loc.page < MaxPages /\ loc.total = Sum(sensor.data, loc.page)
    ELSE loc.page = 0 /\ loc.total = 0

\* A page read is added, once.
LEMMA TallyKept == TypeOK /\ AwaitedInv /\ TallyInv /\ [Next]_vars => TallyInv'
<1> SUFFICES ASSUME TypeOK, AwaitedInv, TallyInv, [Next]_vars
             PROVE  TallyInv'
  OBVIOUS
<1>1. ASSUME sensor' \in Sensors, loc'.page = 0, loc'.total = 0
      PROVE  TallyInv'
  <2>1. Sum(sensor.data, loc.page)' = 0
    BY <1>1, HeldPages DEF Sum, UpTo, Sensors
  <2>2. QED
    BY <1>1, <2>1, BoundsNatural DEF TallyInv
<1>2. CASE Begin
  BY <1>1, <1>2 DEF Begin, TypeOK, Cleared
<1>3. CASE Finish \/ Saved
  <2>1. Here.op = "pages" /\ pc = "running" => sensor.busy = "no"
    BY HereSound DEF AwaitedInv, Sound, Reads
  <2>2. Here.op = "pages" /\ pc = "running" => sensor'.data = sensor.data
    BY <1>3, <2>1 DEF Finish, Saved, TypeOK, Sensors
  <2>3. UNCHANGED <<pc, test, at, loc>> /\ Here' = Here
    BY <1>3 DEF Finish, Saved, Here
  <2>4. QED
    BY <2>2, <2>3 DEF TallyInv
<1>4. CASE UNCHANGED vars
  BY <1>4 DEF vars, TallyInv, Here
<1>5. CASE Quietly
  <2>1. pc = "running" /\ loc' = loc /\ TypeOK'
    BY <1>5, QuietTyped DEF Quietly
  <2>2. Here.op \in Quiet
    BY <1>5 DEF Quietly, Quiet, Break, Some, Await, Delay, Settle, SetBinary, At
  <2>3. QED
    BY <1>1, <2>1, <2>2 DEF TallyInv, Quiet, TypeOK
<1>6. CASE Transact
  <2>1. /\ pc = "running" /\ TypeOK'
        /\ Steps \/ Leaves \/ (Stays /\ Here.op \in {"params", "pages"})
    BY <1>6, TransactTyped
  <2>2. PICK fate \in Fates(Here), m \in Offers(Here.cmd) :
          Exchange(Here, fate, m) /\ Judge(Err(Here, fate), m) /\ Here.cmd # "none"
    BY <1>6 DEF Transact, Judge
  <2>3. CASE Here.op # "pages"
    <3>1. loc'.page = loc.page /\ loc'.total = loc.total
      BY <2>2, <2>3 DEF Judge, Ask, Params, Hush, Start, Group, Probe, Change, Found,
                        Restore, Data, Empty, Pages, TypeOK, Locals
    <3>2. QED
      BY <1>1, <2>1, <2>3, <3>1 DEF TallyInv, TypeOK
  <2>4. CASE Here.op = "pages"
    <3>1. Sound(test, at, Here, Len(Script(test))) /\ at \in Nat
      BY <2>1, HereSound
    <3>2. Stays \/ Leaves
      BY <2>1, <2>4, <3>1 DEF Sound, Steps
    <3>3. SUFFICES ASSUME Stays
                   PROVE  TallyInv'
      BY <3>2 DEF Leaves, TallyInv
    <3>4. Pages(Err(Here, fate))
      BY <2>2, <2>4 DEF Judge, Ask, Params, Hush, Start, Group, Probe, Change, Found,
                        Restore, Data, Empty
    <3>5. PICK p \in Nat : p = Page(loc.page)
      BY <2>1, PageNatural DEF TypeOK, Locals
    <3>6. ~Leaves /\ ~Steps
      BY <3>1, <3>3 DEF Leaves, Stays, Steps
    <3>7. ~Proceed /\ ~Return("FAIL")
      BY <2>1, <3>6, Proceeding DEF Return, Leaves
    <3>8. /\ More(loc.total + p)
          /\ loc' = [loc EXCEPT !.total = loc.total + p, !.page = loc.page + 1]
      BY <3>4, <3>5, <3>7 DEF Pages
    <3>9. sensor.busy = "no" /\ Here.cmd = "D"
      BY <2>1, <2>4, <3>1 DEF Sound, Reads, AwaitedInv
    <3>10. sensor'.data = sensor.data
      BY <2>2, <3>9, Sent
    <3>11. loc.page \in Nat /\ loc \in Locals /\ sensor' \in Sensors
      BY <2>1 DEF TypeOK, Locals
    <3>12. Sum(sensor'.data, loc.page) + p = Sum(sensor'.data, loc.page + 1)
      BY <3>5, <3>11, SumOfPages
    <3>13. loc'.page = loc.page + 1 /\ loc'.total = loc.total + p
      BY <3>8, <3>11 DEF Locals
    <3>14. loc.total = Sum(sensor.data, loc.page)
      BY <2>1, <2>4 DEF TallyInv
    <3>15. loc'.total = Sum(sensor'.data, loc'.page)
      BY <3>10, <3>12, <3>13, <3>14
    <3>16. loc'.page < MaxPages /\ Here' = Here
      BY <3>3, <3>8, <3>13 DEF More, Stays, Here
    <3>17. Sum(sensor.data, loc.page)' = Sum(sensor'.data, loc'.page)
      BY DEF Sum, UpTo, Values
    <3>18. QED
      BY <2>4, <3>15, <3>16, <3>17 DEF TallyInv
  <2>5. QED
    BY <2>3, <2>4
<1>7. QED
  BY <1>2, <1>3, <1>4, <1>5, <1>6, NextCases

\* So the sum is that of the pages read, in every state.
LEMMA TallyInvariant == Spec => []TallyInv
<1>1. Init => TallyInv
  BY DEF Init, TallyInv
<1>2. QED
  BY <1>1, TallyKept, TypeInvariant, AwaitedInvariant, PTL DEF Spec

-----------------------------------------------------------------------------
(* What a break and an abort do to the data.                               *)

\* test_data_retention has read the first page, and the break after that
\* leaves it alone but for a sensor that forgets.
RetainInv ==
  pc = "running" /\ test = "data_retain" =>
    /\ at = 6 => /\ loc.first = Sum(sensor.data, 1)
                 /\ defect = "forgets" => loc.first > 0
    /\ at = 7 => /\ defect # "forgets" => loc.first = Sum(sensor.data, 1)
                 /\ defect = "forgets" /\ missed = {} => loc.first > 0 /\ sensor.data = <<>>

\* The last steps of test_data_retention.
LEMMA RetainSteps ==
  ASSUME TypeOK, test = "data_retain", pc = "running"
  PROVE  /\ Len(Script(test)) = 7 /\ at \in 1 .. 7
         /\ at = 5 => Here.op = "data" /\ Here.cmd = "D"
         /\ at = 6 => Here.op = "break" /\ Here.cmd = "none"
         /\ at = 7 => Here.op = "again" /\ Here.cmd = "D"
<1>1. Script(test) = DataRetention
  BY Scripts
<1>2. Len(DataRetention) = 7
  BY DEF DataRetention
<1>3. at \in 1 .. 7
  BY <1>1, <1>2 DEF TypeOK
<1>4. QED
  BY <1>1, <1>2, <1>3 DEF DataRetention, Here, Brk, Own, Do, Step

\* The first page is empty only if there is none.
LEMMA FirstPage ==
  ASSUME sensor' \in Sensors
  PROVE  Page(0) = Sum(sensor'.data, 1) /\ (Page(0) = 0 <=> sensor'.data = <<>>)
<1>1. Page(0) = Sum(sensor'.data, 1)
  <2>1. Page(0) \in Nat
    BY PageNatural
  <2>2. Sum(sensor'.data, 0) = 0
    BY HeldPages DEF Sensors, Sum, UpTo
  <2>3. QED
    BY <2>1, <2>2, SumOfPages
<1>2. sensor'.data \in Seq(Nat \ {0})
  BY HeldPages DEF Sensors
<1>3. Len(sensor'.data) = 0 <=> sensor'.data = <<>>
  BY <1>2
<1>4. Len(sensor'.data) \in Nat
  BY <1>2
<1>5. QED
  BY <1>1, <1>3, <1>4, PageNatural

\* The break between its two readings.
LEMMA RetainQuietly ==
  ASSUME TypeOK, AwaitedInv, RetainInv, Quietly
  PROVE  RetainInv'
<1>1. pc = "running" /\ (Steps \/ Leaves) /\ loc' = loc /\ defect' = defect /\ TypeOK'
  BY QuietTyped DEF Quietly
<1>2. SUFFICES ASSUME Steps, test = "data_retain", at \in {5, 6}
               PROVE  RetainInv'
  BY <1>1, HereSound DEF RetainInv, Steps, Leaves
<1>3. Here.op \in Quiet
  BY DEF Quietly, Quiet, Break, Some, Await, Delay, Settle, SetBinary, At
<1>4. at = 6 /\ Here.op = "break"
  BY <1>1, <1>2, <1>3, RetainSteps DEF Quiet
<1>5. Break
  BY <1>4 DEF Quietly, Break, Some, Await, Delay, Settle, SetBinary, At
<1>6. sensor.busy = "no"
  BY <1>1, <1>2, <1>4 DEF AwaitedInv, Waited
<1>7. \/ sensor'.data = IF defect = "forgets" THEN <<>> ELSE sensor.data
      \/ sensor'.data = sensor.data /\ missed' # {}
  BY <1>5, <1>6 DEF Break, Line, Woken, TypeOK, Sensors
<1>8. missed' = {} => missed = {}
  BY <1>5 DEF Break, Line
<1>9. loc.first = Sum(sensor.data, 1) /\ (defect = "forgets" => loc.first > 0)
  BY <1>1, <1>2, <1>4 DEF RetainInv
<1>10. defect # "forgets" => Sum(sensor'.data, 1) = Sum(sensor.data, 1)
  BY <1>7
<1>11. Sum(sensor.data, 1)' = Sum(sensor'.data, 1)
  BY DEF Sum, UpTo, Values
<1>12. QED
  BY <1>1, <1>2, <1>4, <1>7, <1>8, <1>9, <1>10, <1>11 DEF RetainInv, Steps

\* The first of its readings.
LEMMA RetainTransact ==
  ASSUME TypeOK, AwaitedInv, ChainInv, RetainInv, Transact
  PROVE  RetainInv'
<1>1. /\ pc = "running" /\ TypeOK'
      /\ Steps \/ Leaves \/ (Stays /\ Here.op \in {"params", "pages"})
  BY TransactTyped
<1>2. PICK fate \in Fates(Here), m \in Offers(Here.cmd) :
        Exchange(Here, fate, m) /\ Judge(Err(Here, fate), m) /\ Here.cmd # "none"
  BY DEF Transact, Judge
<1>3. SUFFICES ASSUME Steps, test = "data_retain", at \in {5, 6}
               PROVE  RetainInv'
  <2>1. Stays => test # "data_retain"
    BY <1>1, HereSound DEF Sound, Stays, Steps, Leaves
  <2>2. QED
    BY <1>1, <2>1, HereSound DEF RetainInv, Steps, Leaves, Stays
<1>4. at = 5 /\ Here.op = "data" /\ Here.cmd = "D"
  BY <1>1, <1>2, <1>3, RetainSteps
<1>5. Data(Err(Here, fate))
  BY <1>2, <1>4 DEF Judge, Ask, Params, Hush, Start, Group, Probe, Change, Found,
                    Restore, Empty, Pages
<1>6. sensor' \in Sensors /\ defect' = defect /\ loc \in Locals
  BY <1>1, <1>2 DEF TypeOK, Exchange, Line
<1>7. loc'.first = Page(0)
  BY <1>4, <1>5, <1>6 DEF Data, Locals
<1>8. sensor.busy = "no"
  BY <1>1, <1>3, <1>4 DEF AwaitedInv, Waited
<1>9. sensor'.data = sensor.data
  BY <1>2, <1>4, <1>8, Sent
<1>10. defect = "forgets" => Page(0) > 0
  <2>1. SUFFICES ASSUME defect = "forgets"
                 PROVE  Page(0) > 0
    OBVIOUS
  <2>2. PICK l \in Layouts : loc.n = Values(l) /\ Given(l) = sensor.data
    BY <1>1, <1>3, <1>4, <1>8 DEF ChainInv, Chained, Waited, Has
  <2>3. loc.n > 0
    BY <1>1, <1>3, <1>4 DEF ChainInv, Rich
  <2>4. Given(l) = l
    BY <2>1 DEF Given
  <2>5. sensor'.data # <<>>
    <3>1. Values(<<>>) = 0
      BY DEF Values, UpTo
    <3>2. QED
      BY <1>9, <2>2, <2>3, <2>4, <3>1
  <2>6. QED
    BY <1>6, <2>5, FirstPage, PageNatural
<1>11. Sum(sensor.data, 1)' = Sum(sensor'.data, 1)
  BY DEF Sum, UpTo, Values
<1>12. QED
  BY <1>1, <1>3, <1>4, <1>6, <1>7, <1>10, <1>11, FirstPage DEF RetainInv, Steps

\* Every step keeps to it.
LEMMA RetainKept ==
  TypeOK /\ AwaitedInv /\ ChainInv /\ RetainInv /\ [Next]_vars => RetainInv'
<1> SUFFICES ASSUME TypeOK, AwaitedInv, ChainInv, RetainInv, [Next]_vars
             PROVE  RetainInv'
  OBVIOUS
<1>1. CASE Begin
  BY <1>1 DEF Begin, RetainInv
<1>2. CASE Finish \/ Saved
  <2>1. UNCHANGED <<pc, test, at, loc, defect>>
    BY <1>2 DEF Finish, Saved
  <2>2. pc = "running" /\ test = "data_retain" /\ at \in {6, 7}
          => sensor'.data = sensor.data /\ missed' = missed
    BY <1>2 DEF Finish, Saved, AwaitedInv, Waited, TypeOK, Sensors
  <2>3. QED
    BY <2>1, <2>2 DEF RetainInv
<1>3. CASE UNCHANGED vars
  BY <1>3 DEF vars, RetainInv
<1>4. QED
  BY <1>1, <1>2, <1>3, RetainQuietly, RetainTransact, NextCases

\* So it is in every state.
LEMMA RetainInvariant == Spec => []RetainInv
<1>1. Init => RetainInv
  BY DEF Init, RetainInv
<1>2. QED
  BY <1>1, RetainKept, TypeInvariant, AwaitedInvariant, ChainInvariant, PTL DEF Spec

\* A sensor whose measurement was aborted has no data, but for one that keeps it.
Emptied == sensor.busy = "no" /\ (defect # "keeps" => sensor.data = <<>>)

AbortInv ==
  Sure =>
    /\ pc = "running" /\ test = "break_abort" =>
         /\ at = 3 /\ loc.ttt > 0 => sensor.busy = "M"
         /\ at = 4 => sensor.busy = "M"
         /\ at \in {5, 6} => Emptied
    /\ pc = "running" /\ test = "conc_abort" =>
         /\ at \in {3, 4} /\ loc.ttt > 0 => sensor.busy = "C"
         /\ at = 5 => sensor.busy = "C"
         /\ at = 6 => Emptied
    /\ pc = "idle" /\ test \in Aborts /\ verdict = "PASS" =>
         sensor.busy = "no" /\ sensor.data = <<>>

\* The six steps of the two tests that abort a measurement.
LEMMA AbortSteps ==
  ASSUME TypeOK, test \in Aborts, pc = "running"
  PROVE  /\ Len(Script(test)) = 6 /\ at \in 1 .. 6
         /\ at = 1 => Here.op = "break" /\ Here.cmd = "none"
         /\ at = 2 => /\ Here.op = "start" /\ Here.to = "own"
                      /\ Here.cmd = IF test = "break_abort" THEN "M" ELSE "C"
         /\ test = "break_abort" /\ at = 3 => Here.op = "slow" /\ Here.cmd = "none"
         /\ test = "break_abort" /\ at = 4 => Here.op = "break" /\ Here.cmd = "none"
         /\ test = "conc_abort" /\ at = 3 => Here.op = "some" /\ Here.cmd = "none"
         /\ test = "conc_abort" /\ at = 4 => Here.op = "slow" /\ Here.cmd = "none"
         /\ at = 5 => Here.op = "ask" /\ Here.cmd = "ack" /\ Here.to = "own"
         /\ at = 6 => Here.op = "empty" /\ Here.cmd = "D" /\ Here.to = "own"
<1>1. test = "break_abort" => Script(test) = BreakAbort
  BY Scripts
<1>2. test = "conc_abort" => Script(test) = ConcurrentAbort
  BY Scripts
<1>3. Len(BreakAbort) = 6 /\ Len(ConcurrentAbort) = 6
  BY DEF BreakAbort, ConcurrentAbort
<1>4. test = "break_abort" \/ test = "conc_abort"
  BY DEF Aborts
<1>5. at \in 1 .. 6
  BY <1>1, <1>2, <1>3, <1>4 DEF TypeOK
<1>6. CASE test = "break_abort"
  BY <1>1, <1>3, <1>5, <1>6 DEF BreakAbort, Here, Brk, Own, Do, Step
<1>7. CASE test = "conc_abort"
  BY <1>2, <1>3, <1>5, <1>7 DEF ConcurrentAbort, Here, Brk, Own, Do, Step
<1>8. QED
  BY <1>4, <1>6, <1>7

\* A break aborts what the first of them started.
LEMMA AbortQuietly ==
  ASSUME TypeOK, AbortInv, Quietly, test \in Aborts
  PROVE  AbortInv'
<1>1. pc = "running" /\ (Steps \/ Leaves) /\ loc' = loc /\ TypeOK'
  BY QuietTyped DEF Quietly
<1>2. SUFFICES ASSUME Sure'
               PROVE  AbortInv'
  BY DEF AbortInv
<1>3. Sure /\ missed' = missed /\ defect' = defect
  BY <1>2, SureBefore
<1>4. test' = test /\ at \in 1 .. 6 /\ Here.op \in Quiet
  BY <1>1, AbortSteps
     DEF Steps, Leaves, Quietly, Quiet, Break, Some, Await, Delay, Settle, SetBinary, At
<1>5. CASE at \in {1, 4} /\ Here.op = "break"
  <2>1. Break
    BY <1>5 DEF Quietly, Break, Some, Await, Delay, Settle, SetBinary, At
  <2>2. Steps
    <3>1. at < Len(Script(test))
      BY <1>1, <1>5, AbortSteps
    <3>2. QED
      BY <1>1, <2>1, <3>1 DEF Break, Proceed, Leaves
  <2>3. sensor' = Woken(sensor)
    BY <1>2, <1>5, HeardQuietly
  <2>4. sensor.busy = "M" => Emptied'
    BY <1>3, <2>3 DEF Emptied, Woken, Aborted, TypeOK, Sensors
  <2>5. at = 4 => test = "break_abort" /\ sensor.busy = "M"
    BY <1>1, <1>3, <1>5, AbortSteps DEF AbortInv, Aborts
  <2>6. QED
    BY <1>5, <2>2, <2>4, <2>5 DEF AbortInv, Steps
<1>6. CASE at \in {3, 4} /\ Here.op \in {"some", "slow"}
  <2>1. Some /\ sensor' = sensor
    BY <1>6 DEF Quietly, Break, Some, Await, Delay, Settle, SetBinary, At
  <2>2. CASE Leaves
    <3>1. ~Proceed
      <4>1. Len(Script(test)) = 6
        BY <1>1, AbortSteps
      <4>2. at < Len(Script(test))
        BY <1>6, <4>1
      <4>3. QED
        BY <1>1, <2>2, <4>2 DEF Proceed, Leaves
    <3>2. verdict' = "SKIP"
      BY <2>1, <3>1 DEF Some, Return, Aborts
    <3>3. QED
      BY <2>2, <3>2 DEF AbortInv, Leaves
  <2>3. CASE Steps
    <3>1. Here.op = "slow" => loc.ttt > 0
      BY <1>1, <2>1, <2>3 DEF Some, Return, Steps, TypeOK, Locals
    <3>2. QED
      BY <1>1, <1>3, <1>4, <1>6, <2>1, <2>3, <3>1, AbortSteps DEF AbortInv, Steps, Aborts
  <2>4. QED
    BY <1>1, <2>2, <2>3
<1>7. QED
  BY <1>1, <1>4, <1>5, <1>6, AbortSteps DEF Quiet, Aborts

\* A command that is neither a measurement nor a change only aborts.
LEMMA SimplyObeyed ==
  ASSUME NEW c, c.cmd \notin Measuring, c.cmd # "A", NEW m
  PROVE  Obeyed(c, m) = IF sensor.busy = "C" THEN Aborted(sensor) ELSE sensor
BY DEF Obeyed

\* A command aborts what the second of them started.
LEMMA AbortTransact ==
  ASSUME TypeOK, HomeInv, AbortInv, Transact, test \in Aborts
  PROVE  AbortInv'
<1>1. /\ pc = "running" /\ TypeOK'
      /\ Steps \/ Leaves \/ (Stays /\ Here.op \in {"params", "pages"})
  BY TransactTyped
<1>2. PICK fate \in Fates(Here), m \in Offers(Here.cmd) :
        Exchange(Here, fate, m) /\ Judge(Err(Here, fate), m) /\ Here.cmd # "none"
  BY DEF Transact, Judge
<1>3. SUFFICES ASSUME Sure'
               PROVE  AbortInv'
  BY DEF AbortInv
<1>4. Sure /\ missed' = missed /\ defect' = defect
  BY <1>3, SureBefore
<1>5. at \in {2, 5, 6} /\ Here.to = "own" /\ Here.cmd \in {"M", "C", "ack", "D"}
  BY <1>1, <1>2, AbortSteps DEF Aborts
<1>6. Hears(Here) /\ fate = "ok" /\ Err(Here, fate) = "ok"
  <2>1. test # "addr_change" /\ Here.cmd \notin Optional
    BY <1>5 DEF Aborts, Optional
  <2>2. Hears(Here)
    BY <1>1, <1>2, <1>4, <1>5, <2>1, ReadyAsked
  <2>3. QED
    BY <1>2, <1>3, <2>1, <2>2, SureFate
<1>7. sensor' = Obeyed(Here, m) /\ sensor.busy # "M"
  BY <1>2, <1>6 DEF Exchange, Arrives, Hears
<1>8. at # 6 => at < Len(Script(test))
  <2>1. Len(Script(test)) = 6
    BY <1>1, AbortSteps
  <2>2. QED
    BY <1>5, <2>1
<1>9. at \in Nat /\ test' = test
  BY <1>1, HereSound DEF Steps, Leaves, Stays
<1>10. CASE at = 2
  <2>1. Start("ok", m)
    BY <1>1, <1>2, <1>6, <1>10, AbortSteps
       DEF Judge, Ask, Params, Hush, Group, Probe, Change, Found, Restore, Data, Empty, Pages
  <2>2. loc'.ttt = m.ttt /\ pc' = "running" /\ at' = 3
    <3>1. Proceed => pc' = "running" /\ at' = 3
      BY <1>1, <1>8, <1>10 DEF Proceed
    <3>2. loc \in Locals
      BY DEF TypeOK
    <3>3. QED
      BY <2>1, <3>1, <3>2 DEF Start, Locals
  <2>3. m.ttt > 0 => sensor'.busy = IF test = "break_abort" THEN "M" ELSE "C"
    <3>1. Here.cmd = IF test = "break_abort" THEN "M" ELSE "C"
      BY <1>1, <1>10, AbortSteps
    <3>2. Here.cmd \in Measuring
      BY <3>1 DEF Measuring
    <3>3. QED
      BY <1>6, <1>7, <3>1, <3>2, Measured
  <2>4. QED
    BY <1>9, <2>2, <2>3 DEF AbortInv
<1>11. CASE at = 5
  <2>1. Ask("ok") /\ Here.cmd = "ack" /\ Here.to = "own"
    BY <1>1, <1>2, <1>6, <1>11, AbortSteps
       DEF Judge, Start, Params, Hush, Group, Probe, Change, Found, Restore, Data, Empty, Pages
  <2>2. pc' = "running" /\ at' = 6
    BY <1>1, <1>8, <1>11, <2>1 DEF Ask, Proceed
  <2>3. sensor' = IF sensor.busy = "C" THEN Aborted(sensor) ELSE sensor
    BY <1>7, <2>1, SimplyObeyed DEF Measuring
  <2>4. (test = "conc_abort" => sensor.busy = "C") /\ (test = "break_abort" => Emptied)
    BY <1>1, <1>4, <1>11 DEF AbortInv
  <2>5. Emptied'
    BY <1>4, <2>3, <2>4 DEF Emptied, Aborted, TypeOK, Sensors, Aborts
  <2>6. QED
    BY <1>9, <2>2, <2>5 DEF AbortInv
<1>12. CASE at = 6
  <2>1. Empty("ok") /\ Here.cmd = "D"
    BY <1>1, <1>2, <1>6, <1>12, AbortSteps
       DEF Judge, Start, Params, Hush, Group, Probe, Change, Found, Restore, Data, Ask, Pages
  <2>2. Emptied
    BY <1>1, <1>4, <1>12 DEF AbortInv, Aborts
  <2>3. sensor' = sensor
    BY <1>7, <2>1, <2>2, SimplyObeyed DEF Measuring, Emptied
  <2>4. pc' = "idle"
    <3>1. Len(Script(test)) = 6 /\ Here.op = "empty"
      BY <1>1, <1>12, AbortSteps
    <3>2. ~Steps
      BY <1>12, <3>1 DEF Steps
    <3>3. QED
      BY <1>1, <3>1, <3>2 DEF Leaves
  <2>5. verdict' = "PASS" => sensor'.data = <<>>
    <3>1. Page(0) \in Nat
      BY <1>1, PageNatural DEF TypeOK
    <3>2. Page(0) > 0 => verdict' = "FAIL"
      BY <2>1 DEF Empty, Return
    <3>3. QED
      BY <1>1, <3>1, <3>2, FirstPage DEF TypeOK
  <2>6. QED
    BY <1>9, <2>2, <2>3, <2>4, <2>5 DEF AbortInv, Emptied
<1>13. QED
  BY <1>5, <1>10, <1>11, <1>12

\* Every step keeps to it.
LEMMA AbortKept == TypeOK /\ HomeInv /\ AbortInv /\ [Next]_vars => AbortInv'
<1> SUFFICES ASSUME TypeOK, HomeInv, AbortInv, [Next]_vars
             PROVE  AbortInv'
  OBVIOUS
<1>1. CASE Begin
  BY <1>1 DEF Begin, AbortInv
<1>2. CASE Finish \/ Saved
  <2>1. SUFFICES ASSUME Sure'
                 PROVE  AbortInv'
    BY DEF AbortInv
  <2>2. Sure /\ missed' = missed /\ defect' = defect
    BY <1>2, <2>1, SureBefore
  <2>3. UNCHANGED <<pc, test, at, loc, verdict>>
    BY <1>2 DEF Finish, Saved
  <2>4. CASE Saved
    <3>1. sensor'.busy = sensor.busy /\ sensor'.data = sensor.data
      BY <2>4 DEF Saved, TypeOK, Sensors
    <3>2. QED
      BY <2>2, <2>3, <3>1 DEF AbortInv, Emptied
  <2>5. CASE Finish
    <3>1. sensor.busy # "no"
      BY <2>5 DEF Finish
    <3>2. ~(pc = "running" /\ test \in Aborts)
      BY <2>1, <2>5 DEF Finish, Sure
    <3>3. QED
      BY <2>2, <2>3, <3>1, <3>2 DEF AbortInv, Aborts
  <2>6. QED
    BY <1>2, <2>4, <2>5
<1>3. CASE UNCHANGED vars
  BY <1>3 DEF vars, AbortInv, Emptied, Sure
<1>4. CASE test \notin Aborts /\ (Quietly \/ Transact)
  <2>1. test' = test
    BY <1>4, QuietTyped, TransactTyped DEF Quietly, Steps, Leaves, Stays
  <2>2. QED
    BY <1>4, <2>1 DEF AbortInv, Aborts
<1>5. QED
  BY <1>1, <1>2, <1>3, <1>4, AbortQuietly, AbortTransact, NextCases

\* So it is in every state.
LEMMA AbortInvariant == Spec => []AbortInv
<1>1. Init => AbortInv
  BY DEF Init, AbortInv
<1>2. QED
  BY <1>1, AbortKept, TypeInvariant, HomeInvariant, PTL DEF Spec

-----------------------------------------------------------------------------
(* What the tests count, and the wait for a service request.               *)

SlowInv ==
  pc = "running" /\ test = "service_req" /\ at \in {4, 5} => loc.ttt > 0

CountInv ==
  pc = "running" /\ missed = {} /\ defect = "none" =>
    /\ test = "bus_scan" /\ at \in {5, 6} => loc.count > 0
    /\ test = "resp_compliance" => loc.count = 0

\* A test that waits for a service request was announced one.
LEMMA SlowKept == TypeOK /\ SlowInv /\ [Next]_vars => SlowInv'
<1> SUFFICES ASSUME TypeOK, SlowInv, [Next]_vars
             PROVE  SlowInv'
  OBVIOUS
<1>1. CASE Begin \/ Finish \/ Saved \/ UNCHANGED vars
  BY <1>1 DEF Begin, Finish, Saved, vars, SlowInv
<1>2. CASE Quietly
  <2>1. pc = "running" /\ (Steps \/ Leaves) /\ loc' = loc /\ at \in Nat
    BY <1>2, QuietTyped, HereSound DEF Quietly
  <2>2. SUFFICES ASSUME Steps, test = "service_req", at = 3
                 PROVE  loc.ttt > 0
    BY <2>1 DEF SlowInv, Steps, Leaves
  <2>3. Here.op = "slow"
    BY <2>1, <2>2, HereSound DEF Sound
  <2>4. Some
    BY <1>2, <2>3 DEF Quietly, Break, Some, Await, Delay, Settle, SetBinary, At
  <2>5. QED
    BY <2>2, <2>3, <2>4 DEF Some, Return, Steps, TypeOK, Locals
<1>3. CASE Transact
  <2>1. /\ pc = "running" /\ at \in Nat /\ Sound(test, at, Here, Len(Script(test)))
        /\ Steps \/ Leaves \/ (Stays /\ Here.op \in {"params", "pages"})
    BY <1>3, TransactTyped, HereSound
  <2>2. PICK fate \in Fates(Here), m \in Offers(Here.cmd) :
          Judge(Err(Here, fate), m) /\ Here.cmd # "none"
    BY <1>3 DEF Transact, Judge
  <2>3. at = 3 => test # "service_req"
    BY <2>1, <2>2 DEF Sound, Asks
  <2>4. at \in {4, 5} => loc'.ttt = loc.ttt
    BY <2>1, <2>2, JudgedLocals DEF Sound
  <2>5. QED
    BY <2>1, <2>3, <2>4 DEF SlowInv, Steps, Stays, Leaves
<1>4. QED
  BY <1>1, <1>2, <1>3, NextCases

\* The fourth step of test_bus_scan looks for the sensor.
LEMMA BusSteps ==
  ASSUME TypeOK, test = "bus_scan", pc = "running", at = 4
  PROVE  Here.op = "look" /\ Here.cmd = "ack" /\ Here.to = "own"
BY Scripts, ScanSteps DEF Step, Here

\* What is counted is what answered.
LEMMA CountKept == TypeOK /\ HomeInv /\ CountInv /\ [Next]_vars => CountInv'
<1> SUFFICES ASSUME TypeOK, HomeInv, CountInv, [Next]_vars
             PROVE  CountInv'
  OBVIOUS
<1>1. CASE Begin
  BY <1>1 DEF Begin, Cleared, CountInv
<1>2. CASE Finish \/ Saved
  BY <1>2, SureBefore DEF Finish, Saved, CountInv, Sure
<1>3. CASE UNCHANGED vars
  BY <1>3 DEF vars, CountInv
<1>4. CASE Quietly
  <2>1. pc = "running" /\ (Steps \/ Leaves) /\ loc' = loc /\ at \in Nat
    BY <1>4, QuietTyped, HereSound DEF Quietly
  <2>2. SUFFICES ASSUME Steps, Sure'
                 PROVE  CountInv'
    BY <2>1 DEF CountInv, Leaves, Sure
  <2>3. missed' = missed /\ defect' = defect
    BY <1>4, <2>2, SureBefore
  <2>4. Here.cmd = "none"
    BY <1>4, <2>1, HereSound
       DEF Sound, Asks, Quietly, Break, Some, Await, Delay, Settle, SetBinary, At
  <2>5. at = 4 => test # "bus_scan"
    BY <2>1, <2>4, BusSteps
  <2>6. QED
    BY <2>1, <2>2, <2>3, <2>5 DEF CountInv, Steps
<1>5. CASE Transact
  <2>1. /\ pc = "running" /\ at \in Nat /\ Sound(test, at, Here, Len(Script(test)))
        /\ Steps \/ Leaves \/ (Stays /\ Here.op \in {"params", "pages"})
    BY <1>5, TransactTyped, HereSound
  <2>2. PICK fate \in Fates(Here), m \in Offers(Here.cmd) :
          /\ Exchange(Here, fate, m) /\ Judge(Err(Here, fate), m)
          /\ Here.cmd # "none"
    BY <1>5 DEF Transact, Judge
  <2>3. SUFFICES ASSUME Sure', Steps, defect' = "none",
                        test \in {"bus_scan", "resp_compliance"}
                 PROVE  CountInv'
    <3>1. Stays => test \notin {"bus_scan", "resp_compliance"}
      BY <2>1 DEF Sound, Stays, Steps, Leaves
    <3>2. QED
      BY <2>1, <3>1 DEF CountInv, Steps, Stays, Leaves, Sure
  <2>4. Sure /\ missed' = missed /\ defect = "none"
    BY <1>5, <2>3, SureBefore
  <2>5. Here.op \in {"look", "must", "may", "mustnot"}
    BY <2>1, <2>2, <2>3, HereSound DEF Sound, Quiet, Asks
  <2>6. Probe(Err(Here, fate)) /\ loc \in Locals
    BY <2>2, <2>5 DEF Judge, Ask, Params, Hush, Start, Group, Change, Found, Restore,
                      Data, Empty, Pages, TypeOK
  <2>7. Err(Here, fate) = IF Hears(Here) /\ fate = "ok" THEN "ok" ELSE "timeout"
    BY <2>2, <2>3, SureFate
  <2>8. fate = "ignored" => Here.cmd \in Optional
    BY <2>2, <2>3, SureFate
  <2>9. fate \in {"ok", "ignored"}
    BY <2>2, <2>3, SureFate
  <2>10. CASE test = "bus_scan"
    <3>1. at = 4 => Here.op = "look" /\ Err(Here, fate) = "ok"
      <4>1. SUFFICES ASSUME at = 4
                     PROVE  Here.op = "look" /\ Err(Here, fate) = "ok"
        OBVIOUS
      <4>2. Here.op = "look" /\ Here.cmd = "ack" /\ Here.to = "own"
        BY <2>1, <2>10, <4>1, BusSteps
      <4>3. Hears(Here)
        BY <2>1, <2>2, <2>4, <2>10, <4>2, ReadyAsked
      <4>4. QED
        BY <2>7, <2>8, <2>9, <4>2, <4>3 DEF Optional
    <3>2. loc.count \in Nat /\ loc'.count \in {loc.count, loc.count + 1}
          /\ (Here.op = "look" /\ Err(Here, fate) = "ok" => loc'.count = loc.count + 1)
      BY <2>6 DEF Probe, Locals
    <3>3. QED
      BY <2>1, <2>3, <2>4, <2>10, <3>1, <3>2 DEF CountInv, Steps
  <2>11. CASE test = "resp_compliance"
    <3>1. Here.op \in {"must", "may"}
      BY <2>1, <2>2, <2>3, <2>5, <2>11 DEF Sound, Steps, Quiet
    <3>2. Here.op = "must" => Here.cmd \notin Optional /\ Here.to \in {"own", "all"}
      BY <2>1, <2>11 DEF Sound
    <3>3. Here.op = "must" => Err(Here, fate) = "ok"
      BY <2>1, <2>2, <2>4, <2>7, <2>8, <2>9, <2>11, <3>2, ReadyAsked
    <3>4. loc'.count = loc.count
      BY <2>6, <3>1, <3>3 DEF Probe, Locals
    <3>5. QED
      BY <2>1, <2>3, <2>4, <2>11, <3>4 DEF CountInv, Steps
  <2>12. QED
    BY <2>3, <2>10, <2>11
<1>6. QED
  BY <1>1, <1>2, <1>3, <1>4, <1>5, NextCases

\* So both hold in every state.
LEMMA CountsInvariant == Spec => [](SlowInv /\ CountInv)
<1>1. Init => SlowInv /\ CountInv
  BY DEF Init, SlowInv, CountInv
<1>2. QED
  BY <1>1, SlowKept, CountKept, TypeInvariant, HomeInvariant, PTL DEF Spec

-----------------------------------------------------------------------------
(* The verdicts.                                                           *)

\* A test that ends by a step that asks nothing fails nobody, but for the
\* service request that does not come.
LEMMA CompliantQuietly ==
  ASSUME TypeOK, HomeInv, Quietly, pc' = "idle", missed' = {}, defect' = "none"
  PROVE  verdict' \in {"PASS", "SKIP"}
<1>1. /\ pc = "running" /\ Here.op \in Quiet /\ at \in Nat
      /\ Sound(test, at, Here, Len(Script(test)))
  BY HereSound DEF Quietly, Quiet, Break, Some, Await, Delay, Settle, SetBinary, At
<1>2. Sure' /\ Sure
  BY SureBefore DEF Sure
<1>3. Proceed => verdict' \in {"PASS", "SKIP"}
  <2>1. SUFFICES ASSUME Proceed
                 PROVE  verdict' \in {"PASS", "SKIP"}
    OBVIOUS
  <2>2. verdict' = Conclusion(loc') /\ ~(at < Len(Script(test)))
    BY <1>1, <2>1 DEF Proceed, Return
  <2>3. test \notin {"bus_scan", "resp_compliance"}
    BY <1>1, <2>2 DEF Sound, Quiet
  <2>4. QED
    BY <2>2, <2>3 DEF Conclusion
<1>4. CASE Some
  BY <1>3, <1>4 DEF Some, Return
<1>5. CASE Await
  <2>1. \A fate \in {"ok", "unheard"} : Line(fate) => fate = "ok"
    BY <1>2 DEF Line, Sure
  <2>2. QED
    BY <1>2, <1>3, <1>5, <2>1 DEF Await, Sure
<1>6. CASE Settle
  <2>1. test = "addr_change"
    BY <1>1, <1>6 DEF Settle, At, Sound
  <2>2. verdict = "none" /\ loc.err = "ok"
    BY <1>1, <1>2, <2>1 DEF HomeInv
  <2>3. QED
    BY <1>3, <1>6, <2>2 DEF Settle
<1>7. CASE Break \/ Delay \/ SetBinary
  BY <1>3, <1>7 DEF Break, Delay, SetBinary
<1>8. QED
  BY <1>4, <1>5, <1>6, <1>7 DEF Quietly

\* What the answers to a command were when nothing was lost.
LEMMA CompliantAnswered ==
  ASSUME TypeOK, HomeInv, pc = "running", Sure, Sure', defect = "none", Here.cmd # "none",
         NEW fate \in Fates(Here), NEW m \in Offers(Here.cmd), Exchange(Here, fate, m)
  PROVE  /\ Here.op \in {"hush", "mustnot"} => Err(Here, fate) = "timeout"
         /\ Here.op \notin {"hush", "mustnot", "look"} =>
              \/ Err(Here, fate) = "ok"
              \/ Err(Here, fate) = "timeout" /\ Here.cmd \in Optional
<1>1. at \in Nat /\ Sound(test, at, Here, Len(Script(test)))
  BY HereSound
<1>2. Here.op \in {"hush", "mustnot"} => Err(Here, fate) = "timeout"
  BY <1>1, ReadyAsked, SureFate DEF Sound
<1>3. Here.op \notin {"hush", "mustnot", "look"} => Hears(Here)
  BY <1>1, ReadyAsked DEF Sound
<1>4. QED
  BY <1>2, <1>3, SureFate

\* All the pages are read before a test stops reading, and hold what the sensor
\* announced.
LEMMA PagesRead ==
  ASSUME TypeOK, AwaitedInv, ChainInv, TallyInv, pc = "running", Here.op = "pages",
         NEW fate \in Fates(Here), NEW m \in Offers(Here.cmd), Exchange(Here, fate, m),
         sensor' \in Sensors
  PROVE  \E l \in Layouts, t \in Nat :
           /\ loc.n = Values(l) /\ loc.n > 0 /\ loc.page \in Nat
           /\ loc.total + Page(loc.page) = t /\ t <= Values(Given(l))
           /\ ~More(t) \/ Page(loc.page) = 0
                 => t = Values(Given(l)) \/ loc.n <= t
<1>1. at \in Nat /\ Sound(test, at, Here, Len(Script(test)))
  BY HereSound
<1>2. sensor.busy = "no" /\ Here.cmd = "D"
  BY <1>1 DEF Sound, Reads, AwaitedInv
<1>3. sensor'.data = sensor.data
  BY <1>2, Sent
<1>4. Chained(test, at) /\ Rich(test, at)
  BY <1>1 DEF Sound, Reads, Chained
<1>5. PICK l \in Layouts : loc.n = Values(l) /\ Given(l) = sensor.data
  BY <1>2, <1>4 DEF ChainInv, Has
<1>6. loc.n > 0 /\ loc.page \in Nat /\ loc.n \in Nat
  BY <1>4 DEF ChainInv, TypeOK, Locals
<1>7. loc.page < MaxPages /\ loc.total = Sum(sensor.data, loc.page)
  BY DEF TallyInv
<1>8. /\ Page(loc.page) \in Nat /\ (Page(loc.page) = 0 <=> loc.page >= Len(sensor.data))
  BY <1>3, <1>6, PageNatural
<1>9. PICK k \in Nat : k = loc.page + 1
  BY <1>6
<1>10. /\ Sum(sensor.data, k) \in Nat /\ Sum(sensor.data, k) <= Values(sensor.data)
       /\ k >= Len(sensor.data) => Sum(sensor.data, k) = Values(sensor.data)
  BY <1>3, SumOfPages
<1>11. PICK t \in Nat : t = Sum(sensor.data, k)
  BY <1>10
<1>12. loc.total + Page(loc.page) = t
  <2>1. Sum(sensor.data, loc.page) + Page(loc.page) = Sum(sensor.data, loc.page + 1)
    BY <1>3, <1>6, SumOfPages
  <2>2. QED
    BY <1>7, <1>9, <1>11, <2>1
<1>13. Len(sensor.data) \in Nat /\ Len(sensor.data) <= MaxPages
  BY HeldPages DEF TypeOK, Sensors
<1>14. ~More(t) \/ Page(loc.page) = 0 => t = Values(sensor.data) \/ loc.n <= t
  BY <1>6, <1>8, <1>9, <1>10, <1>11, <1>13, BoundsNatural DEF More
<1>15. QED
  BY <1>5, <1>6, <1>10, <1>11, <1>14, <1>12

\* No exchange with a compliant sensor fails it.
LEMMA CompliantTransact ==
  ASSUME TypeOK, AwaitedInv, HomeInv, ChainInv, TallyInv, RetainInv, AbortInv, CountInv,
         Transact, pc' = "idle", missed' = {}, defect' = "none"
  PROVE  verdict' \in {"PASS", "SKIP"}
<1>1. pc = "running" /\ TypeOK'
  BY TransactTyped
<1>2. PICK fate \in Fates(Here), m \in Offers(Here.cmd) :
        /\ Exchange(Here, fate, m) /\ Judge(Err(Here, fate), m)
        /\ Here.cmd # "none"
  BY DEF Transact, Judge
<1>3. Sure' /\ Sure /\ missed = {} /\ defect = "none"
  BY SureBefore DEF Sure
<1>4. PICK err \in Errs : err = Err(Here, fate)
  BY <1>1, <1>2, ExchangeTyped
<1>5. Judge(err, m)
  BY <1>2, <1>4
<1>6. at \in Nat /\ Sound(test, at, Here, Len(Script(test)))
  BY <1>1, HereSound
<1>7. /\ Here.op \in {"hush", "mustnot"} => err = "timeout"
      /\ Here.op \notin {"hush", "mustnot", "look"} =>
           err = "ok" \/ (err = "timeout" /\ Here.cmd \in Optional)
  BY <1>1, <1>2, <1>3, <1>4, CompliantAnswered
<1>8. test \notin {"bus_scan", "resp_compliance"} => Conclusion(loc') \in {"PASS", "SKIP"}
  BY DEF Conclusion
<1>9. Proceed => verdict' = Conclusion(loc') /\ ~(at < Len(Script(test)))
  BY <1>1 DEF Proceed, Return
<1>10. Here.op \notin {"look", "must", "may", "mustnot"} /\ Proceed
         => verdict' \in {"PASS", "SKIP"}
  <2>1. Here.op # "break"
    BY <1>2, <1>6 DEF Sound, Asks
  <2>2. QED
    BY <1>6, <1>8, <1>9, <2>1 DEF Sound
<1>11. sensor' \in Sensors
  BY <1>1 DEF TypeOK
<1>12. CASE Ask(err)
  <2>1. Here.op = "ask"
    BY <1>12 DEF Ask
  <2>2. err = "timeout" => test \in {"extended", "extended_ml"}
    BY <1>6, <1>7, <2>1 DEF Sound
  <2>3. AskFailed("timeout") = "SKIP" \/ err = "ok"
    BY <1>7, <2>1, <2>2 DEF AskFailed
  <2>4. Here.to = "all" => sensor.addr = "own"
    <3>1. SUFFICES ASSUME Here.to = "all"
                   PROVE  sensor.addr = "own"
      OBVIOUS
    <3>2. test # "addr_change"
      BY <1>1, <2>1, <3>1, ChangeSteps
    <3>3. QED
      BY <1>1, <1>3, <3>2 DEF HomeInv
  <2>5. QED
    BY <1>7, <1>10, <1>12, <2>1, <2>3, <2>4 DEF Ask, Return
<1>13. CASE Params(err)
  BY <1>1, <1>10, <1>13 DEF Params
<1>14. CASE Hush(err)
  BY <1>7, <1>10, <1>14 DEF Hush
<1>15. CASE Start(err, m)
  <2>1. Here.op = "start"
    BY <1>15 DEF Start
  <2>2. err = "timeout" => test \in {"hv_ascii", "hv_binary"}
    BY <1>6, <1>7, <2>1 DEF Sound
  <2>3. err = "ok" \/ StartFailed(err) = "SKIP"
    BY <1>7, <2>1, <2>2 DEF StartFailed, HighVolume, Aborts
  <2>4. QED
    BY <1>10, <1>15, <2>1, <2>3 DEF Start, Return
<1>16. CASE Group(err, m)
  <2>1. Here.op = "group"
    BY <1>16 DEF Group
  <2>2. err # "timeout"
    BY <1>6, <1>7, <2>1 DEF Sound
  <2>3. QED
    BY <1>10, <1>16, <2>1, <2>2 DEF Group
<1>17. CASE Probe(err)
  <2>1. Here.op \in {"look", "must", "may", "mustnot"} /\ Proceed
    BY <1>17 DEF Probe
  <2>2. verdict' = Conclusion(loc') /\ ~(at < Len(Script(test)))
    BY <1>9, <2>1
  <2>3. loc \in Locals /\ loc.count \in Nat
    BY DEF TypeOK, Locals
  <2>4. CASE test = "bus_scan"
    <3>1. at = 6
      <4>1. Len(Script(test)) = 6
        BY <2>4, Scripts, ScanSteps
      <4>2. QED
        BY <1>1, <1>6, <2>2, <4>1 DEF TypeOK
    <3>2. loc'.count > 0
      BY <1>1, <1>3, <1>17, <2>3, <2>4, <3>1 DEF CountInv, Probe, Locals
    <3>3. QED
      BY <2>2, <2>4, <3>2, <1>1 DEF Conclusion, TypeOK, Steps
  <2>5. CASE test = "resp_compliance"
    <3>1. Here.op = "mustnot" /\ err = "timeout"
      BY <1>2, <1>6, <1>7, <2>1, <2>2, <2>5 DEF Sound
    <3>2. loc'.count = 0
      BY <1>1, <1>3, <1>17, <2>3, <2>5, <3>1 DEF CountInv, Probe, Locals
    <3>3. QED
      BY <2>2, <2>5, <3>2 DEF Conclusion
  <2>6. QED
    BY <1>6, <2>1, <2>4, <2>5 DEF Sound
<1>18. CASE Change(err) \/ Restore(err)
  <2>1. Here.cmd \notin Optional
    BY <1>6, <1>18 DEF Change, Restore, Sound
  <2>2. Here.op \in {"change", "restore"}
    BY <1>18 DEF Change, Restore
  <2>3. err = "ok"
    BY <1>7, <2>1, <2>2
  <2>4. QED
    BY <1>10, <1>18, <2>2, <2>3 DEF Change, Restore
<1>19. CASE Found(err)
  BY <1>1, <1>19 DEF Found
<1>20. CASE Data(err)
  <2>1. Here.op \in Reads /\ Here.cmd = "D"
    BY <1>6, <1>20 DEF Data, Sound, Reads
  <2>2. err = "ok"
    BY <1>7, <2>1 DEF Reads, Optional
  <2>3. sensor.busy = "no"
    BY <1>1, <1>6, <2>1 DEF Sound, AwaitedInv
  <2>4. Here.op = "again" => Page(0) = loc.first
    <3>1. SUFFICES ASSUME Here.op = "again"
                   PROVE  Page(0) = loc.first
      OBVIOUS
    <3>2. test = "data_retain" /\ at = 7
      BY <1>6, <3>1 DEF Sound
    <3>3. loc.first = Sum(sensor.data, 1)
      BY <1>1, <1>3, <3>2 DEF RetainInv
    <3>4. sensor'.data = sensor.data
      BY <1>2, <2>1, <2>3, Sent
    <3>5. QED
      BY <1>11, <3>3, <3>4, FirstPage
  <2>5. QED
    BY <1>10, <1>20, <2>2, <2>4 DEF Data
<1>21. CASE Empty(err)
  <2>1. test \in Aborts /\ at = 6 /\ Here.op = "empty" /\ Here.cmd = "D"
    BY <1>6, <1>21 DEF Empty, Sound
  <2>2. sensor.busy = "no" /\ sensor.data = <<>>
    BY <1>1, <1>3, <2>1 DEF AbortInv, Emptied, Aborts
  <2>3. sensor'.data = <<>>
    BY <1>2, <2>1, <2>2, Sent
  <2>4. Page(0) = 0
    BY <1>11, <2>3, FirstPage
  <2>5. QED
    BY <1>10, <1>21, <2>1, <2>4 DEF Empty
<1>22. CASE Pages(err)
  <2>1. Here.op = "pages" /\ Here.cmd = "D"
    BY <1>6, <1>22 DEF Pages, Sound, Reads
  <2>2. err = "ok"
    BY <1>7, <2>1 DEF Optional
  <2>3. PICK l \in Layouts, t \in Nat :
          /\ loc.n = Values(l) /\ loc.n > 0 /\ loc.page \in Nat
          /\ loc.total + Page(loc.page) = t /\ t <= Values(Given(l))
          /\ ~More(t) \/ Page(loc.page) = 0
                => t = Values(Given(l)) \/ loc.n <= t
    BY <1>1, <1>2, <1>11, <2>1, PagesRead
  <2>4. Given(l) = l
    BY <1>3 DEF Given
  <2>5. ~More(t) \/ Page(loc.page) = 0
    BY <1>1, <1>22, <2>2, <2>3 DEF Pages
  <2>6. loc.n \in Nat
    BY DEF TypeOK, Locals
  <2>7. t = loc.n
    BY <2>3, <2>4, <2>5, <2>6
  <2>8. Proceed
    BY <1>1, <1>22, <2>2, <2>3, <2>7 DEF Pages, Counted
  <2>9. QED
    BY <1>10, <2>1, <2>8
<1>23. QED
  BY <1>5, <1>12, <1>13, <1>14, <1>15, <1>16, <1>17, <1>18, <1>19, <1>20, <1>21, <1>22
     DEF Judge

\* A verdict stays until the next test begins.
LEMMA VerdictKept ==
  ASSUME Over, [Next]_vars, Over'
  PROVE  /\ UNCHANGED <<test, verdict, missed, defect>>
         /\ UNCHANGED sensor \/ Finish \/ Saved
BY DEF Over, Next, Begin, Finish, Saved, Break, Some, Await, Delay, Settle, SetBinary,
       Transact, At, vars

\* So no step fails it.
LEMMA CompliantKept ==
  ASSUME TypeOK, AwaitedInv, HomeInv, ChainInv, TallyInv, RetainInv, AbortInv, CountInv,
         CompliantNotFailed, [Next]_vars
  PROVE  CompliantNotFailed'
<1>1. SUFFICES ASSUME pc' = "idle", missed' = {}, defect' = "none"
               PROVE  verdict' \in {"none", "PASS", "SKIP"}
  BY DEF CompliantNotFailed, Over, Clean
<1>2. CASE Over
  BY <1>1, <1>2, VerdictKept DEF CompliantNotFailed, Over, Clean
<1>3. CASE Quietly
  BY <1>1, <1>3, CompliantQuietly
<1>4. CASE Transact
  BY <1>1, <1>4, CompliantTransact
<1>5. CASE ~Over /\ (Begin \/ Finish \/ Saved \/ UNCHANGED vars)
  BY <1>1, <1>5 DEF Over, Begin, Finish, Saved, vars
<1>6. QED
  BY <1>2, <1>3, <1>4, <1>5, NextCases

\* No sensor that keeps to the protocol is failed by a test that lost nothing,
\* however the tests before it ended.
THEOREM CompliantIsNotFailed == Spec => []CompliantNotFailed
<1>1. Init => CompliantNotFailed
  BY DEF Init, CompliantNotFailed
<1>2. QED
  BY <1>1, CompliantKept, TypeInvariant, AwaitedInvariant, HomeInvariant, ChainInvariant,
     TallyInvariant, RetainInvariant, AbortInvariant, CountsInvariant, PTL DEF Spec

\* All pages but the last hold fewer values than all.
LEMMA FewValues ==
  ASSUME NEW l \in Layouts, Values(l) > 0
  PROVE  Values(SubSeq(l, 1, Len(l) - 1)) < Values(l)
<1> DEFINE g == SubSeq(l, 1, Len(l) - 1)
<1>1. l \in Seq(Nat \ {0}) /\ Len(l) \in Nat
  BY HeldPages DEF Held
<1>2. \A i, j \in 1 .. Len(l) : i < j => l[i] < l[j]
  BY HeldPages DEF Held
<1>3. Len(l) > 0
  BY <1>1 DEF Values, UpTo
<1>4. Values(l) = l[Len(l)]
  BY <1>1, <1>3 DEF Values, UpTo
<1>5. /\ Len(g) = Len(l) - 1
      /\ \A i \in 1 .. Len(l) - 1 : g[i] = l[i]
  BY <1>1, <1>3, WithoutLast
<1> HIDE DEF g
<1>6. Len(l) \in 1 .. Len(l) /\ (Len(l) # 1 => Len(l) - 1 \in 1 .. Len(l))
  BY <1>1, <1>3
<1>7. Values(g) = IF Len(l) = 1 THEN 0 ELSE l[Len(l) - 1]
  BY <1>1, <1>3, <1>5, <1>6 DEF Values, UpTo
<1>8. l[Len(l)] \in Nat \ {0}
  BY <1>1, <1>6
<1>9. Len(l) # 1 => l[Len(l) - 1] < l[Len(l)]
  <2>1. SUFFICES ASSUME Len(l) # 1
                 PROVE  l[Len(l) - 1] < l[Len(l)]
    OBVIOUS
  <2>2. Len(l) - 1 < Len(l)
    BY <1>1
  <2>3. QED
    BY <1>2, <1>6, <2>1, <2>2, Zenon
<1>10. QED
  BY <1>4, <1>7, <1>8, <1>9 DEF g

\* What was counted once more, and a page that is empty where the first was not.
LEMMA CountedOnce ==
  ASSUME loc \in Locals, loc' = [loc EXCEPT !.count = loc.count + 1]
  PROVE  loc'.count > 0
BY DEF Locals

\* An empty page is not the page read before.
LEMMA EmptyNotFirst ==
  ASSUME loc \in Locals, loc.first > 0, Page(0) = 0
  PROVE  Page(0) # loc.first
BY DEF Locals

\* A sensor that does not give its last page is never read to the end.
LEMMA FewNeverRead ==
  ASSUME TypeOK, AwaitedInv, ChainInv, TallyInv, pc = "running", defect = "few",
         NEW fate \in Fates(Here), NEW m \in Offers(Here.cmd), Exchange(Here, fate, m),
         sensor' \in Sensors, Here.op = "pages"
  PROVE  ~Counted(loc.total + Page(loc.page))
<1>1. PICK l \in Layouts, t \in Nat :
        /\ loc.n = Values(l) /\ loc.n > 0
        /\ loc.total + Page(loc.page) = t /\ t <= Values(Given(l))
  BY PagesRead
<1>2. Values(Given(l)) < Values(l)
  BY <1>1, FewValues DEF Given
<1>3. Values(Given(l)) \in Nat
  BY GivenHeld, UpToNatural
<1>4. QED
  BY <1>1, <1>2, <1>3 DEF Counted

\* How a test that ends passes: by its last step.
LEMMA PassedQuietly ==
  ASSUME TypeOK, Quietly, pc' = "idle", verdict' = "PASS"
  PROVE  test = "identify_meas" \/ (Proceed /\ at = Len(Script(test)))
<1>1. pc = "running"
  BY QuietTyped DEF Quietly
<1>2. Proceed => at = Len(Script(test))
  BY <1>1, HereSound DEF Proceed, TypeOK
<1>3. QED
  BY <1>2 DEF Quietly, Break, Some, Await, Delay, Settle, SetBinary, Return

\* A test passes only at its last step.
LEMMA PassedTransact ==
  ASSUME TypeOK, pc = "running", NEW err, NEW m, Judge(err, m), pc' = "idle",
         verdict' = "PASS"
  PROVE  Proceed /\ at = Len(Script(test))
<1>1. Proceed => at = Len(Script(test))
  BY HereSound DEF Proceed, TypeOK
<1>2. Proceed
  <2>1. StartFailed(err) # "PASS" /\ AskFailed(err) # "PASS"
    BY DEF StartFailed, AskFailed
  <2>2. QED
    BY <2>1 DEF Judge, Ask, Params, Hush, Start, Group, Probe, Change, Found, Restore,
                Data, Empty, Pages, Return
<1>3. QED
  BY <1>1, <1>2

\* The defects that the end of a test is to tell.
Told(d, t) ==
  \/ d = "no request" /\ t = "service_req"
  \/ d = "few" /\ t \in {"data_d0", "hv_ascii", "hv_binary"}
  \/ d = "forgets" /\ t = "data_retain"
  \/ d = "any address" /\ t \in {"wrong_addr", "resp_compliance"}

\* No silent step passes a sensor with the defect the test is about.
LEMMA DefectQuietly ==
  ASSUME TypeOK, SlowInv, Quietly, pc' = "idle", verdict' = "PASS"
  PROVE  ~Told(defect, test)
<1>1. SUFFICES ASSUME Told(defect, test)
               PROVE  FALSE
  OBVIOUS
<1>2. pc = "running" /\ at \in Nat /\ Sound(test, at, Here, Len(Script(test)))
  BY QuietTyped, HereSound DEF Quietly
<1>3. Proceed /\ at = Len(Script(test))
  BY <1>1, PassedQuietly DEF Told
<1>4. Here.op \in Quiet
  BY DEF Quietly, Quiet, Break, Some, Await, Delay, Settle, SetBinary, At
<1>5. test = "data_retain" => at = 7 /\ Here.op = "again"
  BY <1>2, <1>3, RetainSteps
<1>6. test = "service_req" /\ Here.op = "heed" /\ at = 5 /\ defect = "no request"
  <2>1. test \notin {"data_d0", "hv_ascii", "hv_binary"}
    BY <1>2, <1>3, <1>4 DEF Sound, Quiet
  <2>2. test \notin {"wrong_addr", "resp_compliance"}
    BY <1>2, <1>3, <1>4 DEF Sound, Quiet
  <2>3. test # "data_retain"
    BY <1>4, <1>5 DEF Quiet
  <2>4. test = "service_req" /\ defect = "no request"
    BY <1>1, <2>1, <2>2, <2>3 DEF Told
  <2>5. QED
    BY <1>2, <1>3, <2>4 DEF Sound
<1>7. Await /\ Awaits
  <2>1. Await
    BY <1>6 DEF Quietly, Break, Some, Await, Delay, Settle, SetBinary, At
  <2>2. Awaits
    BY <1>2, <1>6 DEF SlowInv, Awaits
  <2>3. QED
    BY <2>1, <2>2
<1>8. QED
  BY <1>6, <1>7 DEF Await, Return

\* No exchange does.
LEMMA DefectTransact ==
  ASSUME TypeOK, AwaitedInv, HomeInv, ChainInv, TallyInv, RetainInv, Transact,
         pc' = "idle", verdict' = "PASS",
         missed' = {} \/ defect \in {"no request", "few"}
  PROVE  ~Told(defect, test)
<1>1. SUFFICES ASSUME Told(defect, test)
               PROVE  FALSE
  OBVIOUS
<1>2. pc = "running" /\ TypeOK' /\ at \in Nat /\ Sound(test, at, Here, Len(Script(test)))
  BY TransactTyped, HereSound
<1>3. PICK fate \in Fates(Here), m \in Offers(Here.cmd) :
        /\ Exchange(Here, fate, m) /\ Judge(Err(Here, fate), m)
        /\ Here.cmd # "none"
  BY DEF Transact, Judge
<1>4. PICK err \in Errs : err = Err(Here, fate)
  BY <1>2, <1>3, ExchangeTyped
<1>5. Judge(err, m)
  BY <1>3, <1>4
<1>6. Proceed /\ at = Len(Script(test)) /\ verdict' = Conclusion(loc')
  <2>1. Proceed /\ at = Len(Script(test))
    BY <1>2, <1>5, PassedTransact
  <2>2. QED
    BY <1>2, <2>1 DEF Proceed, Return
<1>7. sensor' \in Sensors /\ loc \in Locals
  BY <1>2 DEF TypeOK
<1>8. Here.op \in Asks
  BY <1>2, <1>3 DEF Sound
<1>9. CASE defect = "no request"
  BY <1>1, <1>2, <1>6, <1>8, <1>9 DEF Told, Sound, Asks
<1>10. CASE defect = "few"
  <2>1. Here.op = "pages"
    BY <1>1, <1>2, <1>6, <1>10 DEF Told, Sound
  <2>2. Pages(err)
    BY <1>5, <2>1 DEF Judge, Ask, Params, Hush, Start, Group, Probe, Change, Found,
                      Restore, Data, Empty
  <2>3. ~Counted(loc.total + Page(loc.page))
    BY <1>2, <1>3, <1>7, <1>10, <2>1, FewNeverRead
  <2>4. QED
    BY <1>2, <2>2, <2>3 DEF Pages, Return
<1>11. CASE defect = "forgets"
  <2>1. test = "data_retain" /\ missed' = {}
    BY <1>1, <1>11 DEF Told
  <2>2. at = 7 /\ Here.op = "again" /\ Here.cmd = "D"
    BY <1>2, <1>6, <2>1, RetainSteps
  <2>3. missed = {}
    BY <1>3, <2>1 DEF Exchange, Line
  <2>4. loc.first > 0 /\ sensor.data = <<>>
    BY <1>2, <1>11, <2>1, <2>2, <2>3 DEF RetainInv
  <2>5. sensor.busy = "no"
    BY <1>2, <2>1, <2>2 DEF AwaitedInv, Waited
  <2>6. Page(0) = 0
    BY <1>3, <1>7, <2>2, <2>4, <2>5, Sent, FirstPage
  <2>7. Data(err)
    BY <1>5, <2>2 DEF Judge, Ask, Params, Hush, Start, Group, Probe, Change, Found,
                      Restore, Pages, Empty
  <2>8. Page(0) # loc.first
    BY <1>7, <2>4, <2>6, EmptyNotFirst
  <2>9. Return("FAIL")
    BY <2>2, <2>7, <2>8 DEF Data
  <2>10. QED
    BY <2>9 DEF Return
<1>12. CASE defect = "any address"
  <2>1. test \in {"wrong_addr", "resp_compliance"} /\ missed' = {}
    BY <1>1, <1>12 DEF Told
  <2>2. Here.op \in {"hush", "mustnot"} /\ Here.to = "other" /\ Here.cmd \notin Optional
    BY <1>2, <1>3, <1>6, <1>8, <2>1 DEF Sound, Asks
  <2>3. Sure'
    BY <1>3, <1>12, <2>1 DEF Sure, Exchange, Line
  <2>4. Sure
    BY <2>3, SureBefore
  <2>5. err = "ok"
    BY <1>2, <1>3, <1>4, <1>12, <2>2, <2>3, <2>4, ReadyAsked, SureFate
  <2>6. CASE Here.op = "hush"
    <3>1. Hush(err)
      BY <1>5, <2>6 DEF Judge, Ask, Params, Data, Start, Group, Probe, Change, Found,
                        Restore, Pages, Empty
    <3>2. QED
      BY <2>5, <3>1 DEF Hush, Return
  <2>7. CASE Here.op = "mustnot"
    <3>1. Probe(err)
      BY <1>5, <2>7 DEF Judge, Ask, Params, Data, Start, Group, Hush, Change, Found,
                        Restore, Pages, Empty
    <3>2. loc'.count > 0
      <4>1. loc' = [loc EXCEPT !.count = loc.count + 1]
        BY <2>5, <2>7, <3>1 DEF Probe
      <4>2. QED
        BY <1>7, <4>1, CountedOnce
    <3>3. test = "resp_compliance"
      BY <1>2, <2>7 DEF Sound
    <3>4. QED
      BY <1>6, <3>2, <3>3 DEF Conclusion
  <2>8. QED
    BY <2>2, <2>6, <2>7
<1>13. QED
  BY <1>1, <1>9, <1>10, <1>11, <1>12 DEF Told

\* So no step passes it.
LEMMA DefectKept ==
  ASSUME TypeOK, AwaitedInv, HomeInv, ChainInv, TallyInv, RetainInv, SlowInv, ChangeInv',
         AbortInv', DefectFound, [Next]_vars
  PROVE  DefectFound'
<1>1. SUFFICES ASSUME pc' = "idle", verdict' = "PASS"
               PROVE  /\ Told(defect', test') => missed' # {} /\ defect' \in {"forgets", "any address"}
                      /\ defect' = "stays" => test' # "addr_change"
                      /\ defect' = "keeps" /\ missed' = {} /\ test' \in Aborts => sensor'.data = <<>>
  BY DEF DefectFound, Over, Clean, Told
<1>2. defect' = "stays" => test' # "addr_change"
  BY <1>1 DEF ChangeInv
<1>3. defect' = "keeps" /\ missed' = {} /\ test' \in Aborts => sensor'.data = <<>>
  BY <1>1 DEF AbortInv, Sure
<1>4. ASSUME Told(defect', test')
      PROVE  missed' # {} /\ defect' \in {"forgets", "any address"}
  <2>1. CASE Over
    BY <1>1, <1>4, <2>1, VerdictKept DEF DefectFound, Told, Over, Clean
  <2>2. CASE Quietly
    BY <1>1, <1>4, <2>2, DefectQuietly, QuietTyped DEF Quietly, Steps, Leaves
  <2>3. CASE Transact
    <3>1. test' = test
      BY <2>3, TransactTyped DEF Steps, Leaves, Stays
    <3>2. defect' = defect
      BY <2>3 DEF Transact, Exchange, Line
    <3>3. QED
      BY <1>1, <1>4, <2>3, <3>1, <3>2, DefectTransact DEF Told
  <2>4. CASE ~Over /\ (Begin \/ Finish \/ Saved \/ UNCHANGED vars)
    BY <1>1, <2>4 DEF Over, Begin, Finish, Saved, vars
  <2>5. QED
    BY <2>1, <2>2, <2>3, <2>4, NextCases
<1>5. QED
  BY <1>2, <1>3, <1>4

\* A test that is about a defect never passes a sensor that has it, but for the
\* three defects that a loss can hide.
THEOREM DefectIsFound == Spec => []DefectFound
<1>1. Init => DefectFound
  BY DEF Init, DefectFound
<1>2. QED
  BY <1>1, DefectKept, TypeInvariant, AwaitedInvariant, HomeInvariant, ChainInvariant,
     TallyInvariant, RetainInvariant, AbortInvariant, ChangeInvariant, CountsInvariant,
     PTL DEF Spec
==============================================================================
