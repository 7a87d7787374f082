--------------------------- MODULE VerifierProofs ----------------------------
(***************************************************************************)
(* Theorems about Verifier, for suites and results of every size that fit, *)
(* and about BusModes, for every line length, input and bus.               *)
(*                                                                         *)
(* The inductive invariant follows one run of the program.  Before the     *)
(* report there is no verdict and no result in it; while the tests run,    *)
(* the results are those of the matching tests before next; from the       *)
(* report on, it holds them all and rc says what the verdict will say.     *)
(* The invariants of the two interactive modes stand before their theorems.*)
(***************************************************************************)
EXTENDS BusModes, SequenceTheorems, WellFoundedInduction, TLAPS

Results == [test : Nat, status : Statuses]

\* rs holds the results of the matching tests among the first n, in order.
Holds(rs, n) ==
  /\ {rs[i].test : i \in DOMAIN rs} = filter \cap 1 .. n
  /\ \A i, j \in DOMAIN rs : i < j => rs[i].test < rs[j].test

NoHal  == pc \in {"args", "hal", "exited"} => hal = "none"
Before == pc \in {"args", "hal", "open", "timing", "run", "tests"}
            => verdict = "none" /\ report = <<>>
Empty  == pc \in {"args", "hal", "open", "timing", "run"} => results = <<>>
Gathering ==
  pc = "tests" => /\ mode \in TestModes /\ suite = Registered
                  /\ Len(results) < next /\ Holds(results, next - 1)
Done      == pc \in {"report", "cleanup"} \/ (pc = "exited" /\ verdict # "none")
Reporting == Done /\ mode \in TestModes => Holds(report, Registered)
Agreed ==
  /\ pc = "report" => (rc = 0 <=> Compliant) /\ verdict = "none"
  /\ pc = "cleanup" => (rc = 0 <=> verdict # "NON-COMPLIANT")
  /\ ExitMatchesVerdict

IInv ==
  TypeOK /\ NoHal /\ Before /\ Empty /\ Gathering /\ Reporting /\ Agreed

\* The suite has room for the tests of every mode (test_suite_add).
LEMMA RegisteredFit == TypeOK => Registered \in Nat /\ Added(Registered) = Registered
BY CountsNatural, SuitesFit DEF TypeOK, Registered, Added

\* A report with room for them takes all results as they are
\* (report_add_results).
LEMMA ReportedAll ==
  ASSUME NEW rs \in Seq(Results), Len(rs) <= MaxResults
  PROVE  Reported(rs) = rs
<1>1. Reported(rs) = SubSeq(rs, 1, Len(rs))
  BY CountsNatural, LenProperties DEF Reported
<1>2. QED
  BY <1>1, SubSeqFull

\* What verifier_run returns is 0 exactly for a report without failures and
\* errors.
LEMMA ReturnedZero ==
  ASSUME NEW rs
  PROVE  /\ Returned(rs) \in 0 .. 2
         /\ Returned(rs) = 0 <=> Count(rs, "FAIL") = {} /\ Count(rs, "ERROR") = {}
BY DEF Returned

\* Appending the result of test n, which matches, keeps the results complete.
LEMMA HoldsAppend ==
  ASSUME NEW rs \in Seq(Results), NEW n \in Nat \ {0}, NEW s \in Statuses,
         Holds(rs, n - 1), n \in filter
  PROVE  Holds(Append(rs, [test |-> n, status |-> s]), n)
<1> DEFINE r  == [test |-> n, status |-> s]
           ts == Append(rs, r)
<1>1. /\ Len(rs) \in Nat /\ DOMAIN rs = 1 .. Len(rs)
      /\ DOMAIN ts = 1 .. Len(rs) + 1
      /\ \A i \in DOMAIN rs : ts[i] = rs[i]
      /\ ts[Len(rs) + 1] = r
  BY DEF Results
<1>2. {ts[i].test : i \in DOMAIN ts} = {rs[i].test : i \in DOMAIN rs} \cup {n}
  <2>1. DOMAIN ts = DOMAIN rs \cup {Len(rs) + 1}
    BY <1>1
  <2>2. QED
    BY <1>1, <2>1
<1>3. filter \cap 1 .. n = (filter \cap 1 .. n - 1) \cup {n}
  OBVIOUS
<1>4. \A i \in DOMAIN rs : rs[i].test < n
  <2> SUFFICES ASSUME NEW i \in DOMAIN rs PROVE rs[i].test < n
    OBVIOUS
  <2>1. rs[i].test \in filter \cap 1 .. n - 1
    BY DEF Holds
  <2>2. QED
    BY <2>1
<1>5. \A i, j \in DOMAIN ts : i < j => ts[i].test < ts[j].test
  <2> SUFFICES ASSUME NEW i \in DOMAIN ts, NEW j \in DOMAIN ts, i < j
               PROVE  ts[i].test < ts[j].test
    OBVIOUS
  <2>1. i \in DOMAIN rs
    BY <1>1
  <2>2. CASE j \in DOMAIN rs
    BY <1>1, <2>1, <2>2 DEF Holds
  <2>3. CASE j = Len(rs) + 1
    BY <1>1, <1>4, <2>1, <2>3
  <2>4. QED
    BY <1>1, <2>2, <2>3
<1> HIDE DEF ts
<1>6. {ts[i].test : i \in DOMAIN ts} = filter \cap 1 .. n
  BY <1>2, <1>3 DEF Holds
<1>7. QED
  BY <1>5, <1>6 DEF Holds, ts

\* A test that does not match leaves them complete.
LEMMA HoldsSkip ==
  ASSUME NEW rs, NEW n \in Nat \ {0}, Holds(rs, n - 1), n \notin filter
  PROVE  Holds(rs, n)
<1>1. filter \cap 1 .. n = filter \cap 1 .. n - 1
  OBVIOUS
<1>2. QED
  BY <1>1 DEF Holds

\* A run starts with no result, no verdict and no port.
LEMMA InitIInv == Init => IInv
<1> SUFFICES ASSUME Init PROVE IInv
  OBVIOUS
<1> USE CountsNatural DEF Init
<1>1. <<>> \in Seq(Results) /\ Len(<<>>) = 0
  OBVIOUS
<1>2. TypeOK
  <2>1. results \in Seq(Results) /\ report \in Seq(Results) /\ Len(report) <= MaxResults
    BY <1>1
  <2>2. filter \subseteq 1 .. MaxTests /\ suite \in 0 .. MaxTests /\ next \in 1 .. suite + 1
    OBVIOUS
  <2>3. selfTest \in BOOLEAN
    BY Zenon
  <2>4. /\ pc = "args" /\ mode \in Modes /\ hal = "none"
        /\ rc \in 0 .. 2 /\ exit \in 0 .. 3 /\ verdict = "none"
    BY DEF Modes
  <2> HIDE DEF Init
  <2>5. QED
    BY <2>1, <2>2, <2>3, <2>4 DEF TypeOK, Results
<1>3. NoHal /\ Before /\ Empty /\ Gathering /\ Reporting /\ Agreed
  BY DEF NoHal, Before, Empty, Gathering, Done, Reporting, Agreed, ExitMatchesVerdict
<1>4. QED
  BY <1>2, <1>3 DEF IInv

\* Results, report, rc and verdict stay in agreement.
LEMMA NextIInv == IInv /\ [Next]_vars => IInv'
<1> SUFFICES ASSUME IInv, [Next]_vars PROVE IInv'
  OBVIOUS
<1> USE CountsNatural
<1> USE DEF IInv, TypeOK, NoHal, Before, Empty, Gathering, Done, Reporting, Agreed,
        ExitMatchesVerdict
<1>1. CASE NoRun
  BY <1>1 DEF NoRun, Exit, Holds, Registered, Compliant, Count
<1>2. CASE Args
  BY <1>2 DEF Args, Holds, Registered, Compliant, Count
<1>3. CASE CreateHal
  BY <1>3 DEF CreateHal, Exit, Holds, Registered, Compliant, Count
<1>4. CASE OpenHal
  BY <1>4 DEF OpenHal, Exit, Destroyed, Holds, Registered, Compliant, Count
<1>5. CASE InitTiming
  BY <1>5 DEF InitTiming, TimingFailed, Exit, Destroyed, Holds, Registered,
     Compliant, Count
<1>6. CASE Register
  <2>1. Registered \in Nat /\ suite' = Registered /\ Registered <= MaxTests
    BY <1>6, RegisteredFit, SuitesFit DEF Register, Registered
  <2>2. Registered' = Registered
    BY <1>6 DEF Register, Registered
  <2>3. Holds(<<>>, 0)
    BY DEF Holds
  <2>4. Holds(results, next - 1)'
    BY <1>6, <2>3 DEF Register, Holds
  <2>5. QED
    BY <1>6, <2>1, <2>2, <2>4 DEF Register
<1>7. CASE RunInteractive
  <2>1. Compliant'
    BY <1>7 DEF RunInteractive, Compliant, Count
  <2>2. QED
    BY <1>7, <2>1 DEF RunInteractive, Ran
<1>8. CASE RunTest
  <2> PICK s \in Statuses :
        results' = Append(results, [test |-> next, status |-> s])
    BY <1>8 DEF RunTest
  <2>1. next \in Nat \ {0} /\ [test |-> next, status |-> s] \in Results
    BY DEF Results
  <2>2. Holds(results', next)
    BY <1>8, <2>1, HoldsAppend DEF RunTest, Results
  <2>3. Holds(results, next - 1)'
    <3>1. next' - 1 = next /\ filter' = filter
      BY <1>8 DEF RunTest
    <3>2. QED
      BY <2>2, <3>1 DEF Holds
  <2>4. results' \in Seq(Results) /\ Len(results') = Len(results) + 1
    BY <2>1 DEF Results
  <2>5. Registered' = Registered
    BY <1>8 DEF RunTest, Registered
  <2>6. QED
    BY <1>8, <2>3, <2>4, <2>5 DEF RunTest, Results
<1>9. CASE SkipUnmatched
  <2>1. Holds(results, next)
    BY <1>9, HoldsSkip DEF SkipUnmatched
  <2>2. Holds(results, next - 1)'
    BY <1>9, <2>1 DEF SkipUnmatched, Holds
  <2>3. Registered' = Registered
    BY <1>9 DEF SkipUnmatched, Registered
  <2>4. QED
    BY <1>9, <2>2, <2>3 DEF SkipUnmatched
<1>10. CASE SuiteDone
  <2>1. next - 1 = suite /\ suite = Registered
    BY <1>10 DEF SuiteDone
  <2>2. Len(results) \in Nat /\ Len(results) <= MaxResults
    BY <1>10, <2>1, SuitesFit DEF SuiteDone
  <2>3. report' = results
    BY <1>10, <2>2, ReportedAll DEF SuiteDone, Results
  <2>4. Holds(report, Registered)'
    BY <1>10, <2>1, <2>3 DEF SuiteDone, Holds, Registered
  <2>5. rc' \in 0 .. 2 /\ (rc' = 0 <=> Compliant')
    BY <1>10, ReturnedZero DEF SuiteDone, Compliant
  <2>6. QED
    BY <1>10, <2>2, <2>3, <2>4, <2>5 DEF SuiteDone
<1>11. CASE PrintReport
  <2>1. verdict' \in Verdicts /\ (verdict' # "NON-COMPLIANT" <=> Compliant)
    BY <1>11 DEF PrintReport, Verdicts
  <2>2. Holds(report, Registered)' <=> Holds(report, Registered)
    BY <1>11 DEF PrintReport, Holds, Registered
  <2>3. QED
    BY <1>11, <2>1, <2>2 DEF PrintReport
<1>12. CASE Cleanup
  <2>1. Holds(report, Registered)' <=> Holds(report, Registered)
    BY <1>12 DEF Cleanup, Exit, Holds, Registered
  <2>2. QED
    BY <1>12, <2>1 DEF Cleanup, Exit, Destroyed
<1>13. CASE UNCHANGED vars
  BY <1>13 DEF vars, Holds, Registered, Compliant, Count
<1>14. QED
  BY <1>1, <1>2, <1>3, <1>4, <1>5, <1>6, <1>7, <1>8, <1>9, <1>10, <1>11, <1>12,
     <1>13 DEF Next

\* IInv holds in every reachable state of a run of the program.
THEOREM Inductive == Spec => []IInv
BY InitIInv, NextIInv, PTL DEF Spec

\* Every variable of a run keeps its type, and the report its room.
THEOREM TypeCorrect == Spec => []TypeOK
<1>1. IInv => TypeOK
  BY DEF IInv
<1>2. QED
  BY <1>1, Inductive, PTL

\* However the program ends, the port is closed and the HAL freed.
THEOREM Released == Spec => []PortReleased
<1>1. IInv => PortReleased
  BY DEF IInv, NoHal, PortReleased
<1>2. QED
  BY <1>1, Inductive, PTL

\* The exit code agrees with the printed verdict, for every suite and outcome.
THEOREM ExitAgrees == Spec => []ExitMatchesVerdict
<1>1. IInv => ExitMatchesVerdict
  BY DEF IInv, Agreed
<1>2. QED
  BY <1>1, Inductive, PTL

\* The report holds the result of every test that the filter matches, once and
\* in order, for every suite that fits.
THEOREM Complete == Spec => []ReportComplete
<1>1. IInv => ReportComplete
  BY DEF IInv, Reporting, Done, Holds, ReportComplete
<1>2. QED
  BY <1>1, Inductive, PTL

-----------------------------------------------------------------------------
(* With its two loops a run is still a run of Verifier, whose theorems     *)
(* therefore hold of it.                                                   *)

\* A turn of a loop is a stutter of the lifecycle, its end the one step.
LEMMA StepOfVerifier == [ModesNext]_allVars => [Next]_vars
<1> SUFFICES ASSUME [ModesNext]_allVars PROVE [Next]_vars
  OBVIOUS
<1>1. CASE Loops
  <2>1. UNCHANGED vars
    BY <1>1 DEF Loops, Enter, CtrlC, MonitorTop, MonitorRead, Prompt, Fgets,
                FgetsFails, Obey, Transact
  <2> QED
    BY <2>1
<1>2. CASE Leave
  BY <1>2 DEF Leave, Next
<1>3. CASE Rest
  BY <1>3 DEF Rest, Next
<1>4. CASE UNCHANGED allVars
  BY <1>4 DEF allVars
<1> QED
  BY <1>1, <1>2, <1>3, <1>4 DEF ModesNext

\* The loops of monitor.c and transparent.c do nothing to the rest of a run.
THEOREM ModesImplementVerifier == ModesSpec => Spec
<1>1. ModesInit => Init
  BY DEF ModesInit
<1> QED
  BY <1>1, StepOfVerifier, PTL DEF ModesSpec, Spec

\* However the program ends, the monitor and the transparent mode included, it
\* has closed the port; its exit code agrees with its verdict; and its report
\* holds every test.
THEOREM RunSafe == ModesSpec => [](PortReleased /\ ExitMatchesVerdict /\ ReportComplete)
  BY ModesImplementVerifier, Released, ExitAgrees, Complete, PTL

-----------------------------------------------------------------------------
(* The monitor.                                                            *)

\* A line under way has room for one more byte; only the monitor has one, and
\* what is not in it has been shown.
MonitorInv ==
  /\ heard \in Seq(Received) /\ shown \in Seq(Received)
  /\ lineBuf \in Seq(Received) /\ Len(lineBuf) < LineMax
  /\ heard = shown \o lineBuf
  /\ mode # "monitor" \/ at \in {"out", "over"} => lineBuf = <<>>
  /\ pc = "args" => at = "out"

\* The line under way and what was printed make up what was heard.
LEMMA MonitorStep ==
  MonitorInv /\ [ModesNext]_allVars => MonitorInv'
<1> SUFFICES ASSUME MonitorInv, [ModesNext]_allVars PROVE MonitorInv'
  OBVIOUS
<1> USE DEF MonitorInv, vars, modeVars, monitorVars, typingVars
<1>1. CASE MonitorTop
  <2>1. CASE GoesOn
    BY <1>1, <2>1 DEF MonitorTop
  <2>2. CASE ~GoesOn
    <3>1. /\ heard' = heard /\ lineBuf' = <<>> /\ shown' = shown \o lineBuf
          /\ pc' = pc /\ mode' = mode
      BY <1>1, <2>2 DEF MonitorTop
    <3>2. shown' \o <<>> = shown'
      BY <3>1, ConcatEmptySeq
    <3>3. pc # "args"
      BY <1>1 DEF MonitorTop
    <3> QED
      BY <3>1, <3>2, <3>3, LineRoom
  <2> QED
    BY <2>1, <2>2
<1>2. CASE MonitorRead
  <2>1. CASE UNCHANGED monitorVars
    BY <1>2, <2>1 DEF MonitorRead
  <2>2. ASSUME NEW c \in Received, heard' = Append(heard, c),
               \/ shown' = shown \o Append(lineBuf, c) /\ lineBuf' = <<>>
               \/ /\ lineBuf' = Append(lineBuf, c) /\ shown' = shown
                  /\ Len(Append(lineBuf, c)) < LineMax
        PROVE  MonitorInv'
    <3> DEFINE line == Append(lineBuf, c)
    <3>1. line \in Seq(Received) /\ heard' \in Seq(Received)
      BY <2>2
    <3>2. heard' = shown \o line
      <4>1. line = lineBuf \o <<c>> /\ heard' = heard \o <<c>>
        BY <2>2, AppendIsConcat
      <4>2. (shown \o lineBuf) \o <<c>> = shown \o (lineBuf \o <<c>>)
        BY <2>2, ConcatAssociative
      <4> QED
        BY <4>1, <4>2
    <3>3. mode' = "monitor" /\ at' = "top" /\ pc' = pc /\ pc # "args"
      BY <1>2 DEF MonitorRead
    <3>4. CASE shown' = shown \o line /\ lineBuf' = <<>>
      <4>1. shown' \o <<>> = shown'
        BY <3>1, <3>2, <3>4, <2>2, ConcatEmptySeq
      <4> QED
        BY <3>1, <3>2, <3>3, <3>4, <4>1, <2>2, LineRoom
    <3>5. CASE lineBuf' = line /\ shown' = shown /\ Len(line) < LineMax
      BY <3>1, <3>2, <3>3, <3>5
    <3> QED
      BY <2>2, <3>4, <3>5
  <2> QED
    <3>1. CASE UNCHANGED monitorVars
      BY <2>1, <3>1
    <3>2. CASE ~UNCHANGED monitorVars
      <4>1. PICK c \in Received :
              /\ heard' = Append(heard, c)
              /\ IF c = "lf" \/ Full(Append(lineBuf, c))
                 THEN shown' = shown \o Append(lineBuf, c) /\ lineBuf' = <<>>
                 ELSE lineBuf' = Append(lineBuf, c) /\ shown' = shown
        BY <1>2, <3>2 DEF MonitorRead
      <4> QED
        <5>1. Append(lineBuf, c) \in Seq(Received)
          OBVIOUS
        <5>2. ~Full(Append(lineBuf, c)) => Len(Append(lineBuf, c)) < LineMax
          BY <5>1, LineRoom DEF Full
        <5> QED
          BY <4>1, <5>2, <2>2
    <3> QED
      BY <3>1, <3>2
<1>3. CASE Enter \/ CtrlC \/ Prompt \/ Fgets \/ FgetsFails \/ Obey \/ Transact
  BY <1>3 DEF Enter, CtrlC, Prompt, Fgets, FgetsFails, Obey, Transact
<1>4. CASE Leave
  BY <1>4 DEF Leave, RunInteractive
<1>5. CASE Rest
  BY <1>5 DEF Rest, NoRun, Args, CreateHal, OpenHal, InitTiming, Register,
              RunTest, SkipUnmatched, SuiteDone, PrintReport, Cleanup, Exit
<1>6. CASE UNCHANGED allVars
  BY <1>6 DEF allVars
<1> QED
  BY <1>1, <1>2, <1>3, <1>4, <1>5, <1>6 DEF ModesNext, Loops

\* Every byte on the bus is printed, once and in order, for every line and
\* wherever the monitor is stopped.
THEOREM MonitorComplete == ModesSpec => []MonitorShowsAll
<1>1. ModesInit => MonitorInv
  BY LineRoom DEF ModesInit, MonitorInv
<1>2. MonitorInv => MonitorShowsAll
  BY DEF MonitorInv, MonitorShowsAll
<1> QED
  BY <1>1, <1>2, MonitorStep, PTL DEF ModesSpec

-----------------------------------------------------------------------------
(* The transparent mode.                                                   *)

\* fgets is entered only while the mode runs, and so only once after Ctrl+C.
TypingInv ==
  /\ late \in Nat /\ late <= 1
  /\ running => late = 0
  /\ at = "fgets" => late = 0

\* The loop asks for a line only while its flag is set.
LEMMA TypingStep == TypingInv /\ [ModesNext]_allVars => TypingInv'
<1> SUFFICES ASSUME TypingInv, [ModesNext]_allVars PROVE TypingInv'
  OBVIOUS
<1> USE DEF TypingInv, modeVars, monitorVars, typingVars
<1>1. CASE Loops
  BY <1>1 DEF Loops, Enter, CtrlC, MonitorTop, MonitorRead, Prompt, GoesOn,
              Fgets, FgetsFails, Obey, Transact
<1>2. CASE Leave \/ Rest
  BY <1>2 DEF Leave, Rest
<1>3. CASE UNCHANGED allVars
  BY <1>3 DEF allVars
<1> QED
  BY <1>1, <1>2, <1>3 DEF ModesNext

\* After Ctrl+C no more than the line being waited for is obeyed.
THEOREM StopsAfterLine == ModesSpec => []OneMoreLine
<1>1. ModesInit => TypingInv
  BY DEF ModesInit, TypingInv
<1>2. TypingInv => OneMoreLine
  BY DEF TypingInv, OneMoreLine
<1> QED
  BY <1>1, <1>2, TypingStep, PTL DEF ModesSpec

\* The default address as the first n pieces of s set it.
Setting(s, n)   == {i \in 1 .. n : s[i].op = "addr" /\ s[i].to \in Addresses}
Latest(S)       == CHOOSE i \in S : \A j \in S : j <= i
DefaultOf(s, n) == IF Setting(s, n) = {} THEN FirstAddr
                   ELSE s[Latest(Setting(s, n))].to

\* The numbers up to n + 1 are those up to n, and one more.
LEMMA NextNumber ==
  ASSUME NEW n \in Nat
  PROVE  /\ \A i : i \in 1 .. n + 1 <=> i \in 1 .. n \/ i = n + 1
         /\ \A i \in 1 .. n : i < n + 1
OBVIOUS

\* A piece that is one sets the default address; no other changes it.
LEMMA DefaultSet ==
  ASSUME NEW s, NEW n \in Nat \ {0}
  PROVE  DefaultOf(s, n) = IF s[n].op = "addr" /\ s[n].to \in Addresses
                           THEN s[n].to ELSE DefaultOf(s, n - 1)
<1>0. \A i : i \in 1 .. n <=> i \in 1 .. n - 1 \/ i = n
  <2>1. n - 1 \in Nat /\ (n - 1) + 1 = n
    OBVIOUS
  <2> QED
    BY <2>1, NextNumber
<1>1. CASE s[n].op = "addr" /\ s[n].to \in Addresses
  <2>1. n \in Setting(s, n) /\ \A j \in Setting(s, n) : j \in Nat /\ j <= n
    BY <1>1 DEF Setting
  <2>2. \A i \in Setting(s, n) : (\A j \in Setting(s, n) : j <= i) => i = n
    BY <2>1
  <2>3. Latest(Setting(s, n)) = n
    BY <2>1, <2>2 DEF Latest
  <2> QED
    BY <1>1, <2>1, <2>3 DEF DefaultOf
<1>2. CASE ~(s[n].op = "addr" /\ s[n].to \in Addresses)
  <2>1. Setting(s, n) = Setting(s, n - 1)
    BY <1>0, <1>2, Zenon DEF Setting
  <2> QED
    BY <1>2, <2>1 DEF DefaultOf
<1> QED
  BY <1>1, <1>2

\* A set of numbers up to n has a last one.
LEMMA LastOne ==
  ASSUME NEW n \in Nat, NEW S \in SUBSET (1 .. n), S # {}
  PROVE  \E i \in S : \A j \in S : j <= i
<1> DEFINE R == {p \in Nat \X Nat : p[1] < p[2]}
           T == {n - i : i \in S}
<1>1. IsWellFoundedOn(R, Nat)
  BY NatLessThanWellFounded DEF OpToRel
<1>2. T \subseteq Nat /\ T # {}
  <2>1. \A i \in S : n - i \in Nat
    OBVIOUS
  <2>2. PICK i \in S : TRUE
    OBVIOUS
  <2>3. n - i \in T
    OBVIOUS
  <2> QED
    BY <2>1, <2>3
<1>3. PICK m \in T : \A k \in T : <<k, m>> \notin R
  BY <1>1, <1>2, WFMin
<1>4. PICK i \in S : m = n - i
  OBVIOUS
<1>5. ASSUME NEW j \in S PROVE j <= i
  <2>1. n - j \in Nat /\ n - j \in T /\ m \in Nat
    BY <1>2
  <2>2. <<n - j, m>>[1] = n - j /\ <<n - j, m>>[2] = m
    OBVIOUS
  <2>3. ~(n - j < m)
    BY <1>3, <2>1, <2>2
  <2> QED
    BY <1>4, <2>3
<1> QED
  BY <1>5

\* What is typed later does not change what the default address was.
LEMMA DefaultKept ==
  ASSUME NEW s \in Seq(Pieces), NEW p \in Pieces, NEW n \in 0 .. Len(s)
  PROVE  DefaultOf(Append(s, p), n) = DefaultOf(s, n)
<1> DEFINE t == Append(s, p)
<1>1. \A i \in 1 .. n : t[i] = s[i]
  BY AppendProperties
<1> HIDE DEF t
<1>2. Setting(t, n) = Setting(s, n)
  BY <1>1, Zenon DEF Setting
<1>3. CASE Setting(s, n) = {}
  BY <1>2, <1>3 DEF DefaultOf, t
<1>4. CASE Setting(s, n) # {}
  <2>1. Setting(s, n) \subseteq 1 .. n /\ n \in Nat
    BY DEF Setting
  <2>2. Latest(Setting(s, n)) \in 1 .. n
    <3>1. \E i \in Setting(s, n) : \A j \in Setting(s, n) : j <= i
      BY <1>4, <2>1, LastOne
    <3>2. Latest(Setting(s, n)) \in Setting(s, n)
      BY <3>1, Zenon DEF Latest
    <3> QED
      BY <2>1, <3>2
  <2>3. t[Latest(Setting(s, n))] = s[Latest(Setting(s, n))]
    BY <1>1, <2>2
  <2> QED
    BY <1>2, <1>4, <2>3, Zenon DEF DefaultOf, t
<1> QED
  BY <1>3, <1>4

Whom    == STRING \cup {FirstAddr, ""}
Entries == [what : {"break", "command"}, to : Whom, of : Nat]

\* b carries what was sent of the first n pieces of t: every command is that
\* of such a piece, every such piece has its command, and they are in order.
Commands(b)   == {j \in DOMAIN b : b[j].what = "command"}
Behind(b, j)  == j > 1 /\ b[j - 1] = [what |-> "break", to |-> "", of |-> b[j].of]
Target(t, i)  == IF t[i].to = "." THEN DefaultOf(t, i - 1) ELSE t[i].to
Meant(e, t, n) == e.of \in 1 .. n /\ t[e.of].op = "send" /\ e.to = Target(t, e.of)
Each(b, t, n) == \A j \in Commands(b) : Behind(b, j) /\ Meant(b[j], t, n)
All(b, t, n)  == \A i \in 1 .. n :
                   t[i].op = "send" => \E j \in Commands(b) : b[j].of = i
Order(b)      == \A i, j \in Commands(b) : i < j => b[i].of < b[j].of
Carries(b, t, n) == Each(b, t, n) /\ All(b, t, n) /\ Order(b)

\* It still does when more is typed.
LEMMA CarriesTyped ==
  ASSUME NEW b, NEW t \in Seq(Pieces), NEW p \in Pieces,
         NEW n \in 0 .. Len(t), Carries(b, t, n)
  PROVE  Carries(b, Append(t, p), n)
<1> DEFINE u == Append(t, p)
<1>1. ASSUME NEW i \in 1 .. n PROVE u[i] = t[i] /\ Target(u, i) = Target(t, i)
  <2>1. u[i] = t[i]
    BY AppendProperties
  <2>2. DefaultOf(u, i - 1) = DefaultOf(t, i - 1)
    BY DefaultKept
  <2> QED
    BY <2>1, <2>2 DEF Target
<1> HIDE DEF u
<1>2. \A e : Meant(e, t, n) => Meant(e, u, n)
  BY <1>1, Zenon DEF Meant
<1>3. Each(b, u, n)
  BY <1>2, Zenon DEF Carries, Each
<1>4. All(b, u, n)
  BY <1>1, Zenon DEF Carries, All
<1> QED
  BY <1>3, <1>4 DEF Carries, u

\* What is added to the bus leaves what was on it.
LEMMA CommandsAppended ==
  ASSUME NEW b \in Seq(Entries), NEW e \in Entries
  PROVE  /\ \A j \in Commands(b) :
              /\ j \in 1 .. Len(b) /\ Append(b, e)[j] = b[j]
              /\ Behind(b, j) => Behind(Append(b, e), j)
         /\ Append(b, e)[Len(b) + 1] = e
         /\ \A j : j \in Commands(Append(b, e)) <=>
                   j \in Commands(b) \/ (j = Len(b) + 1 /\ e.what = "command")
<1> DEFINE d == Append(b, e)
<1>1. DOMAIN d = 1 .. Len(b) + 1 /\ DOMAIN b = 1 .. Len(b) /\ Len(b) \in Nat
  BY AppendProperties
<1>2. \A j \in 1 .. Len(b) : d[j] = b[j]
  BY AppendProperties
<1>3. d[Len(b) + 1] = e
  BY AppendProperties
<1> HIDE DEF d
<1>4. \A j : j \in 1 .. Len(b) + 1 <=> j \in 1 .. Len(b) \/ j = Len(b) + 1
  BY <1>1
<1>5. \A j : j \in Commands(d) <=>
             j \in Commands(b) \/ (j = Len(b) + 1 /\ e.what = "command")
  BY <1>1, <1>2, <1>3, <1>4, Zenon DEF Commands
<1>6. ASSUME NEW j \in Commands(b)
      PROVE  j \in 1 .. Len(b) /\ d[j] = b[j] /\ (Behind(b, j) => Behind(d, j))
  <2>1. j \in 1 .. Len(b)
    BY <1>1 DEF Commands
  <2>2. j > 1 => j - 1 \in 1 .. Len(b)
    BY <1>1, <2>1
  <2> QED
    BY <1>2, <2>1, <2>2 DEF Behind
<1> QED
  BY <1>3, <1>5, <1>6 DEF d

\* It still does when a break is sent.
LEMMA CarriesBreak ==
  ASSUME NEW b \in Seq(Entries), NEW t, NEW n \in Nat, Carries(b, t, n),
         NEW e \in Entries, e.what = "break"
  PROVE  Carries(Append(b, e), t, n)
<1> DEFINE d == Append(b, e)
<1>1. e.what # "command"
  OBVIOUS
<1>2. /\ \A j \in Commands(b) : d[j] = b[j] /\ (Behind(b, j) => Behind(d, j))
      /\ \A j : j \in Commands(d) <=> j \in Commands(b)
  BY <1>1, CommandsAppended
<1> HIDE DEF d
<1>3. Each(d, t, n)
  BY <1>2, Zenon DEF Carries, Each
<1>4. All(d, t, n)
  BY <1>2, Zenon DEF Carries, All
<1>5. Order(d)
  BY <1>2, Zenon DEF Carries, Order
<1> QED
  BY <1>3, <1>4, <1>5 DEF Carries, d

\* A piece that is no command asks for none.
LEMMA CarriesOther ==
  ASSUME NEW b, NEW t, NEW n \in Nat, Carries(b, t, n), t[n + 1].op # "send"
  PROVE  Carries(b, t, n + 1)
<1>1. \A i : i \in 1 .. n + 1 <=> i \in 1 .. n \/ i = n + 1
  OBVIOUS
<1>2. Each(b, t, n + 1)
  BY <1>1, Zenon DEF Carries, Each, Meant
<1>3. All(b, t, n + 1)
  BY <1>1, Zenon DEF Carries, All
<1> QED
  BY <1>2, <1>3 DEF Carries

\* A command behind a break of its own is the next one.
LEMMA LastKept ==
  ASSUME NEW b \in Seq(Entries), NEW e \in Entries, b # <<>>
  PROVE  /\ Len(b) \in Nat \ {0} /\ Len(b) + 1 > 1 /\ (Len(b) + 1) - 1 = Len(b)
         /\ Append(b, e)[Len(b)] = b[Len(b)]
         /\ \A i, j \in 1 .. Len(b) \cup {Len(b) + 1} : i < j => i # Len(b) + 1
<1>1. Len(b) \in Nat /\ Len(b) # 0
  BY EmptySeq
<1> QED
  BY <1>1, AppendProperties

\* A command behind its break completes what a piece typed asks for.
LEMMA CarriesCommand ==
  ASSUME NEW b \in Seq(Entries), NEW t, NEW n \in Nat, Carries(b, t, n),
         t[n + 1].op = "send", b # <<>>,
         b[Len(b)] = [what |-> "break", to |-> "", of |-> n + 1],
         NEW e \in Entries, e.what = "command", e.to = Target(t, n + 1), e.of = n + 1
  PROVE  Carries(Append(b, e), t, n + 1)
<1> DEFINE d == Append(b, e)
           m == Len(b) + 1
<1>1. /\ Len(b) \in Nat /\ m > 1 /\ m - 1 = Len(b)
      /\ d[Len(b)] = b[Len(b)]
      /\ \A i, j \in 1 .. Len(b) \cup {m} : i < j => i # m
  BY LastKept
<1>2. /\ \A j \in Commands(b) :
            j \in 1 .. Len(b) /\ d[j] = b[j] /\ (Behind(b, j) => Behind(d, j))
      /\ d[m] = e
      /\ \A j : j \in Commands(d) <=> j \in Commands(b) \/ j = m
  <2>1. \A j \in Commands(b) :
            j \in 1 .. Len(b) /\ d[j] = b[j] /\ (Behind(b, j) => Behind(d, j))
    BY CommandsAppended, Zenon
  <2>2. d[m] = e
    BY CommandsAppended, Zenon
  <2>3. \A j : j \in Commands(d) <=> j \in Commands(b) \/ (j = m /\ e.what = "command")
    BY CommandsAppended, Zenon
  <2> QED
    BY <2>1, <2>2, <2>3, Zenon
<1> HIDE DEF d
<1>3. Behind(d, m)
  BY <1>1, <1>2, Zenon DEF Behind
<1> HIDE DEF m
<1>4. /\ \A i : i \in 1 .. n + 1 <=> i \in 1 .. n \/ i = n + 1
      /\ \A i \in 1 .. n : i < n + 1
  BY NextNumber, Zenon
<1>5. Meant(d[m], t, n + 1)
  BY <1>2, <1>4, Zenon DEF Meant
<1>6. ASSUME NEW j \in Commands(b) PROVE Behind(d, j) /\ Meant(d[j], t, n)
  BY <1>2, Zenon DEF Carries, Each
<1>7. \A x : Meant(x, t, n) => Meant(x, t, n + 1)
  BY <1>4, Zenon DEF Meant
<1>8. Each(d, t, n + 1)
  BY <1>2, <1>3, <1>5, <1>6, <1>7, Zenon DEF Each
<1>9. ASSUME NEW i \in 1 .. n + 1, t[i].op = "send"
      PROVE  \E j \in Commands(d) : d[j].of = i
  <2>1. CASE i = n + 1
    BY <1>2, <2>1, Zenon
  <2>2. CASE i \in 1 .. n
    <3>1. PICK j \in Commands(b) : b[j].of = i
      BY <1>9, <2>2, Zenon DEF Carries, All
    <3> QED
      BY <1>2, <3>1, Zenon
  <2> QED
    BY <1>4, <2>1, <2>2
<1>10. ASSUME NEW i \in Commands(d), NEW j \in Commands(d), i < j
      PROVE  d[i].of < d[j].of
  <2>1. i \in Commands(b)
    <3>1. i \in 1 .. Len(b) \cup {m} /\ j \in 1 .. Len(b) \cup {m}
      BY <1>2, Zenon
    <3> QED
      BY <1>1, <1>2, <1>10, <3>1, Zenon
  <2>2. d[i].of \in 1 .. n
    BY <1>6, <2>1, Zenon DEF Meant
  <2>3. CASE j = m
    BY <1>2, <1>4, <2>2, <2>3, Zenon
  <2>4. CASE j \in Commands(b)
    BY <1>2, <1>10, <2>1, <2>4, Zenon DEF Carries, Order
  <2> QED
    BY <1>2, <2>3, <2>4, Zenon
<1>11. All(d, t, n + 1)
  BY <1>9, Zenon DEF All
<1> QED
  BY <1>8, <1>10, <1>11, Zenon DEF Carries, Order, d

-----------------------------------------------------------------------------
\* The pieces dealt with.
Dealt == Len(typed) - (IF at \in {"piece", "transact"} THEN 1 ELSE 0)

TypingTyped ==
  /\ typed \in Seq(Pieces) /\ input \in Seq(Pieces)
  /\ bus \in Seq(Entries) /\ addr \in Whom

\* The piece in hand is the last one typed; the default address is what all
\* the others have set; a command is sent behind a break of its own.
InHand ==
  /\ at \in {"piece", "transact"} => typed # <<>> /\ piece = typed[Len(typed)]
  /\ addr = DefaultOf(typed, Dealt)
  /\ at = "transact" => /\ piece.op = "send" /\ bus # <<>>
                        /\ bus[Len(bus)] = BusBreak

BusInv == TypingTyped /\ InHand /\ Carries(bus, typed, Dealt)

\* Nothing is typed and nothing sent at the start.
LEMMA BusInit == ModesInit => BusInv
<1> SUFFICES ASSUME ModesInit PROVE BusInv
  OBVIOUS
<1>1. typed = <<>> /\ bus = <<>> /\ at = "out" /\ addr = FirstAddr /\ Dealt = 0
  BY DEF ModesInit, Dealt
<1>2. TypingTyped
  <2>1. typed \in Seq(Pieces) /\ input \in Seq(Pieces) /\ bus \in Seq(Entries)
    BY EmptySeq DEF ModesInit
  <2>2. addr \in Whom
    BY <1>1 DEF Whom
  <2> QED
    BY <2>1, <2>2 DEF TypingTyped
<1>3. DefaultOf(typed, 0) = FirstAddr
  BY DEF DefaultOf, Setting
<1>4. Carries(bus, typed, 0)
  <2>1. Commands(bus) = {} /\ 1 .. 0 = {}
    BY <1>1 DEF Commands
  <2> QED
    BY <2>1 DEF Carries, Each, All, Order
<1> QED
  BY <1>1, <1>2, <1>3, <1>4 DEF BusInv, InHand

\* What neither reads a piece nor obeys one.
LEMMA BusQuiet ==
  ASSUME BusInv, UNCHANGED typingVars,
         \/ UNCHANGED at
         \/ at \notin {"piece", "transact"} /\ at' \notin {"piece", "transact"}
  PROVE  BusInv'
<1>1. UNCHANGED <<input, piece, addr, typed, bus>>
  BY DEF typingVars
<1>2. Dealt' = Dealt
  BY <1>1 DEF Dealt
<1>3. TypingTyped'
  BY <1>1 DEF BusInv, TypingTyped
<1>4. DefaultOf(typed, Dealt)' = DefaultOf(typed, Dealt)
  BY <1>1, <1>2 DEF DefaultOf, Setting, Latest
<1>5. BusBreak' = BusBreak
  BY <1>1 DEF BusBreak, Sent
<1>6. InHand'
  BY <1>1, <1>4, <1>5 DEF BusInv, InHand
<1>7. Carries(bus, typed, Dealt)' = Carries(bus', typed', Dealt')
  BY DEF Carries, Each, All, Order, Commands, Behind, Meant, Target, DefaultOf, Setting, Latest
<1> QED
  BY <1>1, <1>2, <1>3, <1>6, <1>7 DEF BusInv

\* A piece typed and not yet obeyed is not yet on the bus.
LEMMA BusFgets ==
  ASSUME BusInv, Fgets
  PROVE  BusInv'
<1>1. PICK line \in Seq(Pieces) \ {<<>>} :
        /\ piece' = Head(line) /\ input' = Tail(line)
        /\ typed' = Append(typed, Head(line))
  <2>1. \A line \in (IF input = <<>> THEN Lines ELSE {input}) : line \in Seq(Pieces) \ {<<>>}
    BY LinesKnown DEF BusInv, TypingTyped
  <2> QED
    BY <2>1 DEF Fgets
<1> DEFINE p == Head(line)
<1>2. p \in Pieces /\ Tail(line) \in Seq(Pieces)
  OBVIOUS
<1>3. typed \in Seq(Pieces) /\ UNCHANGED <<bus, addr>> /\ at = "fgets" /\ at' = "piece"
  BY DEF BusInv, TypingTyped, Fgets
<1> HIDE DEF p
<1>4. typed' = Append(typed, p) /\ piece' = p
  BY <1>1 DEF p
<1>5. /\ typed' \in Seq(Pieces) /\ Len(typed') = Len(typed) + 1 /\ typed' # <<>>
      /\ typed'[Len(typed')] = p /\ Len(typed) \in Nat
  BY <1>2, <1>3, <1>4
<1>6. Dealt = Len(typed) /\ Dealt' = Len(typed)
  BY <1>3, <1>5 DEF Dealt
<1>7. TypingTyped'
  BY <1>1, <1>2, <1>3, <1>4, <1>5 DEF BusInv, TypingTyped
<1>8. DefaultOf(typed', Len(typed)) = DefaultOf(typed, Len(typed))
  BY <1>2, <1>3, <1>4, <1>5, DefaultKept
<1>9. InHand'
  <2>1. DefaultOf(typed, Dealt)' = DefaultOf(typed', Dealt')
    BY DEF DefaultOf, Setting, Latest
  <2> QED
    BY <1>3, <1>4, <1>5, <1>6, <1>8, <2>1 DEF InHand, BusInv
<1>10. Carries(bus, typed', Len(typed))
  BY <1>2, <1>3, <1>4, <1>5, <1>6, CarriesTyped DEF BusInv, TypingTyped
<1>11. Carries(bus, typed, Dealt)'
  <2>1. Carries(bus, typed, Dealt)' = Carries(bus', typed', Dealt')
    BY DEF Carries, Each, All, Order, Commands, Behind, Meant, Target, DefaultOf, Setting, Latest
  <2> QED
    BY <1>3, <1>6, <1>10, <2>1
<1> QED
  BY <1>7, <1>9, <1>11 DEF BusInv

\* A piece is the last of those typed: all but it have been dealt with.
LEMMA LastPiece ==
  ASSUME BusInv, at \in {"piece", "transact"}
  PROVE  /\ Len(typed) \in Nat \ {0} /\ typed[Len(typed)] = piece /\ piece \in Pieces
         /\ Dealt \in Nat /\ Dealt + 1 = Len(typed) /\ Dealt = Len(typed) - 1
<1>1. typed \in Seq(Pieces) /\ typed # <<>> /\ typed[Len(typed)] = piece
  BY DEF BusInv, TypingTyped, InHand
<1>2. Len(typed) \in Nat \ {0}
  BY <1>1, EmptySeq
<1>3. piece \in Pieces
  BY <1>1, <1>2
<1> QED
  BY <1>1, <1>2, <1>3 DEF Dealt

\* What the mode puts on the bus is an entry of it.
LEMMA SentTyped ==
  ASSUME BusInv, at \in {"piece", "transact"}
  PROVE  /\ BusBreak \in Entries /\ BusBreak = [what |-> "break", to |-> "", of |-> Len(typed)]
         /\ Addressed \in Whom /\ Sent("command", Addressed) \in Entries
<1>1. Len(typed) \in Nat /\ piece \in Pieces
  BY LastPiece
<1>2. Addressed \in Whom
  <2>1. piece.to \in STRING
    BY <1>1 DEF Pieces
  <2> QED
    BY <2>1 DEF BusInv, TypingTyped, Addressed, Whom
<1>3. \A whom \in Whom : Sent("command", whom) \in Entries
  BY <1>1 DEF Sent, Entries
<1>4. BusBreak = [what |-> "break", to |-> "", of |-> Len(typed)]
  BY DEF BusBreak, Sent
<1>5. BusBreak \in Entries
  BY <1>1, <1>4 DEF Entries, Whom
<1> QED
  BY <1>2, <1>3, <1>4, <1>5

\* A piece obeyed puts its break on the bus, or changes the default address.
LEMMA BusObey ==
  ASSUME BusInv, Obey
  PROVE  BusInv'
<1> DEFINE n == Len(typed)
<1>1. at = "piece" /\ UNCHANGED <<input, piece, typed>>
  BY DEF Obey
<1>2. n \in Nat \ {0} /\ typed[n] = piece /\ Dealt \in Nat /\ Dealt + 1 = n /\ Dealt = n - 1
  BY <1>1, LastPiece
<1>3. /\ Dealt' = IF piece.op = "send" THEN n - 1 ELSE n
      /\ at' \notin {"piece"} /\ (at' = "transact" <=> piece.op = "send")
  <2>1. /\ piece.op = "send" => at' = "transact"
        /\ piece.op # "send" => at' \in {"over", "top"}
    BY DEF Obey
  <2> QED
    <3>1. CASE piece.op = "send"
      BY <1>1, <1>2, <2>1, <3>1 DEF Dealt
    <3>2. CASE piece.op # "send"
      BY <1>1, <1>2, <2>1, <3>2 DEF Dealt
    <3> QED
      BY <3>1, <3>2
<1>4. BusBreak \in Entries /\ BusBreak.what = "break" /\ BusBreak' = BusBreak
  BY <1>1, SentTyped DEF BusBreak, Sent
<1>5. bus \in Seq(Entries) /\ bus' \in Seq(Entries) /\ addr \in Whom /\ addr' \in Whom
  <2>1. bus \in Seq(Entries) /\ addr \in Whom
    BY DEF BusInv, TypingTyped
  <2>2. piece.to \in Whom
    BY <1>1, LastPiece DEF Whom, Pieces
  <2>3. addr' \in Whom
    BY <2>1, <2>2 DEF Obey
  <2>4. bus' = bus \/ bus' = Append(bus, BusBreak)
    BY DEF Obey
  <2> QED
    BY <1>4, <2>1, <2>3, <2>4, AppendProperties
<1>6. TypingTyped'
  BY <1>1, <1>5 DEF BusInv, TypingTyped
<1>7. DefaultOf(typed, n) = addr'
  BY <1>2, DefaultSet DEF Obey, BusInv, InHand
<1>8. piece.op = "send" => addr' = addr
  BY DEF Obey
<1>9. InHand'
  <2>1. DefaultOf(typed, Dealt)' = DefaultOf(typed', Dealt')
    BY DEF DefaultOf, Setting, Latest
  <2>2. addr' = DefaultOf(typed', Dealt')
    BY <1>1, <1>2, <1>3, <1>7, <1>8 DEF BusInv, InHand
  <2>3. piece.op = "send" => bus' # <<>> /\ bus'[Len(bus')] = BusBreak
    BY <1>4, <1>5, AppendProperties DEF Obey
  <2>4. typed' # <<>> /\ piece' = typed'[Len(typed')]
    BY <1>1 DEF BusInv, InHand
  <2> QED
    BY <1>1, <1>3, <1>4, <2>1, <2>2, <2>3, <2>4 DEF InHand
<1>10. Carries(bus', typed, Dealt)
  <2>1. CASE bus' = bus
    BY <2>1 DEF BusInv
  <2>2. CASE bus' = Append(bus, BusBreak)
    BY <1>2, <1>4, <1>5, <2>2, CarriesBreak DEF BusInv
  <2> QED
    BY <2>1, <2>2 DEF Obey
<1>11. Carries(bus', typed, Dealt')
  <2>1. CASE piece.op = "send"
    BY <1>2, <1>3, <1>10, <2>1
  <2>2. CASE piece.op # "send"
    <3>1. Carries(bus', typed, Dealt + 1)
      BY <1>2, <1>10, <2>2, CarriesOther
    <3> QED
      BY <1>2, <1>3, <2>2, <3>1
  <2> QED
    BY <2>1, <2>2
<1>12. Carries(bus, typed, Dealt)' = Carries(bus', typed', Dealt')
  BY DEF Carries, Each, All, Order, Commands, Behind, Meant, Target, DefaultOf, Setting, Latest
<1> QED
  BY <1>1, <1>6, <1>9, <1>11, <1>12 DEF BusInv

\* The command goes out behind its break, to the address it asks for.
LEMMA BusTransact ==
  ASSUME BusInv, Transact
  PROVE  BusInv'
<1> DEFINE n == Len(typed)
           e == Sent("command", Addressed)
<1>1. /\ at = "transact" /\ at' = "top" /\ UNCHANGED <<input, piece, addr, typed>>
      /\ bus' = Append(bus, e)
  BY DEF Transact
<1>2. n \in Nat \ {0} /\ typed[n] = piece /\ Dealt \in Nat /\ Dealt + 1 = n /\ Dealt = n - 1
  BY <1>1, LastPiece
<1>3. e \in Entries /\ e.what = "command" /\ e.to = Addressed /\ e.of = Dealt + 1
  BY <1>1, <1>2, SentTyped DEF Sent
<1>4. bus \in Seq(Entries) /\ bus' \in Seq(Entries)
  BY <1>1, <1>3, AppendProperties DEF BusInv, TypingTyped
<1>5. piece.op = "send" /\ bus # <<>>
      /\ bus[Len(bus)] = [what |-> "break", to |-> "", of |-> Dealt + 1]
  BY <1>1, <1>2 DEF BusInv, InHand, BusBreak, Sent
<1>6. Dealt' = n
  BY <1>1, <1>2 DEF Dealt
<1>7. addr = DefaultOf(typed, n - 1)
  BY <1>2 DEF BusInv, InHand
<1>8. Addressed = Target(typed, n)
  BY <1>2, <1>7 DEF Addressed, Target
<1>9. typed[Dealt + 1].op = "send" /\ e.to = Target(typed, Dealt + 1)
  BY <1>2, <1>3, <1>5, <1>8
<1>10. Carries(bus, typed, Dealt)
  BY DEF BusInv
<1> HIDE DEF e
<1>11. Carries(bus', typed, Dealt + 1)
  BY <1>1, <1>2, <1>3, <1>4, <1>5, <1>9, <1>10, CarriesCommand
<1>12. InHand'
  <2>1. DefaultOf(typed, Dealt)' = DefaultOf(typed', Dealt')
    BY DEF DefaultOf, Setting, Latest
  <2>2. ~(typed[n].op = "addr")
    BY <1>2, <1>5
  <2>3. DefaultOf(typed, n) = DefaultOf(typed, n - 1)
    BY <1>2, <2>2, DefaultSet
  <2> QED
    BY <1>1, <1>6, <1>7, <2>1, <2>3 DEF InHand
<1>13. TypingTyped'
  BY <1>1, <1>4 DEF BusInv, TypingTyped
<1>14. Carries(bus, typed, Dealt)' = Carries(bus', typed', Dealt')
  BY DEF Carries, Each, All, Order, Commands, Behind, Meant, Target, DefaultOf, Setting, Latest
<1> QED
  BY <1>1, <1>2, <1>6, <1>11, <1>12, <1>13, <1>14 DEF BusInv

\* Nothing else touches the bus.
LEMMA BusStep == BusInv /\ [ModesNext]_allVars => BusInv'
<1> SUFFICES ASSUME BusInv, [ModesNext]_allVars PROVE BusInv'
  OBVIOUS
<1>1. CASE Enter \/ MonitorTop \/ MonitorRead \/ Prompt \/ FgetsFails
  <2>1. UNCHANGED typingVars
    BY <1>1 DEF Enter, MonitorTop, MonitorRead, Prompt, FgetsFails, typingVars
  <2>2. at \notin {"piece", "transact"} /\ at' \notin {"piece", "transact"}
    BY <1>1 DEF Enter, MonitorTop, MonitorRead, Prompt, FgetsFails, GoesOn
  <2> QED
    BY <2>1, <2>2, BusQuiet
<1>2. CASE CtrlC \/ Leave \/ Rest \/ UNCHANGED allVars
  <2>1. UNCHANGED typingVars /\ UNCHANGED at
    BY <1>2 DEF CtrlC, Leave, Rest, allVars, modeVars, typingVars
  <2> QED
    BY <2>1, BusQuiet
<1>3. CASE Fgets
  BY <1>3, BusFgets
<1>4. CASE Obey
  BY <1>4, BusObey
<1>5. CASE Transact
  BY <1>5, BusTransact
<1> QED
  BY <1>1, <1>2, <1>3, <1>4, <1>5 DEF ModesNext, Loops

\* And so the bus carries what was typed.
LEMMA BusInvSuffices == BusInv => TypedIsSent
<1> SUFFICES ASSUME BusInv PROVE TypedIsSent
  OBVIOUS
<1> DEFINE sends == {i \in 1 .. Dealt : typed[i].op = "send"}
<1>1. Carries(bus, typed, Dealt)
  BY DEF BusInv
<1>2. {bus[j].of : j \in Commands(bus)} = sends
  <2>1. ASSUME NEW j \in Commands(bus) PROVE bus[j].of \in sends
    BY <1>1, Zenon DEF Carries, Each, Meant
  <2>2. ASSUME NEW i \in sends PROVE \E j \in Commands(bus) : bus[j].of = i
    BY <1>1, Zenon DEF Carries, All
  <2> QED
    BY <2>1, <2>2
<1>3. \A n : DefaultAfter(n) = DefaultOf(typed, n)
  BY DEF DefaultAfter, DefaultOf, Setting, Latest
<1>4. \A j \in Commands(bus) :
        /\ j > 1 /\ bus[j - 1] = [what |-> "break", to |-> "", of |-> bus[j].of]
        /\ bus[j].to = IF typed[bus[j].of].to = "." THEN DefaultAfter(bus[j].of - 1)
                       ELSE typed[bus[j].of].to
  BY <1>1, <1>3, Zenon DEF Carries, Each, Behind, Meant, Target
<1>5. \A i, j \in Commands(bus) : i < j => bus[i].of < bus[j].of
  BY <1>1 DEF Carries, Order
<1> QED
  BY <1>2, <1>4, <1>5, Zenon DEF TypedIsSent, Commands, Dealt

\* The transparent mode sends what was typed: a break and a command for every
\* line that is one, in order, to the address given or set by then, and no
\* other, for every line and however long the buffer makes its pieces.
THEOREM TypedSent == ModesSpec => []TypedIsSent
  BY BusInit, BusStep, BusInvSuffices, PTL DEF ModesSpec
==============================================================================
