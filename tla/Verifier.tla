------------------------------- MODULE Verifier ------------------------------
(***************************************************************************)
(* One run of the program (src/main.c): arguments, HAL and timing layer,   *)
(* the suite with its filter (src/test_suite.c), the report and its        *)
(* verdict (src/reporter.c), clean-up and exit code.                       *)
(*                                                                         *)
(* What a test finds is any outcome; the timing, sensor and recorder       *)
(* modules are about that.  Outside the program: the operating system,     *)
(* which may refuse memory, the port or the sensor, and the user, who      *)
(* chooses the arguments and stops the monitor.                            *)
(*                                                                         *)
(* A definition named Bug... is the one after it with a mistake.           *)
(***************************************************************************)
EXTENDS Integers, Sequences

CONSTANTS
  LiveTests,   \* how many tests sensor_tests_register adds
  FaultTests,  \* how many more selftest_fault_tests_register adds
  RecTests,    \* how many recorder_tests_register adds
  MaxTests,    \* TEST_MAX_TESTS
  MaxResults   \* the results a report_t holds

ASSUME CountsNatural ==
  /\ LiveTests \in Nat /\ FaultTests \in Nat /\ RecTests \in Nat
  /\ MaxTests \in Nat /\ MaxResults \in Nat

\* In the program 31 + 9 and 16 tests, of at most 64, and 256 results.
ASSUME SuitesFit ==
  LiveTests + FaultTests <= MaxTests /\ RecTests <= MaxTests
    /\ MaxTests <= MaxResults

Modes    == {"sensor", "recorder", "monitor", "transparent"}
Statuses == {"PASS", "FAIL", "SKIP", "ERROR"}
Verdicts == {"COMPLIANT", "COMPLIANT, some skipped", "NON-COMPLIANT"}

VARIABLES
  pc,
  mode, selfTest,
  filter,      \* the tests --test matches: all of them without it
  hal,         \* "none", "created" (allocated), "open"
  suite,       \* suite.count
  next,        \* the test test_suite_run has come to
  results,     \* what the tests returned
  report,      \* the results in the report
  rc,          \* what verifier_run returned
  verdict,     \* what the report says
  exit         \* the exit code

vars == <<pc, mode, selfTest, filter, hal, suite, next, results, report, rc,
          verdict, exit>>

Init ==
  /\ pc = "args" /\ mode = "sensor" /\ selfTest = FALSE /\ filter = {}
  /\ hal = "none" /\ suite = 0 /\ next = 1 /\ results = <<>> /\ report = <<>>
  /\ rc = 0 /\ verdict = "none" /\ exit = 3

\* The process ends with this code; 3 stands for none yet.
Exit(code) == pc' = "exited" /\ exit' = code

-----------------------------------------------------------------------------
\* parse_args reads the options from left to right: --self-test also sets
\* the mode, which a later option may set again, but not to stay.
Options(m, self) == self => m = "sensor"

\* --help and --version end the program with 0, a mistake with 2.
NoRun ==
  /\ pc = "args"
  /\ \E code \in {0, 2} : Exit(code)
  /\ UNCHANGED <<mode, selfTest, filter, hal, suite, next, results, report, rc,
                 verdict>>

Args ==
  /\ pc = "args"
  /\ mode' \in Modes /\ selfTest' \in BOOLEAN /\ Options(mode', selfTest')
  /\ filter' \in SUBSET (1 .. MaxTests)
  /\ pc' = "hal"
  /\ UNCHANGED <<hal, suite, next, results, report, rc, verdict, exit>>

\* verifier_init: create the HAL, open it, start the timing layer.
Destroyed == "none"

CreateHal ==
  /\ pc = "hal"
  /\ \/ hal' = "created" /\ pc' = "open" /\ UNCHANGED exit
     \/ Exit(2) /\ UNCHANGED hal
  /\ UNCHANGED <<mode, selfTest, filter, suite, next, results, report, rc,
                 verdict>>

OpenHal ==
  /\ pc = "open"
  /\ \/ hal' = "open" /\ pc' = "timing" /\ UNCHANGED exit
     \/ Exit(2) /\ hal' = Destroyed
  /\ UNCHANGED <<mode, selfTest, filter, suite, next, results, report, rc,
                 verdict>>

\* When the timing layer fails the HAL is closed and destroyed.
BugTimingFailed == hal
TimingFailed    == Destroyed

InitTiming ==
  /\ pc = "timing"
  /\ \/ pc' = "run" /\ UNCHANGED <<hal, exit>>
     \/ Exit(2) /\ hal' = TimingFailed
  /\ UNCHANGED <<mode, selfTest, filter, suite, next, results, report, rc,
                 verdict>>

\* test_suite_add drops what a full suite has no room for.
Added(n) == IF n < MaxTests THEN n ELSE MaxTests

\* What verifier_run_sensor_tests and verifier_run_recorder_tests register:
\* the fault tests are for the loopback only.
TestModes == {"sensor", "recorder"}

Registered ==
  IF mode = "recorder" THEN RecTests
  ELSE LiveTests + (IF selfTest THEN FaultTests ELSE 0)

Register ==
  /\ pc = "run" /\ mode \in TestModes
  /\ suite' = Added(Registered)
  /\ next' = 1
  /\ pc' = "tests"
  /\ UNCHANGED <<mode, selfTest, filter, hal, results, report, rc, verdict,
                 exit>>

\* The monitor and the transparent mode run until the user stops them.
Ran(m) == 0

RunInteractive ==
  /\ pc = "run" /\ mode \notin TestModes
  /\ rc' = Ran(mode)
  /\ pc' = "report"
  /\ UNCHANGED <<mode, selfTest, filter, hal, suite, next, results, report,
                 verdict, exit>>

RunTest ==
  /\ pc = "tests" /\ next <= suite /\ next \in filter
  /\ \E s \in Statuses : results' = Append(results, [test |-> next, status |-> s])
  /\ next' = next + 1
  /\ UNCHANGED <<pc, mode, selfTest, filter, hal, suite, report, rc, verdict,
                 exit>>

SkipUnmatched ==
  /\ pc = "tests" /\ next <= suite /\ next \notin filter
  /\ next' = next + 1
  /\ UNCHANGED <<pc, mode, selfTest, filter, hal, suite, results, report, rc,
                 verdict, exit>>

Count(rs, s) == {i \in DOMAIN rs : rs[i].status = s}

BugReturned(rs) ==
  IF Count(rs, "FAIL") # {} THEN 1 ELSE 0
Returned(rs) ==
  IF Count(rs, "ERROR") # {} THEN 2 ELSE IF Count(rs, "FAIL") # {} THEN 1 ELSE 0

\* report_add_results, as far as the report has room, and report_summary.
BugReported(rs) == SubSeq(rs, 1, IF Len(rs) < MaxResults THEN Len(rs)
                                                       ELSE MaxResults - 1)
Reported(rs)    == SubSeq(rs, 1, IF Len(rs) < MaxResults THEN Len(rs)
                                                       ELSE MaxResults)

SuiteDone ==
  /\ pc = "tests" /\ next > suite
  /\ report' = Reported(results)
  /\ rc' = Returned(report')
  /\ pc' = "report"
  /\ UNCHANGED <<mode, selfTest, filter, hal, suite, next, results, verdict,
                 exit>>

\* report_print_text, and "compliant" of the JSON report.
Compliant == Count(report, "FAIL") = {} /\ Count(report, "ERROR") = {}

PrintReport ==
  /\ pc = "report"
  /\ verdict' = IF ~Compliant THEN "NON-COMPLIANT"
                ELSE IF Count(report, "SKIP") # {} THEN "COMPLIANT, some skipped"
                ELSE "COMPLIANT"
  /\ pc' = "cleanup"
  /\ UNCHANGED <<mode, selfTest, filter, hal, suite, next, results, report, rc,
                 exit>>

Cleanup ==
  /\ pc = "cleanup"
  /\ hal' = Destroyed
  /\ Exit(rc)
  /\ UNCHANGED <<mode, selfTest, filter, suite, next, results, report, rc,
                 verdict>>

Next ==
  \/ NoRun \/ Args \/ CreateHal \/ OpenHal \/ InitTiming
  \/ Register \/ RunInteractive \/ RunTest \/ SkipUnmatched \/ SuiteDone
  \/ PrintReport \/ Cleanup

Spec == Init /\ [][Next]_vars

-----------------------------------------------------------------------------
TypeOK ==
  /\ pc \in {"args", "hal", "open", "timing", "run", "tests", "report",
             "cleanup", "exited"}
  /\ mode \in Modes /\ selfTest \in BOOLEAN /\ filter \subseteq 1 .. MaxTests
  /\ hal \in {"none", "created", "open"}
  /\ suite \in 0 .. MaxTests /\ next \in 1 .. suite + 1
  /\ results \in Seq([test : Nat, status : Statuses])
  /\ report \in Seq([test : Nat, status : Statuses]) /\ Len(report) <= MaxResults
  /\ rc \in 0 .. 2 /\ exit \in 0 .. 3
  /\ verdict \in Verdicts \cup {"none"}

\* However it ends, the program has closed the port and freed the HAL.
PortReleased == pc = "exited" => hal = "none"

\* The exit code and the printed verdict are computed apart but agree.
ExitMatchesVerdict ==
  pc = "exited" /\ verdict # "none" => (exit = 0 <=> verdict # "NON-COMPLIANT")

\* Every test of the mode that the filter matches is in the report, once and
\* in order, and nothing else is: neither the suite, which drops a test that
\* is one too many, nor the report, which drops a result, is too small.
ReportComplete ==
  pc = "exited" /\ verdict # "none" /\ mode \in TestModes
    => /\ {report[i].test : i \in DOMAIN report} = filter \cap 1 .. Registered
       /\ \A i, j \in DOMAIN report : i < j => report[i].test < report[j].test
==============================================================================
