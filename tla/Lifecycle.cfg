\* Every argument, failure and outcome of the tests, and the two interactive
\* modes.
SPECIFICATION ModesSpec
CONSTANTS
  LiveTests = 2
  FaultTests = 1
  RecTests = 2
  MaxTests = 3
  MaxResults = 3
  LineMax = 2
  Received = {"lf", "other"}
  Lines <- LinesMC
  Addresses = {"0", "1"}
  FirstAddr = "0"
  MaxHeard = 5
  MaxTyped = 4
INVARIANTS
  PortReleased
  ExitMatchesVerdict
  ReportComplete
  MonitorShowsAll
  TypedIsSent
  OneMoreLine
PROPERTIES MonitorStops
\* The program ends.
CHECK_DEADLOCK FALSE
