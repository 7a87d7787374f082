---------------------------- MODULE RecorderRxMC -----------------------------
(* Small instances of RecorderRx.  A window is 2 units and a whole wait 3, so *)
(* that commands, breaks and measurements straddle windows and waits.        *)
EXTENDS RecorderRx

\* One command fits last_cmd (3 characters), the other does not.
FitsAndNot == {2, 4}
Fits       == {2}

OneWait == {3}

OneNul  == {1}
TwoNuls == {2}

AllModes == {"respond", "poll", "break"}
Polling  == {"poll"}
==============================================================================
