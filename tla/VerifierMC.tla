----------------------------- MODULE VerifierMC ------------------------------
(***************************************************************************)
(* Small suites for Verifier.  As in the program (31 + 9, and 16 tests of  *)
(* at most 64, 256 results) each suite fits; here one fits exactly.  The   *)
(* user types commands of each kind, one too long for fgets.               *)
(***************************************************************************)
EXTENDS BusModes

Ask(what, whom) == [op |-> what, to |-> whom]
LinesMC ==
  {<<Ask("empty", "")>>, <<Ask("quit", "")>>, <<Ask("break", "")>>,
   <<Ask("addr", "1")>>, <<Ask("addr", "#")>>, <<Ask("send", ".")>>,
   <<Ask("send", "5"), Ask("send", "2")>>}
==============================================================================
