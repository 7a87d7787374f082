------------------------------ MODULE PddGrammar -----------------------------
(***************************************************************************)
(* The grammar of measured values that the data tests hold every page to   *)
(* (src/selftest_faults.c): what the two validators accept, and beside it  *)
(* what Table 11 of SDI-12, as the code quotes it, generates.              *)
(*                                                                         *)
(* A character is a sign, "d" (any digit), "." or "x" (any other); "cr"    *)
(* and "lf" end a response.                                                *)
(*                                                                         *)
(* A definition named Bug... is the one after it with a mistake.           *)
(***************************************************************************)
EXTENDS Integers, Sequences, FiniteSets, FiniteSetsExt, SequencesExt

Signs    == {"+", "-"}
Chars    == Signs \cup {"d", ".", "x"}
LineEnds == {"cr", "lf"}

MaxWidth  == 9
MaxDigits == 7

-----------------------------------------------------------------------------
(* The validators.                                                         *)

\* Where c stands behind the first character.
Behind(v, c) == {i \in 2 .. Len(v) : v[i] = c}

\* sdi12v_valid_pdd.
BugValidPdd(v) ==
  /\ Len(v) \in 2 .. MaxWidth
  /\ v[1] \in Signs
  /\ \A i \in 2 .. Len(v) : v[i] \in {"d", "."}
  /\ Cardinality(Behind(v, ".")) <= 1
  /\ Cardinality(Behind(v, "d")) \in 1 .. MaxDigits
ValidPdd(v) ==
  /\ Len(v) \in 2 .. MaxWidth
  /\ v[1] \in Signs
  /\ \A i \in 2 .. Len(v) : v[i] \in {"d", "."}
  /\ Cardinality(Behind(v, ".")) <= 1
  /\ Cardinality(Behind(v, "d")) \in 1 .. MaxDigits
  /\ v[Len(v)] # "."

BugStripped(resp) ==
  SubSeq(resp, 1, IF Last(resp) \in LineEnds THEN Len(resp) - 1 ELSE Len(resp))
Stripped(resp) ==
  SubSeq(resp, 1, Max({0} \cup {i \in DOMAIN resp : resp[i] \notin LineEnds}))

\* sdi12v_validate_values: behind the address, each value runs from its sign to
\* the next one.  How many there are, or -1.
ValueAt(s, starts, i) ==
  SubSeq(s, i, Min({Len(s) + 1} \cup {j \in starts : j > i}) - 1)

ValidateValues(resp) ==
  LET s      == Stripped(resp)
      starts == {i \in 2 .. Len(s) : s[i] \in Signs}
  IN  IF Len(s) <= 1 THEN 0
      ELSE IF s[2] \in Signs /\ \A i \in starts : ValidPdd(ValueAt(s, starts, i))
           THEN Cardinality(starts)
           ELSE -1

-----------------------------------------------------------------------------
(* What they should accept.                                                *)

Digits(n) == [i \in 1 .. n |-> "d"]

\* A sign, and one to seven digits of which some follow a decimal point, if
\* there is one.
PddTexts ==
  {<<s>> \o Digits(n) : s \in Signs, n \in 1 .. MaxDigits} \cup
  UNION {{<<s>> \o Digits(n - f) \o <<".">> \o Digits(f) : s \in Signs, f \in 1 .. n}
          : n \in 1 .. MaxDigits}
==============================================================================
