-------------------------- MODULE SelftestFaultsMC ---------------------------
(* An instance of SelftestFaults for TLC.                                    *)
EXTENDS SelftestFaults

\* All short texts, and long ones with at most one point or another sign.
Long == {<<s>> \o Digits(n) : s \in Signs, n \in 5 .. 10}
OddTextsMC ==
  BoundedSeq(Chars, 4) \cup Long
    \cup {[t EXCEPT ![i] = c] : t \in {<<"+">> \o Digits(n) : n \in 6 .. 9},
                                i \in 1 .. 7, c \in {".", "-", "x"}}
    \cup {Append(t, ".") : t \in Long}
==============================================================================
