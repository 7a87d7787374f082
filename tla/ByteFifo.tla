------------------------------ MODULE ByteFifo -------------------------------
(***************************************************************************)
(* What hal_loopback.c promises of its response buffer: bytes come out in  *)
(* the order they went in, each once, and what does not fit is dropped     *)
(* from the end of the message that brought it.                            *)
(***************************************************************************)
EXTENDS Integers, Sequences

CONSTANTS
  Cap,         \* how many bytes it holds
  Bytes,       \* the bytes
  Messages,    \* what may be put: sequences of bytes
  Asks         \* how many bytes a get may ask for

VARIABLES
  queue,       \* the bytes held, the oldest first
  out,         \* the bytes the last get returned
  call         \* history: the last call and its argument

vars == <<queue, out, call>>

Least(a, b) == IF a <= b THEN a ELSE b
FirstOf(s, n) == SubSeq(s, 1, n)
Rest(s, n)    == SubSeq(s, n + 1, Len(s))

Init ==
  /\ queue = <<>> /\ out = <<>>
  /\ call = [op |-> "drain", data |-> <<>>, ask |-> 0]

Put(data) ==
  /\ queue' = queue \o FirstOf(data, Least(Len(data), Cap - Len(queue)))
  /\ call' = [op |-> "put", data |-> data, ask |-> 0]
  /\ UNCHANGED out

Get(ask) ==
  LET n == Least(Len(queue), ask)
  IN  /\ out' = FirstOf(queue, n)
      /\ queue' = Rest(queue, n)
      /\ call' = [op |-> "get", data |-> <<>>, ask |-> ask]

Drain ==
  /\ queue' = <<>>
  /\ call' = [op |-> "drain", data |-> <<>>, ask |-> 0]
  /\ UNCHANGED out

Next ==
  \/ \E data \in Messages : Put(data)
  \/ \E ask \in Asks : Get(ask)
  \/ Drain

Spec == Init /\ [][Next]_vars
==============================================================================
