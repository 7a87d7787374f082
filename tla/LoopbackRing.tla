----------------------------- MODULE LoopbackRing ----------------------------
(***************************************************************************)
(* lb_ring_t of hal_loopback.c, the buffer between the simulated sensor    *)
(* and the HAL's read: an array and two positions, one slot of which       *)
(* always stays free so that a full ring differs from an empty one.        *)
(***************************************************************************)
EXTENDS Integers, Sequences

CONSTANTS
  Size,        \* LB_RING_SIZE
  Bytes, Messages, Asks,
  Zero         \* the byte the array is cleared to

ASSUME RoomForOne == Size \in Nat /\ Size > 1
ASSUME UsesTyped  == Messages \subseteq Seq(Bytes) /\ Asks \subseteq Nat
ASSUME ZeroIsByte == Zero \in Bytes

VARIABLES
  buf, head, tail,
  out,         \* the bytes the last get returned
  call         \* history: the last call and its argument

vars == <<buf, head, tail, out, call>>

Slots       == 0 .. Size - 1
Least(a, b) == IF a <= b THEN a ELSE b

Init ==
  /\ buf = [s \in Slots |-> Zero]
  /\ head = 0 /\ tail = 0
  /\ out = <<>>
  /\ call = [op |-> "drain", data |-> <<>>, ask |-> 0]

Avail == (head - tail + Size) % Size

\* The bytes that fit before Avail reaches Size - 1.
BugRoom == Size - Avail
Room    == Size - 1 - Avail

\* A position moved on by n bytes.
Step(p, n) == (p + n) % Size

Put(data) ==
  LET n == Least(Len(data), Room)
      k(s) == (s - head + Size) % Size          \* bytes put before slot s
  IN  /\ buf' = [s \in Slots |-> IF k(s) < n THEN data[k(s) + 1] ELSE buf[s]]
      /\ head' = Step(head, n)
      /\ call' = [op |-> "put", data |-> data, ask |-> 0]
      /\ UNCHANGED <<tail, out>>

Get(ask) ==
  LET n == Least(Avail, ask)
  IN  /\ out' = [i \in 1 .. n |-> buf[Step(tail, i - 1)]]
      /\ tail' = Step(tail, n)
      /\ call' = [op |-> "get", data |-> <<>>, ask |-> ask]
      /\ UNCHANGED <<buf, head>>

\* The end of a break (lb_set_break).
Drain ==
  /\ head' = 0 /\ tail' = 0
  /\ call' = [op |-> "drain", data |-> <<>>, ask |-> 0]
  /\ UNCHANGED <<buf, out>>

Next ==
  \/ \E data \in Messages : Put(data)
  \/ \E ask \in Asks : Get(ask)
  \/ Drain

Spec == Init /\ [][Next]_vars

-----------------------------------------------------------------------------
TypeOK ==
  /\ buf \in [Slots -> Bytes]
  /\ head \in Slots /\ tail \in Slots
  /\ out \in Seq(Bytes)
  /\ call \in [op : {"put", "get", "drain"}, data : Seq(Bytes), ask : Nat]

\* The bytes in the ring, the oldest first.
Contents == [i \in 1 .. Avail |-> buf[Step(tail, i - 1)]]

Fifo == INSTANCE ByteFifo WITH Cap <- Size - 1, queue <- Contents

\* The ring is a bounded queue, call by call: the positions may wrap and the
\* ring may be full, but it never laps its tail, never takes full for empty,
\* and keeps of a message that does not fit its first bytes (lb_ring_put,
\* lb_ring_get).
RingIsFifo == Fifo!Spec
==============================================================================
