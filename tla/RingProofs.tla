----------------------------- MODULE RingProofs ------------------------------
(***************************************************************************)
(* The ring of hal_loopback.c implements a bounded queue, for every size,  *)
(* every message and every byte.                                           *)
(***************************************************************************)
EXTENDS LoopbackRing, SequenceTheorems, TLAPS

\* Positions are added modulo Size at most once around.
LEMMA ModOnce ==
  ASSUME NEW x \in 0 .. 2 * Size - 1
  PROVE  x % Size = IF x < Size THEN x ELSE x - Size
<1>1. CASE x < Size
  BY <1>1, RoomForOne, Z3
<1>2. CASE x >= Size
  <2>1. x % Size \in 0 .. Size - 1
    BY RoomForOne, Z3
  <2>2. x = Size * (x \div Size) + (x % Size)
    BY RoomForOne, Z3
  <2>3. x \div Size = 1
    BY <1>2, RoomForOne, Z3
  <2> QED
    BY <1>2, <2>1, <2>2, <2>3, RoomForOne, Z3
<1> QED
  BY <1>1, <1>2, RoomForOne

\* A position moved on by no more than the size is one, wrapped round at most once.
LEMMA StepSlot ==
  ASSUME NEW p \in Slots, NEW n \in 0 .. Size
  PROVE  /\ Step(p, n) = IF p + n < Size THEN p + n ELSE p + n - Size
         /\ Step(p, n) \in Slots
<1> DEFINE x == p + n
<1>1. x \in 0 .. 2 * Size - 1
  BY RoomForOne DEF Slots
<1>2. Step(p, n) = x % Size
  BY DEF Step
<1> HIDE DEF x
<1>3. x % Size = IF x < Size THEN x ELSE x - Size
  BY <1>1, ModOnce
<1>4. Step(p, n) = IF x < Size THEN x ELSE x - Size
  BY <1>2, <1>3
<1> QED
  BY <1>1, <1>4, RoomForOne DEF x, Slots

\* The distance from one slot to another, around the ring.
Distance(to, from) == IF to >= from THEN to - from ELSE to - from + Size

\* The code's modulo is the distance between two positions.
LEMMA DistanceMod ==
  ASSUME NEW to \in Slots, NEW from \in Slots
  PROVE  /\ (to - from + Size) % Size = Distance(to, from)
         /\ Distance(to, from) \in 0 .. Size - 1
<1>1. to - from + Size \in 0 .. 2 * Size - 1
  BY RoomForOne DEF Slots
<1>2. (to - from + Size) % Size
        = IF to - from + Size < Size THEN to - from + Size ELSE to - from
  BY <1>1, ModOnce, RoomForOne DEF Slots
<1> QED
  BY <1>2, RoomForOne DEF Distance, Slots

\* What is on the ring and what still fits are smaller than its size.
LEMMA AvailIs ==
  ASSUME TypeOK
  PROVE  /\ Avail = Distance(head, tail)
         /\ Avail \in 0 .. Size - 1
         /\ Room \in 0 .. Size - 1
BY DistanceMod, RoomForOne DEF TypeOK, Avail, Room

\* The bytes between two positions of an array, which Contents is of the
\* present ones and Contents' of the next.
Between(b, h, t) == [i \in 1 .. (h - t + Size) % Size |-> b[Step(t, i - 1)]]

\* The bytes between two positions, in the order they are read.
LEMMA BetweenSeq ==
  ASSUME NEW b \in [Slots -> Bytes], NEW h \in Slots, NEW t \in Slots
  PROVE  /\ Between(b, h, t) \in Seq(Bytes)
         /\ Len(Between(b, h, t)) = Distance(h, t)
         /\ \A i \in 1 .. Distance(h, t) :
              Between(b, h, t)[i] = b[Step(t, i - 1)]
<1>1. /\ (h - t + Size) % Size = Distance(h, t)
      /\ Distance(h, t) \in 0 .. Size - 1
  BY DistanceMod
<1>2. \A i \in 1 .. Distance(h, t) : b[Step(t, i - 1)] \in Bytes
  <2> TAKE i \in 1 .. Distance(h, t)
  <2>1. i - 1 \in 0 .. Size
    BY <1>1, RoomForOne
  <2>2. Step(t, i - 1) \in Slots
    BY <2>1, StepSlot
  <2> QED
    BY <2>2
<1> DEFINE d == Distance(h, t)
<1>3. Between(b, h, t) = [i \in 1 .. d |-> b[Step(t, i - 1)]]
  BY <1>1 DEF Between
<1>4. d \in Nat
  BY <1>1, RoomForOne
<1> HIDE DEF d
<1>5. [i \in 1 .. d |-> b[Step(t, i - 1)]] \in [1 .. d -> Bytes]
  BY <1>2 DEF d
<1>6. Between(b, h, t) \in Seq(Bytes) /\ Len(Between(b, h, t)) = d
  BY <1>3, <1>4, <1>5
<1> QED
  BY <1>3, <1>6 DEF d

\* The contents are a sequence of bytes, as long as the ring says.
LEMMA ContentsSeq ==
  ASSUME TypeOK
  PROVE  /\ Contents \in Seq(Bytes)
         /\ Len(Contents) = Avail
         /\ \A i \in 1 .. Avail : Contents[i] = buf[Step(tail, i - 1)]
<1>1. Contents = Between(buf, head, tail)
  BY DEF Contents, Avail, Between
<1>2. buf \in [Slots -> Bytes] /\ head \in Slots /\ tail \in Slots
  BY DEF TypeOK
<1>3. Avail = Distance(head, tail)
  BY AvailIs
<1> QED
  BY <1>1, <1>2, <1>3, BetweenSeq

-----------------------------------------------------------------------------
\* What a put stores: the positions and the bytes stay in range.
LEMMA PutType ==
  ASSUME TypeOK, NEW data \in Seq(Bytes), Put(data)
  PROVE  TypeOK'
<1> DEFINE n == Least(Len(data), Room)
           k(s) == (s - head + Size) % Size
<1>1. n \in 0 .. Size - 1 /\ n <= Len(data)
  BY AvailIs, LenProperties, RoomForOne DEF Least
<1>2. head' \in Slots
  <2>1. head' = Step(head, n)
    BY DEF Put
  <2>2. n \in 0 .. Size /\ head \in Slots
    BY <1>1, RoomForOne DEF TypeOK
  <2> QED
    BY <2>1, <2>2, StepSlot
<1>3. \A s \in Slots : (IF k(s) < n THEN data[k(s) + 1] ELSE buf[s]) \in Bytes
  <2> TAKE s \in Slots
  <2>1. k(s) \in 0 .. Size - 1
    BY DistanceMod DEF TypeOK
  <2>2. CASE k(s) < n
    <3>1. k(s) + 1 \in 1 .. Len(data)
      BY <1>1, <2>1, <2>2, LenProperties
    <3> QED
      BY <2>2, <3>1
  <2>3. CASE ~(k(s) < n)
    BY <2>3 DEF TypeOK
  <2> QED
    BY <2>2, <2>3
<1>4. buf' = [s \in Slots |-> IF k(s) < n THEN data[k(s) + 1] ELSE buf[s]]
  BY DEF Put
<1>5. buf' \in [Slots -> Bytes]
  BY <1>3, <1>4
<1>6. (call \in [op : {"put", "get", "drain"}, data : Seq(Bytes), ask : Nat])'
  BY DEF Put
<1>7. tail' = tail /\ out' = out
  BY DEF Put
<1> QED
  BY <1>2, <1>5, <1>6, <1>7 DEF TypeOK

\* A read keeps the types.
LEMMA GetType ==
  ASSUME TypeOK, NEW ask \in Nat, Get(ask)
  PROVE  TypeOK'
<1> DEFINE n == Least(Avail, ask)
<1>1. n \in 0 .. Avail /\ Avail \in 0 .. Size - 1
  BY AvailIs DEF Least
<1>2. tail' \in Slots
  BY <1>1, StepSlot, RoomForOne DEF Get, TypeOK
<1>3. \A i \in 1 .. n : buf[Step(tail, i - 1)] \in Bytes
  BY <1>1, ContentsSeq, ElementOfSeq
<1>4. out' = [i \in 1 .. n |-> buf[Step(tail, i - 1)]]
  BY DEF Get
<1>5. out' \in [1 .. n -> Bytes] /\ n \in Nat
  BY <1>1, <1>3, <1>4
<1>6. out' \in Seq(Bytes)
  BY <1>5
<1>7. (call \in [op : {"put", "get", "drain"}, data : Seq(Bytes), ask : Nat])'
  BY EmptySeq DEF Get
<1>8. buf' = buf /\ head' = head
  BY DEF Get
<1> QED
  BY <1>2, <1>6, <1>7, <1>8 DEF TypeOK

\* The ring starts empty.
LEMMA InitType == Init => TypeOK
<1> SUFFICES ASSUME Init PROVE TypeOK
  OBVIOUS
<1>1. out \in Seq(Bytes) /\ call.data \in Seq(Bytes)
  BY EmptySeq DEF Init
<1> QED
  BY <1>1, RoomForOne, ZeroIsByte DEF Init, TypeOK, Slots

\* All its steps keep the types.
LEMMA StepType == TypeOK /\ [Next]_vars => TypeOK'
<1> SUFFICES ASSUME TypeOK, [Next]_vars PROVE TypeOK'
  OBVIOUS
<1>1. CASE \E data \in Messages : Put(data)
  BY <1>1, PutType, UsesTyped
<1>2. CASE \E ask \in Asks : Get(ask)
  BY <1>2, GetType, UsesTyped
<1>3. CASE Drain
  <2>1. call' \in [op : {"put", "get", "drain"}, data : Seq(Bytes), ask : Nat]
    BY <1>3, EmptySeq DEF Drain
  <2> QED
    BY <1>3, <2>1, RoomForOne DEF Drain, TypeOK, Slots
<1>4. CASE UNCHANGED vars
  BY <1>4 DEF vars, TypeOK
<1> QED
  BY <1>1, <1>2, <1>3, <1>4 DEF Next

\* The positions stay inside the array whatever is put and asked for.
THEOREM RingTyped == Spec => []TypeOK
  BY InitType, StepType, PTL DEF Spec

-----------------------------------------------------------------------------
\* A sequence equal to another place by place, for the refinement steps.
LEMMA SeqSame ==
  ASSUME NEW s \in Seq(Bytes), NEW t \in Seq(Bytes), Len(s) = Len(t),
         \A i \in 1 .. Len(s) : s[i] = t[i]
  PROVE  s = t
BY SeqEqual

\* Emptying the ring empties the queue.
LEMMA EmptyBetween ==
  ASSUME NEW b \in [Slots -> Bytes], NEW t \in Slots
  PROVE  Between(b, t, t) = <<>>
<1>1. Distance(t, t) = 0
  BY DEF Distance, Slots
<1>2. Between(b, t, t) \in Seq(Bytes) /\ Len(Between(b, t, t)) = 0
  BY <1>1, BetweenSeq
<1> QED
  BY <1>2, EmptySeq

\* The first n bytes of a message, as Put takes them.
LEMMA FirstOfSeq ==
  ASSUME NEW s \in Seq(Bytes), NEW n \in 0 .. Len(s)
  PROVE  /\ Fifo!FirstOf(s, n) \in Seq(Bytes)
         /\ Len(Fifo!FirstOf(s, n)) = n
         /\ \A i \in 1 .. n : Fifo!FirstOf(s, n)[i] = s[i]
<1>1. Len(s) \in Nat /\ n \in Nat
  BY LenProperties
<1>2. \A i \in 1 .. n : s[i] \in Bytes
  BY <1>1, ElementOfSeq
<1>3. Fifo!FirstOf(s, n) = [i \in 1 .. n |-> s[i]]
  BY <1>1 DEF Fifo!FirstOf
<1>4. [i \in 1 .. n |-> s[i]] \in [1 .. n -> Bytes]
  BY <1>2
<1>5. Fifo!FirstOf(s, n) \in Seq(Bytes) /\ Len(Fifo!FirstOf(s, n)) = n
  BY <1>1, <1>3, <1>4
<1> QED
  BY <1>3, <1>5

\* What is left of a queue when some of it has been taken.
LEMMA RestSeq ==
  ASSUME NEW s \in Seq(Bytes), NEW n \in 0 .. Len(s)
  PROVE  /\ Fifo!Rest(s, n) \in Seq(Bytes)
         /\ Len(Fifo!Rest(s, n)) = Len(s) - n
         /\ \A i \in 1 .. Len(s) - n : Fifo!Rest(s, n)[i] = s[n + i]
<1>1. Len(s) \in Nat /\ n \in Nat /\ Len(s) - n \in Nat
  BY LenProperties
<1>2. \A i \in 1 .. Len(s) - n : s[n + i] \in Bytes
  BY <1>1, ElementOfSeq
<1>3. Fifo!Rest(s, n) = [i \in 1 .. Len(s) - n |-> s[n + i]]
  BY <1>1 DEF Fifo!Rest
<1>4. [i \in 1 .. Len(s) - n |-> s[n + i]] \in [1 .. Len(s) - n -> Bytes]
  BY <1>2
<1>5. Fifo!Rest(s, n) \in Seq(Bytes) /\ Len(Fifo!Rest(s, n)) = Len(s) - n
  BY <1>1, <1>3, <1>4
<1> QED
  BY <1>3, <1>5

-----------------------------------------------------------------------------
\* A put appends to the queue what the ring has room for.
LEMMA PutRefines ==
  ASSUME TypeOK, NEW data \in Seq(Bytes), Put(data)
  PROVE  Fifo!Put(data)
<1> DEFINE n == Least(Len(data), Room)
           k(s) == (s - head + Size) % Size
           new == Contents \o Fifo!FirstOf(data, n)
<1>1. /\ n \in 0 .. Size - 1 /\ n <= Len(data) /\ n <= Room
      /\ Avail \in 0 .. Size - 1 /\ Avail + n <= Size - 1
      /\ Len(data) \in Nat
  BY AvailIs, LenProperties, RoomForOne DEF Least, Room
<1>2. TypeOK'
  BY PutType
<1>3. /\ head \in Slots /\ tail \in Slots /\ head' = Step(head, n)
      /\ tail' = tail /\ out' = out
      /\ call' = [op |-> "put", data |-> data, ask |-> 0]
  BY DEF TypeOK, Put
<1>4. Avail' = Avail + n
  <2> HIDE DEF n, k, new
  <2>1. Step(head, n) = IF head + n < Size THEN head + n ELSE head + n - Size
    BY <1>1, <1>3, StepSlot, RoomForOne
  <2>2. Avail = Distance(head, tail)
    BY AvailIs
  <2>3. Avail' = Distance(Step(head, n), tail)
    <3>1. Step(head, n) \in Slots
      BY <1>1, <1>3, StepSlot, RoomForOne
    <3>2. Avail' = (Step(head, n) - tail + Size) % Size
      BY <1>3 DEF Avail
    <3> QED
      BY <1>3, <3>1, <3>2, DistanceMod
  <2> QED
    BY <1>1, <1>3, <2>1, <2>2, <2>3, RoomForOne DEF Distance, Slots
<1>5. /\ Contents' \in Seq(Bytes) /\ Len(Contents') = Avail + n
      /\ \A i \in 1 .. Avail + n : Contents'[i] = buf'[Step(tail, i - 1)]
  <2> HIDE DEF n, k, new
  <2>1. Contents' = Between(buf', head', tail')
    BY DEF Contents, Avail, Between, Step
  <2>2. buf' \in [Slots -> Bytes] /\ head' \in Slots /\ tail' \in Slots
    BY <1>2 DEF TypeOK
  <2>3. Avail' = Distance(head', tail')
    <3>1. Avail' = (head' - tail' + Size) % Size
      BY DEF Avail
    <3> QED
      BY <2>2, <3>1, DistanceMod
  <2>4. Distance(head', tail') = Avail + n /\ tail' = tail
    BY <1>3, <1>4, <2>3
  <2> DEFINE b == Between(buf', head', tail')
  <2>5. /\ b \in Seq(Bytes) /\ Len(b) = Distance(head', tail')
        /\ \A i \in 1 .. Distance(head', tail') : b[i] = buf'[Step(tail', i - 1)]
    BY <2>2, BetweenSeq
  <2> HIDE DEF b
  <2>6. Contents' = b
    BY <2>1 DEF b
  <2> QED
    BY <2>4, <2>5, <2>6
<1>6. /\ new \in Seq(Bytes) /\ Len(new) = Avail + n
      /\ \A i \in 1 .. Avail : new[i] = buf[Step(tail, i - 1)]
      /\ \A i \in Avail + 1 .. Avail + n : new[i] = data[i - Avail]
  <2>1. /\ Fifo!FirstOf(data, n) \in Seq(Bytes)
        /\ Len(Fifo!FirstOf(data, n)) = n
        /\ \A i \in 1 .. n : Fifo!FirstOf(data, n)[i] = data[i]
    <3>1. data \in Seq(Bytes) /\ n \in 0 .. Len(data)
      BY <1>1
    <3> HIDE DEF n
    <3> QED
      BY <3>1, FirstOfSeq
  <2>2. /\ Contents \in Seq(Bytes) /\ Len(Contents) = Avail
        /\ \A i \in 1 .. Avail : Contents[i] = buf[Step(tail, i - 1)]
    BY ContentsSeq
  <2> DEFINE f == Fifo!FirstOf(data, n)
             c == Contents
  <2>3. new = c \o f /\ f \in Seq(Bytes) /\ c \in Seq(Bytes)
    BY <2>1, <2>2
  <2>4. Len(c) = Avail /\ Len(f) = n
    BY <2>1, <2>2
  <2> HIDE DEF f, c, n, new
  <2>5. /\ new \in Seq(Bytes) /\ Len(new) = Len(c) + Len(f)
        /\ \A i \in 1 .. Len(c) + Len(f) :
             new[i] = IF i <= Len(c) THEN c[i] ELSE f[i - Len(c)]
    BY <2>3, ConcatProperties
  <2>6. \A i \in 1 .. Avail : new[i] = buf[Step(tail, i - 1)]
    BY <1>1, <2>2, <2>4, <2>5 DEF c
  <2>7. \A i \in Avail + 1 .. Avail + n : new[i] = data[i - Avail]
    <3> TAKE i \in Avail + 1 .. Avail + n
    <3>1. i - Avail \in 1 .. n /\ i \in 1 .. Avail + n /\ ~(i <= Avail)
      BY <1>1
    <3>2. new[i] = f[i - Avail]
      BY <2>4, <2>5, <3>1
    <3>3. f[i - Avail] = data[i - Avail]
      BY <2>1, <3>1 DEF f
    <3> QED
      BY <3>2, <3>3
  <2> QED
    BY <2>4, <2>5, <2>6, <2>7
<1>7. \A i \in 1 .. Avail + n :
        buf'[Step(tail, i - 1)]
          = IF i <= Avail THEN buf[Step(tail, i - 1)] ELSE data[i - Avail]
  <2> TAKE i \in 1 .. Avail + n
  <2> DEFINE s == Step(tail, i - 1)
  <2>1. /\ s = IF tail + (i - 1) < Size THEN tail + (i - 1)
                                        ELSE tail + (i - 1) - Size
        /\ s \in Slots
    <3>1. i - 1 \in 0 .. Size
      BY <1>1, RoomForOne
    <3> QED
      BY <1>3, <3>1, StepSlot
  <2>2. buf' = [x \in Slots |-> IF k(x) < n THEN data[k(x) + 1] ELSE buf[x]]
    BY DEF Put
  <2>3. k(s) = Distance(s, head)
    BY <1>3, <2>1, DistanceMod
  <2>4. Avail = Distance(head, tail)
    BY AvailIs
  <2>5. k(s) = IF i <= Avail THEN Size - 1 - Avail + i ELSE i - 1 - Avail
    <3> HIDE DEF s, k, n
    <3> QED
      BY <1>1, <1>3, <2>1, <2>3, <2>4, RoomForOne DEF Distance, Slots
  <2>6. buf'[s] = IF k(s) < n THEN data[k(s) + 1] ELSE buf[s]
    BY <2>1, <2>2
  <2> HIDE DEF s, k, n
  <2>7. CASE i <= Avail
    BY <1>1, <2>5, <2>6, <2>7, RoomForOne DEF s
  <2>8. CASE ~(i <= Avail)
    <3>1. k(s) < n /\ k(s) + 1 = i - Avail
      BY <1>1, <2>5, <2>8
    <3> QED
      BY <2>6, <2>8, <3>1 DEF s
  <2> QED
    BY <2>7, <2>8
<1>8. Contents' = new
  <2>1. \A i \in 1 .. Avail + n : Contents'[i] = new[i]
    <3> HIDE DEF new, n, k
    <3> TAKE i \in 1 .. Avail + n
    <3>1. CASE i <= Avail
      <4>1. i \in 1 .. Avail
        BY <1>1, <3>1
      <4> QED
        BY <1>5, <1>6, <1>7, <3>1, <4>1
    <3>2. CASE ~(i <= Avail)
      <4>1. i \in Avail + 1 .. Avail + n
        BY <1>1, <3>2
      <4> QED
        BY <1>5, <1>6, <1>7, <3>2, <4>1
    <3> QED
      BY <3>1, <3>2
  <2> HIDE DEF new, n
  <2> QED
    BY <1>5, <1>6, <2>1, SeqSame
<1>9. n = Fifo!Least(Len(data), (Size - 1) - Len(Contents))
  BY ContentsSeq DEF Fifo!Least, Least, Room
<1> QED
  BY <1>3, <1>8, <1>9 DEF Fifo!Put

\* A get returns the oldest bytes and leaves the others.
LEMMA GetRefines ==
  ASSUME TypeOK, NEW ask \in Nat, Get(ask)
  PROVE  Fifo!Get(ask)
<1> DEFINE n == Least(Avail, ask)
<1>1. n \in 0 .. Avail /\ Avail \in 0 .. Size - 1 /\ n \in Nat
  BY AvailIs, RoomForOne DEF Least
<1>2. TypeOK'
  BY GetType
<1>3. /\ head \in Slots /\ tail \in Slots /\ tail' = Step(tail, n)
      /\ head' = head /\ buf' = buf
      /\ out' = [i \in 1 .. n |-> buf[Step(tail, i - 1)]]
      /\ call' = [op |-> "get", data |-> <<>>, ask |-> ask]
  BY DEF TypeOK, Get
<1>4. /\ Contents \in Seq(Bytes) /\ Len(Contents) = Avail
      /\ \A i \in 1 .. Avail : Contents[i] = buf[Step(tail, i - 1)]
  BY ContentsSeq
<1>5. out' = Fifo!FirstOf(Contents, n)
  <2>1. /\ Fifo!FirstOf(Contents, n) \in Seq(Bytes)
        /\ Len(Fifo!FirstOf(Contents, n)) = n
        /\ \A i \in 1 .. n : Fifo!FirstOf(Contents, n)[i] = Contents[i]
    BY <1>1, <1>4, FirstOfSeq
  <2>2. out' \in Seq(Bytes)
    BY <1>2 DEF TypeOK
  <2>3. Len(out') = n
    BY <1>1, <1>3
  <2>4. \A i \in 1 .. n : out'[i] = Fifo!FirstOf(Contents, n)[i]
    BY <1>1, <1>3, <1>4, <2>1
  <2> HIDE DEF n
  <2> QED
    BY <2>1, <2>2, <2>3, <2>4, SeqSame
<1>6. Avail' = Avail - n
  <2>1. /\ Step(tail, n) = IF tail + n < Size THEN tail + n ELSE tail + n - Size
        /\ Step(tail, n) \in Slots
    BY <1>1, <1>3, StepSlot, RoomForOne
  <2>2. Avail = Distance(head, tail)
    BY AvailIs
  <2>3. Avail' = Distance(head, Step(tail, n))
    <3>1. Avail' = (head - Step(tail, n) + Size) % Size
      BY <1>3 DEF Avail
    <3> QED
      BY <1>3, <2>1, <3>1, DistanceMod
  <2> HIDE DEF n
  <2> QED
    BY <1>1, <1>3, <2>1, <2>2, <2>3, RoomForOne DEF Distance, Slots
<1>7. /\ Contents' \in Seq(Bytes) /\ Len(Contents') = Avail - n
      /\ \A i \in 1 .. Avail - n : Contents'[i] = buf[Step(tail', i - 1)]
  <2>1. Contents' = Between(buf', head', tail')
    BY DEF Contents, Avail, Between, Step
  <2>2. buf' \in [Slots -> Bytes] /\ head' \in Slots /\ tail' \in Slots
    BY <1>2 DEF TypeOK
  <2>3. Avail' = Distance(head', tail')
    <3>1. Avail' = (head' - tail' + Size) % Size
      BY DEF Avail
    <3> QED
      BY <2>2, <3>1, DistanceMod
  <2>4. Distance(head', tail') = Avail - n /\ buf' = buf
    BY <1>3, <1>6, <2>3
  <2> HIDE DEF n
  <2> QED
    BY <2>1, <2>2, <2>4, BetweenSeq
<1>8. Contents' = Fifo!Rest(Contents, n)
  <2>1. /\ Fifo!Rest(Contents, n) \in Seq(Bytes)
        /\ Len(Fifo!Rest(Contents, n)) = Avail - n
        /\ \A i \in 1 .. Avail - n :
             Fifo!Rest(Contents, n)[i] = Contents[n + i]
    BY <1>1, <1>4, RestSeq
  <2>2. \A i \in 1 .. Avail - n : Step(tail', i - 1) = Step(tail, n + i - 1)
    <3> TAKE i \in 1 .. Avail - n
    <3>1. /\ n \in 0 .. Size /\ i - 1 \in 0 .. Size /\ n + i - 1 \in 0 .. Size
      BY <1>1, RoomForOne
    <3>2. Step(tail, n) = IF tail + n < Size THEN tail + n ELSE tail + n - Size
      BY <1>3, <3>1, StepSlot
    <3>3. tail' \in Slots
      BY <1>2 DEF TypeOK
    <3>4. Step(tail', i - 1) = IF tail' + (i - 1) < Size THEN tail' + (i - 1)
                               ELSE tail' + (i - 1) - Size
      BY <3>1, <3>3, StepSlot
    <3>5. Step(tail, n + i - 1)
            = IF tail + (n + i - 1) < Size THEN tail + (n + i - 1)
              ELSE tail + (n + i - 1) - Size
      BY <1>3, <3>1, StepSlot
    <3> HIDE DEF n
    <3> QED
      BY <1>1, <1>3, <3>1, <3>2, <3>4, <3>5, RoomForOne DEF Slots
  <2>3. \A i \in 1 .. Avail - n : Contents'[i] = Contents[n + i]
    <3> TAKE i \in 1 .. Avail - n
    <3>1. n + i \in 1 .. Avail
      BY <1>1
    <3> HIDE DEF n
    <3> DEFINE m == n + i
    <3>2. m \in 1 .. Avail /\ n + i - 1 = m - 1
      BY <1>1, <3>1
    <3> HIDE DEF m
    <3>3. Contents[m] = buf[Step(tail, m - 1)]
      BY <1>4, <3>2
    <3>4. Contents[n + i] = buf[Step(tail, n + i - 1)]
      BY <3>2, <3>3 DEF m
    <3> QED
      BY <1>7, <2>2, <3>4
  <2> HIDE DEF n
  <2> QED
    BY <1>7, <2>1, <2>3, SeqSame
<1>9. n = Fifo!Least(Len(Contents), ask)
  BY <1>4 DEF Fifo!Least, Least
<1> QED
  BY <1>3, <1>5, <1>8, <1>9 DEF Fifo!Get

-----------------------------------------------------------------------------
\* The ring implements the bounded queue of Size - 1 bytes.
THEOREM RingImplementsFifo == Spec => RingIsFifo
<1>1. Init => Fifo!Init
  <2> SUFFICES ASSUME Init PROVE Fifo!Init
    OBVIOUS
  <2>1. Contents = Between(buf, head, head)
    BY DEF Init, Contents, Avail, Between
  <2>2. Contents = <<>>
    BY <2>1, InitType, EmptyBetween DEF TypeOK
  <2> QED
    BY <2>2 DEF Init, Fifo!Init
<1>2. TypeOK /\ [Next]_vars => [Fifo!Next]_(Fifo!vars)
  <2> SUFFICES ASSUME TypeOK, [Next]_vars PROVE [Fifo!Next]_(Fifo!vars)
    OBVIOUS
  <2>1. CASE \E data \in Messages : Put(data)
    BY <2>1, PutRefines, UsesTyped DEF Fifo!Next
  <2>2. CASE \E ask \in Asks : Get(ask)
    BY <2>2, GetRefines, UsesTyped DEF Fifo!Next
  <2>3. CASE Drain
    <3>1. /\ buf' \in [Slots -> Bytes] /\ head' \in Slots
          /\ tail' = head'
      BY <2>3, StepType DEF Drain, Next, TypeOK
    <3>2. Contents' = Between(buf', head', head')
      BY <3>1 DEF Contents, Avail, Between, Step
    <3>3. Contents' = <<>>
      BY <3>1, <3>2, EmptyBetween
    <3> QED
      BY <2>3, <3>3 DEF Drain, Fifo!Drain, Fifo!Next
  <2>4. CASE UNCHANGED vars
    BY <2>4 DEF vars, Fifo!vars, Contents, Avail, Step
  <2> QED
    BY <2>1, <2>2, <2>3, <2>4 DEF Next
<1> QED
  BY <1>1, <1>2, RingTyped, PTL DEF Spec, Fifo!Spec, RingIsFifo
==============================================================================
