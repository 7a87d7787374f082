--------------------------- MODULE RecorderRxProofs --------------------------
(***************************************************************************)
(* Theorems about RecorderRx, for every buffer size, window, break and     *)
(* recorder, and a thread that lags or does not.                           *)
(***************************************************************************)
EXTENDS RecorderRx, TLAPS

USE CapPositive, TimesNatural, LengthsPositive, PromptsFlags

-----------------------------------------------------------------------------
(* Types, and the room of last_cmd.                                        *)

\* TypeOK in three parts: numbers, what controls the wait, and what is heard.
Numbers ==
  /\ now \in Nat /\ deadline \in Nat /\ until \in Nat
  /\ breakStart \in Nat /\ breakEnd \in Nat /\ markingEnd \in Nat
  /\ doneAt \in Nat /\ requests \in Nat /\ cut \in Nat
Control ==
  /\ pc \in {"idle", "outer", "loop", "burst"} /\ mode \in Modes \cup {"read"}
  /\ prompt \in BOOLEAN /\ breakSeen \in BOOLEAN
  /\ pending \in BOOLEAN /\ measuring \in BOOLEAN
Records ==
  /\ rec \in [k : Nat, brk : BOOLEAN, n : Nat, sent : Nat, nuls : Nat]
  /\ handled \in [cmd : Seq(Bytes), brk : BOOLEAN, whole : BOOLEAN]
  /\ hearing \in [k : Nat, last : BOOLEAN]
Buffers ==
  rx \in Seq(Bytes) /\ lastCmd \in Seq(Bytes) /\ Len(lastCmd) <= Cap

\* The types, in the parts that the steps disturb.
LEMMA Parts == TypeOK <=> Numbers /\ Control /\ Records /\ Buffers
  BY DEF TypeOK, Numbers, Control, Records, Buffers

\* The receive path starts with no stamp and nothing gathered.
LEMMA InitTyped == Init => TypeOK
<1> SUFFICES ASSUME Init PROVE TypeOK
  OBVIOUS
<1>1. Numbers
  BY DEF Init, Numbers
<1>2. Control
  BY DEF Init, Control
<1>3. Records
  BY DEF Init, Records, None
<1>4. Buffers
  BY DEF Init, Buffers
<1> QED
  BY <1>1, <1>2, <1>3, <1>4, Parts

\* What the resync before a read leaves has room for one more byte.
LEMMA KeptFits ==
  ASSUME Buffers
  PROVE  Kept \in Seq(Bytes) /\ Len(Kept) < Cap
  BY DEF Buffers, Kept

\* The next byte of the port is one, and leaves bytes.
LEMMA NextByte ==
  ASSUME Buffers, rx # <<>>
  PROVE  /\ Head(rx) \in Bytes /\ Tail(rx) \in Seq(Bytes)
         /\ Heard(Head(rx)) \in [k : Nat, last : BOOLEAN]
<1>1. Head(rx) \in Bytes /\ Tail(rx) \in Seq(Bytes)
  BY DEF Buffers
<1> QED
  BY <1>1 DEF Heard, Bytes

\* What the recorder sends is a byte.
LEMMA ByteTyped ==
  ASSUME Numbers, Control, Records, NEW s \in {"nul", "char", "end"}, NEW i \in Nat
  PROVE  Byte(s, i) \in Bytes
  BY DEF Numbers, Control, Records, Byte, Bytes

\* Times and counts stay natural numbers.
LEMMA NumbersStep == Numbers /\ Records /\ [Next]_vars => Numbers'
<1> SUFFICES ASSUME Numbers, Records, [Next]_vars PROVE Numbers'
  OBVIOUS
<1> USE DEF Numbers, Records, sim, meas
<1>1. CASE Wait
  <2>1. until' \in Nat
    <3>1. PICK w \in Waits : until' = now + w
      BY <1>1 DEF Wait
    <3> QED
      BY <3>1
  <2>2. /\ now' = now /\ deadline' = deadline /\ cut' \in Nat
        /\ requests' = requests
    BY <1>1 DEF Wait, RxReset
  <2>3. breakStart' \in Nat /\ breakEnd' \in Nat /\ markingEnd' \in Nat
    BY <1>1 DEF Wait
  <2>4. doneAt' \in Nat
    BY <1>1 DEF Wait
  <2> QED
    BY <2>1, <2>2, <2>3, <2>4
<1>2. CASE OpenWindow
  <2>1. deadline' \in Nat
    <3>1. deadline' \in {until, now + ReadWait, now + Window}
      BY <1>2 DEF OpenWindow, WindowEnd
    <3> QED
      BY <3>1
  <2>2. doneAt' \in Nat /\ requests' \in Nat
    BY <1>2 DEF OpenWindow, Poll
  <2> QED
    BY <1>2, <2>1, <2>2 DEF OpenWindow
<1>3. CASE Return
  <2>1. cut' \in Nat
    BY <1>3 DEF Return, BreakReturns, PollAgain, Respond, RxReset
  <2>2. doneAt' \in Nat /\ requests' \in Nat
    <3>1. Handle => doneAt' \in Nat /\ requests' \in Nat
      BY DEF Handle
    <3> QED
      BY <1>3, <3>1 DEF Return, BreakReturns, PollAgain, Respond
  <2> QED
    BY <1>3, <2>1, <2>2 DEF Return
<1>4. CASE ReadNul \/ ReadChar
  BY <1>4 DEF ReadNul, ReadChar, CutNow
<1>5. CASE BurstEnd
  BY <1>5 DEF BurstEnd
<1>6. CASE GiveUp \/ BurstNul
  BY <1>6 DEF GiveUp, BurstNul
<1>7. CASE Begin \/ SendNul \/ SendChar
  BY <1>7 DEF Begin, SendNul, SendChar
<1>8. CASE Tick
  BY <1>8 DEF Tick
<1>9. CASE UNCHANGED vars
  BY <1>9 DEF vars
<1> QED
  BY <1>1, <1>2, <1>3, <1>4, <1>5, <1>6, <1>7, <1>8, <1>9 DEF Next

\* The thread is always at a place the code has.
LEMMA ControlStep == Control /\ [Next]_vars => Control'
<1> SUFFICES ASSUME Control, [Next]_vars PROVE Control'
  OBVIOUS
<1> USE DEF Control, sim, meas
<1>1. CASE Wait
  BY <1>1 DEF Wait, RxReset
<1>2. CASE OpenWindow
  BY <1>2 DEF OpenWindow, Poll
<1>3. CASE Return
  BY <1>3 DEF Return, BreakReturns, PollAgain, Respond, RxReset, Handle
<1>4. CASE ReadNul \/ ReadChar \/ BurstEnd
  BY <1>4 DEF ReadNul, ReadChar, BurstEnd
<1>5. CASE GiveUp \/ BurstNul \/ Begin \/ SendNul \/ SendChar \/ Tick
  BY <1>5 DEF GiveUp, BurstNul, Begin, SendNul, SendChar, Tick
<1>6. CASE UNCHANGED vars
  BY <1>6 DEF vars
<1> QED
  BY <1>1, <1>2, <1>3, <1>4, <1>5, <1>6 DEF Next

\* The recorder and the stamps keep their types.
LEMMA RecordsStep == Records /\ Control /\ Buffers /\ [Next]_vars => Records'
<1> SUFFICES ASSUME Records, Control, Buffers, [Next]_vars PROVE Records'
  OBVIOUS
<1> USE DEF Records
<1>1. CASE Wait
  BY <1>1 DEF Wait, None
<1>2. CASE Return
  <2>1. CASE handled' = handled
    BY <1>2, <2>1 DEF Return
  <2>2. CASE Handle
    BY <1>2, <2>2 DEF Return, Handle, Control, Buffers
  <2> QED
    BY <1>2, <2>1, <2>2 DEF Return, BreakReturns, PollAgain, Respond
<1>3. CASE ReadNul \/ ReadChar \/ BurstNul \/ BurstEnd
  <2>1. CASE hearing' = hearing
    BY <1>3, <2>1 DEF ReadNul, ReadChar, BurstNul, BurstEnd
  <2>2. CASE rx # <<>> /\ hearing' = Heard(Head(rx))
    BY <1>3, <2>2, NextByte DEF ReadNul, ReadChar, BurstNul, BurstEnd
  <2> QED
    BY <1>3, <2>1, <2>2 DEF ReadNul, ReadChar, BurstNul, BurstEnd, Reading
<1>4. CASE Begin
  BY <1>4 DEF Begin
<1>5. CASE SendNul \/ SendChar
  <2>1. rec' \in [k : Nat, brk : BOOLEAN, n : Nat, sent : Nat, nuls : Nat]
    <3>1. CASE SendNul
      <4>1. rec' = [k |-> rec.k, brk |-> rec.brk, n |-> rec.n,
                    sent |-> rec.sent, nuls |-> rec.nuls - 1]
        BY <3>1 DEF SendNul
      <4>2. rec.nuls - 1 \in Nat
        BY <3>1 DEF SendNul
      <4> QED
        BY <4>1, <4>2
    <3>2. CASE SendChar
      <4>1. rec' = [k |-> rec.k, brk |-> rec.brk, n |-> rec.n,
                    sent |-> rec.sent + 1, nuls |-> rec.nuls]
        BY <3>2 DEF SendChar
      <4> QED
        BY <4>1
    <3> QED
      BY <1>5, <3>1, <3>2
  <2> QED
    BY <1>5, <2>1 DEF SendNul, SendChar
<1>6. CASE OpenWindow \/ GiveUp \/ Tick
  BY <1>6 DEF OpenWindow, GiveUp, Tick
<1>7. CASE UNCHANGED vars
  BY <1>7 DEF vars
<1> QED
  BY <1>1, <1>2, <1>3, <1>4, <1>5, <1>6, <1>7 DEF Next

\* The port's buffer and last_cmd keep theirs, and last_cmd its room.
LEMMA BuffersStep == TypeOK /\ [Next]_vars => Buffers'
<1> SUFFICES ASSUME Numbers, Control, Records, Buffers, [Next]_vars
             PROVE  Buffers'
  BY Parts
<1> USE DEF Buffers
<1>1. CASE Wait
  BY <1>1 DEF Wait, RxReset
<1>2. CASE Return
  <2>1. rx' = rx /\ (lastCmd' = lastCmd \/ lastCmd' = <<>>)
    BY <1>2 DEF Return, BreakReturns, PollAgain, Respond, RxReset
  <2>2. CASE lastCmd' = lastCmd
    BY <2>1, <2>2
  <2>3. CASE lastCmd' = <<>>
    BY <2>1, <2>3
  <2> QED
    BY <2>1, <2>2, <2>3
<1>3. CASE ReadNul
  BY <1>3, KeptFits, NextByte DEF ReadNul, Reading
<1>4. CASE ReadChar
  BY <1>4, KeptFits, NextByte DEF ReadChar, Reading
<1>5. CASE BurstNul
  BY <1>5, NextByte DEF BurstNul
<1>6. CASE BurstEnd
  <2>1. CASE rx' = rx /\ lastCmd' = <<>>
    BY <2>1
  <2>2. CASE rx # <<>> /\ rx' = Tail(rx) /\ lastCmd' = <<Head(rx)>>
    BY <2>2, NextByte
  <2> QED
    BY <1>6, <2>1, <2>2 DEF BurstEnd, Voided
<1>7. CASE SendNul
  <2>1. Byte("nul", 0) \in Bytes
    BY ByteTyped
  <2> QED
    BY <1>7, <2>1 DEF SendNul
<1>8. CASE SendChar
  <2>1. PICK s \in {"char", "end"} : rx' = Append(rx, Byte(s, rec.sent + 1))
    BY <1>8 DEF SendChar
  <2>2. Byte(s, rec.sent + 1) \in Bytes
    BY ByteTyped DEF Records
  <2> QED
    BY <1>8, <2>1, <2>2 DEF SendChar
<1>9. CASE OpenWindow \/ GiveUp \/ Begin \/ Tick
  BY <1>9 DEF OpenWindow, GiveUp, Begin, Tick
<1>10. CASE UNCHANGED vars
  BY <1>10 DEF vars
<1> QED
  BY <1>1, <1>2, <1>3, <1>4, <1>5, <1>6, <1>7, <1>8, <1>9, <1>10 DEF Next

\* All of them.
LEMMA TypeStep == TypeOK /\ [Next]_vars => TypeOK'
<1>1. TypeOK' <=> Numbers' /\ Control' /\ Records' /\ Buffers'
  BY DEF TypeOK, Numbers, Control, Records, Buffers
<1> QED
  BY <1>1, Parts, NumbersStep, ControlStep, RecordsStep, BuffersStep

\* Types; last_cmd is never written past its end, however long the commands
\* are and wherever they are cut (wait_for_command).
THEOREM TypeCorrect == Spec => []TypeOK
  BY InitTyped, TypeStep, PTL DEF Spec

-----------------------------------------------------------------------------
(* The stamps of breaks and marking.                                       *)

\* No stamp lies in the future.
PastStamps ==
  0 < now /\ breakStart <= now /\ breakEnd <= now /\ markingEnd <= now

\* After a burst its start and end are in order; the marking that followed it
\* is not yet over (0) or ended after it, and is over once last_cmd has a byte.
AfterBurst ==
  breakSeen /\ pc # "burst"
    => /\ breakStart <= breakEnd
       /\ markingEnd = 0 \/ breakEnd <= markingEnd
       /\ lastCmd # <<>> => markingEnd # 0

IInv == TypeOK /\ PastStamps /\ AfterBurst

\* No stamp is set at the start.
LEMMA InitIInv == Init => IInv
  BY InitTyped DEF Init, IInv, PastStamps, AfterBurst

\* A stamp is taken of the present, and time only moves on.
LEMMA PastStep == TypeOK /\ PastStamps /\ [Next]_vars => PastStamps'
<1> SUFFICES ASSUME TypeOK, PastStamps, [Next]_vars PROVE PastStamps'
  OBVIOUS
<1> USE DEF TypeOK, PastStamps, sim
<1>1. CASE Wait
  BY <1>1 DEF Wait
<1>2. CASE OpenWindow \/ GiveUp \/ Return \/ BurstNul \/ Begin \/ SendNul
             \/ SendChar
  BY <1>2 DEF OpenWindow, GiveUp, Return, BurstNul, Begin, SendNul, SendChar
<1>3. CASE ReadNul \/ ReadChar \/ BurstEnd
  <2>1. now' = now /\ breakStart' \in {breakStart, now}
        /\ breakEnd' \in {breakEnd, now} /\ markingEnd' \in {0, markingEnd, now}
    BY <1>3 DEF ReadNul, ReadChar, BurstEnd
  <2> QED
    BY <2>1
<1>4. CASE Tick
  BY <1>4 DEF Tick
<1>5. CASE UNCHANGED vars
  BY <1>5 DEF vars
<1> QED
  BY <1>1, <1>2, <1>3, <1>4, <1>5 DEF Next

\* A burst of NULs is stamped from its start to its end, the marking behind it.
LEMMA BurstStep == IInv /\ [Next]_vars => AfterBurst'
<1> SUFFICES ASSUME IInv, [Next]_vars PROVE AfterBurst'
  OBVIOUS
<1> USE DEF IInv, TypeOK, PastStamps, AfterBurst, sim
<1>1. CASE Wait
  BY <1>1 DEF Wait, RxReset
<1>2. CASE OpenWindow \/ GiveUp \/ Begin \/ SendNul \/ SendChar \/ Tick
  BY <1>2 DEF OpenWindow, GiveUp, Begin, SendNul, SendChar, Tick
<1>3. CASE Return
  <2>1. \/ breakSeen' = breakSeen /\ lastCmd' = lastCmd
        \/ breakSeen' = FALSE
    BY <1>3 DEF Return, BreakReturns, PollAgain, Respond, RxReset
  <2> QED
    BY <1>3, <2>1 DEF Return
<1>4. CASE ReadNul \/ BurstNul
  BY <1>4 DEF ReadNul, BurstNul
<1>5. CASE ReadChar
  <2>1. CASE FirstChar
    BY <1>5, <2>1 DEF ReadChar, FirstChar, Reading
  <2>2. CASE ~FirstChar
    <3>1. breakSeen => markingEnd # 0
      BY <2>2, <1>5 DEF FirstChar, Kept, ReadChar, Reading
    <3> QED
      BY <1>5, <2>2, <3>1 DEF ReadChar, Reading
  <2> QED
    BY <2>1, <2>2
<1>6. CASE BurstEnd
  <2>1. breakStart' <= breakEnd'
    BY <1>6 DEF BurstEnd
  <2>2. CASE markingEnd' = now
    BY <1>6, <2>1, <2>2 DEF BurstEnd
  <2>3. CASE markingEnd' = 0 /\ lastCmd' = <<>>
    BY <1>6, <2>1, <2>3 DEF BurstEnd
  <2> QED
    BY <1>6, <2>2, <2>3 DEF BurstEnd, Voided
<1>7. CASE UNCHANGED vars
  BY <1>7 DEF vars
<1> QED
  BY <1>1, <1>2, <1>3, <1>4, <1>5, <1>6, <1>7 DEF Next

\* The stamps of break, marking and command are ordered in every state.
THEOREM Inductive == Spec => []IInv
<1>1. IInv /\ [Next]_vars => IInv'
  BY TypeStep, PastStep, BurstStep DEF IInv
<1> QED
  BY <1>1, InitIInv, PTL DEF Spec

\* The stamps that test_rec_marking and wait_for_break subtract are those of
\* one break, in order (wait_for_command).
THEOREM MarkingSafe == Spec => []MarkingMeasured
<1>1. IInv => MarkingMeasured
  BY DEF IInv, TypeOK, AfterBurst, MarkingMeasured
<1> QED
  BY <1>1, Inductive, PTL

-----------------------------------------------------------------------------
(* Commands.  The bytes on the line are those of one command after the     *)
(* other, each begun with its break if it has one; a command that is left  *)
(* unfinished is followed by a break.                                      *)

Sound(b) ==
  /\ b.s = "nul" => b.i = 0 /\ b.brk
  /\ b.s = "end" => b.i = b.n

\* c may come directly behind b.
Follows(b, c) ==
  \/ /\ c.k = b.k /\ c.n = b.n /\ c.brk = b.brk
     /\ c.s = "nul" => b.s = "nul"
     /\ c.s # "nul" => c.i = b.i + 1
  \/ /\ c.k > b.k
     /\ c.brk <=> c.s = "nul"
     /\ c.s # "nul" => c.i = 1
     /\ b.s # "end" => c.brk

\* s may come behind b.
Chain(b, s) ==
  /\ Sound(b) /\ \A j \in 1 .. Len(s) : Sound(s[j])
  /\ s # <<>> => Follows(b, s[1])
  /\ \A i, j \in 1 .. Len(s) : j = i + 1 => Follows(s[i], s[j])

LastOf(b, s) == IF Len(s) = 0 THEN b ELSE s[Len(s)]

\* b is the last byte the recorder has sent.
Latest(b) ==
  \/ /\ b.k = rec.k /\ b.n = rec.n /\ b.brk = rec.brk /\ b.i = rec.sent
     /\ rec.nuls > 0 => b.s = "nul"
     /\ b.s = "end" <=> rec.sent = rec.n
  \/ /\ b.k < rec.k /\ rec.sent = 0 /\ rec.n > 0
     /\ rec.brk <=> rec.nuls > 0
     /\ b.s # "end" => rec.brk

Recorder ==
  /\ rec.sent <= rec.n
  /\ rec.nuls > 0 => rec.sent = 0 /\ rec.brk /\ rec.n > 0

\* The port's buffer holds what was sent since b was read.
OnLine(b) == Chain(b, rx) /\ Latest(LastOf(b, rx))

\* b is the last byte read; behind a NUL a break is known.
LastRead(b) ==
  /\ b.k = hearing.k /\ (hearing.last => b.s = "end") /\ cut <= b.k
  /\ pc = "burst" => b.s = "nul" /\ breakSeen
  /\ b.s = "nul" /\ cut # b.k => breakSeen

\* last_cmd is empty when b is a NUL, its command has lost its beginning or
\* was dropped with its break.
Emptied(b) ==
  pc # "burst" /\ lastCmd = <<>>
    => /\ cut # b.k => b.s = "nul"
       /\ b.s = "end" => ~breakSeen

\* Else it holds bytes of the command of b, the last of them b; those from
\* the first character on, with the break, unless its beginning is lost.
Gathered(b) ==
  pc # "burst" /\ lastCmd # <<>>
    => /\ lastCmd[Len(lastCmd)] = b /\ b.s # "nul"
       /\ \A j \in 1 .. Len(lastCmd) : lastCmd[j].k = b.k
       /\ cut # b.k
            => /\ b.i = Len(lastCmd) /\ breakSeen = b.brk
               /\ \A j \in 1 .. Len(lastCmd) :
                    /\ lastCmd[j].i = j /\ lastCmd[j].n = b.n
                    /\ lastCmd[j].brk = b.brk

Holds(b) == LastRead(b) /\ Emptied(b) /\ Gathered(b)

\* A wait that goes on has no command, one that ended has given it away.
Given ==
  /\ HandledWhole /\ BreakAttributed
  /\ pc = "idle" /\ Complete => handled.cmd = lastCmd
  /\ pc = "outer" /\ Looping => ~Complete

CommandInv == Recorder /\ Given /\ \E b \in Bytes : OnLine(b) /\ Holds(b)

\* The chain without its first byte, and with one more behind its last.
LEMMA ChainTail ==
  ASSUME NEW b \in Bytes, NEW s \in Seq(Bytes), s # <<>>, Chain(b, s)
  PROVE  /\ Follows(b, Head(s)) /\ Chain(Head(s), Tail(s))
         /\ LastOf(Head(s), Tail(s)) = LastOf(b, s)
<1>1. Head(s) = s[1] /\ Len(s) >= 1 /\ Tail(s) \in Seq(Bytes)
      /\ Len(Tail(s)) = Len(s) - 1
      /\ \A j \in 1 .. Len(Tail(s)) : Tail(s)[j] = s[j + 1] /\ j + 1 \in 1 .. Len(s)
  OBVIOUS
<1>2. Follows(b, Head(s)) /\ Sound(Head(s))
  BY <1>1 DEF Chain
<1>3. \A j \in 1 .. Len(Tail(s)) : Sound(Tail(s)[j])
  BY <1>1 DEF Chain
<1>4. Tail(s) # <<>> => Follows(Head(s), Tail(s)[1])
  <2> SUFFICES ASSUME Tail(s) # <<>> PROVE Follows(Head(s), Tail(s)[1])
    OBVIOUS
  <2>1. 1 \in 1 .. Len(s) /\ 2 \in 1 .. Len(s) /\ Tail(s)[1] = s[2] /\ 2 = 1 + 1
    BY <1>1
  <2>2. Follows(s[1], s[2])
    BY <2>1, Zenon DEF Chain
  <2> QED
    BY <1>1, <2>1, <2>2
<1>5. ASSUME NEW i \in 1 .. Len(Tail(s)), NEW j \in 1 .. Len(Tail(s)), j = i + 1
      PROVE  Follows(Tail(s)[i], Tail(s)[j])
  <2>1. i + 1 \in 1 .. Len(s) /\ j + 1 \in 1 .. Len(s) /\ j + 1 = (i + 1) + 1
    BY <1>1, <1>5
  <2>2. Follows(s[i + 1], s[j + 1])
    BY <2>1, Zenon DEF Chain
  <2> QED
    BY <1>1, <2>2, Zenon
<1>6. LastOf(Head(s), Tail(s)) = LastOf(b, s)
  <2>1. CASE Len(s) = 1
    BY <2>1, <1>1 DEF LastOf
  <2>2. CASE Len(s) # 1
    <3>1. Len(s) - 1 \in 1 .. Len(Tail(s)) /\ Len(Tail(s)) # 0
          /\ Len(s) # 0 /\ (Len(s) - 1) + 1 = Len(s)
      BY <2>2, <1>1
    <3>2. Tail(s)[Len(s) - 1] = s[Len(s)]
      BY <3>1, <1>1
    <3> QED
      BY <1>1, <3>1, <3>2 DEF LastOf
  <2> QED
    BY <2>1, <2>2
<1>7. Chain(Head(s), Tail(s))
  BY <1>2, <1>3, <1>4, <1>5, Zenon DEF Chain
<1> QED
  BY <1>2, <1>6, <1>7

\* A byte that may follow the last one prolongs the chain.
LEMMA ChainAppend ==
  ASSUME NEW b \in Bytes, NEW s \in Seq(Bytes), NEW c \in Bytes,
         Chain(b, s), Sound(c), Follows(LastOf(b, s), c)
  PROVE  Chain(b, Append(s, c)) /\ LastOf(b, Append(s, c)) = c
<1> DEFINE t == Append(s, c)
<1>1. t \in Seq(Bytes) /\ Len(t) = Len(s) + 1 /\ t[Len(t)] = c /\ t # <<>>
      /\ \A j \in 1 .. Len(s) : t[j] = s[j]
  OBVIOUS
<1>2. Sound(b) /\ \A j \in 1 .. Len(t) : Sound(t[j])
  BY <1>1 DEF Chain
<1>3. Follows(b, t[1])
  <2>1. CASE s = <<>>
    BY <2>1, <1>1 DEF LastOf
  <2>2. CASE s # <<>>
    BY <2>2, <1>1 DEF Chain
  <2> QED
    BY <2>1, <2>2
<1>4. ASSUME NEW i \in 1 .. Len(t), NEW j \in 1 .. Len(t), j = i + 1
      PROVE  Follows(t[i], t[j])
  <2>1. CASE j = Len(t)
    <3>1. i = Len(s) /\ s # <<>> /\ i \in 1 .. Len(s)
      BY <1>1, <1>4, <2>1
    <3>2. t[i] = LastOf(b, s) /\ t[j] = c
      BY <1>1, <2>1, <3>1 DEF LastOf
    <3> QED
      BY <3>2
  <2>2. CASE j # Len(t)
    <3>1. i \in 1 .. Len(s) /\ j \in 1 .. Len(s)
      BY <1>1, <1>4, <2>2
    <3>2. Follows(s[i], s[j])
      BY <3>1, <1>4, Zenon DEF Chain
    <3> QED
      BY <1>1, <3>1, <3>2, Zenon
  <2> QED
    BY <2>1, <2>2
<1>5. Chain(b, t)
  BY <1>2, <1>3, <1>4, Zenon DEF Chain
<1> HIDE DEF t
<1>6. LastOf(b, t) = c
  BY <1>1 DEF LastOf
<1> QED
  BY <1>5, <1>6 DEF t

\* The recorder's next byte comes behind what it has sent.
LEMMA RecorderSends ==
  ASSUME TypeOK, CommandInv, Begin \/ SendNul \/ SendChar
  PROVE  CommandInv'
<1> PICK b \in Bytes : OnLine(b) /\ Holds(b)
  BY DEF CommandInv
<1>1. PICK z \in Bytes : z = LastOf(b, rx)
  BY DEF LastOf, TypeOK
<1>2. Chain(b, rx) /\ Latest(z) /\ Recorder
  BY <1>1 DEF OnLine, CommandInv
<1>3. rec \in [k : Nat, brk : BOOLEAN, n : Nat, sent : Nat, nuls : Nat]
  BY DEF TypeOK
<1>4. Given'
  BY DEF CommandInv, Begin, SendNul, SendChar, Given, HandledWhole,
         BreakAttributed, Complete, Looping
<1>5. Holds(b)'
  <2>1. UNCHANGED <<pc, breakSeen, lastCmd, hearing, cut>>
    BY DEF Begin, SendNul, SendChar, sim
  <2> QED
    BY <2>1, Zenon DEF Holds, LastRead, Emptied, Gathered
<1>6. CASE Begin
  <2>1. PICK brk \in BOOLEAN, n \in Lengths, nuls \in Nuls :
          /\ rec.sent < rec.n => brk
          /\ rec' = [k |-> rec.k + 1, brk |-> brk, n |-> n, sent |-> 0,
                     nuls |-> IF brk THEN nuls ELSE 0]
    BY <1>6 DEF Begin
  <2>2. n \in Nat /\ n > 0 /\ nuls \in Nat /\ nuls > 0
    BY <2>1
  <2>3. Recorder'
    BY <1>3, <2>1, <2>2 DEF Recorder
  <2>4. z.s # "end" => brk
    BY <1>1, <1>2, <1>3, <2>1 DEF Latest, Recorder, Bytes
  <2>5. z.k < rec.k + 1
    BY <1>1, <1>2, <1>3 DEF Latest, Bytes
  <2>6. Latest(z)'
    BY <1>3, <2>1, <2>2, <2>4, <2>5 DEF Latest
  <2>7. rx' = rx
    BY <1>6 DEF Begin
  <2> QED
    BY <1>1, <1>2, <1>4, <1>5, <2>3, <2>6, <2>7 DEF CommandInv, OnLine
<1>7. ASSUME NEW c \in Bytes, rx' = Append(rx, c), Recorder',
             Sound(c), Follows(z, c), Latest(c)'
      PROVE  CommandInv'
  <2>1. rx \in Seq(Bytes)
    BY DEF TypeOK
  <2>2. Chain(b, rx') /\ LastOf(b, rx') = c
    BY <1>1, <1>2, <1>7, <2>1, ChainAppend
  <2> QED
    BY <1>4, <1>5, <1>7, <2>2 DEF CommandInv, OnLine
<1>8. CASE SendNul
  <2>1. PICK c \in Bytes : c = Byte("nul", 0)
    BY ByteTyped, Parts
  <2>2. rx' = Append(rx, c)
    BY <1>8, <2>1 DEF SendNul
  <2>3. /\ rec'.k = rec.k /\ rec'.brk = rec.brk /\ rec'.n = rec.n
        /\ rec'.sent = rec.sent /\ rec'.nuls = rec.nuls - 1 /\ rec.nuls > 0
    BY <1>3, <1>8 DEF SendNul
  <2>4. c.s = "nul" /\ c.k = rec.k /\ c.i = 0 /\ c.n = rec.n /\ c.brk = rec.brk
    BY <2>1 DEF Byte
  <2>5. rec.sent = 0 /\ rec.brk /\ rec.n > 0
    BY <1>2, <2>3 DEF Recorder
  <2>6. Recorder'
    BY <1>3, <2>3, <2>5 DEF Recorder
  <2>7. Sound(c)
    BY <2>4, <2>5 DEF Sound
  <2>8. Follows(z, c)
    BY <1>1, <1>2, <1>3, <2>3, <2>4, <2>5 DEF Latest, Follows, Bytes
  <2>9. Latest(c)'
    BY <1>3, <2>3, <2>4, <2>5 DEF Latest
  <2> QED
    BY <1>7, <2>2, <2>6, <2>7, <2>8, <2>9
<1>9. CASE SendChar
  <2> DEFINE s == IF rec.sent + 1 = rec.n THEN "end" ELSE "char"
  <2>1. PICK c \in Bytes : c = Byte(s, rec.sent + 1)
    <3>1. s \in {"nul", "char", "end"} /\ rec.sent + 1 \in Nat
      BY <1>3
    <3> QED
      BY <3>1, ByteTyped, Parts
  <2>2. rx' = Append(rx, c)
    BY <1>9, <2>1 DEF SendChar
  <2>3. /\ rec'.k = rec.k /\ rec'.brk = rec.brk /\ rec'.n = rec.n
        /\ rec'.sent = rec.sent + 1 /\ rec'.nuls = rec.nuls /\ rec.nuls = 0
        /\ rec.sent < rec.n
    BY <1>3, <1>9 DEF SendChar
  <2>4. /\ c.s = s /\ c.k = rec.k /\ c.i = rec.sent + 1 /\ c.n = rec.n
        /\ c.brk = rec.brk
    BY <2>1 DEF Byte
  <2>5. Recorder'
    BY <1>3, <2>3 DEF Recorder
  <2>6. Sound(c)
    BY <2>4 DEF Sound
  <2>7. Follows(z, c)
    BY <1>1, <1>2, <1>3, <2>3, <2>4 DEF Latest, Follows, Bytes
  <2>8. Latest(c)'
    BY <1>3, <2>3, <2>4 DEF Latest
  <2> QED
    BY <1>7, <2>2, <2>5, <2>6, <2>7, <2>8
<1> QED
  BY <1>6, <1>8, <1>9

\* The wait keeps what it has read, or drops it with the break: the line is
\* as it was.
LEMMA LineStays ==
  ASSUME CommandInv, Given', rx' = rx, rec' = rec, hearing' = hearing,
         pc # "burst", pc' # "burst",
         \/ UNCHANGED <<breakSeen, lastCmd, cut>>
         \/ RxReset
  PROVE  CommandInv'
<1> PICK b \in Bytes : OnLine(b) /\ Holds(b)
  BY DEF CommandInv
<1>1. Recorder'
  BY DEF CommandInv, Recorder
<1>2. OnLine(b)'
  <2>1. Chain(b, rx) /\ Latest(LastOf(b, rx))
    BY DEF OnLine
  <2> QED
    BY <2>1, Zenon DEF OnLine, Latest
<1>3. CASE UNCHANGED <<breakSeen, lastCmd, cut>>
  <2>1. Holds(b)'
    BY <1>3 DEF Holds, LastRead, Emptied, Gathered
  <2> QED
    BY <1>1, <1>2, <2>1 DEF CommandInv
<1>4. CASE RxReset
  <2>1. hearing.k = b.k
    BY DEF Holds, LastRead
  <2>2. b.k \in Nat
    BY DEF Bytes
  <2>3. lastCmd' = <<>> /\ ~breakSeen' /\ cut' = b.k
    BY <1>4, <2>1 DEF RxReset
  <2>4. LastRead(b)'
    BY <2>2, <2>3 DEF Holds, LastRead
  <2>5. Emptied(b)' /\ Gathered(b)'
    BY <2>3 DEF Emptied, Gathered
  <2> QED
    BY <1>1, <1>2, <2>4, <2>5 DEF CommandInv, Holds
<1> QED
  BY <1>3, <1>4

\* A command in last_cmd that is not cut is one, and the break is its own.
LEMMA WholeCommand ==
  ASSUME TypeOK, CommandInv, pc # "burst", Complete
  PROVE  /\ hearing.k = lastCmd[1].k
         /\ lastCmd[1].k # cut
              => OneCommand(lastCmd) /\ breakSeen = lastCmd[1].brk
<1> PICK b \in Bytes : OnLine(b) /\ Holds(b)
  BY DEF CommandInv
<1>1. lastCmd # <<>> /\ Len(lastCmd) \in 1 .. Len(lastCmd)
      /\ 1 \in 1 .. Len(lastCmd) /\ DOMAIN lastCmd = 1 .. Len(lastCmd)
  BY DEF Complete, TypeOK
<1>2. lastCmd[Len(lastCmd)] = b /\ lastCmd[1].k = b.k /\ hearing.k = b.k
  BY <1>1 DEF Holds, Gathered, LastRead
<1>3. b.s = "end" /\ b.i = b.n
  BY <1>2 DEF Complete, OnLine, Chain, Sound
<1>4. ASSUME cut # b.k
      PROVE  OneCommand(lastCmd) /\ breakSeen = lastCmd[1].brk
  <2>1. /\ b.i = Len(lastCmd) /\ breakSeen = b.brk
        /\ \A j \in 1 .. Len(lastCmd) :
             /\ lastCmd[j].k = b.k /\ lastCmd[j].i = j /\ lastCmd[j].n = b.n
             /\ lastCmd[j].brk = b.brk
    BY <1>1, <1>4, Zenon DEF Holds, Gathered
  <2>2. lastCmd[1].n = b.n /\ lastCmd[1].brk = b.brk /\ lastCmd[1].k = b.k
    BY <1>1, <2>1, Zenon
  <2> QED
    BY <1>1, <1>3, <2>1, <2>2, Zenon DEF OneCommand
<1> QED
  BY <1>2, <1>4

\* The functions around a wait touch neither what was sent nor what is held.
LEMMA WrapperSteps ==
  ASSUME TypeOK, CommandInv, Wait \/ OpenWindow \/ GiveUp \/ Return \/ Tick
  PROVE  CommandInv'
<1>1. Given
  BY DEF CommandInv
<1>2. CASE Wait
  <2>1. lastCmd' = <<>> /\ handled' = None /\ pc' = "outer"
    BY <1>2 DEF Wait, RxReset
  <2>2. Given'
    BY <2>1 DEF Given, HandledWhole, BreakAttributed, Complete, None
  <2> QED
    BY <1>2, <2>2, LineStays DEF Wait
<1>3. CASE OpenWindow
  <2>1. Given'
    BY <1>1, <1>3 DEF OpenWindow, Given, HandledWhole, BreakAttributed
  <2> QED
    BY <1>3, <2>1, LineStays DEF OpenWindow, sim
<1>4. CASE GiveUp
  <2>1. Given'
    BY <1>1, <1>4 DEF GiveUp, Given, HandledWhole, BreakAttributed, Complete
  <2> QED
    BY <1>4, <2>1, LineStays DEF GiveUp, sim
<1>5. CASE Tick
  <2>1. UNCHANGED <<pc, mode, breakSeen, lastCmd, rx, rec, handled, hearing, cut>>
    BY <1>5 DEF Tick, sim
  <2>2. Given'
    BY <1>1, <2>1 DEF Given, HandledWhole, BreakAttributed, Complete, Looping
  <2>3. CASE pc # "burst"
    BY <2>1, <2>2, <2>3, LineStays
  <2>4. CASE pc = "burst"
    <3>1. Recorder' /\ \A b \in Bytes : OnLine(b) /\ Holds(b) => (OnLine(b) /\ Holds(b))'
      BY <2>1 DEF CommandInv, Recorder, OnLine, Latest, Holds, LastRead, Emptied,
                  Gathered
    <3> QED
      BY <2>2, <3>1 DEF CommandInv
  <2> QED
    BY <2>3, <2>4
<1>6. CASE Return
  <2>1. /\ pc = "loop" /\ rx' = rx /\ rec' = rec /\ hearing' = hearing
        /\ BreakReturns \/ (PollAgain /\ ~Complete) \/ Respond
    BY <1>6 DEF Return
  <2>2. CASE BreakReturns
    <3>1. Given'
      BY <1>1, <2>2 DEF BreakReturns, RxReset, Given, HandledWhole, BreakAttributed,
                        Complete, Looping
    <3> QED
      BY <2>1, <2>2, <3>1, LineStays DEF BreakReturns
  <2>3. CASE PollAgain /\ ~Complete
    <3>1. Given'
      BY <1>1, <2>3 DEF PollAgain, Given, HandledWhole, BreakAttributed, Complete
    <3> QED
      BY <2>1, <2>3, <3>1, LineStays DEF PollAgain
  <2>4. CASE Respond
    <3>1. pc' = "idle" /\ UNCHANGED <<mode, breakSeen, lastCmd, cut>>
      BY <2>4 DEF Respond
    <3>2. CASE Complete
      <4>1. handled' = [cmd |-> lastCmd, brk |-> breakSeen,
                        whole |-> lastCmd[1].k # cut]
        BY <2>4, <3>2 DEF Respond, Handle
      <4>2. lastCmd[1].k # cut => OneCommand(lastCmd) /\ breakSeen = lastCmd[1].brk
        BY <2>1, <3>2, WholeCommand
      <4>3. handled'.cmd = lastCmd /\ handled'.brk = breakSeen
            /\ (handled'.whole => lastCmd[1].k # cut)
        BY <4>1
      <4>4. HandledWhole' /\ BreakAttributed'
        BY <4>2, <4>3 DEF HandledWhole, BreakAttributed
      <4> QED
        BY <2>1, <3>1, <4>3, <4>4, LineStays DEF Given
    <3>3. CASE ~Complete
      <4>1. handled' = handled
        BY <2>4, <3>3 DEF Respond
      <4>2. Given'
        BY <1>1, <3>1, <3>3, <4>1 DEF Given, HandledWhole, BreakAttributed, Complete
      <4> QED
        BY <2>1, <3>1, <4>2, LineStays
    <3> QED
      BY <3>2, <3>3
  <2> QED
    BY <2>1, <2>2, <2>3, <2>4
<1> QED
  BY <1>2, <1>3, <1>4, <1>5, <1>6

\* The byte that is read comes behind the one read last.
LEMMA OneByteRead ==
  ASSUME TypeOK, CommandInv, rx # <<>>, rx' = Tail(rx), rec' = rec
  PROVE  \E b, c \in Bytes :
           /\ Holds(b) /\ c = Head(rx) /\ Sound(b) /\ Sound(c)
           /\ Follows(b, c) /\ OnLine(c)'
<1>1. PICK b \in Bytes : OnLine(b) /\ Holds(b)
  BY DEF CommandInv
<1>2. PICK c \in Bytes : c = Head(rx)
  BY DEF TypeOK
<1>3. rx \in Seq(Bytes)
  BY DEF TypeOK
<1>4. Follows(b, c) /\ Chain(c, Tail(rx)) /\ LastOf(c, Tail(rx)) = LastOf(b, rx)
  BY <1>1, <1>2, <1>3, ChainTail DEF OnLine
<1>5. OnLine(c)'
  BY <1>1, <1>4 DEF OnLine, Latest
<1>6. Sound(b) /\ Sound(c)
  BY <1>1, <1>4 DEF OnLine, Chain
<1> QED
  BY <1>1, <1>2, <1>4, <1>5, <1>6

\* Reading within a wait leaves what was given to the sensor as it was.
LEMMA GivenKept ==
  ASSUME Given, handled' = handled, pc' \in {"loop", "burst"}
  PROVE  Given'
  BY DEF Given, HandledWhole, BreakAttributed

\* The NUL that begins a burst leaves what is held, unless the buffer is full.
LEMMA NulRead ==
  ASSUME TypeOK, CommandInv, ReadNul
  PROVE  CommandInv'
<1>1. PICK b \in Bytes, c \in Bytes :
        /\ Holds(b) /\ c = Head(rx) /\ Sound(b) /\ Sound(c)
        /\ Follows(b, c) /\ OnLine(c)'
  BY OneByteRead DEF ReadNul, Reading
<1>2. c.s = "nul" /\ pc' = "burst" /\ breakSeen' /\ hearing' = Heard(c)
  BY <1>1 DEF ReadNul
<1>3. cut' <= c.k
  <2>1. b.k <= c.k /\ cut <= b.k /\ hearing.k = b.k /\ b.k \in Nat /\ c.k \in Nat
    BY <1>1 DEF Follows, Holds, LastRead, Bytes
  <2>2. cut' \in {cut, hearing.k} /\ cut \in Nat
    BY DEF ReadNul, CutNow, TypeOK
  <2> QED
    BY <2>1, <2>2
<1>4. Holds(c)'
  BY <1>2, <1>3 DEF Holds, LastRead, Emptied, Gathered, Heard
<1>5. Recorder' /\ Given'
  BY GivenKept DEF CommandInv, ReadNul, Recorder
<1> QED
  BY <1>1, <1>4, <1>5 DEF CommandInv

\* A character is one of the command under way, or the first of another that
\* has no break.
LEMMA CharRead ==
  ASSUME TypeOK, CommandInv, ReadChar
  PROVE  CommandInv'
<1>1. PICK b \in Bytes, c \in Bytes :
        /\ Holds(b) /\ c = Head(rx) /\ Sound(b) /\ Sound(c)
        /\ Follows(b, c) /\ OnLine(c)'
  BY OneByteRead DEF ReadChar, Reading
<1>2. /\ c.s # "nul" /\ pc = "loop" /\ pc' = "loop" /\ hearing' = Heard(c)
      /\ lastCmd' = Append(Kept, c) /\ cut' = CutNow /\ breakSeen' = breakSeen
      /\ ~Complete
  BY <1>1 DEF ReadChar, Reading
<1>3. /\ b.k = hearing.k /\ cut <= b.k /\ cut \in Nat
      /\ b.k \in Nat /\ b.i \in Nat /\ b.n \in Nat /\ b.brk \in BOOLEAN
      /\ c.k \in Nat /\ c.i \in Nat /\ c.n \in Nat /\ c.brk \in BOOLEAN
  BY <1>1 DEF Holds, LastRead, Bytes, TypeOK
<1>4. lastCmd \in Seq(Bytes) /\ breakSeen \in BOOLEAN
  BY DEF TypeOK
<1>5. Recorder' /\ Given'
  BY GivenKept DEF CommandInv, ReadChar, Reading, Recorder
<1>6. CASE Kept = <<>>
  <2>1. /\ lastCmd' = <<c>> /\ Len(lastCmd') = 1 /\ lastCmd'[1] = c
        /\ lastCmd' # <<>>
    BY <1>2, <1>6
  <2>2. cut' <= c.k
    BY <1>1, <1>2, <1>3 DEF CutNow, Follows
  <2>3. cut' # c.k => c.i = 1 /\ breakSeen = c.brk
    <3>1. CASE lastCmd = <<>>
      <4>1. cut' = cut
        BY <1>2, <1>6, <3>1 DEF CutNow
      <4>2. (cut # b.k => b.s = "nul" /\ breakSeen) /\ (b.s = "end" => ~breakSeen)
        BY <1>1, <1>2, <3>1 DEF Holds, Emptied, LastRead
      <4>3. CASE c.k = b.k
        BY <1>1, <1>2, <1>3, <1>4, <4>1, <4>2, <4>3 DEF Follows, Sound
      <4>4. CASE c.k > b.k
        <5>1. ~c.brk /\ c.i = 1 /\ b.s = "end"
          BY <1>1, <1>2, <1>3, <4>4 DEF Follows
        <5> QED
          BY <1>2, <1>3, <1>4, <4>2, <5>1
      <4> QED
        BY <1>1, <1>3, <4>3, <4>4 DEF Follows
    <3>2. CASE lastCmd # <<>>
      <4>1. cut' = b.k
        BY <1>2, <1>3, <1>6, <3>2 DEF CutNow
      <4>2. b.s # "end"
        BY <1>1, <1>2, <3>2 DEF Complete, Holds, Gathered
      <4>3. c.k = b.k
        BY <1>1, <1>2, <1>3, <4>2 DEF Follows
      <4> QED
        BY <4>1, <4>3
    <3> QED
      BY <3>1, <3>2
  <2>4. LastRead(c)' /\ Emptied(c)'
    BY <1>2, <1>3, <2>1, <2>2 DEF LastRead, Emptied, Heard
  <2>5. Gathered(c)'
    BY <1>2, <2>1, <2>3 DEF Gathered
  <2> QED
    BY <1>1, <1>5, <2>4, <2>5 DEF CommandInv, Holds
<1>7. CASE Kept # <<>>
  <2>1. Kept = lastCmd /\ lastCmd # <<>> /\ cut' = cut
    BY <1>2, <1>7 DEF Kept, CutNow
  <2>2. b.s # "end" /\ lastCmd[Len(lastCmd)] = b
    BY <1>1, <1>2, <2>1 DEF Complete, Holds, Gathered
  <2>3. c.k = b.k /\ c.i = b.i + 1 /\ c.n = b.n /\ c.brk = b.brk
    BY <1>1, <1>2, <1>3, <2>2 DEF Follows
  <2>4. /\ Len(lastCmd') = Len(lastCmd) + 1 /\ lastCmd'[Len(lastCmd')] = c
        /\ lastCmd' # <<>> /\ \A j \in 1 .. Len(lastCmd) : lastCmd'[j] = lastCmd[j]
        /\ \A j \in 1 .. Len(lastCmd') : j \in 1 .. Len(lastCmd) \/ j = Len(lastCmd')
    BY <1>2, <1>4, <2>1
  <2>5. \A j \in 1 .. Len(lastCmd') : lastCmd'[j].k = c.k
    <3>1. \A j \in 1 .. Len(lastCmd) : lastCmd[j].k = b.k
      BY <1>1, <1>2, <2>1, Zenon DEF Holds, Gathered
    <3> QED
      BY <2>3, <2>4, <3>1, Zenon
  <2>6. ASSUME cut # c.k
        PROVE  /\ c.i = Len(lastCmd') /\ breakSeen = c.brk
               /\ \A j \in 1 .. Len(lastCmd') :
                    /\ lastCmd'[j].i = j /\ lastCmd'[j].n = c.n
                    /\ lastCmd'[j].brk = c.brk
    <3>1. /\ b.i = Len(lastCmd) /\ breakSeen = b.brk
          /\ \A j \in 1 .. Len(lastCmd) :
               /\ lastCmd[j].i = j /\ lastCmd[j].n = b.n /\ lastCmd[j].brk = b.brk
      BY <1>1, <1>2, <2>1, <2>3, <2>6, Zenon DEF Holds, Gathered
    <3>2. c.i = Len(lastCmd')
      BY <2>3, <2>4, <3>1
    <3> QED
      BY <2>3, <2>4, <3>1, <3>2, Zenon
  <2>7. LastRead(c)' /\ Emptied(c)'
    BY <1>2, <1>3, <2>1, <2>3, <2>4 DEF LastRead, Emptied, Heard
  <2>8. Gathered(c)'
    BY <1>2, <2>1, <2>4, <2>5, <2>6, Zenon DEF Gathered
  <2> QED
    BY <1>1, <1>5, <2>7, <2>8 DEF CommandInv, Holds
<1> QED
  BY <1>6, <1>7

\* What follows a NUL begins a command, and that command has a break.
LEMMA BehindNul ==
  ASSUME NEW b \in Bytes, NEW c \in Bytes, Follows(b, c), Sound(b), b.s = "nul"
  PROVE  b.k <= c.k /\ (c.s # "nul" => c.k = b.k /\ c.i = 1 /\ c.brk)
<1>1. b.k \in Nat /\ c.k \in Nat /\ b.brk \in BOOLEAN /\ c.brk \in BOOLEAN
  BY DEF Bytes
<1>2. b.i = 0 /\ b.brk
  BY DEF Sound
<1>3. CASE c.k = b.k /\ c.brk = b.brk /\ (c.s # "nul" => c.i = b.i + 1)
  BY <1>1, <1>2, <1>3
<1>4. CASE c.k > b.k /\ (c.brk <=> c.s = "nul") /\ (b.s # "end" => c.brk)
  BY <1>1, <1>4
<1> QED
  BY <1>1, <1>3, <1>4 DEF Follows

\* Within a burst the last byte read is a NUL; the character that ends it is
\* the first of the command the break belongs to.
LEMMA BurstRead ==
  ASSUME TypeOK, CommandInv, BurstNul \/ BurstEnd
  PROVE  CommandInv'
<1>1. Recorder' /\ Given'
  BY GivenKept DEF CommandInv, BurstNul, BurstEnd, Recorder
<1>2. CASE rx' = rx
  <2>1. BurstEnd /\ lastCmd' = <<>> /\ UNCHANGED <<rx, rec, hearing, cut, breakSeen>>
        /\ pc = "burst" /\ pc' = "loop"
    <3>1. rx # <<>> => Tail(rx) # rx
      <4>1. rx \in Seq(Bytes)
        BY DEF TypeOK
      <4>2. rx # <<>> => Len(Tail(rx)) # Len(rx)
        BY <4>1
      <4> QED
        BY <4>2
    <3> QED
      BY <1>2, <3>1 DEF BurstNul, BurstEnd, Voided
  <2>2. PICK b \in Bytes : OnLine(b) /\ Holds(b)
    BY DEF CommandInv
  <2>3. b.s = "nul"
    BY <2>1, <2>2 DEF Holds, LastRead
  <2>4. Holds(b)'
    BY <2>1, <2>2, <2>3 DEF Holds, LastRead, Emptied, Gathered
  <2>5. OnLine(b)'
    BY <2>1, <2>2, Zenon DEF OnLine, Latest
  <2> QED
    BY <1>1, <2>4, <2>5 DEF CommandInv
<1>3. CASE rx # <<>> /\ rx' = Tail(rx) /\ hearing' = Heard(Head(rx))
  <2>1. rec' = rec /\ pc = "burst" /\ UNCHANGED <<cut, breakSeen>>
    BY DEF BurstNul, BurstEnd, sim
  <2>2. PICK b \in Bytes, c \in Bytes :
          /\ Holds(b) /\ c = Head(rx) /\ Sound(b) /\ Sound(c)
          /\ Follows(b, c) /\ OnLine(c)'
    BY <1>3, <2>1, OneByteRead
  <2>3. /\ b.s = "nul" /\ b.i = 0 /\ b.brk /\ cut <= b.k
        /\ breakSeen
    BY <2>1, <2>2 DEF Holds, LastRead, Sound
  <2>4. /\ b.k \in Nat /\ c.k \in Nat /\ c.i \in Nat
        /\ b.brk \in BOOLEAN /\ c.brk \in BOOLEAN
        /\ cut \in Nat /\ breakSeen \in BOOLEAN
    BY DEF Bytes, TypeOK
  <2>5. b.k <= c.k /\ (c.s # "nul" => c.k = b.k /\ c.i = 1 /\ c.brk)
    BY <2>2, <2>3, BehindNul
  <2>6. hearing' = Heard(c) /\ cut' = cut /\ cut <= c.k /\ breakSeen'
    BY <1>3, <2>1, <2>2, <2>3, <2>4, <2>5
  <2>7. CASE BurstNul
    <3>1. c.s = "nul" /\ pc' = "burst" /\ breakSeen' = breakSeen
      BY <2>2, <2>7 DEF BurstNul, sim
    <3>2. Holds(c)'
      BY <2>1, <2>3, <2>4, <2>5, <2>6, <3>1 DEF Holds, LastRead, Emptied, Gathered, Heard
    <3> QED
      BY <1>1, <2>2, <3>2 DEF CommandInv
  <2>8. CASE BurstEnd
    <3>1. c.s # "nul" /\ pc' = "loop" /\ lastCmd' = <<c>>
      BY <1>2, <1>3, <2>2, <2>8 DEF BurstEnd, Voided
    <3>2. Len(lastCmd') = 1 /\ lastCmd'[1] = c /\ lastCmd' # <<>>
      BY <3>1
    <3>3. LastRead(c)' /\ Emptied(c)'
      BY <2>6, <3>1, <3>2 DEF LastRead, Emptied, Heard
    <3>4. breakSeen' = c.brk
      BY <2>1, <2>4, <2>5, <2>6, <3>1
    <3>5. Gathered(c)'
      BY <2>5, <3>1, <3>2, <3>4 DEF Gathered
    <3> QED
      BY <1>1, <2>2, <3>3, <3>5 DEF CommandInv, Holds
  <2> QED
    BY <1>3, <2>7, <2>8
<1> QED
  BY <1>2, <1>3 DEF BurstNul, BurstEnd

\* Nothing is sent and nothing held at the start.
LEMMA InitCommands == Init => CommandInv
<1> SUFFICES ASSUME Init PROVE CommandInv
  OBVIOUS
<1> DEFINE b == [s |-> "end", k |-> 0, i |-> 0, n |-> 0, brk |-> FALSE, at |-> 0]
<1>1. b \in Bytes
  BY DEF Bytes
<1>2. Recorder
  BY DEF Init, Recorder
<1>3. Given
  BY DEF Init, Given, HandledWhole, BreakAttributed, None, Complete
<1>4. OnLine(b)
  <2>1. Chain(b, rx) /\ LastOf(b, rx) = b
    BY DEF Init, Chain, LastOf, Sound
  <2>2. Latest(b)
    BY DEF Init, Latest
  <2> QED
    BY <2>1, <2>2 DEF OnLine
<1>5. Holds(b)
  BY DEF Init, Holds, LastRead, Emptied, Gathered
<1> QED
  BY <1>1, <1>2, <1>3, <1>4, <1>5, Zenon DEF CommandInv

\* Whatever is read, last_cmd holds a piece of one command of the recorder.
LEMMA CommandStep == TypeOK /\ CommandInv /\ [Next]_vars => CommandInv'
<1> SUFFICES ASSUME TypeOK, CommandInv, [Next]_vars PROVE CommandInv'
  OBVIOUS
<1>1. CASE UNCHANGED vars
  <2>1. UNCHANGED <<pc, mode, breakSeen, lastCmd, rx, rec, handled, hearing, cut>>
    BY <1>1 DEF vars, sim
  <2>2. \A b \in Bytes : OnLine(b) /\ Holds(b) => (OnLine(b) /\ Holds(b))'
    BY <2>1 DEF OnLine, Latest, Holds, LastRead, Emptied, Gathered
  <2>3. Recorder' /\ Given'
    BY <2>1 DEF CommandInv, Recorder, Given, HandledWhole, BreakAttributed, Complete,
                Looping
  <2> QED
    BY <2>2, <2>3 DEF CommandInv
<1> QED
  BY <1>1, RecorderSends, WrapperSteps, NulRead, CharRead, BurstRead DEF Next

\* So it is in every state.
THEOREM CommandsInductive == Spec => []CommandInv
<1> QED
  BY InitCommands, CommandStep, TypeCorrect, PTL DEF Spec

\* The sensor is given one whole command of the recorder, or one that is known
\* to have lost its beginning (wait_for_command and its callers).
THEOREM WholeCommands == Spec => []HandledWhole
<1>1. CommandInv => HandledWhole
  BY DEF CommandInv, Given
<1> QED
  BY <1>1, CommandsInductive, PTL

\* The break the sensor is told of is that command's own (break_seen,
\* sdi12_sensor_break).
THEOREM OwnBreak == Spec => []BreakAttributed
<1>1. CommandInv => BreakAttributed
  BY DEF CommandInv, Given
<1> QED
  BY <1>1, CommandsInductive, PTL

\* A command whose '!' was read is in last_cmd, and no wait ends without having
\* given it to the sensor.
THEOREM NoneLost == Spec => []NothingHeardIsLost
<1>1. TypeOK /\ CommandInv => NothingHeardIsLost
  <2> SUFFICES ASSUME TypeOK, CommandInv PROVE NothingHeardIsLost
    OBVIOUS
  <2>1. PICK b \in Bytes : OnLine(b) /\ Holds(b)
    BY DEF CommandInv
  <2>2. ASSUME hearing.last, cut # hearing.k
        PROVE  OneCommand(lastCmd)
    <3>1. b.s = "end" /\ cut # b.k /\ pc # "burst" /\ lastCmd # <<>>
          /\ lastCmd[Len(lastCmd)] = b
      BY <2>1, <2>2 DEF Holds, LastRead, Emptied, Gathered
    <3>2. Complete
      BY <3>1 DEF Complete
    <3> QED
      BY <2>2, <3>1, <3>2, WholeCommand
  <2> QED
    BY <2>2 DEF CommandInv, Given, NothingHeardIsLost
<1> QED
  BY <1>1, TypeCorrect, CommandsInductive, PTL

-----------------------------------------------------------------------------
(* What a prompt thread leaves unread.                                     *)

\* What has come is no older than the end of the wait.
Late == \A i \in DOMAIN rx : rx[i].at >= until

\* Before its end a wait has not run out; a prompt thread lets no time pass
\* with a byte unread, so what is unread at its end came then.  A wait that
\* was given up has run out.
PromptInv ==
  prompt =>
    /\ pc # "idle" => now < until \/ Late
    /\ pc \in {"loop", "burst"} /\ mode = "respond" => deadline = until
    /\ pc = "idle" /\ mode \in {"respond", "poll"} /\ handled.cmd = <<>>
         => now >= until /\ Late

\* Fewer bytes are no older, nor is one that comes now.
LEMMA LateTail ==
  ASSUME TypeOK, Late, rx # <<>>
  PROVE  \A i \in DOMAIN Tail(rx) : Tail(rx)[i].at >= until
<1>1. rx \in Seq(Bytes) /\ Len(rx) \in Nat
  BY DEF TypeOK
<1>2. DOMAIN Tail(rx) = 1 .. Len(rx) - 1 /\ \A i \in 1 .. Len(rx) - 1 : Tail(rx)[i] = rx[i + 1]
  BY <1>1
<1>3. \A i \in 1 .. Len(rx) - 1 : i + 1 \in DOMAIN rx
  BY <1>1
<1> QED
  BY <1>2, <1>3 DEF Late

\* A byte that comes after the deadline leaves the others as late.
LEMMA LateAppend ==
  ASSUME TypeOK, Late, NEW b \in Bytes, b.at >= until
  PROVE  \A i \in DOMAIN Append(rx, b) : Append(rx, b)[i].at >= until
<1>1. rx \in Seq(Bytes)
  BY DEF TypeOK
<1>2. \A i \in DOMAIN Append(rx, b) :
        (i \in DOMAIN rx /\ Append(rx, b)[i] = rx[i]) \/ Append(rx, b)[i] = b
  BY <1>1
<1> QED
  BY <1>2 DEF Late

\* A read: the wait goes on.
LEMMA PromptRead ==
  ASSUME TypeOK, PromptInv, rx # <<>>, rx' \in {rx, Tail(rx)},
         pc \in {"loop", "burst"}, pc' \in {"loop", "burst"},
         UNCHANGED <<prompt, now, mode, deadline, until>>
  PROVE  PromptInv'
<1>1. Late => Late'
  BY LateTail DEF Late
<1> QED
  BY <1>1 DEF PromptInv

\* A byte comes.
LEMMA PromptSend ==
  ASSUME TypeOK, PromptInv, NEW s \in {"nul", "char", "end"}, NEW i \in Nat,
         rx' = Append(rx, Byte(s, i)),
         UNCHANGED <<prompt, now, pc, mode, deadline, until, handled>>
  PROVE  PromptInv'
<1>1. Byte(s, i) \in Bytes
  BY ByteTyped, Parts
<1>2. prompt => Byte(s, i).at = now
  BY DEF Byte
<1>3. prompt /\ now >= until /\ Late => Late'
  BY <1>1, <1>2, LateAppend DEF Late
<1>4. now \in Nat /\ until \in Nat
  BY DEF TypeOK
<1> QED
  BY <1>3, <1>4 DEF PromptInv

\* A prompt thread looks at the clock when it has found nothing.
LEMMA PromptStep == TypeOK /\ PromptInv /\ [Next]_vars => PromptInv'
<1> SUFFICES ASSUME TypeOK, PromptInv, [Next]_vars PROVE PromptInv'
  OBVIOUS
<1>1. CASE Wait
  <2>1. now < until' /\ pc' = "outer" /\ now' = now
    <3>1. PICK w \in Waits : until' = now + w
      BY <1>1 DEF Wait
    <3> QED
      BY <1>1, <3>1, WaitsPositive DEF Wait, TypeOK
  <2> QED
    BY <2>1 DEF PromptInv
<1>2. CASE OpenWindow
  <2>1. /\ pc = "outer" /\ pc' = "loop" /\ UNCHANGED <<prompt, now, mode, until, rx>>
        /\ mode = "respond" => deadline' = until
    BY <1>2 DEF OpenWindow, WindowEnd
  <2> QED
    BY <2>1 DEF PromptInv, Late
<1>3. CASE GiveUp
  <2>1. /\ pc = "outer" /\ now >= until /\ UNCHANGED <<prompt, now, mode, until, rx>>
        /\ pc' = "idle" /\ now \in Nat /\ until \in Nat
    BY <1>3 DEF GiveUp, TypeOK
  <2> QED
    BY <2>1 DEF PromptInv, Late
<1>4. CASE Return
  <2>1. /\ pc = "loop" /\ UNCHANGED <<prompt, now, until, rx, deadline>>
        /\ Complete \/ now >= deadline
    BY <1>4 DEF Return, Over
  <2>2. CASE BreakReturns \/ PollAgain
    BY <2>1, <2>2 DEF BreakReturns, PollAgain, PromptInv, Late
  <2>3. CASE Respond /\ mode = "respond" /\ ~Complete
    <3>1. pc' = "idle" /\ (prompt => now >= until /\ Late)
      <4>1. prompt => deadline = until
        BY <2>1, <2>3 DEF PromptInv
      <4> QED
        BY <2>1, <2>3, <4>1 DEF PromptInv, TypeOK, Respond
    <3> QED
      BY <2>1, <3>1 DEF PromptInv, Late
  <2>4. CASE Respond /\ Complete
    <3>1. handled'.cmd = lastCmd /\ lastCmd # <<>> /\ pc' = "idle"
      BY <2>4 DEF Respond, Handle, Complete
    <3> QED
      BY <3>1 DEF PromptInv
  <2>5. CASE Respond /\ mode \notin {"respond", "poll"}
    <3>1. mode' = mode /\ pc' = "idle"
      BY <2>5 DEF Respond
    <3> QED
      BY <2>5, <3>1 DEF PromptInv
  <2> QED
    BY <1>4, <2>2, <2>3, <2>4, <2>5 DEF Return
<1>5. CASE ReadNul \/ ReadChar \/ BurstNul
  BY <1>5, PromptRead DEF ReadNul, ReadChar, BurstNul, Reading
<1>6. CASE BurstEnd
  <2>1. /\ pc = "burst" /\ pc' = "loop"
        /\ UNCHANGED <<prompt, now, mode, deadline, until>>
        /\ (rx' = rx \/ (rx # <<>> /\ rx' = Tail(rx)))
    BY <1>6 DEF BurstEnd
  <2>2. CASE rx' = rx
    BY <2>1, <2>2 DEF PromptInv, Late
  <2>3. CASE rx # <<>> /\ rx' = Tail(rx)
    BY <2>1, <2>3, PromptRead
  <2> QED
    BY <2>1, <2>2, <2>3
<1>7. CASE SendNul
  BY <1>7, PromptSend DEF SendNul
<1>8. CASE SendChar
  <2>1. PICK s \in {"char", "end"} : rx' = Append(rx, Byte(s, rec.sent + 1))
    BY <1>8 DEF SendChar
  <2>2. rec.sent + 1 \in Nat
    BY DEF TypeOK
  <2> QED
    BY <1>8, <2>1, <2>2, PromptSend DEF SendChar
<1>9. CASE Tick
  <2>1. /\ now' = now + 1 /\ UNCHANGED <<prompt, pc, mode, deadline, until, rx, handled>>
        /\ prompt => pc = "idle" \/ rx = <<>>
    BY <1>9 DEF Tick, Waiting
  <2>2. rx = <<>> => Late'
    BY <2>1 DEF Late
  <2>3. Late => Late'
    BY <2>1 DEF Late
  <2>4. now \in Nat /\ until \in Nat
    BY DEF TypeOK
  <2> QED
    BY <2>1, <2>2, <2>3, <2>4 DEF PromptInv
<1>10. CASE Begin \/ UNCHANGED vars
  <2>1. UNCHANGED <<prompt, now, pc, mode, deadline, until, rx, handled>>
    BY <1>10 DEF Begin, vars
  <2> QED
    BY <2>1 DEF PromptInv, Late
<1> QED
  BY <1>1, <1>2, <1>3, <1>4, <1>5, <1>6, <1>7, <1>8, <1>9, <1>10 DEF Next

\* A wait of a prompt thread that ends without a command has left nothing
\* unread that came before its time ran out (wait_and_respond and
\* wait_and_respond_poll), however short the windows it waits in.
THEOREM InTimeHeard == Spec => []InTimeByteHeard
<1>1. Init => TypeOK /\ PromptInv
  BY InitTyped DEF Init, PromptInv
<1>2. (TypeOK /\ PromptInv) /\ [Next]_vars => (TypeOK /\ PromptInv)'
  BY TypeStep, PromptStep
<1>3. PromptInv => InTimeByteHeard
  BY DEF PromptInv, InTimeByteHeard, Late
<1> QED
  BY <1>1, <1>2, <1>3, PTL DEF Spec
==============================================================================
