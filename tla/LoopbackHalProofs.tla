-------------------------- MODULE LoopbackHalProofs --------------------------
(***************************************************************************)
(* Theorems about LoopbackHal, for every ring, buffer, command and answer. *)
(***************************************************************************)
EXTENDS LoopbackHal, RingProofs, WellFoundedInduction

\* What is read answers a command that is not older than the last break: a
\* command is flushed after the break before it ended, and a break ends as such.
Calls ==
  /\ k \in 0 .. MaxCmds /\ drained \in 0 .. k
  /\ calling = "flush" => drained < k
  /\ calling = "unbreak" => breakActive
Pace  == paceReleased \in Nat /\ since \in Nat

HalTyped == TypeOK /\ Calls /\ Pace

-----------------------------------------------------------------------------
(* The HAL uses its ring as LoopbackRing says.                             *)

\* An answer of a length the sensor gives is one of the ring's messages.
LEMMA MessageKnown ==
  ASSUME k \in 1 .. MaxCmds, NEW n \in Lengths
  PROVE  Message(n) \in Messages
  BY MessagesKnown DEF Message

\* What the schedule lets out by now is a number of bytes.
LEMMA BudgetNat == Pace => Budget \in Nat
<1> SUFFICES ASSUME Pace PROVE Budget \in Nat
  OBVIOUS
<1>1. Started.released \in Nat /\ Started.since \in Nat
  BY DEF Started, Pace
<1> QED
  BY <1>1 DEF Budget, Allowed

\* A read takes from the ring no more than it was asked for.
LEMMA ReadGets ==
  ASSUME HalTyped, Read
  PROVE  UNCHANGED ring \/ \E ask \in Asks : Get(ask)
<1>1. PICK ask \in Asks : PacedRead(ask) \/ PlainRead(ask)
  BY DEF Read
<1>2. CASE PlainRead(ask)
  BY <1>2 DEF PlainRead
<1>3. CASE PacedRead(ask)
  <2> DEFINE n == Least(ask, Budget)
  <2>1. ask \in Nat /\ n \in Nat /\ n <= ask
    BY UsesTyped, BudgetNat DEF HalTyped, Least
  <2>2. n > 0 => n \in Asks
    BY <2>1, AsksClosed
  <2>3. IF n > 0 THEN Get(n) ELSE UNCHANGED ring
    BY <1>3 DEF PacedRead
  <2> QED
    BY <2>2, <2>3
<1> QED
  BY <1>1, <1>2, <1>3

\* Each call of the HAL is a step of the ring.
LEMMA RingStep == HalTyped /\ [HalNext]_halVars => [Next]_vars
<1> SUFFICES ASSUME HalTyped, [HalNext]_halVars PROVE [Next]_vars
  OBVIOUS
<1>1. CASE Flush
  <2>1. k \in 1 .. MaxCmds
    BY <1>1 DEF Flush, HalTyped, Calls
  <2>2. UNCHANGED ring \/ \E n \in Lengths : Put(Message(n))
    BY <1>1 DEF Flush
  <2> QED
    BY <2>1, <2>2, MessageKnown DEF Next, ring, vars
<1>2. CASE Read
  BY <1>2, ReadGets DEF Next, ring, vars
<1>3. CASE EndBreak
  BY <1>3 DEF EndBreak, Next, ring, vars
<1>4. CASE Write \/ StartBreak \/ SetFaults \/ Tick
  BY <1>4 DEF Write, StartBreak, SetFaults, Tick, ring, vars
<1>5. CASE UNCHANGED halVars
  BY <1>5 DEF halVars, ring, vars
<1> QED
  BY <1>1, <1>2, <1>3, <1>4, <1>5 DEF HalNext

\* A write is followed by its flush, and the start of a break by its end.
LEMMA CallsStep == Calls /\ [HalNext]_halVars => Calls'
<1> SUFFICES ASSUME Calls, [HalNext]_halVars PROVE Calls'
  OBVIOUS
<1> USE DEF Calls
<1>1. CASE Write
  BY <1>1, BoundsNatural DEF Write, Idle
<1>2. CASE Flush \/ Read \/ SetFaults \/ Tick
  BY <1>2 DEF Flush, Read, SetFaults, Tick, Idle
<1>3. CASE StartBreak \/ EndBreak
  BY <1>3 DEF StartBreak, EndBreak, BreakSet, Idle
<1>4. CASE UNCHANGED halVars
  BY <1>4 DEF halVars
<1> QED
  BY <1>1, <1>2, <1>3, <1>4 DEF HalNext

\* The schedule's count and clock stay natural numbers.
LEMMA PaceStep == HalTyped /\ [HalNext]_halVars => Pace'
<1> SUFFICES ASSUME HalTyped, [HalNext]_halVars PROVE Pace'
  OBVIOUS
<1> USE DEF HalTyped, Pace, pacing
<1>1. CASE Read
  <2>1. PICK ask \in Asks : PacedRead(ask) \/ PlainRead(ask)
    BY <1>1 DEF Read
  <2>2. CASE PlainRead(ask)
    BY <2>2 DEF PlainRead
  <2>3. CASE PacedRead(ask)
    <3> DEFINE got == Least(Least(ask, Budget), Avail)
    <3>1. got \in Nat
      BY UsesTyped, BudgetNat, AvailIs, RoomForOne DEF Least
    <3>2. Started.released \in Nat /\ Started.since \in Nat
      BY DEF Started
    <3> HIDE DEF got
    <3>3. paceReleased' = Started.released + got /\ since' = Started.since
      BY <2>3 DEF PacedRead, got
    <3> QED
      BY <3>1, <3>2, <3>3
  <2> QED
    BY <2>1, <2>2, <2>3
<1>2. CASE Tick
  BY <1>2 DEF Tick
<1>3. CASE Write \/ Flush \/ StartBreak \/ EndBreak \/ SetFaults
  BY <1>3 DEF Write, Flush, StartBreak, EndBreak, SetFaults
<1>4. CASE UNCHANGED halVars
  BY <1>4 DEF halVars
<1> QED
  BY <1>1, <1>2, <1>3, <1>4 DEF HalNext

\* What the HAL keeps, the ring included, has its type.
LEMMA HalTypes == HalSpec => []HalTyped
<1>1. HalInit => HalTyped
  BY InitType, BoundsNatural DEF HalInit, HalTyped, Calls, Pace
<1>2. HalTyped /\ [HalNext]_halVars => HalTyped'
  BY RingStep, StepType, CallsStep, PaceStep DEF HalTyped
<1> QED
  BY <1>1, <1>2, PTL DEF HalSpec

\* Whatever the HAL does with its ring, the ring remains the bounded queue.
THEOREM HalKeepsFifo == HalSpec => RingIsFifo
<1>1. HalInit => Init
  BY DEF HalInit
<1>2. HalSpec => Spec
  BY <1>1, HalTypes, RingStep, PTL DEF HalSpec, Spec
<1> QED
  BY <1>2, RingImplementsFifo

-----------------------------------------------------------------------------
(* A break discards what is pending.                                       *)

FreshRing == \A i \in 1 .. Len(Contents) : Contents[i].cmd > drained

\* The end of a break leaves nothing on the ring.
LEMMA DrainEmpties == TypeOK /\ Drain => Contents' = <<>>
<1> SUFFICES ASSUME TypeOK, Drain PROVE Contents' = <<>>
  OBVIOUS
<1>1. buf' \in [Slots -> Bytes] /\ head' \in Slots /\ tail' = head'
  BY StepType DEF Drain, Next, TypeOK
<1>2. Contents' = Between(buf', head', head')
  BY <1>1 DEF Contents, Avail, Between, Step
<1> QED
  BY <1>1, <1>2, EmptyBetween

\* A ring left alone holds what it held.
LEMMA RingKept == UNCHANGED ring => Contents' = Contents
  BY DEF ring, Contents, Avail, Step

\* What a read returns was in the ring, and so is what it leaves there.
LEMMA GetFresh ==
  ASSUME TypeOK, NEW ask \in Nat, Get(ask), FreshRing
  PROVE  /\ \A i \in DOMAIN out' : out'[i].cmd > drained
         /\ \A i \in 1 .. Len(Contents') : Contents'[i].cmd > drained
<1> DEFINE n == Least(Len(Contents), ask)
<1>1. Contents \in Seq(Bytes) /\ Len(Contents) \in Nat
  BY ContentsSeq, LenProperties
<1>2. n \in 0 .. Len(Contents)
  BY <1>1 DEF Least
<1>3. out' = Fifo!FirstOf(Contents, n) /\ Contents' = Fifo!Rest(Contents, n)
  BY GetRefines DEF Fifo!Get, Fifo!Least, Least
<1> HIDE DEF n
<1>4. \A i \in DOMAIN out' : i \in 1 .. n /\ out'[i] = Contents[i]
  BY <1>1, <1>2, <1>3, FirstOfSeq, LenProperties
<1>5. Len(Contents') = Len(Contents) - n
      /\ \A i \in 1 .. Len(Contents) - n : Contents'[i] = Contents[n + i]
  BY <1>1, <1>2, <1>3, RestSeq
<1> QED
  BY <1>1, <1>2, <1>4, <1>5 DEF FreshRing

\* What an answer adds to the ring is of the command it answers.
LEMMA PutFresh ==
  ASSUME TypeOK, Calls, drained < k, k \in 1 .. MaxCmds, NEW n \in Lengths,
         Put(Message(n)), FreshRing
  PROVE  \A i \in 1 .. Len(Contents') : Contents'[i].cmd > drained
<1> DEFINE data == Message(n)
           m == Least(Len(data), Size - 1 - Len(Contents))
<1>1. data \in Seq(Bytes)
  BY MessageKnown, UsesTyped
<1>2. \A i \in 1 .. Len(data) : data[i].cmd = k
  <2>1. DOMAIN data = 1 .. Len(data)
    BY <1>1, LenProperties
  <2>2. DOMAIN data = 1 .. n /\ \A i \in 1 .. n : data[i].cmd = k
    BY DEF Message
  <2> QED
    BY <2>1, <2>2
<1>3. Contents \in Seq(Bytes) /\ Len(Contents) \in 0 .. Size - 1
  BY ContentsSeq, AvailIs
<1>4. m \in 0 .. Len(data)
  BY <1>1, <1>3, RoomForOne, LenProperties DEF Least
<1>5. Contents' = Contents \o Fifo!FirstOf(data, m)
  BY <1>1, PutRefines DEF Fifo!Put, Fifo!Least, Least
<1> HIDE DEF data, m
<1> DEFINE added == Fifo!FirstOf(data, m)
<1>6. /\ added \in Seq(Bytes) /\ Len(added) = m
      /\ \A i \in 1 .. m : added[i].cmd = k
  <2>1. /\ added \in Seq(Bytes) /\ Len(added) = m
        /\ \A i \in 1 .. m : added[i] = data[i]
    BY <1>1, <1>4, FirstOfSeq
  <2>2. 1 .. m \subseteq 1 .. Len(data)
    BY <1>1, <1>4, LenProperties
  <2> HIDE DEF added
  <2> QED
    BY <1>2, <2>1, <2>2
<1> HIDE DEF added
<1>7. /\ Len(Contents') = Len(Contents) + m
      /\ \A i \in 1 .. Len(Contents) + m :
           Contents'[i] = IF i <= Len(Contents) THEN Contents[i]
                          ELSE added[i - Len(Contents)]
  BY <1>3, <1>5, <1>6, ConcatProperties DEF added
<1> QED
  BY <1>3, <1>4, <1>6, <1>7 DEF FreshRing, Calls

\* No step puts, or leaves, an answer from before the last break on the ring.
LEMMA FreshStep == HalTyped /\ FreshRing /\ [HalNext]_halVars => FreshRing'
<1> SUFFICES ASSUME HalTyped, FreshRing, [HalNext]_halVars PROVE FreshRing'
  OBVIOUS
<1> USE DEF HalTyped
<1>1. CASE Flush
  <2>1. drained < k /\ k \in 1 .. MaxCmds /\ drained' = drained
    BY <1>1 DEF Flush, Calls
  <2>2. UNCHANGED ring \/ \E n \in Lengths : Put(Message(n))
    BY <1>1 DEF Flush
  <2> QED
    BY <2>1, <2>2, PutFresh, RingKept DEF FreshRing
<1>2. CASE Read
  <2>1. drained' = drained
    BY <1>2 DEF Read
  <2> QED
    BY <1>2, <2>1, ReadGets, GetFresh, RingKept, UsesTyped DEF FreshRing
<1>3. CASE EndBreak
  <2>1. Contents' = <<>>
    BY <1>3, DrainEmpties DEF EndBreak, Calls
  <2> QED
    BY <2>1 DEF FreshRing
<1>4. CASE Write \/ StartBreak \/ SetFaults \/ Tick
  <2>1. UNCHANGED ring /\ drained' = drained
    BY <1>4 DEF Write, StartBreak, SetFaults, Tick
  <2> QED
    BY <2>1, RingKept DEF FreshRing
<1>5. CASE UNCHANGED halVars
  <2>1. UNCHANGED ring /\ drained' = drained
    BY <1>5 DEF halVars
  <2> QED
    BY <2>1, RingKept DEF FreshRing
<1> QED
  BY <1>1, <1>2, <1>3, <1>4, <1>5 DEF HalNext

\* After a break nothing is read that answers a command from before it.
THEOREM BreakDiscards == HalSpec => FreshAfterBreak
<1>1. HalInit => FreshRing
  <2> SUFFICES ASSUME HalInit PROVE FreshRing
    OBVIOUS
  <2>1. Contents = Between(buf, head, head)
    BY DEF HalInit, Init, Contents, Avail, Between
  <2>2. Contents = <<>>
    BY <2>1, InitType, EmptyBetween DEF HalInit, TypeOK
  <2> QED
    BY <2>2 DEF FreshRing
<1>2. HalTyped /\ FreshRing /\ [HalNext]_halVars
        => [Read /\ out' # out
              => \A i \in DOMAIN out' : out'[i].cmd > drained]_halVars
  <2> SUFFICES ASSUME HalTyped, FreshRing, Read, out' # out
               PROVE  \A i \in DOMAIN out' : out'[i].cmd > drained
    OBVIOUS
  <2>1. ~ UNCHANGED ring
    BY DEF ring
  <2> QED
    BY <2>1, ReadGets, GetFresh, UsesTyped DEF HalTyped
<1> QED
  BY <1>1, <1>2, FreshStep, HalTypes, PTL DEF HalSpec, FreshAfterBreak

-----------------------------------------------------------------------------
(* The sensor is given the command that was sent.                          *)

\* A set of numbers has a least one.
LEMMA HasLeast ==
  ASSUME NEW S \in SUBSET Nat, S # {}
  PROVE  \E m \in S : \A n \in S : m <= n
<1> DEFINE R == {p \in Nat \X Nat : p[1] < p[2]}
<1>1. IsWellFoundedOn(R, Nat)
  BY NatLessThanWellFounded DEF OpToRel
<1>2. PICK m \in S : \A n \in S : <<n, m>> \notin R
  BY <1>1, WFMin
<1>3. ASSUME NEW n \in S PROVE m <= n
  <2>1. <<n, m>> \in Nat \X Nat /\ <<n, m>>[1] = n /\ <<n, m>>[2] = m
    OBVIOUS
  <2> QED
    BY <1>2, <2>1
<1> QED
  BY <1>3

CmdChars == [cmd : Nat, char : {"c", "!"}]

\* The buffer holds the command sent last, as far as it has room, until it is
\* flushed, and is empty otherwise.
CommandInv ==
  /\ k \in Nat /\ sent \in Seq(CmdChars)
  /\ cmdBuf = IF calling = "flush" THEN FirstOf(sent, CmdMax - 1) ELSE <<>>
  /\ HandledAsSent

\* Up to its first '!' a command is itself.
LEMMA CommandPrefix ==
  ASSUME NEW s \in Seq(CmdChars), Bangs(s) # {}
  PROVE  \E bang \in Bangs(s) :
           /\ Command(s) \in Seq(CmdChars) /\ Len(Command(s)) = bang - 1
           /\ \A i \in 1 .. bang - 1 : Command(s)[i] = s[i]
<1> DEFINE bang == CHOOSE i \in Bangs(s) : \A j \in Bangs(s) : i <= j
<1>1. Bangs(s) \subseteq 1 .. Len(s) /\ Len(s) \in Nat
  BY LenProperties DEF Bangs
<1>2. \E i \in Bangs(s) : \A j \in Bangs(s) : i <= j
  <2>1. Bangs(s) \in SUBSET Nat
    BY <1>1
  <2> QED
    BY <2>1, HasLeast
<1>3. bang \in Bangs(s)
  BY <1>2
<1>4. Command(s) = SubSeq(s, 1, bang - 1)
  BY DEF Command
<1> HIDE DEF bang
<1>5. bang \in 1 .. Len(s)
  BY <1>1, <1>3
<1>6. /\ Command(s) \in Seq(CmdChars) /\ Len(Command(s)) = bang - 1
      /\ \A i \in 1 .. bang - 1 : Command(s)[i] = s[i]
  BY <1>1, <1>4, <1>5, SubSeqProperties
<1> QED
  BY <1>3, <1>6

\* What fits of a command is its beginning, with its '!' where they were.
LEMMA Fits ==
  ASSUME NEW s \in Seq(CmdChars)
  PROVE  LET m == Least(Len(s), CmdMax - 1)
             f == FirstOf(s, CmdMax - 1)
         IN  /\ f \in Seq(CmdChars) /\ Len(f) = m /\ m <= Len(s)
             /\ \A i \in 1 .. m : f[i] = s[i]
             /\ Len(s) < CmdMax => Bangs(f) = Bangs(s)
<1> DEFINE m == Least(Len(s), CmdMax - 1)
           f == FirstOf(s, CmdMax - 1)
<1>1. Len(s) \in Nat /\ m \in 0 .. Len(s) /\ (Len(s) < CmdMax => m = Len(s))
  BY CmdRoom, LenProperties DEF Least
<1>2. f = SubSeq(s, 1, m)
  BY DEF FirstOf
<1> HIDE DEF m, f
<1>3. \A i \in 1 .. m : s[i] \in CmdChars
  BY <1>1, ElementOfSeq
<1>4. f \in Seq(CmdChars) /\ Len(f) = m /\ \A i \in 1 .. m : f[i] = s[i]
  BY <1>1, <1>2, <1>3, SubSeqProperties
<1>5. ASSUME Len(s) < CmdMax PROVE Bangs(f) = Bangs(s)
  <2>1. DOMAIN f = 1 .. m /\ DOMAIN s = 1 .. m
    BY <1>1, <1>4, <1>5, LenProperties
  <2> QED
    BY <1>4, <2>1 DEF Bangs
<1> QED
  BY <1>1, <1>4, <1>5 DEF m, f

\* A write puts a command, or the beginning of one, into the empty buffer.
LEMMA WriteCommand ==
  ASSUME CommandInv, Write
  PROVE  CommandInv'
<1>1. PICK c \in Commands :
        /\ sent' = Chars(c)
        /\ cmdBuf' = FirstOf(cmdBuf \o Chars(c), CmdMax - 1)
  BY DEF Write
<1>2. Chars(c) \in Seq(CmdChars)
  <2>1. c \in Seq({"c", "!"})
    BY CommandsTyped
  <2>2. Len(c) \in Nat /\ DOMAIN c = 1 .. Len(c)
        /\ \A i \in 1 .. Len(c) : c[i] \in {"c", "!"}
    BY <2>1, LenProperties, ElementOfSeq
  <2>3. Chars(c) = [i \in 1 .. Len(c) |-> [cmd |-> k + 1, char |-> c[i]]]
    BY <2>2 DEF Chars
  <2>4. \A i \in 1 .. Len(c) : [cmd |-> k + 1, char |-> c[i]] \in CmdChars
    BY <2>2 DEF CmdChars, CommandInv
  <2> QED
    BY <2>2, <2>3, <2>4, IsASeq
<1>3. cmdBuf = <<>> /\ calling' = "flush" /\ k' \in Nat
  BY DEF Write, Idle, CommandInv
<1>4. cmdBuf' = FirstOf(sent', CmdMax - 1)
  BY <1>1, <1>2, <1>3, ConcatEmptySeq
<1> QED
  BY <1>1, <1>2, <1>3, <1>4 DEF CommandInv, HandledAsSent, FirstOf, Least

\* A flush hands over the command and empties the buffer.
LEMMA FlushCommand ==
  ASSUME CommandInv, Flush
  PROVE  CommandInv'
<1> DEFINE m == Least(Len(sent), CmdMax - 1)
<1>1. /\ cmdBuf = FirstOf(sent, CmdMax - 1) /\ sent \in Seq(CmdChars)
      /\ sent' = sent /\ k' = k /\ cmdBuf' = <<>> /\ calling' = "any"
  BY DEF Flush, CommandInv, Emptied
<1>2. /\ cmdBuf \in Seq(CmdChars) /\ Len(cmdBuf) = m /\ m <= Len(sent)
      /\ \A i \in 1 .. m : cmdBuf[i] = sent[i]
      /\ Len(sent) < CmdMax => Bangs(cmdBuf) = Bangs(sent)
  BY <1>1, Fits
<1>3. Len(sent) \in Nat /\ DOMAIN sent = 1 .. Len(sent) /\ m \in Nat
  BY <1>1, CmdRoom, LenProperties DEF Least
<1> HIDE DEF m
<1>4. CASE Bangs(cmdBuf) = {}
  <2>1. handled' = <<>>
    BY <1>4 DEF Flush
  <2>2. ~ (Len(sent) < CmdMax /\ Bangs(sent) = {Len(sent)})
    BY <1>2, <1>4
  <2>3. HandledAsSent'
    BY <1>1, <2>1, <2>2 DEF HandledAsSent, Bangs
  <2> QED
    BY <1>1, <2>3 DEF CommandInv
<1>5. CASE Bangs(cmdBuf) # {}
  <2>1. handled' = Command(cmdBuf)
    BY <1>5 DEF Flush
  <2>2. PICK bang \in Bangs(cmdBuf) :
          /\ handled' \in Seq(CmdChars) /\ Len(handled') = bang - 1
          /\ \A i \in 1 .. bang - 1 : handled'[i] = cmdBuf[i]
    BY <1>2, <1>5, <2>1, CommandPrefix
  <2>3. bang \in 1 .. m /\ DOMAIN handled' = 1 .. bang - 1
    BY <1>2, <2>2, LenProperties DEF Bangs
  <2>4. \A i \in DOMAIN handled' : i \in DOMAIN sent /\ handled'[i] = sent[i]
    BY <1>2, <1>3, <2>2, <2>3
  <2>5. Len(sent) < CmdMax /\ Bangs(sent) = {Len(sent)}
          => Len(handled') = Len(sent) - 1
    BY <1>2, <2>2
  <2>6. HandledAsSent'
    BY <1>1, <2>4, <2>5 DEF HandledAsSent, Bangs
  <2> QED
    BY <1>1, <2>6 DEF CommandInv
<1> QED
  BY <1>4, <1>5

\* No other call touches the buffer.
LEMMA CommandStep == CommandInv /\ [HalNext]_halVars => CommandInv'
<1> SUFFICES ASSUME CommandInv, [HalNext]_halVars PROVE CommandInv'
  OBVIOUS
<1>1. CASE Read \/ StartBreak \/ EndBreak \/ SetFaults
  <2>1. /\ k' = k /\ sent' = sent /\ cmdBuf' = cmdBuf /\ handled' = handled
        /\ calling # "flush" /\ calling' # "flush"
    BY <1>1 DEF Read, StartBreak, EndBreak, SetFaults, Idle
  <2> QED
    BY <2>1 DEF CommandInv, HandledAsSent, Bangs
<1>2. CASE Tick \/ UNCHANGED halVars
  <2>1. /\ k' = k /\ sent' = sent /\ cmdBuf' = cmdBuf /\ handled' = handled
        /\ calling' = calling
    BY <1>2 DEF Tick, halVars
  <2> QED
    BY <2>1 DEF CommandInv, HandledAsSent, Bangs, FirstOf, Least
<1> QED
  BY <1>1, <1>2, WriteCommand, FlushCommand DEF HalNext

\* The sensor gets each command from its first character on, and the whole of
\* one that fits the buffer and ends at its only '!' (lb_write, lb_flush).
THEOREM CommandArrives == HalSpec => []HandledAsSent
<1>1. HalInit => CommandInv
  <2> SUFFICES ASSUME HalInit PROVE CommandInv
    OBVIOUS
  <2>1. sent = <<>> /\ handled = <<>> /\ cmdBuf = <<>> /\ k = 0 /\ calling = "any"
    BY DEF HalInit
  <2>2. Bangs(sent) = {} /\ DOMAIN handled = {}
    BY <2>1 DEF Bangs
  <2>3. HandledAsSent
    BY <2>2 DEF HandledAsSent
  <2> QED
    BY <2>1, <2>3, EmptySeq DEF CommandInv
<1>2. CommandInv => HandledAsSent
  BY DEF CommandInv
<1> QED
  BY <1>1, <1>2, CommandStep, PTL DEF HalSpec

-----------------------------------------------------------------------------
(* Answers at the pace of the line.                                        *)

ClockTyped ==
  clock \in [own : BOOLEAN, begun : BOOLEAN, age : Nat, given : Nat]

\* The schedule of an answer that has the line for itself is its own: none
\* before its first read, and as old and as far as the answer from then on.
OwnSchedule ==
  clock.own
    => /\ clock.given <= clock.age + 1
       /\ ~clock.begun => clock.given = 0 /\ clock.age = 0 /\ ~paceActive
       /\ clock.begun /\ paceActive
            => clock.given = paceReleased /\ clock.age = since
       /\ clock.begun /\ ~paceActive => Avail = 0

\* The clock only moves on.
LEMMA ClockStep == HalTyped /\ ClockTyped /\ [HalNext]_halVars => ClockTyped'
<1> SUFFICES ASSUME HalTyped, ClockTyped, [HalNext]_halVars PROVE ClockTyped'
  OBVIOUS
<1> USE DEF ClockTyped
<1>1. ASSUME NEW own \in BOOLEAN, clock' = Unread(own) PROVE ClockTyped'
  BY <1>1 DEF Unread
<1>2. CASE Flush
  <2>1. clock' = clock \/ clock' = Unread(Avail = 0 /\ ~paceActive)
    BY <1>2 DEF Flush
  <2>2. (Avail = 0 /\ ~paceActive) \in BOOLEAN
    OBVIOUS
  <2> QED
    BY <1>1, <2>1, <2>2
<1>3. CASE Read
  <2>1. PICK ask \in Asks : PacedRead(ask) \/ PlainRead(ask)
    BY <1>3 DEF Read
  <2>2. CASE PlainRead(ask)
    BY <1>1, <2>2 DEF PlainRead
  <2>3. CASE PacedRead(ask)
    <3> DEFINE got == Least(Least(ask, Budget), Avail)
    <3>1. got \in Nat
      BY UsesTyped, BudgetNat, AvailIs, RoomForOne DEF Least, HalTyped
    <3> HIDE DEF got
    <3>2. clock' = [clock EXCEPT !.begun = TRUE, !.given = @ + got]
      BY <2>3 DEF PacedRead, got
    <3>3. clock' = [own |-> clock.own, begun |-> TRUE, age |-> clock.age,
                    given |-> clock.given + got]
      BY <3>2
    <3>4. clock.own \in BOOLEAN /\ clock.age \in Nat /\ clock.given + got \in Nat
      BY <3>1
    <3> QED
      BY <3>3, <3>4
  <2> QED
    BY <2>1, <2>2, <2>3
<1>4. CASE SetFaults
  BY <1>1, <1>4 DEF SetFaults
<1>5. CASE Tick
  BY <1>5 DEF Tick
<1>6. CASE Write \/ StartBreak \/ EndBreak \/ UNCHANGED halVars
  BY <1>6 DEF Write, StartBreak, EndBreak, halVars
<1> QED
  BY <1>2, <1>3, <1>4, <1>5, <1>6 DEF HalNext

\* A read leaves what it does not take.
LEMMA GetLeaves ==
  ASSUME TypeOK, NEW ask \in Nat, Get(ask)
  PROVE  Avail' = Avail - Least(ask, Avail)
<1> DEFINE n == Least(Len(Contents), ask)
<1>1. Contents \in Seq(Bytes) /\ Len(Contents) = Avail /\ Avail \in Nat
  BY ContentsSeq, AvailIs, RoomForOne
<1>2. n \in 0 .. Len(Contents) /\ n = Least(ask, Avail)
  BY <1>1 DEF Least
<1>3. Contents' = Fifo!Rest(Contents, n)
  BY GetRefines DEF Fifo!Get, Fifo!Least, Least
<1> HIDE DEF n
<1>4. Len(Contents') = Avail - n
  BY <1>1, <1>2, <1>3, RestSeq
<1>5. Contents' = Between(buf', head', tail')
  BY DEF Contents, Avail, Between, Step
<1>6. buf' \in [Slots -> Bytes] /\ head' \in Slots /\ tail' \in Slots
  BY GetType DEF TypeOK
<1>7. Avail' = Distance(head', tail')
  BY <1>6, DistanceMod DEF Avail
<1> QED
  BY <1>2, <1>4, <1>5, <1>6, <1>7, BetweenSeq

\* A paced read hands out what the schedule lets out by now.
LEMMA PacedReadStep ==
  ASSUME HalTyped, ClockTyped, OwnSchedule, NEW ask \in Asks, Avail > 0,
         PacedRead(ask)
  PROVE  OwnSchedule'
<1> DEFINE n   == Least(ask, Budget)
           got == Least(n, Avail)
<1>1. /\ Avail \in Nat /\ n \in Nat /\ n <= Budget /\ Budget \in Nat
      /\ got \in Nat /\ got <= n /\ got <= Avail
  BY UsesTyped, BudgetNat, AvailIs, RoomForOne DEF Least, HalTyped
<1>2. Avail' = Avail - got
  <2>1. CASE n > 0
    BY <1>1, <2>1, GetLeaves DEF PacedRead, HalTyped
  <2>2. CASE n = 0
    BY <1>1, <2>2 DEF PacedRead, ring, Avail, Least
  <2> QED
    BY <1>1, <2>1, <2>2
<1>3. /\ clock' = [clock EXCEPT !.begun = TRUE, !.given = @ + got]
      /\ paceActive' = (Avail > got)
      /\ paceReleased' = Started.released + got /\ since' = Started.since
  BY DEF PacedRead
<1> HIDE DEF n, got
<1>4. /\ clock'.own = clock.own /\ clock'.begun = TRUE /\ clock'.age = clock.age
      /\ clock'.given = clock.given + got
      /\ clock.age \in Nat /\ clock.given \in Nat
  BY <1>3 DEF ClockTyped
<1>5. Started.released \in Nat /\ Started.since \in Nat
  BY DEF Started, HalTyped, Pace
<1>6. clock.own => Started.released = clock.given /\ Started.since = clock.age
  BY DEF OwnSchedule, Started, ClockTyped
<1>7. Budget = IF Started.since + 1 > Started.released
               THEN Started.since + 1 - Started.released ELSE 0
  BY <1>5 DEF Budget, Allowed
<1>8. clock.own => clock.given + got <= clock.age + 1
  BY <1>1, <1>4, <1>5, <1>6, <1>7 DEF OwnSchedule
<1>9. ~ paceActive' => Avail' = 0
  <2>1. ~ paceActive' => ~ (Avail > got)
    BY <1>3, Zenon
  <2> QED
    BY <1>1, <1>2, <2>1
<1> QED
  BY <1>3, <1>4, <1>5, <1>6, <1>8, <1>9 DEF OwnSchedule

\* An answer that has the line for itself keeps its own schedule.
LEMMA ScheduleStep ==
  HalTyped /\ ClockTyped /\ OwnSchedule /\ [HalNext]_halVars => OwnSchedule'
<1> SUFFICES ASSUME HalTyped, ClockTyped, OwnSchedule, [HalNext]_halVars
             PROVE  OwnSchedule'
  OBVIOUS
<1>1. ASSUME NEW own, clock' = Unread(own), paceActive' = paceActive,
             own => ~paceActive
      PROVE  OwnSchedule'
  BY <1>1 DEF OwnSchedule, Unread
<1>2. ASSUME clock' = clock, UNCHANGED pacing, Avail' = Avail \/ Avail' = 0
      PROVE  OwnSchedule'
  BY <1>2 DEF OwnSchedule, pacing
<1>3. UNCHANGED ring => Avail' = Avail
  BY DEF ring, Avail
<1>4. CASE Flush
  <2>1. UNCHANGED pacing
    BY <1>4 DEF Flush
  <2>2. UNCHANGED <<ring, clock>> \/ clock' = Unread(Avail = 0 /\ ~paceActive)
    BY <1>4 DEF Flush
  <2> QED
    BY <1>1, <1>2, <1>3, <2>1, <2>2 DEF pacing
<1>5. CASE Read
  <2>1. PICK ask \in Asks : IF faults = "paced" /\ Avail > 0 THEN PacedRead(ask)
                                                             ELSE PlainRead(ask)
    BY <1>5 DEF Read
  <2>2. CASE faults = "paced" /\ Avail > 0
    BY <2>1, <2>2, PacedReadStep
  <2>3. CASE faults = "paced" /\ ~(Avail > 0)
    <3>1. Avail = 0
      BY <2>3, AvailIs, RoomForOne DEF HalTyped
    <3>2. Avail' = 0
      BY <2>1, <2>3, <3>1, GetLeaves, UsesTyped DEF PlainRead, HalTyped, Least
    <3>3. clock' = clock /\ paceActive' = FALSE
      BY <2>1, <2>3 DEF PlainRead
    <3> QED
      BY <3>2, <3>3 DEF OwnSchedule
  <2>4. CASE faults # "paced"
    BY <1>1, <2>1, <2>4 DEF PlainRead
  <2> QED
    BY <2>2, <2>3, <2>4
<1>6. CASE EndBreak
  <2>1. Avail' = 0
    <3>1. head' = 0 /\ tail' = 0
      BY <1>6 DEF EndBreak, Drain, HalTyped, Calls
    <3> QED
      BY <3>1, DistanceMod, RoomForOne DEF Avail, Distance, Slots
  <2> QED
    BY <1>2, <1>6, <2>1 DEF EndBreak
<1>7. CASE SetFaults
  BY <1>1, <1>7 DEF SetFaults, pacing
<1>8. CASE Tick
  BY <1>3, <1>8 DEF Tick, OwnSchedule, ClockTyped, HalTyped, Pace
<1>9. CASE Write \/ StartBreak
  BY <1>2, <1>3, <1>9 DEF Write, StartBreak
<1>10. CASE UNCHANGED halVars
  BY <1>2, <1>3, <1>10 DEF halVars
<1> QED
  BY <1>4, <1>5, <1>6, <1>7, <1>8, <1>9, <1>10 DEF HalNext

\* Under LB_FAULT_PACED_UART an answer that has the line for itself comes no
\* faster than the line would carry it, however it is read (lb_read).
THEOREM PacedSafe == HalSpec => []PacedAsLine
<1>1. HalInit => ClockTyped /\ OwnSchedule
  BY DEF HalInit, ClockTyped, OwnSchedule, Unread
<1>2. OwnSchedule => PacedAsLine
  BY DEF OwnSchedule, PacedAsLine
<1> QED
  BY <1>1, <1>2, HalTypes, ClockStep, ScheduleStep, PTL DEF HalSpec
==============================================================================
