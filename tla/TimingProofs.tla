---------------------------- MODULE TimingProofs -----------------------------
(***************************************************************************)
(* Safety of the timing layer for every value of the constants: the stamps *)
(* are typed and bounded, ordered, and their differences do not wrap; and  *)
(* what it hears is what was sent.  For every thread that is never late,   *)
(* what it measures of a reply is what the port saw.                       *)
(***************************************************************************)
EXTENDS TimingLayer, FiniteSetTheorems, SequenceTheorems, TLAPS

\* No stamp lies in the future.
PastStamps ==
  /\ breakStart <= now /\ cmdStart <= now /\ cmdEnd <= now
  /\ respStart <= now
  /\ \A i \in 0 .. lineCount - 1 : lineEnd[i] <= now

\* The line being received has its start stamp, behind the line before it.
LineOpen ==
  Receiving /\ pos > 0 /\ lineCount < MaxLines =>
    /\ lineStart[lineCount] <= now
    /\ lineCount > 0 => lineEnd[lineCount - 1] <= lineStart[lineCount]

\* Once recv has been called, a start stamp is not older than the command.
RespAfterCmd ==
  /\ calls > 0 /\ respStart # 0 => respStart >= cmdEnd
  /\ pc \in {"sending", "waiting"} => calls = 0

\* No newline so far in the text call in progress.
NoNewlineYet ==
  calls > 0 /\ ~binary =>
    /\ pos <= Len(heard)
    /\ \A i \in Len(heard) - pos + 1 .. Len(heard) - 1 : heard[i].c # LF
    /\ Receiving /\ pos > 0 => heard[Len(heard)].c # LF

IInv ==
  /\ TypeOK
  /\ BufferNotOverrun
  /\ PastStamps
  /\ LinesOrdered
  /\ LineOpen
  /\ RespAfterCmd
  /\ NoNewlineYet

-----------------------------------------------------------------------------
\* What the sensor sends is typed: the layer can only receive bytes.
LEMMA StampedType ==
  ASSUME TypeOK, NEW reply \in Replies \cup {<<>>}
  PROVE  Stamped(reply) \in Seq(Bytes) /\ reply \in Seq(Chars)
<1>1. reply \in Seq(Chars)
  <2>1. <<>> \in Seq(Chars)
    BY EmptySeq
  <2> QED
    BY <2>1, RepliesAreText
<1>2. \A i \in 1 .. Len(reply) : reply[i] \in Chars
  BY <1>1
<1>3. \A i \in 1 .. Len(reply) :
        [c |-> reply[i], cmd |-> cmds, at |-> now, id |-> dev.sent + i]
          \in Bytes
  BY <1>1, <1>2 DEF TypeOK, Bytes, Devices
<1>4. Len(reply) \in Nat
  BY <1>1
<1>5. Stamped(reply) \in [1 .. Len(reply) -> Bytes]
  BY <1>3 DEF Stamped
<1>6. Stamped(reply) \in Seq(Bytes)
  BY <1>4, <1>5
<1> QED
  BY <1>1, <1>6

\* The layer starts with every stamp zero and nothing received.
LEMMA InitIInv == Init => IInv
<1> SUFFICES ASSUME Init PROVE IInv
  OBVIOUS
<1> USE SizesArePositive DEF Init
<1>1. TypeOK
  <2>1. /\ byteTimes \in Seq(Nat) /\ Len(byteTimes) = 0
        /\ got \in Seq(Bytes) /\ Len(got) = 0
        /\ rx \in Seq(Bytes) /\ heard \in Seq(Bytes)
    BY EmptySeq
  <2>2. dev \in Devices
    <3>1. <<>> \in Seq(Chars)
      BY EmptySeq
    <3>2. PICK b \in Inside :
            dev = [inside |-> b, out |-> <<>>, cmd |-> 0, at |-> 0,
                   line |-> "quiet", sent |-> 0]
      OBVIOUS
    <3>3. b \in BOOLEAN
      BY RepliesAreText
    <3> HIDE DEF Init
    <3> QED
      BY <3>1, <3>2, <3>3 DEF Devices
  <2>3. lineStart \in [LineSlots -> Nat] /\ lineEnd \in [LineSlots -> Nat]
    OBVIOUS
  <2>4. lineCount \in 0 .. MaxLines
    OBVIOUS
  <2>5. /\ now \in Nat /\ breakStart \in Nat /\ breakEnd \in Nat
        /\ cmdStart \in Nat /\ cmdEnd \in Nat
        /\ respStart \in Nat /\ respEnd \in Nat
        /\ deadline \in Nat /\ max \in Nat /\ pos \in Nat
        /\ cmds \in Nat /\ calls \in Nat
    OBVIOUS
  <2>6. pc = "idle" /\ binary \in BOOLEAN /\ fresh \in BOOLEAN
    OBVIOUS
  <2>7. 0 <= MaxBytes
    OBVIOUS
  <2> HIDE DEF Init
  <2> QED
    BY <2>1, <2>2, <2>3, <2>4, <2>5, <2>6, <2>7 DEF TypeOK
<1>2. BufferNotOverrun /\ PastStamps /\ LinesOrdered
  BY DEF BufferNotOverrun, PastStamps, LinesOrdered, Receiving
<1>3. LineOpen /\ RespAfterCmd /\ NoNewlineYet
  BY DEF LineOpen, RespAfterCmd, NoNewlineYet, Receiving
<1> QED
  BY <1>1, <1>2, <1>3 DEF IInv

\* The stamps have their types: byte_count and line_count stay within the
\* arrays they index.
LEMMA TypeStep == TypeOK /\ [Next]_vars => TypeOK'
<1> SUFFICES ASSUME TypeOK, [Next]_vars PROVE TypeOK'
  OBVIOUS
<1> USE TimesAreNaturals, SizesArePositive DEF Devices
<1>1. CASE BreakOn
  <2>1. dev' \in Devices
    <3>1. <<>> \in Seq(Chars)
      BY EmptySeq
    <3> QED
      BY <1>1, <3>1 DEF BreakOn, TypeOK
  <2> QED
    BY <1>1, <2>1 DEF BreakOn, TypeOK, resp, lines, locals, ghosts
<1>2. CASE BreakOff
  BY <1>2 DEF BreakOff, AfterBreak, TypeOK, resp, lines, locals, ghosts
<1>3. CASE Send
  BY <1>3 DEF Send, TypeOK, locals
<1>4. CASE Sent
  <2>p. PICK reply \in Replies \cup {<<>>} :
        IF dev.inside
        THEN /\ rx' = rx \o Stamped(reply)
             /\ dev' = [dev EXCEPT !.sent = @ + Len(reply)]
        ELSE /\ dev' = IF dev.out = <<>>
                       THEN [dev EXCEPT !.out = reply, !.cmd = cmds, !.at = now,
                                        !.line = "quiet"]
                       ELSE dev
             /\ UNCHANGED rx
    BY <1>4 DEF Sent
  <2>1. Stamped(reply) \in Seq(Bytes) /\ reply \in Seq(Chars)
    BY StampedType
  <2>2. (rx \in Seq(Bytes))'
    <3>1. rx \o Stamped(reply) \in Seq(Bytes)
      BY <2>1, ConcatProperties DEF TypeOK
    <3>2. rx' = rx \o Stamped(reply) \/ rx' = rx
      BY <2>p
    <3> QED
      BY <3>1, <3>2 DEF TypeOK
  <2>3. (dev \in Devices)'
    <3> DEFINE sent == dev.sent + Len(reply)
    <3>1. Len(reply) \in Nat /\ dev.sent \in Nat
      BY <2>1, LenProperties DEF TypeOK
    <3>2. CASE dev' = [dev EXCEPT !.sent = @ + Len(reply)]
      <4>1. dev' = [dev EXCEPT !.sent = sent]
        BY <3>2
      <4>2. sent \in Nat
        BY <3>1
      <4> HIDE DEF sent
      <4>3. dev \in Devices
        BY DEF TypeOK
      <4> QED
        BY <4>1, <4>2, <4>3
    <3>3. CASE dev' = [dev EXCEPT !.out = reply, !.cmd = cmds, !.at = now,
                                  !.line = "quiet"]
      BY <2>1, <3>3 DEF TypeOK
    <3>4. CASE dev' = dev
      BY <3>4 DEF TypeOK
    <3> QED
      BY <2>p, <3>2, <3>3, <3>4
  <2> QED
    BY <1>4, <2>2, <2>3 DEF Sent, TypeOK, resp, lines, locals, ghosts
<1>5. CASE Recv
  <2>1. (byteTimes \in Seq(Nat) /\ Len(byteTimes) <= MaxBytes)'
    BY <1>5, EmptySeq DEF Recv, ResetResp
  <2>2. (got \in Seq(Bytes) /\ Len(got) <= 1)'
    BY <1>5, EmptySeq DEF Recv, ResetResp
  <2>3. (deadline \in Nat /\ max \in Nat)'
    BY <1>5 DEF Recv, ResetResp, TypeOK
  <2> QED
    BY <1>5, <2>1, <2>2, <2>3 DEF Recv, ResetResp, TypeOK, stamps, lines
<1>6. CASE Read
  <2>1. (got \in Seq(Bytes) /\ Len(got) <= 1 /\ rx \in Seq(Bytes))'
    <3>1. CASE rx = <<>>
      BY <1>6, <3>1, EmptySeq DEF Read, TypeOK
    <3>2. CASE rx # <<>>
      <4>1. Head(rx) \in Bytes /\ Tail(rx) \in Seq(Bytes)
        BY <3>2, HeadTailProperties DEF TypeOK
      <4>2. rx' = Tail(rx) /\ got' = <<Head(rx)>>
        BY <1>6, <3>2 DEF Read
      <4> QED
        BY <4>1, <4>2
    <3> QED
      BY <3>1, <3>2
  <2> QED
    BY <1>6, <2>1 DEF Read, TypeOK, stamps, resp, lines, ghosts
<1>7. CASE Store
  <2>1. got[1] \in Bytes
    BY <1>7 DEF Store, StartsLine, Recorded, TypeOK
  <2>2. (byteTimes \in Seq(Nat) /\ Len(byteTimes) <= MaxBytes)'
    <3>1. CASE Len(byteTimes) < MaxBytes
      <4>1. byteTimes \in Seq(Nat) /\ now \in Nat
        BY DEF TypeOK
      <4>2. byteTimes' = Append(byteTimes, now)
        BY <1>7, <3>1 DEF Store, StartsLine, Recorded
      <4>3. byteTimes' \in Seq(Nat) /\ Len(byteTimes') = Len(byteTimes) + 1
        BY <4>1, <4>2, AppendProperties
      <4>4. Len(byteTimes) \in Nat
        BY <4>1, LenProperties
      <4> QED
        BY <3>1, <4>3, <4>4
    <3>2. CASE ~(Len(byteTimes) < MaxBytes)
      BY <1>7, <3>2 DEF Store, StartsLine, Recorded, TypeOK
    <3> QED
      BY <3>1, <3>2
  <2>3. (heard \in Seq(Bytes))'
    BY <1>7, <2>1, AppendProperties DEF Store, StartsLine, Recorded, TypeOK
  <2>4. (got \in Seq(Bytes) /\ Len(got) <= 1)'
    BY <1>7, EmptySeq DEF Store, StartsLine, Recorded
  <2>5. (lineStart \in [LineSlots -> Nat])'
    BY <1>7 DEF Store, StartsLine, Recorded, TypeOK, LineSlots
  <2>6. (lineEnd \in [LineSlots -> Nat] /\ lineCount \in 0 .. MaxLines)'
    <3>1. CASE EndsLine(got[1]) /\ lineCount < MaxLines
      <4>1. /\ lineEnd' = [lineEnd EXCEPT ![lineCount] = now]
            /\ lineCount' = lineCount + 1
        BY <1>7, <3>1 DEF Store, StartsLine, Recorded
      <4>2. lineCount \in 0 .. MaxLines /\ now \in Nat
        BY DEF TypeOK
      <4>3. lineCount \in LineSlots /\ lineCount' \in 0 .. MaxLines
        BY <3>1, <4>1, <4>2 DEF LineSlots
      <4> QED
        BY <4>1, <4>2, <4>3 DEF TypeOK
    <3>2. CASE ~(EndsLine(got[1]) /\ lineCount < MaxLines)
      BY <1>7, <3>2 DEF Store, StartsLine, Recorded, TypeOK, LineSlots
    <3> QED
      BY <3>1, <3>2
  <2>7. /\ now' \in Nat /\ respStart' \in Nat /\ respEnd' \in Nat
        /\ deadline' \in Nat /\ pos' \in Nat
        /\ pc' \in {"idle", "reading"}
    BY <1>7 DEF Store, StartsLine, Recorded, TypeOK
  <2> QED
    BY <1>7, <2>2, <2>3, <2>4, <2>5, <2>6, <2>7 DEF Store, StartsLine, Recorded, TypeOK, stamps
<1>8. CASE Quiet
  BY <1>8 DEF Quiet, TypeOK, stamps, resp, lines, locals, ghosts
<1>9. CASE SetBinary
  BY <1>9 DEF SetBinary, TypeOK, stamps, resp, lines, locals
<1>10. CASE SensorByte
  <2>1. Head(dev.out) \in Chars /\ Tail(dev.out) \in Seq(Chars)
    BY <1>10, HeadTailProperties DEF SensorByte, TypeOK
  <2>2. (rx \in Seq(Bytes))'
    <3> DEFINE b == [c |-> Head(dev.out), cmd |-> dev.cmd, at |-> now,
                     id |-> dev.sent + 1]
    <3>1. b \in Bytes
      BY <2>1 DEF TypeOK, Bytes
    <3>2. rx' = Append(rx, b) /\ rx \in Seq(Bytes)
      BY <1>10 DEF SensorByte, TypeOK
    <3> HIDE DEF b
    <3> QED
      BY <3>1, <3>2, AppendProperties
  <2>3. (dev \in Devices)'
    <3>1. dev' = [dev EXCEPT !.out = Tail(dev.out), !.at = now,
                    !.sent = dev.sent + 1,
                    !.line = IF Head(dev.out) = LF THEN "between" ELSE "mid"]
      BY <1>10 DEF SensorByte, TypeOK
    <3>2. dev.sent + 1 \in Nat /\ now \in Nat
      BY DEF TypeOK
    <3>3. (IF Head(dev.out) = LF THEN "between" ELSE "mid")
            \in {"quiet", "mid", "between"}
      OBVIOUS
    <3> QED
      BY <2>1, <3>1, <3>2, <3>3 DEF TypeOK
  <2> QED
    BY <1>10, <2>2, <2>3
       DEF SensorByte, TypeOK, stamps, resp, lines, locals, ghosts
<1>11. CASE Tick
  BY <1>11 DEF Tick, TypeOK, stamps, resp, lines, locals, ghosts
<1>12. CASE UNCHANGED vars
  BY <1>12 DEF vars, TypeOK, stamps, resp, lines, locals, ghosts
<1> QED
  BY <1>1, <1>2, <1>3, <1>4, <1>5, <1>6, <1>7, <1>8, <1>9, <1>10, <1>11,
     <1>12 DEF Next

\* Every stamp, count and byte has its type in every state of the layer.
THEOREM TypeCorrect == Spec => []TypeOK
<1>1. Init => TypeOK
  BY InitIInv DEF IInv
<1> QED
  BY <1>1, TypeStep, PTL DEF Spec

-----------------------------------------------------------------------------
\* Every recv that goes on has room for another byte.
LEMMA BufferStep ==
  TypeOK /\ BufferNotOverrun /\ [Next]_vars => BufferNotOverrun'
<1> SUFFICES ASSUME TypeOK, BufferNotOverrun, [Next]_vars
             PROVE  BufferNotOverrun'
  OBVIOUS
<1> USE DEF BufferNotOverrun, Receiving
<1>1. CASE Recv
  BY <1>1, SizesArePositive DEF Recv, ResetResp
<1>2. CASE Store
  <2>1. pos < max /\ pos \in Nat /\ max \in Nat
    BY <1>2 DEF Store, StartsLine, Recorded, TypeOK
  <2>2. pos' = pos + 1 /\ max' = max
    BY <1>2 DEF Store, StartsLine, Recorded
  <2>3. pc' \in {"reading", "sampled"} => pos + 1 < max
    BY <1>2, <2>1 DEF Store, Returns
  <2> QED
    BY <2>1, <2>2, <2>3
<1>3. CASE Read
  BY <1>3 DEF Read
<1>4. CASE Quiet
  BY <1>4 DEF Quiet, locals
<1>5. CASE BreakOn \/ BreakOff \/ Send \/ Sent \/ SetBinary
  BY <1>5 DEF BreakOn, BreakOff, Send, Sent, SetBinary, locals
<1>6. CASE SensorByte \/ Tick \/ UNCHANGED vars
  BY <1>6 DEF SensorByte, Tick, vars, locals
<1> QED
  BY <1>1, <1>2, <1>3, <1>4, <1>5, <1>6 DEF Next

\* Time only moves on, and every stamp is taken of the present.
LEMMA PastStep == TypeOK /\ PastStamps /\ [Next]_vars => PastStamps'
<1> SUFFICES ASSUME TypeOK, PastStamps, [Next]_vars PROVE PastStamps'
  OBVIOUS
<1> USE SizesArePositive DEF PastStamps
<1>t. now \in Nat /\ lineCount \in Nat
  BY DEF TypeOK
<1>1. CASE BreakOn \/ Send
  BY <1>1, <1>t DEF BreakOn, Send, resp, lines
<1>2. CASE BreakOff \/ SetBinary
  BY <1>2, <1>t DEF BreakOff, AfterBreak, SetBinary, resp, lines, stamps
<1>7. CASE Sent
  <2>1. cmdEnd' = now /\ UNCHANGED <<now, breakStart, cmdStart, resp>>
    BY <1>7 DEF Sent
  <2> QED
    BY <1>t, <2>1 DEF resp, lines
<1>6. CASE Recv \/ Read \/ Quiet
  BY <1>6, <1>t DEF Recv, ResetResp, Read, Quiet, resp, lines, stamps
<1>3. CASE Store
  <2>1. \A i \in 0 .. lineCount' - 1 : lineEnd'[i] <= now
    <3>1. CASE EndsLine(got[1]) /\ lineCount < MaxLines
      <4>1. /\ lineEnd' = [lineEnd EXCEPT ![lineCount] = now]
            /\ lineCount' = lineCount + 1
        BY <1>3, <3>1 DEF Store, StartsLine, Recorded
      <4>2. lineCount \in LineSlots /\ lineEnd \in [LineSlots -> Nat]
        BY <1>t, <3>1 DEF TypeOK, LineSlots
      <4> QED
        BY <1>t, <4>1, <4>2 DEF LineSlots
    <3>2. CASE ~(EndsLine(got[1]) /\ lineCount < MaxLines)
      BY <1>3, <3>2 DEF Store, StartsLine, Recorded
    <3> QED
      BY <3>1, <3>2
  <2> QED
    BY <1>3, <2>1 DEF Store, StartsLine, Recorded, TypeOK, stamps
<1>4. CASE SensorByte \/ UNCHANGED vars
  BY <1>4 DEF TypeOK, SensorByte, vars, resp, lines, stamps
<1>5. CASE Tick
  <2>1. now' = now + 1 /\ now \in Nat
    BY <1>5 DEF Tick, TypeOK
  <2>2. \A i \in 0 .. lineCount - 1 : lineEnd[i] \in Nat
    BY SizesArePositive DEF TypeOK, LineSlots
  <2> QED
    BY <1>5, <2>1, <2>2 DEF Tick, TypeOK, resp, lines, stamps
<1> QED
  BY <1>1, <1>2, <1>3, <1>4, <1>5, <1>6, <1>7 DEF Next

\* The line stamps stay ordered: a line is closed after it was opened, and
\* opened after the one before it was closed.
LEMMA LinesStep ==
  TypeOK /\ PastStamps /\ LinesOrdered /\ LineOpen /\ [Next]_vars
    => LinesOrdered' /\ LineOpen'
<1> SUFFICES ASSUME TypeOK, PastStamps, LinesOrdered, LineOpen, [Next]_vars
             PROVE  LinesOrdered' /\ LineOpen'
  OBVIOUS
<1> USE SizesArePositive DEF LinesOrdered, LineOpen, Receiving
<1>1. CASE Send
  BY <1>1 DEF Send
<1>2. CASE BreakOn \/ BreakOff \/ Sent \/ SetBinary
  BY <1>2 DEF BreakOn, BreakOff, Sent, SetBinary, resp, lines
<1>3. CASE Recv
  BY <1>3 DEF Recv, ResetResp, lines
<1>4. CASE Read \/ Quiet
  BY <1>4 DEF Read, Quiet, resp, lines, locals
<1>5. CASE Store
  <2> DEFINE starts == pos = 0 /\ lineCount < MaxLines
             ends   == EndsLine(got[1]) /\ lineCount < MaxLines
  <2>1. /\ now \in Nat /\ lineCount \in 0 .. MaxLines /\ pos \in Nat
        /\ lineStart \in [LineSlots -> Nat] /\ lineEnd \in [LineSlots -> Nat]
    BY DEF TypeOK
  <2>2. /\ pc = "sampled" /\ pos' = pos + 1 /\ now' = now
        /\ lineStart' = IF starts THEN [lineStart EXCEPT ![lineCount] = now]
                                  ELSE lineStart
    BY <1>5 DEF Store, StartsLine, Recorded
  <2>3. \A i \in 0 .. lineCount - 1 : lineStart'[i] = lineStart[i]
    BY <2>1, <2>2 DEF LineSlots
  <2>4. lineCount < MaxLines =>
          /\ lineStart'[lineCount] <= now
          /\ lineCount > 0 => lineEnd[lineCount - 1] <= lineStart'[lineCount]
    <3>1. CASE pos = 0
      <4>1. ASSUME lineCount < MaxLines PROVE lineStart'[lineCount] = now
        BY <2>1, <2>2, <3>1, <4>1 DEF LineSlots
      <4> QED
        BY <2>1, <4>1 DEF PastStamps
    <3>2. CASE pos # 0
      BY <2>1, <2>2, <3>2
    <3> QED
      BY <3>1, <3>2
  <2>5. CASE ends
    <3>1. /\ lineEnd' = [lineEnd EXCEPT ![lineCount] = now]
          /\ lineCount' = lineCount + 1
          /\ pc' = "idle"
      BY <1>5, <2>5 DEF Store, Returns
    <3>2. /\ lineEnd'[lineCount] = now
          /\ \A i \in 0 .. lineCount - 1 : lineEnd'[i] = lineEnd[i]
      BY <2>1, <2>5, <3>1 DEF LineSlots
    <3>3. \A i \in 0 .. lineCount' - 1 : lineStart'[i] <= lineEnd'[i]
      BY <2>1, <2>3, <2>4, <2>5, <3>1, <3>2
    <3>4. \A i \in 1 .. lineCount' - 1 : lineEnd'[i - 1] <= lineStart'[i]
      BY <2>1, <2>3, <2>4, <2>5, <3>1, <3>2
    <3> QED
      BY <3>1, <3>3, <3>4
  <2>6. CASE ~ends
    <3>1. lineEnd' = lineEnd /\ lineCount' = lineCount
      BY <1>5, <2>6 DEF Store, StartsLine, Recorded
    <3> QED
      BY <2>1, <2>2, <2>3, <2>4, <3>1
  <2> QED
    BY <2>5, <2>6
<1>6. CASE SensorByte \/ UNCHANGED vars
  BY <1>6 DEF SensorByte, vars, resp, lines, locals
<1>7. CASE Tick
  <2>1. lineCount < MaxLines => lineStart[lineCount] \in Nat
    BY DEF TypeOK, LineSlots
  <2> QED
    BY <1>7, <2>1 DEF Tick, TypeOK, resp, lines, locals
<1> QED
  BY <1>1, <1>2, <1>3, <1>4, <1>5, <1>6, <1>7 DEF Next

\* A start stamp that outlives a recv call is not older than its command.
LEMMA RespStep ==
  TypeOK /\ PastStamps /\ RespAfterCmd /\ [Next]_vars => RespAfterCmd'
<1> SUFFICES ASSUME TypeOK, PastStamps, RespAfterCmd, [Next]_vars
             PROVE  RespAfterCmd'
  OBVIOUS
<1> USE DEF RespAfterCmd
<1>1. CASE Send \/ SetBinary
  BY <1>1 DEF Send, SetBinary
<1>2. CASE Sent
  BY <1>2 DEF Sent, ghosts
<1>3. CASE BreakOn \/ BreakOff
  BY <1>3 DEF BreakOn, BreakOff, resp, ghosts
<1>4. CASE Recv
  BY <1>4 DEF Recv, ResetResp, stamps
<1>5. CASE Store
  BY <1>5 DEF Store, stamps, PastStamps, TypeOK
<1>6. CASE Read \/ Quiet \/ SensorByte \/ Tick \/ UNCHANGED vars
  BY <1>6 DEF Read, Quiet, SensorByte, Tick, vars, stamps, resp, ghosts
<1> QED
  BY <1>1, <1>2, <1>3, <1>4, <1>5, <1>6 DEF Next

\* A text recv goes on only past characters that are not newlines.
LEMMA NewlineStep ==
  TypeOK /\ NoNewlineYet /\ RespAfterCmd /\ [Next]_vars => NoNewlineYet'
<1> SUFFICES ASSUME TypeOK, NoNewlineYet, RespAfterCmd, [Next]_vars
             PROVE  NoNewlineYet'
  OBVIOUS
<1> USE DEF NoNewlineYet, Receiving
<1>1. CASE Send \/ SetBinary
  BY <1>1 DEF Send, SetBinary
<1>2. CASE Recv
  <2>1. Len(heard) \in Nat
    BY LenProperties DEF TypeOK
  <2> QED
    BY <1>2, <2>1 DEF Recv, ResetResp
<1>3. CASE Store
  <2>1. /\ heard \in Seq(Bytes) /\ got[1] \in Bytes /\ Len(heard) \in Nat
        /\ pos \in Nat
    BY <1>3, LenProperties DEF Store, StartsLine, Recorded, TypeOK
  <2>2. /\ pc = "sampled" /\ calls' = calls /\ binary' = binary
        /\ pos' = pos + 1 /\ heard' = Append(heard, got[1])
    BY <1>3 DEF Store, StartsLine, Recorded
  <2>3. /\ Len(heard') = Len(heard) + 1
        /\ heard'[Len(heard')] = got[1]
        /\ \A i \in 1 .. Len(heard) : heard'[i] = heard[i]
    BY <2>1, <2>2, AppendProperties
  <2>4. pc' \in {"reading", "sampled"} /\ ~binary => got[1].c # LF
    BY <1>3 DEF Store, Returns, EndsLine
  <2>5. ASSUME calls > 0, ~binary
        PROVE  \A i \in Len(heard') - pos' + 1 .. Len(heard') - 1 :
                 heard'[i].c # LF
    <3> SUFFICES ASSUME NEW i \in Len(heard') - pos' + 1 .. Len(heard') - 1
                 PROVE  heard'[i].c # LF
      OBVIOUS
    <3>1. /\ pos <= Len(heard)
          /\ \A j \in Len(heard) - pos + 1 .. Len(heard) - 1 : heard[j].c # LF
          /\ pos > 0 => heard[Len(heard)].c # LF
      BY <2>2, <2>5
    <3>2. i \in Len(heard) - pos + 1 .. Len(heard)
      BY <2>1, <2>2, <2>3
    <3>3. pos > 0 /\ i \in 1 .. Len(heard)
      BY <2>1, <3>1, <3>2
    <3>4. heard[i].c # LF
      BY <2>1, <3>1, <3>2, <3>3
    <3> QED
      BY <2>3, <3>3, <3>4
  <2> QED
    BY <2>1, <2>2, <2>3, <2>4, <2>5
<1>4. CASE Read
  BY <1>4 DEF Read, ghosts
<1>5. CASE BreakOn \/ BreakOff \/ Sent
  BY <1>5 DEF BreakOn, BreakOff, Sent, locals, ghosts
<1>6. CASE Quiet \/ SensorByte \/ Tick \/ UNCHANGED vars
  BY <1>6 DEF Quiet, SensorByte, Tick, vars, locals, ghosts
<1> QED
  BY <1>1, <1>2, <1>3, <1>4, <1>5, <1>6 DEF Next

-----------------------------------------------------------------------------
\* The inductive invariant behind the four safety theorems.
THEOREM Inductive == Spec => []IInv
<1>1. IInv /\ [Next]_vars => IInv'
  BY TypeStep, BufferStep, PastStep, LinesStep, RespStep, NewlineStep DEF IInv
<1> QED
  BY <1>1, InitIInv, PTL DEF Spec

\* cb_recv never writes past the buffer the master lent it.
THEOREM BufferSafe == Spec => []BufferNotOverrun
<1>1. IInv => BufferNotOverrun
  BY DEF IInv
<1> QED
  BY <1>1, Inductive, PTL

\* The line stamps of a reply alternate in time over all its recv calls.
THEOREM LinesInOrder == Spec => []LinesOrdered
<1>1. IInv => LinesOrdered
  BY DEF IInv
<1> QED
  BY <1>1, Inductive, PTL

\* The latency of a reply is never the wrap-around of an unsigned difference.
THEOREM LatencySafe == Spec => []LatencyNeverWraps
<1>1. IInv => LatencyNeverWraps
  BY DEF IInv, RespAfterCmd, LatencyNeverWraps, Rested
<1> QED
  BY <1>1, Inductive, PTL

\* What the latency and gap functions subtract is in order.
THEOREM StampsSafe == Spec => []StampsOrdered
<1>1. LinesOrdered /\ LatencyNeverWraps => StampsOrdered
  BY DEF StampsOrdered
<1> QED
  BY <1>1, LinesInOrder, LatencySafe, PTL

\* A text recv returns one line at most.
THEOREM OneLineEach == Spec => []OneLinePerCall
<1>1. IInv => OneLinePerCall
  BY DEF IInv, NoNewlineYet, OneLinePerCall, Rested
<1> QED
  BY <1>1, Inductive, PTL

-----------------------------------------------------------------------------
(* What the layer hears.  The bytes heard for a command, the one in hand   *)
(* and the port's buffer are a stretch of what the sensor sent, and except *)
(* between a loopback's break and the next command its end is the last     *)
(* byte sent.                                                              *)

Stream         == heard \o got \o rx
Unbroken(s)    == \A i \in 2 .. Len(s) : s[i].id = s[i - 1].id + 1
EndsAt(s, n)   == s # <<>> => s[Len(s)].id = n
AllOf(s, n)    == \A i \in 1 .. Len(s) : s[i].cmd = n
Dropped        == dev.inside /\ pc = "woken"

\* Nothing is in hand between two reads; a sensor inside the program never
\* sends on its own, and its break leaves nothing behind.
Hands ==
  /\ pc # "sampled" => got = <<>>
  /\ dev.inside => dev.out = <<>>
  /\ Dropped => rx = <<>>

StreamInv ==
  /\ Hands
  /\ Unbroken(Stream)
  /\ Dropped \/ EndsAt(Stream, dev.sent)
  /\ dev.inside /\ fresh => AllOf(Stream, cmds)

\* The parts of the stream and their types.
LEMMA Unfold ==
  ASSUME TypeOK
  PROVE  /\ heard \in Seq(Bytes) /\ got \in Seq(Bytes) /\ rx \in Seq(Bytes)
         /\ heard \o got \in Seq(Bytes) /\ Stream \in Seq(Bytes)
         /\ dev.sent \in Nat /\ cmds \in Nat
         /\ got = <<>> => Stream = heard \o rx
         /\ heard = <<>> /\ got = <<>> => Stream = rx
  BY ConcatProperties, ConcatEmptySeq DEF TypeOK, Devices, Stream

\* Concatenation, for sequences of bytes.
LEMMA Associative ==
  \A a, b, c \in Seq(Bytes) : (a \o b) \o c = a \o (b \o c)
  BY ConcatAssociative

\* Two sequences put together.
LEMMA Joined ==
  \A a, b \in Seq(Bytes) :
    /\ a \o b \in Seq(Bytes) /\ Len(a \o b) = Len(a) + Len(b)
    /\ \A i \in 1 .. Len(a) + Len(b) :
         (a \o b)[i] = IF i <= Len(a) THEN a[i] ELSE b[i - Len(a)]
  BY ConcatProperties

\* Numbered bytes put behind a stretch prolong it.
LEMMA Prolonged ==
  ASSUME NEW s \in Seq(Bytes), NEW t \in Seq(Bytes), NEW n \in Nat,
         Unbroken(s), EndsAt(s, n), \A i \in 1 .. Len(t) : t[i].id = n + i
  PROVE  Unbroken(s \o t) /\ EndsAt(s \o t, n + Len(t))
<1> DEFINE u == s \o t
<1>1. /\ u \in Seq(Bytes) /\ Len(u) = Len(s) + Len(t)
      /\ Len(s) \in Nat /\ Len(t) \in Nat
      /\ \A i \in 1 .. Len(s) : u[i] = s[i]
      /\ \A i \in 1 .. Len(t) : u[Len(s) + i] = t[i]
  BY ConcatProperties
<1> HIDE DEF u
<1>2. Len(s) > 0 => u[Len(s)].id = n
  BY <1>1, EmptySeq DEF EndsAt
<1>3. \A i \in Len(s) + 1 .. Len(u) : u[i].id = n + i - Len(s)
  <2> SUFFICES ASSUME NEW i \in Len(s) + 1 .. Len(u)
               PROVE  u[i].id = n + i - Len(s)
    OBVIOUS
  <2>1. i - Len(s) \in 1 .. Len(t)
    BY <1>1
  <2>2. /\ u[Len(s) + (i - Len(s))] = t[i - Len(s)]
        /\ t[i - Len(s)].id = n + (i - Len(s))
    BY <1>1, <2>1
  <2> QED
    BY <1>1, <2>2
<1>4. Unbroken(u)
  <2> SUFFICES ASSUME NEW i \in 2 .. Len(u) PROVE u[i].id = u[i - 1].id + 1
    BY DEF Unbroken
  <2>1. CASE i <= Len(s)
    <3>0. i \in 2 .. Len(s)
      BY <1>1, <2>1
    <3>1. s[i].id = s[i - 1].id + 1
      BY <3>0, Zenon DEF Unbroken
    <3>2. u[i] = s[i] /\ u[i - 1] = s[i - 1]
      BY <1>1, <3>0
    <3> QED
      BY <3>1, <3>2
  <2>2. CASE i = Len(s) + 1
    BY <1>1, <1>2, <1>3, <2>2
  <2>3. CASE i > Len(s) + 1
    <3>0. i \in Len(s) + 1 .. Len(u) /\ i - 1 \in Len(s) + 1 .. Len(u)
      BY <1>1, <2>3
    <3>1. /\ u[i].id = n + i - Len(s)
          /\ u[i - 1].id = n + (i - 1) - Len(s)
      BY <1>3, <3>0, Zenon
    <3>2. n + i - Len(s) = (n + (i - 1) - Len(s)) + 1
      BY <1>1
    <3> QED
      BY <3>1, <3>2, Zenon
  <2> QED
    BY <1>1, <2>1, <2>2, <2>3
<1>5. EndsAt(u, n + Len(t))
  <2>1. CASE Len(t) = 0
    BY <1>1, <1>2, <2>1, EmptySeq DEF EndsAt
  <2>2. CASE Len(t) > 0
    <3>1. u[Len(u)].id = n + Len(u) - Len(s)
      BY <1>1, <1>3, <2>2
    <3> QED
      BY <1>1, <3>1 DEF EndsAt
  <2> QED
    BY <1>1, <2>1, <2>2
<1> QED
  BY <1>4, <1>5 DEF u

\* A stretch cut in two is two stretches.
LEMMA CutInTwo ==
  ASSUME NEW s \in Seq(Bytes), NEW t \in Seq(Bytes), NEW n \in Nat,
         Unbroken(s \o t)
  PROVE  /\ Unbroken(s) /\ Unbroken(t)
         /\ EndsAt(s \o t, n) => EndsAt(t, n)
<1> DEFINE u == s \o t
<1>1. /\ u \in Seq(Bytes) /\ Len(u) = Len(s) + Len(t)
      /\ Len(s) \in Nat /\ Len(t) \in Nat
      /\ \A i \in 1 .. Len(s) : u[i] = s[i]
      /\ \A i \in 1 .. Len(t) : u[Len(s) + i] = t[i]
  BY ConcatProperties
<1> HIDE DEF u
<1>2. Unbroken(s)
  <2> SUFFICES ASSUME NEW i \in 2 .. Len(s) PROVE s[i].id = s[i - 1].id + 1
    BY DEF Unbroken
  <2>1. u[i].id = u[i - 1].id + 1
    BY <1>1 DEF Unbroken, u
  <2>2. u[i] = s[i] /\ u[i - 1] = s[i - 1]
    BY <1>1
  <2> QED
    BY <2>1, <2>2
<1>3. Unbroken(t)
  <2> SUFFICES ASSUME NEW i \in 2 .. Len(t) PROVE t[i].id = t[i - 1].id + 1
    BY DEF Unbroken
  <2>1. i \in 1 .. Len(t) /\ i - 1 \in 1 .. Len(t)
    BY <1>1
  <2>2. u[Len(s) + i] = t[i] /\ u[Len(s) + (i - 1)] = t[i - 1]
    BY <1>1, <2>1
  <2>3. Len(s) + i \in 2 .. Len(u) /\ (Len(s) + i) - 1 = Len(s) + (i - 1)
    BY <1>1, <2>1
  <2>4. u[Len(s) + i].id = u[(Len(s) + i) - 1].id + 1
    BY <2>3 DEF Unbroken, u
  <2> QED
    BY <2>2, <2>3, <2>4
<1>4. EndsAt(u, n) => EndsAt(t, n)
  BY <1>1, EmptySeq DEF EndsAt
<1> QED
  BY <1>2, <1>3, <1>4 DEF u

\* Reading and storing a byte moves it along, and changes nothing else.
LEMMA Moves ==
  ASSUME TypeOK, Hands, Read \/ Store
  PROVE  Stream' = Stream
<1>0. heard \in Seq(Bytes) /\ got \in Seq(Bytes) /\ rx \in Seq(Bytes)
  BY Unfold
<1>1. CASE Read
  <2>1. heard' = heard /\ got = <<>>
    BY <1>1 DEF Read, ghosts, Hands
  <2>2. CASE rx = <<>>
    BY <1>1, <2>1, <2>2 DEF Read, Stream
  <2>3. CASE rx # <<>>
    <3>1. /\ got' = <<Head(rx)>> /\ rx' = Tail(rx) /\ Head(rx) \in Bytes
          /\ Tail(rx) \in Seq(Bytes) /\ Head(rx) = rx[1] /\ Len(rx) \in Nat
          /\ Len(rx) > 0 /\ Len(Tail(rx)) = Len(rx) - 1
          /\ \A i \in 1 .. Len(rx) - 1 : Tail(rx)[i] = rx[i + 1]
      BY <1>0, <1>1, <2>3, HeadTailProperties DEF Read
    <3>2. rx = <<Head(rx)>> \o Tail(rx)
      <4> DEFINE one == <<Head(rx)>>
                 all == one \o Tail(rx)
      <4>1. one \in Seq(Bytes) /\ Len(one) = 1 /\ one[1] = rx[1]
        BY <3>1
      <4> HIDE DEF one
      <4>2. /\ all \in Seq(Bytes) /\ Len(all) = Len(rx) /\ all[1] = rx[1]
            /\ \A i \in 2 .. Len(rx) : all[i] = Tail(rx)[i - 1]
        <5>1. /\ all \in Seq(Bytes) /\ Len(all) = Len(one) + Len(Tail(rx))
              /\ \A i \in 1 .. Len(one) + Len(Tail(rx)) :
                   all[i] = IF i <= Len(one) THEN one[i]
                            ELSE Tail(rx)[i - Len(one)]
          BY <3>1, <4>1, Joined, Zenon
        <5> HIDE DEF all
        <5>2. Len(one) + Len(Tail(rx)) = Len(rx)
          BY <3>1, <4>1
        <5>3. \A i \in 1 .. Len(rx) :
                all[i] = IF i <= 1 THEN one[i] ELSE Tail(rx)[i - 1]
          BY <4>1, <5>1, <5>2
        <5> QED
          BY <3>1, <4>1, <5>1, <5>2, <5>3
      <4>3. \A i \in 2 .. Len(rx) : Tail(rx)[i - 1] = rx[i]
        <5> SUFFICES ASSUME NEW i \in 2 .. Len(rx) PROVE Tail(rx)[i - 1] = rx[i]
          OBVIOUS
        <5>1. Tail(rx)[i - 1] = rx[(i - 1) + 1]
          BY <3>1
        <5> QED
          BY <5>1
      <4> HIDE DEF all
      <4>4. \A i \in 1 .. Len(rx) : all[i] = rx[i]
        BY <4>2, <4>3, <3>1
      <4>5. all = rx
        BY <1>0, <4>2, <4>4, SeqEqual
      <4> QED
        BY <4>5 DEF all, one
    <3>3. heard \o got = heard
      BY <1>0, <2>1, ConcatEmptySeq
    <3>4. <<Head(rx)>> \in Seq(Bytes)
      BY <3>1
    <3>5. (heard \o <<Head(rx)>>) \o Tail(rx) = heard \o (<<Head(rx)>> \o Tail(rx))
      BY <1>0, <3>1, <3>4, ConcatAssociative
    <3> QED
      BY <2>1, <3>1, <3>2, <3>3, <3>5 DEF Stream
  <2> QED
    BY <2>2, <2>3
<1>2. CASE Store
  <2>1. got = <<got[1]>> /\ got[1] \in Bytes
    <3>1. Len(got) = 1
      <4>1. got # <<>> /\ Len(got) <= 1
        BY <1>2 DEF Store, TypeOK
      <4>2. Len(got) \in Nat \ {0}
        BY <1>0, <4>1, EmptySeq, Zenon
      <4> QED
        BY <4>1, <4>2
    <3> QED
      BY <1>0, <3>1
  <2>2. rx' = rx /\ got' = <<>> /\ heard' = Append(heard, got[1])
    BY <1>2 DEF Store
  <2>3. heard' = heard \o got
    BY <1>0, <2>1, <2>2, AppendIsConcat
  <2>4. (heard \o got) \o <<>> = heard \o got
    BY Unfold, ConcatEmptySeq
  <2> QED
    BY <2>2, <2>3, <2>4 DEF Stream
<1> QED
  BY <1>1, <1>2

\* Nothing is heard, in hand or on the way at the start.
LEMMA InitStream == Init => StreamInv
<1> SUFFICES ASSUME Init PROVE StreamInv
  OBVIOUS
<1>1. Stream = <<>>
  BY EmptySeq, ConcatEmptySeq DEF Init, Stream
<1>2. Len(Stream) = 0
  BY <1>1
<1>3. Hands
  BY DEF Init, Hands, Dropped
<1> QED
  BY <1>1, <1>2, <1>3 DEF StreamInv, Unbroken, EndsAt, AllOf

\* A byte is in hand only between a read and its look at the clock.
LEMMA HandsStep == TypeOK /\ Hands /\ [Next]_vars => Hands'
<1> SUFFICES ASSUME TypeOK, Hands, [Next]_vars PROVE Hands'
  OBVIOUS
<1> USE DEF Hands, Dropped, TypeOK, Devices
<1>1. CASE BreakOn
  BY <1>1 DEF BreakOn, locals
<1>2. CASE BreakOff
  BY <1>2 DEF BreakOff, AfterBreak, locals
<1>3. CASE Send
  BY <1>3 DEF Send, locals
<1>4. CASE Sent
  BY <1>4 DEF Sent, locals
<1>5. CASE Recv \/ Read
  BY <1>5 DEF Recv, Read
<1>6. CASE Store
  BY <1>6 DEF Store
<1>7. CASE Quiet \/ SetBinary \/ Tick \/ UNCHANGED vars
  BY <1>7 DEF Quiet, SetBinary, Tick, vars, locals
<1>8. CASE SensorByte
  BY <1>8 DEF SensorByte, locals
<1> QED
  BY <1>1, <1>2, <1>3, <1>4, <1>5, <1>6, <1>7, <1>8 DEF Next

\* The command has gone out: a sensor inside the program has answered behind
\* what was in the buffer, and its answer is the command's.
LEMMA SentStream == ASSUME TypeOK, StreamInv, Sent PROVE StreamInv'
<1> USE Unfold
<1>1. Hands'
  BY HandsStep DEF Next, StreamInv
<1>2. /\ heard' = heard /\ got' = got /\ got = <<>> /\ cmds' = cmds
      /\ fresh' = fresh /\ ~Dropped
  BY DEF Sent, ghosts, locals, StreamInv, Hands, Dropped
<1>3. heard \o got \in Seq(Bytes) /\ rx \in Seq(Bytes)
  OBVIOUS
<1>4. CASE dev.inside
  <2>1. PICK reply \in Replies \cup {<<>>} :
          /\ rx' = rx \o Stamped(reply)
          /\ dev' = [dev EXCEPT !.sent = @ + Len(reply)]
    BY <1>4 DEF Sent
  <2> DEFINE t == Stamped(reply)
  <2>2. t \in Seq(Bytes) /\ reply \in Seq(Chars) /\ Len(reply) \in Nat
    BY StampedType
  <2>3. /\ Len(t) = Len(reply)
        /\ \A i \in 1 .. Len(t) : t[i].id = dev.sent + i /\ t[i].cmd = cmds
    BY <2>2 DEF Stamped
  <2> HIDE DEF t
  <2>4. Stream' = Stream \o t
    <3>1. Stream' = (heard \o got) \o (rx \o t)
      BY <1>2, <2>1 DEF Stream, t
    <3>2. ((heard \o got) \o rx) \o t = (heard \o got) \o (rx \o t)
      BY <1>3, <2>2, Associative, Zenon
    <3> QED
      BY <3>1, <3>2 DEF Stream
  <2>5. dev'.sent = dev.sent + Len(t) /\ dev'.inside
    BY <1>4, <2>1, <2>3 DEF TypeOK, Devices
  <2>6. Unbroken(Stream') /\ EndsAt(Stream', dev'.sent)
    BY <1>2, <2>2, <2>3, <2>4, <2>5, Prolonged DEF StreamInv
  <2>7. fresh => AllOf(Stream', cmds)
    BY <1>4, <2>2, <2>3, <2>4, ConcatProperties DEF StreamInv, AllOf
  <2> QED
    BY <1>1, <1>2, <2>6, <2>7 DEF StreamInv
<1>5. CASE ~dev.inside
  <2>1. rx' = rx /\ dev'.sent = dev.sent /\ ~dev'.inside
    BY <1>5 DEF Sent, TypeOK, Devices
  <2>2. Stream' = Stream
    BY <1>2, <2>1 DEF Stream
  <2> QED
    BY <1>1, <1>2, <2>1, <2>2 DEF StreamInv
<1> QED
  BY <1>4, <1>5

\* A byte of a sensor behind the port prolongs the stream.
LEMMA ByteStream == ASSUME TypeOK, StreamInv, SensorByte PROVE StreamInv'
<1> USE Unfold
<1>1. Hands'
  BY HandsStep DEF Next, StreamInv
<1>2. PICK b \in Bytes : rx' = Append(rx, b) /\ b.id = dev.sent + 1
  <2> DEFINE b == [c |-> Head(dev.out), cmd |-> dev.cmd, at |-> now,
                   id |-> dev.sent + 1]
  <2>1. /\ dev.out \in Seq(Chars) /\ dev.out # <<>>
        /\ dev.cmd \in Nat /\ dev.sent \in Nat /\ now \in Nat
    BY DEF SensorByte, TypeOK, Devices
  <2>2. Head(dev.out) \in Chars
    BY <2>1, HeadTailProperties
  <2>3. b \in Bytes /\ b.id = dev.sent + 1
    <3>1. dev.sent + 1 \in Nat
      BY <2>1
    <3>2. \A c \in Chars, k, t, i \in Nat :
            [c |-> c, cmd |-> k, at |-> t, id |-> i] \in Bytes
      BY DEF Bytes
    <3> QED
      BY <2>1, <2>2, <3>1, <3>2
  <2>4. rx' = Append(rx, b)
    BY DEF SensorByte
  <2> QED
    BY <2>3, <2>4
<1>3. /\ heard' = heard /\ got' = got /\ ~dev.inside /\ ~dev'.inside
      /\ dev'.sent = dev.sent + 1
  BY DEF SensorByte, locals, ghosts, StreamInv, Hands, TypeOK, Devices
<1>4. Stream' = Stream \o <<b>> /\ <<b>> \in Seq(Bytes)
  <2>1. <<b>> \in Seq(Bytes) /\ rx' = rx \o <<b>>
    BY <1>2, AppendIsConcat
  <2>2. heard \o got \in Seq(Bytes) /\ rx \in Seq(Bytes)
    OBVIOUS
  <2>3. ((heard \o got) \o rx) \o <<b>> = (heard \o got) \o (rx \o <<b>>)
    BY <2>1, <2>2, Associative, Zenon
  <2> QED
    BY <1>3, <2>1, <2>3 DEF Stream
<1>5. Unbroken(Stream') /\ EndsAt(Stream', dev.sent + 1)
  <2>1. Len(<<b>>) = 1 /\ \A i \in 1 .. Len(<<b>>) : <<b>>[i].id = dev.sent + i
    BY <1>2
  <2>2. Unbroken(Stream) /\ EndsAt(Stream, dev.sent)
    BY <1>3 DEF StreamInv, Dropped
  <2> HIDE DEF Stream
  <2> QED
    BY <1>4, <2>1, <2>2, Prolonged
<1> QED
  BY <1>1, <1>3, <1>5 DEF StreamInv

\* The next command forgets what was heard, a break inside the program drops
\* what was not.
LEMMA CutStream == ASSUME TypeOK, StreamInv, Send \/ BreakOff PROVE StreamInv'
<1> USE Unfold
<1>1. Hands'
  BY HandsStep DEF Next, StreamInv
<1>2. got = <<>> /\ got' = <<>> /\ Stream = heard \o rx /\ dev' = dev
  BY DEF Send, BreakOff, locals, StreamInv, Hands
<1>3. /\ Unbroken(heard) /\ Unbroken(rx)
      /\ EndsAt(Stream, dev.sent) => EndsAt(rx, dev.sent)
  BY <1>2, CutInTwo DEF StreamInv
<1>4. CASE Send
  <2>1. heard' = <<>> /\ rx' = rx /\ ~Dropped' /\ fresh' = (pc = "woken")
    BY <1>4 DEF Send, Dropped
  <2>2. Stream' = rx
    BY <1>2, <2>1, EmptySeq, ConcatEmptySeq DEF Stream
  <2>3. Dropped => rx = <<>>
    BY DEF StreamInv, Hands
  <2>4. EndsAt(rx, dev.sent)
    BY <1>3, <2>3 DEF StreamInv, EndsAt
  <2>5. dev.inside /\ fresh' => AllOf(rx, cmds')
    <3> SUFFICES ASSUME dev.inside, fresh' PROVE AllOf(rx, cmds')
      OBVIOUS
    <3>1. rx = <<>>
      BY <2>1, <2>3, Zenon DEF Dropped
    <3>2. Len(rx) = 0
      BY <3>1
    <3> QED
      BY <3>2 DEF AllOf
  <2> QED
    BY <1>1, <1>2, <1>3, <2>1, <2>2, <2>4, <2>5 DEF StreamInv
<1>5. CASE BreakOff
  <2>1. /\ heard' = heard /\ fresh' = fresh /\ cmds' = cmds
        /\ rx' = IF dev.inside THEN <<>> ELSE rx
        /\ Dropped' <=> dev.inside
        /\ ~Dropped
    BY <1>2, <1>5 DEF BreakOff, AfterBreak, ghosts, Dropped
  <2>2. CASE dev.inside
    <3>1. Stream' = heard
      BY <1>2, <2>1, <2>2, EmptySeq, ConcatEmptySeq DEF Stream
    <3>2. fresh => AllOf(heard, cmds)
      BY <1>2, <2>2, ConcatProperties DEF StreamInv, AllOf
    <3> QED
      BY <1>1, <1>3, <2>1, <2>2, <3>1, <3>2 DEF StreamInv
  <2>3. CASE ~dev.inside
    <3>1. Stream' = Stream
      BY <1>2, <2>1, <2>3 DEF Stream
    <3> QED
      BY <1>1, <1>2, <2>1, <2>3, <3>1 DEF StreamInv
  <2> QED
    BY <2>2, <2>3
<1> QED
  BY <1>4, <1>5

\* Every step moves, prolongs or cuts the stream.
LEMMA StreamStep == TypeOK /\ StreamInv /\ [Next]_vars => StreamInv'
<1> SUFFICES ASSUME TypeOK, StreamInv, [Next]_vars PROVE StreamInv'
  OBVIOUS
<1>1. Hands'
  BY HandsStep DEF StreamInv
<1>2. CASE Read \/ Store
  <2>1. Stream' = Stream
    BY <1>2, Moves DEF StreamInv
  <2>2. dev' = dev /\ fresh' = fresh /\ cmds' = cmds /\ ~Dropped /\ ~Dropped'
    BY <1>2 DEF Read, Store, ghosts, Dropped
  <2> QED
    BY <1>1, <2>1, <2>2 DEF StreamInv
<1>3. CASE BreakOn \/ Recv \/ Quiet \/ SetBinary \/ Tick \/ UNCHANGED vars
  <2>1. /\ heard' = heard /\ rx' = rx /\ got' = got
        /\ fresh' = fresh /\ cmds' = cmds
    BY <1>3 DEF BreakOn, Recv, Quiet, SetBinary, Tick, vars, locals, ghosts,
                StreamInv, Hands
  <2>2. /\ dev'.sent = dev.sent /\ dev'.inside = dev.inside
        /\ Dropped' <=> Dropped
    BY <1>3 DEF BreakOn, Recv, Quiet, SetBinary, Tick, vars, Dropped, TypeOK,
                Devices
  <2>3. Stream' = Stream
    BY <2>1 DEF Stream
  <2> QED
    BY <1>1, <2>1, <2>2, <2>3 DEF StreamInv
<1> QED
  BY <1>2, <1>3, SentStream, ByteStream, CutStream DEF Next

\* The layer loses, repeats and swaps no byte.
THEOREM BytesKept == Spec => []NothingLost
<1>1. IInv => TypeOK
  BY DEF IInv
<1>2. StreamInv => NothingLost
  BY DEF StreamInv, Unbroken, NothingLost, Stream
<1>3. TypeOK /\ StreamInv /\ [Next]_vars => StreamInv'
  BY StreamStep
<1> QED
  BY <1>1, <1>2, <1>3, InitStream, Inductive, PTL DEF Spec

\* On the loopback no late answer is taken for the reply to a command that
\* directly follows a break.
THEOREM LoopbackFresh == Spec => []FreshOnLoopback
<1>1. IInv => TypeOK
  BY DEF IInv
<1>2. TypeOK /\ StreamInv => FreshOnLoopback
  <2> SUFFICES ASSUME TypeOK, StreamInv, dev.inside, fresh,
                      NEW i \in 1 .. Len(heard)
               PROVE  heard[i].cmd = cmds
    BY DEF FreshOnLoopback, RepliesAreFresh
  <2>1. /\ Len(heard) \in Nat /\ Len(heard \o got) \in Nat /\ Len(rx) \in Nat
        /\ Len(got) \in Nat
        /\ Len(Stream) = Len(heard) + Len(got) + Len(rx)
    BY Unfold, ConcatProperties DEF Stream
  <2>2. (heard \o got)[i] = heard[i] /\ Stream[i] = (heard \o got)[i]
    BY <2>1, Unfold, ConcatProperties DEF Stream
  <2> QED
    BY <2>1, <2>2 DEF StreamInv, AllOf
<1>3. TypeOK /\ StreamInv /\ [Next]_vars => StreamInv'
  BY StreamStep
<1> QED
  BY <1>1, <1>2, <1>3, InitStream, Inductive, PTL DEF Spec

-----------------------------------------------------------------------------
(* A thread that is never late (Jitter = 0): it reads the clock when it has *)
(* read a byte, and reads a byte when it has come.                          *)

\* A recv that has found nothing looks at a clock no older than what came
\* since; one that returned empty-handed has waited for its deadline.
Since(t) == \A i \in DOMAIN rx : rx[i].at >= t
PunctualInv ==
  /\ pc = "sampled" /\ got = <<>> => Since(now)
  /\ Rested /\ pos = 0 => now >= deadline /\ Since(deadline)

\* A byte no older than t behind bytes no older than t.
LEMMA SinceMore ==
  ASSUME TypeOK, NEW t \in Nat, Since(t), NEW b \in Bytes, b.at >= t,
         rx' = Append(rx, b)
  PROVE  \A i \in DOMAIN rx' : rx'[i].at >= t
<1>1. rx \in Seq(Bytes)
  BY DEF TypeOK
<1>2. \A i \in DOMAIN Append(rx, b) :
        (i \in DOMAIN rx /\ Append(rx, b)[i] = rx[i]) \/ Append(rx, b)[i] = b
  BY <1>1
<1> QED
  BY <1>2 DEF Since

\* The character a sensor sends lands, stamped, behind the others.
LEMMA SentByte ==
  ASSUME TypeOK, SensorByte
  PROVE  \E b \in Bytes :
           /\ rx' = Append(rx, b) /\ b.at = now /\ b.cmd = dev.cmd
           /\ b.c = Head(dev.out)
<1> DEFINE b == [c |-> Head(dev.out), cmd |-> dev.cmd, at |-> now,
                 id |-> dev.sent + 1]
<1>0. dev \in Devices /\ now \in Nat /\ dev.out # <<>>
  BY DEF SensorByte, TypeOK
<1>a. dev.out \in Seq(Chars) /\ dev.cmd \in Nat /\ dev.sent \in Nat
  BY <1>0 DEF Devices
<1>1. /\ dev.out \in Seq(Chars) /\ dev.out # <<>>
      /\ dev.cmd \in Nat /\ dev.sent + 1 \in Nat /\ now \in Nat
  BY <1>0, <1>a
<1>2. Head(dev.out) \in Chars
  BY <1>1, HeadTailProperties
<1>3. \A c \in Chars, k, t, i \in Nat :
        [c |-> c, cmd |-> k, at |-> t, id |-> i] \in Bytes
  BY DEF Bytes
<1>4. b \in Bytes
  BY <1>1, <1>2, <1>3
<1>5. rx' = Append(rx, b)
  BY DEF SensorByte
<1> QED
  BY <1>4, <1>5

\* Nothing comes between a read that finds nothing and its look at the clock
\* but what comes at that time.
LEMMA PunctualStep ==
  ASSUME Jitter = 0, TypeOK, PunctualInv, [Next]_vars
  PROVE  PunctualInv'
<1> USE DEF Rested
<1>1. CASE BreakOn \/ BreakOff \/ Send \/ Sent \/ Recv
  <2>1. pc' \in {"breaking", "woken", "sending", "waiting", "reading"}
    BY <1>1 DEF BreakOn, BreakOff, Send, Sent, Recv
  <2> QED
    BY <2>1 DEF PunctualInv
<1>2. CASE Read
  <2>1. CASE rx = <<>>
    <3>1. pc' = "sampled" /\ rx' = <<>>
      BY <1>2, <2>1 DEF Read
    <3> QED
      BY <3>1 DEF PunctualInv, Since
  <2>2. CASE rx # <<>>
    <3>1. pc' = "sampled" /\ got' = <<Head(rx)>>
      BY <1>2, <2>2 DEF Read
    <3>2. <<Head(rx)>> # <<>>
      OBVIOUS
    <3> QED
      BY <3>1, <3>2 DEF PunctualInv
  <2> QED
    BY <2>1, <2>2
<1>3. CASE Store
  <2>1. pc' \in {"idle", "reading"} /\ pos' # 0
    BY <1>3 DEF Store, TypeOK
  <2> QED
    BY <2>1 DEF PunctualInv
<1>4. CASE Quiet
  <2>1. /\ UNCHANGED <<now, rx, deadline>> /\ now \in Nat /\ deadline \in Nat
        /\ pc' \in {"idle", "reading"} /\ (pc' = "idle" => now >= deadline)
        /\ Since(now) /\ rx \in Seq(Bytes)
    BY <1>4 DEF Quiet, Expired, locals, TypeOK, PunctualInv
  <2>2. now >= deadline => Since(deadline)
    <3> SUFFICES ASSUME now >= deadline, NEW i \in DOMAIN rx
                 PROVE  rx[i].at >= deadline
      BY DEF Since
    <3>1. rx[i] \in Bytes
      BY <2>1
    <3>2. rx[i].at >= now /\ rx[i].at \in Nat
      BY <2>1, <3>1 DEF Since, Bytes
    <3> QED
      BY <2>1, <3>2
  <2> QED
    BY <2>1, <2>2 DEF PunctualInv, Since
<1>5. CASE SetBinary
  <2>1. calls' = 0 /\ pc' = "idle"
    BY <1>5 DEF SetBinary
  <2> QED
    BY <2>1 DEF PunctualInv
<1>6. CASE SensorByte
  <2>1. PICK b \in Bytes : rx' = Append(rx, b) /\ b.at = now
    BY <1>6, SentByte
  <2>2. UNCHANGED <<now, pc, calls, pos, got, deadline>>
    BY <1>6 DEF SensorByte, locals, ghosts
  <2>3. now \in Nat /\ deadline \in Nat
    BY DEF TypeOK
  <2>4. Since(now) => \A i \in DOMAIN rx' : rx'[i].at >= now
    BY <2>1, <2>3, SinceMore
  <2>5. Since(deadline) /\ now >= deadline => \A i \in DOMAIN rx' : rx'[i].at >= deadline
    BY <2>1, <2>3, SinceMore
  <2> QED
    BY <2>2, <2>4, <2>5 DEF PunctualInv, Since
<1>7. CASE Tick
  <2>1. /\ pc # "sampled" /\ now' = now + 1
        /\ UNCHANGED <<pc, calls, pos, deadline, rx>>
    BY <1>7 DEF Tick, locals, ghosts
  <2>2. now \in Nat /\ deadline \in Nat
    BY DEF TypeOK
  <2> QED
    BY <2>1, <2>2 DEF PunctualInv, Since
<1>8. CASE UNCHANGED vars
  BY <1>8 DEF vars, locals, ghosts, PunctualInv, Since
<1> QED
  BY <1>1, <1>2, <1>3, <1>4, <1>5, <1>6, <1>7, <1>8 DEF Next

\* A recv of a thread that is never late returns empty-handed only if nothing
\* came before its deadline, for every timeout, reply and order of calls.
THEOREM InTimeHeard == ASSUME Jitter = 0 PROVE Spec => []InTimeAnswerHeard
<1>1. Init => PunctualInv
  BY DEF Init, PunctualInv, Rested
<1>2. TypeOK /\ PunctualInv /\ [Next]_vars => PunctualInv'
  BY PunctualStep
<1>3. TypeOK /\ PunctualInv => InTimeAnswerHeard
  <2> SUFFICES ASSUME TypeOK, PunctualInv, Rested, pos = 0, rx # <<>>
               PROVE  rx[1].at >= deadline
    BY DEF InTimeAnswerHeard
  <2>1. 1 \in DOMAIN rx
    BY DEF TypeOK
  <2> QED
    BY <2>1 DEF PunctualInv, Since
<1> QED
  BY <1>1, <1>2, <1>3, TypeCorrect, PTL DEF Spec

-----------------------------------------------------------------------------
\* No byte answers a command to come; none answers one that is still being
\* sent.
NoneAhead ==
  /\ \A i \in DOMAIN rx : rx[i].cmd <= cmds
  /\ dev.cmd <= cmds
  /\ pc = "sending" => /\ \A i \in DOMAIN rx : rx[i].cmd < cmds
                       /\ dev.out # <<>> => dev.cmd < cmds
  /\ pc \in {"sending", "waiting"} => heard = <<>>
  /\ Receiving => calls > 0

\* A byte of a buffer put behind others.
LEMMA Appended ==
  ASSUME NEW s \in Seq(Bytes), NEW b \in Bytes
  PROVE  /\ Append(s, b) \in Seq(Bytes) /\ Append(s, b) # <<>>
         /\ Len(Append(s, b)) = Len(s) + 1 /\ Append(s, b)[Len(s) + 1] = b
         /\ \A i \in DOMAIN s : Append(s, b)[i] = s[i]
         /\ \A i \in DOMAIN Append(s, b) :
              (i \in DOMAIN s /\ Append(s, b)[i] = s[i]) \/ Append(s, b)[i] = b
  OBVIOUS

\* A command that has gone out is answered inside the program, or handed to a
\* sensor that is free, or lost on one that is not.
LEMMA SentCases ==
  ASSUME TypeOK, Sent
  PROVE  \/ /\ dev.inside /\ dev'.cmd = dev.cmd /\ dev'.at = dev.at
            /\ dev'.out = dev.out
            /\ \E t \in Seq(Bytes) :
                 /\ rx' = rx \o t
                 /\ \A i \in DOMAIN t : t[i].cmd = cmds /\ t[i].at = now
         \/ /\ ~dev.inside /\ dev'.cmd = cmds /\ dev'.at = now
            /\ dev'.line = "quiet" /\ rx' = rx
         \/ dev' = dev /\ rx' = rx
<1>1. PICK reply \in Replies \cup {<<>>} :
        IF dev.inside
        THEN /\ rx' = rx \o Stamped(reply)
             /\ dev' = [dev EXCEPT !.sent = @ + Len(reply)]
        ELSE /\ dev' = IF dev.out = <<>>
                       THEN [dev EXCEPT !.out = reply, !.cmd = cmds, !.at = now,
                                        !.line = "quiet"]
                       ELSE dev
             /\ UNCHANGED rx
  BY DEF Sent
<1>2. dev \in Devices
  BY DEF TypeOK
<1>3. CASE dev.inside
  <2>1. Stamped(reply) \in Seq(Bytes) /\ reply \in Seq(Chars)
    BY StampedType
  <2>2. \A i \in DOMAIN Stamped(reply) :
          Stamped(reply)[i].cmd = cmds /\ Stamped(reply)[i].at = now
    BY DEF Stamped
  <2>3. dev'.cmd = dev.cmd /\ dev'.at = dev.at /\ dev'.out = dev.out
    BY <1>1, <1>2, <1>3 DEF Devices
  <2>4. rx' = rx \o Stamped(reply)
    BY <1>1, <1>3
  <2> QED
    BY <1>3, <2>1, <2>2, <2>3, <2>4
<1>4. CASE ~dev.inside /\ dev.out = <<>>
  BY <1>1, <1>2, <1>4 DEF Devices
<1>5. CASE ~dev.inside /\ dev.out # <<>>
  BY <1>1, <1>5
<1> QED
  BY <1>3, <1>4, <1>5

\* The sensor inside the program has nothing left to send.
LEMMA SentOut ==
  ASSUME TypeOK, Hands, Sent
  PROVE  \/ dev'.at = dev.at /\ dev'.out = <<>>
         \/ dev'.at = now /\ dev'.line = "quiet" /\ ~dev.inside
         \/ dev' = dev
  BY SentCases DEF Hands

\* Bytes behind bytes.
LEMMA Behind ==
  ASSUME NEW s \in Seq(Bytes), NEW t \in Seq(Bytes), NEW i \in DOMAIN (s \o t)
  PROVE  \/ i \in DOMAIN s /\ (s \o t)[i] = s[i]
         \/ i - Len(s) \in DOMAIN t /\ (s \o t)[i] = t[i - Len(s)]
  BY ConcatProperties

\* The clock and the stamps do not say whom a byte answers.
LEMMA NoneAheadStep == TypeOK /\ NoneAhead /\ Hands /\ [Next]_vars => NoneAhead'
<1> SUFFICES ASSUME TypeOK, NoneAhead, Hands, [Next]_vars PROVE NoneAhead'
  OBVIOUS
<1> USE DEF NoneAhead, Receiving
<1>0. /\ rx \in Seq(Bytes) /\ cmds \in Nat /\ dev \in Devices /\ calls \in Nat
      /\ \A i \in DOMAIN rx : rx[i].cmd \in Nat
      /\ dev.cmd \in Nat
  <2>1. rx \in Seq(Bytes) /\ cmds \in Nat /\ dev \in Devices /\ calls \in Nat
    BY DEF TypeOK
  <2>2. \A i \in DOMAIN rx : rx[i] \in Bytes
    BY <2>1
  <2> QED
    BY <2>1, <2>2 DEF Bytes, Devices
<1>1. CASE BreakOn
  <2>1. /\ rx' = rx /\ cmds' = cmds /\ dev'.cmd = dev.cmd /\ pc' = "breaking"
    BY <1>0, <1>1 DEF BreakOn, ghosts, Devices
  <2> QED
    BY <2>1
<1>2. CASE BreakOff
  <2>1. /\ rx' = <<>> \/ rx' = rx
        /\ cmds' = cmds /\ dev' = dev /\ pc' = "woken"
    BY <1>2 DEF BreakOff, AfterBreak, ghosts
  <2>2. \A i \in DOMAIN rx' : i \in DOMAIN rx /\ rx'[i] = rx[i]
    BY <2>1
  <2> QED
    BY <2>1, <2>2
<1>3. CASE Send
  <2>1. /\ rx' = rx /\ dev' = dev /\ heard' = <<>> /\ cmds' = cmds + 1
        /\ pc' = "sending"
    BY <1>3 DEF Send
  <2> QED
    BY <1>0, <2>1
<1>4. CASE Sent
  <2>1. /\ cmds' = cmds /\ heard' = heard /\ pc = "sending" /\ pc' = "waiting"
    BY <1>4 DEF Sent, ghosts
  <2>2. dev'.cmd <= cmds
    BY <1>0, <1>4, SentCases
  <2>3. \A i \in DOMAIN rx' : rx'[i].cmd <= cmds
    <3>1. CASE rx' = rx
      BY <3>1
    <3>2. CASE \E t \in Seq(Bytes) :
                 /\ rx' = rx \o t
                 /\ \A i \in DOMAIN t : t[i].cmd = cmds /\ t[i].at = now
      <4>1. PICK t \in Seq(Bytes) :
                 /\ rx' = rx \o t
                 /\ \A i \in DOMAIN t : t[i].cmd = cmds /\ t[i].at = now
        BY <3>2
      <4> SUFFICES ASSUME NEW i \in DOMAIN rx' PROVE rx'[i].cmd <= cmds
        OBVIOUS
      <4>2. \/ i \in DOMAIN rx /\ rx'[i] = rx[i]
            \/ i - Len(rx) \in DOMAIN t /\ rx'[i] = t[i - Len(rx)]
        BY <1>0, <4>1, Behind
      <4> QED
        BY <1>0, <4>1, <4>2
    <3> QED
      BY <1>4, <3>1, <3>2, SentCases
  <2> QED
    BY <2>1, <2>2, <2>3
<1>5. CASE Recv
  <2>1. /\ rx' = rx /\ dev' = dev /\ cmds' = cmds /\ pc' = "reading"
        /\ calls' = calls + 1
    BY <1>5 DEF Recv
  <2> QED
    BY <1>0, <2>1
<1>6. CASE Read
  <2>1. dev' = dev /\ cmds' = cmds /\ pc' = "sampled" /\ calls' = calls /\ calls > 0
    BY <1>6 DEF Read, ghosts
  <2>2. \A i \in DOMAIN rx' : rx'[i].cmd <= cmds
    <3>1. CASE rx = <<>>
      BY <1>6, <3>1 DEF Read
    <3>2. CASE rx # <<>>
      <4>1. rx' = Tail(rx)
        BY <1>6, <3>2 DEF Read
      <4>2. \A i \in DOMAIN Tail(rx) : i + 1 \in DOMAIN rx /\ Tail(rx)[i] = rx[i + 1]
        BY <1>0, <3>2, HeadTailProperties
      <4> QED
        BY <4>1, <4>2
    <3> QED
      BY <3>1, <3>2
  <2> QED
    BY <2>1, <2>2
<1>7. CASE Store
  <2>1. /\ rx' = rx /\ dev' = dev /\ cmds' = cmds /\ calls' = calls
        /\ calls > 0 /\ pc' \in {"idle", "reading"}
    BY <1>7 DEF Store
  <2> QED
    BY <2>1
<1>8. CASE SensorByte
  <2>1. PICK b \in Bytes : rx' = Append(rx, b) /\ b.cmd = dev.cmd
    BY <1>8, SentByte
  <2>2. /\ dev'.cmd = dev.cmd /\ dev.out # <<>>
        /\ UNCHANGED <<pc, cmds, heard, calls>>
    BY <1>0, <1>8 DEF SensorByte, ghosts, Devices
  <2>3. \A i \in DOMAIN rx' : (i \in DOMAIN rx /\ rx'[i] = rx[i]) \/ rx'[i] = b
    BY <1>0, <2>1, Appended
  <2> QED
    BY <1>0, <2>1, <2>2, <2>3
<1>9. CASE Quiet
  BY <1>9 DEF Quiet, ghosts
<1>10. CASE SetBinary
  BY <1>10 DEF SetBinary
<1>11. CASE Tick \/ UNCHANGED vars
  BY <1>11 DEF Tick, vars, ghosts
<1> QED
  BY <1>1, <1>2, <1>3, <1>4, <1>5, <1>6, <1>7, <1>8, <1>9, <1>10, <1>11
     DEF Next

\* Whose byte is first, and what it was stamped with.
Opening ==
  calls = 1 /\ (Receiving \/ pc = "idle")
    => /\ pos = 0 <=> heard = <<>>
       /\ heard # <<>> => respStart >= cmdEnd
       /\ heard # <<>> /\ heard[1].cmd = cmds => respStart = heard[1].at

\* What answers the command is read as it comes, while the thread attends to
\* the line.
Attending == pc \in {"waiting", "idle", "reading", "sampled"}
Prompt(s) == \A i \in DOMAIN s : s[i].cmd = cmds => s[i].at = now
FirstInv ==
  /\ pc = "waiting" => now = cmdEnd
  /\ pc = "waiting" \/ calls > 0 => cmdEnd > 0
  /\ Attending => Prompt(rx) /\ Prompt(got)
  /\ Opening

\* What the sensor is free to say while the layer does not look is prompt.
LEMMA PromptStep ==
  ASSUME Jitter = 0, TypeOK, Hands, NoneAhead, PastStamps, FirstInv,
         [Next]_vars
  PROVE  Attending' => Prompt(rx)' /\ Prompt(got)'
<1> USE DEF FirstInv, Attending, Prompt
<1>0. /\ rx \in Seq(Bytes) /\ got \in Seq(Bytes) /\ now \in Nat /\ cmdEnd \in Nat
      /\ \A i \in DOMAIN rx : rx[i] \in Bytes /\ rx[i].cmd \in Nat
      /\ cmds \in Nat
  <2>1. rx \in Seq(Bytes) /\ got \in Seq(Bytes)
    BY DEF TypeOK
  <2>2. \A i \in DOMAIN rx : rx[i] \in Bytes
    BY <2>1
  <2> QED
    BY <2>1, <2>2 DEF Bytes, TypeOK
<1>1. CASE BreakOn \/ BreakOff \/ Send
  <2>1. pc' \in {"breaking", "woken", "sending"}
    BY <1>1 DEF BreakOn, BreakOff, Send
  <2> QED
    BY <2>1
<1>2. CASE Sent
  <2>1. /\ now' = now /\ cmds' = cmds /\ got' = got /\ got = <<>>
        /\ pc = "sending"
    BY <1>2 DEF Sent, locals, ghosts, Hands
  <2>2. \A i \in DOMAIN rx : rx[i].cmd # cmds
    BY <1>0, <2>1 DEF NoneAhead
  <2>3. \A i \in DOMAIN rx' : rx'[i].cmd = cmds => rx'[i].at = now
    <3>1. CASE rx' = rx
      BY <2>2, <3>1
    <3>2. CASE \E t \in Seq(Bytes) :
                 /\ rx' = rx \o t
                 /\ \A i \in DOMAIN t : t[i].cmd = cmds /\ t[i].at = now
      <4>1. PICK t \in Seq(Bytes) :
                 /\ rx' = rx \o t
                 /\ \A i \in DOMAIN t : t[i].cmd = cmds /\ t[i].at = now
        BY <3>2
      <4> SUFFICES ASSUME NEW i \in DOMAIN rx'
                   PROVE  rx'[i].cmd = cmds => rx'[i].at = now
        OBVIOUS
      <4>2. \/ i \in DOMAIN rx /\ rx'[i] = rx[i]
            \/ i - Len(rx) \in DOMAIN t /\ rx'[i] = t[i - Len(rx)]
        BY <1>0, <4>1, Behind
      <4> QED
        BY <2>2, <4>1, <4>2
    <3> QED
      BY <1>2, <3>1, <3>2, SentCases
  <2> QED
    BY <2>1, <2>3
<1>3. CASE Recv \/ Store \/ Quiet
  <2>1. /\ rx' = rx /\ got' = <<>> /\ cmds' = cmds /\ now' = now
        /\ pc \in {"waiting", "idle", "sampled"}
    BY <1>3 DEF Recv, Store, Quiet, locals, ghosts
  <2> QED
    BY <2>1
<1>4. CASE Read
  <2>1. cmds' = cmds /\ now' = now /\ pc = "reading"
    BY <1>4 DEF Read, ghosts
  <2>2. CASE rx = <<>>
    BY <1>4, <2>1, <2>2 DEF Read
  <2>3. CASE rx # <<>>
    <3>1. rx' = Tail(rx) /\ got' = <<Head(rx)>>
      BY <1>4, <2>3 DEF Read
    <3>2. /\ \A i \in DOMAIN Tail(rx) : i + 1 \in DOMAIN rx /\ Tail(rx)[i] = rx[i + 1]
          /\ 1 \in DOMAIN rx /\ Head(rx) = rx[1]
      BY <1>0, <2>3, HeadTailProperties
    <3>3. \A i \in DOMAIN got' : got'[i] = rx[1]
      BY <3>1, <3>2
    <3>4. \A i \in DOMAIN rx : rx[i].cmd = cmds => rx[i].at = now
      BY <2>1
    <3>5. \A i \in DOMAIN rx' : rx'[i].cmd = cmds => rx'[i].at = now
      BY <3>1, <3>2, <3>4
    <3>6. \A i \in DOMAIN got' : got'[i].cmd = cmds => got'[i].at = now
      BY <3>2, <3>3, <3>4
    <3> QED
      BY <2>1, <3>5, <3>6
  <2> QED
    BY <2>2, <2>3
<1>5. CASE SetBinary \/ UNCHANGED vars
  <2>1. UNCHANGED <<now, pc, rx, got, cmds>>
    BY <1>5 DEF SetBinary, vars, locals, ghosts
  <2> QED
    BY <2>1
<1>6. CASE SensorByte
  <2>1. PICK b \in Bytes : rx' = Append(rx, b) /\ b.at = now
    BY <1>6, SentByte
  <2>2. UNCHANGED <<now, pc, got, cmds>>
    BY <1>6 DEF SensorByte, locals, ghosts
  <2>3. \A i \in DOMAIN rx' : (i \in DOMAIN rx /\ rx'[i] = rx[i]) \/ rx'[i] = b
    BY <1>0, <2>1, Appended
  <2> QED
    BY <2>1, <2>2, <2>3
<1>7. CASE Tick
  <2>1. /\ UNCHANGED <<pc, rx, got, cmds>>
        /\ pc # "sampled" /\ (pc \in {"idle", "reading"} => rx = <<>>)
        /\ pc = "waiting" => now < cmdEnd
    BY <1>0, <1>7 DEF Tick, MayWaitUntil, locals, ghosts
  <2>2. pc # "waiting"
    BY <1>0, <2>1
  <2>3. pc \in {"idle", "reading"} => got = <<>>
    BY DEF Hands
  <2> QED
    BY <2>1, <2>2, <2>3
<1> QED
  BY <1>1, <1>2, <1>3, <1>4, <1>5, <1>6, <1>7 DEF Next

\* The first byte of the reply is stamped with the time it came.
LEMMA OpeningStep ==
  ASSUME TypeOK, Hands, NoneAhead, PastStamps, RespAfterCmd, FirstInv,
         [Next]_vars
  PROVE  Opening'
<1> USE DEF FirstInv, Opening, Receiving, Attending, Prompt
<1>0. /\ heard \in Seq(Bytes) /\ got \in Seq(Bytes) /\ now \in Nat
      /\ cmdEnd \in Nat /\ calls \in Nat /\ pos \in Nat
  BY DEF TypeOK
<1>1. CASE BreakOn \/ BreakOff \/ Send \/ Sent
  <2>1. pc' \in {"breaking", "woken", "sending", "waiting"}
    BY <1>1 DEF BreakOn, BreakOff, Send, Sent
  <2> QED
    BY <2>1
<1>2. CASE SetBinary
  BY <1>2 DEF SetBinary
<1>3. CASE Recv
  <2>1. calls' = 1 => pc = "waiting"
    BY <1>0, <1>3 DEF Recv
  <2>2. pos' = 0 /\ heard' = heard
    BY <1>3 DEF Recv
  <2> QED
    BY <2>1, <2>2 DEF NoneAhead
<1>4. CASE Store
  <2>1. /\ calls' = calls /\ cmds' = cmds /\ pos' = pos + 1 /\ cmdEnd' = cmdEnd
        /\ heard' = Append(heard, got[1]) /\ pc = "sampled" /\ got # <<>>
        /\ respStart' = IF pos = 0 THEN now ELSE respStart
    BY <1>4 DEF Store, stamps
  <2>2. got[1] \in Bytes /\ 1 \in DOMAIN got
    BY <1>0, <2>1
  <2>3. /\ heard' # <<>>
        /\ heard = <<>> => heard'[1] = got[1]
        /\ heard # <<>> => heard'[1] = heard[1]
    <3>1. CASE heard = <<>>
      BY <1>0, <2>1, <2>2, <3>1
    <3>2. CASE heard # <<>>
      BY <1>0, <2>1, <2>2, <3>2, Appended
    <3> QED
      BY <3>1, <3>2
  <2>4. CASE calls = 1 /\ pos = 0
    <3>1. heard = <<>> /\ (got[1].cmd = cmds => got[1].at = now)
      BY <2>1, <2>2, <2>4
    <3>2. respStart' = now /\ now >= cmdEnd
      BY <2>1, <2>4 DEF PastStamps
    <3> QED
      BY <1>0, <2>1, <2>3, <3>1, <3>2
  <2>5. CASE calls = 1 /\ pos # 0
    <3>1. heard # <<>> /\ respStart' = respStart
      BY <2>1, <2>5
    <3> QED
      BY <1>0, <2>1, <2>3, <2>5, <3>1
  <2>6. CASE calls # 1
    BY <2>1, <2>6
  <2> QED
    BY <2>4, <2>5, <2>6
<1>5. CASE Read \/ Quiet
  <2>1. /\ UNCHANGED <<calls, pos, heard, respStart, cmdEnd, cmds>>
        /\ pc \in {"reading", "sampled"}
    BY <1>5 DEF Read, Quiet, locals, ghosts, stamps, resp
  <2> QED
    BY <2>1
<1>6. CASE SensorByte \/ Tick \/ UNCHANGED vars
  <2>1. UNCHANGED <<pc, calls, pos, heard, respStart, cmdEnd, cmds>>
    BY <1>6 DEF SensorByte, Tick, vars, locals, ghosts, stamps, resp
  <2> QED
    BY <2>1
<1> QED
  BY <1>1, <1>2, <1>3, <1>4, <1>5, <1>6 DEF Next

\* Both, with the end of the command they are measured from.
LEMMA FirstStep ==
  ASSUME Jitter = 0, IInv, Hands, NoneAhead, FirstInv, [Next]_vars
  PROVE  FirstInv'
<1>0. /\ TypeOK /\ PastStamps /\ RespAfterCmd
      /\ now \in Nat /\ cmdEnd \in Nat /\ cmdStart \in Nat /\ calls \in Nat
  BY DEF IInv, TypeOK
<1>1. pc' = "waiting" => now' = cmdEnd'
  <2>1. CASE Sent
    BY <2>1 DEF Sent
  <2>2. CASE Tick
    <3>1. pc = "waiting" => now < cmdEnd
      BY <1>0, <2>2 DEF Tick, MayWaitUntil
    <3>2. pc' = pc
      BY <2>2 DEF Tick
    <3> QED
      BY <1>0, <3>1, <3>2 DEF FirstInv
  <2>3. CASE SensorByte \/ UNCHANGED vars
    BY <2>3 DEF SensorByte, vars, stamps, FirstInv
  <2>4. CASE BreakOn \/ BreakOff \/ Send \/ Recv \/ Read \/ Store \/ Quiet \/ SetBinary
    <3>1. pc' # "waiting"
      BY <2>4 DEF BreakOn, BreakOff, Send, Recv, Read, Store, Quiet, SetBinary
    <3> QED
      BY <3>1
  <2> QED
    BY <2>1, <2>2, <2>3, <2>4 DEF Next
<1>2. pc' = "waiting" \/ calls' > 0 => cmdEnd' > 0
  <2>1. CASE Sent
    <3>1. now >= cmdStart + CmdTime /\ cmdEnd' = now
      BY <2>1 DEF Sent
    <3> QED
      BY <1>0, <3>1, TimesAreNaturals
  <2>2. CASE Send \/ SetBinary
    BY <2>2 DEF Send, SetBinary
  <2>3. CASE Recv
    <3>1. cmdEnd' = cmdEnd /\ (pc = "waiting" \/ calls > 0)
      BY <2>3 DEF Recv, stamps
    <3> QED
      BY <3>1 DEF FirstInv
  <2>4. CASE BreakOn \/ BreakOff \/ Read \/ Store \/ Quiet
    <3>1. cmdEnd' = cmdEnd /\ calls' = calls /\ pc' # "waiting"
      BY <2>4 DEF BreakOn, BreakOff, Read, Store, Quiet, stamps, ghosts
    <3> QED
      BY <3>1 DEF FirstInv
  <2>5. CASE SensorByte \/ Tick \/ UNCHANGED vars
    <3>1. UNCHANGED <<cmdEnd, calls, pc>>
      BY <2>5 DEF SensorByte, Tick, vars, stamps, ghosts
    <3> QED
      BY <3>1 DEF FirstInv
  <2> QED
    BY <2>1, <2>2, <2>3, <2>4, <2>5 DEF Next
<1>3. Attending' => Prompt(rx)' /\ Prompt(got)'
  BY <1>0, PromptStep
<1>4. Opening'
  BY <1>0, OpeningStep
<1> QED
  BY <1>1, <1>2, <1>3, <1>4 DEF FirstInv

\* A byte is in hand only while it is looked at, in any state.
LEMMA AlwaysHands == Spec => []Hands
<1>1. Init => Hands
  BY InitStream DEF StreamInv
<1> QED
  BY <1>1, HandsStep, TypeCorrect, PTL DEF Spec

\* No byte answers a command to come, in any state.
LEMMA AlwaysNoneAhead == Spec => []NoneAhead
<1>1. Init => NoneAhead
  BY DEF Init, NoneAhead, Receiving
<1> QED
  BY <1>1, NoneAheadStep, AlwaysHands, TypeCorrect, PTL DEF Spec

\* The first byte of a reply is timed when it comes, in any state.
LEMMA AlwaysFirst == ASSUME Jitter = 0 PROVE Spec => []FirstInv
<1>1. Init => FirstInv
  BY DEF Init, FirstInv, Opening, Receiving, Prompt
<1>2. IInv /\ Hands /\ NoneAhead /\ FirstInv /\ [Next]_vars => FirstInv'
  BY FirstStep
<1> QED
  BY <1>1, <1>2, AlwaysHands, AlwaysNoneAhead, Inductive, PTL DEF Spec

\* The latency a test reads after a one-line reply is the time from the end
\* of the command to the first start bit, for every reply and schedule.
THEOREM LatencyMeasured == ASSUME Jitter = 0 PROVE Spec => []LatencyOfOneLine
<1>1. IInv /\ FirstInv => LatencyOfOneLine
  <2> SUFFICES ASSUME IInv, FirstInv, Rested, calls = 1, OwnReply, heard # <<>>
               PROVE  LatencyUs = Compensated(heard[1].at - cmdEnd)
    BY DEF LatencyOfOneLine, LatencyOfReply
  <2>1. 1 \in DOMAIN heard
    BY DEF IInv, TypeOK
  <2>2. /\ respStart = heard[1].at /\ respStart >= cmdEnd /\ cmdEnd > 0
    BY <2>1 DEF FirstInv, Opening, Rested, OwnReply
  <2>3. respStart \in Nat /\ cmdEnd \in Nat
    BY DEF IInv, TypeOK
  <2>4. respStart # 0 /\ cmdEnd # 0
    BY <2>2, <2>3
  <2> QED
    BY <2>2, <2>4 DEF LatencyUs
<1> QED
  BY <1>1, AlwaysFirst, Inductive, PTL

-----------------------------------------------------------------------------
\* What the sensor sent last says where in a line it is, and in a line its
\* next character comes at once.
Any    == rx # <<>> \/ got # <<>> \/ heard # <<>>
Newest == IF rx # <<>> THEN rx[Len(rx)]
          ELSE IF got # <<>> THEN got[1] ELSE heard[Len(heard)]
InLine ==
  dev.out # <<>> /\ Any /\ Newest.cmd = dev.cmd /\ Newest.c # LF
    => dev.line = "mid"
LineInv ==
  /\ dev.at <= now
  /\ dev.out # <<>> /\ dev.line = "mid" => now <= dev.at + CharTime
  /\ InLine

\* While a line is read, its next character comes, or has come, no later than
\* a character time after the one before it.
Before == heard[Len(heard)]
OpenInv ==
  Receiving /\ pos > 0 /\ ~binary =>
    /\ got # <<>> /\ got[1].cmd = Before.cmd => now <= respEnd + CharTime
    /\ got = <<>> /\ rx # <<>> /\ rx[1].cmd = Before.cmd
         => now <= respEnd + CharTime
    /\ got = <<>> /\ rx = <<>> /\ dev.out # <<>> /\ dev.cmd = Before.cmd
         => dev.line = "mid" /\ dev.at <= respEnd

\* What was stamped of a line came back to back.
BackToBack == \A i \in 2 .. Len(byteTimes) : byteTimes[i] - byteTimes[i - 1] <= CharTime
GapInv ==
  calls > 0 /\ (Receiving \/ pc = "idle") /\ ~binary /\ OwnReply => BackToBack

-----------------------------------------------------------------------------
\* The sensor keeps its pace ...
LEMMA PaceStep ==
  ASSUME TypeOK, Hands, LineInv, [Next]_vars
  PROVE  /\ dev'.at <= now'
         /\ dev'.out # <<>> /\ dev'.line = "mid" => now' <= dev'.at + CharTime
<1> USE DEF LineInv
<1>0. /\ dev \in Devices /\ dev.at \in Nat /\ now \in Nat /\ CharTime \in Nat
      /\ cmds \in Nat
  BY TimesAreNaturals DEF TypeOK, Devices
<1>1. CASE BreakOn
  <2>1. dev'.out = <<>> /\ dev'.at = dev.at /\ now' = now
    BY <1>0, <1>1 DEF BreakOn, Devices
  <2> QED
    BY <2>1
<1>2. CASE Sent
  <2>1. now' = now
    BY <1>2 DEF Sent
  <2>2. \/ dev'.at = dev.at /\ dev'.out = <<>>
        \/ dev'.at = now /\ dev'.line = "quiet"
        \/ dev' = dev
    BY <1>2, SentOut
  <2> QED
    BY <1>0, <2>1, <2>2
<1>3. CASE SensorByte
  <2>1. dev'.at = now /\ now' = now
    BY <1>0, <1>3 DEF SensorByte, Devices
  <2> QED
    BY <1>0, <2>1
<1>4. CASE Tick
  <2>1. dev' = dev /\ now' = now + 1 /\ ~SensorMustSend
    BY <1>4 DEF Tick
  <2>2. dev.out # <<>> /\ dev.line = "mid" => now < dev.at + CharTime
    BY <1>0, <2>1 DEF SensorMustSend
  <2> QED
    BY <1>0, <2>1, <2>2
<1>5. CASE BreakOff \/ Send \/ Recv \/ Read \/ Store \/ Quiet \/ SetBinary \/ UNCHANGED vars
  <2>1. dev' = dev /\ now' = now
    BY <1>5 DEF BreakOff, Send, Recv, Read, Store, Quiet, SetBinary, vars
  <2> QED
    BY <2>1
<1> QED
  BY <1>1, <1>2, <1>3, <1>4, <1>5 DEF Next

\* ... and is where what came last says it is.
LEMMA InLineStep ==
  ASSUME TypeOK, Hands, NoneAhead, InLine, [Next]_vars
  PROVE  InLine'
<1>0. /\ rx \in Seq(Bytes) /\ got \in Seq(Bytes) /\ heard \in Seq(Bytes)
      /\ dev \in Devices /\ dev.out \in Seq(Chars) /\ cmds \in Nat
      /\ Len(got) <= 1
  BY DEF TypeOK, Devices
<1>1. CASE BreakOn
  <2>1. dev'.out = <<>>
    BY <1>0, <1>1 DEF BreakOn, Devices
  <2> QED
    BY <2>1 DEF InLine
<1>2. CASE BreakOff
  <2>1. /\ dev' = dev /\ heard' = heard /\ got' = got
        /\ dev.inside \/ rx' = rx
    BY <1>2 DEF BreakOff, AfterBreak, locals, ghosts
  <2>2. CASE dev.inside
    <3>1. dev'.out = <<>>
      BY <2>1, <2>2 DEF Hands
    <3> QED
      BY <3>1 DEF InLine
  <2>3. CASE rx' = rx
    BY <2>1, <2>3 DEF InLine, Any, Newest
  <2> QED
    BY <2>1, <2>2, <2>3
<1>3. CASE Send
  <2>1. /\ dev' = dev /\ rx' = rx /\ heard' = <<>> /\ got' = got /\ got = <<>>
    BY <1>3 DEF Send, locals, Hands
  <2> QED
    BY <2>1 DEF InLine, Any, Newest
<1>4. CASE Sent
  <2>1. /\ heard' = heard /\ got' = got /\ heard = <<>> /\ got = <<>>
        /\ pc = "sending"
    BY <1>4 DEF Sent, locals, ghosts, Hands, NoneAhead
  <2>2. CASE dev.inside
    <3>1. dev'.out = <<>>
      BY <1>4, <2>2, SentOut DEF Hands
    <3> QED
      BY <3>1 DEF InLine
  <2>3. CASE dev' = dev /\ rx' = rx
    BY <2>1, <2>3 DEF InLine, Any, Newest
  <2>4. CASE dev'.cmd = cmds /\ rx' = rx
    <3>1. CASE rx = <<>>
      BY <2>1, <2>4, <3>1 DEF InLine, Any
    <3>2. CASE rx # <<>>
      <4>1. Len(rx) \in DOMAIN rx /\ rx[Len(rx)] \in Bytes
        BY <1>0, <3>2
      <4>2. rx[Len(rx)].cmd < cmds /\ rx[Len(rx)].cmd \in Nat
        BY <2>1, <4>1 DEF NoneAhead, Bytes
      <4>3. rx[Len(rx)].cmd # cmds
        BY <1>0, <4>2
      <4>4. rx' # <<>> /\ rx'[Len(rx')] = rx[Len(rx)]
        BY <2>4, <3>2
      <4> QED
        BY <2>4, <4>3, <4>4 DEF InLine, Newest
    <3> QED
      BY <3>1, <3>2
  <2> QED
    BY <1>4, <2>2, <2>3, <2>4, SentCases
<1>5. CASE Recv
  <2>1. /\ dev' = dev /\ rx' = rx /\ heard' = heard /\ got' = <<>> /\ got = <<>>
    BY <1>5 DEF Recv, Hands
  <2> QED
    BY <2>1 DEF InLine, Any, Newest
<1>6. CASE Read
  <2>1. dev' = dev /\ heard' = heard /\ got = <<>>
    BY <1>6 DEF Read, ghosts, Hands
  <2>2. CASE rx = <<>>
    <3>1. rx' = rx /\ got' = got
      BY <1>6, <2>1, <2>2 DEF Read
    <3> QED
      BY <2>1, <3>1 DEF InLine, Any, Newest
  <2>3. CASE rx # <<>>
    <3>1. rx' = Tail(rx) /\ got' = <<Head(rx)>>
      BY <1>6, <2>3 DEF Read
    <3>2. Tail(rx) # <<>> => Tail(rx)[Len(Tail(rx))] = rx[Len(rx)]
      BY <1>0, <2>3, HeadTailProperties
    <3>3. Tail(rx) = <<>> => Head(rx) = rx[Len(rx)]
      <4>1. Len(Tail(rx)) = Len(rx) - 1 /\ Head(rx) = rx[1] /\ Len(rx) \in Nat
        BY <1>0, <2>3, HeadTailProperties
      <4>e. Len(<<>>) = 0
        OBVIOUS
      <4>2. Tail(rx) = <<>> => Len(Tail(rx)) = 0
        BY <4>e, Zenon
      <4>3. Tail(rx) = <<>> => Len(rx) = 1
        BY <4>1, <4>2
      <4> QED
        BY <4>1, <4>3, Zenon
    <3>4. Newest' = rx[Len(rx)]
      BY <3>1, <3>2, <3>3 DEF Newest
    <3>5. Newest = rx[Len(rx)] /\ Any
      BY <2>3 DEF Newest, Any
    <3> QED
      BY <2>1, <3>4, <3>5 DEF InLine
  <2> QED
    BY <2>2, <2>3
<1>7. CASE Store
  <2>1. /\ dev' = dev /\ rx' = rx /\ heard' = Append(heard, got[1])
        /\ got' = <<>> /\ got # <<>>
    BY <1>7 DEF Store
  <2>2. got[1] \in Bytes
    BY <1>0, <2>1
  <2>3. Newest' = Newest /\ Any
    <3>1. heard'[Len(heard')] = got[1]
      BY <1>0, <2>1, <2>2, Appended
    <3> QED
      BY <2>1, <3>1 DEF Newest, Any
  <2> QED
    BY <2>1, <2>3 DEF InLine
<1>8. CASE SensorByte
  <2>1. PICK b \in Bytes : rx' = Append(rx, b) /\ b.c = Head(dev.out)
    BY <1>8, SentByte
  <2>2. rx' # <<>> /\ rx'[Len(rx')] = b
    BY <1>0, <2>1, Appended
  <2>3. dev'.line = IF Head(dev.out) = LF THEN "between" ELSE "mid"
    BY <1>0, <1>8 DEF SensorByte, Devices
  <2>4. Newest' = b
    BY <2>2 DEF Newest
  <2> QED
    BY <2>1, <2>3, <2>4 DEF InLine
<1>9. CASE Quiet \/ SetBinary \/ Tick \/ UNCHANGED vars
  <2>1. UNCHANGED <<dev, rx, got, heard>>
    BY <1>9 DEF Quiet, SetBinary, Tick, vars, locals, ghosts
  <2> QED
    BY <2>1 DEF InLine, Any, Newest
<1> QED
  BY <1>1, <1>2, <1>3, <1>4, <1>5, <1>6, <1>7, <1>8, <1>9 DEF Next

\* A thread that is never late reads the next character of a line in time.
LEMMA OpenStep ==
  ASSUME Jitter = 0, TypeOK, Hands, LineInv, NoNewlineYet, OpenInv,
         [Next]_vars
  PROVE  OpenInv'
<1> USE DEF OpenInv, Receiving, Before
<1>0. /\ rx \in Seq(Bytes) /\ got \in Seq(Bytes) /\ heard \in Seq(Bytes)
      /\ now \in Nat /\ respEnd \in Nat /\ CharTime \in Nat /\ pos \in Nat
      /\ dev \in Devices /\ dev.at \in Nat
  BY TimesAreNaturals DEF TypeOK, Devices
<1>1. CASE BreakOn \/ BreakOff \/ Send \/ Sent \/ SetBinary
  <2>1. pc' \in {"breaking", "woken", "sending", "waiting", "idle"}
    BY <1>1 DEF BreakOn, BreakOff, Send, Sent, SetBinary
  <2> QED
    BY <2>1
<1>2. CASE Recv
  BY <1>2 DEF Recv
<1>3. CASE Read
  <2>1. /\ UNCHANGED <<now, respEnd, pos, binary, heard, dev>>
        /\ got = <<>> /\ pc = "reading"
    BY <1>3 DEF Read, ghosts, Hands, resp
  <2>2. CASE rx = <<>>
    <3>1. rx' = <<>> /\ got' = <<>>
      BY <1>3, <2>2 DEF Read
    <3> QED
      BY <2>1, <2>2, <3>1
  <2>3. CASE rx # <<>>
    <3>1. got' = <<Head(rx)>> /\ Head(rx) = rx[1] /\ rx[1] \in Bytes
      BY <1>0, <1>3, <2>3, HeadTailProperties DEF Read
    <3>2. got' # <<>> /\ got'[1] = rx[1]
      BY <3>1
    <3> QED
      BY <2>1, <2>3, <3>2
  <2> QED
    BY <2>2, <2>3
<1>4. CASE Store
  <2>1. /\ UNCHANGED <<now, rx, dev, binary>>
        /\ respEnd' = now /\ got' = <<>> /\ got # <<>>
        /\ heard' = Append(heard, got[1])
        /\ pc' \in {"reading", "sampled"} => ~EndsLine(got[1])
    BY <1>4 DEF Store, Returns
  <2>2. got[1] \in Bytes
    BY <1>0, <2>1
  <2>3. heard'[Len(heard')] = got[1]
    BY <1>0, <2>1, <2>2, Appended
  <2>4. rx = <<>> => Newest = got[1] /\ Any
    BY <2>1 DEF Newest, Any
  <2>5. ~binary /\ Receiving' => got[1].c # LF
    BY <2>1 DEF EndsLine
  <2>6. rx = <<>> /\ dev.out # <<>> /\ dev.cmd = got[1].cmd /\ got[1].c # LF
          => dev.line = "mid"
    BY <2>4 DEF LineInv, InLine
  <2>7. dev.at <= now /\ now <= now + CharTime
    BY <1>0 DEF LineInv
  <2> QED
    BY <2>1, <2>3, <2>5, <2>6, <2>7
<1>5. CASE Quiet
  <2>1. /\ UNCHANGED <<now, respEnd, pos, binary, heard, dev, rx, got>>
        /\ pc = "sampled"
    BY <1>5 DEF Quiet, ghosts, locals, resp
  <2> QED
    BY <2>1
<1>6. CASE SensorByte
  <2>1. PICK b \in Bytes : rx' = Append(rx, b) /\ b.cmd = dev.cmd
    BY <1>6, SentByte
  <2>2. /\ UNCHANGED <<now, respEnd, pos, binary, heard, got, pc>>
        /\ dev.out # <<>>
    BY <1>6 DEF SensorByte, ghosts, locals, resp
  <2>3. rx' # <<>>
    BY <1>0, <2>1, Appended
  <2>4. CASE rx # <<>>
    <3>1. rx'[1] = rx[1]
      BY <1>0, <2>1, <2>4, Appended
    <3> QED
      BY <2>2, <2>3, <2>4, <3>1
  <2>5. CASE rx = <<>>
    <3>1. rx'[1] = b
      <4>1. Len(rx) = 0
        BY <2>5
      <4> QED
        BY <1>0, <2>1, <4>1, Appended
    <3>2. dev.line = "mid" /\ dev.at <= respEnd => now <= respEnd + CharTime
      BY <1>0, <2>2 DEF LineInv
    <3>3. /\ Receiving' /\ pos' > 0 /\ ~binary' /\ got' = <<>> /\ rx'[1].cmd = Before'.cmd
             => now' <= respEnd' + CharTime
      BY <2>1, <2>2, <2>5, <3>1, <3>2
    <3> QED
      BY <2>2, <2>3, <3>3
  <2> QED
    BY <2>4, <2>5
<1>7. CASE Tick
  <2>1. /\ UNCHANGED <<respEnd, pos, binary, heard, got, pc, rx, dev>>
        /\ pc # "sampled" /\ (pc = "reading" => rx = <<>>)
    BY <1>7 DEF Tick, ghosts, locals, resp
  <2>2. pc = "reading" => got = <<>>
    BY DEF Hands
  <2> QED
    BY <2>1, <2>2
<1>8. CASE UNCHANGED vars
  BY <1>8 DEF vars, ghosts, locals, resp
<1> QED
  BY <1>1, <1>2, <1>3, <1>4, <1>5, <1>6, <1>7, <1>8 DEF Next

\* What one recv has stamped so far: nothing before its first byte, then, up to
\* the last stamp there is room for, the time of each byte.
Stamping ==
  calls > 0 /\ (Receiving \/ pc = "idle") =>
    /\ pos = 0 => byteTimes = <<>>
    /\ pos > 0 /\ Len(byteTimes) < MaxBytes
         => byteTimes # <<>> /\ byteTimes[Len(byteTimes)] = respEnd

\* One more stamp, no further than a character from the last.
LEMMA OneMore ==
  ASSUME NEW s \in Seq(Nat), NEW t \in Nat, NEW n \in Nat,
         \A i \in 2 .. Len(s) : s[i] - s[i - 1] <= n,
         s # <<>> => t - s[Len(s)] <= n
  PROVE  \A i \in 2 .. Len(Append(s, t)) :
           Append(s, t)[i] - Append(s, t)[i - 1] <= n
<1> SUFFICES ASSUME NEW i \in 2 .. Len(Append(s, t))
             PROVE  Append(s, t)[i] - Append(s, t)[i - 1] <= n
  OBVIOUS
<1>1. /\ Len(s) \in Nat /\ Len(Append(s, t)) = Len(s) + 1
      /\ Append(s, t)[Len(s) + 1] = t
      /\ \A j \in 1 .. Len(s) : Append(s, t)[j] = s[j]
  BY AppendProperties
<1>2. CASE i <= Len(s)
  <2>1. Append(s, t)[i] = s[i] /\ Append(s, t)[i - 1] = s[i - 1]
    BY <1>1, <1>2
  <2> QED
    BY <1>1, <1>2, <2>1
<1>3. CASE i = Len(s) + 1
  <2>1. s # <<>> /\ i - 1 = Len(s) /\ Len(s) \in 1 .. Len(s)
    BY <1>1, <1>3
  <2>2. Append(s, t)[i] = t /\ Append(s, t)[i - 1] = s[Len(s)]
    BY <1>1, <1>3, <2>1
  <2> QED
    BY <2>1, <2>2
<1> QED
  BY <1>1, <1>2, <1>3

\* A step that stores no byte leaves what was stamped, or forgets it.
LEMMA Unstamped ==
  ASSUME TypeOK, Receiving => calls > 0, [Next]_vars, ~Store,
         calls' > 0 /\ (Receiving' \/ pc' = "idle")
  PROVE  \/ pos' = 0 /\ byteTimes' = <<>>
         \/ /\ UNCHANGED <<pos, byteTimes, respEnd, binary, heard, cmds, calls>>
            /\ calls > 0 /\ (Receiving \/ pc = "idle")
<1> USE DEF Receiving
<1>1. CASE BreakOn \/ BreakOff \/ Send \/ Sent
  <2>1. pc' \in {"breaking", "woken", "sending", "waiting"}
    BY <1>1 DEF BreakOn, BreakOff, Send, Sent
  <2> QED
    BY <2>1
<1>2. CASE Recv
  BY <1>2 DEF Recv, ResetResp
<1>3. CASE SetBinary
  BY <1>3 DEF SetBinary
<1>4. CASE Read \/ Quiet
  <2>1. /\ UNCHANGED <<pos, byteTimes, respEnd, binary, heard, cmds, calls>>
        /\ pc \in {"reading", "sampled"}
    BY <1>4 DEF Read, Quiet, locals, ghosts, resp
  <2> QED
    BY <2>1
<1>5. CASE SensorByte \/ Tick \/ UNCHANGED vars
  <2>1. UNCHANGED <<pc, pos, byteTimes, respEnd, binary, heard, cmds, calls>>
    BY <1>5 DEF SensorByte, Tick, vars, locals, ghosts, resp
  <2> QED
    BY <2>1
<1> QED
  BY <1>1, <1>2, <1>3, <1>4, <1>5 DEF Next

\* A byte is stamped behind the others while there is room.
LEMMA StampingStep ==
  TypeOK /\ NoneAhead /\ Stamping /\ [Next]_vars => Stamping'
<1> SUFFICES ASSUME TypeOK, NoneAhead, Stamping, [Next]_vars PROVE Stamping'
  OBVIOUS
<1> USE DEF Stamping
<1>1. CASE Store
  <2>1. /\ byteTimes' = Recorded(byteTimes) /\ respEnd' = now /\ pos' = pos + 1
        /\ byteTimes \in Seq(Nat) /\ now \in Nat /\ pos \in Nat
        /\ MaxBytes \in Nat
    BY <1>1, SizesArePositive DEF Store, TypeOK
  <2>2. Len(byteTimes') < MaxBytes => Len(byteTimes) < MaxBytes
    BY <2>1 DEF Recorded
  <2>3. Len(byteTimes) < MaxBytes =>
          byteTimes' # <<>> /\ byteTimes'[Len(byteTimes')] = now
    <3> SUFFICES ASSUME Len(byteTimes) < MaxBytes
                 PROVE  byteTimes' # <<>> /\ byteTimes'[Len(byteTimes')] = now
      OBVIOUS
    <3>1. byteTimes' = Append(byteTimes, now)
      BY <2>1 DEF Recorded
    <3> QED
      BY <2>1, <3>1, AppendProperties
  <2> QED
    BY <2>1, <2>2, <2>3
<1>2. CASE ~Store
  <2>1. Receiving => calls > 0
    BY DEF NoneAhead
  <2>2. CASE calls' > 0 /\ (Receiving' \/ pc' = "idle")
    <3>1. CASE pos' = 0 /\ byteTimes' = <<>>
      BY <3>1
    <3>2. CASE /\ UNCHANGED <<pos, byteTimes, respEnd, binary, heard, cmds, calls>>
               /\ calls > 0 /\ (Receiving \/ pc = "idle")
      BY <3>2
    <3> QED
      BY <1>2, <2>1, <2>2, <3>1, <3>2, Unstamped
  <2>3. CASE ~(calls' > 0 /\ (Receiving' \/ pc' = "idle"))
    BY <2>3
  <2> QED
    BY <2>2, <2>3
<1> QED
  BY <1>1, <1>2

\* What is stamped of a line comes back to back.
LEMMA GapStep ==
  ASSUME TypeOK, NoneAhead, NoNewlineYet, OpenInv, Stamping, GapInv,
         [Next]_vars
  PROVE  GapInv'
<1> USE DEF GapInv
<1>1. CASE Store
  <2>1. /\ byteTimes' = Recorded(byteTimes) /\ binary' = binary /\ cmds' = cmds
        /\ heard' = Append(heard, got[1]) /\ got # <<>> /\ pc = "sampled"
        /\ calls' = calls /\ calls > 0
    BY <1>1 DEF Store, NoneAhead, Receiving
  <2>2. /\ byteTimes \in Seq(Nat) /\ now \in Nat /\ pos \in Nat
        /\ CharTime \in Nat /\ respEnd \in Nat /\ heard \in Seq(Bytes)
        /\ got \in Seq(Bytes)
    BY TimesAreNaturals DEF TypeOK
  <2>3. got[1] \in Bytes
    BY <2>1, <2>2
  <2> SUFFICES ASSUME ~binary, OwnReply' PROVE BackToBack'
    BY <2>1
  <2>4. /\ \A i \in DOMAIN heard : heard[i].cmd = cmds
        /\ got[1].cmd = cmds
    <3>1. /\ \A i \in DOMAIN heard : i \in DOMAIN heard' /\ heard'[i] = heard[i]
          /\ Len(heard) + 1 \in DOMAIN heard' /\ heard'[Len(heard) + 1] = got[1]
      BY <2>1, <2>2, <2>3, AppendProperties
    <3> QED
      BY <2>1, <3>1 DEF OwnReply
  <2>5. BackToBack
    BY <2>1, <2>4 DEF OwnReply, Receiving
  <2>6. CASE Len(byteTimes) < MaxBytes
    <3>1. byteTimes' = Append(byteTimes, now)
      BY <2>1, <2>6 DEF Recorded
    <3>2. byteTimes # <<>> => now - byteTimes[Len(byteTimes)] <= CharTime
      <4> SUFFICES ASSUME byteTimes # <<>>
                   PROVE  now - byteTimes[Len(byteTimes)] <= CharTime
        OBVIOUS
      <4>1. pos > 0 /\ byteTimes[Len(byteTimes)] = respEnd
        BY <2>1, <2>2, <2>6 DEF Stamping, Receiving
      <4>2. Len(heard) \in DOMAIN heard
        <5>1. pos <= Len(heard)
          BY <2>1 DEF NoNewlineYet
        <5> QED
          BY <2>2, <4>1, <5>1
      <4>3. got[1].cmd = Before.cmd
        BY <2>4, <4>2 DEF Before
      <4>4. now <= respEnd + CharTime
        BY <2>1, <4>1, <4>3 DEF OpenInv, Receiving
      <4> QED
        BY <2>2, <4>1, <4>4
    <3>3. \A i \in 2 .. Len(byteTimes') :
            byteTimes'[i] - byteTimes'[i - 1] <= CharTime
      BY <2>2, <2>5, <3>1, <3>2, OneMore DEF BackToBack
    <3> QED
      BY <3>3 DEF BackToBack
  <2>7. CASE ~(Len(byteTimes) < MaxBytes)
    BY <2>1, <2>5, <2>7 DEF Recorded, BackToBack
  <2> QED
    BY <2>6, <2>7
<1>2. CASE ~Store
  <2>1. Receiving => calls > 0
    BY DEF NoneAhead
  <2>2. CASE calls' > 0 /\ (Receiving' \/ pc' = "idle")
    <3>1. CASE pos' = 0 /\ byteTimes' = <<>>
      <4>1. Len(byteTimes') = 0
        BY <3>1
      <4> QED
        BY <4>1 DEF BackToBack
    <3>2. CASE /\ UNCHANGED <<pos, byteTimes, respEnd, binary, heard, cmds, calls>>
               /\ calls > 0 /\ (Receiving \/ pc = "idle")
      BY <3>2 DEF BackToBack, OwnReply
    <3> QED
      BY <1>2, <2>1, <2>2, <3>1, <3>2, Unstamped
  <2>3. CASE ~(calls' > 0 /\ (Receiving' \/ pc' = "idle"))
    BY <2>3
  <2> QED
    BY <2>2, <2>3
<1> QED
  BY <1>1, <1>2

\* A gap of zero is the largest of none above it.
LEMMA NoGap ==
  ASSUME TypeOK, BackToBack
  PROVE  MaxIntercharGap = 0
<1> DEFINE gaps == {byteTimes[i] - byteTimes[i - 1] - CharTime :
                      i \in 2 .. Len(byteTimes)}
<1>1. \A g \in {0} \cup gaps : g \in Int /\ g <= 0
  <2> SUFFICES ASSUME NEW i \in 2 .. Len(byteTimes)
               PROVE  /\ byteTimes[i] - byteTimes[i - 1] - CharTime \in Int
                      /\ byteTimes[i] - byteTimes[i - 1] - CharTime <= 0
    OBVIOUS
  <2>1. byteTimes \in Seq(Nat) /\ CharTime \in Nat
    BY TimesAreNaturals DEF TypeOK
  <2>2. byteTimes[i] \in Nat /\ byteTimes[i - 1] \in Nat
    BY <2>1
  <2>3. byteTimes[i] - byteTimes[i - 1] <= CharTime
    BY DEF BackToBack
  <2> QED
    BY <2>1, <2>2, <2>3
<1> HIDE DEF gaps
<1>2. \A g \in {0} \cup gaps : 0 >= g
  BY <1>1
<1>3. \A m \in {0} \cup gaps : (\A g \in {0} \cup gaps : m >= g) => m = 0
  BY <1>1
<1>4. (CHOOSE m \in {0} \cup gaps : \A g \in {0} \cup gaps : m >= g) = 0
  BY <1>2, <1>3
<1> QED
  BY <1>4 DEF MaxIntercharGap, Max, gaps

\* The sensor and the thread keep their pace, in any state.
LEMMA AlwaysPaced == ASSUME Jitter = 0 PROVE Spec => [](LineInv /\ OpenInv)
<1>1. Init => LineInv /\ OpenInv
  <2> SUFFICES ASSUME Init PROVE LineInv /\ OpenInv
    OBVIOUS
  <2>1. dev.out = <<>> /\ dev.at = 0 /\ now = 0 /\ pc = "idle"
    BY DEF Init
  <2> QED
    BY <2>1 DEF LineInv, InLine, OpenInv, Receiving
<1>2. TypeOK /\ Hands /\ NoneAhead /\ LineInv /\ [Next]_vars => LineInv'
  BY PaceStep, InLineStep DEF LineInv
<1>3. TypeOK /\ Hands /\ LineInv /\ NoNewlineYet /\ OpenInv /\ [Next]_vars
        => OpenInv'
  BY OpenStep
<1>4. IInv => TypeOK /\ NoNewlineYet
  BY DEF IInv
<1> QED
  BY <1>1, <1>2, <1>3, <1>4, AlwaysHands, AlwaysNoneAhead, Inductive,
     PTL DEF Spec

\* The characters of a line measure as back to back, and the pause between
\* two lines as none of it, whatever the sensor says and when it says it.
THEOREM GapsMeasured == ASSUME Jitter = 0 PROVE Spec => []NoFalseIntercharGap
<1>1. Init => Stamping /\ GapInv
  BY DEF Init, Stamping, GapInv, Receiving
<1>2. TypeOK /\ NoneAhead /\ Stamping /\ [Next]_vars => Stamping'
  BY StampingStep
<1>3. TypeOK /\ NoneAhead /\ NoNewlineYet /\ OpenInv /\ Stamping /\ GapInv
      /\ [Next]_vars => GapInv'
  BY GapStep
<1>4. TypeOK /\ GapInv => NoFalseIntercharGap
  <2> SUFFICES ASSUME TypeOK, GapInv, Rested, ~binary, OwnReply
               PROVE  MaxIntercharGap = 0
    BY DEF NoFalseIntercharGap
  <2>1. BackToBack
    BY DEF GapInv, Rested
  <2> QED
    BY <2>1, NoGap
<1>5. IInv => TypeOK /\ NoNewlineYet
  BY DEF IInv
<1> QED
  BY <1>1, <1>2, <1>3, <1>4, <1>5, AlwaysPaced, AlwaysNoneAhead, Inductive,
     PTL DEF Spec

-----------------------------------------------------------------------------
(* The gaps between the lines of a reply.  They are measured exactly for   *)
(* the replies the layer is built for: whole lines, no more of them than   *)
(* it has stamps for, none too long for the buffer of one recv.            *)
LineFeeds(r) == {i \in DOMAIN r : r[i] = LF}
RepliesFit ==
  \A r \in Replies :
    /\ r # <<>> => r[Len(r)] = LF
    /\ Cardinality(LineFeeds(r)) <= MaxLines
    /\ \A m \in BufSizes : \A i, j \in DOMAIN r :
         (\A k \in i .. j : r[k] # LF) => j - i + 1 < m

\* What the sensor has yet to send of its answer to the last command, and the
\* i-th character since that command, received or yet to be sent.
Unsent  == IF dev.cmd = cmds THEN dev.out ELSE <<>>
Char(i) == IF i <= Len(Stream) THEN Stream[i].c ELSE Unsent[i - Len(Stream)]

\* Behind the bytes that came late, k of them, is one reply, r.
Splits(k, r) ==
  /\ k + Len(r) = Len(Stream) + Len(Unsent)
  /\ \A i \in 1 .. Len(Stream) : (Stream[i].cmd = cmds <=> i > k)
  /\ \A i \in 1 .. Len(r) : r[i] = Char(k + i)
  /\ dev.out # <<>> /\ dev.cmd # cmds => k = Len(Stream)
ReplyInv ==
  Attending => \E k \in 0 .. Len(Stream), r \in Replies \cup {<<>>} : Splits(k, r)

\* What the call in progress was given, and how long it may wait.
CallInv ==
  Receiving => max \in BufSizes /\ (pos > 0 => deadline = respEnd + IdleTime)

\* The gaps measured so far, the line in progress included, are those heard.
Open     == Receiving /\ pos > 0
LastLine == IF Open THEN lineCount ELSE lineCount - 1
Feeds    == {i \in DOMAIN heard : heard[i].c = LF}
Measured == {<<lineEnd[i - 1], lineStart[i]>> : i \in 1 .. LastLine}
Paused   == {<<heard[i - 1].at, heard[i].at>> :
               i \in {j \in 2 .. Len(heard) : heard[j - 1].c = LF}}
Heard    == pc = "waiting" \/ (calls > 0 /\ (Receiving \/ pc = "idle"))
PauseInv ==
  /\ pc = "sending" => lineCount = 0
  /\ Heard /\ ~binary /\ OwnReply =>
       /\ Cardinality(Feeds) = lineCount
       /\ Measured = Paused
       /\ Open => heard # <<>> /\ lineCount < MaxLines
       /\ ~Open /\ heard # <<>> =>
            /\ heard[Len(heard)].c = LF
            /\ lineCount > 0 /\ lineEnd[lineCount - 1] = heard[Len(heard)].at

-----------------------------------------------------------------------------
\* A character a sensor sends comes behind all that was sent before.
LEMMA StreamByte ==
  ASSUME TypeOK, SensorByte
  PROVE  \E b \in Bytes :
           /\ Stream' = Append(Stream, b) /\ b.cmd = dev.cmd
           /\ b.c = Head(dev.out)
<1> USE Unfold
<1>1. PICK b \in Bytes : rx' = Append(rx, b) /\ b.cmd = dev.cmd /\ b.c = Head(dev.out)
  BY SentByte
<1>2. <<b>> \in Seq(Bytes) /\ rx' = rx \o <<b>>
  BY <1>1, AppendIsConcat
<1>3. heard' = heard /\ got' = got
  BY DEF SensorByte, locals, ghosts
<1>4. ((heard \o got) \o rx) \o <<b>> = (heard \o got) \o (rx \o <<b>>)
  BY <1>2, Associative, Zenon
<1>5. Stream \in Seq(Bytes) /\ Stream' = Stream \o <<b>>
  BY <1>2, <1>3, <1>4 DEF Stream
<1>6. Stream' = Append(Stream, b)
  BY <1>5, AppendIsConcat
<1> QED
  BY <1>1, <1>6

\* A step that sends nothing leaves the reply as it was.
LEMMA SplitsKept ==
  ASSUME Stream' = Stream, dev' = dev, cmds' = cmds, ReplyInv, Attending
  PROVE  ReplyInv'
<1>1. PICK k \in 0 .. Len(Stream), r \in Replies \cup {<<>>} : Splits(k, r)
  BY DEF ReplyInv
<1>2. \A i : Char(i)' = Char(i)
  BY DEF Char, Unsent
<1>3. Splits(k, r)'
  BY <1>1, <1>2 DEF Splits, Unsent
<1> QED
  BY <1>1, <1>3 DEF ReplyInv

\* One more character of the reply, or a late one before it has begun.
LEMMA SplitsByte ==
  ASSUME TypeOK, SensorByte, ReplyInv, Attending
  PROVE  ReplyInv'
<1>1. PICK k \in 0 .. Len(Stream), r \in Replies \cup {<<>>} : Splits(k, r)
  BY DEF ReplyInv
<1>2. PICK b \in Bytes :
        /\ Stream' = Append(Stream, b) /\ b.cmd = dev.cmd /\ b.c = Head(dev.out)
  BY StreamByte
<1>3. /\ dev \in Devices /\ dev.out \in Seq(Chars) /\ dev.out # <<>>
      /\ dev'.cmd = dev.cmd /\ dev'.out = Tail(dev.out) /\ cmds' = cmds
      /\ Stream \in Seq(Bytes) /\ Len(Stream) \in Nat
  <2>1. dev \in Devices /\ cmds' = cmds /\ dev.out # <<>>
    BY DEF SensorByte, TypeOK, ghosts
  <2>2. dev'.cmd = dev.cmd /\ dev'.out = Tail(dev.out) /\ dev.out \in Seq(Chars)
    BY <2>1 DEF SensorByte, Devices
  <2>3. Stream \in Seq(Bytes)
    BY Unfold
  <2>4. Len(Stream) \in Nat
    BY <2>3, LenProperties
  <2> QED
    BY <2>1, <2>2, <2>3, <2>4
<1>4. r \in Seq(Chars) /\ Len(r) \in Nat /\ k \in Nat
      /\ k + Len(r) = Len(Stream) + Len(Unsent)
  <2>1. <<>> \in Seq(Chars)
    BY EmptySeq
  <2>2. r \in Seq(Chars)
    BY <1>1, <2>1, RepliesAreText
  <2> QED
    BY <1>1, <2>2, LenProperties DEF Splits
<1>5. /\ Len(Stream') = Len(Stream) + 1 /\ Stream'[Len(Stream) + 1] = b
      /\ \A i \in 1 .. Len(Stream) : Stream'[i] = Stream[i]
  BY <1>2, <1>3, Appended
<1>6. /\ Len(Tail(dev.out)) = Len(dev.out) - 1 /\ Len(dev.out) \in Nat \ {0}
      /\ Head(dev.out) = dev.out[1]
      /\ \A i \in 1 .. Len(dev.out) - 1 : Tail(dev.out)[i] = dev.out[i + 1]
  BY <1>3, HeadTailProperties
<1>7. CASE dev.cmd = cmds
  <2>1. Unsent = dev.out /\ Unsent' = Tail(dev.out)
    BY <1>3, <1>7 DEF Unsent
  <2>2. k + Len(r) = Len(Stream') + Len(Unsent')
    <3>1. Len(Unsent) = Len(dev.out) /\ Len(Unsent') = Len(dev.out) - 1
      BY <1>6, <2>1
    <3>2. Len(Stream) \in Nat /\ Len(dev.out) \in Nat
      BY <1>3, <1>6
    <3>0. \A m, n \in Nat : (m + 1) + (n - 1) = m + n
      OBVIOUS
    <3>3. (Len(Stream) + 1) + (Len(dev.out) - 1) = Len(Stream) + Len(dev.out)
      BY <3>0, <3>2, Zenon
    <3>4. k + Len(r) = Len(Stream) + Len(dev.out)
      BY <1>4, <3>1
    <3> QED
      BY <1>5, <3>1, <3>3, <3>4, Zenon
  <2>3. \A i \in 1 .. Len(Stream') : (Stream'[i].cmd = cmds <=> i > k)
    BY <1>1, <1>2, <1>3, <1>5, <1>7 DEF Splits
  <2>4. \A i \in 1 .. Len(Stream) + Len(Unsent) : Char(i)' = Char(i)
    <3> SUFFICES ASSUME NEW i \in 1 .. Len(Stream) + Len(Unsent)
                 PROVE  Char(i)' = Char(i)
      OBVIOUS
    <3>1. CASE i <= Len(Stream)
      BY <1>3, <1>5, <3>1 DEF Char
    <3>2. CASE i = Len(Stream) + 1
      BY <1>2, <1>3, <1>5, <1>6, <2>1, <3>2 DEF Char
    <3>3. CASE i > Len(Stream) + 1
      <4>1. i - Len(Stream') \in 1 .. Len(dev.out) - 1
        BY <1>3, <1>5, <1>6, <2>1, <3>3
      <4>2. Tail(dev.out)[i - Len(Stream')] = dev.out[i - Len(Stream') + 1]
        BY <1>6, <4>1
      <4>3. i - Len(Stream') + 1 = i - Len(Stream)
        BY <1>3, <1>5
      <4>4. ~(i <= Len(Stream)) /\ ~(i <= Len(Stream'))
        BY <1>3, <1>5, <3>3
      <4> QED
        BY <2>1, <4>2, <4>3, <4>4 DEF Char
    <3> QED
      BY <1>3, <3>1, <3>2, <3>3
  <2>5. \A i \in 1 .. Len(r) : r[i] = Char(k + i)'
    <3> SUFFICES ASSUME NEW i \in 1 .. Len(r) PROVE r[i] = Char(k + i)'
      OBVIOUS
    <3>1. k + i \in 1 .. Len(Stream) + Len(Unsent)
      BY <1>3, <1>4, <1>6, <2>1
    <3> QED
      BY <1>1, <2>4, <3>1 DEF Splits
  <2>6. Splits(k, r)'
    BY <1>3, <1>7, <2>2, <2>3, <2>5 DEF Splits
  <2>7. k \in 0 .. Len(Stream')
    BY <1>3, <1>5
  <2> QED
    BY <2>6, <2>7 DEF ReplyInv
<1>8. CASE dev.cmd # cmds
  <2>1. Unsent' = <<>> /\ k = Len(Stream)
    BY <1>1, <1>3, <1>8 DEF Unsent, Splits
  <2>2. \A i \in 1 .. Len(Stream') : Stream'[i].cmd # cmds
    BY <1>1, <1>2, <1>3, <1>5, <1>8, <2>1 DEF Splits
  <2>3. PICK n \in Nat : n = Len(Stream')
    BY <1>3, <1>5
  <2>4. \A i \in 1 .. Len(Stream') : ~(i > n)
    BY <2>3
  <2>5. n + Len(<<>>) = Len(Stream') + Len(Unsent')
    BY <2>1, <2>3
  <2>6. Splits(n, <<>>)'
    BY <1>3, <2>2, <2>3, <2>4, <2>5 DEF Splits
  <2>7. n \in 0 .. Len(Stream')
    BY <2>3
  <2> QED
    BY <2>6, <2>7 DEF ReplyInv
<1> QED
  BY <1>7, <1>8

\* A command that goes out finds nothing that answers it yet.
LEMMA SplitsSent ==
  ASSUME TypeOK, Hands, NoneAhead, Sent
  PROVE  ReplyInv'
<1>1. PICK reply \in Replies \cup {<<>>} :
        IF dev.inside
        THEN /\ rx' = rx \o Stamped(reply)
             /\ dev' = [dev EXCEPT !.sent = @ + Len(reply)]
        ELSE /\ dev' = IF dev.out = <<>>
                       THEN [dev EXCEPT !.out = reply, !.cmd = cmds, !.at = now,
                                        !.line = "quiet"]
                       ELSE dev
             /\ UNCHANGED rx
  BY DEF Sent
<1>2. /\ heard' = <<>> /\ got' = <<>> /\ cmds' = cmds /\ pc = "sending"
      /\ cmds \in Nat /\ dev \in Devices /\ rx \in Seq(Bytes) /\ Len(rx) \in Nat
  BY DEF Sent, ghosts, locals, Hands, NoneAhead, TypeOK
<1>3. \A i \in 1 .. Len(rx) : rx[i].cmd # cmds
  <2> SUFFICES ASSUME NEW i \in 1 .. Len(rx) PROVE rx[i].cmd # cmds
    OBVIOUS
  <2>1. rx[i] \in Bytes
    BY <1>2
  <2>2. rx[i].cmd \in Nat /\ rx[i].cmd < cmds
    BY <1>2, <2>1 DEF NoneAhead, Bytes
  <2> QED
    BY <1>2, <2>2
<1>4. Stamped(reply) \in Seq(Bytes) /\ reply \in Seq(Chars) /\ Len(reply) \in Nat
  BY StampedType
<1>5. rx' \in Seq(Bytes) => Stream' = rx'
  BY <1>2, ConcatEmptySeq DEF Stream
<1>6. PICK n \in 0 .. Len(rx) : n = Len(rx)
  BY <1>2
<1>7. CASE dev.inside
  <2> DEFINE t == Stamped(reply)
  <2>1. /\ Len(t) = Len(reply)
        /\ \A i \in 1 .. Len(t) : t[i].c = reply[i] /\ t[i].cmd = cmds
    BY <1>4 DEF Stamped
  <2>2. rx' = rx \o t /\ dev'.out = <<>>
    BY <1>1, <1>2, <1>7 DEF Devices, Hands
  <2>3. t \in Seq(Bytes)
    BY <1>4
  <2> HIDE DEF t
  <2>4. /\ rx' \in Seq(Bytes) /\ Len(rx') = n + Len(t)
        /\ \A i \in 1 .. Len(rx) : rx'[i] = rx[i]
        /\ \A i \in 1 .. Len(t) : rx'[n + i] = t[i]
    BY <1>2, <1>6, <2>2, <2>3, ConcatProperties
  <2>5. Stream' = rx' /\ Unsent' = <<>>
    BY <1>2, <1>5, <2>2, <2>4 DEF Unsent
  <2>6. \A i \in 1 .. Len(rx') : (rx'[i].cmd = cmds <=> i > n)
    <3> SUFFICES ASSUME NEW i \in 1 .. Len(rx')
                 PROVE  rx'[i].cmd = cmds <=> i > n
      OBVIOUS
    <3>1. CASE i <= n
      BY <1>2, <1>3, <1>6, <2>4, <3>1
    <3>2. CASE i > n
      <4>1. i - n \in 1 .. Len(t) /\ n + (i - n) = i
        BY <1>2, <1>4, <1>6, <2>1, <2>4, <3>2
      <4>2. rx'[i] = t[i - n] /\ t[i - n].cmd = cmds
        <5>1. rx'[n + (i - n)] = t[i - n]
          BY <2>4, <4>1, Zenon
        <5> QED
          BY <2>1, <4>1, <5>1
      <4> QED
        BY <3>2, <4>2
    <3> QED
      BY <1>2, <1>6, <3>1, <3>2
  <2>7. \A i \in 1 .. Len(reply) : reply[i] = Char(n + i)'
    <3> SUFFICES ASSUME NEW i \in 1 .. Len(reply)
                 PROVE  reply[i] = Char(n + i)'
      OBVIOUS
    <3>1. n + i <= Len(rx')
      BY <1>2, <1>4, <1>6, <2>1, <2>4
    <3>2. rx'[n + i].c = reply[i]
      BY <2>1, <2>4
    <3> QED
      BY <2>5, <3>1, <3>2 DEF Char
  <2>8. n + Len(reply) = Len(rx') + Len(<<>>)
    BY <1>2, <1>4, <1>6, <2>1, <2>4
  <2>9. \E k \in 0 .. Len(rx'), r \in Replies \cup {<<>>} : Splits(k, r)'
    <3>1. n \in 0 .. Len(rx')
      BY <1>2, <1>4, <1>6, <2>1, <2>4
    <3>2. Splits(n, reply)'
      BY <1>2, <1>6, <2>2, <2>5, <2>6, <2>7, <2>8 DEF Splits
    <3> QED
      BY <3>1, <3>2
  <2> QED
    BY <2>5, <2>9 DEF ReplyInv
<1>8. CASE ~dev.inside /\ dev.out = <<>>
  <2>1. rx' = rx /\ dev'.out = reply /\ dev'.cmd = cmds
    BY <1>1, <1>2, <1>8 DEF Devices
  <2>2. Stream' = rx /\ Unsent' = reply
    BY <1>2, <1>5, <2>1 DEF Unsent
  <2>3. \A i \in 1 .. Len(reply) : reply[i] = Char(n + i)'
    <3> SUFFICES ASSUME NEW i \in 1 .. Len(reply)
                 PROVE  reply[i] = Char(n + i)'
      OBVIOUS
    <3>1. ~(n + i <= n) /\ (n + i) - n = i
      BY <1>2, <1>4, <1>6
    <3> QED
      BY <1>6, <2>2, <3>1 DEF Char
  <2>4. \A i \in 1 .. Len(rx) : (rx[i].cmd = cmds <=> i > n)
    BY <1>2, <1>3, <1>6
  <2>5. Splits(n, reply)'
    BY <1>2, <1>6, <2>1, <2>2, <2>3, <2>4 DEF Splits
  <2> QED
    BY <1>6, <2>2, <2>5 DEF ReplyInv
<1>9. CASE ~dev.inside /\ dev.out # <<>>
  <2>1. rx' = rx /\ dev' = dev /\ dev.cmd < cmds
    BY <1>1, <1>2, <1>9 DEF NoneAhead
  <2>2. dev.cmd # cmds
    BY <1>2, <2>1 DEF Devices
  <2>3. Stream' = rx /\ Unsent' = <<>>
    BY <1>2, <1>5, <2>1, <2>2 DEF Unsent
  <2>4. \A i \in 1 .. Len(rx) : (rx[i].cmd = cmds <=> i > n)
    BY <1>2, <1>3, <1>6
  <2>5. Splits(n, <<>>)'
    BY <1>2, <1>6, <2>1, <2>3, <2>4 DEF Splits
  <2> QED
    BY <1>6, <2>3, <2>5 DEF ReplyInv
<1> QED
  BY <1>7, <1>8, <1>9

\* What has been and is yet to be sent since a command is late, then a reply.
LEMMA ReplyStep ==
  TypeOK /\ Hands /\ NoneAhead /\ ReplyInv /\ [Next]_vars => ReplyInv'
<1> SUFFICES ASSUME TypeOK, Hands, NoneAhead, ReplyInv, [Next]_vars
             PROVE  ReplyInv'
  OBVIOUS
<1>1. CASE BreakOn \/ BreakOff \/ Send
  <2>1. ~Attending'
    BY <1>1 DEF BreakOn, BreakOff, Send, Attending
  <2> QED
    BY <2>1 DEF ReplyInv
<1>2. CASE Sent
  BY <1>2, SplitsSent
<1>3. CASE SensorByte
  <2>1. CASE Attending
    BY <1>3, <2>1, SplitsByte
  <2>2. CASE ~Attending
    <3>1. ~Attending'
      BY <1>3, <2>2 DEF SensorByte, Attending
    <3> QED
      BY <3>1 DEF ReplyInv
  <2> QED
    BY <2>1, <2>2
<1>4. CASE Read \/ Store
  <2>1. Stream' = Stream /\ dev' = dev /\ cmds' = cmds /\ Attending
    BY <1>4, Moves DEF Read, Store, ghosts, Attending
  <2> QED
    BY <2>1, SplitsKept
<1>5. CASE Recv \/ Quiet \/ SetBinary \/ Tick \/ UNCHANGED vars
  <2>1. /\ heard' = heard /\ rx' = rx /\ got' = got /\ dev' = dev /\ cmds' = cmds
        /\ Attending' => Attending
    BY <1>5 DEF Recv, Quiet, SetBinary, Tick, vars, locals, ghosts, Hands, Attending
  <2>2. Stream' = Stream
    BY <2>1 DEF Stream
  <2>3. CASE Attending
    BY <2>1, <2>2, <2>3, SplitsKept
  <2>4. CASE ~Attending
    BY <2>1, <2>4 DEF ReplyInv
  <2> QED
    BY <2>3, <2>4
<1> QED
  BY <1>1, <1>2, <1>3, <1>4, <1>5 DEF Next

\* A recv keeps the buffer it was lent, and waits IdleTime for the next byte.
LEMMA CallStep == TypeOK /\ CallInv /\ [Next]_vars => CallInv'
<1> SUFFICES ASSUME TypeOK, CallInv, [Next]_vars PROVE CallInv'
  OBVIOUS
<1> USE DEF CallInv, Receiving
<1>1. CASE Recv
  BY <1>1 DEF Recv, ResetResp
<1>2. CASE Store
  BY <1>2 DEF Store
<1>3. CASE Read \/ Quiet
  BY <1>3 DEF Read, Quiet, resp, locals
<1>4. CASE BreakOn \/ BreakOff \/ Send \/ Sent \/ SetBinary
  <2>1. pc' \in {"breaking", "woken", "sending", "waiting", "idle"}
    BY <1>4 DEF BreakOn, BreakOff, Send, Sent, SetBinary
  <2> QED
    BY <2>1
<1>5. CASE SensorByte \/ Tick \/ UNCHANGED vars
  BY <1>5 DEF SensorByte, Tick, vars, resp, locals
<1> QED
  BY <1>1, <1>2, <1>3, <1>4, <1>5 DEF Next

-----------------------------------------------------------------------------
\* What was heard comes first, then the byte in hand, or else the buffer.
LEMMA StreamHead ==
  ASSUME TypeOK
  PROVE  /\ Stream \in Seq(Bytes) /\ Len(Stream) \in Nat
         /\ Len(heard) \in Nat /\ Len(heard) <= Len(Stream)
         /\ \A i \in 1 .. Len(heard) : Stream[i] = heard[i]
         /\ got # <<>> => /\ Len(heard) + 1 <= Len(Stream)
                          /\ Stream[Len(heard) + 1] = got[1]
         /\ got = <<>> /\ rx # <<>> => /\ Len(heard) + 1 <= Len(Stream)
                                       /\ Stream[Len(heard) + 1] = rx[1]
         /\ got = <<>> /\ rx = <<>> => Len(Stream) = Len(heard)
<1> DEFINE a == heard \o got
<1>0. heard \in Seq(Bytes) /\ got \in Seq(Bytes) /\ rx \in Seq(Bytes) /\ Len(got) <= 1
  BY DEF TypeOK
<1>1. /\ a \in Seq(Bytes) /\ Len(a) = Len(heard) + Len(got)
      /\ \A i \in 1 .. Len(heard) + Len(got) :
           a[i] = IF i <= Len(heard) THEN heard[i] ELSE got[i - Len(heard)]
  BY <1>0, Joined
<1>2. Stream = a \o rx
  BY DEF Stream
<1> HIDE DEF a
<1>3. /\ Stream \in Seq(Bytes) /\ Len(Stream) = Len(a) + Len(rx)
      /\ \A i \in 1 .. Len(a) + Len(rx) :
           Stream[i] = IF i <= Len(a) THEN a[i] ELSE rx[i - Len(a)]
  BY <1>0, <1>1, <1>2, Joined
<1>4. Len(heard) \in Nat /\ Len(got) \in Nat /\ Len(rx) \in Nat
  BY <1>0, LenProperties
<1>5. \A i \in 1 .. Len(heard) : Stream[i] = heard[i]
  BY <1>1, <1>3, <1>4
<1>6. got # <<>> => /\ Len(heard) + 1 <= Len(Stream)
                    /\ Stream[Len(heard) + 1] = got[1]
  <2> SUFFICES ASSUME got # <<>> PROVE /\ Len(heard) + 1 <= Len(Stream)
                                       /\ Stream[Len(heard) + 1] = got[1]
    OBVIOUS
  <2>1. Len(got) \in Nat \ {0}
    BY <1>0, EmptySeq, Zenon
  <2>2. Len(got) = 1
    BY <1>0, <2>1
  <2> QED
    BY <1>1, <1>3, <1>4, <2>2
<1>7. got = <<>> => Len(got) = 0 /\ Len(a) = Len(heard)
  BY <1>1, <1>4
<1>8. got = <<>> /\ rx # <<>> => /\ Len(heard) + 1 <= Len(Stream)
                                 /\ Stream[Len(heard) + 1] = rx[1]
  <2> SUFFICES ASSUME got = <<>>, rx # <<>>
               PROVE  /\ Len(heard) + 1 <= Len(Stream)
                      /\ Stream[Len(heard) + 1] = rx[1]
    OBVIOUS
  <2>1. Len(rx) > 0
    BY <1>0, <1>4
  <2> QED
    BY <1>3, <1>4, <1>7, <2>1
<1>9. got = <<>> /\ rx = <<>> => Len(Stream) = Len(heard)
  <2>1. rx = <<>> => Len(rx) = 0
    OBVIOUS
  <2> QED
    BY <1>3, <1>4, <1>7, <2>1
<1> QED
  BY <1>1, <1>3, <1>4, <1>5, <1>6, <1>8, <1>9

\* When the first byte since a command answers it, the rest is one reply.
LEMMA OneReply ==
  ASSUME TypeOK, ReplyInv, Attending, Len(Stream) > 0, Stream[1].cmd = cmds
  PROVE  \E r \in Replies :
           /\ r \in Seq(Chars) /\ Len(r) = Len(Stream) + Len(Unsent)
           /\ \A i \in 1 .. Len(Stream) : Stream[i].cmd = cmds /\ r[i] = Stream[i].c
           /\ dev.out # <<>> => dev.cmd = cmds
<1>1. PICK k \in 0 .. Len(Stream), r \in Replies \cup {<<>>} : Splits(k, r)
  BY DEF ReplyInv
<1>2. Len(Stream) \in Nat
  BY StreamHead
<1>3. k = 0
  BY <1>1, <1>2 DEF Splits
<1>4. r \in Seq(Chars) /\ Len(r) \in Nat
  <2>1. <<>> \in Seq(Chars)
    BY EmptySeq
  <2>2. r \in Seq(Chars)
    BY <1>1, <2>1, RepliesAreText
  <2> QED
    BY <2>2, LenProperties
<1>5. Unsent \in Seq(Chars) /\ Len(Unsent) \in Nat
  <2>1. <<>> \in Seq(Chars)
    BY EmptySeq
  <2>2. Unsent \in Seq(Chars)
    BY <2>1 DEF Unsent, TypeOK, Devices
  <2> QED
    BY <2>2, LenProperties
<1>6. Len(r) = Len(Stream) + Len(Unsent)
  BY <1>1, <1>3, <1>4 DEF Splits
<1>7. r \in Replies
  <2>1. Len(r) > 0
    BY <1>2, <1>5, <1>6
  <2>2. r # <<>>
    <3>1. Len(<<>>) = 0
      OBVIOUS
    <3> QED
      BY <2>1, <3>1
  <2> QED
    BY <1>1, <2>2
<1>8. \A i \in 1 .. Len(Stream) : Stream[i].cmd = cmds /\ r[i] = Stream[i].c
  <2> SUFFICES ASSUME NEW i \in 1 .. Len(Stream)
               PROVE  Stream[i].cmd = cmds /\ r[i] = Stream[i].c
    OBVIOUS
  <2>1. i > k /\ k + i = i /\ i \in 1 .. Len(r)
    BY <1>2, <1>3, <1>5, <1>6
  <2>2. Stream[i].cmd = cmds
    BY <1>1, <2>1 DEF Splits
  <2>3. r[i] = Char(k + i)
    BY <1>1, <2>1 DEF Splits
  <2>4. r[i] = Char(i)
    BY <2>1, <2>3
  <2>5. Char(i) = Stream[i].c
    BY DEF Char
  <2> QED
    BY <2>2, <2>4, <2>5
<1>9. dev.out # <<>> => dev.cmd = cmds
  BY <1>1, <1>3 DEF Splits
<1> QED
  BY <1>4, <1>6, <1>7, <1>8, <1>9

\* What is in hand answers the command, as everything heard before it does:
\* it is a character of a reply, behind those heard.
LEMMA ReplyInHand ==
  ASSUME TypeOK, ReplyInv, Store, OwnReply'
  PROVE  /\ got[1] \in Bytes /\ got[1].cmd = cmds /\ OwnReply
         /\ Len(heard) \in Nat /\ heard' = Append(heard, got[1])
         /\ \E r \in Replies :
              /\ r \in Seq(Chars) /\ Len(r) \in Nat /\ Len(heard) + 1 <= Len(r)
              /\ \A i \in 1 .. Len(heard) : r[i] = heard[i].c
              /\ r[Len(heard) + 1] = got[1].c
<1>1. /\ heard' = Append(heard, got[1]) /\ got # <<>> /\ cmds' = cmds
      /\ Attending
  BY DEF Store, Attending
<1>2. heard \in Seq(Bytes) /\ got \in Seq(Bytes) /\ got[1] \in Bytes
  BY <1>1 DEF TypeOK
<1>3. /\ Len(heard) \in Nat /\ Len(heard') = Len(heard) + 1
      /\ heard'[Len(heard) + 1] = got[1]
      /\ \A i \in 1 .. Len(heard) : heard'[i] = heard[i]
  BY <1>1, <1>2, AppendProperties, LenProperties
<1>4. /\ \A i \in DOMAIN heard : i \in DOMAIN heard' /\ heard'[i] = heard[i]
      /\ Len(heard) + 1 \in DOMAIN heard'
  BY <1>1, <1>2, AppendProperties
<1>5. OwnReply /\ got[1].cmd = cmds
  BY <1>1, <1>3, <1>4 DEF OwnReply
<1>6. /\ Len(Stream) \in Nat /\ Len(heard) + 1 <= Len(Stream)
      /\ Stream[Len(heard) + 1] = got[1]
      /\ \A i \in 1 .. Len(heard) : Stream[i] = heard[i]
  BY <1>1, StreamHead
<1>7. Stream[1].cmd = cmds
  <2>1. CASE Len(heard) = 0
    BY <1>5, <1>6, <2>1
  <2>2. CASE Len(heard) > 0
    <3>1. 1 \in 1 .. Len(heard) /\ 1 \in DOMAIN heard
      BY <1>2, <1>3, <2>2
    <3> QED
      BY <1>5, <1>6, <3>1 DEF OwnReply
  <2> QED
    BY <1>3, <2>1, <2>2
<1>8. Len(Stream) > 0
  BY <1>3, <1>6
<1>9. PICK r \in Replies :
        /\ r \in Seq(Chars) /\ Len(r) = Len(Stream) + Len(Unsent)
        /\ \A i \in 1 .. Len(Stream) : Stream[i].cmd = cmds /\ r[i] = Stream[i].c
  BY <1>1, <1>7, <1>8, OneReply
<1>10. Len(r) \in Nat /\ Len(heard) + 1 <= Len(r)
  <2>1. Unsent \in Seq(Chars)
    <3>1. <<>> \in Seq(Chars)
      BY EmptySeq
    <3> QED
      BY <3>1 DEF Unsent, TypeOK, Devices
  <2>2. Len(Unsent) \in Nat
    BY <2>1, LenProperties
  <2> QED
    BY <1>3, <1>6, <1>9, <2>2
<1>11. \A i \in 1 .. Len(heard) : r[i] = heard[i].c
  BY <1>3, <1>6, <1>9
<1>12. r[Len(heard) + 1] = got[1].c
  <2>1. Len(heard) + 1 \in 1 .. Len(Stream)
    BY <1>3, <1>6
  <2> QED
    BY <1>6, <1>9, <2>1
<1> QED
  BY <1>1, <1>2, <1>3, <1>5, <1>9, <1>10, <1>11, <1>12

\* A recv returns a line, never the part of one that fits its buffer.
LEMMA LineFits ==
  ASSUME RepliesFit, TypeOK, NoneAhead, NoNewlineYet, ReplyInv, CallInv,
         Store, ~binary, OwnReply', got[1].c # LF
  PROVE  pos + 1 < max /\ pc' = "reading"
<1>1. pc = "sampled" /\ Receiving /\ calls > 0 /\ max \in BufSizes
  BY DEF Store, Receiving, NoneAhead, CallInv
<1>2. PICK r \in Replies :
        /\ r \in Seq(Chars) /\ Len(r) \in Nat /\ Len(heard) + 1 <= Len(r)
        /\ \A i \in 1 .. Len(heard) : r[i] = heard[i].c
        /\ r[Len(heard) + 1] = got[1].c
  BY ReplyInHand
<1>3. pos \in Nat /\ max \in Nat /\ Len(heard) \in Nat
  BY LenProperties DEF TypeOK
<1>4. /\ pos <= Len(heard)
      /\ \A i \in Len(heard) - pos + 1 .. Len(heard) - 1 : heard[i].c # LF
      /\ pos > 0 => heard[Len(heard)].c # LF
  BY <1>1 DEF NoNewlineYet
<1> DEFINE first == Len(heard) - pos + 1
           last  == Len(heard) + 1
<1>5. \A i \in first .. last : r[i] # LF
  <2> SUFFICES ASSUME NEW i \in first .. last PROVE r[i] # LF
    OBVIOUS
  <2>1. CASE i = Len(heard) + 1
    BY <1>2, <2>1
  <2>2. CASE i <= Len(heard)
    <3>1. i \in 1 .. Len(heard) /\ pos > 0
      BY <1>3, <1>4, <2>2
    <3>2. heard[i].c # LF
      BY <1>3, <1>4, <2>2, <3>1
    <3> QED
      BY <1>2, <3>1, <3>2
  <2> QED
    BY <1>3, <2>1, <2>2
<1>6. first \in DOMAIN r /\ last \in DOMAIN r
  BY <1>2, <1>3, <1>4
<1>7. last - first + 1 = pos + 1
  BY <1>3
<1> HIDE DEF first, last
<1>8. pos + 1 < max
  BY <1>1, <1>2, <1>5, <1>6, <1>7 DEF RepliesFit
<1>9. ~Returns(got[1])
  BY <1>3, <1>8 DEF Returns, EndsLine
<1> QED
  BY <1>8, <1>9 DEF Store

\* While a reply is being heard there is a stamp left for the line in hand.
LEMMA StampLeft ==
  ASSUME RepliesFit, TypeOK, ReplyInv, Store, OwnReply',
         Cardinality(Feeds) = lineCount
  PROVE  lineCount < MaxLines
<1>1. PICK r \in Replies :
        /\ r \in Seq(Chars) /\ Len(r) \in Nat /\ Len(heard) + 1 <= Len(r)
        /\ \A i \in 1 .. Len(heard) : r[i] = heard[i].c
  BY ReplyInHand
<1>2. heard \in Seq(Bytes) /\ Len(heard) \in Nat /\ lineCount \in Nat /\ MaxLines \in Nat
  BY LenProperties, SizesArePositive DEF TypeOK
<1>3. DOMAIN heard = 1 .. Len(heard) /\ DOMAIN r = 1 .. Len(r)
  BY <1>1, <1>2, LenProperties
<1>4. r[Len(r)] = LF
  <2>1. r # <<>>
    BY <1>1, <1>2
  <2> QED
    BY <2>1 DEF RepliesFit
<1>5. Feeds \cup {Len(r)} \subseteq LineFeeds(r) /\ Len(r) \notin Feeds
  BY <1>1, <1>2, <1>3, <1>4 DEF Feeds, LineFeeds
<1>6. IsFiniteSet(LineFeeds(r)) /\ IsFiniteSet(Feeds)
  <2>1. IsFiniteSet(1 .. Len(r)) /\ IsFiniteSet(1 .. Len(heard))
    BY <1>1, <1>2, FS_Interval
  <2>2. LineFeeds(r) \subseteq 1 .. Len(r) /\ Feeds \subseteq 1 .. Len(heard)
    BY <1>3 DEF LineFeeds, Feeds
  <2> QED
    BY <2>1, <2>2, FS_Subset
<1>7. Cardinality(Feeds \cup {Len(r)}) = Cardinality(Feeds) + 1
  BY <1>5, <1>6, FS_AddElement
<1>8. Cardinality(Feeds \cup {Len(r)}) <= Cardinality(LineFeeds(r))
  BY <1>5, <1>6, FS_Subset
<1>9. Cardinality(LineFeeds(r)) \in Nat /\ Cardinality(LineFeeds(r)) <= MaxLines
  BY <1>6, FS_CardinalityType DEF RepliesFit
<1> QED
  BY <1>2, <1>7, <1>8, <1>9

\* One more byte heard: one more newline or none, one more gap or none.
LEMMA HearOne ==
  ASSUME TypeOK, NEW b \in Bytes, heard' = Append(heard, b)
  PROVE  /\ Cardinality(Feeds) \in Nat
         /\ Cardinality(Feeds)' = IF b.c = LF THEN Cardinality(Feeds) + 1
                                              ELSE Cardinality(Feeds)
         /\ Paused' = Paused \cup
              IF heard # <<>> /\ heard[Len(heard)].c = LF
              THEN {<<heard[Len(heard)].at, b.at>>} ELSE {}
<1>1. heard \in Seq(Bytes) /\ Len(heard) \in Nat
  BY LenProperties DEF TypeOK
<1>2. /\ Len(heard') = Len(heard) + 1 /\ heard'[Len(heard) + 1] = b
      /\ \A i \in 1 .. Len(heard) : heard'[i] = heard[i]
      /\ heard' \in Seq(Bytes)
  BY <1>1, AppendProperties
<1>3. DOMAIN heard = 1 .. Len(heard) /\ DOMAIN heard' = 1 .. Len(heard) + 1
  BY <1>1, <1>2, LenProperties
<1>4. Feeds' = IF b.c = LF THEN Feeds \cup {Len(heard) + 1} ELSE Feeds
  BY <1>1, <1>2, <1>3 DEF Feeds
<1>5. IsFiniteSet(Feeds) /\ Len(heard) + 1 \notin Feeds
  <2>1. IsFiniteSet(1 .. Len(heard))
    BY <1>1, FS_Interval
  <2>2. Feeds \subseteq 1 .. Len(heard)
    BY <1>3 DEF Feeds
  <2>3. Len(heard) + 1 \notin 1 .. Len(heard)
    BY <1>1
  <2> QED
    BY <2>1, <2>2, <2>3, FS_Subset
<1>6. Cardinality(Feeds) \in Nat
  BY <1>5, FS_CardinalityType
<1>7. Cardinality(Feeds') = IF b.c = LF THEN Cardinality(Feeds) + 1
                                        ELSE Cardinality(Feeds)
  BY <1>4, <1>5, FS_AddElement
<1> DEFINE more == IF heard # <<>> /\ heard[Len(heard)].c = LF
                   THEN {<<heard[Len(heard)].at, b.at>>} ELSE {}
           behind(s) == {j \in 2 .. Len(s) : s[j - 1].c = LF}
<1>8. heard # <<>> <=> Len(heard) >= 1
  BY <1>1
<1>9. behind(heard') = behind(heard) \cup
        IF heard # <<>> /\ heard[Len(heard)].c = LF THEN {Len(heard) + 1} ELSE {}
  BY <1>1, <1>2, <1>8
<1>10. \A i \in behind(heard) :
         <<heard'[i - 1].at, heard'[i].at>> = <<heard[i - 1].at, heard[i].at>>
  BY <1>1, <1>2
<1>11. heard # <<>> =>
         <<heard'[(Len(heard) + 1) - 1].at, heard'[Len(heard) + 1].at>>
           = <<heard[Len(heard)].at, b.at>>
  BY <1>1, <1>2, <1>8
<1>12. Paused = {<<heard[i - 1].at, heard[i].at>> : i \in behind(heard)}
       /\ Paused' = {<<heard'[i - 1].at, heard'[i].at>> : i \in behind(heard')}
  BY DEF Paused
<1> HIDE DEF behind
<1>13. Paused' = Paused \cup more
  <2>1. CASE heard # <<>> /\ heard[Len(heard)].c = LF
    <3>1. behind(heard') = behind(heard) \cup {Len(heard) + 1}
      BY <1>9, <2>1
    <3>2. Paused' = {<<heard'[i - 1].at, heard'[i].at>> : i \in behind(heard)}
            \cup {<<heard'[(Len(heard) + 1) - 1].at, heard'[Len(heard) + 1].at>>}
      BY <1>12, <3>1
    <3>3. {<<heard'[i - 1].at, heard'[i].at>> : i \in behind(heard)} = Paused
      BY <1>10, <1>12
    <3>4. Paused' = Paused \cup {<<heard[Len(heard)].at, b.at>>}
      BY <1>11, <2>1, <3>2, <3>3
    <3> QED
      BY <2>1, <3>4
  <2>2. CASE ~(heard # <<>> /\ heard[Len(heard)].c = LF)
    <3>1. behind(heard') = behind(heard)
      BY <1>9, <2>2
    <3> QED
      BY <1>10, <1>12, <2>2, <3>1
  <2> QED
    BY <2>1, <2>2
<1> QED
  BY <1>6, <1>7, <1>13

\* The gaps between stamps up to line n.
GapsTo(n, ends, starts) == {<<ends[i - 1], starts[i]>> : i \in 1 .. n}

\* A byte stored is stamped where its line begins and where it ends.
LEMMA PauseStore ==
  ASSUME RepliesFit, TypeOK, NoneAhead, NoNewlineYet, FirstInv, ReplyInv,
         CallInv, PauseInv, Store, ~binary, OwnReply'
  PROVE  /\ Cardinality(Feeds)' = lineCount'
         /\ Measured' = Paused'
         /\ Open' => heard' # <<>> /\ lineCount' < MaxLines
         /\ ~Open' => /\ heard'[Len(heard')].c = LF
                      /\ lineCount' > 0
                      /\ lineEnd'[lineCount' - 1] = heard'[Len(heard')].at
<1> DEFINE b == got[1]
<1>1. /\ b \in Bytes /\ b.cmd = cmds /\ OwnReply /\ Len(heard) \in Nat
      /\ heard' = Append(heard, b)
  BY ReplyInHand
<1>2. /\ pc = "sampled" /\ Receiving /\ calls > 0 /\ Attending /\ got # <<>>
      /\ Heard
  BY DEF Store, Receiving, NoneAhead, Attending, Heard
<1>3. b.at = now
  <2>1. 1 \in DOMAIN got
    BY <1>2 DEF TypeOK
  <2> QED
    BY <1>1, <1>2, <2>1 DEF FirstInv, Prompt
<1>4. /\ Cardinality(Feeds) = lineCount /\ Measured = Paused
      /\ Open => heard # <<>> /\ lineCount < MaxLines
      /\ ~Open /\ heard # <<>> =>
           /\ heard[Len(heard)].c = LF
           /\ lineCount > 0 /\ lineEnd[lineCount - 1] = heard[Len(heard)].at
  BY <1>1, <1>2 DEF PauseInv
<1>5. lineCount < MaxLines
  BY <1>4, StampLeft
<1>6. /\ lineCount \in Nat /\ lineCount \in LineSlots /\ pos \in Nat
      /\ lineStart \in [LineSlots -> Nat] /\ lineEnd \in [LineSlots -> Nat]
      /\ \A i \in 0 .. lineCount : i \in LineSlots
  <2>1. /\ lineCount \in Nat /\ MaxLines \in Nat /\ pos \in Nat
        /\ lineStart \in [LineSlots -> Nat] /\ lineEnd \in [LineSlots -> Nat]
    BY SizesArePositive DEF TypeOK
  <2>2. \A i \in 0 .. lineCount : i \in 0 .. MaxLines - 1
    BY <1>5, <2>1
  <2>3. lineCount \in 0 .. lineCount
    BY <2>1
  <2> QED
    BY <2>1, <2>2, <2>3 DEF LineSlots
<1>7. /\ heard' # <<>> /\ heard'[Len(heard')] = b
  <2>1. heard \in Seq(Bytes)
    BY DEF TypeOK
  <2> QED
    BY <1>1, <2>1, Appended
<1>8. /\ Cardinality(Feeds)' = IF b.c = LF THEN Cardinality(Feeds) + 1
                                           ELSE Cardinality(Feeds)
      /\ Paused' = Paused \cup
           IF heard # <<>> /\ heard[Len(heard)].c = LF
           THEN {<<heard[Len(heard)].at, b.at>>} ELSE {}
  BY <1>1, HearOne
<1>9. /\ b.c = LF => /\ lineEnd' = [lineEnd EXCEPT ![lineCount] = now]
                     /\ lineCount' = lineCount + 1 /\ pc' = "idle"
      /\ b.c # LF => /\ lineEnd' = lineEnd /\ lineCount' = lineCount
                     /\ pc' = "reading"
  BY <1>5, LineFits DEF Store, Returns, EndsLine
<1>10. lineStart' = IF pos = 0 THEN [lineStart EXCEPT ![lineCount] = now]
                               ELSE lineStart
  BY <1>5 DEF Store, StartsLine
<1>11. Open' <=> b.c # LF
  <2>1. pos' = pos + 1
    BY DEF Store
  <2> QED
    BY <1>6, <1>9, <2>1 DEF Open, Receiving
<1>12. Measured' = GapsTo(lineCount, lineEnd, lineStart')
  <2>1. LastLine' = lineCount
    BY <1>6, <1>9, <1>11 DEF LastLine
  <2>2. \A i \in 1 .. lineCount : lineEnd'[i - 1] = lineEnd[i - 1]
    BY <1>6, <1>9
  <2>3. Measured' = {<<lineEnd'[i - 1], lineStart'[i]>> : i \in 1 .. lineCount}
    BY <2>1 DEF Measured
  <2> QED
    BY <2>2, <2>3 DEF GapsTo
<1>13. Measured' = Paused'
  <2>1. CASE pos > 0
    <3>1. Open /\ heard[Len(heard)].c # LF
      BY <1>2, <2>1 DEF Open, NoNewlineYet
    <3>2. lineStart' = lineStart /\ LastLine = lineCount
      BY <1>6, <1>10, <2>1, <3>1 DEF LastLine
    <3>3. Measured' = Measured
      BY <1>12, <3>2 DEF Measured, GapsTo
    <3> QED
      BY <1>4, <1>8, <3>1, <3>3
  <2>2. CASE pos = 0
    <3>1. ~Open /\ LastLine = lineCount - 1
      BY <2>2 DEF Open, LastLine
    <3>2. /\ lineStart'[lineCount] = now
          /\ \A i \in 1 .. lineCount - 1 : lineStart'[i] = lineStart[i]
      BY <1>6, <1>10, <2>2
    <3>3. CASE heard = <<>>
      <4>1. Feeds = {}
        BY <3>3 DEF Feeds
      <4>2. lineCount = 0
        BY <1>4, <4>1, FS_EmptySet
      <4>3. Measured' = {} /\ Measured = {}
        BY <1>12, <3>1, <4>2 DEF Measured, GapsTo
      <4> QED
        BY <1>4, <1>8, <3>3, <4>3
    <3>4. CASE heard # <<>>
      <4>1. /\ heard[Len(heard)].c = LF /\ lineCount > 0
            /\ lineEnd[lineCount - 1] = heard[Len(heard)].at
        BY <1>4, <3>1, <3>4
      <4>2. 1 .. lineCount = (1 .. lineCount - 1) \cup {lineCount}
        BY <1>6, <4>1
      <4>3. GapsTo(lineCount, lineEnd, lineStart')
              = GapsTo(lineCount - 1, lineEnd, lineStart')
                  \cup {<<lineEnd[lineCount - 1], lineStart'[lineCount]>>}
        BY <4>2 DEF GapsTo
      <4>4. GapsTo(lineCount - 1, lineEnd, lineStart')
              = GapsTo(lineCount - 1, lineEnd, lineStart)
        BY <3>2 DEF GapsTo
      <4>5. GapsTo(lineCount - 1, lineEnd, lineStart) = Measured
        BY <3>1 DEF GapsTo, Measured
      <4>6. <<lineEnd[lineCount - 1], lineStart'[lineCount]>>
              = <<heard[Len(heard)].at, b.at>>
        BY <1>3, <3>2, <4>1
      <4>7. Paused' = Paused \cup {<<heard[Len(heard)].at, b.at>>}
        BY <1>8, <3>4, <4>1
      <4> QED
        BY <1>4, <1>12, <4>3, <4>4, <4>5, <4>6, <4>7
    <3> QED
      BY <3>3, <3>4
  <2> QED
    BY <1>6, <2>1, <2>2
<1>14. Cardinality(Feeds)' = lineCount'
  BY <1>4, <1>8, <1>9
<1>15. Open' => heard' # <<>> /\ lineCount' < MaxLines
  BY <1>5, <1>7, <1>9, <1>11
<1>16. ~Open' => /\ heard'[Len(heard')].c = LF /\ lineCount' > 0
                 /\ lineEnd'[lineCount' - 1] = heard'[Len(heard')].at
  <2> SUFFICES ASSUME ~Open'
               PROVE  /\ heard'[Len(heard')].c = LF /\ lineCount' > 0
                      /\ lineEnd'[lineCount' - 1] = heard'[Len(heard')].at
    OBVIOUS
  <2>1. /\ b.c = LF /\ lineCount' = lineCount + 1
        /\ lineEnd' = [lineEnd EXCEPT ![lineCount] = now]
    BY <1>9, <1>11
  <2>2. lineCount' - 1 = lineCount /\ lineCount' > 0
    BY <1>6, <2>1
  <2>3. lineEnd'[lineCount] = now
    BY <1>6, <2>1
  <2> QED
    BY <1>3, <1>7, <2>1, <2>2, <2>3
<1> QED
  BY <1>13, <1>14, <1>15, <1>16

\* A recv does not give up in the middle of a reply's line.
LEMMA NoGivingUp ==
  ASSUME RepliesFit, IdleTime > CharTime, TypeOK, Hands, NoneAhead,
         NoNewlineYet, LineInv, OpenInv, ReplyInv, CallInv,
         Quiet, ~binary, OwnReply, pos > 0
  PROVE  ~Expired
<1>1. /\ pc = "sampled" /\ Receiving /\ Attending /\ calls > 0 /\ got = <<>>
  BY DEF Quiet, Receiving, Attending, NoneAhead
<1>2. /\ deadline = respEnd + IdleTime /\ respEnd \in Nat /\ now \in Nat
      /\ IdleTime \in Nat /\ CharTime \in Nat /\ pos \in Nat
      /\ heard \in Seq(Bytes) /\ dev \in Devices /\ dev.at \in Nat
  BY <1>1, TimesAreNaturals DEF CallInv, TypeOK, Devices
<1>3. pos <= Len(heard) /\ heard[Len(heard)].c # LF /\ Len(heard) \in Nat
  BY <1>1, <1>2, LenProperties DEF NoNewlineYet
<1>4. 1 \in 1 .. Len(heard) /\ Len(heard) \in 1 .. Len(heard)
      /\ DOMAIN heard = 1 .. Len(heard)
  BY <1>2, <1>3
<1>5. /\ Len(Stream) \in Nat /\ Len(heard) <= Len(Stream)
      /\ \A i \in 1 .. Len(heard) : Stream[i] = heard[i]
      /\ rx # <<>> => /\ Len(heard) + 1 <= Len(Stream)
                      /\ Stream[Len(heard) + 1] = rx[1]
      /\ rx = <<>> => Len(Stream) = Len(heard)
  BY <1>1, StreamHead
<1>6. Before.cmd = cmds /\ Stream[1].cmd = cmds /\ Len(Stream) > 0
  BY <1>3, <1>4, <1>5 DEF OwnReply, Before
<1>7. PICK r \in Replies :
        /\ r \in Seq(Chars) /\ Len(r) = Len(Stream) + Len(Unsent)
        /\ \A i \in 1 .. Len(Stream) : Stream[i].cmd = cmds /\ r[i] = Stream[i].c
        /\ dev.out # <<>> => dev.cmd = cmds
  BY <1>1, <1>6, OneReply
<1>8. now <= respEnd + CharTime
  <2>1. CASE rx # <<>>
    <3>1. Len(heard) + 1 \in 1 .. Len(Stream)
      BY <1>3, <1>5, <2>1
    <3>2. rx[1].cmd = cmds
      BY <1>5, <1>7, <2>1, <3>1
    <3> QED
      BY <1>1, <1>6, <2>1, <3>2 DEF OpenInv
  <2>2. CASE rx = <<>>
    <3>1. Unsent # <<>>
      <4> SUFFICES ASSUME Unsent = <<>> PROVE FALSE
        OBVIOUS
      <4>0. Len(Unsent) = 0
        OBVIOUS
      <4>1. Len(r) = Len(heard)
        BY <1>3, <1>5, <1>7, <2>2, <4>0
      <4>2. r # <<>>
        BY <1>3, <1>4, <4>1
      <4>3. r[Len(heard)] = LF
        BY <4>1, <4>2 DEF RepliesFit
      <4>4. r[Len(heard)] = heard[Len(heard)].c
        BY <1>4, <1>5, <1>7, <2>2
      <4> QED
        BY <1>3, <4>3, <4>4
    <3>2. dev.out # <<>> /\ dev.cmd = cmds
      BY <3>1 DEF Unsent
    <3>3. dev.line = "mid" /\ dev.at <= respEnd
      BY <1>1, <1>6, <2>2, <3>2 DEF OpenInv
    <3>4. now <= dev.at + CharTime
      BY <3>2, <3>3 DEF LineInv
    <3> QED
      BY <1>2, <3>3, <3>4
  <2> QED
    BY <2>1, <2>2
<1> QED
  BY <1>2, <1>8 DEF Expired

\* What neither hears nor stamps leaves the gaps as they are.
LEMMA PauseKept ==
  ASSUME PauseInv, UNCHANGED <<heard, lines, cmds, binary>>, Open' = Open,
         Heard' => Heard, pc' # "sending"
  PROVE  PauseInv'
<1>1. UNCHANGED <<heard, lineStart, lineEnd, lineCount, cmds, binary>>
  BY DEF lines
<1>2. /\ Feeds' = Feeds /\ Paused' = Paused /\ LastLine' = LastLine
      /\ OwnReply' = OwnReply
  BY <1>1 DEF Feeds, Paused, LastLine, OwnReply
<1>3. Measured' = Measured
  BY <1>1, <1>2 DEF Measured
<1> QED
  BY <1>1, <1>2, <1>3 DEF PauseInv

\* The gaps measured stay those heard, whatever happens next.
LEMMA PauseStep ==
  ASSUME RepliesFit, IdleTime > CharTime, TypeOK, Hands, NoneAhead,
         NoNewlineYet, FirstInv, LineInv, OpenInv, ReplyInv, CallInv,
         PauseInv, [Next]_vars
  PROVE  PauseInv'
<1> USE DEF Receiving
<1>1. CASE BreakOn \/ BreakOff
  <2>1. pc' \in {"breaking", "woken"}
    BY <1>1 DEF BreakOn, BreakOff
  <2> QED
    BY <2>1 DEF PauseInv, Heard
<1>2. CASE Send
  <2>1. pc' = "sending" /\ lineCount' = 0
    BY <1>2 DEF Send
  <2> QED
    BY <2>1 DEF PauseInv, Heard
<1>3. CASE Sent
  <2>1. /\ pc = "sending" /\ pc' = "waiting" /\ lineCount' = lineCount
        /\ heard' = heard /\ heard = <<>>
    BY <1>3 DEF Sent, resp, lines, ghosts, NoneAhead
  <2>2. lineCount' = 0 /\ ~Open' /\ heard' = <<>>
    BY <2>1 DEF PauseInv, Open
  <2>3. Feeds' = {} /\ Paused' = {} /\ Measured' = {}
    BY <2>2 DEF Feeds, Paused, Measured, LastLine
  <2>4. Cardinality(Feeds)' = 0
    BY <2>3, FS_EmptySet
  <2> QED
    BY <2>1, <2>2, <2>3, <2>4 DEF PauseInv
<1>4. CASE Recv
  <2>1. /\ pc \in {"waiting", "idle"} /\ (pc = "waiting" \/ calls > 0)
        /\ pc' = "reading" /\ pos' = 0
        /\ UNCHANGED <<heard, lines, cmds, binary>>
    BY <1>4 DEF Recv, TypeOK
  <2>2. Open' = FALSE /\ Open = FALSE /\ Heard
    BY <2>1 DEF Open, Heard
  <2> QED
    BY <2>1, <2>2, PauseKept
<1>5. CASE Read
  <2>1. /\ pc = "reading" /\ pc' = "sampled" /\ pos' = pos /\ calls' = calls
        /\ UNCHANGED <<heard, lines, cmds, binary>>
    BY <1>5 DEF Read, resp, ghosts
  <2> QED
    BY <2>1, PauseKept DEF Open, Heard
<1>6. CASE Store
  <2>1. binary' = binary /\ pc' # "sending" /\ heard' # <<>>
    BY <1>6 DEF Store
  <2>2. CASE ~binary /\ OwnReply'
    BY <1>6, <2>1, <2>2, PauseStore DEF PauseInv
  <2>3. CASE ~(~binary /\ OwnReply')
    BY <2>1, <2>3 DEF PauseInv
  <2> QED
    BY <2>2, <2>3
<1>7. CASE Quiet
  <2>1. /\ pc = "sampled" /\ pos' = pos /\ calls' = calls
        /\ UNCHANGED <<heard, lines, cmds, binary>>
        /\ pc' = IF Expired THEN "idle" ELSE "reading"
    BY <1>7 DEF Quiet, resp, locals, ghosts
  <2>2. CASE ~(~binary /\ OwnReply)
    <3>1. ~(~binary' /\ OwnReply')
      BY <2>1, <2>2 DEF OwnReply
    <3> QED
      BY <2>1, <3>1 DEF PauseInv
  <2>3. CASE ~binary /\ OwnReply
    <3>1. Open' = Open
      <4>1. CASE pos > 0
        <5>1. ~Expired
          BY <1>7, <2>3, <4>1, NoGivingUp
        <5> QED
          BY <2>1, <5>1 DEF Open
      <4>2. CASE ~(pos > 0)
        BY <2>1, <4>2 DEF Open
      <4> QED
        BY <4>1, <4>2
    <3> QED
      BY <2>1, <3>1, PauseKept DEF Heard
  <2> QED
    BY <2>2, <2>3
<1>8. CASE SetBinary
  <2>1. pc' = "idle" /\ calls' = 0
    BY <1>8 DEF SetBinary
  <2> QED
    BY <2>1 DEF PauseInv, Heard
<1>9. CASE SensorByte \/ Tick \/ UNCHANGED vars
  <2>1. UNCHANGED <<pc, pos, calls, heard, lines, cmds, binary>>
    BY <1>9 DEF SensorByte, Tick, vars, resp, locals, ghosts
  <2>2. CASE pc = "sending"
    <3>1. pc' = "sending" /\ lineCount' = lineCount
      BY <2>1, <2>2 DEF lines
    <3> QED
      BY <2>2, <3>1 DEF PauseInv, Heard
  <2>3. CASE pc # "sending"
    BY <2>1, <2>3, PauseKept DEF Open, Heard
  <2> QED
    BY <2>2, <2>3
<1> QED
  BY <1>1, <1>2, <1>3, <1>4, <1>5, <1>6, <1>7, <1>8, <1>9 DEF Next

\* Gaps that are the same have the same maximum.
LEMMA GapsAgree ==
  ASSUME TypeOK, PauseInv, Rested, ~binary, OwnReply
  PROVE  MaxInterlineGap =
           Max({0} \cup {heard[i].at - heard[i - 1].at :
                           i \in {j \in 2 .. Len(heard) : heard[j - 1].c = LF}})
<1> DEFINE gap(p) == p[2] - p[1]
           behind == {j \in 2 .. Len(heard) : heard[j - 1].c = LF}
<1>1. Measured = Paused /\ LastLine = lineCount - 1
  BY DEF Rested, PauseInv, Heard, LastLine, Open, Receiving
<1>2. {lineStart[i] - lineEnd[i - 1] : i \in 1 .. lineCount - 1}
        = {gap(p) : p \in Measured}
  <2>1. \A i : gap(<<lineEnd[i - 1], lineStart[i]>>) = lineStart[i] - lineEnd[i - 1]
    OBVIOUS
  <2> HIDE DEF gap
  <2> QED
    BY <1>1, <2>1 DEF Measured
<1>3. {heard[i].at - heard[i - 1].at : i \in behind} = {gap(p) : p \in Paused}
  <2>1. \A i : gap(<<heard[i - 1].at, heard[i].at>>) = heard[i].at - heard[i - 1].at
    OBVIOUS
  <2> HIDE DEF gap
  <2> QED
    BY <2>1 DEF Paused
<1> HIDE DEF gap
<1>4. {lineStart[i] - lineEnd[i - 1] : i \in 1 .. lineCount - 1}
        = {heard[i].at - heard[i - 1].at : i \in behind}
  BY <1>1, <1>2, <1>3
<1> HIDE DEF behind
<1>5. MaxInterlineGap = Max({0} \cup {heard[i].at - heard[i - 1].at : i \in behind})
  BY <1>4 DEF MaxInterlineGap
<1> QED
  BY <1>5 DEF behind

\* The gap a test reads is the longest pause between two lines of the reply,
\* for every sensor whose replies fit the layer, whenever it pauses.
THEOREM PausesMeasured ==
  ASSUME Jitter = 0, IdleTime > CharTime, RepliesFit
  PROVE  Spec => []InterlineGapExact
<1>1. Init => ReplyInv /\ CallInv /\ PauseInv
  <2> SUFFICES ASSUME Init PROVE ReplyInv /\ CallInv /\ PauseInv
    OBVIOUS
  <2>1. /\ dev.out = <<>> /\ pc = "idle" /\ calls = 0
        /\ heard = <<>> /\ got = <<>> /\ rx = <<>>
    BY DEF Init
  <2>2. Stream = <<>> /\ Unsent = <<>>
    BY <2>1, EmptySeq, ConcatEmptySeq DEF Stream, Unsent
  <2>3. Len(Stream) = 0 /\ Len(Unsent) = 0
    BY <2>2
  <2>4. Splits(0, <<>>)
    BY <2>1, <2>2, <2>3 DEF Splits
  <2> QED
    BY <2>1, <2>3, <2>4 DEF ReplyInv, CallInv, PauseInv, Receiving, Heard
<1>2. TypeOK /\ NoNewlineYet /\ Hands /\ NoneAhead /\ FirstInv /\ LineInv
      /\ OpenInv /\ ReplyInv /\ CallInv /\ PauseInv /\ [Next]_vars => PauseInv'
  BY PauseStep
<1>3. TypeOK /\ PauseInv => InterlineGapExact
  BY GapsAgree DEF InterlineGapExact
<1>4. IInv => TypeOK /\ NoNewlineYet
  BY DEF IInv
<1> QED
  BY <1>1, <1>2, <1>3, <1>4, ReplyStep, CallStep, AlwaysHands, AlwaysNoneAhead,
     AlwaysFirst, AlwaysPaced, Inductive, PTL DEF Spec
==============================================================================
