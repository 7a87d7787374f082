-------------------------- MODULE RecorderTestsProofs ------------------------
(***************************************************************************)
(* Theorems about RecorderTests: what stands behind a verdict, for every   *)
(* recorder, number of attempts and order of the tests.                    *)
(***************************************************************************)
EXTENDS RecorderTests, SequenceTheorems, TLAPS

-----------------------------------------------------------------------------
(* Types.                                                                  *)

Cmds    == [to : Addresses, kind : Kinds, brk : BOOLEAN]
Entries == [cmd : Cmds, at : {"own", "new"}, answered : BOOLEAN]
Sensors == [addr : {"own", "new"}, data : {"none", "plain", "crc"},
            busy : {"no", "silent", "announced"},
            next : {"none", "plain", "crc"}]

Typed ==
  /\ pc \in {"idle", "waiting", "judging"} /\ test \in AllTests
  /\ first \in BOOLEAN /\ second \in BOOLEAN /\ good \in BOOLEAN
  /\ srSent \in BOOLEAN
  /\ said \in Seq(Entries) /\ sensor \in Sensors
  /\ asked \in 0 .. Len(said)

\* The sensor stays one, whatever it is told.
LEMMA SensedTyped ==
  ASSUME sensor \in Sensors, NEW c \in Cmds
  PROVE  Sensed(c) \in Sensors
<1> DEFINE after == IF c.brk THEN [sensor EXCEPT !.busy = "no"] ELSE sensor
<1>1. after \in Sensors
  BY DEF Sensors
<1>2. Result(c) \in {"plain", "crc"}
  BY DEF Result
<1> HIDE DEF after
<1>3. /\ \A b \in {"silent", "announced"} :
            [after EXCEPT !.busy = b, !.next = Result(c), !.data = "none"] \in Sensors
      /\ [after EXCEPT !.data = Result(c)] \in Sensors
      /\ [after EXCEPT !.addr = "new"] \in Sensors
  BY <1>1, <1>2 DEF Sensors
<1> QED
  BY <1>1, <1>3 DEF Sensed, after

\* What is said of a command is an entry.
LEMMA SaidTyped ==
  ASSUME Typed, NEW c \in Commands, NEW b \in BOOLEAN
  PROVE  /\ c \in Cmds
         /\ [cmd |-> c, at |-> sensor.addr, answered |-> b] \in Entries
  BY CommandsKnown DEF Typed, Cmds, Entries, Sensors

\* A longer record: the old entries, and the new one.
LEMMA Longer ==
  ASSUME NEW s \in Seq(Entries), NEW e \in Entries
  PROVE  /\ Append(s, e) \in Seq(Entries) /\ Len(Append(s, e)) = Len(s) + 1
         /\ DOMAIN s = 1 .. Len(s) /\ DOMAIN Append(s, e) = 1 .. Len(s) + 1
         /\ Len(s) \in Nat
         /\ \A i \in 1 .. Len(s) : Append(s, e)[i] = s[i]
         /\ Append(s, e)[Len(s) + 1] = e
  OBVIOUS

\* What a test looks for stays the same while it runs; a test that waits for
\* two commands ends with a D.
LEMMA LoopKept ==
  ASSUME test' = test
  PROVE  Loop' = Loop
  BY DEF Loop

\* What the loops of the 13 tests look for, as far as the proofs need it.
LEMMA LoopEnds ==
  ASSUME test \in AllTests
  PROVE  /\ Loop.closes \in {{}, {"D"}}
         /\ TwoSteps <=> test \in {"sequence", "svc_req", "concurrent", "crc"}
         /\ test = "brk_between" => Loop.opens = {}
         /\ test = "svc_req" => Loop.to = {"own"} /\ Loop.opens = {"M", "MC"}
  BY DEF AllTests, Loop, TwoSteps, LooksFor, JustListens, CmdFormat, Address,
         BreakBetween, Acknowledge, Identify, Sequence, ServiceReq, Concurrent,
         Crc, Continuous, AddressChange, Verify, Extended

\* Both loops add the command they hear to what was said; the sensor hears it
\* or not.
LEMMA HeardOne ==
  ASSUME Typed, NEW c \in Commands, Hear(c) \/ HearBreak(c)
  PROVE  /\ \E e \in Entries : said' = Append(said, e) /\ e.cmd = c
         /\ sensor' \in Sensors
         /\ srSent' \in BOOLEAN
<1>1. c \in Cmds
  BY SaidTyped
<1>2. Answers(c) \in BOOLEAN /\ Started(c) \in BOOLEAN
  BY DEF Answers, Started, Typed
<1>3. \A b \in BOOLEAN :
        LET e == [cmd |-> c, at |-> sensor.addr, answered |-> b]
        IN  e \in Entries /\ e.cmd = c
  BY SaidTyped
<1>4. \E b \in BOOLEAN :
        said' = Append(said, [cmd |-> c, at |-> sensor.addr, answered |-> b])
  <2>1. (commands' # commands /\ Answers(c)) \in BOOLEAN
    BY <1>2
  <2> QED
    BY <1>2, <2>1 DEF Hear, HearBreak
<1>5. Process(c) \/ UNCHANGED <<sensor, reply, srSent>>
  BY DEF Hear, HearBreak
<1>6. Process(c) => sensor' \in Sensors /\ srSent' \in BOOLEAN
  BY <1>1, <1>2, SensedTyped DEF Process, Typed
<1> QED
  BY <1>3, <1>4, <1>5, <1>6 DEF Typed

\* The variables keep their types.
LEMMA TypedStep ==
  ASSUME Typed, [Next]_vars
  PROVE  Typed'
<1>1. CASE Start
  <2>1. test' \in AllTests /\ sensor' = Silent /\ srSent' = FALSE
    BY <1>1, TestsKnown DEF Start, SimInit
  <2>2. said' \in Seq(Entries) /\ asked' \in 0 .. Len(said')
    BY <1>1 DEF Start
  <2>4. /\ pc' \in {"idle", "waiting", "judging"}
        /\ first' \in BOOLEAN /\ second' \in BOOLEAN /\ good' \in BOOLEAN
    BY <1>1 DEF Start
  <2>3. Silent \in Sensors
    BY DEF Silent, Sensors
  <2> QED
    BY <2>1, <2>2, <2>3, <2>4 DEF Typed
<1>2. CASE Announce
  <2>1. [sensor EXCEPT !.busy = "no", !.data = sensor.next] \in Sensors
    BY DEF Typed, Sensors
  <2>2. asked' \in 0 .. Len(said)
    BY <1>2 DEF Announce, Typed
  <2> QED
    BY <1>2, <2>1, <2>2 DEF Announce, Typed
<1>3. CASE Silence
  BY <1>3 DEF Silence, Typed
<1>4. CASE Judge
  <2>1. [sensor EXCEPT !.addr = "own"] \in Sensors
    BY DEF Typed, Sensors
  <2> QED
    BY <1>4, <2>1 DEF Judge, Typed
<1>5. ASSUME NEW c \in Commands, Hear(c) \/ HearBreak(c)
      PROVE  Typed'
  <2>1. /\ said' \in Seq(Entries)
        /\ asked \in 0 .. Len(said')
    BY <1>5, HeardOne, Longer DEF Typed
  <2>2. /\ first' \in BOOLEAN /\ second' \in BOOLEAN /\ good' \in BOOLEAN
    BY <1>5 DEF Hear, HearBreak, Noted, Opens, Closes, Checked, TwoSteps, Typed
  <2>3. pc' \in {"waiting", "judging"} /\ UNCHANGED <<test, asked>>
    BY <1>5 DEF Hear, HearBreak
  <2> QED
    BY <1>5, <2>1, <2>2, <2>3, HeardOne DEF Typed
<1>6. CASE UNCHANGED vars
  BY <1>6 DEF vars, Typed
<1> QED
  BY <1>1, <1>2, <1>3, <1>4, <1>5, <1>6 DEF Next

-----------------------------------------------------------------------------
(* What was said, and what the loops remember of it.                       *)

Known ==
  /\ first => \E i \in Said : OpenedAt(i)
  /\ ~first => \A i \in Said : ~Opens(said[i].cmd)
  /\ second => \E i, j \in Said : i < j /\ OpenedAt(i) /\ Data(said[j].cmd)

Pronounced ==
  /\ pc # "idle" => verdict = "none"
  /\ verdict = "SKIP" => ~first \/ test = "brk_between"
  /\ verdict = "PASS" /\ TwoSteps => second

IInv == Typed /\ Known /\ Pronounced

\* Nothing is remembered or pronounced at the start.
LEMMA InitInv == Init => IInv
<1> SUFFICES ASSUME Init PROVE IInv
  OBVIOUS
<1>1. /\ said = <<>> /\ said \in Seq(Entries) /\ Len(said) = 0 /\ Said = {}
      /\ ~first /\ ~second /\ pc = "idle" /\ verdict = "none"
  BY DEF Init, Said
<1>2. Typed
  <2>1. /\ pc \in {"idle", "waiting", "judging"} /\ test \in AllTests
        /\ first \in BOOLEAN /\ second \in BOOLEAN /\ good \in BOOLEAN
        /\ srSent \in BOOLEAN
    BY DEF Init, AllTests
  <2>2. sensor \in Sensors /\ asked \in 0 .. Len(said)
    BY <1>1 DEF Init, Silent, Sensors
  <2> QED
    BY <1>1, <2>1, <2>2 DEF Typed
<1> QED
  BY <1>1, <1>2 DEF IInv, Known, Pronounced

\* Nothing more said: what is known stays so.
LEMMA KnownKept ==
  ASSUME Known, UNCHANGED <<said, test, first, second>>
  PROVE  Known'
  BY LoopKept DEF Known, Said, OpenedAt, Opens, Data

\* One more command: it is the first that opens the test, or the first one
\* stays where it was.
LEMMA KnownMore ==
  ASSUME Typed, Known, NEW c \in Commands, Hear(c) \/ HearBreak(c)
  PROVE  Known'
<1> PICK e \in Entries : said' = Append(said, e) /\ e.cmd = c
  BY HeardOne
<1> PICK n \in Nat : n = Len(said)
  BY DEF Typed
<1>1. /\ n \in Nat /\ Said = 1 .. n /\ Said' = 1 .. n + 1
      /\ \A i \in 1 .. n : said'[i] = said[i]
      /\ said'[n + 1] = e
  BY Longer DEF Typed, Said
<1>2. test' = test
  BY DEF Hear, HearBreak
<1>3. /\ \A i \in 1 .. n : Opens(said[i].cmd)' <=> Opens(said[i].cmd)
      /\ Opens(said[n + 1].cmd)' <=> Opens(c)
  BY <1>1, <1>2, LoopKept DEF Opens
<1>4. \A i \in 1 .. n : OpenedAt(i)' <=> OpenedAt(i)
  BY <1>1, <1>3 DEF OpenedAt
<1>5. first' = (first \/ Opens(c))
  <2>1. Hear(c) => first' = (first \/ Opens(c))
    BY DEF Hear, Noted
  <2>2. HearBreak(c) => first' = first /\ ~Opens(c)
    BY LoopEnds DEF HearBreak, Opens, Typed
  <2>3. first \in BOOLEAN /\ Opens(c) \in BOOLEAN
    BY DEF Typed, Opens
  <2> QED
    BY <2>1, <2>2, <2>3, Zenon
<1>6. second' => second \/ (first /\ Data(c))
  <2>1. Hear(c) => (second' => second \/ Closes(c))
    BY DEF Hear
  <2>2. HearBreak(c) => (second' => second)
    BY DEF HearBreak
  <2>3. Closes(c) => first /\ Data(c)
    BY LoopEnds DEF Closes, Data, Typed
  <2> QED
    BY <2>1, <2>2, <2>3
<1>7. first' => \E i \in Said' : OpenedAt(i)'
  <2>1. CASE first
    BY <2>1, <1>1, <1>4 DEF Known
  <2>2. CASE ~first /\ Opens(c)
    <3>1. \A i \in 1 .. n : ~Opens(said[i].cmd)'
      BY <2>2, <1>1, <1>3 DEF Known
    <3>2. OpenedAt(n + 1)'
      BY <2>2, <3>1, <1>1, <1>3 DEF OpenedAt
    <3> QED
      BY <3>2, <1>1
  <2> QED
    BY <2>1, <2>2, <1>5
<1>8. ~first' => \A i \in Said' : ~Opens(said[i].cmd)'
  <2>1. CASE first'
    BY <2>1
  <2>2. CASE ~first'
    <3>1. ~first /\ ~Opens(c)
      BY <2>2, <1>5, Zenon
    <3> QED
      BY <3>1, <1>1, <1>3 DEF Known
  <2> QED
    BY <2>1, <2>2
<1>9. second' => \E i, j \in Said' : i < j /\ OpenedAt(i)' /\ Data(said[j].cmd)'
  <2>1. CASE second
    BY <2>1, <1>1, <1>4 DEF Known, Data
  <2>2. CASE first /\ Data(c)
    BY <2>2, <1>1, <1>4 DEF Known, Data
  <2> QED
    BY <2>1, <2>2, <1>6
<1> QED
  BY <1>7, <1>8, <1>9 DEF Known

\* What the loops remember was said, and what they pronounce follows from it.
LEMMA NextInv == IInv /\ [Next]_vars => IInv'
<1> SUFFICES ASSUME IInv, [Next]_vars PROVE Known' /\ Pronounced'
  BY TypedStep DEF IInv
<1> USE DEF IInv
<1>1. CASE Start
  <2>1. /\ said' = <<>> /\ Len(said') = 0 /\ Said' = {} /\ ~first' /\ ~second'
        /\ verdict' = "none"
    BY <1>1 DEF Start, Said
  <2> QED
    BY <2>1 DEF Known, Pronounced
<1>2. CASE Announce \/ Silence \/ UNCHANGED vars
  <2>1. /\ UNCHANGED <<said, test, first, second, verdict>>
        /\ pc' # "idle" => pc # "idle"
    BY <1>2 DEF Announce, Silence, vars
  <2> QED
    BY <2>1, KnownKept, LoopKept DEF Pronounced, TwoSteps
<1>3. CASE Judge
  <2>1. /\ UNCHANGED <<said, test, first, second>> /\ pc' = "idle"
        /\ verdict' = Judgement
    BY <1>3 DEF Judge
  <2>2. Judgement = "SKIP" => ~first \/ test = "brk_between"
    BY DEF Judgement, JudgeService, Typed, AllTests
  <2>3. Judgement = "PASS" /\ TwoSteps => second
    BY LoopEnds DEF Judgement, JudgeService, Typed
  <2> QED
    BY <2>1, <2>2, <2>3, KnownKept, LoopKept DEF Pronounced, TwoSteps
<1>4. ASSUME NEW c \in Commands, Hear(c) \/ HearBreak(c)
      PROVE  Known' /\ Pronounced'
  <2>1. pc = "waiting" /\ UNCHANGED verdict
    BY <1>4 DEF Hear, HearBreak
  <2> QED
    BY <1>4, <2>1, KnownMore DEF Pronounced
<1> QED
  BY <1>1, <1>2, <1>3, <1>4 DEF Next

\* The record of the commands is one, and the loops remember of it whether the
\* command the test is about came, and whether a D came after it.
THEOREM Inductive == Spec => []IInv
  BY InitInv, NextInv, PTL DEF Spec

-----------------------------------------------------------------------------

\* A test is skipped only if the recorder never sent the command it is about
\* (the got_... flags of the test_rec_ functions, recorder_tests.c), whatever
\* the number of attempts and the order of the tests.
THEOREM SkipJustified == Spec => []SkipMeansUnsent
<1>1. IInv => SkipMeansUnsent
  BY LoopEnds DEF IInv, Typed, Known, Pronounced, SkipMeansUnsent, Opens
<1> QED
  BY <1>1, Inductive, PTL

\* A test of a sequence passes only a recorder that sent the command that opens
\* it and, later in the same test, a D command.
THEOREM SequenceShown == Spec => []PassShowsSequence
<1>1. IInv => PassShowsSequence
  BY DEF IInv, Known, Pronounced, PassShowsSequence
<1> QED
  BY <1>1, Inductive, PTL

-----------------------------------------------------------------------------
(* Whose answer a verdict rests on.  test_rec_break_between looks at none.  *)

ByReply == {"ack", "verify", "extended", "continuous", "addr_change", "identify"}

Answered == \E i \in Said : said[i].answered
Replied  == reply # NoReply \/ (test = "continuous" /\ good)

AnswerInv ==
  /\ test # "brk_between" /\ Replied => Answered
  /\ verdict = "PASS" /\ test \in ByReply => Replied

\* No reply is there at the start.
LEMMA InitAnswer == Init => AnswerInv
<1> SUFFICES ASSUME Init PROVE AnswerInv
  OBVIOUS
<1>1. ~Replied /\ verdict = "none"
  BY DEF Init, Replied
<1> QED
  BY <1>1 DEF AnswerInv

\* The reply is replaced by an answered command alone, and so is what is found
\* of it.
LEMMA AnswerMore ==
  ASSUME Typed, AnswerInv, NEW c \in Commands, Hear(c)
  PROVE  test # "brk_between" /\ Replied' => Answered'
<1> PICK n \in Nat : n = Len(said)
  BY DEF Typed
<1> DEFINE e == [cmd |-> c, at |-> sensor.addr, answered |-> Answers(c)]
<1>1. said' = Append(said, e) /\ e \in Entries /\ test' = test
  BY SaidTyped DEF Hear, Answers
<1> HIDE DEF e
<1>2. /\ Said = 1 .. n /\ Said' = 1 .. n + 1
      /\ \A i \in 1 .. n : said'[i] = said[i]
      /\ said'[n + 1] = e
  BY <1>1, Longer DEF Typed, Said
<1>3. CASE Answers(c)
  BY <1>2, <1>3 DEF Answered, e
<1>4. CASE ~Answers(c)
  <2>1. reply' = reply
    BY <1>4 DEF Hear, Process
  <2>2. test = "continuous" /\ good' => reply # NoReply \/ good
    <3>1. test = "continuous"
            => Checked(c) = IF Opens(c)
                            THEN reply'.from = "own" /\ reply'.body # "none"
                            ELSE good
      BY DEF Checked, Closes, TwoSteps
    <3>2. reply'.body # "none" => reply # NoReply
      BY <2>1 DEF NoReply
    <3>3. good' = Checked(c)
      BY DEF Hear
    <3> QED
      BY <3>1, <3>2, <3>3
  <2>3. Replied' => Replied
    BY <1>1, <2>1, <2>2 DEF Replied
  <2>4. Answered => Answered'
    BY <1>2 DEF Answered
  <2> QED
    BY <2>3, <2>4 DEF AnswerInv
<1> QED
  BY <1>3, <1>4

\* A reply there is has been given in this test.
LEMMA NextAnswer ==
  ASSUME IInv, AnswerInv, [Next]_vars
  PROVE  AnswerInv'
<1>1. CASE Start
  <2>1. reply' = NoReply /\ ~good' /\ verdict' = "none"
    BY <1>1 DEF Start, SimInit
  <2> QED
    BY <2>1 DEF AnswerInv, Replied
<1>2. CASE Announce \/ Silence \/ UNCHANGED vars
  <2>1. UNCHANGED <<said, test, reply, good, verdict>>
    BY <1>2 DEF Announce, Silence, vars
  <2> QED
    BY <2>1 DEF AnswerInv, Replied, Answered, Said
<1>3. CASE Judge
  <2>1. UNCHANGED <<said, test, reply, good>> /\ verdict' = Judgement
    BY <1>3 DEF Judge
  <2>2. Judgement = "PASS" /\ test \in ByReply => ReplyGood
    BY DEF Judgement, ByReply
  <2>3. ReplyGood /\ test \in ByReply => Replied
    BY DEF ReplyGood, ByReply, Replied, NoReply
  <2> QED
    BY <2>1, <2>2, <2>3 DEF AnswerInv, Replied, Answered, Said
<1>4. ASSUME NEW c \in Commands, Hear(c) \/ HearBreak(c)
      PROVE  AnswerInv'
  <2>1. UNCHANGED <<test, verdict>> /\ verdict = "none"
    BY <1>4 DEF Hear, HearBreak, IInv, Pronounced
  <2>2. HearBreak(c) => test = "brk_between"
    BY DEF HearBreak
  <2> QED
    BY <1>4, <2>1, <2>2, AnswerMore DEF AnswerInv, IInv
<1> QED
  BY <1>1, <1>2, <1>3, <1>4 DEF Next

\* A test that judges by last_response passes on an answer of this test: no
\* reply outlives sim_init_ex.
THEOREM AnswerShown == Spec => []PassHasAnswer
<1>1. Init => IInv /\ AnswerInv
  BY InitInv, InitAnswer
<1>2. (IInv /\ AnswerInv) /\ [Next]_vars => (IInv /\ AnswerInv)'
  BY NextInv, NextAnswer
<1>3. IInv /\ AnswerInv => PassHasAnswer
  <2> SUFFICES ASSUME IInv, AnswerInv, verdict = "PASS", test \in ByReply
               PROVE  Answered
    BY DEF PassHasAnswer, ByReply, Answered
  <2> QED
    BY DEF AnswerInv, ByReply
<1> QED
  BY <1>1, <1>2, <1>3, PTL DEF Spec

-----------------------------------------------------------------------------
(* Where the service request stands, while the sensor keeps its address: a   *)
(* measurement that opens the test clears what was requested before it, and  *)
(* the D that ends the test is the last command heard.                       *)

ServiceInv ==
  /\ test = "svc_req" /\ Steady
       => /\ sensor.addr = "own"
          /\ srSent => \A i \in Said : OpenedAt(i) => i <= asked
  /\ second => pc # "waiting" /\ asked < Len(said)
  /\ verdict = "PASS" /\ test = "svc_req" => srSent /\ second

\* No request has been sent at the start.
LEMMA InitService == Init => ServiceInv
  BY DEF Init, ServiceInv

\* Only a change of address it answers moves the sensor from its own.
LEMMA SensedKeeps ==
  ASSUME sensor \in Sensors, NEW c, ~(Answers(c) /\ c.kind = "A"),
         sensor.addr = "own"
  PROVE  Sensed(c).addr = "own"
<1> DEFINE after == IF c.brk THEN [sensor EXCEPT !.busy = "no"] ELSE sensor
<1>1. after \in Sensors /\ after.addr = "own"
  BY DEF Sensors
<1> HIDE DEF after
<1>2. \A b \in {"silent", "announced"}, d \in {"plain", "crc"} :
        /\ [after EXCEPT !.busy = b, !.next = d, !.data = "none"].addr = "own"
        /\ [after EXCEPT !.data = d].addr = "own"
  BY <1>1 DEF Sensors
<1>3. Result(c) \in {"plain", "crc"}
  BY DEF Result
<1>4. Measures(c) => c.kind # "A"
  BY DEF Measures
<1>5. CASE ~Answers(c)
  BY <1>1, <1>5 DEF Sensed, after
<1>6. CASE Answers(c) /\ Measures(c) /\ Deferred
  BY <1>2, <1>3, <1>4, <1>6 DEF Sensed, after
<1>7. CASE Answers(c) /\ Measures(c) /\ ~Deferred
  BY <1>2, <1>3, <1>4, <1>7 DEF Sensed, after
<1>8. CASE Answers(c) /\ ~Measures(c)
  BY <1>1, <1>8 DEF Sensed, after
<1> QED
  BY <1>5, <1>6, <1>7, <1>8

\* A request once sent stays behind every command that opens the test.
LEMMA ServiceMore ==
  ASSUME Typed, ServiceInv, NEW c \in Commands, Hear(c), test = "svc_req",
         Steady'
  PROVE  /\ sensor'.addr = "own"
         /\ srSent' => \A i \in Said' : OpenedAt(i)' => i <= asked'
<1> PICK n \in Nat : n = Len(said)
  BY DEF Typed
<1> DEFINE e == [cmd |-> c, at |-> sensor.addr, answered |-> Answers(c)]
<1>1. said' = Append(said, e) /\ e \in Entries /\ test' = test /\ asked' = asked
  BY SaidTyped DEF Hear, Answers
<1>2. e.cmd = c /\ e.answered = Answers(c)
  OBVIOUS
<1> HIDE DEF e
<1>3. /\ Said = 1 .. n /\ Said' = 1 .. n + 1
      /\ \A i \in 1 .. n : said'[i] = said[i]
      /\ said'[n + 1] = e
  BY <1>1, Longer DEF Typed, Said
<1>4. Steady /\ ~(Answers(c) /\ c.kind = "A")
  BY <1>2, <1>3 DEF Steady
<1>5. sensor.addr = "own" /\ sensor \in Sensors /\ c \in Cmds
  BY <1>4, SaidTyped DEF ServiceInv, Typed
<1>6. Sensed(c).addr = "own"
  BY <1>4, <1>5, SensedKeeps
<1>7. /\ \A i \in 1 .. n : Opens(said[i].cmd)' <=> Opens(said[i].cmd)
      /\ Opens(said[n + 1].cmd)' <=> Opens(c)
  BY <1>1, <1>2, <1>3, LoopKept DEF Opens
<1>8. \A i \in 1 .. n : OpenedAt(i)' <=> OpenedAt(i)
  BY <1>3, <1>7 DEF OpenedAt
<1>9. Opens(c) => ~srSent'
  <2>1. Opens(c) => c.to = "own" /\ c.kind \in {"M", "MC"}
    BY LoopEnds DEF Opens, Typed
  <2>2. Opens(c) => Measures(c) /\ Answers(c) /\ Deferred
    BY <2>1, <1>5 DEF Measures, Answers, Deferred
  <2>3. srSent' = Started(c)
    BY DEF Hear, Process
  <2> QED
    BY <2>2, <2>3 DEF Started
<1>10. srSent' => srSent
  BY DEF Hear, Process, Started
<1>11. ASSUME srSent', NEW i \in Said', OpenedAt(i)'
       PROVE  i <= asked'
  <2>1. i # n + 1
    BY <1>7, <1>9, <1>11 DEF OpenedAt
  <2>2. i \in Said /\ OpenedAt(i)
    BY <2>1, <1>3, <1>8, <1>11
  <2> QED
    BY <2>2, <1>1, <1>4, <1>10, <1>11 DEF ServiceInv
<1>12. sensor' = Sensed(c)
  BY DEF Hear, Process
<1> QED
  BY <1>6, <1>11, <1>12

\* The request comes between the two commands of its test.
LEMMA NextService ==
  ASSUME IInv, ServiceInv, [Next]_vars
  PROVE  ServiceInv'
<1> USE DEF IInv
<1>1. CASE Start
  <2>1. /\ said' = <<>> /\ Len(said') = 0 /\ Said' = {} /\ ~second'
        /\ verdict' = "none" /\ sensor'.addr = "own"
    BY <1>1 DEF Start, SimInit, Silent, Said
  <2> QED
    BY <2>1 DEF ServiceInv
<1>2. CASE Announce
  <2>1. /\ UNCHANGED <<said, test, second, pc, verdict>>
        /\ sensor'.addr = sensor.addr /\ pc = "waiting"
        /\ \/ UNCHANGED <<srSent, asked>>
           \/ asked' = Len(said)
    BY <1>2 DEF Announce, Typed, Sensors
  <2>2. verdict' = "none" /\ ~second'
    BY <2>1 DEF Pronounced, ServiceInv
  <2>3. /\ Steady' <=> Steady
        /\ \A i \in Said : OpenedAt(i)' <=> OpenedAt(i)
        /\ Said' = Said /\ \A i \in Said : i <= Len(said)
    BY <2>1, LoopKept DEF Steady, OpenedAt, Opens, Said, Typed
  <2> QED
    BY <2>1, <2>2, <2>3 DEF ServiceInv
<1>3. CASE Silence \/ Judge \/ UNCHANGED vars
  <2>1. /\ UNCHANGED <<said, test, second, srSent, asked>>
        /\ test = "svc_req" => sensor' = sensor
        /\ pc' = "waiting" => pc = "waiting"
    BY <1>3 DEF Silence, Judge, vars
  <2>2. verdict' = "PASS" /\ test = "svc_req" => srSent /\ second
    <3>1. CASE Judge
      BY <3>1 DEF Judge, Judgement, JudgeService
    <3>2. CASE Silence \/ UNCHANGED vars
      BY <3>2 DEF Silence, vars, ServiceInv
    <3> QED
      BY <1>3, <3>1, <3>2
  <2>3. /\ Steady' <=> Steady
        /\ \A i \in Said : OpenedAt(i)' <=> OpenedAt(i)
        /\ Said' = Said
    BY <2>1, LoopKept DEF Steady, OpenedAt, Opens, Said
  <2> QED
    BY <2>1, <2>2, <2>3 DEF ServiceInv
<1>4. ASSUME NEW c \in Commands, Hear(c) \/ HearBreak(c)
      PROVE  ServiceInv'
  <2>1. /\ UNCHANGED <<test, verdict, asked>> /\ verdict = "none" /\ ~second
        /\ HearBreak(c) => test = "brk_between" /\ UNCHANGED second
    BY <1>4 DEF Hear, HearBreak, Pronounced, ServiceInv
  <2>2. PICK e \in Entries : said' = Append(said, e)
    BY <1>4, HeardOne
  <2>3. asked' < Len(said')
    BY <2>1, <2>2, Longer DEF Typed
  <2>4. Hear(c) /\ second' => pc' # "waiting"
    <3>1. Hear(c) => second' = (second \/ Closes(c))
      BY DEF Hear
    <3>2. Closes(c) => TwoSteps
      BY DEF Closes, TwoSteps
    <3> QED
      BY <2>1, <3>1, <3>2 DEF Hear
  <2> QED
    BY <1>4, <2>1, <2>3, <2>4, ServiceMore DEF ServiceInv
<1> QED
  BY <1>1, <1>2, <1>3, <1>4 DEF Next

\* test_rec_service_req passes only if the service request came after the
\* measurement that opened the test and before the D that ended it, however
\* the recorder interleaves its commands with the sensor's measurement.
THEOREM RequestBetween == Spec => []RequestComesBetween
<1>1. Init => IInv /\ ServiceInv
  BY InitInv, InitService
<1>2. (IInv /\ ServiceInv) /\ [Next]_vars => (IInv /\ ServiceInv)'
  BY NextInv, NextService
<1>3. IInv /\ ServiceInv => RequestComesBetween
  BY DEF IInv, Known, ServiceInv, RequestComesBetween
<1> QED
  BY <1>1, <1>2, <1>3, PTL DEF Spec

-----------------------------------------------------------------------------
(* What a recorder is failed for, while the sensor keeps its address: its    *)
(* answer to the command that opens test_rec_concurrent is then good, a D    *)
(* after the opening command is always noted, and only a command to another  *)
(* address is counted as wrong.                                              *)

Fetches == {"sequence", "concurrent"}

Unmoved  == sensor.addr = "own" /\ \A i \in Said : said[i].at = "own"
Fetched  == \E i, j \in Said : i < j /\ OpenedAt(i) /\ Data(said[j].cmd)
Strayed  == \E i \in Said : ~RightAddress(said[i].cmd)
Failed   ==
  /\ test = "address" => wrong > 0
  /\ test \in Fetches => ~second \/ (test = "concurrent" /\ first /\ ~good)

FailInv ==
  /\ wrong \in Nat /\ (wrong > 0 => Strayed)
  /\ test # "brk_between" /\ Steady => Unmoved
  /\ test = "concurrent" /\ Steady /\ first => good
  /\ test \in Fetches /\ Fetched => second
  /\ verdict = "FAIL" => Failed

\* Nothing has strayed at the start.
LEMMA InitFail == Init => FailInv
<1> SUFFICES ASSUME Init PROVE FailInv
  OBVIOUS
<1>1. /\ said = <<>> /\ Said = {} /\ ~first /\ wrong = 0 /\ verdict = "none"
      /\ sensor.addr = "own"
  BY DEF Init, Said, Silent
<1> QED
  BY <1>1 DEF FailInv, Unmoved, Fetched

\* Nothing more said: a verdict may be given.
LEMMA FailQuiet ==
  ASSUME FailInv, UNCHANGED <<said, test, first, second, good, wrong>>,
         sensor'.addr \in {sensor.addr, "own"},
         verdict' = "FAIL" => Failed
  PROVE  FailInv'
<1>1. Said' = Said /\ (Steady' <=> Steady) /\ (Strayed' <=> Strayed)
  BY DEF Said, Steady, Strayed, RightAddress
<1>2. Fetched' <=> Fetched
  BY LoopKept DEF Fetched, Said, OpenedAt, Opens, Data
<1>3. Failed' <=> Failed
  BY DEF Failed
<1>4. Unmoved => Unmoved'
  BY <1>1 DEF Unmoved
<1> QED
  BY <1>1, <1>2, <1>3, <1>4 DEF FailInv

\* One more command heard: it is counted as wrong only if it is.
LEMMA FailMore ==
  ASSUME IInv, FailInv, NEW c \in Commands, Hear(c), verdict = "none"
  PROVE  FailInv'
<1> PICK n \in Nat : n = Len(said)
  BY DEF IInv, Typed
<1> DEFINE e == [cmd |-> c, at |-> sensor.addr, answered |-> Answers(c)]
<1>1. /\ said' = Append(said, e) /\ e \in Entries /\ UNCHANGED <<test, verdict>>
      /\ test # "brk_between"
  BY SaidTyped DEF Hear, Answers, IInv
<1>2. e.cmd = c /\ e.answered = Answers(c) /\ e.at = sensor.addr
  OBVIOUS
<1> HIDE DEF e
<1>3. /\ Said = 1 .. n /\ Said' = 1 .. n + 1
      /\ \A i \in 1 .. n : said'[i] = said[i]
      /\ said'[n + 1] = e
      /\ \A i : i \in 1 .. n + 1 <=> i \in 1 .. n \/ i = n + 1
      /\ \A i \in 1 .. n : i < n + 1
  BY <1>1, Longer DEF IInv, Typed, Said
<1>4. wrong' \in Nat /\ (wrong' > 0 => Strayed')
  <2>1. wrong' = IF RightAddress(c) THEN wrong ELSE wrong + 1
    BY DEF Hear
  <2>2. Strayed => Strayed'
    BY <1>3 DEF Strayed, RightAddress
  <2>3. ~RightAddress(c) => Strayed'
    BY <1>2, <1>3 DEF Strayed, RightAddress
  <2> QED
    BY <2>1, <2>2, <2>3 DEF FailInv
<1>5. ASSUME Steady'
      PROVE  Steady /\ Unmoved /\ ~(Answers(c) /\ c.kind = "A") /\ Unmoved'
  <2>1. Steady /\ ~(Answers(c) /\ c.kind = "A")
    BY <1>2, <1>3, <1>5 DEF Steady
  <2>2. Unmoved
    BY <1>1, <2>1 DEF FailInv
  <2>3. sensor' = Sensed(c) /\ sensor \in Sensors
    BY DEF Hear, Process, IInv, Typed
  <2>4. sensor'.addr = "own"
    BY <2>1, <2>2, <2>3, SensedKeeps DEF Unmoved
  <2>5. \A i \in Said' : said'[i].at = "own"
    BY <1>2, <1>3, <2>2 DEF Unmoved
  <2> QED
    BY <2>1, <2>2, <2>4, <2>5 DEF Unmoved
<1>6. first' = (first \/ Opens(c)) /\ second' = (second \/ Closes(c)) /\ good' = Checked(c)
  BY DEF Hear, Noted
<1>7. test = "concurrent" /\ Steady' /\ first' => good'
  <2> SUFFICES ASSUME test = "concurrent", Steady', first' PROVE good'
    OBVIOUS
  <2>1. CASE first
    <3>1. good
      BY <2>1, <1>5 DEF FailInv
    <3> QED
      BY <2>1, <3>1, <1>6 DEF Checked
  <2>2. CASE ~first
    <3>1. Opens(c)
      BY <2>2, <1>6
    <3>2. c.to = "own" /\ c.kind \in {"C", "CC"}
      BY <3>1 DEF Opens, Loop, Concurrent, LooksFor
    <3>3. Answers(c)
      BY <3>2, <1>5 DEF Answers, Unmoved
    <3>4. reply' = [from |-> sensor'.addr, body |-> Body(c)]
      BY <3>3 DEF Hear, Process
    <3>5. Body(c) = "atttnn"
      BY <3>2 DEF Body
    <3>6. reply'.from = "own" /\ reply'.body # "none"
      BY <3>4, <3>5, <1>5 DEF Unmoved
    <3> QED
      BY <2>2, <3>1, <3>6, <1>6 DEF Checked
  <2> QED
    BY <2>1, <2>2
<1>8. /\ \A i \in 1 .. n : Opens(said[i].cmd)' <=> Opens(said[i].cmd)
      /\ Opens(said[n + 1].cmd)' <=> Opens(c)
  BY <1>1, <1>2, <1>3, LoopKept DEF Opens
<1>9. \A i \in 1 .. n : OpenedAt(i)' => OpenedAt(i)
  BY <1>3, <1>8 DEF OpenedAt
<1>10. test \in Fetches /\ Fetched' => second'
  <2> SUFFICES ASSUME test \in Fetches, Fetched' PROVE second'
    OBVIOUS
  <2>1. PICK i, j \in 1 .. n + 1 : i < j /\ OpenedAt(i)' /\ Data(said'[j].cmd)
    BY <1>3 DEF Fetched, Data
  <2>2. i \in 1 .. n /\ OpenedAt(i)
    BY <2>1, <1>9
  <2>3. CASE j \in 1 .. n
    BY <2>1, <2>2, <2>3, <1>3, <1>6 DEF Fetched, FailInv
  <2>4. CASE j = n + 1
    <3>1. first
      BY <2>2, <1>3 DEF IInv, Known, OpenedAt
    <3>2. Data(c)
      BY <2>1, <2>4, <1>2, <1>3
    <3>3. Loop.closes = {"D"}
      BY DEF Fetches, Loop, Sequence, Concurrent, LooksFor
    <3>4. Closes(c)
      BY <3>1, <3>2, <3>3 DEF Closes, Data
    <3> QED
      BY <3>4, <1>6
  <2> QED
    BY <2>1, <2>3, <2>4, <1>3
<1> QED
  BY <1>1, <1>4, <1>5, <1>7, <1>10 DEF FailInv

\* A recorder is failed only for what it said, or did not say.
LEMMA NextFail ==
  ASSUME IInv, FailInv, [Next]_vars
  PROVE  FailInv'
<1>1. CASE Start
  <2>1. /\ said' = <<>> /\ Said' = {} /\ ~first' /\ wrong' = 0
        /\ verdict' = "none" /\ sensor'.addr = "own"
    BY <1>1 DEF Start, SimInit, Silent, Said
  <2> QED
    BY <2>1 DEF FailInv, Unmoved, Fetched
<1>2. CASE Announce \/ Silence \/ UNCHANGED vars
  <2>1. UNCHANGED <<said, test, first, second, good, wrong, verdict>>
    BY <1>2 DEF Announce, Silence, vars
  <2>2. sensor'.addr = sensor.addr
    BY <1>2 DEF Announce, Silence, vars, IInv, Typed, Sensors
  <2> QED
    BY <2>1, <2>2, FailQuiet DEF FailInv
<1>3. CASE Judge
  <2>1. UNCHANGED <<said, test, first, second, good, wrong>> /\ verdict' = Judgement
    BY <1>3 DEF Judge
  <2>2. sensor'.addr \in {sensor.addr, "own"}
    BY <1>3 DEF Judge, IInv, Typed, Sensors
  <2>3. Judgement = "FAIL" => Failed
    BY DEF Judgement, Failed, Fetches, IInv, Typed, AllTests
  <2> QED
    BY <2>1, <2>2, <2>3, FailQuiet
<1>4. ASSUME NEW c \in Commands, Hear(c) \/ HearBreak(c)
      PROVE  FailInv'
  <2>1. verdict = "none"
    BY <1>4 DEF Hear, HearBreak, IInv, Pronounced
  <2>2. CASE Hear(c)
    BY <1>4, <2>1, <2>2, FailMore
  <2>3. CASE HearBreak(c)
    <3>1. /\ UNCHANGED <<test, wrong, verdict>> /\ test = "brk_between"
      BY <2>3 DEF HearBreak
    <3>2. Strayed => Strayed'
      <4>1. PICK e \in Entries : said' = Append(said, e)
        BY <1>4, HeardOne DEF IInv
      <4> QED
        BY <4>1, Longer DEF Strayed, RightAddress, Said, IInv, Typed
    <3> QED
      BY <2>1, <3>1, <3>2 DEF FailInv, Fetches
  <2> QED
    BY <1>4, <2>2, <2>3
<1> QED
  BY <1>1, <1>2, <1>3, <1>4 DEF Next

\* No recorder is failed for what it did right: one that fetched its data
\* after the measurement (test_rec_sequence, test_rec_concurrent), or one that
\* used no address but the sensor's (test_rec_address).
THEOREM NotFailedWrongly == Spec => []FailJustified
<1>1. Init => IInv /\ FailInv
  BY InitInv, InitFail
<1>2. (IInv /\ FailInv) /\ [Next]_vars => (IInv /\ FailInv)'
  BY NextInv, NextFail
<1>3. FailInv => FailMeansNoData
  <2> SUFFICES ASSUME FailInv, verdict = "FAIL", test \in Fetches, Steady
               PROVE  ~Fetched
    BY DEF FailMeansNoData, Fetches, Fetched
  <2> QED
    BY DEF FailInv, Failed
<1>4. FailInv => FailMeansMisaddressed
  <2> SUFFICES ASSUME FailInv, verdict = "FAIL", test = "address", Steady
               PROVE  \E i \in Said : said[i].cmd.to \notin {"?", said[i].at}
    BY DEF FailMeansMisaddressed
  <2> QED
    BY DEF FailInv, Failed, Strayed, Unmoved, RightAddress
<1> QED
  BY <1>1, <1>2, <1>3, <1>4, PTL DEF Spec, FailJustified
==============================================================================
