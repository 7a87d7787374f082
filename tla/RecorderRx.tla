------------------------------ MODULE RecorderRx -----------------------------
(***************************************************************************)
(* How the recorder tests hear the recorder (src/recorder_tests.c):        *)
(* wait_for_command picks breaks and commands out of the received bytes in *)
(* windows of bounded time; wait_and_respond, wait_and_respond_poll and    *)
(* wait_for_break with read_command loop over it; the simulated sensor     *)
(* gets the command and, in a poll, announces its deferred measurement.    *)
(*                                                                         *)
(* A byte is a break's NUL, a character of a command or its '!', tagged    *)
(* with the command it belongs to.  Recorder and clock move between any    *)
(* two steps of the wait; when prompt is TRUE the thread never lags behind *)
(* what it could read.  A spread of NULs is taken to last a microsecond at *)
(* least, so that wait_for_break returns 0 only when it times out.         *)
(*                                                                         *)
(* A definition named Bug... is the one after it with a mistake: no run    *)
(* uses it; it serves to see that a property notices the mistake.          *)
(***************************************************************************)
EXTENDS Integers, Sequences

CONSTANTS
  Cap,         \* sizeof(last_cmd) - 1
  Lengths,     \* the lengths of the recorder's commands, '!' included
  Nuls,        \* how many NULs a break may be read as
  Waits,       \* timeout_ms of a whole wait
  Window,      \* the window of one wait_for_command in a loop, 50 or 100 ms
  ReadWait,    \* the window of read_command
  Ttt,         \* the simulated measurement time
  Modes,       \* the waits the tests use: subsets of "respond" "poll" "break"
  Prompts,     \* whether the thread is prompt: one or both of TRUE and FALSE
  MaxCmds,     \* bound: commands the recorder begins
  MaxTime      \* bound: no wait starts after MaxTime

ASSUME CapPositive == Cap \in Nat \ {0, 1}
ASSUME TimesNatural ==
  /\ Waits \subseteq Nat /\ Window \in Nat /\ ReadWait \in Nat /\ Ttt \in Nat
  /\ MaxTime \in Nat /\ MaxCmds \in Nat
ASSUME WaitsPositive == 0 \notin Waits     \* they wait 15 or 30 s
ASSUME LengthsPositive == Lengths \cup Nuls \subseteq Nat \ {0}
ASSUME ModesKnown == Modes \subseteq {"respond", "poll", "break"}
ASSUME PromptsFlags == Prompts \subseteq BOOLEAN

VARIABLES
  prompt,      \* the thread never lags, in this behaviour
  now,
  pc,          \* "idle", "outer" (in the wrapper), "loop", "burst"
  mode,        \* the wrapper at work; "read" is read_command
  breakSeen, breakStart, breakEnd, markingEnd, lastCmd,   \* rec_sim_t
  deadline,    \* of wait_for_command
  until,       \* of the wrapper
  pending, doneAt,    \* meas_pending, meas_done_us
  measuring,   \* libsdi12's sensor: a measurement to be announced
  rx,          \* the port's receive buffer
  rec,         \* the recorder: the command under way and what is left of it
  handled,     \* history: the last command given to the sensor
  requests,    \* history: service requests sent
  hearing,     \* history: the last byte read, its command and if it was a '!'
  cut          \* history: a command whose beginning was thrown away

sim     == <<breakSeen, breakStart, breakEnd, markingEnd>>
meas    == <<pending, doneAt, measuring, requests>>
vars    == <<prompt, now, pc, mode, sim, lastCmd, deadline, until, meas, rx,
             rec, handled, hearing, cut>>

Bytes == [s : {"nul", "char", "end"}, k : Nat, i : Nat, n : Nat,
          brk : BOOLEAN, at : Nat]
None  == [cmd |-> <<>>, brk |-> FALSE, whole |-> TRUE]

Init ==
  /\ prompt \in Prompts
  /\ now = 1 /\ pc = "idle" /\ mode = "read"
  /\ breakSeen = FALSE /\ breakStart = 0 /\ breakEnd = 0 /\ markingEnd = 0
  /\ lastCmd = <<>> /\ deadline = 0 /\ until = 0
  /\ pending = FALSE /\ doneAt = 0 /\ measuring = FALSE /\ requests = 0
  /\ rx = <<>>
  /\ rec = [k |-> 0, brk |-> FALSE, n |-> 0, sent |-> 0, nuls |-> 0]
  /\ handled = None /\ hearing = [k |-> 0, last |-> FALSE] /\ cut = 0

-----------------------------------------------------------------------------
(* The wrappers.                                                           *)

\* rx_reset: what was heard of an unfinished command is gone.
BugRxReset == lastCmd' = <<>> /\ UNCHANGED breakSeen /\ cut' = hearing.k
RxReset    == lastCmd' = <<>> /\ breakSeen' = FALSE /\ cut' = hearing.k

\* A test starts to wait; a new test has first cleared the sim (sim_init_ex).
Wait ==
  /\ pc = "idle" /\ now < MaxTime
  /\ \E m \in Modes, w \in Waits : mode' = m /\ until' = now + w
  /\ pc' = "outer"
  /\ RxReset
  /\ \/ UNCHANGED <<breakStart, breakEnd, markingEnd, meas>>
     \/ /\ breakStart' = 0 /\ breakEnd' = 0 /\ markingEnd' = 0
        /\ pending' = FALSE /\ doneAt' = 0 /\ measuring' = FALSE
        /\ UNCHANGED requests
  /\ handled' = None
  /\ UNCHANGED <<prompt, now, deadline, rx, rec, hearing>>

\* sim_poll_measurement: libsdi12 announces the measurement unless a break
\* has aborted it.
Poll ==
  IF pending /\ now >= doneAt
  THEN /\ pending' = FALSE /\ measuring' = FALSE
       /\ requests' = requests + (IF measuring THEN 1 ELSE 0)
       /\ UNCHANGED doneAt
  ELSE UNCHANGED meas

BugWindowEnd == now + Window
WindowEnd ==
  CASE mode = "respond" -> until
    [] mode = "read"    -> now + ReadWait
    [] OTHER            -> now + Window

Looping == mode \in {"poll", "break"}

\* One more window of wait_for_command.
OpenWindow ==
  /\ pc = "outer"
  /\ Looping => now < until
  /\ IF mode \in {"respond", "poll"} THEN Poll ELSE UNCHANGED meas
  /\ deadline' = WindowEnd
  /\ pc' = "loop"
  /\ UNCHANGED <<prompt, now, mode, sim, lastCmd, until, rx, rec, handled,
                 hearing, cut>>

GiveUp ==
  /\ pc = "outer" /\ Looping /\ now >= until
  /\ pc' = "idle"
  /\ UNCHANGED <<prompt, now, mode, sim, lastCmd, deadline, until, meas, rx,
                 rec, handled, hearing, cut>>

Complete == lastCmd # <<>> /\ lastCmd[Len(lastCmd)].s = "end"

\* The sensor gets the command, after the break if one was seen; if it is an
\* M or V command it starts a measurement that ends Ttt later.
Handle ==
  /\ handled' = [cmd |-> lastCmd, brk |-> breakSeen,
                 whole |-> lastCmd[1].k # cut]
  /\ \/ mode = "poll" /\ pending' = TRUE /\ doneAt' = now + Ttt
        /\ measuring' = TRUE /\ UNCHANGED requests
     \/ measuring' = (measuring /\ ~breakSeen)
        /\ UNCHANGED <<pending, doneAt, requests>>

\* wait_for_command returns, and its wrapper goes on.
BugRespond ==
  /\ pc' = "idle"
  /\ IF Complete /\ now < deadline THEN Handle ELSE UNCHANGED <<handled, meas>>
  /\ UNCHANGED <<mode, breakSeen, lastCmd, cut>>
Respond ==
  /\ pc' = "idle"
  /\ IF Complete THEN Handle ELSE UNCHANGED <<handled, meas>>
  /\ UNCHANGED <<mode, breakSeen, lastCmd, cut>>

\* An unfinished poll opens another window and keeps what it has.
PollAgain ==
  pc' = "outer" /\ UNCHANGED <<mode, breakSeen, lastCmd, cut, handled, meas>>

\* wait_for_break is content once it has seen a break; it drops a command
\* that came without one.
BreakReturns ==
  /\ pc' = "outer"
  /\ mode' = IF breakSeen THEN "read" ELSE mode
  /\ IF Complete /\ ~breakSeen THEN RxReset
                               ELSE UNCHANGED <<breakSeen, lastCmd, cut>>
  /\ UNCHANGED <<handled, meas>>

BugOver == Complete
Over    == Complete \/ now >= deadline

Return ==
  /\ pc = "loop" /\ Over
  /\ CASE mode = "break"               -> BreakReturns
       [] mode = "poll" /\ ~Complete   -> PollAgain
       [] OTHER                        -> Respond
  /\ UNCHANGED <<prompt, now, breakStart, breakEnd, markingEnd, deadline,
                 until, rx, rec, hearing>>

-----------------------------------------------------------------------------
(* wait_for_command: one byte, or one step of a burst of NULs.             *)

\* A read begun before the deadline may end at it.
Reading  == pc = "loop" /\ now <= deadline /\ ~Complete /\ rx # <<>>
Heard(b) == [k |-> b.k, last |-> b.s = "end"]

\* A buffer that is full without a '!' is thrown away before the next read.
Kept    == IF Len(lastCmd) >= Cap THEN <<>> ELSE lastCmd
CutNow  == IF Kept = lastCmd THEN cut ELSE hearing.k

ReadNul ==
  /\ Reading /\ Head(rx).s = "nul"
  /\ rx' = Tail(rx) /\ hearing' = Heard(Head(rx))
  /\ breakSeen' = TRUE /\ breakStart' = now
  /\ lastCmd' = Kept /\ cut' = CutNow
  /\ pc' = "burst"
  /\ UNCHANGED <<prompt, now, mode, breakEnd, markingEnd, deadline, until,
                 meas, rec, handled>>

BugFirstChar == FALSE
FirstChar    == Kept = <<>> /\ breakSeen /\ markingEnd = 0

ReadChar ==
  /\ Reading /\ Head(rx).s # "nul"
  /\ rx' = Tail(rx) /\ hearing' = Heard(Head(rx))
  /\ markingEnd' = IF FirstChar THEN now ELSE markingEnd
  /\ lastCmd' = Append(Kept, Head(rx)) /\ cut' = CutNow
  /\ UNCHANGED <<prompt, now, pc, mode, breakSeen, breakStart, breakEnd,
                 deadline, until, meas, rec, handled>>

\* One more NUL of the burst.
BurstNul ==
  /\ pc = "burst" /\ now <= deadline /\ rx # <<>> /\ Head(rx).s = "nul"
  /\ rx' = Tail(rx) /\ hearing' = Heard(Head(rx))
  /\ UNCHANGED <<prompt, now, pc, mode, sim, lastCmd, deadline, until, meas,
                 rec, handled, cut>>

\* The burst ends: at the command's first character, when the line has been
\* quiet for 2 ms, or with the window.  The break voids a partial command.
BugVoided(s) == lastCmd \o s
Voided(s)    == s

BurstEnd ==
  /\ pc = "burst"
  /\ pc' = "loop"
  /\ breakEnd' = now
  /\ \/ /\ now <= deadline /\ rx # <<>> /\ Head(rx).s # "nul"
        /\ rx' = Tail(rx) /\ hearing' = Heard(Head(rx))
        /\ markingEnd' = now
        /\ lastCmd' = Voided(<<Head(rx)>>)
     \/ /\ now >= deadline \/ rx = <<>>
        /\ markingEnd' = 0
        /\ lastCmd' = Voided(<<>>)
        /\ UNCHANGED <<rx, hearing>>
  /\ UNCHANGED <<prompt, now, mode, breakSeen, breakStart, deadline, until,
                 meas, rec, handled, cut>>

-----------------------------------------------------------------------------
(* The recorder and the clock.                                             *)

\* It starts a command, with or without a break; one it leaves unfinished it
\* repeats with a break.
Begin ==
  /\ rec.k < MaxCmds
  /\ \E brk \in BOOLEAN, n \in Lengths, nuls \in Nuls :
       /\ rec.sent < rec.n => brk
       /\ rec' = [k |-> rec.k + 1, brk |-> brk, n |-> n, sent |-> 0,
                  nuls |-> IF brk THEN nuls ELSE 0]
  /\ UNCHANGED <<prompt, now, pc, mode, sim, lastCmd, deadline, until, meas,
                 rx, handled, hearing, cut>>

\* Its arrival is a history, kept where the thread is prompt.
Byte(s, i) == [s |-> s, k |-> rec.k, i |-> i, n |-> rec.n, brk |-> rec.brk,
               at |-> IF prompt THEN now ELSE 0]

SendNul ==
  /\ rec.nuls > 0
  /\ rx' = Append(rx, Byte("nul", 0))
  /\ rec' = [rec EXCEPT !.nuls = @ - 1]
  /\ UNCHANGED <<prompt, now, pc, mode, sim, lastCmd, deadline, until, meas,
                 handled, hearing, cut>>

SendChar ==
  /\ rec.nuls = 0 /\ rec.sent < rec.n
  /\ rx' = Append(rx, Byte(IF rec.sent + 1 = rec.n THEN "end" ELSE "char",
                           rec.sent + 1))
  /\ rec' = [rec EXCEPT !.sent = @ + 1]
  /\ UNCHANGED <<prompt, now, pc, mode, sim, lastCmd, deadline, until, meas,
                 handled, hearing, cut>>

MayWait == CASE pc = "idle"  -> now < MaxTime
             [] pc = "outer" -> Looping /\ now < until
             [] OTHER        -> now <= deadline

\* A prompt thread waits only in a read that has nothing to return.
Waiting == \/ pc = "idle"
           \/ pc \in {"loop", "burst"} /\ rx = <<>> /\ ~Complete /\ now < deadline

Tick ==
  /\ MayWait
  /\ prompt => Waiting
  /\ now' = now + 1
  /\ UNCHANGED <<prompt, pc, mode, sim, lastCmd, deadline, until, meas, rx,
                 rec, handled, hearing, cut>>

Next ==
  \/ Wait \/ OpenWindow \/ GiveUp \/ Return
  \/ ReadNul \/ ReadChar \/ BurstNul \/ BurstEnd
  \/ Begin \/ SendNul \/ SendChar \/ Tick

\* The thread runs and the clock advances; nothing is asked of the recorder.
Fairness ==
  /\ WF_vars(OpenWindow) /\ WF_vars(GiveUp) /\ WF_vars(Return)
  /\ WF_vars(BurstEnd) /\ WF_vars(ReadNul \/ ReadChar \/ BurstNul)
  /\ WF_vars(Tick)

Spec == Init /\ [][Next]_vars /\ Fairness

-----------------------------------------------------------------------------
(* What is expected of it.                                                 *)

\* Types, with the room of last_cmd.
TypeOK ==
  /\ prompt \in BOOLEAN /\ now \in Nat /\ deadline \in Nat /\ until \in Nat
  /\ pc \in {"idle", "outer", "loop", "burst"} /\ mode \in Modes \cup {"read"}
  /\ breakSeen \in BOOLEAN
  /\ breakStart \in Nat /\ breakEnd \in Nat /\ markingEnd \in Nat
  /\ lastCmd \in Seq(Bytes) /\ Len(lastCmd) <= Cap
  /\ pending \in BOOLEAN /\ measuring \in BOOLEAN
  /\ doneAt \in Nat /\ requests \in Nat
  /\ rx \in Seq(Bytes)
  /\ rec \in [k : Nat, brk : BOOLEAN, n : Nat, sent : Nat, nuls : Nat]
  /\ handled \in [cmd : Seq(Bytes), brk : BOOLEAN, whole : BOOLEAN]
  /\ hearing \in [k : Nat, last : BOOLEAN] /\ cut \in Nat

\* s is one command of the recorder, from its first character to its '!'.
OneCommand(s) == /\ s # <<>> /\ Len(s) = s[1].n
                 /\ \A i \in DOMAIN s : s[i].i = i /\ s[i].k = s[1].k

\* What the sensor is given is one command, whole and unmixed, however the
\* windows cut it and whatever the recorder abandoned before it; only one
\* whose beginning was thrown away before is given in part.
HandledWhole ==
  handled.cmd # <<>> /\ handled.whole => OneCommand(handled.cmd)

\* The break the sensor is told of is the one sent before that very command.
BreakAttributed ==
  handled.cmd # <<>> /\ handled.whole => handled.brk = handled.cmd[1].brk

\* Once its '!' is read a command is in last_cmd, whole, unless rx_reset or
\* a resync dropped it, and a wait never ends with it unanswered.
NothingHeardIsLost ==
  /\ hearing.last /\ cut # hearing.k => OneCommand(lastCmd)
  /\ pc = "idle" /\ Complete => handled.cmd = lastCmd

\* A command heard after a break has all the stamps that test_rec_marking and
\* wait_for_break subtract, in order: neither difference wraps, and a marking
\* is never measured from another command's break.
MarkingMeasured ==
  breakSeen /\ lastCmd # <<>> /\ pc # "burst"
    => breakStart <= breakEnd /\ breakEnd <= markingEnd

\* A prompt thread that gives up has left nothing that came in time unread.
InTimeByteHeard ==
  prompt /\ pc = "idle" /\ mode \in {"respond", "poll"} /\ handled.cmd = <<>>
    => \A i \in DOMAIN rx : rx[i].at >= until

\* The service request is sent between commands: not after the break of the
\* recorder's next command, which aborts the measurement, nor within it.
RequestBetweenCommands ==
  [][requests' # requests => ~breakSeen /\ lastCmd = <<>>]_vars

\* Every wait ends, whatever the recorder does.
WaitReturns == (pc # "idle") ~> (pc = "idle")
==============================================================================
