----------------------------- MODULE TimingLayer -----------------------------
(***************************************************************************)
(* The timing interposition layer (src/timing.c): the callbacks libsdi12   *)
(* calls to break the line, send a command and receive one line of a       *)
(* reply, each stamping what it sees with hal->micros, and the functions   *)
(* that compute latencies and gaps from the stamps.                        *)
(*                                                                         *)
(* Around it, modelled from how the layer uses them: libsdi12's master,    *)
(* which calls one callback at a time; the receive buffer of the port;     *)
(* the sensor, which answers whenever it likes, or never; the clock, which *)
(* advances while a callback waits and, when Jitter > 0, while the thread  *)
(* is preempted between any two of its steps.                              *)
(*                                                                         *)
(* The unit of time is one character at 1200 baud.  A definition named      *)
(* Bug... is the one after it with a mistake: no run uses it, and each     *)
(* serves to see that a property notices the mistake.                      *)
(***************************************************************************)
EXTENDS Integers, Sequences, FiniteSetsExt

CONSTANTS
  CharTime,    \* TIMING_CHAR_TIME_US: one character on the line
  IdleTime,    \* TIMING_INTERCHAR_IDLE_US: a line this quiet has ended
  BreakTime,   \* the break and the marking after it, 15 ms + 9 ms
  CmdTime,     \* the characters of a command: one or more
  Timeouts,    \* the timeout_ms the master passes to recv
  BufSizes,    \* the sizes of the buffers it passes
  MaxBytes,    \* TIMING_MAX_BYTES
  MaxLines,    \* TIMING_MAX_LINES
  LF, Other,   \* a newline, any other character
  Replies,     \* what a sensor may answer: sequences of characters
  LineGap,     \* the longest pause a sensor makes between two lines
  Inside,      \* whether the sensor may be the one inside hal_loopback.c, or
               \* behind a serial port: a subset of BOOLEAN
  Jitter,      \* how late the thread may be; 0: it is never preempted and
               \* its master is never late with the next call
  MaxTime,     \* bound: no callback starts after MaxTime
  MaxCmds,     \* bound: commands sent
  MaxCalls     \* bound: recv calls for one command

Chars == {LF, Other}

ASSUME TimesAreNaturals ==
  /\ CharTime \in Nat \ {0} /\ LineGap \in Nat \ {0} /\ IdleTime \in Nat \ {0}
  /\ CmdTime \in Nat \ {0} /\ BreakTime \in Nat
  /\ Jitter \in Nat /\ MaxTime \in Nat
  /\ Timeouts \subseteq Nat

ASSUME SizesArePositive ==
  /\ MaxBytes \in Nat \ {0} /\ MaxLines \in Nat \ {0}
  /\ BufSizes \subseteq Nat \ {0}
  /\ MaxCmds \in Nat /\ MaxCalls \in Nat \ {0}

ASSUME RepliesAreText ==
  /\ LF # Other
  /\ Replies \subseteq Seq(Chars)
  /\ Inside \subseteq BOOLEAN

VARIABLES
  now,         \* the clock behind hal->micros
  pc,          \* what the master's thread is doing
  breakStart, breakEnd, cmdStart, cmdEnd, respStart, respEnd,
  byteTimes,   \* byte_times_us[0 .. byte_count-1]
  lineStart, lineEnd, lineCount,
  binary,      \* binary_recv_mode
  deadline,    \* locals of cb_recv: deadline, max, pos and what read returned
  max, pos, got,
  rx,          \* the port's receive buffer
  dev,         \* the sensor: if it is inside the loopback HAL, what it has
               \* yet to send, when it last sent
  heard,       \* history: the bytes received since the last command
  cmds,        \* history: commands sent
  calls,       \* history: recv calls since the last command or SetBinary
  fresh        \* history: this command directly followed a break

stamps == <<breakStart, breakEnd, cmdStart, cmdEnd>>
lines  == <<lineStart, lineEnd, lineCount>>
resp   == <<respStart, respEnd, byteTimes, lines>>
locals == <<deadline, max, pos, got>>
ghosts == <<heard, cmds, calls, fresh>>
vars   == <<now, pc, stamps, resp, binary, locals, rx, dev, ghosts>>

Bytes     == [c : Chars, cmd : Nat, at : Nat, id : Nat]
Devices   == [inside : BOOLEAN, out : Seq(Chars), cmd : Nat, at : Nat,
              line : {"quiet", "mid", "between"}, sent : Nat]
LineSlots == 0 .. MaxLines - 1
Receiving == pc \in {"reading", "sampled"}

Init ==
  /\ now = 0 /\ pc = "idle"
  /\ breakStart = 0 /\ breakEnd = 0 /\ cmdStart = 0 /\ cmdEnd = 0
  /\ respStart = 0 /\ respEnd = 0 /\ byteTimes = <<>>
  /\ lineStart = [i \in LineSlots |-> 0]
  /\ lineEnd = [i \in LineSlots |-> 0]
  /\ lineCount = 0
  /\ binary = FALSE
  /\ deadline = 0 /\ max = 0 /\ pos = 0 /\ got = <<>>
  /\ rx = <<>>
  /\ \E b \in Inside :
       dev = [inside |-> b, out |-> <<>>, cmd |-> 0, at |-> 0, line |-> "quiet",
              sent |-> 0]
  /\ heard = <<>> /\ cmds = 0 /\ calls = 0 /\ fresh = FALSE

-----------------------------------------------------------------------------
(* The callbacks.  A callback that waits is a Begin and an End, and the    *)
(* clock and the sensor move in between.                                   *)

BreakOn ==
  /\ pc = "idle" /\ now < MaxTime /\ cmds < MaxCmds
  /\ pc' = "breaking"
  /\ breakStart' = now
  /\ dev' = [dev EXCEPT !.out = <<>>, !.line = "quiet"]  \* silenced
  /\ UNCHANGED <<now, breakEnd, cmdStart, cmdEnd, resp, binary, locals, rx,
                 ghosts>>

\* Only the loopback HAL drops what had been received (lb_set_break).
BugAfterBreak == rx
AfterBreak    == IF dev.inside THEN <<>> ELSE rx

BreakOff ==
  /\ pc = "breaking" /\ now >= breakStart + BreakTime
  /\ pc' = "woken"
  /\ breakEnd' = now
  /\ rx' = AfterBreak
  /\ UNCHANGED <<now, breakStart, cmdStart, cmdEnd, resp, binary, locals, dev,
                 ghosts>>

Send ==
  /\ pc \in {"idle", "woken"} /\ now <= MaxTime /\ cmds < MaxCmds
  /\ pc' = "sending"
  /\ lineCount' = 0
  /\ cmdStart' = now
  /\ heard' = <<>> /\ cmds' = cmds + 1
  /\ calls' = 0 /\ fresh' = (pc = "woken")
  /\ UNCHANGED <<now, breakStart, breakEnd, cmdEnd, respStart, respEnd,
                 byteTimes, lineStart, lineEnd, binary, locals, rx, dev>>

Stamped(reply) ==
  [i \in 1 .. Len(reply) |->
     [c |-> reply[i], cmd |-> cmds, at |-> now, id |-> dev.sent + i]]

\* hal->flush returns when the command is on the line.  The sensor takes it
\* unless it has not finished its last answer; the loopback HAL answers before flush returns.
Sent ==
  /\ pc = "sending" /\ now >= cmdStart + CmdTime
  /\ pc' = "waiting"
  /\ cmdEnd' = now
  /\ \E reply \in Replies \cup {<<>>} :
       IF dev.inside
       THEN /\ rx' = rx \o Stamped(reply)
            /\ dev' = [dev EXCEPT !.sent = @ + Len(reply)]
       ELSE /\ dev' = IF dev.out = <<>>
                      THEN [dev EXCEPT !.out = reply, !.cmd = cmds, !.at = now,
                                         !.line = "quiet"]
                      ELSE dev
            /\ UNCHANGED rx
  /\ UNCHANGED <<now, breakStart, breakEnd, cmdStart, resp, binary, locals,
                 ghosts>>

BugKeepBytes == respStart' = 0 /\ respEnd' = 0 /\ UNCHANGED byteTimes
ResetResp    == byteTimes' = <<>> /\ respStart' = 0 /\ respEnd' = 0

Recv ==
  /\ \/ pc = "waiting"
     \/ pc = "idle" /\ calls \in 1 .. MaxCalls - 1 /\ now < MaxTime
  /\ pc' = "reading"
  /\ ResetResp
  /\ \E t \in Timeouts, m \in BufSizes : deadline' = now + t /\ max' = m
  /\ pos' = 0 /\ got' = <<>>
  /\ calls' = calls + 1
  /\ UNCHANGED <<now, stamps, lines, binary, rx, dev, heard, cmds, fresh>>

\* hal->read of one character: it returns one, or nothing after its 1 ms.
Read ==
  /\ pc = "reading"
  /\ pc' = "sampled"
  /\ IF rx = <<>> THEN got' = <<>> /\ UNCHANGED rx
                  ELSE got' = <<Head(rx)>> /\ rx' = Tail(rx)
  /\ UNCHANGED <<now, stamps, resp, binary, deadline, max, pos, dev, ghosts>>

EndsLine(b) == ~binary /\ b.c = LF
Returns(b)  == EndsLine(b) \/ pos + 1 >= max

BugStartsLine == pos = 0 /\ lineCount = 0
StartsLine    == pos = 0 /\ lineCount < MaxLines

Recorded(times) == IF Len(times) < MaxBytes THEN Append(times, now) ELSE times

\* hal->micros after a read that returned a character.
Store ==
  /\ pc = "sampled" /\ got # <<>>
  /\ respStart' = IF pos = 0 THEN now ELSE respStart
  /\ respEnd' = now
  /\ byteTimes' = Recorded(byteTimes)
  /\ lineStart' = IF StartsLine THEN [lineStart EXCEPT ![lineCount] = now]
                                ELSE lineStart
  /\ IF EndsLine(got[1]) /\ lineCount < MaxLines
     THEN /\ lineEnd' = [lineEnd EXCEPT ![lineCount] = now]
          /\ lineCount' = lineCount + 1
     ELSE UNCHANGED <<lineEnd, lineCount>>
  /\ deadline' = now + IdleTime
  /\ pos' = pos + 1
  /\ heard' = Append(heard, got[1])
  /\ got' = <<>>
  /\ pc' = IF Returns(got[1]) THEN "idle" ELSE "reading"
  /\ UNCHANGED <<now, stamps, binary, max, rx, dev, cmds, calls, fresh>>

BugExpiredEarly == now + 1 >= deadline
BugExpiredOnce  == now >= deadline /\ pos = 0
Expired         == now >= deadline

BugQuiet ==
  /\ pc = "sampled" /\ (got = <<>> \/ Expired)
  /\ pc' = IF Expired THEN "idle" ELSE "reading"
  /\ got' = <<>>
  /\ UNCHANGED <<now, stamps, resp, binary, deadline, max, pos, rx, dev, ghosts>>

\* hal->micros after a read that returned nothing.
Quiet ==
  /\ pc = "sampled" /\ got = <<>>
  /\ pc' = IF Expired THEN "idle" ELSE "reading"
  /\ UNCHANGED <<now, stamps, resp, binary, locals, rx, dev, ghosts>>

SetBinary ==
  /\ pc = "idle" /\ now < MaxTime /\ cmds < MaxCmds
  /\ binary' = ~binary
  /\ calls' = 0
  /\ UNCHANGED <<now, pc, stamps, resp, locals, rx, dev, heard, cmds, fresh>>

-----------------------------------------------------------------------------
(* The sensor and the clock.                                               *)

\* One more character of the reply reaches the port, a character time or
\* more after the one before it or, with the marking a sensor leaves before
\* it answers, more than that after the command.
SensorByte ==
  /\ dev.out # <<>>
  /\ now >= dev.at + CharTime + (IF dev.line = "mid" THEN 0 ELSE 1)
  /\ rx' = Append(rx, [c |-> Head(dev.out), cmd |-> dev.cmd, at |-> now,
                       id |-> dev.sent + 1])
  /\ dev' = [dev EXCEPT !.out = Tail(@), !.at = now, !.sent = @ + 1,
                        !.line = IF Head(dev.out) = LF THEN "between" ELSE "mid"]
  /\ UNCHANGED <<now, pc, stamps, resp, binary, locals, ghosts>>

\* A sensor that has begun a line sends its characters back to back, and
\* begins the next line within LineGap.
SensorMustSend ==
  /\ dev.out # <<>>
  /\ \/ dev.line = "mid" /\ now >= dev.at + CharTime
     \/ dev.line = "between" /\ now >= dev.at + CharTime + LineGap

\* How long the thread may stay where it is.
MayWaitUntil ==
  CASE pc \in {"idle", "woken"} -> MaxTime
    [] pc = "waiting"  -> cmdEnd + Jitter
    [] pc = "breaking" -> breakStart + BreakTime + Jitter
    [] pc = "sending"  -> cmdStart + CmdTime + Jitter
    [] OTHER           -> deadline + Jitter

Tick ==
  /\ now < MayWaitUntil
  /\ ~SensorMustSend
  /\ Jitter = 0 => pc # "sampled" /\ (pc \in {"idle", "reading"} => rx = <<>>)
  /\ now' = now + 1
  /\ UNCHANGED <<pc, stamps, resp, binary, locals, rx, dev, ghosts>>

Next ==
  \/ BreakOn \/ BreakOff \/ Send \/ Sent \/ Recv
  \/ Read \/ Store \/ Quiet \/ SetBinary
  \/ SensorByte \/ Tick

\* The thread is scheduled again and again, a poll takes its millisecond, so
\* that the clock advances however often it is read, and a sensor that has
\* begun to answer goes on.  The master need not call again.
Fairness ==
  /\ WF_vars(BreakOff) /\ WF_vars(Sent)
  /\ WF_vars(Read) /\ WF_vars(Store) /\ WF_vars(Quiet)
  /\ SF_vars(Tick) /\ WF_vars(SensorByte)

Spec == Init /\ [][Next]_vars /\ Fairness

-----------------------------------------------------------------------------
(* What the sensor tests read off the layer between two calls.             *)

\* A byte is read a character time after its start bit.
Compensated(raw) == IF raw <= CharTime THEN raw ELSE raw - CharTime

BugLatencyUs ==
  IF respStart = 0 \/ cmdEnd = 0 THEN 0 ELSE Compensated(respEnd - cmdEnd)
LatencyUs ==
  IF respStart = 0 \/ cmdEnd = 0 THEN 0 ELSE Compensated(respStart - cmdEnd)

MaxIntercharGap ==
  Max({0} \cup {byteTimes[i] - byteTimes[i - 1] - CharTime :
                  i \in 2 .. Len(byteTimes)})

BugInterlineGap ==
  Max({0} \cup {lineEnd[i] - lineEnd[i - 1] : i \in 1 .. lineCount - 1})
MaxInterlineGap ==
  Max({0} \cup {lineStart[i] - lineEnd[i - 1] : i \in 1 .. lineCount - 1})

\* Between calls, after at least one recv for the command.
Rested == pc = "idle" /\ calls > 0

-----------------------------------------------------------------------------
TypeOK ==
  /\ now \in Nat
  /\ pc \in {"idle", "breaking", "woken", "sending", "waiting", "reading",
             "sampled"}
  /\ breakStart \in Nat /\ breakEnd \in Nat
  /\ cmdStart \in Nat /\ cmdEnd \in Nat
  /\ respStart \in Nat /\ respEnd \in Nat
  /\ byteTimes \in Seq(Nat) /\ Len(byteTimes) <= MaxBytes
  /\ lineStart \in [LineSlots -> Nat] /\ lineEnd \in [LineSlots -> Nat]
  /\ lineCount \in 0 .. MaxLines
  /\ binary \in BOOLEAN /\ fresh \in BOOLEAN
  /\ deadline \in Nat /\ max \in Nat /\ pos \in Nat
  /\ got \in Seq(Bytes) /\ Len(got) <= 1
  /\ rx \in Seq(Bytes) /\ heard \in Seq(Bytes)
  /\ dev \in Devices
  /\ cmds \in Nat /\ calls \in Nat

\* The buffer the master passes is never overrun, whatever arrives: a recv
\* that is still going has room, and what it returns fits (cb_recv).
BufferNotOverrun == pos <= max /\ (Receiving => pos < max)

\* The line stamps, gathered over several recv calls, alternate in time:
\* line i starts before it ends and ends before line i+1 starts, so that the
\* unsigned differences of timing_max_interline_gap_us are gaps.
LinesOrdered ==
  /\ \A i \in 0 .. lineCount - 1 : lineStart[i] <= lineEnd[i]
  /\ \A i \in 1 .. lineCount - 1 : lineEnd[i - 1] <= lineStart[i]

\* Between calls the difference timing_response_latency_us takes of two
\* unsigned stamps never wraps: a reply starts after the command it is
\* measured against.
LatencyNeverWraps == Rested /\ respStart # 0 => respStart >= cmdEnd

\* Both: whatever a test subtracts of two stamps is a duration.
StampsOrdered == LinesOrdered /\ LatencyNeverWraps

\* In text mode a recv returns at most one line: a newline is the last byte
\* it returns and the bytes behind it wait for the next call.
OneLinePerCall ==
  Rested /\ ~binary =>
    \A i \in Len(heard) - pos + 1 .. Len(heard) - 1 : heard[i].c # LF

\* The bytes received for a command, the one in hand and the port's buffer
\* together are an unbroken stretch of what the sensor sent: the layer loses
\* none, repeats none and keeps their order.
NothingLost ==
  LET stream == heard \o got \o rx
  IN  \A i \in 2 .. Len(stream) : stream[i].id = stream[i - 1].id + 1

\* A recv that returned empty-handed did so after its whole window: anything
\* now in the buffer arrived at or after the deadline.
InTimeAnswerHeard ==
  Rested /\ pos = 0 /\ rx # <<>> => rx[1].at >= deadline

\* What was heard for a command answers that command: nothing of it came late,
\* after the master had given up an earlier one.
OwnReply == \A i \in DOMAIN heard : heard[i].cmd = cmds

\* timing_response_latency_us is the time from the end of the command to the
\* first start bit of its reply, when one recv took the reply.
LatencyOfReply ==
  heard # <<>> => LatencyUs = Compensated(heard[1].at - cmdEnd)
LatencyOfOneLine == Rested /\ calls = 1 /\ OwnReply => LatencyOfReply

\* The same of every reply, of one line or more, as timing.h documents it.
LatencyOfFirstByte == Rested => LatencyOfReply

\* What is received for a command sent right after a break answers it: no
\* late answer to an earlier command is taken, and timed, as its reply.
RepliesAreFresh ==
  Rested /\ fresh => \A i \in 1 .. Len(heard) : heard[i].cmd = cmds

\* The same inside the program, where the break drops what was pending.
FreshOnLoopback == dev.inside => RepliesAreFresh

\* The characters of a line a sensor sends back to back measure as such, and
\* the gap between two lines never counts against the inter-character limit.
NoFalseIntercharGap == Rested /\ ~binary /\ OwnReply => MaxIntercharGap = 0

\* timing_max_interline_gap_us is the longest pause between the end of one
\* line of a reply and the start of the next, as the port saw them.
InterlineGapExact ==
  Rested /\ ~binary /\ OwnReply =>
    MaxInterlineGap =
      Max({0} \cup {heard[i].at - heard[i - 1].at :
                      i \in {j \in 2 .. Len(heard) : heard[j - 1].c = LF}})

\* Every recv returns, whatever the sensor does.
RecvReturns == Receiving ~> pc = "idle"
==============================================================================
