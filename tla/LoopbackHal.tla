----------------------------- MODULE LoopbackHal -----------------------------
(***************************************************************************)
(* The loopback HAL (src/hal/hal_loopback.c) as the timing layer calls it: *)
(* a command is written and flushed, which makes the simulated sensor      *)
(* answer into the ring; it is read back, at once or on the schedule of    *)
(* LB_FAULT_PACED_UART; a break drains the ring.  There is one thread; the *)
(* clock moves between any two calls.                                      *)
(*                                                                         *)
(* Outside: libsdi12's sensor, which answers the command it is given with  *)
(* any number of bytes.  What they say, and so the re-addressing of        *)
(* lb_send_response, does not matter here (SelftestFaults is about it): a  *)
(* byte is the number of the command it answers and its place.             *)
(*                                                                         *)
(* A definition named Bug... is the one after it with a mistake.           *)
(***************************************************************************)
EXTENDS LoopbackRing

CONSTANTS
  CmdMax,      \* LB_CMD_MAX
  Commands,    \* what is written: sequences of "!" and "c", any other character
  Lengths,     \* how long an answer may be; 0 is none
  Faults,      \* the masks hal_loopback_set_faults is given: "none", "paced"
  MaxCmds,     \* bound: commands written
  MaxSince     \* bound: how far the clock runs after the start of a schedule

ASSUME CmdRoom       == CmdMax \in Nat /\ CmdMax > 1
ASSUME BoundsNatural == MaxCmds \in Nat /\ MaxSince \in Nat
ASSUME CommandsTyped == Commands \subseteq Seq({"c", "!"})
ASSUME FaultsKnown   == Faults \subseteq {"none", "paced"}
\* A paced read gives less than was asked for.
ASSUME AsksClosed    == \A ask \in Asks : 1 .. ask \subseteq Asks

VARIABLES
  cmdBuf, breakActive, faults, paceActive, paceReleased,   \* loopback_priv_t
  since,       \* 2 ms units from pace_start_us to now
  calling,     \* the call that comes next: "flush" in cb_send, "unbreak" in
               \* cb_break, else "any"
  k,           \* commands written
  sent,        \* history: the last of them
  handled,     \* history: what the sensor was given of it
  drained,     \* history: k at the end of the last break
  clock        \* history: of the last answer, see Unread

ring    == <<buf, head, tail, out, call>>
pacing  == <<paceActive, paceReleased, since>>
halVars == <<ring, cmdBuf, breakActive, faults, pacing, calling, k, sent,
             handled, drained, clock>>

Message(n) == [i \in 1 .. n |-> [cmd |-> k, at |-> i]]
ASSUME MessagesKnown ==
  \A c \in 1 .. MaxCmds, n \in Lengths :
    [i \in 1 .. n |-> [cmd |-> c, at |-> i]] \in Messages

\* The last answer as a line would carry it: whether it is the only one on it,
\* and since its first read how long it has been and how many bytes were given.
Unread(own) == [own |-> own, begun |-> FALSE, age |-> 0, given |-> 0]

HalInit ==
  /\ Init
  /\ cmdBuf = <<>> /\ breakActive = FALSE /\ faults \in Faults
  /\ paceActive = FALSE /\ paceReleased = 0 /\ since = 0
  /\ calling = "any" /\ k = 0 /\ sent = <<>> /\ handled = <<>>
  /\ drained = 0 /\ clock = Unread(FALSE)

Idle == calling = "any"

-----------------------------------------------------------------------------
\* lb_write: what the buffer has no room for is dropped.
Chars(c) == [i \in DOMAIN c |-> [cmd |-> k + 1, char |-> c[i]]]
FirstOf(s, n) == SubSeq(s, 1, Least(Len(s), n))

Write ==
  /\ Idle /\ k < MaxCmds
  /\ \E c \in Commands :
       /\ sent' = Chars(c)
       /\ cmdBuf' = FirstOf(cmdBuf \o Chars(c), CmdMax - 1)
  /\ k' = k + 1 /\ calling' = "flush"
  /\ UNCHANGED <<ring, breakActive, faults, pacing, handled, drained, clock>>

\* lb_flush: the command up to its '!' goes to the sensor, and its answer to
\* the ring; the buffer is emptied, whatever was in it.
Bangs(s) == {i \in DOMAIN s : s[i].char = "!"}
Command(s) ==
  LET bang == CHOOSE i \in Bangs(s) : \A j \in Bangs(s) : i <= j
  IN  SubSeq(s, 1, bang - 1)

BugEmptied == IF Bangs(cmdBuf) = {} THEN cmdBuf ELSE <<>>
Emptied    == <<>>

Flush ==
  /\ calling = "flush" /\ calling' = "any"
  /\ cmdBuf' = Emptied
  /\ IF Bangs(cmdBuf) = {}
     THEN handled' = <<>> /\ UNCHANGED <<ring, clock>>
     ELSE /\ handled' = Command(cmdBuf)
          /\ \E n \in Lengths :
               IF n = 0 THEN UNCHANGED <<ring, clock>>
               ELSE /\ Put(Message(n))
                    /\ clock' = Unread(Avail = 0 /\ ~paceActive)
  /\ UNCHANGED <<breakActive, faults, pacing, k, sent, drained>>

\* lb_read at the pace of a line: the schedule starts with the first read that
\* finds bytes, and ends with the one that leaves none.
BugStarted == [released |-> IF paceActive THEN paceReleased ELSE 0, since |-> 0]
Started    == IF paceActive THEN [released |-> paceReleased, since |-> since]
                            ELSE [released |-> 0, since |-> 0]
BugAllowed == Started.since + 2
Allowed    == Started.since + 1
Budget     == IF Allowed > Started.released THEN Allowed - Started.released
                                            ELSE 0

PacedRead(ask) ==
  LET n   == Least(ask, Budget)
      got == Least(n, Avail)
  IN  /\ IF n > 0 THEN Get(n) ELSE UNCHANGED ring
      /\ paceActive' = (Avail > got)
      /\ paceReleased' = Started.released + got
      /\ since' = Started.since
      /\ clock' = [clock EXCEPT !.begun = TRUE, !.given = @ + got]

\* An empty ring ends the schedule too.
PlainRead(ask) ==
  /\ Get(ask)
  /\ paceActive' = IF faults = "paced" THEN FALSE ELSE paceActive
  /\ clock' = IF faults = "paced" THEN clock ELSE Unread(FALSE)
  /\ UNCHANGED <<paceReleased, since>>

Read ==
  /\ Idle
  /\ \E ask \in Asks :
       IF faults = "paced" /\ Avail > 0 THEN PacedRead(ask) ELSE PlainRead(ask)
  /\ UNCHANGED <<cmdBuf, breakActive, faults, calling, k, sent, handled,
                 drained>>

\* lb_set_break, as cb_break calls it: the ring is drained as the break ends.
BugBreakSet(on) == FALSE
BreakSet(on)    == on

StartBreak ==
  /\ Idle /\ calling' = "unbreak"
  /\ breakActive' = BreakSet(TRUE)
  /\ UNCHANGED <<ring, cmdBuf, faults, pacing, k, sent, handled, drained,
                 clock>>
EndBreak ==
  /\ calling = "unbreak" /\ calling' = "any"
  /\ IF breakActive THEN Drain ELSE UNCHANGED ring
  /\ breakActive' = BreakSet(FALSE)
  /\ drained' = k
  /\ UNCHANGED <<cmdBuf, faults, pacing, k, sent, handled, clock>>

\* hal_loopback_set_faults, at any time between two calls.
SetFaults ==
  /\ Idle
  /\ faults' \in Faults \ {faults}
  /\ clock' = Unread(FALSE)
  /\ UNCHANGED <<ring, cmdBuf, breakActive, pacing, calling, k, sent, handled,
                 drained>>

Tick ==
  /\ paceActive /\ since < MaxSince
  /\ since' = since + 1
  /\ clock' = [clock EXCEPT !.age = IF clock.begun THEN @ + 1 ELSE @]
  /\ UNCHANGED <<ring, cmdBuf, breakActive, faults, paceActive, paceReleased,
                 calling, k, sent, handled, drained>>

HalNext ==
  Write \/ Flush \/ Read \/ StartBreak \/ EndBreak \/ SetFaults \/ Tick

\* cb_send flushes what it wrote, cb_break ends its break, cb_recv goes on
\* reading, and the clock advances.
Fairness ==
  /\ WF_halVars(Flush) /\ WF_halVars(EndBreak) /\ WF_halVars(Read)
  /\ WF_halVars(Tick)

HalSpec == HalInit /\ [][HalNext]_halVars /\ Fairness

-----------------------------------------------------------------------------
\* The sensor is given the command sent last, from its first character, and
\* nothing of one before it that was too long or lacked its '!'; if the command
\* fits and ends at its only '!', the sensor is given all of it (lb_flush).
HandledAsSent ==
  calling # "flush"
    => /\ \A i \in DOMAIN handled : i \in DOMAIN sent /\ handled[i] = sent[i]
       /\ Len(sent) < CmdMax /\ Bangs(sent) = {Len(sent)}
            => Len(handled) = Len(sent) - 1

\* Between a break and the next nothing is read that answers a command from
\* before it, even one that was only half read when it came (lb_set_break).
FreshAfterBreak ==
  [][Read /\ out' # out => \A i \in DOMAIN out' : out'[i].cmd > drained]_halVars

\* An answer is not handed out faster than the line would carry it, if it came
\* into an empty ring with no schedule left over; otherwise the schedule of an
\* answer that a break cut short is still running (lb_read).
PacedAsLine == clock.own => clock.given <= clock.age + 1

\* What the sensor has answered is read or drained, whatever the schedule.
Delivered == (Avail > 0) ~> (Avail = 0)
==============================================================================
