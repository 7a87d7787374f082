------------------------------- MODULE BusModes ------------------------------
(***************************************************************************)
(* A run of the program (Verifier) with the loops of its two interactive   *)
(* modes: the bus monitor (src/monitor.c), which gathers received bytes    *)
(* into lines and prints them, and the transparent mode (src/              *)
(* transparent.c), which sends what the user types.  Ctrl+C comes between  *)
(* any two steps and only clears a flag, which each loop looks at once a   *)
(* turn.  Leaving a loop is Verifier's RunInteractive.                     *)
(*                                                                         *)
(* A received byte is "lf" or any other.  A typed line is a sequence of    *)
(* what fgets returns of it: one piece if it fits the buffer.  A piece is  *)
(* what it asks for and the character that says whom: "." the default      *)
(* address.  The '!' that is appended when missing is left out.            *)
(*                                                                         *)
(* A definition named Bug... is the one after it with a mistake.           *)
(***************************************************************************)
EXTENDS Verifier

CONSTANTS
  LineMax,     \* sizeof(line_buf) - 1 of the monitor
  Received,    \* the bytes on the bus
  Lines,       \* the lines the user may type
  Addresses,   \* what sdi12_valid_address accepts
  FirstAddr,   \* --addr
  MaxHeard,    \* bound: bytes the monitor hears
  MaxTyped     \* bound: pieces typed

Ops    == {"empty", "quit", "break", "help", "addr", "send"}
Pieces == [op : Ops, to : STRING]

ASSUME LineRoom     == LineMax \in Nat \ {0}
ASSUME BoundsKnown  == MaxHeard \in Nat /\ MaxTyped \in Nat
ASSUME LinesKnown   == Lines \subseteq Seq(Pieces) \ {<<>>}

VARIABLES
  running,     \* monitor_running or transparent_running
  at,          \* where in the loop; "out" of it, or it is "over"
  lineBuf,     \* line_buf
  heard, shown,       \* history: the bytes read, and those printed
  input,       \* what of the typed line is still to be read
  piece,       \* input: what fgets returned
  addr,        \* ctx->addr
  typed,       \* history: the pieces read
  bus,         \* history: the breaks and commands sent
  late         \* history: pieces read after Ctrl+C

monitorVars == <<lineBuf, heard, shown>>
typingVars  == <<input, piece, addr, typed, bus, late>>
modeVars    == <<running, at, monitorVars, typingVars>>
allVars     == <<vars, modeVars>>

ModesInit ==
  /\ Init
  /\ running = TRUE /\ at = "out"
  /\ lineBuf = <<>> /\ heard = <<>> /\ shown = <<>>
  /\ input = <<>> /\ piece = [op |-> "empty", to |-> "."] /\ addr = FirstAddr
  /\ typed = <<>> /\ bus = <<>> /\ late = 0

-----------------------------------------------------------------------------
\* Each mode installs its handler, then loops while the flag is set.
Enter ==
  /\ pc = "run" /\ mode \notin TestModes /\ at = "out"
  /\ at' = "top"
  /\ UNCHANGED <<vars, running, monitorVars, typingVars>>

CtrlC ==
  /\ at # "out" /\ running
  /\ running' = FALSE
  /\ UNCHANGED <<vars, at, monitorVars, typingVars>>

BugGoesOn     == TRUE
BugFinishLine == running \/ lineBuf # <<>>
GoesOn        == running

\* After the loop the monitor prints what is left of a line.
MonitorTop ==
  /\ mode = "monitor" /\ at = "top"
  /\ IF GoesOn THEN at' = "read" /\ UNCHANGED monitorVars
     ELSE /\ at' = "over"
          /\ shown' = shown \o lineBuf /\ lineBuf' = <<>>
          /\ UNCHANGED heard
  /\ UNCHANGED <<vars, running, typingVars>>

BugFull(line) == Len(line) > LineMax
Full(line)    == Len(line) >= LineMax

\* One read of 100 ms, which may return nothing.
MonitorRead ==
  /\ mode = "monitor" /\ at = "read"
  /\ at' = "top"
  /\ \/ UNCHANGED monitorVars
     \/ /\ Len(heard) < MaxHeard
        /\ \E c \in Received :
             LET line == IF Len(lineBuf) < LineMax THEN Append(lineBuf, c)
                                                   ELSE lineBuf
             IN  /\ heard' = Append(heard, c)
                 /\ IF c = "lf" \/ Full(line)
                    THEN shown' = shown \o line /\ lineBuf' = <<>>
                    ELSE lineBuf' = line /\ UNCHANGED shown
  /\ UNCHANGED <<vars, running, typingVars>>

-----------------------------------------------------------------------------
Prompt ==
  /\ mode = "transparent" /\ at = "top"
  /\ at' = IF GoesOn THEN "fgets" ELSE "over"
  /\ UNCHANGED <<vars, running, monitorVars, typingVars>>

\* fgets waits for a line, through a Ctrl+C where the system restarts it, or
\* returns the next piece of a long one.
Fgets ==
  /\ mode = "transparent" /\ at = "fgets" /\ Len(typed) < MaxTyped
  /\ at' = "piece"
  /\ \E line \in IF input = <<>> THEN Lines ELSE {input} :
       /\ piece' = Head(line) /\ input' = Tail(line)
       /\ typed' = Append(typed, Head(line))
  /\ late' = IF running THEN late ELSE late + 1
  /\ UNCHANGED <<vars, running, monitorVars, addr, bus>>

\* The end of the input, or a Ctrl+C where the system does not restart fgets.
FgetsFails ==
  /\ mode = "transparent" /\ at = "fgets" /\ input = <<>>
  /\ at' = "over"
  /\ UNCHANGED <<vars, running, monitorVars, typingVars>>

Sent(what, whom) == [what |-> what, to |-> whom, of |-> Len(typed)]
BusBreak         == Sent("break", "")

\* A line that is no command of the mode is one for the sensor: a break, and
\* then the command.
Obey ==
  /\ mode = "transparent" /\ at = "piece"
  /\ at' = CASE piece.op = "quit" -> "over"
             [] piece.op = "send" -> "transact"
             [] OTHER             -> "top"
  /\ bus' = IF piece.op \in {"break", "send"} THEN Append(bus, BusBreak)
                                              ELSE bus
  /\ addr' = IF piece.op = "addr" /\ piece.to \in Addresses THEN piece.to
                                                             ELSE addr
  /\ UNCHANGED <<vars, running, monitorVars, input, piece, typed, late>>

\* A leading '.' stands for the default address; all else is sent as it is.
BugAddressed == IF piece.to = "." THEN FirstAddr ELSE piece.to
Addressed    == IF piece.to = "." THEN addr ELSE piece.to

Transact ==
  /\ mode = "transparent" /\ at = "transact"
  /\ at' = "top"
  /\ bus' = Append(bus, Sent("command", Addressed))
  /\ UNCHANGED <<vars, running, monitorVars, input, piece, addr, typed, late>>

-----------------------------------------------------------------------------
Leave == at = "over" /\ RunInteractive /\ UNCHANGED modeVars

Rest ==
  /\ \/ NoRun \/ Args \/ CreateHal \/ OpenHal \/ InitTiming
     \/ Register \/ RunTest \/ SkipUnmatched \/ SuiteDone
     \/ PrintReport \/ Cleanup
  /\ UNCHANGED modeVars

Loops ==
  /\ pc = "run"
  /\ \/ Enter \/ CtrlC \/ MonitorTop \/ MonitorRead
     \/ Prompt \/ Fgets \/ FgetsFails \/ Obey \/ Transact

ModesNext == Loops \/ Leave \/ Rest

\* The monitor's thread runs; its read returns within 100 ms.
ModesSpec ==
  /\ ModesInit /\ [][ModesNext]_allVars
  /\ WF_allVars(MonitorTop) /\ WF_allVars(MonitorRead) /\ WF_allVars(Leave)

-----------------------------------------------------------------------------
\* Every byte heard is printed once and in order, however long a line is and
\* wherever the monitor is stopped.
MonitorShowsAll ==
  /\ heard = shown \o lineBuf
  /\ at = "over" => heard = shown

\* Ctrl+C ends the monitor, also in the middle of a line on a silent bus.
MonitorStops == (mode = "monitor" /\ ~running) ~> (pc # "run")

\* The default address as the first n pieces have set it.
DefaultAfter(n) ==
  LET set == {i \in 1 .. n : typed[i].op = "addr" /\ typed[i].to \in Addresses}
  IN  IF set = {} THEN FirstAddr
      ELSE typed[CHOOSE i \in set : \A j \in set : j <= i].to

\* The bus carries what was typed: a break and a command for every piece that
\* is one, in order, to the address given or set by then, and no other.
TypedIsSent ==
  LET commands == {j \in DOMAIN bus : bus[j].what = "command"}
      done     == Len(typed) - (IF at \in {"piece", "transact"} THEN 1 ELSE 0)
      sends    == {i \in 1 .. done : typed[i].op = "send"}
  IN  /\ {bus[j].of : j \in commands} = sends
      /\ \A j \in commands :
           LET i == bus[j].of
           IN  /\ j > 1 /\ bus[j - 1] = [what |-> "break", to |-> "", of |-> i]
               /\ bus[j].to = IF typed[i].to = "." THEN DefaultAfter(i - 1)
                                                   ELSE typed[i].to
      /\ \A i, j \in commands : i < j => bus[i].of < bus[j].of

\* After Ctrl+C at most one more line, or piece of one, is obeyed.
OneMoreLine == late <= 1
==============================================================================
