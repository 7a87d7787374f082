--------------------------- MODULE RecorderTestsMC ---------------------------
(* Small instances of RecorderTests: recorders with the commands that the    *)
(* tests tell apart.                                                         *)
EXTENDS RecorderTests

Cmd(to, kinds, brks) == [to : {to}, kind : kinds, brk : brks]

\* Everything to the address under test with a break; a few without one, to
\* another address, to all or to none.
AnyRecorder ==
  Cmd("own", Kinds, {TRUE})
    \cup Cmd("own", {"D"}, {FALSE})
    \cup Cmd("new", {"ack", "I"}, {TRUE})
    \cup Cmd("?", {"ack"}, {FALSE})
    \cup Cmd("bad", {"odd"}, {TRUE})

WithBreaks   == Cmd("own", {"ack", "M", "D"}, BOOLEAN)
WithExtended == Cmd("own", {"ack", "X", "X?"}, {TRUE})

OnlyBreaks   == {"brk_between"}
OnlyExtended == {"extended"}
==============================================================================
