---------------------------- MODULE LoopbackHalMC ----------------------------
(***************************************************************************)
(* A ring of four bytes, of which three can be used, and answers of up to  *)
(* four; a buffer for commands of four characters, and commands that fit,  *)
(* that do not, without a '!' and with two.                                *)
(***************************************************************************)
EXTENDS LoopbackHal

Zeroes     == [cmd |-> 0, at |-> 0]
BytesMC    == [cmd : 0 .. MaxCmds, at : 0 .. 4]
MessagesMC == {[i \in 1 .. n |-> [cmd |-> c, at |-> i]] :
                 c \in 1 .. MaxCmds, n \in Lengths}
CommandsMC == {<<"c", "c", "!">>, <<"c", "c", "c", "c", "!">>, <<"c">>,
               <<"c", "!", "c", "!">>}
==============================================================================
