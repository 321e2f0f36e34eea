------------------------------- MODULE Script -------------------------------
(***************************************************************************)
(* What run_console (console.c) promises: the commands of its input are    *)
(* executed one after the other, those of a sourced file in place of the   *)
(* command that names it, until one stops the program or none is left.     *)
(***************************************************************************)
EXTENDS Naturals, Sequences

CONSTANT Input  \* the file run_console is given

VARIABLES
  lines,   \* the commands each file holds
  todo,    \* the commands still to be executed, in their order
  ran,     \* how many have been
  stopped  \* nothing more is executed

scriptVars == <<lines, todo, ran, stopped>>

Files == DOMAIN lines

(* A command that opens no file, or could not.                             *)
Ran == todo' = Tail(todo) /\ UNCHANGED stopped

Sourced(f) == todo' = lines[f] \o Tail(todo) /\ UNCHANGED stopped

(* The command was quit, or one error too many.                            *)
Stopped == todo' \in {<<>>, Tail(todo)} /\ stopped' = TRUE

Command ==
  /\ ~stopped
  /\ todo # <<>>
  /\ ran' = ran + 1
  /\ UNCHANGED lines
  /\ \/ Ran
     \/ \E f \in Files : Head(todo).op = "source" /\ Head(todo).file = f /\ Sourced(f)
     \/ Stopped

(* The input has no more commands.                                         *)
Ended == ~stopped /\ todo = <<>> /\ stopped' = TRUE /\ UNCHANGED <<lines, todo, ran>>

(* The input cannot be opened.                                             *)
NotOpened ==
  /\ ~stopped
  /\ ran = 0
  /\ todo' = <<>>
  /\ stopped' = TRUE
  /\ UNCHANGED <<lines, ran>>

(* What is left when it stopped may be read, and is not executed.          *)
Discarded ==
  /\ stopped
  /\ todo # <<>>
  /\ todo' = Tail(todo)
  /\ UNCHANGED <<lines, ran, stopped>>

ScriptNext == Command \/ Ended \/ NotOpened \/ Discarded

ScriptInit == todo = lines[Input] /\ ran = 0 /\ stopped = FALSE

ScriptSpec == ScriptInit /\ [][ScriptNext]_scriptVars
=============================================================================
