------------------------------ MODULE PromptLine ------------------------------
(***************************************************************************)
(* What the "single prompter" queue of the client promises to the          *)
(* applications: a session joins the end of a line once, the head of the   *)
(* line is served when nobody is, and a session that left the line or the  *)
(* prompt is gone for good.  Nothing here knows of tasks, of the bus or of *)
(* the TTY server.                                                         *)
(***************************************************************************)
EXTENDS Integers, Sequences

CONSTANTS Session,      \* every session there will ever be
          None          \* nobody: not one of them

VARIABLES line,         \* the sessions waiting for the prompt, in order
          served,       \* the session that has the prompt, or None
          gone          \* the sessions that left

lineVars == <<line, served, gone>>

InLine == {line[i] : i \in 1..Len(line)}

LineInit == line = <<>> /\ served = None /\ gone = {}

\* A session that was never seen takes the last place of the line.
Join(s) ==
  /\ s \notin InLine \union {served} \union gone
  /\ line' = Append(line, s)
  /\ UNCHANGED <<served, gone>>

\* The head of the line takes the prompt.
Serve ==
  /\ served = None
  /\ line # <<>>
  /\ served' = Head(line)
  /\ line' = Tail(line)
  /\ UNCHANGED gone

\* The session that has the prompt gives it up.
LeavePrompt ==
  /\ served # None
  /\ gone' = gone \union {served}
  /\ served' = None
  /\ UNCHANGED line

\* The session at place i of the line gives its place up; those behind it move up.
LeaveLine(i) ==
  /\ line' = [j \in 1..Len(line) - 1 |-> IF j < i THEN line[j] ELSE line[j + 1]]
  /\ gone' = gone \union {line[i]}
  /\ UNCHANGED served

LineNext ==
  \/ \E s \in Session : Join(s)
  \/ Serve
  \/ LeavePrompt
  \/ \E i \in 1..Len(line) : LeaveLine(i)

LineSpec == LineInit /\ [][LineNext]_lineVars
===============================================================================
