---------------------------- MODULE KeyringCommand ----------------------------
(***************************************************************************)
(* gcr-keyring-lock and gcr-keyring-unlock (secret_service.py): a command  *)
(* asks the Secret Service to lock or unlock a collection, runs the prompt *)
(* that the service may return, and reads the property Locked.             *)
(*                                                                         *)
(* The service is external: it is what the D-Bus API allows, with other    *)
(* applications that use it and with a crash after which the bus starts it *)
(* again.  Each command reads what the service sends it in order; replies  *)
(* and the signal Completed come on the same connection.  Introspection    *)
(* and ReadAlias, whose replies depend on nothing here, are no steps of    *)
(* their own.                                                              *)
(***************************************************************************)
EXTENDS Sequences, Naturals

CONSTANTS
  Cmd,     \* the commands; each may have a prompt, named after it
  None,
  MaxInbox \* bound: a signal is repeated only while fewer messages are unread

ASSUME InboxIsBounded == MaxInbox \in Nat

VARIABLES
  locked,   \* the property Locked of the collection
  prompt,   \* the Prompt object of each command
  request,  \* the call of each command that the service has not answered
  inbox,    \* what each command has not read yet
  cmd,      \* where each command is, and its local variables
  matched   \* history: the commands whose wish was fulfilled when it was served, or later

vars == <<locked, prompt, request, inbox, cmd, matched>>

\* What a prompt told: the arguments of Completed, "odd" if the result is no path list.
Verdict == {"done", "dismissed", "odd"}
Reply == {"ok", "prompt", "error", "locked", "unlocked"}
Call == {"change", "prompt", "get"}

ASSUME NoneIsFresh == None \notin Verdict /\ None \notin {0, 1, 2}

(***************************************************************************)
(* A command awaits the reply to the call that pc names, or (at            *)
(* "completed") the future of run_prompt; heard is that future, hears says *)
(* that on_completed is connected.                                         *)
(***************************************************************************)
Command == [pc : {"idle", "completed", "ended"} \union Call, lock : BOOLEAN,
            heard : Verdict \union {None}, hears : BOOLEAN, result : {None, 0, 1, 2}]
Unstarted == [pc |-> "idle", lock |-> FALSE, heard |-> None, hears |-> FALSE, result |-> None]

TypeOK ==
  /\ locked \in BOOLEAN
  /\ prompt \in [Cmd -> {"none", "made", "shown", "lost"} \union Verdict]
  /\ request \in [Cmd -> Call \union {"none", "shown"}]
  /\ inbox \in [Cmd -> Seq(Reply \union Verdict)]
  /\ cmd \in [Cmd -> Command]
  /\ \A c \in Cmd : cmd[c].pc = "ended" <=> cmd[c].result # None
  /\ matched \in SUBSET Cmd

Init ==
  /\ locked \in BOOLEAN
  /\ prompt = [c \in Cmd |-> "none"]
  /\ request = [c \in Cmd |-> "none"]
  /\ inbox = [c \in Cmd |-> <<>>]
  /\ cmd = [c \in Cmd |-> Unstarted]
  /\ matched = {}
-------------------------------------------------------------------------------
(***************************************************************************)
(* The Secret Service (external to this repository).                       *)
(***************************************************************************)
serviceVars == <<locked, prompt>>

Answers(c, what) ==
  /\ request' = [request EXCEPT ![c] = "none"]
  /\ inbox' = [inbox EXCEPT ![c] = Append(@, what)]
  /\ UNCHANGED cmd

\* Lock or Unlock: done at once, or not at all, or only after a prompt.
ServeChange(c) ==
  /\ request[c] = "change"
  /\ \/ /\ Answers(c, "ok")
        /\ locked' \in {locked, cmd[c].lock}
        /\ UNCHANGED prompt
     \/ /\ Answers(c, "prompt")
        /\ prompt' = [prompt EXCEPT ![c] = "made"]
        /\ UNCHANGED locked

\* Prompt(): the user sees it; the reply may come before Completed, or after it.
ShowPrompt(c) ==
  /\ request[c] = "prompt" /\ prompt[c] = "made"
  /\ prompt' = [prompt EXCEPT ![c] = "shown"]
  /\ request' = [request EXCEPT ![c] = "shown"]
  /\ UNCHANGED <<locked, inbox, cmd>>

PromptReply(c) ==
  /\ request[c] = "shown" \/ (request[c] = "prompt" /\ prompt[c] = "lost")
  /\ Answers(c, IF request[c] = "shown" THEN "ok" ELSE "error")
  /\ UNCHANGED serviceVars

\* The signal is matched by the path of the prompt.
HearsOf(c, d) == cmd[c].hears /\ c = d

Emit(d, verdict) ==
  inbox' = [c \in Cmd |-> IF HearsOf(c, d) THEN Append(inbox[c], verdict) ELSE inbox[c]]

\* The user completes the prompt, which need not have the effect, or dismisses it.
UserEnds(d) ==
  /\ prompt[d] = "shown"
  /\ \E verdict \in Verdict :
       /\ prompt' = [prompt EXCEPT ![d] = verdict]
       /\ Emit(d, verdict)
       /\ locked' \in IF verdict = "dismissed" THEN {locked} ELSE {locked, cmd[d].lock}
  /\ UNCHANGED <<request, cmd>>

\* The signal comes again, perhaps with other arguments.
Repeats(d) ==
  /\ prompt[d] \in Verdict /\ Len(inbox[d]) < MaxInbox
  /\ \E verdict \in Verdict : Emit(d, verdict)
  /\ UNCHANGED <<serviceVars, request, cmd>>

ServeGet(c) ==
  /\ request[c] = "get"
  /\ \E what \in {"error", IF locked THEN "locked" ELSE "unlocked"} : Answers(c, what)
  /\ UNCHANGED serviceVars

\* Another application locks or unlocks the collection.
OtherChanges == locked' = ~locked /\ UNCHANGED <<prompt, request, inbox, cmd>>

\* The service dies: the calls it has not answered fail, its prompts are gone, and the
\* next one finds every collection locked.
Crashes ==
  /\ locked' = TRUE
  /\ prompt' = [c \in Cmd |-> IF prompt[c] \in {"made", "shown"} THEN "lost" ELSE prompt[c]]
  /\ request' = [c \in Cmd |-> "none"]
  /\ inbox' = [c \in Cmd |-> IF request[c] = "none" THEN inbox[c] ELSE Append(inbox[c], "error")]
  /\ UNCHANGED cmd
-------------------------------------------------------------------------------
(***************************************************************************)
(* The commands.                                                           *)
(***************************************************************************)
Becomes(c, new) == cmd' = [cmd EXCEPT ![c] = new] /\ UNCHANGED serviceVars
Exit(c, r) ==
  /\ Becomes(c, [Unstarted EXCEPT !.pc = "ended", !.lock = cmd[c].lock, !.result = r])
  /\ UNCHANGED request

\* The next call: its message leaves, and the command awaits the reply.
Calls(c, what, new) ==
  /\ request' = [request EXCEPT ![c] = what]
  /\ Becomes(c, [new EXCEPT !.pc = what])

\* change_lock_state starts: resolve_collection finds the collection, or fails.
Start(c) ==
  /\ cmd[c].pc = "idle"
  /\ Exit(c, 1) \/ \E b \in BOOLEAN : Calls(c, "change", [cmd[c] EXCEPT !.lock = b])
  /\ UNCHANGED inbox

\* The command reads the reply to its call.
Reads(c, p, what) ==
  /\ cmd[c].pc = p /\ p # "ended"
  /\ inbox[c] # <<>> /\ Head(inbox[c]) = what
  /\ inbox' = [inbox EXCEPT ![c] = Tail(@)]

\* No prompt path but "/": the property is next.
Changed(c) == Reads(c, "change", "ok") /\ Calls(c, "get", cmd[c])

\* Mutant: run_prompt connects its handler when Prompt() has returned.
SubscribeLate(c) ==
  \/ Reads(c, "change", "prompt") /\ Calls(c, "prompt", cmd[c])
  \/ /\ Reads(c, "prompt", "ok") /\ UNCHANGED request
     /\ Becomes(c, [cmd[c] EXCEPT !.pc = "completed", !.hears = TRUE])

\* run_prompt connects its handler, then calls Prompt(), and then awaits the future.
Prompts(c) ==
  \/ Reads(c, "change", "prompt") /\ Calls(c, "prompt", [cmd[c] EXCEPT !.hears = TRUE])
  \/ /\ Reads(c, "prompt", "ok") /\ UNCHANGED request
     /\ Becomes(c, [cmd[c] EXCEPT !.pc = "completed"])

\* Mutant: the handler does not ask whether the future is done.
TakesLast(c, verdict) == verdict

\* on_completed: only the first signal counts.
Takes(c, verdict) == IF cmd[c].heard = None THEN verdict ELSE cmd[c].heard

\* The signal is read, at whatever await the command is; it is dropped if not listened to.
OnCompleted(c) ==
  /\ \E verdict \in Verdict :
       /\ Reads(c, cmd[c].pc, verdict)
       /\ Becomes(c, IF cmd[c].hears THEN [cmd[c] EXCEPT !.heard = Takes(c, verdict)] ELSE cmd[c])
  /\ UNCHANGED request

\* The future is done: off_completed, and on to the property.
Completed(c) ==
  /\ cmd[c].pc = "completed" /\ cmd[c].heard # None
  /\ IF cmd[c].heard = "odd" THEN Exit(c, 1)
     ELSE Calls(c, "get", [cmd[c] EXCEPT !.hears = FALSE])
  /\ UNCHANGED inbox

\* Mutant: _amain returns nothing when Locked is not as requested.
NoCode(c, isLocked) ==
  IF cmd[c].heard = "dismissed" THEN 2 ELSE IF isLocked = cmd[c].lock THEN 0 ELSE None

\* Mutant: a prompt that was completed is taken for success.
TrustsPrompt(c, isLocked) ==
  CASE cmd[c].heard = "dismissed" -> 2
    [] cmd[c].heard = "done" \/ isLocked = cmd[c].lock -> 0
    [] OTHER -> 1

\* _amain: 2 if the prompt was dismissed, else whether Locked is as requested.
ExitCode(c, isLocked) ==
  CASE cmd[c].heard = "dismissed" -> 2
    [] cmd[c].heard # "dismissed" /\ isLocked = cmd[c].lock -> 0
    [] OTHER -> 1

Finishes(c) == \E what \in {"locked", "unlocked"} :
                 Reads(c, "get", what) /\ Exit(c, ExitCode(c, what = "locked"))

\* An error reply, at whatever call: main_for.
Fails(c) == cmd[c].pc \in Call /\ Reads(c, cmd[c].pc, "error") /\ Exit(c, 1)
-------------------------------------------------------------------------------
Serves(c) == ServeChange(c) \/ ShowPrompt(c) \/ PromptReply(c) \/ ServeGet(c)

Runs(c) == Changed(c) \/ Prompts(c) \/ Completed(c) \/ Finishes(c) \/ Fails(c)

\* The wish of c is no longer under way: its call was served, and its prompt is over.
Served(c) ==
  /\ cmd[c].pc # "idle" /\ request[c] # "change"
  /\ prompt[c] \notin {"made", "shown"}

\* What the history says of a command stands when the command ends.
Observe ==
  matched' = {c \in Cmd : \/ c \in matched /\ cmd'[c].result \in {None, 0}
                          \/ cmd[c].pc # "ended" /\ Served(c)' /\ cmd'[c].result = None
                               /\ locked' = cmd[c].lock}

Next ==
  /\ \/ \E c \in Cmd : Serves(c) \/ Start(c) \/ Runs(c) \/ OnCompleted(c) \/ UserEnds(c) \/ Repeats(c)
     \/ OtherChanges \/ Crashes
  /\ Observe

Spec == Init /\ [][Next]_vars

\* Fairness: the service answers every call, and a command reads what it is sent and
\* runs; the user may leave a prompt alone for ever.
Fairness ==
  \A c \in Cmd : /\ WF_vars(Serves(c) /\ Observe)
                 /\ WF_vars(Runs(c) /\ Observe)
                 /\ WF_vars(OnCompleted(c) /\ Observe)
-------------------------------------------------------------------------------
(***************************************************************************)
(* Properties.                                                             *)
(***************************************************************************)
\* "0: collection's final Locked property matches the requested state" (README.md:179):
\* it was in that state after the command's own request and prompt were over.
ExitTellsTruth == \A c \in Cmd : cmd[c].result = 0 => c \in matched

\* "2: interactive prompt was dismissed" (README.md:181): that of this command, whatever
\* other commands prompt for at the same time, and however often Completed comes.
OwnVerdict ==
  \A c \in Cmd : /\ cmd[c].result = 2 => prompt[c] = "dismissed"
                 /\ cmd[c].result = 0 => prompt[c] \in {"none", "done"}

\* A command whose prompt is over ends, however early Completed came: also before the
\* reply to Prompt() (secret_service.py:139).
CompletedEnds ==
  \A c \in Cmd : prompt[c] \in Verdict ~> cmd[c].pc = "ended"
===============================================================================
