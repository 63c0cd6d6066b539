---------------------------- MODULE SystemPrompter ----------------------------
(***************************************************************************)
(* The D-Bus client of gcr-tty-prompter (client.py): the class             *)
(* SystemPrompter and the coroutine amain that runs it.                    *)
(*                                                                         *)
(* It is one asyncio event loop.  A D-Bus handler runs to its end; a task  *)
(* runs until it awaits a reply.  An action is one such segment, or a part *)
(* of one: `running' names the task that still holds the loop between two  *)
(* parts of a segment, and no other task or handler may step meanwhile.    *)
(* No segment awaits while it holds state_lock, so the lock is free at     *)
(* every await and needs no variable.                                      *)
(***************************************************************************)
EXTENDS Integers, SequencesExt

CONSTANTS
  Sender,   \* unique bus names of the applications
  Path,     \* object paths of their prompt callbacks
  Token,    \* bridge tokens: one for every PromptSession object ever made
  Task,     \* asyncio tasks that can exist at a time
  Main,     \* the task that runs amain
  None,
  Reuse     \* may an application begin again on a path it used before?

ASSUME NoneIsFresh == None \notin Token \union Task \union (Sender \X Path)
ASSUME MainIsATask == Main \in Task
ASSUME ReuseIsBoolean == Reuse \in BOOLEAN

Key == Sender \X Path

VARIABLES
  sessions,    \* self.sessions: key -> its PromptSession, or None
  waiting,     \* self.waiting: the deque of keys
  active_key,  \* self.active_key
  obj,         \* the fields of each PromptSession object
  task,        \* where each asyncio task is, and its local variables
  running,     \* the task in the middle of a segment, or None
  alive,       \* the applications that are on the bus
  bus,         \* "up", "down" once disconnected, "exited" after amain returned
  told,        \* the last callback sent for each PromptSession object
  late         \* history: the sessions that began when close() had its snapshot

vars == <<sessions, waiting, active_key, obj, task, running, alive, bus, told, late>>

(***************************************************************************)
(* A task slot is free ("idle"), or at one of these points of its code:    *)
(*   activate        about to run _activate_next                           *)
(*   rpc_begin       awaits the TTY server's answer to "begin"             *)
(*   rpc_late        awaits "stop" of a session that is no longer begun    *)
(*   ready_sent      awaits the first PromptReady;  ready_answered: the    *)
(*                   answer has arrived, the task has not resumed          *)
(*   rpc_prompt      awaits the answer to "prompt", that is, the user      *)
(*   reply_sent      awaits the PromptReady that carries the user's reply; *)
(*                   reply_answered: as above                              *)
(*   finish          about to run _finish_session(key, send_done=done)     *)
(*   rpc_stop        awaits the answer to "stop"                           *)
(*   notify          about to send PromptDone, if done                     *)
(*   done_sent       awaits PromptDone                                     *)
(*   return          back in the sweep, or in amain                        *)
(*   sweep           about to run _sender_vanished or close                *)
(*   serving         amain's task, awaiting the disconnect                 *)
(* sess is its local `session', key/done the arguments of _finish_session, *)
(* was its was_active, rest the keys a sweep still has to finish.          *)
(***************************************************************************)
Activating == {"rpc_begin", "rpc_late", "ready_sent", "ready_answered"}
Prompting == {"rpc_prompt", "reply_sent", "reply_answered"}
Stopping == {"rpc_stop", "notify", "done_sent"}
PC == {"idle", "activate", "finish", "return", "sweep", "serving"}
        \union Activating \union Prompting \union Stopping

TaskState == [pc : PC, sess : Token \union {None}, key : Key \union {None},
              done : BOOLEAN, was : BOOLEAN, rest : SUBSET Key]
Idle == [pc |-> "idle", sess |-> None, key |-> None,
         done |-> FALSE, was |-> FALSE, rest |-> {}]

Object == [key : Key \union {None}, active : BOOLEAN, ready : BOOLEAN,
           prompt_task : Task \union {None}]
Unmade == [key |-> None, active |-> FALSE, ready |-> FALSE, prompt_task |-> None]

TypeOK ==
  /\ sessions \in [Key -> Token \union {None}]
  /\ waiting \in Seq(Key)
  /\ active_key \in Key \union {None}
  /\ obj \in [Token -> Object]
  /\ task \in [Task -> TaskState]
  /\ running \in Task \union {None}
  /\ alive \in SUBSET Sender
  /\ bus \in {"up", "down", "exited"}
  /\ told \in [Token -> {"nothing", "ready", "done"}]
  /\ late \in SUBSET Token

Init ==
  /\ sessions = [k \in Key |-> None]
  /\ waiting = <<>>
  /\ active_key = None
  /\ obj = [t \in Token |-> Unmade]
  /\ task = [x \in Task |-> IF x = Main THEN [Idle EXCEPT !.pc = "serving"] ELSE Idle]
  /\ running = None
  /\ alive = Sender
  /\ bus = "up"
  /\ told = [t \in Token |-> "nothing"]
  /\ late = {}
-------------------------------------------------------------------------------
(***************************************************************************)
(* The event loop.                                                         *)
(***************************************************************************)
\* Task x may execute the code at p: it holds the loop, or nobody does.
At(x, p) == task[x].pc = p /\ running \in {None, x}

\* Task x gives the loop up at its next await.
Await == running' = None

\* Task x goes on to p.
Goto(x, p) == task' = [task EXCEPT ![x].pc = p]

\* Task x calls the coroutine that starts at p, with fresh local variables.
Call(x, p) == [Idle EXCEPT !.pc = p, !.rest = task[x].rest]

\* Task x goes on with the keys still to be swept, or it is over.
Resume(x, keys) ==
  IF x = Main \/ keys # {}
  THEN task' = [task EXCEPT ![x] = [Idle EXCEPT !.pc = "return", !.rest = keys]] /\ running' = x
  ELSE task' = [task EXCEPT ![x] = Idle] /\ Await

\* The coroutine that x is in returns, to the sweep that called it or to the loop.
Return(x) == Resume(x, task[x].rest)

\* asyncio.create_task: a free slot starts as u; it will run later.
CreateTask(u) ==
  \E x \in Task \ {Main} : task[x] = Idle /\ task' = [task EXCEPT ![x] = u]

\* A live session has this key: `key in self.sessions'.
Begun(k) == sessions[k] # None

\* The PromptSession object t is still in self.sessions.
Live(t) == obj[t].key # None /\ sessions[obj[t].key] = t

\* `session.key in self.sessions', asked by a coroutine that awaited.
StillBegun(t) == Begun(obj[t].key)
-------------------------------------------------------------------------------
(***************************************************************************)
(* D-Bus calls and signals: message_handler.                               *)
(***************************************************************************)
\* The loop dispatches a message of application s.
Dispatch(s) == running = None /\ bus = "up" /\ s \in alive

\* The call is answered with an error, and nothing else happens.
Refuse == UNCHANGED vars

BeginTwice(k) == Dispatch(k[1]) /\ Begun(k) /\ Refuse

\* close() goes by the sessions it found when it started.
Closing == task[Main].pc \notin {"serving", "sweep"}

\* The token is a new one; the path is new as well unless Reuse.
Fresh(t, k) ==
  /\ obj[t] = Unmade
  /\ Reuse \/ \A u \in Token : obj[u].key # k

BeginAccepted(k) ==
  /\ Dispatch(k[1])
  /\ ~Begun(k)
  /\ \E t \in Token :
       /\ Fresh(t, k)
       /\ obj' = [obj EXCEPT ![t].key = k]
       /\ sessions' = [sessions EXCEPT ![k] = t]
       /\ late' = IF Closing THEN late \union {t} ELSE late
  /\ waiting' = Append(waiting, k)
  /\ CreateTask([Idle EXCEPT !.pc = "activate"])
  /\ UNCHANGED <<active_key, running, alive, bus, told>>

Begin(k) == BeginTwice(k) \/ BeginAccepted(k)

HasPrompter(k) == Begun(k) /\ obj[sessions[k]].active

IsReady(k) == obj[sessions[k]].ready

PerformNotBegun(k) == Dispatch(k[1]) /\ ~HasPrompter(k) /\ Refuse

\* "Already performing a prompt for this callback": it has the prompt and is not ready.
IsBusy(k) == HasPrompter(k) /\ ~IsReady(k)

PerformBusy(k) == Dispatch(k[1]) /\ IsBusy(k) /\ Refuse

\* The prompt type or the type of an argument is not one the prompter knows.
PerformInvalid(k) == Dispatch(k[1]) /\ HasPrompter(k) /\ IsReady(k) /\ Refuse

PerformAccepted(k) ==
  /\ Dispatch(k[1])
  /\ HasPrompter(k)
  /\ IsReady(k)
  /\ \E x \in Task \ {Main} :
       /\ task[x] = Idle
       /\ task' = [task EXCEPT ![x] = [Idle EXCEPT !.pc = "rpc_prompt", !.sess = sessions[k]]]
       /\ obj' = [obj EXCEPT ![sessions[k]].ready = FALSE,
                             ![sessions[k]].prompt_task = x]
  /\ UNCHANGED <<sessions, waiting, active_key, running, alive, bus, told, late>>

Perform(k) == PerformNotBegun(k) \/ PerformBusy(k) \/ PerformInvalid(k) \/ PerformAccepted(k)

\* StopPrompting is accepted whether the callback has begun or not.
Stop(k) ==
  /\ Dispatch(k[1])
  /\ CreateTask([Idle EXCEPT !.pc = "finish", !.key = k, !.done = TRUE])
  /\ UNCHANGED <<sessions, waiting, active_key, obj, running, alive, bus, told, late>>

\* NameOwnerChanged: the unique name of an application has no owner any more.
SenderVanishes(s) ==
  /\ Dispatch(s)
  /\ alive' = alive \ {s}
  /\ CreateTask([Idle EXCEPT !.pc = "sweep", !.rest = {k \in Key : k[1] = s}])
  /\ UNCHANGED <<sessions, waiting, active_key, obj, running, bus, told, late>>

\* close() is next in amain: its `finally'.
Leave == task' = [task EXCEPT ![Main] = [Idle EXCEPT !.pc = "sweep", !.rest = Key]]

\* The connection to the bus ends, and wait_for_disconnect returns if amain is there.
Disconnect ==
  /\ running = None
  /\ bus = "up"
  /\ bus' = "down"
  /\ IF task[Main].pc = "serving" THEN Leave ELSE UNCHANGED task
  /\ UNCHANGED <<sessions, waiting, active_key, obj, running, alive, told, late>>

\* Ctrl-C: asyncio.run cancels amain.  The bus is still there while close() runs.
Interrupt ==
  /\ running = None
  /\ task[Main].pc = "serving"
  /\ Leave
  /\ UNCHANGED <<sessions, waiting, active_key, obj, running, alive, bus, told, late>>

\* SIGTERM, or Ctrl-C when close() is under way: the process ends where it is.
Killed ==
  /\ bus # "exited"
  /\ bus' = "exited"
  /\ task' = [x \in Task |-> Idle]
  /\ Await
  /\ UNCHANGED <<sessions, waiting, active_key, obj, alive, told, late>>
-------------------------------------------------------------------------------
(***************************************************************************)
(* _activate_next.                                                         *)
(***************************************************************************)
\* Mutant: pop() for popleft().
LastBegun(i) == Begun(waiting[i]) /\ \A j \in i + 1..Len(waiting) : ~Begun(waiting[j])

\* The first place of the line that belongs to a session: `while self.waiting'.
FirstBegun(i) == Begun(waiting[i]) /\ \A j \in 1..i - 1 : ~Begun(waiting[j])

\* Mutant: _activate_next does not ask whether somebody has the prompt.
NobodyWaits == \A i \in DOMAIN waiting : ~Begun(waiting[i])

NobodyToActivate == active_key # None \/ \A i \in DOMAIN waiting : ~Begun(waiting[i])

ActivateNobody(x) ==
  /\ At(x, "activate")
  /\ NobodyToActivate
  /\ waiting' = IF active_key = None THEN <<>> ELSE waiting
  /\ Return(x)
  /\ UNCHANGED <<sessions, active_key, obj, alive, bus, told, late>>

ActivateFirst(x) ==
  /\ At(x, "activate")
  /\ ~NobodyToActivate
  /\ \E i \in DOMAIN waiting :
       LET k == waiting[i] IN
         /\ FirstBegun(i)
         /\ waiting' = SubSeq(waiting, i + 1, Len(waiting))
         /\ active_key' = k
         /\ obj' = [obj EXCEPT ![sessions[k]].active = TRUE]
         /\ task' = [task EXCEPT ![x].pc = "rpc_begin", ![x].sess = sessions[k]]
  /\ Await
  /\ UNCHANGED <<sessions, alive, bus, told, late>>

ActivateNext(x) == ActivateNobody(x) \/ ActivateFirst(x)

\* Mutant: the exception is logged and the session is left as it is.
LogOnly(x) == Return(x) /\ UNCHANGED <<sessions, waiting, active_key, obj, alive, bus, told, late>>

\* Mutant: _finish_session is given the session, not its key.
GiveUpWithSession(x) ==
  /\ task' = [task EXCEPT ![x] = [Call(x, "finish") EXCEPT !.key = task[x].sess, !.done = TRUE]]
  /\ running' = x
  /\ UNCHANGED <<sessions, waiting, active_key, obj, alive, bus, told, late>>

\* `except Exception': the session of this coroutine is finished, and told so.
GiveUp(x) ==
  /\ task' = [task EXCEPT ![x] =
       [Call(x, "finish") EXCEPT !.key = obj[task[x].sess].key, !.done = TRUE]]
  /\ running' = x
  /\ UNCHANGED <<sessions, waiting, active_key, obj, alive, bus, told, late>>

\* Calls the application of x's session back, and awaits its answer at p.
SendCallback(x, p, what) ==
  /\ Goto(x, p)
  /\ told' = [told EXCEPT ![task[x].sess] = what]
  /\ Await

\* The TTY server made the session in time, and it is still wanted.
BeginReturns(x) ==
  /\ At(x, "rpc_begin")
  /\ StillBegun(task[x].sess)
  /\ SendCallback(x, "ready_sent", "ready")
  /\ UNCHANGED <<sessions, waiting, active_key, obj, alive, bus, late>>

\* It made the session, but StopPrompting came first: tear the session down.
BeginReturnsLate(x) ==
  /\ At(x, "rpc_begin")
  /\ ~StillBegun(task[x].sess)
  /\ Goto(x, "rpc_late")
  /\ Await
  /\ UNCHANGED <<sessions, waiting, active_key, obj, alive, bus, told, late>>

\* No server, a refusal, a malformed answer, or none within two seconds.
BeginFails(x) == At(x, "rpc_begin") /\ GiveUp(x)

\* The answer to the late "stop", or its failure: both end the coroutine.
LateStopReturns(x) ==
  /\ At(x, "rpc_late")
  /\ Return(x)
  /\ UNCHANGED <<sessions, waiting, active_key, obj, alive, bus, told, late>>
-------------------------------------------------------------------------------
(***************************************************************************)
(* PromptReady and its answer: _callback_call.  When the answer arrives    *)
(* the task is only scheduled: messages read with it are dispatched first. *)
(***************************************************************************)
CallbackOf(x) == obj[task[x].sess].key[1]

CallbackAnswers(x) ==
  /\ running = None
  /\ task[x].pc \in {"ready_sent", "reply_sent"}
  /\ bus = "up"
  /\ CallbackOf(x) \in alive
  /\ \/ task[x].pc = "ready_sent" /\ Goto(x, "ready_answered")
     \/ task[x].pc = "reply_sent" /\ Goto(x, "reply_answered")
  /\ UNCHANGED <<sessions, waiting, active_key, obj, running, alive, bus, told, late>>

\* An error, or no reply because the application or the bus is gone.
CallbackFails(x) == (At(x, "ready_sent") \/ At(x, "reply_sent")) /\ GiveUp(x)

\* _activate_next after PromptReady was answered.
ReadyResumes(x) ==
  /\ At(x, "ready_answered")
  /\ obj' = IF StillBegun(task[x].sess)
            THEN [obj EXCEPT ![task[x].sess].ready = TRUE] ELSE obj
  /\ Return(x)
  /\ UNCHANGED <<sessions, waiting, active_key, alive, bus, told, late>>

\* _perform_async: the user answered, and the reply goes to the application.
PromptReturns(x) ==
  /\ At(x, "rpc_prompt")
  /\ SendCallback(x, "reply_sent", "ready")
  /\ UNCHANGED <<sessions, waiting, active_key, obj, alive, bus, late>>

\* No server, a server that closed the connection, or an invalid answer.
PromptFails(x) == At(x, "rpc_prompt") /\ GiveUp(x)

ReplyResumes(x) ==
  /\ At(x, "reply_answered")
  /\ obj' = IF StillBegun(task[x].sess)
            THEN [obj EXCEPT ![task[x].sess].ready = TRUE,
                             ![task[x].sess].prompt_task = None] ELSE obj
  /\ Return(x)
  /\ UNCHANGED <<sessions, waiting, active_key, alive, bus, told, late>>
-------------------------------------------------------------------------------
(***************************************************************************)
(* _finish_session, _sender_vanished and close.                            *)
(***************************************************************************)
\* `self.sessions.pop(key, None)' found nothing.
FinishNothing(x) ==
  /\ At(x, "finish")
  /\ ~Begun(task[x].key)
  /\ Return(x)
  /\ UNCHANGED <<sessions, waiting, active_key, obj, alive, bus, told, late>>

\* Mutant: get() for pop().
NothingRemoved(k) == sessions

\* self.sessions without the key k.
Without(k) == [sessions EXCEPT ![k] = None]

\* Mutant: the key stays in the deque.
StaysInLine(k) == waiting

\* The line without its first entry for k, if it has one: `waiting.remove(key)'.
LeavesLine(k) == RemoveFirst(waiting, k)

\* The task of t's prompt, to be cancelled unless it is the one that finishes t.
ToCancel(t, x) == {obj[t].prompt_task} \ {None, x}

FinishSession(x) ==
  LET k == task[x].key
      t == sessions[k]
  IN /\ At(x, "finish")
     /\ Begun(k)
     /\ sessions' = Without(k)
     /\ waiting' = LeavesLine(k)
     /\ active_key' = IF active_key = k THEN None ELSE active_key
     /\ task' = [y \in Task |->
          IF y = x THEN [task[x] EXCEPT !.pc = IF obj[t].active THEN "rpc_stop" ELSE "notify",
                                        !.key = None, !.sess = t, !.was = (active_key = k)]
          ELSE IF y \in ToCancel(t, x) THEN Idle ELSE task[y]]
     /\ running' = IF obj[t].active THEN None ELSE x
     /\ UNCHANGED <<obj, alive, bus, told, late>>

\* Mutant: an early return when no PromptDone is due skips _activate_next.
HandOverAfterDone(x) ==
  IF task[x].was /\ task[x].done
  THEN task' = [task EXCEPT ![x] = Call(x, "activate")] /\ running' = x
  ELSE Return(x)

\* The rest of _finish_session: the next session's turn, if this one had the prompt.
HandOver(x) ==
  IF task[x].was
  THEN task' = [task EXCEPT ![x] = Call(x, "activate")] /\ running' = x
  ELSE Return(x)

\* Mutant: PromptDone only for a session that had the prompt.
NotifyActive(x) ==
  /\ At(x, "rpc_stop") \/ At(x, "notify")
  /\ IF task[x].done /\ obj[task[x].sess].active
     THEN SendCallback(x, "done_sent", "done")
     ELSE HandOver(x) /\ UNCHANGED told
  /\ UNCHANGED <<sessions, waiting, active_key, obj, alive, bus, late>>

\* "stop" was answered, or failed within two seconds, or was not needed.
Notify(x) ==
  /\ At(x, "rpc_stop") \/ At(x, "notify")
  /\ IF task[x].done
     THEN SendCallback(x, "done_sent", "done")
     ELSE HandOver(x) /\ UNCHANGED told
  /\ UNCHANGED <<sessions, waiting, active_key, obj, alive, bus, late>>

\* Mutant: the coroutine returns when PromptDone was answered, or failed.
DoneEnds(x) ==
  /\ At(x, "done_sent")
  /\ Return(x)
  /\ UNCHANGED <<sessions, waiting, active_key, obj, alive, bus, told, late>>

\* PromptDone was answered, or failed.
DoneReturns(x) ==
  /\ At(x, "done_sent")
  /\ HandOver(x)
  /\ UNCHANGED <<sessions, waiting, active_key, obj, alive, bus, told, late>>

\* Mutant: only the session that has the prompt is finished.
StartSweepOfActive(x) ==
  /\ At(x, "sweep")
  /\ Resume(x, {k \in task[x].rest : k = active_key})
  /\ UNCHANGED <<sessions, waiting, active_key, obj, alive, bus, told, late>>

\* The snapshot of the keys to finish.
StartSweep(x) ==
  /\ At(x, "sweep")
  /\ Resume(x, {k \in task[x].rest : Begun(k)})
  /\ UNCHANGED <<sessions, waiting, active_key, obj, alive, bus, told, late>>

\* The next key of the snapshot.  Its order, that of the dict, is left open.
SweepNext(x) ==
  /\ At(x, "return")
  /\ \E k \in task[x].rest :
       task' = [task EXCEPT ![x] =
            [Idle EXCEPT !.pc = "finish", !.key = k, !.rest = task[x].rest \ {k}]]
  /\ running' = x
  /\ UNCHANGED <<sessions, waiting, active_key, obj, alive, bus, told, late>>

\* amain returns; asyncio.run cancels every task that is left.
Exit ==
  /\ At(Main, "return")
  /\ task[Main].rest = {}
  /\ task' = [x \in Task |-> Idle]
  /\ bus' = "exited"
  /\ Await
  /\ UNCHANGED <<sessions, waiting, active_key, obj, alive, told, late>>
-------------------------------------------------------------------------------
Application ==
  \/ \E k \in Key : Begin(k) \/ Perform(k) \/ Stop(k)
  \/ \E s \in Sender : SenderVanishes(s)

\* What the code of task x does when the loop runs it; a "begin" or a "stop" sent
\* to the TTY server has an outcome within its time limit.
Runs(x) ==
  \/ ActivateNext(x) \/ BeginReturns(x) \/ BeginReturnsLate(x) \/ BeginFails(x)
  \/ LateStopReturns(x) \/ ReadyResumes(x) \/ ReplyResumes(x)
  \/ FinishNothing(x) \/ FinishSession(x) \/ Notify(x)
  \/ StartSweep(x) \/ SweepNext(x) \/ (x = Main /\ Exit)

\* A callback that was sent has an outcome: no limit of the code's bounds it.
CallbackEnds(x) == CallbackAnswers(x) \/ CallbackFails(x) \/ DoneReturns(x)

\* The TTY server answers a prompt, or is gone.
PromptEnds(x) == PromptReturns(x) \/ PromptFails(x)

Next ==
  \/ Application
  \/ Disconnect \/ Interrupt \/ Killed
  \/ \E x \in Task : Runs(x) \/ CallbackEnds(x) \/ PromptEnds(x)

Spec == Init /\ [][Next]_vars

(***************************************************************************)
(* Fairness.  The event loop runs every task that is ready: its queue is   *)
(* first in, first out.  What the code cannot promise is assumed of its    *)
(* surroundings: an application answers a callback or fails, the user      *)
(* answers a prompt or the TTY server goes away, and the application that  *)
(* has the prompt asks at some time to stop.  Fairness is strong because a *)
(* step is disabled as long as another task is in the middle of a segment; *)
(* for Stop, also while all the slots of Task, a bound of this model, are  *)
(* taken by other calls.                                                   *)
(***************************************************************************)
TaskFairness == \A x \in Task : SF_vars(Runs(x) \/ CallbackEnds(x) \/ PromptEnds(x))
ActiveStops == SF_vars(\E k \in Key : HasPrompter(k) /\ Stop(k))

FairSpec == Spec /\ TaskFairness
-------------------------------------------------------------------------------
(***************************************************************************)
(* Properties.                                                             *)
(***************************************************************************)
LiveActive(t) == Live(t) /\ obj[t].active

\* "Only one GCR prompt callback is active at a time": active_key and the
\* `active' flags of the sessions never disagree, and whatever is asked of the user
\* is asked for that one session, by the task the session names as its prompt_task.
SinglePrompter ==
  /\ \A t \in Token : LiveActive(t) => active_key = obj[t].key
  /\ active_key # None => Begun(active_key) /\ obj[sessions[active_key]].active
  /\ \A x \in Task : task[x].pc \in Prompting =>
       LET t == task[x].sess
       IN LiveActive(t) /\ obj[t].prompt_task = x /\ ~obj[t].ready

\* The deque holds exactly the sessions that have not had the prompt, each once,
\* whatever began, stopped, vanished or was begun again in whatever order.
WaitingLine ==
  /\ IsInjective(waiting)
  /\ ToSet(waiting) = {k \in Key : Begun(k) /\ ~obj[sessions[k]].active}

\* A task that will call _activate_next.
WillActivate(x) ==
  \/ task[x].pc = "activate"
  \/ task[x].pc \in Stopping /\ task[x].was

\* No lost wake-up: while sessions wait and nobody has the prompt, some task is on
\* its way to _activate_next.
NoLostWakeup ==
  bus # "exited" /\ active_key = None /\ waiting # <<>> => \E x \in Task : WillActivate(x)

\* A task that will make the session t ready, or finish it.
WorksFor(x, t) ==
  \/ task[x].pc \in (Activating \ {"rpc_late"}) \union Prompting /\ task[x].sess = t
  \/ task[x].pc = "finish" /\ task[x].key = obj[t].key

\* The session that has the prompt is ready for PerformPrompt, or a task is at work
\* that will make it ready or finish it: it can never block the line for nothing.
NoStuckSession ==
  bus # "exited" =>
    \A t \in Token : LiveActive(t) /\ ~obj[t].ready => \E x \in Task : WorksFor(x, t)

\* PromptDone is sent at most once for a session, though StopPrompting, a failing
\* callback and a failing TTY server can all finish it.
DoneOnce == [][\A t \in Token : \A x \in Task :
                 Notify(x) /\ task[x].done /\ task[x].sess = t => told[t] # "done"]_vars

\* PromptReady is never sent for a session that is no longer begun (client.py:360).
NoLateReady == [][\A x \in Task : BeginReturns(x) \/ PromptReturns(x) => Live(task[x].sess)]_vars

\* close() leaves no session behind that was there when it started, though finishing one of
\* them activates the next, and though messages may go on to arrive.  What it leaves began
\* while it ran, which takes a Ctrl-C: after a disconnect no message arrives.
ExitClean == [][Exit => \A t \in Token : Live(t) => t \in late]_vars

\* The line of PromptLine, read off the state of the client.
Line == INSTANCE PromptLine WITH
  Session <- Token,
  line <- [i \in 1..Len(waiting) |-> sessions[waiting[i]]],
  served <- IF active_key = None THEN None ELSE sessions[active_key],
  gone <- {t \in Token : obj[t].key # None /\ ~Live(t)}

\* The dict, the deque and active_key together are the line that PromptLine promises:
\* first come first served, one at a time, and whoever left does not return.
ImplementsLine == Line!LineSpec

\* The session t needs nothing any more: it is finished, or the client has ended.
Over(t) == ~Live(t) \/ bus = "exited"

\* If whoever has the prompt stops at some time, every session that began is served in
\* the end, or it is over before.
EveryoneServed ==
  ActiveStops => \A t \in Token : Live(t) ~> LiveActive(t) \/ Over(t)

\* The session that has the prompt becomes ready for PerformPrompt, at first and
\* after each prompt, or it is over.
BecomesReady ==
  \A t \in Token : LiveActive(t) ~> obj[t].ready \/ Over(t)

\* A session that is to be finished with PromptDone gets it, unless its application
\* or the bus goes away meanwhile.
ToBeConfirmed(t) ==
  Live(t) /\ \E x \in Task : task[x].pc = "finish" /\ task[x].done /\ task[x].key = obj[t].key

StopIsConfirmed ==
  \A t \in Token :
    ToBeConfirmed(t) ~> told[t] = "done" \/ obj[t].key \notin alive \X Path \/ bus # "up"
===============================================================================
