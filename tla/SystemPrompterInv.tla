-------------------------- MODULE SystemPrompterInv --------------------------
(***************************************************************************)
(* The inductive invariant of SystemPrompter: its safety invariants, and   *)
(* what they need of the tasks that are on their way.                      *)
(***************************************************************************)
EXTENDS SystemPrompter

\* self.sessions and the objects in it agree on the key.
KeysAgree == \A k \in Key : Begun(k) => obj[sessions[k]].key = k

\* A coroutine holds an object that exists, and one that was given the prompt; the
\* argument of _finish_session is a key.  The task of a prompt is not amain's.
TaskShape ==
  \A x \in Task :
    /\ task[x].pc \in Activating \union Prompting \union Stopping =>
         task[x].sess # None /\ obj[task[x].sess].key # None
    /\ task[x].pc = "finish" => task[x].key # None
    /\ task[x].pc = "serving" => x = Main
    /\ task[x].pc \in Prompting => x # Main

\* These points lie inside a segment: whoever is there holds the loop.
LoopHeld ==
  \A x \in Task : task[x].pc \in {"notify", "return"} => running = x

\* prompt_task of a session in the dict is the task of its prompt, or the task that
\* gave up on that prompt and is about to finish the session.
PromptTaskIsHers ==
  bus # "exited" => \A t \in Token : Live(t) /\ obj[t].prompt_task # None =>
    LET y == obj[t].prompt_task
    IN \/ task[y].pc \in Prompting /\ task[y].sess = t
       \/ task[y].pc = "finish" /\ task[y].key = obj[t].key /\ running = y

Wanted == Activating \ {"rpc_late"}

\* A session that has not had the prompt is as it was made; one whose activation is
\* under way has not been ready yet, and one task activates it.
ActivatedOnce ==
  /\ \A t \in Token : Live(t) /\ ~obj[t].active => ~obj[t].ready /\ obj[t].prompt_task = None
  /\ \A x \in Task : task[x].pc \in Wanted /\ Live(task[x].sess) =>
       LET t == task[x].sess
       IN /\ obj[t].active /\ ~obj[t].ready /\ obj[t].prompt_task = None
          /\ \A y \in Task \ {x} : task[y].pc \in Wanted => task[y].sess # t

\* A session that is being torn down has left the dict, and one task does it.
OneFinisher ==
  \A x \in Task : task[x].pc \in Stopping =>
    /\ ~Live(task[x].sess)
    /\ \A y \in Task \ {x} : task[y].pc \in Stopping => task[y].sess # task[x].sess

\* Whoever was told PromptDone has left the dict, and nobody is about to tell it again.
DoneIsLast ==
  \A t \in Token : told[t] = "done" =>
    /\ ~Live(t)
    /\ \A x \in Task : task[x].pc \in {"rpc_stop", "notify"} => task[x].sess # t
    /\ obj[t].key # None

\* Once close() has started, every session that is not late is still ahead of it.
ToBeSwept ==
  /\ bus # "exited" => task[Main].pc # "idle"
  /\ bus = "exited" => \A x \in Task : task[x] = Idle
  /\ task[Main].pc = "serving" => bus = "up"
  /\ task[Main].pc = "sweep" => task[Main].rest = Key
  /\ bus # "exited" /\ Closing => \A k \in Key : Begun(k) =>
       \/ sessions[k] \in late
       \/ k \in task[Main].rest
       \/ task[Main].pc = "finish" /\ task[Main].key = k

IInv ==
  /\ TypeOK
  /\ KeysAgree /\ TaskShape /\ LoopHeld
  /\ SinglePrompter /\ PromptTaskIsHers /\ ActivatedOnce
  /\ WaitingLine
  /\ NoLostWakeup
  /\ NoStuckSession
  /\ OneFinisher /\ DoneIsLast
  /\ ToBeSwept
===============================================================================
