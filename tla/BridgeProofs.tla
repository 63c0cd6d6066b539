----------------------------- MODULE BridgeProofs -----------------------------
(***************************************************************************)
(* Proofs about the client and the TTY server together, whatever dies or   *)
(* is lost between them: each meets what the other assumes of it, and what *)
(* was proved of each alone is true of the two.                            *)
(***************************************************************************)
EXTENDS Bridge, SystemPrompterLineProofs

\* The server, with what is proved of it.  A wait_closed that waits takes no step that one
\* that does not wait could not take.
TTY == INSTANCE PrompterServerProofs WITH
  sessions <- tty_sessions, prompt_task <- tty_prompt_task, stale <- tty_stale,
  exchange <- tty_exchange, conn <- tty_conn, ui <- tty_ui, secret <- tty_secret,
  holder <- tty_holder, queue <- tty_queue, tty <- tty_mode, saved <- tty_saved,
  server <- tty_server, client <- tty_client, WaitsForConnections <- FALSE

(***************************************************************************)
(* The inductive invariant.                                                *)
(***************************************************************************)
\* The client is as SystemPrompter has it, or it is gone.
ClientInv ==
  IF bus = "exited" THEN TypeOK /\ running = None /\ \A x \in Task : task[x] = Idle
  ELSE bus = "up" /\ task[Main].pc = "serving" /\ IInv

\* A session is not told anything before it is activated and "begin" was answered; a task
\* that has its RPC under way was activated; a late "stop" is for a session that is gone.
ToldInOrder ==
  /\ \A t \in Token : obj[t].key = None => told[t] = "nothing"
  /\ \A t \in Token : Live(t) /\ ~obj[t].active => told[t] = "nothing"
  /\ \A x \in Task :
       task[x].pc = "rpc_begin" /\ Live(task[x].sess) => told[task[x].sess] = "nothing"
  /\ \A x \in Task :
       task[x].pc \in Activating \union {"rpc_stop"} => obj[task[x].sess].active
  /\ \A x \in Task : task[x].pc = "rpc_late" => ~Live(task[x].sess)

OneUnsent == \A x, y \in Task : Unsent(x) /\ Unsent(y) => x = y

\* The server hears of a session after its activation, and from its "begin" or "stop" on.
ServerKnows ==
  /\ \A c \in Conn : tty_conn[c].pc # "free" => tty_client[tty_conn[c].tok] # "new"
  /\ \A t \in Token : tty_client[t] # "new" => obj[t].active

OrphanIsGone == bus # "exited" => \A c \in Conn : Orphan(c) => ~Live(tty_conn[c].tok)

\* How far the "begin" of a session is.
BeginInTurn ==
  \A x \in Task : task[x].pc = "rpc_begin" =>
    LET t == task[x].sess IN
      /\ Unsent(x) => tty_client[t] = "new"
      /\ rpc[x].conn # None /\ Live(t) => tty_client[t] = "asked"
      /\ rpc[x].out = "ok" /\ Live(t) => tty_client[t] = "begun"

\* The coroutine that activates t, or a prompt of t, is past the answer to "begin".
HasBegun(t) ==
  \/ obj[t].ready \/ told[t] = "ready"
  \/ \E x \in Task :
       task[x].sess = t /\ task[x].pc \in {"ready_sent", "ready_answered"} \union Prompting

BegunIsKnown ==
  bus # "exited" => \A t \in Token : Live(t) /\ HasBegun(t) => tty_client[t] = "begun"

BeginSucceeded(t) ==
  \E x \in Task : task[x].pc = "rpc_begin" /\ task[x].sess = t /\ rpc[x].out = "ok"

\* As long as nothing goes wrong, nobody is gone and no session is old.
NothingWentWrong ==
  faults = 0 =>
    /\ bus = "up" /\ tty_server = "up" /\ tty_stale = {}
    /\ \A t \in Token : Live(t) /\ (HasBegun(t) \/ BeginSucceeded(t)) => t \in tty_sessions

BridgeInv ==
  /\ faults \in Nat
  /\ ClientInv /\ ToldInOrder
  /\ TTY!IInv
  /\ RpcOK /\ OneUnsent
  /\ ServerKnows /\ OrphanIsGone /\ StopsOnlyTheFinished
  /\ BeginInTurn /\ BegunIsKnown /\ NothingWentWrong

-------------------------------------------------------------------------------
(***************************************************************************)
(* What a step of the client, in which task x acts, does that the server   *)
(* could see.                                                              *)
(***************************************************************************)
\* Task x enters a bridge_rpc, or moves inside _activate_next.
Enters(x) ==
  \A t \in Token : task'[x].sess = t =>
    CASE task'[x].pc = "rpc_begin" -> /\ Live(t) /\ ~obj[t].active /\ obj'[t].active
                                      /\ told' = told
      [] task'[x].pc = "rpc_late" -> /\ task[x].pc = "rpc_begin" /\ task[x].sess = t
                                     /\ ~Live(t)
      [] task'[x].pc = "rpc_prompt" -> Live(t) /\ obj[t].ready
      [] task'[x].pc = "rpc_stop" -> ~Live(t)' /\ obj[t].active
      [] task'[x].pc \in {"ready_sent", "ready_answered"} ->
           task[x].pc \in Activating /\ task[x].sess = t
      [] OTHER -> TRUE

ClientFrame(x) ==
  /\ bus' = bus
  /\ \A t \in Token : /\ obj[t].key # None => obj'[t].key = obj[t].key
                      /\ obj[t].active => obj'[t].active
                      /\ Live(t)' => Live(t) \/ obj[t] = Unmade
  /\ \A y \in Task \ {x} :
       \/ task'[y] = task[y]
       \/ /\ task[y].pc \in Prompting /\ task'[y] = Idle
          /\ \A t \in Token : task[y].sess = t => ~Live(t)'
  /\ task'[x] = task[x] \/ Enters(x)
  /\ \A t \in Token : told'[t] # told[t] =>
       /\ t = task[x].sess /\ task[x].pc \in {"rpc_begin", "rpc_prompt", "rpc_stop", "notify"}
       /\ task'[x].pc # "rpc_begin"
  /\ \A t \in Token : Live(t)' /\ HasBegun(t)' =>
       Live(t) /\ (HasBegun(t) \/ (BeginReturns(x) /\ task[x].sess = t))

\* The points outside of every RPC and callback.
Elsewhere == {"idle", "activate", "finish", "return", "sweep", "notify", "done_sent"}

\* Task x leaves what it was at, and the sessions are as they were.
LEMMA LeavesFrame ==
  ASSUME IInv, NEW x \in Task, NEW u \in TaskState, task' = [task EXCEPT ![x] = u],
         u.pc \in Elsewhere, UNCHANGED <<sessions, obj, bus>>,
         told' = told \/
           (/\ task[x].pc \in {"rpc_stop", "notify"}
            /\ told' = [told EXCEPT ![task[x].sess] = "done"])
  PROVE  ClientFrame(x)
<1>1. /\ task'[x] = u /\ \A y \in Task \ {x} : task'[y] = task[y]
      /\ \A t \in Token : Live(t)' = Live(t) /\ obj'[t] = obj[t]
  BY DEF IInv, TypeOK, Live
<1>2. Enters(x)
  BY <1>1 DEF Enters, Elsewhere
<1>3. \A t \in Token : told'[t] # told[t] =>
        t = task[x].sess /\ task[x].pc \in {"rpc_stop", "notify"} /\ told'[t] = "done"
  BY DEF IInv, TypeOK
<1>4. \A t \in Token : HasBegun(t)' => HasBegun(t)
  <2> SUFFICES ASSUME NEW t \in Token, HasBegun(t)' PROVE HasBegun(t)
    OBVIOUS
  <2>1. CASE obj'[t].ready \/ told'[t] = "ready"
    BY <1>1, <1>3, <2>1 DEF HasBegun
  <2>2. CASE \E y \in Task : /\ task'[y].sess = t
                             /\ task'[y].pc \in {"ready_sent", "ready_answered"} \union Prompting
    BY <1>1, <2>2 DEF HasBegun, Elsewhere, Prompting
  <2>3. QED
    BY <2>1, <2>2 DEF HasBegun
<1>5. task'[x].pc # "rpc_begin"
  BY <1>1 DEF Elsewhere
<1>6. QED
  BY <1>1, <1>2, <1>3, <1>4, <1>5 DEF ClientFrame

LEMMA ReturnShape ==
  ASSUME IInv, NEW x \in Task, Return(x)
  PROVE  \E u \in TaskState : task' = [task EXCEPT ![x] = u] /\ u.pc \in Elsewhere
<1> DEFINE u == [Idle EXCEPT !.pc = "return", !.rest = task[x].rest]
<1>1. u \in TaskState /\ u.pc \in Elsewhere /\ Idle \in TaskState /\ Idle.pc \in Elsewhere
  BY DEF Idle, TaskState, PC, Elsewhere, IInv, TypeOK
<1>2. QED
  BY <1>1, Zenon DEF Return, Resume

LEMMA GiveUpShape ==
  ASSUME IInv, NEW x \in Task, GiveUp(x), task[x].pc \in Activating \union Prompting
  PROVE  \E u \in TaskState : task' = [task EXCEPT ![x] = u] /\ u.pc \in Elsewhere
<1> DEFINE k == obj[task[x].sess].key
           u == [Call(x, "finish") EXCEPT !.key = k, !.done = TRUE]
<1>1. k \in Key \union {None}
  BY DEF IInv, TaskShape, TypeOK, TaskState, Object
<1>2. Call(x, "finish") \in TaskState
  BY CallType DEF IInv, PC
<1>3. u \in TaskState /\ u.pc \in Elsewhere
  BY <1>1, <1>2 DEF TaskState, Call, Idle, Elsewhere
<1>4. QED
  BY <1>3 DEF GiveUp

LEMMA HandOverShape ==
  ASSUME IInv, NEW x \in Task, HandOver(x)
  PROVE  \E u \in TaskState : task' = [task EXCEPT ![x] = u] /\ u.pc \in Elsewhere
<1>1. Call(x, "activate") \in TaskState
  BY CallType DEF IInv, PC
<1>2. Call(x, "activate").pc \in Elsewhere
  BY DEF Call, Idle, Elsewhere
<1>3. QED
  BY <1>1, <1>2, ReturnShape DEF HandOver

\* The actions in which a task leaves what it was at.
LEMMA LeavingSteps ==
  ASSUME IInv, NEW x \in Task,
         \/ ActivateNobody(x) \/ BeginFails(x) \/ LateStopReturns(x) \/ CallbackFails(x)
         \/ PromptFails(x) \/ FinishNothing(x) \/ DoneReturns(x)
  PROVE  ClientFrame(x)
<1>1. UNCHANGED <<sessions, obj, bus, told>>
  BY DEF ActivateNobody, BeginFails, LateStopReturns, CallbackFails, PromptFails, FinishNothing,
         DoneReturns, GiveUp
<1>2. \E u \in TaskState : task' = [task EXCEPT ![x] = u] /\ u.pc \in Elsewhere
  <2>1. CASE BeginFails(x) \/ CallbackFails(x) \/ PromptFails(x)
    BY <2>1, GiveUpShape DEF BeginFails, CallbackFails, PromptFails, At, Activating, Prompting
  <2>2. CASE DoneReturns(x)
    BY <2>2, HandOverShape DEF DoneReturns
  <2>3. CASE ActivateNobody(x) \/ LateStopReturns(x) \/ FinishNothing(x)
    BY <2>3, ReturnShape DEF ActivateNobody, LateStopReturns, FinishNothing
  <2>4. QED
    BY <2>1, <2>2, <2>3
<1>3. QED
  BY <1>1, <1>2, LeavesFrame

LEMMA SweepingSteps ==
  ASSUME IInv, NEW x \in Task, StartSweep(x) \/ SweepNext(x)
  PROVE  ClientFrame(x)
<1>1. UNCHANGED <<sessions, obj, bus, told>>
  BY DEF StartSweep, SweepNext
<1>2. CASE StartSweep(x)
  <2> DEFINE r == {k \in task[x].rest : Begun(k)}
             u == [Idle EXCEPT !.pc = "return", !.rest = r]
  <2>1. u \in TaskState /\ u.pc \in Elsewhere /\ Idle \in TaskState /\ Idle.pc \in Elsewhere
    BY DEF Idle, TaskState, PC, Elsewhere, IInv, TypeOK
  <2>2. task' = [task EXCEPT ![x] = u] \/ task' = [task EXCEPT ![x] = Idle]
    BY <1>2, Zenon DEF StartSweep, Resume
  <2> HIDE DEF u
  <2>3. QED
    BY <1>1, <2>1, <2>2, LeavesFrame
<1>3. CASE SweepNext(x)
  <2>1. PICK k \in task[x].rest :
          task' = [task EXCEPT ![x] =
            [Idle EXCEPT !.pc = "finish", !.key = k, !.rest = task[x].rest \ {k}]]
    BY <1>3 DEF SweepNext
  <2> DEFINE u == [Idle EXCEPT !.pc = "finish", !.key = k, !.rest = task[x].rest \ {k}]
  <2>2. u \in TaskState /\ u.pc \in Elsewhere
    BY DEF Idle, TaskState, PC, Elsewhere, IInv, TypeOK
  <2>3. QED
    BY <1>1, <2>1, <2>2, LeavesFrame
<1>4. QED
  BY <1>2, <1>3

LEMMA NotifyFrame ==
  ASSUME IInv, NEW x \in Task, Notify(x)
  PROVE  ClientFrame(x)
<1>1. task[x].pc \in {"rpc_stop", "notify"} /\ UNCHANGED <<sessions, obj, bus>>
  BY DEF Notify, At
<1>2. CASE task[x].done
  <2> DEFINE u == [task[x] EXCEPT !.pc = "done_sent"]
  <2>1. u \in TaskState /\ u.pc \in Elsewhere
    BY DEF TaskState, PC, Stopping, Elsewhere, IInv, TypeOK
  <2>2. task' = [task EXCEPT ![x] = u] /\ told' = [told EXCEPT ![task[x].sess] = "done"]
    BY <1>2 DEF Notify, SendCallback, Goto, IInv, TypeOK
  <2> HIDE DEF u
  <2>3. QED
    BY <1>1, <2>1, <2>2, LeavesFrame
<1>3. CASE ~task[x].done
  BY <1>1, <1>3, HandOverShape, LeavesFrame DEF Notify
<1>4. QED
  BY <1>2, <1>3

\* A handler makes a task.
LEMMA CreatingSteps ==
  ASSUME IInv,
         (\E k \in Key : Stop(k)) \/ (\E s \in Sender : SenderVanishes(s))
  PROVE  \E x \in Task : task[x].pc = "idle" /\ ClientFrame(x)
<1>1. UNCHANGED <<sessions, obj, bus, told>>
  BY DEF Stop, SenderVanishes
<1>2. \E u \in TaskState : CreateTask(u) /\ u.pc \in Elsewhere
  <2>1. \A k \in Key : LET u == [Idle EXCEPT !.pc = "finish", !.key = k, !.done = TRUE]
                       IN u \in TaskState /\ u.pc \in Elsewhere
    BY DEF Idle, TaskState, PC, Elsewhere
  <2>2. \A s \in Sender :
          LET u == [Idle EXCEPT !.pc = "sweep", !.rest = {k \in Key : k[1] = s}]
          IN u \in TaskState /\ u.pc \in Elsewhere
    BY DEF Idle, TaskState, PC, Elsewhere
  <2>3. QED
    BY <2>1, <2>2, Zenon DEF Stop, SenderVanishes
<1>3. PICK u \in TaskState, x \in Task \ {Main} :
        task[x] = Idle /\ task' = [task EXCEPT ![x] = u] /\ u.pc \in Elsewhere
  BY <1>2 DEF CreateTask
<1>4. ClientFrame(x)
  BY <1>1, <1>3, LeavesFrame
<1>5. task[x].pc = "idle"
  BY <1>3 DEF Idle
<1>6. QED
  BY <1>4, <1>5

LEMMA BeginAcceptedFrame ==
  ASSUME IInv, ToldInOrder, NEW k \in Key, BeginAccepted(k)
  PROVE  \E x \in Task : task[x].pc = "idle" /\ ClientFrame(x)
<1>1. PICK t \in Token :
        /\ Fresh(t, k)
        /\ obj' = [obj EXCEPT ![t].key = k]
        /\ sessions' = [sessions EXCEPT ![k] = t]
  BY DEF BeginAccepted
<1> DEFINE v == [Idle EXCEPT !.pc = "activate"]
<1>2. PICK x \in Task \ {Main} : task[x] = Idle /\ task' = [task EXCEPT ![x] = v]
  BY DEF BeginAccepted, CreateTask
<1>3. v.pc = "activate" /\ Idle.pc = "idle"
  BY DEF Idle
<1> HIDE DEF v
<1>4. /\ task'[x] = v /\ \A y \in Task \ {x} : task'[y] = task[y]
      /\ task[x].pc = "idle" /\ told' = told /\ bus' = bus
  BY <1>2, <1>3 DEF BeginAccepted, IInv, TypeOK
<1>5. obj[t] = Unmade /\ obj[t].key = None /\ ~obj[t].ready /\ ~obj[t].active
  BY <1>1 DEF Fresh, Unmade
<1>6. /\ obj'[t] = [Unmade EXCEPT !.key = k] /\ \A u \in Token \ {t} : obj'[u] = obj[u]
      /\ sessions'[k] = t /\ \A j \in Key \ {k} : sessions'[j] = sessions[j]
      /\ ~obj'[t].ready
  BY <1>1, <1>5 DEF IInv, TypeOK, Unmade
<1>7. \A u \in Token \ {t} : Live(u)' => Live(u)
  <2> SUFFICES ASSUME NEW u \in Token \ {t}, Live(u)' PROVE Live(u)
    OBVIOUS
  <2>1. obj[u].key # None /\ sessions'[obj[u].key] = u /\ obj[u].key \in Key \union {None}
    BY <1>6 DEF Live, IInv, TypeOK, Object
  <2>2. obj[u].key # k
    BY <1>6, <2>1
  <2>3. QED
    BY <1>6, <2>1, <2>2 DEF Live
<1>8. told[t] = "nothing"
  BY <1>5 DEF ToldInOrder
<1>9. \A y \in Task : task[y].pc \in {"ready_sent", "ready_answered"} \union Prompting =>
        task[y].sess # t
  BY <1>5 DEF IInv, TaskShape, Activating
<1>10. ~HasBegun(t)'
  BY <1>3, <1>4, <1>6, <1>8, <1>9 DEF HasBegun, Prompting
<1>11. \A u \in Token \ {t} : HasBegun(u)' => HasBegun(u)
  BY <1>3, <1>4, <1>6 DEF HasBegun, Prompting
<1>12. Enters(x)
  BY <1>3, <1>4 DEF Enters
<1>13. QED
  BY <1>4, <1>5, <1>6, <1>7, <1>10, <1>11, <1>12 DEF ClientFrame

LEMMA PerformAcceptedFrame ==
  ASSUME IInv, NEW k \in Key, PerformAccepted(k)
  PROVE  \E x \in Task : task[x].pc = "idle" /\ ClientFrame(x)
<1> DEFINE t == sessions[k]
           v == [Idle EXCEPT !.pc = "rpc_prompt", !.sess = t]
<1>1. PICK x \in Task \ {Main} :
        /\ task[x] = Idle
        /\ task' = [task EXCEPT ![x] = v]
        /\ obj' = [obj EXCEPT ![t].ready = FALSE, ![t].prompt_task = x]
  BY DEF PerformAccepted
<1>2. /\ t \in Token /\ Live(t) /\ obj[t].ready
      /\ UNCHANGED <<sessions, bus, told>>
  <2>1. t \in Token /\ obj[t].key = k /\ obj[t].ready
    BY DEF PerformAccepted, HasPrompter, Begun, IsReady, IInv, KeysAgree, TypeOK
  <2>2. k # None
    BY NoneIsFresh DEF Key
  <2>3. QED
    BY <2>1, <2>2 DEF Live, PerformAccepted
<1>3. v.pc = "rpc_prompt" /\ v.sess = t /\ Idle.pc = "idle"
  BY DEF Idle
<1> HIDE DEF v, t
<1>4. /\ task'[x] = v /\ \A y \in Task \ {x} : task'[y] = task[y]
      /\ task[x].pc = "idle"
  BY <1>1, <1>3 DEF IInv, TypeOK
<1>5. \A u \in Token : /\ obj'[u].key = obj[u].key /\ obj'[u].active = obj[u].active
                       /\ obj'[u].ready => obj[u].ready
  BY <1>1, <1>2 DEF IInv, TypeOK, Object
<1>6. \A u \in Token : Live(u)' = Live(u)
  BY <1>2, <1>5 DEF Live
<1>7. \A u \in Token : HasBegun(u)' => HasBegun(u)
  <2> SUFFICES ASSUME NEW u \in Token, HasBegun(u)' PROVE HasBegun(u)
    OBVIOUS
  <2>1. CASE obj'[u].ready \/ told'[u] = "ready"
    BY <1>2, <1>5, <2>1 DEF HasBegun
  <2>2. CASE \E y \in Task : /\ task'[y].sess = u
                             /\ task'[y].pc \in {"ready_sent", "ready_answered"} \union Prompting
    BY <1>2, <1>3, <1>4, <2>2 DEF HasBegun
  <2>3. QED
    BY <2>1, <2>2 DEF HasBegun
<1>8. Enters(x)
  BY <1>2, <1>3, <1>4 DEF Enters
<1>9. QED
  BY <1>2, <1>4, <1>5, <1>6, <1>7, <1>8 DEF ClientFrame

LEMMA ActivateFirstFrame ==
  ASSUME IInv, NEW x \in Task, ActivateFirst(x)
  PROVE  ClientFrame(x)
<1>1. PICK i \in DOMAIN waiting :
        LET k == waiting[i] IN
          /\ obj' = [obj EXCEPT ![sessions[k]].active = TRUE]
          /\ task' = [task EXCEPT ![x].pc = "rpc_begin", ![x].sess = sessions[k]]
  BY DEF ActivateFirst
<1> DEFINE k == waiting[i]
           t == sessions[k]
<1>2. /\ k \in Key /\ t \in Token /\ ~obj[t].active /\ obj[t].key = k
      /\ k # None /\ Live(t)
  <2>1. i \in 1..Len(waiting)
    BY LenProperties DEF IInv, TypeOK
  <2>2. k \in Key /\ Begun(k) /\ ~obj[t].active
    BY <2>1, LineBegun
  <2>3. t \in Token /\ obj[t].key = k /\ k # None
    BY <2>2, NoneIsFresh DEF Begun, IInv, KeysAgree, TypeOK, Key
  <2>4. QED
    BY <2>2, <2>3 DEF Live
<1> HIDE DEF k, t
<1>3. /\ task'[x].pc = "rpc_begin" /\ task'[x].sess = t
      /\ \A y \in Task \ {x} : task'[y] = task[y]
  BY <1>1 DEF IInv, TypeOK, TaskState, k, t
<1>4. \A u \in Token : /\ obj'[u].key = obj[u].key
                       /\ obj[u].active => obj'[u].active
                       /\ obj'[u].ready = obj[u].ready
  BY <1>1, <1>2 DEF IInv, TypeOK, Object, k, t
<1>5. obj'[t].active
  BY <1>1, <1>2 DEF IInv, TypeOK, Object, k, t
<1>6. UNCHANGED <<sessions, bus, told>>
  BY DEF ActivateFirst
<1>7. \A u \in Token : Live(u)' = Live(u)
  BY <1>4, <1>6 DEF Live
<1>8. \A u \in Token : HasBegun(u)' => HasBegun(u)
  BY <1>3, <1>4, <1>6 DEF HasBegun, Prompting
<1>9. Enters(x)
  BY <1>2, <1>3, <1>5, <1>6 DEF Enters
<1>10. QED
  BY <1>3, <1>4, <1>6, <1>7, <1>8, <1>9 DEF ClientFrame

\* The moves of a task from one await to the next, with the same session.
LEMMA MovingSteps ==
  ASSUME IInv, NEW x \in Task,
         \/ BeginReturns(x) \/ BeginReturnsLate(x) \/ PromptReturns(x) \/ CallbackAnswers(x)
  PROVE  ClientFrame(x)
<1> DEFINE t == task[x].sess
           p == task'[x].pc
<1>1. /\ UNCHANGED <<sessions, obj, bus>>
      /\ \E q \in PC : Goto(x, q)
      /\ task[x].pc \in Activating \union Prompting
  BY DEF BeginReturns, BeginReturnsLate, PromptReturns, CallbackAnswers, SendCallback, At,
         Activating, Prompting, PC
<1>2. t \in Token /\ obj[t].key # None
  BY <1>1 DEF IInv, TaskShape, TypeOK, TaskState
<1>3. /\ task'[x].sess = t /\ \A y \in Task \ {x} : task'[y] = task[y]
  BY <1>1 DEF Goto, IInv, TypeOK, TaskState
<1>4. \A u \in Token : Live(u)' = Live(u) /\ obj'[u] = obj[u]
  BY <1>1 DEF Live
<1>5. \/ /\ BeginReturns(x) /\ task[x].pc = "rpc_begin" /\ p = "ready_sent"
         /\ told' = [told EXCEPT ![t] = "ready"]
      \/ /\ task[x].pc = "rpc_begin" /\ p = "rpc_late" /\ ~StillBegun(t) /\ told' = told
      \/ /\ task[x].pc = "rpc_prompt" /\ p = "reply_sent" /\ told' = [told EXCEPT ![t] = "ready"]
      \/ /\ task[x].pc = "ready_sent" /\ p = "ready_answered" /\ told' = told
      \/ /\ task[x].pc = "reply_sent" /\ p = "reply_answered" /\ told' = told
  BY DEF BeginReturns, BeginReturnsLate, PromptReturns, CallbackAnswers, SendCallback, Goto, At,
         IInv, TypeOK, TaskState
<1>6. ~StillBegun(t) => ~Live(t)
  BY <1>2, NoneIsFresh DEF StillBegun, Begun, Live
<1>7. \A u \in Token : told'[u] # told[u] =>
        u = t /\ task[x].pc \in {"rpc_begin", "rpc_prompt"} /\ p # "rpc_begin"
  BY <1>5 DEF IInv, TypeOK
<1> HIDE DEF t, p
<1>8. Enters(x)
  BY <1>3, <1>5, <1>6 DEF Enters, t, p, Activating
<1>9. \A u \in Token : HasBegun(u)' => HasBegun(u) \/ (BeginReturns(x) /\ task[x].sess = u)
  <2> SUFFICES ASSUME NEW u \in Token, HasBegun(u)', ~(BeginReturns(x) /\ task[x].sess = u)
               PROVE  HasBegun(u)
    OBVIOUS
  <2>1. u = t /\ task[x].pc \in {"rpc_prompt", "ready_sent", "reply_sent"} => HasBegun(u)
    BY DEF HasBegun, Prompting, t
  <2>2. CASE obj'[u].ready
    BY <1>4, <2>2 DEF HasBegun
  <2>3. CASE told'[u] = "ready"
    <3>1. CASE told'[u] = told[u]
      BY <2>3, <3>1 DEF HasBegun
    <3>2. CASE told'[u] # told[u]
      <4>1. u = t
        BY <1>7, <3>2
      <4>2. task[x].pc = "rpc_prompt"
        BY <1>5, <3>2, <4>1 DEF t
      <4>3. QED
        BY <2>1, <4>1, <4>2
    <3>3. QED
      BY <3>1, <3>2
  <2>4. CASE \E y \in Task : /\ task'[y].sess = u
                             /\ task'[y].pc \in {"ready_sent", "ready_answered"} \union Prompting
    <3>1. PICK y \in Task : /\ task'[y].sess = u
                            /\ task'[y].pc \in {"ready_sent", "ready_answered"} \union Prompting
      BY <2>4
    <3>2. CASE y # x
      BY <1>3, <3>1, <3>2 DEF HasBegun
    <3>3. CASE y = x
      BY <1>3, <1>5, <2>1, <3>1, <3>3 DEF t, p, Prompting
    <3>4. QED
      BY <3>2, <3>3
  <2>5. QED
    BY <2>2, <2>3, <2>4 DEF HasBegun
<1>10. QED
  BY <1>1, <1>3, <1>4, <1>7, <1>8, <1>9 DEF ClientFrame, t, p

\* A callback was answered, and the session is ready.
LEMMA ResumesFrame ==
  ASSUME IInv, NEW x \in Task, ReadyResumes(x) \/ ReplyResumes(x)
  PROVE  ClientFrame(x)
<1> DEFINE t == task[x].sess
<1>1. /\ task[x].pc \in {"ready_sent", "ready_answered"} \union Prompting
      /\ t \in Token
      /\ Return(x)
      /\ UNCHANGED <<sessions, bus, told>>
      /\ obj' = [obj EXCEPT ![t].ready = TRUE] \/ obj' = obj
         \/ obj' = [obj EXCEPT ![t].ready = TRUE, ![t].prompt_task = None]
  BY DEF ReadyResumes, ReplyResumes, At, Prompting, IInv, TypeOK, TaskShape, TaskState, Activating
<1>2. PICK u \in TaskState : task' = [task EXCEPT ![x] = u] /\ u.pc \in Elsewhere
  BY <1>1, ReturnShape
<1>3. /\ task'[x] = u /\ \A y \in Task \ {x} : task'[y] = task[y]
  BY <1>2 DEF IInv, TypeOK
<1>4. \A v \in Token : /\ obj'[v].key = obj[v].key
                       /\ obj'[v].active = obj[v].active
                       /\ v # t => obj'[v].ready = obj[v].ready
  BY <1>1 DEF IInv, TypeOK, Object
<1>5. \A v \in Token : Live(v)' = Live(v)
  BY <1>1, <1>4 DEF Live
<1>6. HasBegun(t)
  BY <1>1 DEF HasBegun
<1> HIDE DEF t
<1>7. \A v \in Token : HasBegun(v)' => HasBegun(v)
  BY <1>1, <1>2, <1>3, <1>4, <1>6 DEF HasBegun, Elsewhere, Prompting
<1>8. Enters(x)
  BY <1>2, <1>3 DEF Enters, Elsewhere
<1>9. QED
  BY <1>1, <1>3, <1>4, <1>5, <1>7, <1>8 DEF ClientFrame

\* _finish_session takes a session out of the dict, and cancels its prompt.
LEMMA FinishSessionFrame ==
  ASSUME IInv, bus = "up", NEW x \in Task, FinishSession(x)
  PROVE  ClientFrame(x)
<1>1. PICK k \in Key, t \in Token :
        /\ task[x].key = k /\ sessions[k] = t
        /\ obj[t].key = k /\ k # None
        /\ running \in {None, x}
  BY NoneIsFresh DEF FinishSession, At, Begun, IInv, TypeOK, KeysAgree, TaskShape, TaskState, Key
<1> DEFINE u == [task[x] EXCEPT !.pc = IF obj[t].active THEN "rpc_stop" ELSE "notify",
                                !.key = None, !.sess = t, !.was = (active_key = k)]
<1>2. /\ task' = [y \in Task |-> IF y = x THEN u
                                 ELSE IF y \in ToCancel(t, x) THEN Idle ELSE task[y]]
      /\ sessions' = [sessions EXCEPT ![k] = None]
      /\ UNCHANGED <<obj, bus, told>>
  BY <1>1 DEF FinishSession, Without
<1>3. /\ u.pc = (IF obj[t].active THEN "rpc_stop" ELSE "notify")
      /\ u.sess = t
  BY DEF IInv, TypeOK, TaskState
<1> HIDE DEF u
<1>4. ~Live(t)' /\ Live(t) /\ \A v \in Token : Live(v)' => Live(v)
  <2>1. ~Live(t)' /\ Live(t)
    BY <1>1, <1>2, NoneIsFresh DEF Live, IInv, TypeOK
  <2>2. ASSUME NEW v \in Token, Live(v)' PROVE Live(v)
    BY <1>1, <1>2, <2>2, NoneIsFresh DEF Live, IInv, TypeOK, Object
  <2>3. QED
    BY <2>1, <2>2
<1>5. \A y \in Task \ {x} :
        \/ task'[y] = task[y]
        \/ /\ task[y].pc \in Prompting /\ task'[y] = Idle
           /\ \A v \in Token : task[y].sess = v => ~Live(v)'
  <2> SUFFICES ASSUME NEW y \in Task \ {x}, y \in ToCancel(t, x)
               PROVE  /\ task[y].pc \in Prompting /\ task'[y] = Idle
                      /\ \A v \in Token : task[y].sess = v => ~Live(v)'
    BY <1>2
  <2>1. y = obj[t].prompt_task /\ y # None
    BY DEF ToCancel
  <2>2. \/ task[y].pc \in Prompting /\ task[y].sess = t
        \/ running = y
    BY <1>1, <1>4, <2>1 DEF IInv, PromptTaskIsHers
  <2>3. QED
    BY <1>1, <1>2, <1>4, <2>1, <2>2
<1>6. Enters(x)
  BY <1>2, <1>3, <1>4 DEF Enters
<1>7. \A v \in Token : HasBegun(v)' => HasBegun(v)
  BY <1>2, <1>3 DEF HasBegun, Prompting, Idle
<1>8. QED
  BY <1>2, <1>4, <1>5, <1>6, <1>7 DEF ClientFrame

LEMMA StutterFrame ==
  ASSUME UNCHANGED vars, NEW x \in Task
  PROVE  ClientFrame(x)
<1>1. \A t \in Token : Live(t)' = Live(t) /\ HasBegun(t)' = HasBegun(t)
  BY DEF vars, Live, HasBegun
<1>2. QED
  BY <1>1 DEF ClientFrame, vars

LEMMA RunsFrame ==
  ASSUME IInv, bus = "up", task[Main].pc = "serving", NEW x \in Task,
         Runs(x) \/ CallbackEnds(x) \/ PromptEnds(x)
  PROVE  ClientFrame(x)
<1>1. ~(x = Main /\ Exit)
  BY DEF Exit, At
<1>2. \/ ActivateNobody(x) \/ BeginFails(x) \/ LateStopReturns(x) \/ CallbackFails(x)
      \/ PromptFails(x) \/ FinishNothing(x) \/ DoneReturns(x)
      \/ ActivateFirst(x)
      \/ BeginReturns(x) \/ BeginReturnsLate(x) \/ PromptReturns(x) \/ CallbackAnswers(x)
      \/ ReadyResumes(x) \/ ReplyResumes(x)
      \/ FinishSession(x) \/ Notify(x) \/ StartSweep(x) \/ SweepNext(x)
  BY <1>1, Zenon DEF Runs, CallbackEnds, PromptEnds, ActivateNext
<1>3. QED
  BY <1>2, LeavingSteps, ActivateFirstFrame, MovingSteps, ResumesFrame, FinishSessionFrame,
     NotifyFrame, SweepingSteps, Zenon

-------------------------------------------------------------------------------
(***************************************************************************)
(* A step of the client keeps the invariant.                               *)
(***************************************************************************)
ClientStep(x) ==
  /\ ClientMoves
  /\ ClientFrame(x)
  /\ task'[x] # task[x] => rpc[x].conn = None /\ task[x].pc # "serving"
  /\ BeginReturns(x) => rpc[x].out = "ok"
  /\ faults' = faults \/ Fault

\* Every task that is not idle works for a session that was made.
LEMMA SessionOfTask ==
  ASSUME IInv, NEW x \in Task,
         task[x].pc \in Activating \union Prompting \union Stopping
  PROVE  task[x].sess \in Token /\ obj[task[x].sess].key # None
BY DEF IInv, TaskShape, TypeOK, TaskState

\* A session that left the dict does not return.
LEMMA GoneForGood ==
  ASSUME NEW x \in Task, ClientFrame(x), NEW t \in Token,
         obj[t].key # None \/ obj[t].active, Live(t)'
  PROVE  Live(t)
BY DEF ClientFrame, Unmade

\* The token of a connection in use is known to the server.
LEMMA TokenOfConn ==
  ASSUME TTY!IInv, ServerKnows, NEW c \in Conn, tty_conn[c].open \/ tty_conn[c].pc # "free"
  PROVE  /\ tty_conn[c].pc # "free" /\ tty_conn[c].tok \in Token
         /\ obj[tty_conn[c].tok].active
<1>1. tty_conn[c].pc # "free"
  BY DEF TTY!IInv, TTY!HandlerShape, TTY!Free
<1>2. tty_conn[c].tok \in Token
  BY <1>1 DEF TTY!IInv, TTY!HandlerShape
<1>3. QED
  BY <1>1, <1>2 DEF ServerKnows

LEMMA ClientKeepsTold ==
  ASSUME IInv, IInv', ToldInOrder, NEW x \in Task, ClientFrame(x)
  PROVE  ToldInOrder'
<1>1. \A t \in Token : told'[t] # told[t] =>
        /\ obj[t].key # None
        /\ Live(t) => obj[t].active
        /\ \A y \in Task : task[y].pc = "rpc_begin" /\ task[y].sess = t /\ Live(t) => y = x
  <2> SUFFICES ASSUME NEW t \in Token, told'[t] # told[t]
               PROVE  /\ obj[t].key # None
                      /\ Live(t) => obj[t].active
                      /\ \A y \in Task :
                           task[y].pc = "rpc_begin" /\ task[y].sess = t /\ Live(t) => y = x
    BY DEF ClientFrame
  <2>1. t = task[x].sess /\ task[x].pc \in {"rpc_begin", "rpc_prompt", "rpc_stop", "notify"}
    BY DEF ClientFrame
  <2>2. obj[t].key # None
    BY <2>1, SessionOfTask DEF Activating, Prompting, Stopping
  <2>3. CASE task[x].pc = "rpc_begin"
    BY <2>1, <2>2, <2>3 DEF ToldInOrder, Activating, IInv, ActivatedOnce, Wanted
  <2>4. CASE task[x].pc = "rpc_prompt"
    <3>1. LiveActive(t) /\ obj[t].prompt_task = x
      BY <2>1, <2>4 DEF IInv, SinglePrompter, Prompting
    <3>2. \A y \in Task : ~(task[y].pc = "rpc_begin" /\ task[y].sess = t)
      <4> SUFFICES ASSUME NEW y \in Task, task[y].pc = "rpc_begin", task[y].sess = t PROVE FALSE
        OBVIOUS
      <4>1. obj[t].prompt_task = None
        BY <3>1 DEF IInv, ActivatedOnce, Wanted, Activating, LiveActive
      <4>2. QED
        BY <3>1, <4>1, NoneIsFresh
    <3>3. QED
      BY <2>2, <3>1, <3>2 DEF LiveActive
  <2>5. CASE task[x].pc \in {"rpc_stop", "notify"}
    BY <2>1, <2>2, <2>5 DEF IInv, OneFinisher, Stopping
  <2>6. QED
    BY <2>1, <2>3, <2>4, <2>5
<1>2. \A t \in Token : obj'[t].key = None => told'[t] = "nothing"
  BY <1>1 DEF ClientFrame, ToldInOrder
<1>3. \A t \in Token : Live(t)' /\ ~obj'[t].active => told'[t] = "nothing"
  <2> SUFFICES ASSUME NEW t \in Token, Live(t)', ~obj'[t].active PROVE told'[t] = "nothing"
    OBVIOUS
  <2>1. ~obj[t].active /\ (Live(t) \/ obj[t].key = None)
    BY DEF ClientFrame, Unmade
  <2>2. told[t] = "nothing"
    BY <2>1 DEF ToldInOrder
  <2>3. QED
    BY <1>1, <2>1, <2>2
<1>4. \A y \in Task, t \in Token :
        task'[y].pc = "rpc_begin" /\ task'[y].sess = t /\ Live(t)' => told'[t] = "nothing"
  <2> SUFFICES ASSUME NEW y \in Task, NEW t \in Token,
                      task'[y].pc = "rpc_begin", task'[y].sess = t, Live(t)'
               PROVE  told'[t] = "nothing"
    OBVIOUS
  <2>1. CASE task'[y] = task[y]
    <3>1. obj[t].key # None
      BY <2>1, SessionOfTask DEF Activating
    <3>2. Live(t)
      BY <3>1, GoneForGood
    <3>3. told[t] = "nothing"
      BY <2>1, <3>2 DEF ToldInOrder
    <3>4. CASE told'[t] = told[t]
      BY <3>3, <3>4
    <3>5. CASE told'[t] # told[t]
      <4>1. y = x
        BY <1>1, <2>1, <3>2, <3>5
      <4>2. task'[x].pc # "rpc_begin"
        BY <3>5 DEF ClientFrame
      <4>3. QED
        BY <4>1, <4>2
    <3>6. QED
      BY <3>4, <3>5
  <2>2. CASE task'[y] # task[y]
    <3>1. y = x /\ Enters(x)
      BY <2>2 DEF ClientFrame, Idle
    <3>2. Live(t) /\ ~obj[t].active /\ told' = told
      BY <3>1 DEF Enters
    <3>3. QED
      BY <3>2 DEF ToldInOrder
  <2>3. QED
    BY <2>1, <2>2
<1>5. \A y \in Task, t \in Token :
        task'[y].pc \in Activating \union {"rpc_stop"} /\ task'[y].sess = t => obj'[t].active
  <2> SUFFICES ASSUME NEW y \in Task, NEW t \in Token,
                      task'[y].pc \in Activating \union {"rpc_stop"}, task'[y].sess = t
               PROVE  obj'[t].active
    OBVIOUS
  <2>1. CASE task'[y] = task[y]
    BY <2>1 DEF ToldInOrder, ClientFrame
  <2>2. CASE task'[y] # task[y]
    <3>1. y = x /\ Enters(x)
      BY <2>2 DEF ClientFrame, Idle, Activating
    <3>2. obj'[t].active \/ obj[t].active
      BY <3>1 DEF Enters, ToldInOrder, Activating
    <3>3. QED
      BY <3>2 DEF ClientFrame
  <2>3. QED
    BY <2>1, <2>2
<1>6. \A y \in Task, t \in Token : task'[y].pc = "rpc_late" /\ task'[y].sess = t => ~Live(t)'
  <2> SUFFICES ASSUME NEW y \in Task, NEW t \in Token,
                      task'[y].pc = "rpc_late", task'[y].sess = t
               PROVE  ~Live(t) /\ obj[t].key # None
    BY GoneForGood
  <2>1. CASE task'[y] = task[y]
    BY <2>1, SessionOfTask DEF ToldInOrder, Activating
  <2>2. CASE task'[y] # task[y]
    <3>1. y = x /\ Enters(x)
      BY <2>2 DEF ClientFrame, Idle
    <3>2. ~Live(t) /\ task[x].pc = "rpc_begin" /\ task[x].sess = t
      BY <3>1 DEF Enters
    <3>3. QED
      BY <3>2, SessionOfTask DEF Activating
  <2>3. QED
    BY <2>1, <2>2
<1>7. \A y \in Task : task'[y].pc \in Activating \union {"rpc_stop"} => task'[y].sess \in Token
  BY DEF IInv, TypeOK, TaskShape, TaskState, Stopping
<1>8. QED
  BY <1>2, <1>3, <1>4, <1>5, <1>6, <1>7 DEF ToldInOrder, Activating

\* What the client does to its RPCs.
LEMMA ClientRpcs ==
  ASSUME ClientMoves, NEW x \in Task
  PROVE  /\ UNCHANGED ttyVars
         /\ rpc'[x] = IF InRpc(x) /\ task'[x] = task[x] THEN rpc[x] ELSE NoRpc
         /\ ~Unsent(x)
BY DEF ClientMoves

LEMMA ClientKeepsRpcs ==
  ASSUME IInv, TTY!IInv, ServerKnows, RpcOK, OrphanIsGone, NEW x \in Task, ClientStep(x)
  PROVE  RpcOK' /\ OneUnsent' /\ OrphanIsGone'
<1>1. UNCHANGED ttyVars /\ UNCHANGED tty_conn
  BY DEF ClientStep, ClientMoves, ttyVars
<1>2. \A y \in Task : rpc'[y].conn # None \/ rpc'[y].out # "none" =>
        InRpc(y) /\ task'[y] = task[y] /\ rpc'[y] = rpc[y] /\ InRpc(y)'
  BY ClientRpcs DEF ClientStep, NoRpc, InRpc
<1>3. RpcOK'
  <2>1. rpc' \in [Task -> Rpc]
    BY DEF ClientStep, ClientMoves, RpcOK, NoRpc, Rpc
  <2>2. QED
    BY <1>1, <1>2, <2>1 DEF RpcOK
<1>4. OneUnsent'
  <2> SUFFICES ASSUME NEW y \in Task, Unsent(y)', y # x PROVE FALSE
    BY DEF OneUnsent
  <2>1. InRpc(y)' /\ rpc'[y] = NoRpc
    BY DEF Unsent
  <2>2. task'[y] = task[y]
    BY <2>1 DEF ClientStep, ClientFrame, InRpc, Idle, OpAt
  <2>3. InRpc(y) /\ rpc'[y] = rpc[y]
    BY <2>1, <2>2, ClientRpcs DEF ClientStep, InRpc
  <2>4. QED
    BY <2>1, <2>3, ClientRpcs DEF ClientStep, Unsent
<1>5. OrphanIsGone'
  <2> SUFFICES ASSUME bus # "exited", NEW c \in Conn, Orphan(c)', NEW t \in Token,
                      tty_conn[c].tok = t
               PROVE  ~Live(t)'
    <3>1. \A c \in Conn : tty_conn[c].open => tty_conn[c].tok \in Token
      BY TokenOfConn
    <3>2. bus' = bus
      BY DEF ClientStep, ClientFrame
    <3>3. QED
      BY <1>1, <3>1, <3>2 DEF OrphanIsGone, Orphan
  <2>1. /\ tty_conn[c].open /\ obj[t].active
        /\ \A y \in Task : rpc'[y].conn # c
    BY <1>1, TokenOfConn DEF Orphan
  <2>2. CASE Orphan(c)
    BY <2>1, <2>2, GoneForGood DEF OrphanIsGone, ClientStep
  <2>3. CASE ~Orphan(c)
    <3>1. PICK y \in Task : rpc[y].conn = c
      BY <2>1, <2>3 DEF Orphan
    <3>2. c # None
      BY NoneIsNoConnection
    <3>3. task'[y] # task[y] /\ task[y].sess = t
      BY <2>1, <3>1, <3>2, ClientRpcs DEF RpcOK, ClientStep
    <3>4. y # x
      BY <3>1, <3>2, <3>3 DEF ClientStep
    <3>5. QED
      BY <3>3, <3>4 DEF ClientStep, ClientFrame
  <2>4. QED
    BY <2>2, <2>3
<1>6. QED
  BY <1>3, <1>4, <1>5

LEMMA ClientKeepsTurns ==
  ASSUME IInv, IInv', TTY!IInv, ServerKnows, RpcOK, BeginInTurn, BegunIsKnown, NothingWentWrong,
         faults \in Nat, bus = "up", StopsOnlyTheFinished, NEW x \in Task, ClientStep(x)
  PROVE  /\ ServerKnows' /\ StopsOnlyTheFinished'
         /\ BeginInTurn' /\ BegunIsKnown' /\ NothingWentWrong'
<1>1. UNCHANGED <<tty_conn, tty_client, tty_server, tty_stale, tty_sessions, bus>>
  BY DEF ClientStep, ClientMoves, ttyVars, ClientFrame
<1>2. ServerKnows'
  BY <1>1 DEF ServerKnows, ClientStep, ClientFrame
<1>3. StopsOnlyTheFinished'
  <2> SUFFICES ASSUME NEW c \in Conn, tty_conn[c].pc = "read", tty_conn[c].op = "stop",
                      NEW t \in Token, tty_conn[c].tok = t
               PROVE  ~Live(t)'
    BY <1>1, TokenOfConn DEF StopsOnlyTheFinished
  <2>1. ~Live(t) /\ obj[t].active
    BY TokenOfConn DEF StopsOnlyTheFinished
  <2>2. QED
    BY <2>1, GoneForGood DEF ClientStep
<1>4. ASSUME NEW y \in Task, task'[y].pc = "rpc_begin", NEW t \in Token, task'[y].sess = t
      PROVE  /\ Unsent(y)' => tty_client[t] = "new"
             /\ rpc'[y].conn # None /\ Live(t)' => tty_client[t] = "asked"
             /\ rpc'[y].out = "ok" /\ Live(t)' =>
                  tty_client[t] = "begun" /\ Live(t) /\ BeginSucceeded(t)
  <2>1. CASE task'[y] = task[y]
    <3>1. rpc'[y] = rpc[y] /\ ~Unsent(y) /\ ~Unsent(y)'
      BY <1>4, <2>1, ClientRpcs DEF InRpc, OpAt, ClientStep, Unsent
    <3>2. Live(t)' => Live(t)
      BY <1>4, <2>1, GoneForGood, SessionOfTask DEF Activating, ClientStep
    <3>3. QED
      BY <1>4, <2>1, <3>1, <3>2 DEF BeginInTurn, BeginSucceeded
  <2>2. CASE task'[y] # task[y]
    <3>1. y = x /\ Enters(x) /\ rpc'[y] = NoRpc
      BY <1>4, <2>2, ClientRpcs DEF ClientStep, ClientFrame, Idle
    <3>2. ~obj[t].active
      BY <1>4, <3>1 DEF Enters
    <3>3. QED
      BY <3>1, <3>2 DEF ServerKnows, NoRpc
  <2>3. QED
    BY <2>1, <2>2
<1>5. \A y \in Task : task'[y].pc = "rpc_begin" => task'[y].sess \in Token
  BY DEF IInv, TypeOK, TaskShape, TaskState, Activating
<1>6. BeginInTurn'
  BY <1>1, <1>4, <1>5 DEF BeginInTurn
<1>7. ASSUME NEW t \in Token, Live(t)', HasBegun(t)'
      PROVE  Live(t) /\ tty_client[t] = "begun" /\ (HasBegun(t) \/ BeginSucceeded(t))
  <2>1. Live(t) /\ (HasBegun(t) \/ (BeginReturns(x) /\ task[x].sess = t))
    BY <1>7 DEF ClientStep, ClientFrame
  <2>2. CASE HasBegun(t)
    BY <1>1, <2>1, <2>2 DEF BegunIsKnown
  <2>3. CASE BeginReturns(x) /\ task[x].sess = t
    <3>1. task[x].pc = "rpc_begin" /\ rpc[x].out = "ok"
      BY <2>3 DEF BeginReturns, At, ClientStep
    <3>2. QED
      BY <2>1, <2>3, <3>1 DEF BeginInTurn, BeginSucceeded
  <2>4. QED
    BY <2>1, <2>2, <2>3
<1>8. BegunIsKnown'
  BY <1>1, <1>7 DEF BegunIsKnown
<1>9. NothingWentWrong'
  <2> SUFFICES ASSUME faults' = 0 PROVE faults = 0 /\
                 \A t \in Token : Live(t)' /\ (HasBegun(t)' \/ BeginSucceeded(t)') =>
                   Live(t) /\ (HasBegun(t) \/ BeginSucceeded(t))
    BY <1>1 DEF NothingWentWrong
  <2>1. faults = 0
    BY DEF ClientStep, Fault
  <2>2. \A t \in Token : Live(t)' /\ BeginSucceeded(t)' => Live(t) /\ BeginSucceeded(t)
    BY <1>4 DEF BeginSucceeded
  <2>3. QED
    BY <1>7, <2>1, <2>2
<1>10. QED
  BY <1>2, <1>3, <1>6, <1>8, <1>9

\* The assumptions of PrompterServer, for this instance.
LEMMA ServerAssumptions ==
  /\ None \notin Conn /\ FALSE \in BOOLEAN
  /\ Form \subseteq {"password", "new", "confirm"} /\ Choice \subseteq BOOLEAN
BY NoneIsNoConnection, FormIsOfTheServer, ChoiceIsOfTheServer

LEMMA ServerStutters ==
  ASSUME TTY!IInv, UNCHANGED ttyVars
  PROVE  TTY!IInv'
BY ServerAssumptions, TTY!StutterInv DEF ttyVars, TTY!vars

LEMMA ClientStepInv ==
  ASSUME BridgeInv, bus = "up", Next \/ UNCHANGED vars, NEW x \in Task, ClientStep(x)
  PROVE  BridgeInv'
<1>1. IInv
  BY DEF BridgeInv, ClientInv
<1>2. IInv'
  BY <1>1, NextIInv
<1>3. bus' = bus
  BY DEF ClientStep, ClientFrame
<1>4. ClientInv' /\ faults' \in Nat
  <2>1. bus = "up" /\ task[Main].pc = "serving"
    BY DEF BridgeInv, ClientInv
  <2>2. task'[Main].pc = "serving"
    <3>1. CASE x = Main
      BY <2>1, <3>1 DEF ClientStep
    <3>2. CASE x # Main
      BY <2>1, <3>2, MainIsATask DEF ClientStep, ClientFrame, Prompting
    <3>3. QED
      BY <3>1, <3>2
  <2>3. QED
    BY <1>2, <1>3, <2>1, <2>2 DEF ClientInv, BridgeInv, ClientStep, Fault
<1>5. ToldInOrder'
  BY <1>1, <1>2, ClientKeepsTold DEF BridgeInv, ClientStep
<1>6. TTY!IInv'
  BY ServerStutters DEF BridgeInv, ClientStep, ClientMoves
<1>7. RpcOK' /\ OneUnsent' /\ OrphanIsGone'
  BY <1>1, ClientKeepsRpcs DEF BridgeInv
<1>8. ServerKnows' /\ StopsOnlyTheFinished' /\ BeginInTurn' /\ BegunIsKnown' /\ NothingWentWrong'
  BY <1>1, <1>2, ClientKeepsTurns DEF BridgeInv
<1>9. QED
  BY <1>4, <1>5, <1>6, <1>7, <1>8 DEF BridgeInv

\* Nothing of a client that is gone runs, and amain waits.
LEMMA RunsWhileUp ==
  ASSUME ClientInv, NEW x \in Task, Runs(x) \/ CallbackEnds(x) \/ PromptEnds(x)
  PROVE  bus = "up" /\ IInv /\ task[Main].pc = "serving" /\ task[x].pc # "serving"
<1>1. ~Exit /\ (task[Main].pc = "serving" \/ \A y \in Task : task[y].pc = "idle")
  BY MainIsATask DEF ClientInv, Idle, Exit, At
<1>2. task[x].pc \notin {"idle", "serving"}
  BY <1>1 DEF Runs, CallbackEnds, PromptEnds, ActivateNext, ActivateNobody, ActivateFirst,
         BeginReturns, BeginReturnsLate, BeginFails, LateStopReturns, ReadyResumes, ReplyResumes,
         FinishNothing, FinishSession, Notify, StartSweep, SweepNext, CallbackAnswers,
         CallbackFails, DoneReturns, PromptReturns, PromptFails, At
<1>3. QED
  BY <1>2 DEF ClientInv, Idle

LEMMA RunsOnStep ==
  ASSUME BridgeInv, NEW x \in Task, RunsOn(x)
  PROVE  bus = "up" /\ IInv /\ Next /\ ClientStep(x)
<1>1. ~InRpc(x) /\ (Runs(x) \/ CallbackEnds(x)) /\ ClientMoves /\ UNCHANGED faults
  BY DEF RunsOn
<1>2. bus = "up" /\ IInv /\ task[Main].pc = "serving" /\ task[x].pc # "serving"
  BY <1>1, RunsWhileUp DEF BridgeInv
<1>3. ClientFrame(x)
  BY <1>1, <1>2, RunsFrame
<1>4. rpc[x].conn = None
  BY <1>1 DEF BridgeInv, RpcOK
<1>5. ~BeginReturns(x)
  BY <1>1 DEF BeginReturns, At, InRpc, OpAt
<1>6. ClientStep(x)
  BY <1>1, <1>2, <1>3, <1>4, <1>5 DEF ClientStep
<1>7. Next
  BY <1>1 DEF Next
<1>8. QED
  BY <1>2, <1>6, <1>7

LEMMA RpcReturnsStep ==
  ASSUME BridgeInv, NEW x \in Task, RpcReturns(x)
  PROVE  bus = "up" /\ IInv /\ Next /\ ClientStep(x)
<1>1. /\ \/ rpc[x].out = "ok"
         \/ rpc[x].out = "failed" /\ (BeginFails(x) \/ PromptFails(x))
         \/ rpc[x].out # "none" /\ (LateStopReturns(x) \/ Notify(x))
      /\ rpc[x].out # "none"
      /\ Runs(x) \/ PromptEnds(x)
      /\ ClientMoves /\ UNCHANGED faults
  BY DEF RpcReturns, Runs, PromptEnds
<1>2. bus = "up" /\ IInv /\ task[Main].pc = "serving" /\ task[x].pc # "serving"
  BY <1>1, RunsWhileUp DEF BridgeInv
<1>3. ClientFrame(x)
  BY <1>1, <1>2, RunsFrame
<1>4. rpc[x].conn = None
  BY <1>1 DEF BridgeInv, RpcOK
<1>5. BeginReturns(x) => rpc[x].out = "ok"
  <2> SUFFICES ASSUME BeginReturns(x), BeginFails(x) PROVE FALSE
    BY <1>1 DEF BeginReturns, PromptFails, LateStopReturns, Notify, At
  <2>1. task'[x].pc = "ready_sent"
    BY <1>2 DEF BeginReturns, SendCallback, Goto, IInv, TypeOK, TaskState
  <2>2. task'[x].pc = "finish"
    BY <1>2 DEF BeginFails, GiveUp, Call, Idle, IInv, TypeOK, TaskState
  <2>3. QED
    BY <2>1, <2>2
<1>6. ClientStep(x)
  BY <1>1, <1>2, <1>3, <1>4, <1>5 DEF ClientStep
<1>7. Next
  BY <1>1 DEF Next
<1>8. QED
  BY <1>2, <1>6, <1>7

LEMMA ClientHearsStep ==
  ASSUME BridgeInv, ClientHears
  PROVE  bus = "up" /\ IInv /\ Next /\ \E x \in Task : ClientStep(x)
<1>1. /\ Application
      /\ ClientMoves /\ (faults' = faults \/ Fault)
  BY DEF ClientHears, Application
<1>2. bus = "up"
  BY <1>1 DEF Application, Begin, BeginTwice, BeginAccepted, Perform, PerformNotBegun, PerformBusy,
              PerformInvalid, PerformAccepted, Stop, SenderVanishes, Dispatch
<1>3. IInv /\ ToldInOrder
  BY <1>2 DEF BridgeInv, ClientInv
<1>4. ASSUME NEW x \in Task, task[x].pc = "idle", ClientFrame(x)
      PROVE  ClientStep(x)
  <2>1. rpc[x].conn = None
    BY <1>4 DEF BridgeInv, RpcOK, InRpc, OpAt
  <2>2. ~BeginReturns(x)
    BY <1>4 DEF BeginReturns, At
  <2>3. QED
    BY <1>1, <1>4, <2>1, <2>2 DEF ClientStep
<1>5. ASSUME UNCHANGED vars PROVE ClientStep(Main)
  <2>1. ClientFrame(Main)
    BY <1>5, MainIsATask, StutterFrame
  <2>2. ~BeginReturns(Main)
    BY <1>3, <1>5, MainIsATask DEF vars, BeginReturns, SendCallback, Goto, At, IInv, TypeOK, TaskState
  <2>3. QED
    BY <1>1, <1>5, <2>1, <2>2 DEF ClientStep, vars
<1> DEFINE Acts == \E x \in Task : ClientStep(x)
<1>6. ASSUME NEW k \in Key, BeginAccepted(k) PROVE Acts
  BY <1>3, <1>4, <1>6, BeginAcceptedFrame
<1>7. ASSUME NEW k \in Key, PerformAccepted(k) PROVE Acts
  BY <1>3, <1>4, <1>7, PerformAcceptedFrame
<1>8. ASSUME (\E k \in Key : Stop(k)) \/ (\E s \in Sender : SenderVanishes(s)) PROVE Acts
  BY <1>3, <1>4, <1>8, CreatingSteps
<1>9. UNCHANGED vars => Acts
  BY <1>5, MainIsATask
<1> HIDE DEF Acts
<1>10. Acts
  BY <1>1, <1>6, <1>7, <1>8, <1>9
     DEF Application, Begin, BeginTwice, Perform, PerformNotBegun, PerformBusy, PerformInvalid,
         Refuse
<1>11. QED
  BY <1>1, <1>2, <1>3, <1>10 DEF Next, Acts

\* Whenever the client acts, one task of it does, as SystemPrompter has it.
LEMMA ClientActs ==
  ASSUME BridgeInv, (\E x \in Task : RunsOn(x) \/ RpcReturns(x)) \/ ClientHears
  PROVE  bus = "up" /\ IInv /\ Next /\ \E x \in Task : ClientStep(x)
BY RunsOnStep, RpcReturnsStep, ClientHearsStep

LEMMA ClientActsInv ==
  ASSUME BridgeInv, (\E x \in Task : RunsOn(x) \/ RpcReturns(x)) \/ ClientHears
  PROVE  BridgeInv'
BY ClientActs, ClientStepInv

\* The client is gone, and the kernel closes its connections.
LEMMA ClientDiesInv ==
  ASSUME BridgeInv, ClientDies
  PROVE  BridgeInv'
<1>1. /\ bus' = "exited" /\ task' = [x \in Task |-> Idle] /\ running' = None
      /\ UNCHANGED <<sessions, waiting, active_key, obj, alive, told, late>>
      /\ UNCHANGED ttyVars /\ faults' = faults + 1
  BY DEF ClientDies, Killed, ClientMoves, Fault, Await
<1>2. \A x \in Task : task'[x] = Idle /\ rpc'[x] = NoRpc
  <2>1. \A x \in Task : ~InRpc(x) \/ task[x] # Idle
    BY DEF InRpc, OpAt, Idle
  <2>2. QED
    BY <1>1, <2>1 DEF ClientDies, ClientMoves
<1>3. Idle.pc = "idle" /\ ~("idle" \in DOMAIN OpAt)
  BY DEF Idle, OpAt
<1>4. faults \in Nat /\ faults' \in Nat /\ faults' # 0
  BY <1>1 DEF BridgeInv
<1>5. TypeOK'
  BY <1>1, IdleType DEF TypeOK, BridgeInv, ClientInv, IInv
<1>6. ClientInv'
  BY <1>1, <1>2, <1>5 DEF ClientInv
<1>7. \A t \in Token : Live(t)' = Live(t)
  BY <1>1 DEF Live
<1>8. ToldInOrder'
  BY <1>1, <1>2, <1>3, <1>7 DEF BridgeInv, ToldInOrder, Activating
<1>9. TTY!IInv'
  BY <1>1, ServerStutters DEF BridgeInv
<1>10. RpcOK'
  BY <1>1, <1>2 DEF ClientDies, ClientMoves, RpcOK, BridgeInv, NoRpc, Rpc
<1>11. OneUnsent' /\ BeginInTurn'
  BY <1>2, <1>3 DEF OneUnsent, Unsent, InRpc, BeginInTurn
<1>12. ServerKnows' /\ StopsOnlyTheFinished'
  <2>1. ServerKnows'
    BY <1>1 DEF ServerKnows, BridgeInv, ttyVars
  <2>2. \A c \in Conn : tty_conn[c].pc = "read" => tty_conn[c].tok \in Token
    BY TokenOfConn DEF BridgeInv
  <2>3. StopsOnlyTheFinished'
    BY <1>1, <1>7, <2>2 DEF StopsOnlyTheFinished, BridgeInv, ttyVars
  <2>4. QED
    BY <2>1, <2>3
<1>13. OrphanIsGone' /\ BegunIsKnown' /\ NothingWentWrong'
  BY <1>1, <1>4 DEF OrphanIsGone, BegunIsKnown, NothingWentWrong
<1>14. QED
  BY <1>4, <1>6, <1>8, <1>9, <1>10, <1>11, <1>12, <1>13 DEF BridgeInv

-------------------------------------------------------------------------------
(***************************************************************************)
(* Between the two: requests, replies, and connections that end.  The      *)
(* client's own state does not change.                                     *)
(***************************************************************************)
LEMMA ClientRests ==
  ASSUME BridgeInv, UNCHANGED vars
  PROVE  /\ ClientInv' /\ ToldInOrder' /\ bus' = bus /\ task' = task
         /\ \A t \in Token : Live(t)' = Live(t) /\ HasBegun(t)' = HasBegun(t)
         /\ \A x \in Task : InRpc(x)' = InRpc(x)
<1>1. \A t \in Token : Live(t)' = Live(t) /\ HasBegun(t)' = HasBegun(t)
  BY DEF vars, Live, HasBegun
<1>2. ClientInv'
  <2>1. IInv => IInv'
    BY NextIInv
  <2>2. TypeOK => TypeOK'
    BY DEF vars, TypeOK
  <2>3. QED
    BY <2>1, <2>2 DEF BridgeInv, ClientInv, vars
<1>3. ToldInOrder'
  <2>1. \A x \in Task : Live(task[x].sess)' = Live(task[x].sess)
    BY DEF vars, Live
  <2>2. QED
    BY <1>1, <2>1 DEF vars, BridgeInv, ToldInOrder
<1>4. QED
  BY <1>1, <1>2, <1>3 DEF vars, InRpc

\* A task is in an RPC only while the client is there, and for a session that was activated.
LEMMA CallerIsUp ==
  ASSUME BridgeInv, NEW x \in Task, InRpc(x)
  PROVE  /\ bus = "up" /\ IInv
         /\ task[x].pc \in {"rpc_begin", "rpc_late", "rpc_prompt", "rpc_stop"}
         /\ task[x].sess \in Token /\ obj[task[x].sess].active
         /\ OpAt[task[x].pc] = "stop" => ~Live(task[x].sess)
<1>1. task[x].pc \in {"rpc_begin", "rpc_late", "rpc_prompt", "rpc_stop"}
  BY DEF InRpc, OpAt
<1>2. bus = "up" /\ IInv
  BY <1>1 DEF BridgeInv, ClientInv, Idle
<1>3. task[x].sess \in Token
  BY <1>1, <1>2, SessionOfTask DEF Activating, Prompting, Stopping
<1>4. obj[task[x].sess].active
  <2>1. CASE task[x].pc = "rpc_prompt"
    BY <1>2, <2>1 DEF IInv, SinglePrompter, LiveActive, Prompting
  <2>2. CASE task[x].pc # "rpc_prompt"
    BY <1>1, <2>2 DEF BridgeInv, ToldInOrder, Activating
  <2>3. QED
    BY <2>1, <2>2
<1>5. OpAt[task[x].pc] = "stop" => ~Live(task[x].sess)
  <2>1. CASE task[x].pc = "rpc_late"
    BY <2>1 DEF BridgeInv, ToldInOrder
  <2>2. CASE task[x].pc = "rpc_stop"
    BY <1>2, <2>2 DEF IInv, OneFinisher, Stopping
  <2>3. QED
    BY <1>1, <2>1, <2>2 DEF OpAt
<1>6. QED
  BY <1>1, <1>2, <1>3, <1>4, <1>5

\* While "begin" is under way for a session, nothing else is, and it was told nothing.
LEMMA BeginUnderWay ==
  ASSUME IInv, ToldInOrder, NEW x \in Task, task[x].pc = "rpc_begin",
         NEW t \in Token, task[x].sess = t, Live(t)
  PROVE  /\ ~HasBegun(t)
         /\ \A y \in Task : task[y].pc = "rpc_begin" /\ task[y].sess = t => y = x
<1>1. /\ ~obj[t].ready /\ obj[t].prompt_task = None
      /\ \A y \in Task \ {x} : task[y].pc \in Wanted => task[y].sess # t
  BY DEF IInv, ActivatedOnce, Wanted, Activating
<1>2. told[t] = "nothing"
  BY DEF ToldInOrder
<1>3. \A y \in Task : task[y].pc \in Prompting => task[y].sess # t
  BY <1>1, NoneIsFresh DEF IInv, SinglePrompter
<1>4. \A y \in Task : task[y].pc \in {"ready_sent", "ready_answered"} => task[y].sess # t
  BY <1>1 DEF Wanted, Activating
<1>5. ~HasBegun(t)
  BY <1>1, <1>2, <1>3, <1>4 DEF HasBegun
<1>6. QED
  BY <1>1, <1>5 DEF Wanted, Activating

\* "begin" and "stop" have no prompt to describe.
LEMMA PlainRequest ==
  ASSUME NEW op \in {"begin", "stop"}, NEW t
  PROVE  [S!Request(op, t) EXCEPT !.form = None, !.choice = FALSE] = TTY!Request(op, t)
<1> DEFINE One == [pc : {"read"}, op : {op}, tok : {t}, form : {None}, choice : {FALSE},
                   open : {TRUE}]
<1>1. S!Request(op, t) \in One /\ TTY!Request(op, t) \in One
  BY DEF S!Request, S!Free, TTY!Request, TTY!Free
<1>2. [S!Request(op, t) EXCEPT !.form = None, !.choice = FALSE] \in One
  BY <1>1
<1>3. ASSUME NEW r \in One
      PROVE  r = [pc |-> "read", op |-> op, tok |-> t, form |-> None, choice |-> FALSE,
                  open |-> TRUE]
  OBVIOUS
<1>4. QED
  BY <1>1, <1>2, <1>3, Zenon

\* What the client sends is what the server's module lets its peer send.
LEMMA DialIsOfThePeer ==
  ASSUME BridgeInv, NEW x \in Task, Dial(x)
  PROVE  \E c \in Conn, t \in Token :
           /\ TTY!AskBegin(c, t) \/ TTY!AskPrompt(c, t) \/ TTY!AskStop(c, t)
           /\ t = task[x].sess /\ tty_conn[c].pc = "free"
           /\ tty_conn' = [tty_conn EXCEPT ![c] = tty_conn'[c]]
           /\ tty_conn'[c].open /\ tty_conn'[c].tok = t /\ tty_conn'[c].pc = "read"
           /\ tty_conn'[c].op = OpAt[task[x].pc]
           /\ rpc' = [rpc EXCEPT ![x].conn = c]
           /\ tty_client' = ClientDid(OpAt[task[x].pc], t)
           /\ UNCHANGED <<vars, faults, tty_sessions, tty_stale, tty_server>>
<1> DEFINE op == OpAt[task[x].pc]
<1>1. PICK c \in Conn, f \in Form, b \in Choice, t \in Token :
        /\ t = task[x].sess
        /\ S!Connect(c, [S!Request(op, t) EXCEPT
               !.form = IF op = "prompt" THEN f ELSE None, !.choice = op = "prompt" /\ b])
        /\ rpc' = [rpc EXCEPT ![x].conn = c]
        /\ tty_client' = ClientDid(op, t)
        /\ UNCHANGED <<vars, faults>>
        /\ Unsent(x)
  BY CallerIsUp DEF Dial, SentToken, Unsent
<1>2. /\ bus = "up" /\ IInv
      /\ task[x].pc \in {"rpc_begin", "rpc_late", "rpc_prompt", "rpc_stop"}
      /\ InRpc(x)
  BY <1>1, CallerIsUp DEF Unsent
<1> DEFINE req == [S!Request(op, t) EXCEPT
                     !.form = IF op = "prompt" THEN f ELSE None, !.choice = op = "prompt" /\ b]
<1>3. /\ req.pc = "read" /\ req.op = op /\ req.tok = t /\ req.open
      /\ req.form = (IF op = "prompt" THEN f ELSE None)
      /\ req.choice = (op = "prompt" /\ b)
  BY DEF S!Request, S!Free
<1>4. TTY!Connect(c, req)
  BY <1>1 DEF S!Connect, TTY!Connect, S!sessionVars, TTY!sessionVars, S!terminalVars,
              TTY!terminalVars
<1>5. b \in BOOLEAN
  BY ChoiceIsOfTheServer
<1>9. op # "prompt" => req = [S!Request(op, t) EXCEPT !.form = None, !.choice = FALSE]
  OBVIOUS
<1>6. CASE task[x].pc = "rpc_begin"
  <2>1. op = "begin"
    BY <1>6 DEF OpAt
  <2>2. tty_client[t] = "new"
    BY <1>1, <1>6 DEF BridgeInv, BeginInTurn
  <2>3. req = TTY!Request("begin", t)
    BY <1>9, <2>1, PlainRequest
  <2>4. TTY!AskBegin(c, t)
    BY <1>1, <1>4, <2>1, <2>2, <2>3 DEF TTY!AskBegin, ClientDid
  <2>5. QED
    BY <1>1, <1>3, <1>4, <2>4 DEF TTY!Connect, TTY!sessionVars, BridgeInv, TTY!IInv, TTY!TypeOK
<1>7. CASE task[x].pc = "rpc_prompt"
  <2>1. op = "prompt"
    BY <1>7 DEF OpAt
  <2>2. LiveActive(t) /\ obj[t].prompt_task = x
    BY <1>1, <1>2, <1>7 DEF IInv, SinglePrompter, Prompting
  <2>3. HasBegun(t)
    BY <1>1, <1>7 DEF HasBegun, Prompting
  <2>4. tty_client[t] = "begun"
    BY <1>2, <2>2, <2>3 DEF BridgeInv, BegunIsKnown, LiveActive
  <2>5. \A d \in Conn : tty_conn[d].op = "prompt" /\ tty_conn[d].tok = t => ~tty_conn[d].open
    <3> SUFFICES ASSUME NEW d \in Conn, tty_conn[d].op = "prompt", tty_conn[d].tok = t,
                        tty_conn[d].open
                 PROVE  FALSE
      OBVIOUS
    <3>1. ~Orphan(d)
      BY <1>2, <2>2 DEF BridgeInv, OrphanIsGone, LiveActive
    <3>2. PICK y \in Task : rpc[y].conn = d
      BY <3>1 DEF Orphan
    <3>3. InRpc(y) /\ OpAt[task[y].pc] = "prompt" /\ task[y].sess = t
      BY <3>2, NoneIsNoConnection DEF BridgeInv, RpcOK
    <3>4. task[y].pc = "rpc_prompt"
      BY <3>3 DEF InRpc, OpAt
    <3>5. y = x
      BY <1>2, <2>2, <3>3, <3>4 DEF IInv, SinglePrompter, Prompting
    <3>6. QED
      BY <1>1, <3>2, <3>5, NoneIsNoConnection DEF Unsent, NoRpc
  <2>6. req = [TTY!Request("prompt", t) EXCEPT !.form = f, !.choice = b]
    BY <1>5, <2>1 DEF S!Request, S!Free, TTY!Request, TTY!Free
  <2>7. TTY!AskPrompt(c, t)
    BY <1>1, <1>4, <2>1, <2>4, <2>5, <2>6 DEF TTY!AskPrompt, ClientDid
  <2>8. QED
    BY <1>1, <1>3, <1>4, <2>7 DEF TTY!Connect, TTY!sessionVars, BridgeInv, TTY!IInv, TTY!TypeOK
<1>8. CASE task[x].pc \in {"rpc_late", "rpc_stop"}
  <2>1. op = "stop"
    BY <1>8 DEF OpAt
  <2>2. req = TTY!Request("stop", t)
    BY <1>9, <2>1, PlainRequest
  <2>3. TTY!AskStop(c, t)
    BY <1>1, <1>4, <2>1, <2>2 DEF TTY!AskStop, ClientDid
  <2>4. QED
    BY <1>1, <1>3, <1>4, <2>3 DEF TTY!Connect, TTY!sessionVars, BridgeInv, TTY!IInv, TTY!TypeOK
<1>10. QED
  BY <1>2, <1>6, <1>7, <1>8

\* A request is sent.
LEMMA DialInv ==
  ASSUME BridgeInv, NEW x \in Task, Dial(x)
  PROVE  BridgeInv' /\ TTY!Next
<1> DEFINE p == task[x].pc
<1>1. PICK c \in Conn, t \in Token :
        /\ TTY!AskBegin(c, t) \/ TTY!AskPrompt(c, t) \/ TTY!AskStop(c, t)
        /\ t = task[x].sess /\ tty_conn[c].pc = "free"
        /\ tty_conn' = [tty_conn EXCEPT ![c] = tty_conn'[c]]
        /\ tty_conn'[c].open /\ tty_conn'[c].tok = t /\ tty_conn'[c].pc = "read"
        /\ tty_conn'[c].op = OpAt[p]
        /\ rpc' = [rpc EXCEPT ![x].conn = c]
        /\ tty_client' = ClientDid(OpAt[p], t)
        /\ UNCHANGED <<vars, faults, tty_sessions, tty_stale, tty_server>>
  BY DialIsOfThePeer
<1>2. TTY!Next
  BY <1>1 DEF TTY!Next, TTY!Peer
<1>3. TTY!IInv'
  BY <1>2, ServerAssumptions, TTY!NextInv DEF BridgeInv
<1>4. /\ ClientInv' /\ ToldInOrder' /\ bus' = bus /\ task' = task
      /\ \A u \in Token : Live(u)' = Live(u) /\ HasBegun(u)' = HasBegun(u)
      /\ \A y \in Task : InRpc(y)' = InRpc(y)
  BY <1>1, ClientRests
<1>5. Unsent(x) /\ InRpc(x) /\ rpc[x] = NoRpc
  BY DEF Dial, Unsent
<1>6. /\ bus = "up" /\ IInv /\ obj[t].active
      /\ p \in {"rpc_begin", "rpc_late", "rpc_prompt", "rpc_stop"}
      /\ OpAt[p] = "stop" => ~Live(t)
  BY <1>1, <1>5, CallerIsUp
<1>7. c # None /\ ~tty_conn[c].open /\ \A y \in Task : rpc[y].conn # c
  <2>1. c # None
    BY NoneIsNoConnection
  <2>2. ~tty_conn[c].open
    BY <1>1 DEF BridgeInv, TTY!IInv, TTY!HandlerShape, TTY!Free
  <2>3. QED
    BY <2>1, <2>2 DEF BridgeInv, RpcOK
<1>8. /\ rpc' \in [Task -> Rpc]
      /\ rpc'[x].conn = c /\ rpc'[x].out = "none"
      /\ \A y \in Task \ {x} : rpc'[y] = rpc[y]
  BY <1>1, <1>5 DEF BridgeInv, RpcOK, Rpc, NoRpc
<1>9. \A d \in Conn \ {c} : tty_conn'[d] = tty_conn[d]
  BY <1>1 DEF BridgeInv, TTY!IInv, TTY!TypeOK
<1>10. /\ \A u \in Token \ {t} : tty_client'[u] = tty_client[u]
       /\ p = "rpc_begin" => tty_client[t] = "new" /\ tty_client'[t] = "asked"
       /\ OpAt[p] = "stop" => tty_client'[t] = "stopped"
       /\ p = "rpc_prompt" => tty_client' = tty_client
       /\ tty_client'[t] # "new"
  <2>1. tty_client \in [Token -> {"new", "asked", "begun", "stopped"}]
    BY DEF BridgeInv, TTY!IInv, TTY!TypeOK
  <2>2. CASE p = "rpc_begin"
    <3>1. tty_client[t] = "new"
      BY <1>1, <1>5, <2>2 DEF BridgeInv, BeginInTurn
    <3>2. QED
      BY <1>1, <2>1, <2>2, <3>1 DEF ClientDid, OpAt
  <2>3. CASE p = "rpc_prompt"
    <3>1. LiveActive(t) /\ HasBegun(t)
      BY <1>1, <1>6, <2>3 DEF IInv, SinglePrompter, HasBegun, Prompting
    <3>2. tty_client[t] = "begun"
      BY <1>6, <3>1 DEF BridgeInv, BegunIsKnown, LiveActive
    <3>3. QED
      BY <1>1, <2>3, <3>2 DEF ClientDid, OpAt
  <2>4. CASE p \in {"rpc_late", "rpc_stop"}
    BY <1>1, <2>1, <2>4 DEF ClientDid, OpAt
  <2>5. QED
    BY <1>6, <2>2, <2>3, <2>4
<1> HIDE DEF p
<1>11. RpcOK'
  <2>1. \A y \in Task : rpc'[y].conn # None => InRpc(y)' /\ rpc'[y].out = "none"
    BY <1>4, <1>5, <1>8 DEF BridgeInv, RpcOK
  <2>2. \A y \in Task \ {x} : rpc'[y].conn # None => rpc'[y].conn \in Conn \ {c}
    BY <1>7, <1>8 DEF BridgeInv, RpcOK, Rpc
  <2>3. ASSUME NEW y \in Task, rpc'[y].conn # None
        PROVE  /\ tty_conn'[rpc'[y].conn].open /\ tty_conn'[rpc'[y].conn].tok = task[y].sess
               /\ tty_conn'[rpc'[y].conn].op = OpAt[task[y].pc]
               /\ \A z \in Task : rpc'[z].conn = rpc'[y].conn => z = y
    <3>1. CASE y = x
      BY <1>1, <1>7, <1>8, <3>1 DEF p
    <3>2. CASE y # x
      BY <1>7, <1>8, <1>9, <2>2, <2>3, <3>2 DEF BridgeInv, RpcOK
    <3>3. QED
      BY <3>1, <3>2
  <2>4. QED
    BY <1>4, <1>8, <2>1, <2>3 DEF RpcOK
<1>12. OneUnsent'
  BY <1>4, <1>7, <1>8 DEF BridgeInv, OneUnsent, Unsent, NoRpc
<1>13. ServerKnows'
  <2>1. \A d \in Conn : tty_conn[d].pc # "free" => tty_conn[d].tok \in Token
    BY TokenOfConn DEF BridgeInv
  <2>2. \A d \in Conn : tty_conn'[d].pc # "free" => tty_client'[tty_conn'[d].tok] # "new"
    BY <1>1, <1>9, <1>10, <2>1 DEF BridgeInv, ServerKnows
  <2>3. \A u \in Token : tty_client'[u] # "new" => obj'[u].active
    BY <1>1, <1>6, <1>10 DEF BridgeInv, ServerKnows, vars
  <2>4. QED
    BY <2>2, <2>3 DEF ServerKnows
<1>14. OrphanIsGone'
  <2>1. \A d \in Conn : Orphan(d)' => d # c /\ Orphan(d)
    BY <1>5, <1>7, <1>8, <1>9, NoneIsNoConnection DEF Orphan, NoRpc
  <2>2. \A d \in Conn \ {c} : tty_conn[d].open => tty_conn[d].tok \in Token
    BY TokenOfConn DEF BridgeInv
  <2>3. QED
    BY <1>4, <1>9, <2>1, <2>2 DEF BridgeInv, OrphanIsGone, Orphan
<1>15. StopsOnlyTheFinished'
  <2>1. \A d \in Conn \ {c} : tty_conn[d].pc = "read" => tty_conn[d].tok \in Token
    BY TokenOfConn DEF BridgeInv
  <2>2. QED
    BY <1>1, <1>4, <1>6, <1>9, <2>1 DEF BridgeInv, StopsOnlyTheFinished
<1>16. BeginInTurn'
  <2> SUFFICES ASSUME NEW y \in Task, task[y].pc = "rpc_begin", NEW u \in Token, task[y].sess = u
               PROVE  /\ Unsent(y)' => tty_client'[u] = "new"
                      /\ rpc'[y].conn # None /\ Live(u) => tty_client'[u] = "asked"
                      /\ rpc'[y].out = "ok" /\ Live(u) => tty_client'[u] = "begun"
    <3>1. \A y \in Task : task[y].pc = "rpc_begin" => task[y].sess \in Token
      BY <1>6, SessionOfTask DEF Activating
    <3>2. QED
      BY <1>4, <3>1 DEF BeginInTurn
  <2>1. CASE y = x
    BY <1>1, <1>7, <1>8, <1>10, <2>1 DEF p, Unsent, NoRpc
  <2>2. CASE y # x
    <3>1. ~Unsent(y)'
      BY <1>4, <1>5, <1>8, <2>2 DEF BridgeInv, OneUnsent, Unsent
    <3>2. CASE Live(u)
      <4>1. tty_client'[u] = tty_client[u]
        <5>1. CASE u = t
          <6>1. p # "rpc_begin"
            BY <1>1, <1>6, <2>2, <3>2, <5>1, BeginUnderWay DEF BridgeInv, p
          <6>2. QED
            BY <1>6, <1>10, <3>2, <5>1, <6>1 DEF OpAt
        <5>2. QED
          BY <1>10, <5>1
      <4>2. QED
        BY <1>8, <2>2, <3>1, <4>1 DEF BridgeInv, BeginInTurn
    <3>3. QED
      BY <3>1, <3>2
  <2>3. QED
    BY <2>1, <2>2
<1>17. BegunIsKnown'
  <2>1. ASSUME NEW u \in Token, Live(u), HasBegun(u) PROVE tty_client'[u] = "begun"
    <3>1. tty_client[u] = "begun"
      BY <1>6, <2>1 DEF BridgeInv, BegunIsKnown
    <3>2. QED
      BY <1>6, <1>10, <2>1, <3>1 DEF OpAt
  <2>2. QED
    BY <1>4, <2>1 DEF BegunIsKnown
<1>18. NothingWentWrong'
  <2>1. \A u \in Token : BeginSucceeded(u)' => BeginSucceeded(u)
    BY <1>4, <1>8 DEF BeginSucceeded
  <2>2. QED
    BY <1>1, <1>4, <2>1 DEF BridgeInv, NothingWentWrong
<1>19. QED
  BY <1>1, <1>2, <1>3, <1>4, <1>11, <1>12, <1>13, <1>14, <1>15, <1>16, <1>17, <1>18 DEF BridgeInv

-------------------------------------------------------------------------------
(***************************************************************************)
(* What else happens to connections and sessions of the server, as far as  *)
(* the client can tell.                                                    *)
(***************************************************************************)
\* The reply that x gets is true.
TrueReply(x) ==
  \A t \in Token : task[x].pc = "rpc_begin" /\ task[x].sess = t =>
    t \in tty_sessions' /\ (Live(t) => tty_client'[t] = "begun")

\* A connection ends, or it goes on with the same request and is not opened again.
ConnGoesOn(c) ==
  \/ tty_conn'[c].pc = "free" /\ ~tty_conn'[c].open
  \/ /\ tty_conn[c].pc # "free"
     /\ tty_conn'[c].tok = tty_conn[c].tok /\ tty_conn'[c].op = tty_conn[c].op
     /\ tty_conn'[c].open => tty_conn[c].open
     /\ tty_conn'[c].pc = "read" => tty_conn[c].pc = "read"

\* What the server was told of a session changes while nobody relies on it.
ClientGoesOn(t) ==
  \/ tty_client'[t] = tty_client[t]
  \/ /\ tty_client[t] # "new" /\ tty_client'[t] # "new"
     /\ bus # "exited" /\ Live(t) =>
          /\ ~HasBegun(t)
          /\ \A x \in Task : task[x].pc = "rpc_begin" /\ task[x].sess = t => rpc'[x] # rpc[x]

ServerFrame ==
  /\ UNCHANGED vars
  /\ rpc' \in [Task -> Rpc]
  /\ \A x \in Task : rpc'[x] # rpc[x] =>
       /\ InRpc(x)
       /\ rpc'[x] = Outcome("failed") \/ (rpc'[x] = Outcome("ok") /\ TrueReply(x))
  /\ \A c \in Conn : ConnGoesOn(c)
  /\ \A x \in Task : rpc[x].conn # None =>
       ((rpc'[x].conn # None) <=> tty_conn'[rpc[x].conn].open)
  /\ \A t \in Token : ClientGoesOn(t)
  /\ \/ Fault
     \/ /\ UNCHANGED <<faults, tty_server>> /\ tty_stale' \subseteq tty_stale
        /\ \A t \in Token : Live(t) /\ t \in tty_sessions => t \in tty_sessions'
     \/ faults' = faults /\ faults # 0

LEMMA ServerFrameInv ==
  ASSUME BridgeInv, TTY!IInv', ServerFrame
  PROVE  BridgeInv'
<1>1. /\ ClientInv' /\ ToldInOrder' /\ bus' = bus /\ task' = task /\ obj' = obj
      /\ \A u \in Token : Live(u)' = Live(u) /\ HasBegun(u)' = HasBegun(u)
      /\ \A y \in Task : InRpc(y)' = InRpc(y)
  BY ClientRests DEF ServerFrame, vars
<1>2. faults' \in Nat
  BY DEF BridgeInv, ServerFrame, Fault
<1>3. ASSUME NEW x \in Task, rpc'[x].conn # None
      PROVE  /\ rpc'[x] = rpc[x] /\ InRpc(x) /\ rpc[x].out = "none"
             /\ rpc[x].conn \in Conn
             /\ tty_conn'[rpc[x].conn].open /\ tty_conn'[rpc[x].conn].tok = task[x].sess
             /\ tty_conn'[rpc[x].conn].op = OpAt[task[x].pc]
             /\ \A y \in Task : rpc'[y].conn = rpc[x].conn => y = x
  <2>1. \A y \in Task : rpc'[y].conn # None => rpc'[y] = rpc[y]
    BY DEF ServerFrame, Outcome
  <2>2. rpc'[x] = rpc[x] /\ rpc[x].conn # None
    BY <1>3, <2>1
  <2>3. rpc[x].conn \in Conn
    BY <2>2 DEF BridgeInv, RpcOK, Rpc
  <2>4. tty_conn'[rpc[x].conn].open
    BY <1>3, <2>2 DEF ServerFrame
  <2>5. ConnGoesOn(rpc[x].conn)
    BY <2>3 DEF ServerFrame
  <2>6. QED
    BY <2>1, <2>2, <2>3, <2>4, <2>5 DEF ConnGoesOn, BridgeInv, RpcOK
<1>4. RpcOK'
  BY <1>1, <1>3 DEF RpcOK, ServerFrame
<1>5. \A x \in Task : Unsent(x)' => Unsent(x) /\ rpc'[x] = rpc[x]
  BY <1>1 DEF Unsent, ServerFrame, Outcome, NoRpc
<1>6. OneUnsent'
  BY <1>5 DEF BridgeInv, OneUnsent
<1>7. \A c \in Conn : tty_conn[c].pc # "free" => tty_conn[c].tok \in Token
  BY TokenOfConn DEF BridgeInv
<1>8. \A c \in Conn : tty_conn'[c].pc # "free" \/ tty_conn'[c].open =>
        /\ tty_conn[c].pc # "free" /\ tty_conn'[c].tok = tty_conn[c].tok
        /\ tty_conn'[c].op = tty_conn[c].op
        /\ tty_conn'[c].open => tty_conn[c].open
        /\ tty_conn'[c].pc = "read" => tty_conn[c].pc = "read"
  BY DEF ServerFrame, ConnGoesOn
<1>9. \A t \in Token : (tty_client'[t] = "new") <=> (tty_client[t] = "new")
  BY DEF ServerFrame, ClientGoesOn
<1>10. ServerKnows'
  BY <1>1, <1>7, <1>8, <1>9 DEF BridgeInv, ServerKnows
<1>11. OrphanIsGone'
  <2>1. \A c \in Conn : Orphan(c)' => Orphan(c)
    <3> SUFFICES ASSUME NEW c \in Conn, Orphan(c)', NEW x \in Task, rpc[x].conn = c PROVE FALSE
      BY <1>8 DEF Orphan
    <3>1. rpc'[x].conn # None
      BY NoneIsNoConnection DEF ServerFrame, Orphan
    <3>2. QED
      BY <1>3, <3>1 DEF Orphan
  <2>2. QED
    BY <1>1, <1>7, <1>8, <2>1 DEF BridgeInv, OrphanIsGone, Orphan
<1>12. StopsOnlyTheFinished'
  BY <1>1, <1>7, <1>8 DEF BridgeInv, StopsOnlyTheFinished
<1>13. BeginInTurn'
  <2> SUFFICES ASSUME NEW x \in Task, task[x].pc = "rpc_begin", NEW t \in Token, task[x].sess = t
               PROVE  /\ Unsent(x)' => tty_client'[t] = "new"
                      /\ rpc'[x].conn # None /\ Live(t) => tty_client'[t] = "asked"
                      /\ rpc'[x].out = "ok" /\ Live(t) => tty_client'[t] = "begun"
    <3>1. \A y \in Task : task[y].pc = "rpc_begin" => task[y].sess \in Token
      BY CallerIsUp DEF InRpc, OpAt
    <3>2. QED
      BY <1>1, <3>1 DEF BeginInTurn
  <2>1. Unsent(x)' => tty_client'[t] = "new"
    BY <1>5, <1>9 DEF BridgeInv, BeginInTurn
  <2>2. CASE Live(t) /\ rpc'[x] = rpc[x]
    <3>1. bus # "exited"
      BY CallerIsUp DEF InRpc, OpAt
    <3>2. tty_client'[t] = tty_client[t]
      BY <2>2, <3>1 DEF ServerFrame, ClientGoesOn
    <3>3. QED
      BY <2>1, <2>2, <3>2 DEF BridgeInv, BeginInTurn
  <2>3. CASE Live(t) /\ rpc'[x] # rpc[x]
    BY <2>1, <2>3 DEF ServerFrame, Outcome, TrueReply
  <2>4. QED
    BY <2>1, <2>2, <2>3
<1>14. BegunIsKnown'
  BY <1>1 DEF BridgeInv, BegunIsKnown, ServerFrame, ClientGoesOn
<1>15. NothingWentWrong'
  <2> SUFFICES ASSUME faults' = 0 PROVE NothingWentWrong'
    BY DEF NothingWentWrong
  <2>1. faults = 0 /\ ~Fault
    BY DEF ServerFrame, Fault, BridgeInv
  <2>2. /\ UNCHANGED tty_server /\ tty_stale' \subseteq tty_stale
        /\ \A t \in Token : Live(t) /\ t \in tty_sessions => t \in tty_sessions'
    BY <2>1 DEF ServerFrame
  <2>3. \A t \in Token : BeginSucceeded(t)' => BeginSucceeded(t) \/ t \in tty_sessions'
    <3> SUFFICES ASSUME NEW t \in Token, NEW x \in Task, task[x].pc = "rpc_begin",
                        task[x].sess = t, rpc'[x].out = "ok"
                 PROVE  BeginSucceeded(t) \/ t \in tty_sessions'
      BY <1>1 DEF BeginSucceeded
    <3>1. CASE rpc'[x] = rpc[x]
      BY <3>1 DEF BeginSucceeded
    <3>2. CASE rpc'[x] # rpc[x]
      BY <3>2 DEF ServerFrame, Outcome, TrueReply
    <3>3. QED
      BY <3>1, <3>2
  <2>4. QED
    BY <1>1, <2>1, <2>2, <2>3 DEF BridgeInv, NothingWentWrong
<1>16. QED
  BY <1>1, <1>2, <1>4, <1>6, <1>10, <1>11, <1>12, <1>13, <1>14, <1>15 DEF BridgeInv

-------------------------------------------------------------------------------
(***************************************************************************)
(* The steps of that kind.                                                 *)
(***************************************************************************)
\* Connections, replies and sessions stay as they are, or the latter only get fresher.
LEMMA NothingHeard ==
  ASSUME BridgeInv, UNCHANGED <<vars, rpc, tty_client>>,
         \A c \in Conn : \/ tty_conn'[c] = tty_conn[c]
                         \/ /\ tty_conn[c].pc # "free" /\ tty_conn'[c].pc # "read"
                            /\ tty_conn'[c].tok = tty_conn[c].tok
                            /\ tty_conn'[c].op = tty_conn[c].op
                            /\ tty_conn'[c].open = tty_conn[c].open,
         \/ Fault
         \/ /\ UNCHANGED <<faults, tty_server>> /\ tty_stale' \subseteq tty_stale
            /\ \A t \in Token : Live(t) /\ t \in tty_sessions => t \in tty_sessions'
         \/ faults' = faults /\ faults # 0
  PROVE  ServerFrame
<1>1. \A c \in Conn : ConnGoesOn(c)
  BY DEF ConnGoesOn, BridgeInv, TTY!IInv, TTY!HandlerShape, TTY!Free
<1>2. \A c \in Conn : tty_conn'[c].open = tty_conn[c].open
  OBVIOUS
<1>3. \A x \in Task : rpc[x].conn # None =>
        ((rpc'[x].conn # None) <=> tty_conn'[rpc[x].conn].open)
  BY <1>2 DEF BridgeInv, RpcOK, Rpc
<1>4. rpc' \in [Task -> Rpc]
  BY DEF BridgeInv, RpcOK
<1>5. \A t \in Token : ClientGoesOn(t)
  BY DEF ClientGoesOn
<1>6. QED
  BY <1>1, <1>3, <1>4, <1>5 DEF ServerFrame

\* The connection c ends, with a reply or without.
LEMMA ConnectionEnds ==
  ASSUME BridgeInv, NEW c \in Conn, NEW out \in {"ok", "failed"}, UNCHANGED <<vars, tty_server>>,
         tty_conn[c].pc # "free", tty_conn' = [tty_conn EXCEPT ![c] = TTY!Free],
         Replies(c, out),
         out = "ok" => \A x \in Task : rpc[x].conn = c => TrueReply(x),
         \A t \in Token : ClientGoesOn(t),
         tty_stale' \subseteq tty_stale,
         \A t \in Token : Live(t) /\ t \in tty_sessions => t \in tty_sessions',
         faults' = faults \/ Fault
  PROVE  ServerFrame
<1>1. c # None
  BY NoneIsNoConnection
<1>2. tty_conn'[c] = TTY!Free /\ \A d \in Conn \ {c} : tty_conn'[d] = tty_conn[d]
  BY DEF BridgeInv, TTY!IInv, TTY!TypeOK
<1>3. \A d \in Conn : ConnGoesOn(d)
  BY <1>2 DEF ConnGoesOn, BridgeInv, TTY!IInv, TTY!HandlerShape, TTY!Free
<1>4. rpc' \in [Task -> Rpc]
  BY DEF BridgeInv, RpcOK, Replies, Outcome, Rpc
<1>5. \A x \in Task : rpc'[x] = IF rpc[x].conn = c THEN Outcome(out) ELSE rpc[x]
  BY DEF Replies
<1>6. \A x \in Task : rpc[x].conn # None =>
        ((rpc'[x].conn # None) <=> tty_conn'[rpc[x].conn].open)
  BY <1>2, <1>5 DEF BridgeInv, RpcOK, Rpc, Outcome, TTY!Free
<1>7. \A x \in Task : rpc'[x] # rpc[x] =>
        /\ InRpc(x)
        /\ rpc'[x] = Outcome("failed") \/ (rpc'[x] = Outcome("ok") /\ TrueReply(x))
  BY <1>1, <1>5 DEF BridgeInv, RpcOK
<1>8. QED
  BY <1>3, <1>4, <1>6, <1>7 DEF ServerFrame

\* The replies of the handlers.
LEMMA ServerHandlesFrame ==
  ASSUME BridgeInv, NEW c \in Conn, ServerHandles(c)
  PROVE  ServerFrame
<1>1. UNCHANGED <<vars, faults>>
  BY DEF ServerHandles
<1>2. ASSUME NEW x \in Task, rpc[x].conn = c
      PROVE  /\ InRpc(x) /\ tty_conn[c].open /\ tty_conn[c].tok = task[x].sess
             /\ tty_conn[c].op = OpAt[task[x].pc] /\ rpc[x].conn # None
  BY <1>2, NoneIsNoConnection DEF BridgeInv, RpcOK
<1>3. CASE S!BeginServed(c) /\ Replies(c, "ok")
  <2>1. PICK t \in Token : t = tty_conn[c].tok /\ tty_conn[c].pc # "free"
    BY <1>3, TokenOfConn DEF BridgeInv, S!BeginServed, S!Reads
  <2>2. /\ tty_conn' = [tty_conn EXCEPT ![c] = TTY!Free] /\ tty_conn[c].op = "begin"
        /\ tty_sessions' = tty_sessions \union {t} /\ tty_stale' = tty_stale \ {t}
        /\ UNCHANGED tty_server
        /\ tty_client' = IF tty_conn[c].open /\ tty_client[t] = "asked"
                         THEN [tty_client EXCEPT ![t] = "begun"] ELSE tty_client
    BY <1>3, <2>1 DEF S!BeginServed, S!Reads, S!Closed, S!Free, TTY!Free
  <2>3. tty_client \in [Token -> {"new", "asked", "begun", "stopped"}]
    BY DEF BridgeInv, TTY!IInv, TTY!TypeOK
  <2>4. ASSUME NEW x \in Task, rpc[x].conn = c
        PROVE  TrueReply(x)
    <3>1. /\ tty_conn[c].open /\ rpc[x].conn # None /\ task[x].sess = t
      BY <1>2, <2>1, <2>4
    <3>2. task[x].pc = "rpc_begin" /\ Live(t) => tty_client[t] = "asked"
      BY <3>1 DEF BridgeInv, BeginInTurn
    <3>3. QED
      BY <2>2, <2>3, <3>1, <3>2 DEF TrueReply
  <2>5. ASSUME NEW u \in Token PROVE ClientGoesOn(u)
    <3>1. CASE tty_client'[u] = tty_client[u]
      BY <3>1 DEF ClientGoesOn
    <3>2. CASE tty_client'[u] # tty_client[u]
      <4>1. /\ u = t /\ tty_conn[c].open
            /\ tty_client[t] = "asked" /\ tty_client'[t] = "begun"
        BY <2>2, <2>3, <3>2
      <4>2. ASSUME bus # "exited", Live(t)
            PROVE  /\ ~HasBegun(t)
                   /\ \A y \in Task :
                        task[y].pc = "rpc_begin" /\ task[y].sess = t => rpc'[y] # rpc[y]
        <5>1. PICK x \in Task : rpc[x].conn = c
          BY <2>1, <4>1, <4>2 DEF BridgeInv, OrphanIsGone, Orphan
        <5>2. task[x].pc = "rpc_begin" /\ task[x].sess = t
          BY <1>2, <2>1, <2>2, <5>1 DEF InRpc, OpAt
        <5>3. IInv /\ ToldInOrder
          BY <5>2, CallerIsUp DEF InRpc, OpAt, BridgeInv
        <5>4. rpc'[x] # rpc[x]
          BY <1>2, <1>3, <5>1 DEF Replies, Outcome
        <5>5. QED
          BY <4>2, <5>2, <5>3, <5>4, BeginUnderWay
      <4>3. QED
        BY <4>1, <4>2 DEF ClientGoesOn
    <3>3. QED
      BY <3>1, <3>2
  <2>6. QED
    BY <1>1, <1>3, <2>1, <2>2, <2>4, <2>5, ConnectionEnds
<1>4. CASE S!StopServed(c) /\ Replies(c, "ok")
  <2>1. PICK t \in Token : t = tty_conn[c].tok /\ tty_conn[c].pc = "read"
    BY <1>4, TokenOfConn DEF BridgeInv, S!StopServed, S!Reads
  <2>2. /\ tty_conn' = [tty_conn EXCEPT ![c] = TTY!Free] /\ tty_conn[c].op = "stop"
        /\ tty_sessions' = tty_sessions \ {t} /\ tty_stale' = tty_stale \ {t}
        /\ UNCHANGED <<tty_server, tty_client>>
    BY <1>4, <2>1 DEF S!StopServed, S!Reads, S!Closed, S!Free, TTY!Free
  <2>3. ~Live(t)
    BY <2>1, <2>2 DEF BridgeInv, StopsOnlyTheFinished
  <2>4. \A x \in Task : rpc[x].conn = c => TrueReply(x)
    BY <1>2, <2>2 DEF TrueReply, OpAt
  <2>5. \A u \in Token : ClientGoesOn(u)
    BY <2>2 DEF ClientGoesOn
  <2>6. QED
    BY <1>1, <1>4, <2>1, <2>2, <2>3, <2>4, <2>5, ConnectionEnds
<1>5. ASSUME NEW out \in {"ok", "failed"}, Replies(c, out),
             S!AnswerSent(c) \/ S!AnswerLost(c) \/ S!Withdrawn(c)
      PROVE  ServerFrame
  <2>1. /\ tty_conn' = [tty_conn EXCEPT ![c] = TTY!Free]
        /\ tty_conn[c].pc \in {"settle", "cancelling"}
        /\ tty_sessions' = tty_sessions /\ tty_stale' \subseteq tty_stale
        /\ UNCHANGED <<tty_server, tty_client>>
    BY <1>5 DEF S!AnswerSent, S!Settles, S!AnswerLost, S!Withdrawn, S!PromptClosed, S!Closed, S!Free, TTY!Free
  <2>2. tty_conn[c].op = "prompt"
    BY <2>1 DEF BridgeInv, TTY!IInv, TTY!HandlerShape, TTY!AtWork
  <2>3. \A x \in Task : rpc[x].conn = c => TrueReply(x)
    BY <1>2, <2>2 DEF TrueReply, OpAt
  <2>4. \A u \in Token : ClientGoesOn(u)
    BY <2>1 DEF ClientGoesOn
  <2>5. QED
    BY <1>1, <1>5, <2>1, <2>3, <2>4, ConnectionEnds
<1>6. CASE (S!PromptStarts(c) \/ S!PeerLost(c) \/ S!PromptDone(c)) /\ UNCHANGED rpc
  <2>1. /\ \E p \in {"wait", "cancelling", "settle"} : tty_conn' = [tty_conn EXCEPT ![c].pc = p]
        /\ tty_conn[c].pc # "free"
        /\ tty_sessions' = tty_sessions /\ tty_stale' \subseteq tty_stale
        /\ UNCHANGED <<tty_server, tty_client>>
    BY <1>6 DEF S!PromptStarts, S!PeerLost, S!PromptDone, S!Reads, S!sessionVars
  <2>2. tty_conn \in [Conn -> TTY!Handler]
    BY DEF BridgeInv, TTY!IInv, TTY!TypeOK
  <2>3. \A d \in Conn : \/ tty_conn'[d] = tty_conn[d]
                         \/ /\ tty_conn[d].pc # "free" /\ tty_conn'[d].pc # "read"
                            /\ tty_conn'[d].tok = tty_conn[d].tok
                            /\ tty_conn'[d].op = tty_conn[d].op
                            /\ tty_conn'[d].open = tty_conn[d].open
    BY <2>1, <2>2 DEF TTY!Handler
  <2>4. QED
    BY <1>1, <1>6, <2>1, <2>3, NothingHeard
<1>7. QED
  BY <1>3, <1>4, <1>5, <1>6 DEF ServerHandles

LEMMA ServerRefusesFrame ==
  ASSUME BridgeInv, NEW c \in Conn, ServerRefuses(c)
  PROVE  ServerFrame
<1>1. /\ tty_conn' = [tty_conn EXCEPT ![c] = TTY!Free] /\ tty_conn[c].pc # "free"
      /\ UNCHANGED <<vars, tty_sessions, tty_stale, tty_server, tty_client>>
      /\ Replies(c, "failed")
      /\ faults' = faults \/ Fault
  BY DEF ServerRefuses, S!BeginRefused, S!PromptRefused, S!SendFails, S!Settles, S!PromptClosed,
         S!Reads, S!Closed, S!Free, TTY!Free, S!sessionVars
<1>2. \A u \in Token : ClientGoesOn(u)
  BY <1>1 DEF ClientGoesOn
<1>3. QED
  BY <1>1, <1>2, ConnectionEnds

\* The terminal, its user and time are nothing to the client.
LEMMA TerminalFrame ==
  ASSUME BridgeInv, NEW c \in Conn, ServerRuns(c) \/ UserActs(c)
  PROVE  ServerFrame
<1>1. UNCHANGED <<vars, rpc, faults, tty_client, tty_conn, tty_server, tty_sessions, tty_stale>>
  BY DEF ServerRuns, UserActs, S!UiRuns, S!User, S!UiStarts, S!UiGetsLock, S!UiCancelled,
         S!UserAnswers, S!UserCancels, S!sessionVars
<1>2. QED
  BY <1>1, NothingHeard

LEMMA TimeFrame ==
  ASSUME BridgeInv, (\E t \in Token : TimePasses(t)) \/ ServerReaps \/ ServerInterrupt
  PROVE  ServerFrame
<1>1. /\ UNCHANGED <<vars, rpc, tty_client, tty_conn>>
      /\ Fault \/ (ServerReaps /\ faults' = faults)
  BY DEF TimePasses, ServerReaps, ServerInterrupt, S!Ages, S!Reap, S!Interrupt
<1>2. ServerReaps => faults # 0
  BY DEF ServerReaps, S!Reap, S!Reapable, BridgeInv, NothingWentWrong
<1>3. QED
  BY <1>1, <1>2, NothingHeard

\* Every connection ends.
LEMMA AllEnd ==
  ASSUME BridgeInv, UNCHANGED <<vars, tty_client>>, tty_conn' = [c \in Conn |-> TTY!Free],
         rpc' \in [Task -> Rpc],
         \A x \in Task : rpc'[x] = IF rpc[x].conn # None THEN Outcome("failed") ELSE rpc[x],
         Fault \/ (faults' = faults /\ faults # 0)
  PROVE  ServerFrame
<1>1. \A c \in Conn : ConnGoesOn(c)
  BY DEF ConnGoesOn, TTY!Free
<1>2. \A x \in Task : rpc[x].conn # None =>
        /\ InRpc(x) /\ rpc'[x].conn = None /\ ~tty_conn'[rpc[x].conn].open
  BY DEF BridgeInv, RpcOK, Rpc, Outcome, TTY!Free
<1>3. \A u \in Token : ClientGoesOn(u)
  BY DEF ClientGoesOn
<1>4. QED
  BY <1>1, <1>2, <1>3 DEF ServerFrame

LEMMA ServerEndsFrame ==
  ASSUME BridgeInv, ServerExit \/ ServerDies \/ ServerRestarts
  PROVE  ServerFrame
<1>1. UNCHANGED <<vars, tty_client>> /\ tty_conn' = [c \in Conn |-> TTY!Free]
  BY DEF ServerExit, ServerDies, ServerRestarts, S!Exit, S!Killed, S!Forgotten, S!Free, TTY!Free
<1>2. Fault \/ (faults' = faults /\ faults # 0)
  BY DEF ServerExit, ServerDies, ServerRestarts, S!Exit, BridgeInv, NothingWentWrong
<1>3. ServerRestarts => UNCHANGED rpc /\ \A x \in Task : rpc[x].conn = None
  <2> SUFFICES ASSUME ServerRestarts, NEW x \in Task, rpc[x].conn # None PROVE FALSE
    BY DEF ServerRestarts
  <2>1. tty_conn[rpc[x].conn].open /\ rpc[x].conn \in Conn
    BY DEF BridgeInv, RpcOK, Rpc
  <2>2. QED
    BY <2>1 DEF ServerRestarts, BridgeInv, TTY!IInv, TTY!ExitedIsEmpty, TTY!Free
<1>4. \A x \in Task : rpc'[x] = IF rpc[x].conn # None THEN Outcome("failed") ELSE rpc[x]
  BY <1>3 DEF ServerExit, ServerDies, AllFail
<1>5. rpc' \in [Task -> Rpc]
  BY <1>3 DEF ServerExit, ServerDies, AllFail, BridgeInv, RpcOK, Rpc, Outcome
<1>6. QED
  BY <1>1, <1>2, <1>4, <1>5, AllEnd

\* "TTY server unavailable", which cannot be as long as nothing went wrong.
LEMMA DialFailsFrame ==
  ASSUME BridgeInv, NEW x \in Task, DialFails(x)
  PROVE  ServerFrame
<1>1. /\ Unsent(x) /\ UNCHANGED <<vars, tty_conn, tty_client>>
      /\ Fault \/ (faults' = faults /\ faults # 0)
      /\ rpc' = [rpc EXCEPT ![x] = Outcome("failed")]
  BY DEF DialFails, ttyVars, BridgeInv, NothingWentWrong
<1>2. rpc \in [Task -> Rpc]
  BY DEF BridgeInv, RpcOK
<1>3. /\ rpc' \in [Task -> Rpc] /\ rpc'[x] = Outcome("failed")
      /\ \A y \in Task \ {x} : rpc'[y] = rpc[y]
      /\ InRpc(x) /\ rpc[x].conn = None
  BY <1>1, <1>2 DEF Outcome, Rpc, Unsent, NoRpc
<1>4. \A c \in Conn : ConnGoesOn(c)
  BY <1>1 DEF ConnGoesOn, BridgeInv, TTY!IInv, TTY!HandlerShape, TTY!Free
<1>5. \A y \in Task : rpc[y].conn # None =>
        ((rpc'[y].conn # None) <=> tty_conn'[rpc[y].conn].open)
  BY <1>1, <1>3 DEF BridgeInv, RpcOK
<1>6. \A t \in Token : ClientGoesOn(t)
  BY <1>1 DEF ClientGoesOn
<1>7. QED
  BY <1>1, <1>3, <1>4, <1>5, <1>6 DEF ServerFrame

\* The client closes a connection: the server takes its session for finished.
LEMMA HangUpConn ==
  ASSUME BridgeInv, NEW c \in Conn, S!HangUp(c)
  PROVE  /\ tty_conn[c].open /\ tty_conn[c].pc # "free" /\ tty_conn[c].tok \in Token
         /\ ~tty_conn'[c].open
         /\ \A d \in Conn : ConnGoesOn(d)
         /\ \A d \in Conn \ {c} : tty_conn'[d].open = tty_conn[d].open
         /\ \A t \in Token : tty_client'[t] # tty_client[t] =>
              t = tty_conn[c].tok /\ tty_client[t] # "new" /\ tty_client'[t] # "new"
         /\ UNCHANGED <<tty_sessions, tty_stale, tty_server>>
<1>1. /\ tty_conn[c].open
      /\ tty_conn' = [tty_conn EXCEPT ![c].open = FALSE]
      /\ tty_client' = [tty_client EXCEPT ![tty_conn[c].tok] = "stopped"]
      /\ UNCHANGED <<tty_sessions, tty_stale, tty_server>>
  BY DEF S!HangUp, S!sessionVars
<1>2. tty_conn[c].pc # "free" /\ tty_conn[c].tok \in Token
  BY <1>1, TokenOfConn DEF BridgeInv
<1>3. /\ tty_conn \in [Conn -> TTY!Handler]
      /\ tty_client \in [Token -> {"new", "asked", "begun", "stopped"}]
  BY DEF BridgeInv, TTY!IInv, TTY!TypeOK
<1>4. \A d \in Conn : ConnGoesOn(d)
  BY <1>1, <1>2, <1>3 DEF TTY!Handler, ConnGoesOn, BridgeInv, TTY!IInv, TTY!HandlerShape, TTY!Free
<1>5. \A d \in Conn \ {c} : tty_conn'[d].open = tty_conn[d].open
  BY <1>1, <1>3
<1>6. ~tty_conn'[c].open
  BY <1>1, <1>3 DEF TTY!Handler
<1>7. tty_client[tty_conn[c].tok] # "new"
  BY <1>2 DEF BridgeInv, ServerKnows
<1>8. QED
  BY <1>1, <1>2, <1>3, <1>4, <1>5, <1>6, <1>7

LEMMA TimeoutFrame ==
  ASSUME BridgeInv, NEW x \in Task, Timeout(x)
  PROVE  ServerFrame
<1>1. PICK c \in Conn : rpc[x].conn = c /\ S!HangUp(c)
  BY DEF Timeout, BridgeInv, RpcOK, Rpc
<1>2. /\ HasTimeLimit(x) /\ Fault /\ UNCHANGED vars
      /\ rpc' = [rpc EXCEPT ![x] = Outcome("failed")]
      /\ rpc[x].conn # None
  BY DEF Timeout
<1>3. /\ rpc' \in [Task -> Rpc] /\ rpc'[x] = Outcome("failed") /\ rpc'[x] # rpc[x]
      /\ \A y \in Task \ {x} : rpc'[y] = rpc[y]
  BY <1>2 DEF Outcome, Rpc, BridgeInv, RpcOK
<1>4. /\ InRpc(x) /\ tty_conn[c].tok = task[x].sess
      /\ \A y \in Task : rpc[y].conn = c => y = x
  BY <1>1, <1>2 DEF BridgeInv, RpcOK
<1>5. \A y \in Task : rpc[y].conn # None =>
        ((rpc'[y].conn # None) <=> tty_conn'[rpc[y].conn].open)
  <2>1. CASE TRUE
    <3>1. ASSUME NEW y \in Task \ {x}, rpc[y].conn # None
          PROVE  rpc[y].conn \in Conn \ {c} /\ tty_conn[rpc[y].conn].open
      BY <1>4, <3>1 DEF BridgeInv, RpcOK, Rpc
    <3>2. \A y \in Task \ {x} : rpc[y].conn # None => tty_conn'[rpc[y].conn].open
      BY <1>1, <3>1, HangUpConn
    <3>3. rpc'[x].conn = None /\ ~tty_conn'[rpc[x].conn].open
      BY <1>1, <1>3, HangUpConn DEF Outcome
    <3>4. QED
      BY <1>3, <3>2, <3>3
  <2>2. QED
    BY <2>1
<1>6. ASSUME NEW t \in Token PROVE ClientGoesOn(t)
  <2>1. CASE tty_client'[t] = tty_client[t]
    BY <2>1 DEF ClientGoesOn
  <2>2. CASE tty_client'[t] # tty_client[t]
    <3>1. t = task[x].sess /\ tty_client[t] # "new" /\ tty_client'[t] # "new"
      BY <1>1, <1>4, <2>2, HangUpConn
    <3>2. IInv /\ (Live(t) => task[x].pc = "rpc_begin")
      BY <1>2, <1>4, <3>1, CallerIsUp DEF HasTimeLimit, OpAt
    <3>3. QED
      BY <1>3, <3>1, <3>2, BeginUnderWay DEF ClientGoesOn, BridgeInv
  <2>3. QED
    BY <2>1, <2>2
<1>7. QED
  BY <1>1, <1>2, <1>3, <1>4, <1>5, <1>6, HangUpConn DEF ServerFrame

LEMMA CloseOrphanFrame ==
  ASSUME BridgeInv, NEW c \in Conn, CloseOrphan(c)
  PROVE  ServerFrame
<1>1. Orphan(c) /\ S!HangUp(c) /\ UNCHANGED <<vars, rpc, faults>>
  BY DEF CloseOrphan
<1>2. \A y \in Task : rpc[y].conn # None =>
        ((rpc'[y].conn # None) <=> tty_conn'[rpc[y].conn].open)
  <2>1. ASSUME NEW y \in Task, rpc[y].conn # None
        PROVE  rpc[y].conn \in Conn \ {c} /\ tty_conn[rpc[y].conn].open
    BY <1>1, <2>1 DEF BridgeInv, RpcOK, Rpc, Orphan
  <2>2. QED
    BY <1>1, <2>1, HangUpConn
<1>3. ASSUME NEW t \in Token PROVE ClientGoesOn(t)
  BY <1>1, HangUpConn DEF BridgeInv, OrphanIsGone, ClientGoesOn
<1>4. rpc' \in [Task -> Rpc]
  BY <1>1 DEF BridgeInv, RpcOK
<1>5. QED
  BY <1>1, <1>2, <1>3, <1>4, HangUpConn DEF ServerFrame

-------------------------------------------------------------------------------
(***************************************************************************)
(* The steps of the server's state are those of PrompterServer, or its     *)
(* death and its restart.                                                  *)
(***************************************************************************)
LEMMA HangUpIsOfThePeer ==
  ASSUME NEW c \in Conn, S!HangUp(c)
  PROVE  TTY!Next
<1>1. TTY!HangUp(c)
  BY DEF S!HangUp, TTY!HangUp, S!sessionVars, TTY!sessionVars, S!terminalVars, TTY!terminalVars
<1>2. QED
  BY <1>1 DEF TTY!Next, TTY!Peer

LEMMA HandlesOfServer ==
  ASSUME NEW c \in Conn, S!Handles(c)
  PROVE  TTY!Next
<1>1. TTY!Handles(c)
  BY DEF S!Handles, TTY!Handles, S!BeginRefused, S!BeginServed, S!StopServed, S!PromptRefused,
         S!PromptStarts, S!PeerLost, S!PromptDone, S!Withdrawn, S!AnswerSent, S!SendFails,
         S!Settles, S!AnswerLost, TTY!BeginRefused, TTY!BeginServed, TTY!StopServed, TTY!PromptRefused,
         TTY!PromptStarts, TTY!PeerLost, TTY!PromptDone, TTY!Withdrawn, TTY!AnswerSent,
         TTY!SendFails, TTY!Settles, TTY!AnswerLost, S!Reads, S!Closed, S!Cancel, S!Over, S!Forget, S!PromptClosed, S!Answered,
         S!Wipe, S!Free, S!NoTask, S!sessionVars, S!terminalVars,
         TTY!Reads, TTY!Closed, TTY!Cancel, TTY!Over, TTY!Forget, TTY!PromptClosed, TTY!Answered,
         TTY!Wipe, TTY!Free, TTY!NoTask, TTY!sessionVars, TTY!terminalVars
<1>2. QED
  BY <1>1 DEF TTY!Next

LEMMA TerminalOfServer ==
  ASSUME NEW c \in Conn, S!UiRuns(c) \/ S!User(c)
  PROVE  TTY!Next
<1>1. S!LockIsFree <=> TTY!LockIsFree
  BY DEF S!LockIsFree, TTY!LockIsFree, S!ToSet, TTY!ToSet
<1>2. S!RemoveFirst(tty_queue, c) = TTY!RemoveFirst(tty_queue, c)
  BY DEF S!RemoveFirst, TTY!RemoveFirst, S!RemoveAt, TTY!RemoveAt, S!SelectInSeq, TTY!SelectInSeq,
         S!Min, TTY!Min
<1>3. \A q : S!Ask(c, q) <=> TTY!Ask(c, q)
  BY DEF S!Ask, TTY!Ask
<1>4. \A out : S!Ends(c, out) <=> TTY!Ends(c, out)
  BY DEF S!Ends, TTY!Ends
<1>5. \A q : S!AsksNext(c, q) <=> TTY!AsksNext(c, q)
  BY DEF S!AsksNext, TTY!AsksNext
<1>6. S!UiStarts(c) => TTY!UiStarts(c)
  BY <1>1, <1>3 DEF S!UiStarts, TTY!UiStarts, S!FirstQuestion, TTY!FirstQuestion,
                    S!sessionVars, TTY!sessionVars
<1>7. S!UiGetsLock(c) => TTY!UiGetsLock(c)
  BY <1>3 DEF S!UiGetsLock, TTY!UiGetsLock, S!FirstQuestion, TTY!FirstQuestion,
              S!sessionVars, TTY!sessionVars
<1>8. (S!Unwind(c) <=> TTY!Unwind(c)) /\ (S!Reading(c) <=> TTY!Reading(c))
  BY DEF S!Unwind, TTY!Unwind, S!Reading, TTY!Reading, S!Question, TTY!Question
<1>9. S!UiCancelled(c) => TTY!UiCancelled(c)
  BY <1>2, <1>4, <1>8 DEF S!UiCancelled, TTY!UiCancelled, S!ReadCancelled, TTY!ReadCancelled,
     S!WaitCancelled, TTY!WaitCancelled, S!sessionVars, TTY!sessionVars
<1>10. S!UserCancels(c) => TTY!UserCancels(c)
  BY <1>4, <1>8 DEF S!UserCancels, TTY!UserCancels, S!sessionVars, TTY!sessionVars
<1>11. S!UserAnswers(c) => TTY!UserAnswers(c)
  <2>1. S!Wipe(c) <=> TTY!Wipe(c)
    BY DEF S!Wipe, TTY!Wipe
  <2>2. S!PasswordRead(c) <=> TTY!PasswordRead(c)
    BY <1>4, <1>5 DEF S!PasswordRead, TTY!PasswordRead
  <2>3. QED
    BY <1>4, <1>5, <2>1, <2>2 DEF S!UserAnswers, TTY!UserAnswers, S!SecretEntered,
       TTY!SecretEntered, S!RepeatMatches, TTY!RepeatMatches, S!RepeatDiffers, TTY!RepeatDiffers,
       S!ChoiceMade, TTY!ChoiceMade, S!Confirmed, TTY!Confirmed, S!sessionVars, TTY!sessionVars
<1>12. QED
  BY <1>6, <1>7, <1>9, <1>10, <1>11
     DEF TTY!Next, S!UiRuns, TTY!UiRuns, S!User, TTY!User

LEMMA TimeOfServer ==
  ASSUME (\E t \in Token : S!Ages(t)) \/ S!Reap \/ S!Interrupt \/ S!Exit \/ S!Killed
  PROVE  TTY!Next
<1>1. S!Forgotten => TTY!Forgotten
  BY DEF S!Forgotten, TTY!Forgotten, S!Free, TTY!Free, S!NoTask, TTY!NoTask
<1>2. S!Killed => TTY!Killed
  BY <1>1 DEF S!Killed, TTY!Killed
<1>3. S!Exit => TTY!Exit
  BY <1>1 DEF S!Exit, TTY!Exit
<1>4. QED
  BY <1>2, <1>3 DEF TTY!Next, S!Ages, S!Reap, S!Reapable, S!Interrupt, TTY!Ages, TTY!Reap,
     TTY!Reapable, TTY!Interrupt, S!sessionVars, TTY!sessionVars, S!terminalVars, TTY!terminalVars

\* The server starts with nothing.
LEMMA RestartInv ==
  ASSUME TTY!IInv, ServerRestarts
  PROVE  TTY!IInv'
<1>1. /\ S!Forgotten
      /\ tty_server' = "up" /\ tty_mode' = "cooked"
  BY DEF ServerRestarts
<1>2. TTY!TypeOK'
  <2>1. S!Free \in TTY!Handler /\ S!NoTask \in TTY!UiTask
    BY DEF S!Free, S!NoTask, TTY!Handler, TTY!UiTask
  <2>2. <<>> \in Seq(Conn)
    BY EmptySeq
  <2>3. tty_client \in [Token -> {"new", "asked", "begun", "stopped"}]
    BY DEF TTY!IInv, TTY!TypeOK
  <2>4. /\ tty_sessions' \in SUBSET Token /\ tty_stale' \in SUBSET Token
        /\ tty_exchange' \in SUBSET Token
        /\ tty_prompt_task' \in [Token -> Conn \union {None}]
        /\ tty_conn' \in [Conn -> TTY!Handler] /\ tty_ui' \in [Conn -> TTY!UiTask]
    BY <1>1, <2>1 DEF S!Forgotten
  <2>5. /\ tty_secret' \in [Conn -> {"none", "held", "wiped", "dropped"}]
        /\ tty_holder' \in Conn \union {None} /\ tty_queue' \in Seq(Conn)
        /\ tty_saved' \in [Conn -> {"cooked", "raw"}]
    BY <1>1, <2>2 DEF S!Forgotten
  <2>6. /\ tty_mode' \in {"cooked", "raw"} /\ tty_server' \in {"up", "stopping", "exited"}
        /\ tty_client' \in [Token -> {"new", "asked", "begun", "stopped"}]
    BY <1>1, <2>3 DEF S!Forgotten
  <2>7. QED
    BY <2>4, <2>5, <2>6 DEF TTY!TypeOK
<1>3. \A c \in Conn : TTY!HandlerShape(c)' /\ TTY!SecretShape(c)'
  BY <1>1 DEF S!Forgotten, S!Free, S!NoTask, TTY!Free, TTY!NoTask, TTY!HandlerShape,
              TTY!SecretShape, TTY!AtWork, TTY!Over
<1>4. TTY!OnePromptEach'
  BY <1>1 DEF S!Forgotten, S!Free, TTY!OnePromptEach
<1>5. TTY!TerminalModes'
  <2>1. TTY!IsInjective(tty_queue') /\ TTY!ToSet(tty_queue') = {}
    BY <1>1 DEF S!Forgotten, TTY!IsInjective, TTY!ToSet
  <2>2. \A c \in Conn : ~TTY!Reading(c)' /\ tty_ui'[c].pc # "lock"
    BY <1>1 DEF S!Forgotten, S!NoTask, TTY!Reading, TTY!Question
  <2>3. tty_holder' = None
    BY <1>1 DEF S!Forgotten
  <2>4. QED
    BY <1>1, <2>1, <2>2, <2>3, ServerAssumptions DEF TTY!TerminalModes
<1>6. TTY!PromptIsTracked' /\ TTY!NoPromptLeftBehind' /\ TTY!ExchangeFollowsSession'
  BY <1>1 DEF S!Forgotten, S!NoTask, TTY!PromptIsTracked, TTY!NoPromptLeftBehind,
              TTY!ExchangeFollowsSession
<1>7. TTY!ExitedIsEmpty'
  BY <1>1 DEF S!Forgotten, S!Free, S!NoTask, TTY!Free, TTY!NoTask, TTY!ExitedIsEmpty
<1>8. QED
  BY <1>2, <1>3, <1>4, <1>5, <1>6, <1>7 DEF TTY!IInv

-------------------------------------------------------------------------------
(***************************************************************************)
(* The theorems.                                                           *)
(***************************************************************************)
\* A step in which only the server, or a connection, moves.
BetweenThem ==
  \/ \E x \in Task : DialFails(x) \/ Timeout(x)
  \/ \E c \in Conn : CloseOrphan(c) \/ Server(c) \/ UserActs(c)
  \/ \E t \in Token : TimePasses(t)
  \/ ServerReaps \/ ServerInterrupt \/ ServerExit \/ ServerDies \/ ServerRestarts

LEMMA BetweenThemFrame ==
  ASSUME BridgeInv, BetweenThem
  PROVE  ServerFrame
BY DialFailsFrame, TimeoutFrame, CloseOrphanFrame, ServerHandlesFrame, ServerRefusesFrame,
   TerminalFrame, TimeFrame, ServerEndsFrame
   DEF BetweenThem, Server

LEMMA BetweenThemIsTheServer ==
  ASSUME BridgeInv, BetweenThem
  PROVE  TTY!Next \/ ServerRestarts \/ UNCHANGED ttyVars
<1>1. CASE \E x \in Task : DialFails(x)
  BY <1>1 DEF DialFails
<1>2. CASE \E x \in Task : Timeout(x)
  BY <1>2, HangUpIsOfThePeer DEF Timeout, BridgeInv, RpcOK, Rpc
<1>3. CASE \E c \in Conn : CloseOrphan(c)
  BY <1>3, HangUpIsOfThePeer DEF CloseOrphan
<1>4. CASE \E c \in Conn : ServerHandles(c) \/ ServerRefuses(c)
  BY <1>4, HandlesOfServer DEF ServerHandles, ServerRefuses, S!Handles
<1>5. CASE \E c \in Conn : ServerRuns(c) \/ UserActs(c)
  BY <1>5, TerminalOfServer DEF ServerRuns, UserActs
<1>6. CASE \/ \E t \in Token : TimePasses(t)
           \/ ServerReaps \/ ServerInterrupt \/ ServerExit \/ ServerDies
  BY <1>6, TimeOfServer DEF TimePasses, ServerReaps, ServerInterrupt, ServerExit, ServerDies
<1>7. QED
  BY <1>1, <1>2, <1>3, <1>4, <1>5, <1>6 DEF BetweenThem, Server

LEMMA BetweenThemInv ==
  ASSUME BridgeInv, BetweenThem
  PROVE  BridgeInv'
<1>1. TTY!IInv
  BY DEF BridgeInv
<1>2. TTY!IInv'
  <2>1. CASE TTY!Next
    BY <1>1, <2>1, ServerAssumptions, TTY!NextInv
  <2>2. CASE ServerRestarts
    BY <1>1, <2>2, RestartInv
  <2>3. CASE UNCHANGED ttyVars
    BY <1>1, <2>3, ServerStutters
  <2>4. QED
    BY <2>1, <2>2, <2>3, BetweenThemIsTheServer
<1>3. QED
  BY <1>2, BetweenThemFrame, ServerFrameInv

\* The four kinds of steps.
LEMMA KindsOfSteps ==
  ASSUME BridgeNext
  PROVE  \/ \E x \in Task : RunsOn(x) \/ RpcReturns(x)
         \/ ClientHears \/ ClientDies
         \/ \E x \in Task : Dial(x)
         \/ BetweenThem
BY DEF BridgeNext, Client, BetweenThem

LEMMA BridgeNextInv ==
  ASSUME BridgeInv, BridgeNext
  PROVE  BridgeInv'
BY KindsOfSteps, ClientActsInv, ClientDiesInv, DialInv, BetweenThemInv

LEMMA BridgeStutterInv ==
  ASSUME BridgeInv, UNCHANGED allVars
  PROVE  BridgeInv'
<1>1. UNCHANGED <<vars, rpc, tty_client, tty_conn, faults, tty_server, tty_stale, tty_sessions>>
      /\ UNCHANGED ttyVars
  BY DEF allVars, ttyVars
<1>2. ServerFrame
  BY <1>1, NothingHeard
<1>3. TTY!IInv'
  BY <1>1, ServerStutters DEF BridgeInv
<1>4. QED
  BY <1>2, <1>3, ServerFrameInv

LEMMA BridgeInitInv == BridgeInit => BridgeInv
<1> SUFFICES ASSUME BridgeInit PROVE BridgeInv
  OBVIOUS
<1>1. IInv /\ bus = "up" /\ task[Main].pc = "serving"
  BY InitIInv, MainIsATask DEF BridgeInit, Init, Idle
<1>2. TTY!Init
  BY DEF BridgeInit, S!Init, TTY!Init, S!Free, TTY!Free, S!NoTask, TTY!NoTask
<1>3. TTY!IInv
  BY <1>2, ServerAssumptions, TTY!InitInv
<1>4. \A x \in Task : task[x].pc \in {"idle", "serving"} /\ rpc[x] = NoRpc /\ ~InRpc(x)
  BY DEF BridgeInit, Init, Idle, InRpc, OpAt
<1>5. \A t \in Token : ~Live(t) /\ told[t] = "nothing"
  BY DEF BridgeInit, Init, Live, Unmade
<1>6. \A c \in Conn : tty_conn[c].pc = "free" /\ ~tty_conn[c].open
  BY <1>2 DEF TTY!Init, TTY!Free
<1>7. faults = 0 /\ faults \in Nat /\ tty_server = "up" /\ tty_stale = {}
      /\ \A t \in Token : tty_client[t] = "new"
  BY <1>2 DEF BridgeInit, TTY!Init
<1>8. ClientInv /\ ToldInOrder
  BY <1>1, <1>4, <1>5 DEF ClientInv, ToldInOrder, Activating
<1>9. RpcOK
  BY <1>4 DEF BridgeInit, RpcOK, NoRpc, Rpc
<1>10. OneUnsent /\ BeginInTurn
  BY <1>4 DEF OneUnsent, Unsent, BeginInTurn
<1>11. ServerKnows /\ OrphanIsGone /\ StopsOnlyTheFinished
  BY <1>6, <1>7 DEF ServerKnows, OrphanIsGone, Orphan, StopsOnlyTheFinished
<1>12. BegunIsKnown /\ NothingWentWrong
  BY <1>1, <1>5, <1>7 DEF BegunIsKnown, NothingWentWrong
<1>13. QED
  BY <1>3, <1>7, <1>8, <1>9, <1>10, <1>11, <1>12 DEF BridgeInv

\* What the server's module assumes of its peer is what this client does.
LEMMA EachStepMeetsThePeer ==
  ASSUME BridgeInv, BridgeNext
  PROVE  S!Next \/ ServerRestarts \/ UNCHANGED ttyVars
<1>1. CASE \E x \in Task : RunsOn(x) \/ RpcReturns(x) \/ DialFails(x)
  BY <1>1 DEF RunsOn, RpcReturns, ClientMoves, DialFails
<1>2. CASE ClientHears \/ ClientDies
  BY <1>2 DEF ClientHears, ClientDies, ClientMoves
<1>3. CASE \E x \in Task : Dial(x)
  <2>1. PICK c \in Conn, t \in Token : TTY!AskBegin(c, t) \/ TTY!AskPrompt(c, t) \/ TTY!AskStop(c, t)
    BY <1>3, DialIsOfThePeer
  <2>2. \A op : S!Request(op, t) = TTY!Request(op, t)
    BY DEF S!Request, TTY!Request, S!Free, TTY!Free
  <2>3. \A r : S!Connect(c, r) <=> TTY!Connect(c, r)
    BY DEF S!Connect, TTY!Connect, S!sessionVars, TTY!sessionVars, S!terminalVars,
           TTY!terminalVars
  <2>4. S!AskBegin(c, t) \/ S!AskPrompt(c, t) \/ S!AskStop(c, t)
    BY <2>1, <2>2, <2>3 DEF S!AskBegin, TTY!AskBegin, S!AskPrompt, TTY!AskPrompt, S!AskStop,
       TTY!AskStop
  <2>5. QED
    BY <2>4 DEF S!Next, S!Peer
<1>4. CASE (\E x \in Task : Timeout(x)) \/ (\E c \in Conn : CloseOrphan(c))
  BY <1>4 DEF Timeout, CloseOrphan, BridgeInv, RpcOK, Rpc, S!Next, S!Peer
<1>5. CASE \E c \in Conn : ServerHandles(c) \/ ServerRefuses(c)
  BY <1>5 DEF ServerHandles, ServerRefuses, S!Handles, S!Next
<1>6. CASE \E c \in Conn : ServerRuns(c) \/ UserActs(c)
  BY <1>6 DEF ServerRuns, UserActs, S!Next
<1>7. CASE \/ \E t \in Token : TimePasses(t)
           \/ ServerReaps \/ ServerInterrupt \/ ServerExit \/ ServerDies
  BY <1>7 DEF TimePasses, ServerReaps, ServerInterrupt, ServerExit, ServerDies, S!Next
<1>8. QED
  BY <1>1, <1>2, <1>3, <1>4, <1>5, <1>6, <1>7 DEF BridgeNext, Client, Server

\* The inductive invariant of the two together.
THEOREM BridgeInvariant == BridgeSpec => []BridgeInv
<1>1. BridgeInv /\ [BridgeNext]_allVars => BridgeInv'
  BY BridgeNextInv, BridgeStutterInv
<1>2. QED
  BY <1>1, BridgeInitInv, PTL DEF BridgeSpec

\* Whatever dies, times out or is cancelled, an RPC in progress has a connection of its own
\* that carries its operation and its session (bridge_rpc).
THEOREM RpcsAreMatched == BridgeSpec => []RpcOK
<1>1. BridgeInv => RpcOK
  BY DEF BridgeInv
<1>2. QED
  BY <1>1, BridgeInvariant, PTL

\* No "stop" reaches the server for a session that the client still has, though a callback
\* may begin again while its first session is being stopped.
THEOREM NoLiveSessionIsStopped == BridgeSpec => []StopsOnlyTheFinished
<1>1. BridgeInv => StopsOnlyTheFinished
  BY DEF BridgeInv
<1>2. QED
  BY <1>1, BridgeInvariant, PTL

\* As long as nothing goes wrong, the server holds every session whose exchange it gave to
\* an application, until the client has finished it.
THEOREM ReadySessionsAreHeld == BridgeSpec => []SessionIsHeld
<1>1. BridgeInv => SessionIsHeld
  BY DEF BridgeInv, NothingWentWrong, HasBegun, SessionIsHeld
<1>2. QED
  BY <1>1, BridgeInvariant, PTL

\* Every step of the server's state is one that PrompterServer has, its death being one of
\* them, or its restart: the client keeps what that module assumes of its peer, though it may be killed,
\* run out of time or cancel an RPC at any point.
THEOREM PeerKeepsItsWord == BridgeSpec => ServerMeetsItsPeer
<1>1. BridgeInv /\ [BridgeNext]_allVars => [S!Next \/ ServerRestarts]_ttyVars
  <2>1. UNCHANGED allVars => UNCHANGED ttyVars
    BY DEF allVars
  <2>2. QED
    BY <2>1, EachStepMeetsThePeer
<1>2. QED
  BY <1>1, BridgeInvariant, PTL DEF BridgeSpec, ServerMeetsItsPeer

\* What was proved of the server with a peer that is only assumed holds next to this client,
\* over any number of deaths and restarts of either.
ServerSafety ==
  /\ S!TerminalModes /\ S!PromptIsTracked /\ S!NoPromptLeftBehind
  /\ S!ExchangeFollowsSession /\ S!PasswordWiped

THEOREM ServerIsSafe == BridgeSpec => []ServerSafety
<1>1. TTY!IInv => ServerSafety
  <2> SUFFICES ASSUME TTY!IInv PROVE ServerSafety
    OBVIOUS
  <2>1. S!TerminalModes
    <3>1. S!IsInjective(tty_queue) = TTY!IsInjective(tty_queue)
          /\ S!ToSet(tty_queue) = TTY!ToSet(tty_queue)
      BY DEF S!IsInjective, TTY!IsInjective, S!ToSet, TTY!ToSet
    <3>2. QED
      BY <3>1 DEF TTY!IInv, TTY!TerminalModes, S!TerminalModes, S!Reading, TTY!Reading,
                  S!Question, TTY!Question
  <2>2. S!PromptIsTracked /\ S!NoPromptLeftBehind /\ S!ExchangeFollowsSession
    BY DEF TTY!IInv, TTY!PromptIsTracked, TTY!NoPromptLeftBehind, TTY!ExchangeFollowsSession,
           S!PromptIsTracked, S!NoPromptLeftBehind, S!ExchangeFollowsSession
  <2>3. S!PasswordWiped
    BY DEF TTY!IInv, TTY!HandlerShape, TTY!SecretShape, TTY!AtWork, TTY!NoTask, TTY!Over,
           S!PasswordWiped
  <2>4. QED
    BY <2>1, <2>2, <2>3 DEF ServerSafety
<1>2. BridgeInv => TTY!IInv
  BY DEF BridgeInv
<1>3. QED
  BY <1>1, <1>2, BridgeInvariant, PTL

\* The client's line, its one prompter and its wake-ups are as SystemPrompter promises, until
\* the client is gone, whatever the server and the connections do.
ClientSafety ==
  bus # "exited" => SinglePrompter /\ WaitingLine /\ NoLostWakeup /\ NoStuckSession

THEOREM ClientIsSafe == BridgeSpec => []ClientSafety
<1>1. BridgeInv => ClientSafety
  BY DEF BridgeInv, ClientInv, IInv, ClientSafety
<1>2. QED
  BY <1>1, BridgeInvariant, PTL

\* No application is told PromptDone twice, whatever becomes of "stop" on its way.
THEOREM DoneOnceWithServer == BridgeSpec => DoneOnce
<1>1. BridgeInv => \A t \in Token : \A x \in Task :
                     Notify(x) /\ task[x].done /\ task[x].sess = t => told[t] # "done"
  BY DEF BridgeInv, ClientInv, Idle, IInv, DoneIsLast, Notify, At
<1>2. QED
  BY <1>1, BridgeInvariant, PTL DEF DoneOnce
-------------------------------------------------------------------------------
(***************************************************************************)
(* What was proved of each alone and is more than an invariant, and what   *)
(* neither could say.                                                      *)
(***************************************************************************)
\* The client's state changes as SystemPrompter has it, or the client dies.
LEMMA ClientStepsAlone ==
  ASSUME BridgeInv, [BridgeNext]_allVars
  PROVE  (IInv /\ [Next]_vars) \/ ClientDies \/ UNCHANGED vars
<1>1. CASE UNCHANGED allVars
  BY <1>1 DEF allVars
<1>2. CASE (\E x \in Task : RunsOn(x) \/ RpcReturns(x)) \/ ClientHears
  BY <1>2, ClientActs
<1>3. CASE (\E x \in Task : Dial(x)) \/ BetweenThem
  BY <1>3 DEF Dial, BetweenThem, DialFails, Timeout, CloseOrphan, Server, ServerHandles,
     ServerRefuses, ServerRuns, UserActs, TimePasses, ServerReaps, ServerInterrupt, ServerExit,
     ServerDies, ServerRestarts
<1>4. QED
  BY <1>1, <1>2, <1>3, KindsOfSteps

\* The client's dict, deque and active_key are the line of PromptLine, whatever the server
\* and the connections do, and a client that is killed lets nobody in.
THEOREM ALineWithServer == BridgeSpec => ImplementsLine
<1>1. BridgeInv /\ [BridgeNext]_allVars => [Line!LineNext]_(Line!lineVars)
  <2> SUFFICES ASSUME BridgeInv, [BridgeNext]_allVars PROVE [Line!LineNext]_(Line!lineVars)
    OBVIOUS
  <2>1. CASE UNCHANGED <<sessions, waiting, active_key, obj>>
    <3>1. UNCHANGED <<Queue, Holder, Departed>>
      BY <2>1, LineStutters
    <3>2. QED
      BY <3>1 DEF Line!lineVars, Queue, Holder, Departed
  <2>2. QED
    BY <2>1, ClientStepsAlone, NextIsOfTheLine DEF ClientDies, Killed, vars
<1>2. BridgeInit => Line!LineInit
  BY InitRefines DEF BridgeInit
<1>3. QED
  BY <1>1, <1>2, BridgeInvariant, PTL DEF BridgeSpec, ImplementsLine, Line!LineSpec

\* With a path for each session, the client calls none for a session that it has finished,
\* whatever "begin" and its reply meet on their way.
THEOREM NeverLateWithServer == ASSUME ~Reuse PROVE BridgeSpec => NoLateReady
<1>1. BridgeInit => OnePathOneSession
  BY DEF BridgeInit, Init, Unmade, OnePathOneSession
<1>2. OnePathOneSession /\ BridgeInv /\ [BridgeNext]_allVars => OnePathOneSession'
  BY ClientStepsAlone, PathsAreNew DEF ClientDies, Killed, vars, OnePathOneSession
<1>3. OnePathOneSession /\ BridgeInv =>
        \A x \in Task : BeginReturns(x) \/ PromptReturns(x) => Live(task[x].sess)
  <2> SUFFICES ASSUME OnePathOneSession, BridgeInv, NEW x \in Task,
                      BeginReturns(x) \/ PromptReturns(x)
               PROVE  Live(task[x].sess)
    OBVIOUS
  <2>1. task[x] # Idle
    BY DEF BeginReturns, PromptReturns, At, Idle
  <2>2. IInv
    BY <2>1 DEF BridgeInv, ClientInv
  <2>3. QED
    BY <2>2, NoneIsLate
<1>4. QED
  BY <1>1, <1>2, <1>3, BridgeInvariant, PTL DEF BridgeSpec, NoLateReady
-------------------------------------------------------------------------------
\* The client does not close the connection of a prompt whose session it still has.
StaysConnected ==
  bus # "exited" =>
    \A c \in Conn : tty_conn[c].op = "prompt" /\ Live(tty_conn[c].tok) => tty_conn[c].open

\* What the server does leaves a connection as open as it was, or ends it.
LEMMA ServerLeavesOpen ==
  ASSUME BridgeInv,
         \/ \E c \in Conn : Server(c) \/ UserActs(c)
         \/ \E t \in Token : TimePasses(t)
         \/ ServerReaps \/ ServerInterrupt \/ ServerExit \/ ServerDies \/ ServerRestarts
  PROVE  \A d \in Conn : tty_conn'[d].op = "prompt" => tty_conn'[d].open = tty_conn[d].open
<1> DEFINE Kept == \A d \in Conn :
      tty_conn'[d].op = "prompt" => tty_conn'[d].open = tty_conn[d].open
<1> SUFFICES Kept
  OBVIOUS
<1>1. tty_conn \in [Conn -> TTY!Handler]
  BY DEF BridgeInv, TTY!IInv, TTY!TypeOK
<1>2. ASSUME NEW c \in Conn, tty_conn' = [tty_conn EXCEPT ![c] = S!Free] PROVE Kept
  BY <1>1, <1>2 DEF S!Free
<1>3. ASSUME NEW c \in Conn, NEW p, tty_conn' = [tty_conn EXCEPT ![c].pc = p] PROVE Kept
  BY <1>1, <1>3 DEF TTY!Handler
<1>4. ASSUME tty_conn' = [c \in Conn |-> S!Free] PROVE Kept
  BY <1>4 DEF S!Free
<1>5. UNCHANGED tty_conn => Kept
  OBVIOUS
<1> HIDE DEF Kept
<1>6. ASSUME NEW c \in Conn, ServerHandles(c) \/ ServerRefuses(c) PROVE Kept
  BY <1>2, <1>3, <1>6 DEF ServerHandles, ServerRefuses, S!BeginRefused, S!BeginServed, S!StopServed,
     S!PromptRefused, S!PromptStarts, S!PeerLost, S!PromptDone, S!Withdrawn, S!AnswerSent,
     S!SendFails, S!Settles, S!AnswerLost, S!Closed, S!PromptClosed
<1>7. ASSUME NEW c \in Conn, ServerRuns(c) \/ UserActs(c) PROVE Kept
  BY <1>5, <1>7, TerminalFrame DEF ServerRuns, UserActs, S!UiRuns, S!UiStarts, S!UiGetsLock,
     S!UiCancelled, S!User, S!UserAnswers, S!UserCancels
<1>8. (\E t \in Token : TimePasses(t)) \/ ServerReaps \/ ServerInterrupt => Kept
  BY <1>5 DEF TimePasses, ServerReaps, ServerInterrupt, S!Ages, S!Reap, S!Interrupt
<1>9. ServerExit \/ ServerDies \/ ServerRestarts => Kept
  BY <1>4 DEF ServerExit, S!Exit, ServerDies, S!Killed, ServerRestarts, S!Forgotten
<1>10. QED
  BY <1>6, <1>7, <1>8, <1>9 DEF Server

LEMMA StaysConnectedStep ==
  ASSUME BridgeInv, StaysConnected, [BridgeNext]_allVars
  PROVE  StaysConnected'
<1>1. \A c \in Conn : tty_conn[c].op = "prompt" =>
        tty_conn[c].tok \in Token /\ tty_conn[c].pc # "free" /\ obj[tty_conn[c].tok].active
  BY ServerAssumptions, TTY!RequestOf DEF BridgeInv, ServerKnows
<1>2. CASE UNCHANGED allVars
  BY <1>2 DEF allVars, vars, ttyVars, StaysConnected, Live
<1>3. CASE (\E x \in Task : RunsOn(x) \/ RpcReturns(x)) \/ ClientHears
  <2>1. PICK x \in Task : ClientStep(x)
    BY <1>3, ClientActs
  <2>2. bus' = bus /\ UNCHANGED tty_conn
    BY <2>1 DEF ClientStep, ClientFrame, ClientMoves, ttyVars
  <2>3. \A t \in Token : obj[t].active /\ Live(t)' => Live(t)
    BY <2>1 DEF ClientStep, ClientFrame, Unmade
  <2>4. QED
    BY <1>1, <2>2, <2>3 DEF StaysConnected, Live
<1>4. CASE ClientDies
  BY <1>4 DEF ClientDies, Killed, StaysConnected
<1>5. ASSUME UNCHANGED vars,
             \A d \in Conn : tty_conn'[d].op = "prompt" =>
               \/ tty_conn'[d].open
               \/ /\ tty_conn[d].op = "prompt" /\ tty_conn'[d].tok = tty_conn[d].tok
                  /\ ~tty_conn[d].open \/ bus = "exited" \/ ~Live(tty_conn[d].tok)
      PROVE  StaysConnected'
  BY <1>5 DEF StaysConnected, vars, Live
<1>6. CASE \E x \in Task : Dial(x)
  <2>1. PICK x \in Task : Dial(x)
    BY <1>6
  <2>2. tty_conn \in [Conn -> TTY!Handler]
    BY DEF BridgeInv, TTY!IInv, TTY!TypeOK
  <2>3. PICK c \in Conn : /\ tty_conn' = [tty_conn EXCEPT ![c] = tty_conn'[c]]
                          /\ tty_conn'[c].open /\ UNCHANGED vars
    BY <2>1, DialIsOfThePeer
  <2>4. \A d \in Conn \ {c} : tty_conn'[d] = tty_conn[d]
    BY <2>2, <2>3
  <2>5. \A d \in Conn : tty_conn'[d].op = "prompt" /\ ~tty_conn'[d].open =>
          tty_conn'[d] = tty_conn[d]
    BY <2>3, <2>4
  <2>6. QED
    BY <1>5, <2>3, <2>5
<1>7. CASE BetweenThem
  <2>1. UNCHANGED vars /\ \A d \in Conn : ConnGoesOn(d)
    BY <1>7, BetweenThemFrame DEF ServerFrame
  <2>2. \A d \in Conn : tty_conn'[d].op = "prompt" =>
          tty_conn[d].op = "prompt" /\ tty_conn'[d].tok = tty_conn[d].tok
    <3>1. \A d \in Conn : tty_conn'[d].pc = "free" => tty_conn'[d].op # "prompt"
      <4>1. \A d \in Conn : TTY!HandlerShape(d)'
        BY <1>7, BetweenThemInv DEF BridgeInv, TTY!IInv
      <4>2. QED
        BY <4>1 DEF TTY!HandlerShape, TTY!Free
    <3>2. QED
      BY <2>1, <3>1 DEF ConnGoesOn
  <2>3. ASSUME NEW c \in Conn, S!HangUp(c),
               bus = "exited" \/ ~Live(tty_conn[c].tok) \/ tty_conn[c].op # "prompt"
        PROVE  StaysConnected'
    <3>1. \A d \in Conn \ {c} : tty_conn'[d].open = tty_conn[d].open
      BY <2>3, HangUpConn
    <3>2. QED
      BY <1>5, <2>1, <2>2, <2>3, <3>1
  <2>4. CASE \E x \in Task : Timeout(x)
    <3>1. PICK x \in Task : Timeout(x)
      BY <2>4
    <3>2. rpc[x].conn \in Conn /\ S!HangUp(rpc[x].conn) /\ tty_conn[rpc[x].conn].op # "prompt"
      BY <3>1 DEF Timeout, HasTimeLimit, InRpc, BridgeInv, RpcOK, Rpc, OpAt
    <3>3. QED
      BY <2>3, <3>2
  <2>5. CASE \E c \in Conn : CloseOrphan(c)
    BY <2>3, <2>5 DEF CloseOrphan, BridgeInv, OrphanIsGone
  <2>6. CASE \E x \in Task : DialFails(x)
    BY <2>6 DEF DialFails, vars, ttyVars, StaysConnected, Live
  <2>7. CASE ~((\E x \in Task : DialFails(x) \/ Timeout(x)) \/ \E c \in Conn : CloseOrphan(c))
    <3>1. \A d \in Conn : tty_conn'[d].op = "prompt" => tty_conn'[d].open = tty_conn[d].open
      BY <1>7, <2>7, ServerLeavesOpen DEF BetweenThem
    <3>2. QED
      BY <1>5, <2>1, <2>2, <3>1
  <2>8. QED
    BY <2>4, <2>5, <2>6, <2>7
<1>8. QED
  BY <1>2, <1>3, <1>4, <1>6, <1>7, KindsOfSteps

LEMMA WantedIsOfThePrompter ==
  ASSUME BridgeInv, bus # "exited", NEW c \in Conn, tty_conn[c].op = "prompt",
         Live(tty_conn[c].tok)
  PROVE  /\ tty_conn[c].tok \in Token
         /\ active_key # None /\ tty_conn[c].tok = sessions[active_key]
         /\ active_key = obj[tty_conn[c].tok].key
<1>1. IInv
  BY DEF BridgeInv, ClientInv
<1>2. tty_conn[c].tok \in Token /\ tty_conn[c].pc # "free"
  BY ServerAssumptions, TTY!RequestOf DEF BridgeInv
<1>3. LiveActive(tty_conn[c].tok)
  BY <1>2 DEF BridgeInv, ServerKnows, LiveActive
<1>4. QED
  BY <1>1, <1>2, <1>3 DEF IInv, SinglePrompter, LiveActive, Live

LEMMA WantedIsAwaited ==
  ASSUME BridgeInv, StaysConnected, bus # "exited", NEW c \in Conn, tty_conn[c].op = "prompt",
         Live(tty_conn[c].tok)
  PROVE  LET x == obj[tty_conn[c].tok].prompt_task
         IN x \in Task /\ task[x].pc = "rpc_prompt" /\ rpc[x].conn = c
<1>1. IInv
  BY DEF BridgeInv, ClientInv
<1>2. PICK x \in Task : rpc[x].conn = c
  BY DEF StaysConnected, BridgeInv, OrphanIsGone, Orphan
<1>3. InRpc(x) /\ tty_conn[c].tok = task[x].sess /\ OpAt[task[x].pc] = "prompt"
  BY <1>2, NoneIsNoConnection DEF BridgeInv, RpcOK
<1>4. task[x].pc = "rpc_prompt"
  BY <1>3 DEF InRpc, OpAt
<1>5. obj[task[x].sess].prompt_task = x
  BY <1>1, <1>4 DEF IInv, SinglePrompter, Prompting
<1>6. QED
  BY <1>2, <1>3, <1>4, <1>5

\* Of all that is on the terminal or waits for it, one prompt at most is still wanted, and it
\* is the prompter's.
THEOREM OnePromptIsWanted == BridgeSpec => []OneWantedPrompt
<1>1. BridgeInit => StaysConnected
  BY BridgeInitInv DEF BridgeInit, S!Init, S!Free, StaysConnected
<1>2. BridgeInv /\ StaysConnected /\ [BridgeNext]_allVars => StaysConnected'
  BY StaysConnectedStep
<1>3. BridgeInv /\ StaysConnected => OneWantedPrompt
  <2> SUFFICES ASSUME BridgeInv, StaysConnected, bus # "exited",
                      NEW c \in Conn, tty_conn[c].op = "prompt", Live(tty_conn[c].tok)
               PROVE  /\ active_key = obj[tty_conn[c].tok].key
                      /\ \A d \in Conn :
                           tty_conn[d].op = "prompt" /\ Live(tty_conn[d].tok) => d = c
                      /\ LET x == obj[tty_conn[c].tok].prompt_task
                         IN x \in Task /\ task[x].pc = "rpc_prompt" /\ rpc[x].conn = c
    BY DEF OneWantedPrompt
  <2>1. ASSUME NEW d \in Conn, tty_conn[d].op = "prompt", Live(tty_conn[d].tok)
        PROVE  d = c
    <3>1. tty_conn[d].tok = tty_conn[c].tok
      BY <2>1, WantedIsOfThePrompter
    <3>2. QED
      BY <2>1, <3>1 DEF BridgeInv, TTY!IInv, TTY!OnePromptEach
  <2>2. QED
    BY <2>1, WantedIsOfThePrompter, WantedIsAwaited
<1>4. QED
  BY <1>1, <1>2, <1>3, BridgeInvariant, PTL DEF BridgeSpec
-------------------------------------------------------------------------------
\* The server's state changes as PrompterServer has it, or the server is restarted.
LEMMA ServerStepsAlone ==
  ASSUME BridgeInv, [BridgeNext]_allVars
  PROVE  [TTY!Next]_(TTY!vars) \/ ServerRestarts
<1>1. UNCHANGED ttyVars => UNCHANGED TTY!vars
  BY DEF ttyVars, TTY!vars
<1>2. CASE UNCHANGED allVars \/ ClientDies
  BY <1>1, <1>2 DEF allVars, ClientDies, ClientMoves
<1>3. CASE (\E x \in Task : RunsOn(x) \/ RpcReturns(x)) \/ ClientHears
  BY <1>1, <1>3, ClientActs DEF ClientStep, ClientMoves
<1>4. CASE \E x \in Task : Dial(x)
  BY <1>4, DialInv
<1>5. CASE BetweenThem
  BY <1>1, <1>5, BetweenThemIsTheServer
<1>6. QED
  BY <1>2, <1>3, <1>4, <1>5, KindsOfSteps

\* The server ends in two ways only.
LEMMA WhoEndsTheServer ==
  ASSUME BridgeInv, [BridgeNext]_allVars, tty_server # "exited", tty_server' = "exited"
  PROVE  ServerExit \/ ServerDies
<1>1. ~(UNCHANGED allVars) /\ ~ClientDies
  BY DEF allVars, ttyVars, ClientDies, ClientMoves
<1>2. ~((\E x \in Task : RunsOn(x) \/ RpcReturns(x)) \/ ClientHears)
  BY ClientActs DEF ClientStep, ClientMoves, ttyVars
<1>3. ~(\E x \in Task : Dial(x))
  BY DialIsOfThePeer
<1>4. ~(\E x \in Task : DialFails(x) \/ Timeout(x)) /\ ~(\E c \in Conn : CloseOrphan(c))
  BY DEF DialFails, Timeout, CloseOrphan, S!HangUp, ttyVars
<1>5. ASSUME NEW c \in Conn, ServerHandles(c) \/ ServerRefuses(c) PROVE FALSE
  BY <1>5 DEF ServerHandles, ServerRefuses, S!BeginRefused, S!BeginServed, S!StopServed,
     S!PromptRefused, S!PromptStarts, S!PeerLost, S!PromptDone, S!Withdrawn, S!AnswerSent,
     S!SendFails, S!Settles, S!AnswerLost
<1>6. ASSUME NEW c \in Conn, ServerRuns(c) \/ UserActs(c) PROVE FALSE
  BY <1>6 DEF ServerRuns, UserActs, S!UiRuns, S!UiStarts, S!UiGetsLock, S!UiCancelled, S!User,
     S!UserAnswers, S!UserCancels
<1>7. ~(\E t \in Token : TimePasses(t)) /\ ~ServerReaps /\ ~ServerInterrupt /\ ~ServerRestarts
  BY DEF TimePasses, ServerReaps, ServerInterrupt, ServerRestarts, S!Ages, S!Reap, S!Interrupt
<1>8. QED
  BY <1>1, <1>2, <1>3, <1>4, <1>5, <1>6, <1>7, KindsOfSteps DEF BetweenThem, Server

LEMMA BridgePInv ==
  ASSUME BridgeInv, TTY!PInv, [BridgeNext]_allVars
  PROVE  TTY!PInv'
<1>1. TTY!IInv
  BY DEF BridgeInv
<1>2. CASE [TTY!Next]_(TTY!vars)
  BY <1>1, <1>2, ServerAssumptions, TTY!NextPInv
<1>3. CASE ServerRestarts
  <2>1. \A c \in Conn : tty_conn'[c] = TTY!Free
    BY <1>3 DEF ServerRestarts, S!Forgotten, S!Free, TTY!Free
  <2>2. QED
    BY <2>1 DEF TTY!PInv, TTY!PeerShape, TTY!PromptIsNamed, TTY!Reads, TTY!Free, TTY!AtWork
<1>4. QED
  BY <1>2, <1>3, ServerStepsAlone

\* Whoever drops a session, and does not end the server, is the reaper.
LEMMA WhoDropsASession ==
  ASSUME BridgeInv, [BridgeNext]_allVars, NEW t \in Token, t \in tty_sessions,
         t \notin tty_sessions', TTY!Reap, tty_server' # "exited"
  PROVE  ServerReaps
<1>1. UNCHANGED <<tty_conn, tty_ui, tty_prompt_task, tty_client>>
  BY DEF TTY!Reap
<1>2. ~(UNCHANGED allVars) /\ ~ClientDies
  BY DEF allVars, ttyVars, ClientDies, ClientMoves
<1>3. ~((\E x \in Task : RunsOn(x) \/ RpcReturns(x)) \/ ClientHears)
  BY ClientActs DEF ClientStep, ClientMoves, ttyVars
<1>4. ~(\E x \in Task : Dial(x))
  BY DialIsOfThePeer
<1>5. ~(\E x \in Task : DialFails(x) \/ Timeout(x)) /\ ~(\E c \in Conn : CloseOrphan(c))
  BY DEF DialFails, Timeout, CloseOrphan, S!HangUp, ttyVars, S!sessionVars
<1>6. tty_conn \in [Conn -> TTY!Handler]
  BY DEF BridgeInv, TTY!IInv, TTY!TypeOK
<1>7. ASSUME NEW c \in Conn, ServerHandles(c) \/ ServerRefuses(c) PROVE FALSE
  <2>1. \/ tty_sessions' = tty_sessions
        \/ S!BeginServed(c) /\ tty_sessions' = tty_sessions \union {tty_conn[c].tok}
        \/ S!StopServed(c)
    BY <1>7 DEF ServerHandles, ServerRefuses, S!BeginRefused, S!BeginServed, S!StopServed,
       S!PromptRefused, S!PromptStarts, S!PeerLost, S!PromptDone, S!Withdrawn, S!AnswerSent,
       S!SendFails, S!AnswerLost, S!sessionVars
  <2>2. ~S!StopServed(c)
    BY <1>1, <1>6 DEF S!StopServed, S!Reads, S!Closed, S!Free, TTY!Handler
  <2>3. QED
    BY <2>1, <2>2
<1>8. ASSUME NEW c \in Conn, ServerRuns(c) \/ UserActs(c) PROVE FALSE
  BY <1>8 DEF ServerRuns, UserActs, S!UiRuns, S!UiStarts, S!UiGetsLock, S!UiCancelled, S!User,
     S!UserAnswers, S!UserCancels, S!sessionVars
<1>9. ~(\E u \in Token : TimePasses(u)) /\ ~ServerInterrupt /\ ~ServerRestarts /\ ~ServerExit
      /\ ~ServerDies
  BY DEF TimePasses, ServerInterrupt, ServerRestarts, ServerExit, ServerDies, S!Ages, S!Interrupt,
     S!Exit, S!Killed, S!Forgotten, S!sessionVars, TTY!Reap
<1>10. QED
  BY <1>2, <1>3, <1>4, <1>5, <1>7, <1>8, <1>9, KindsOfSteps DEF BetweenThem, Server

\* With this client the reaper ends no session in the middle of a prompt, and nothing but it
\* and the end of a process takes a session from an application that uses it.
THEOREM OnlyTheIdleLeave == BridgeSpec => LeavesWhenIdle
<1>1. BridgeInit => TTY!PInv
  <2>1. BridgeInit => TTY!Init
    BY DEF BridgeInit, S!Init, TTY!Init, S!Free, TTY!Free, S!NoTask, TTY!NoTask
  <2>2. QED
    BY <2>1, ServerAssumptions, TTY!InitPInv
<1>2. BridgeInv /\ TTY!PInv /\ [BridgeNext]_allVars => TTY!PInv'
  BY BridgePInv
<1>3. BridgeInv /\ TTY!PInv /\ [BridgeNext]_allVars =>
        \A t \in Token :
          /\ bus # "exited" /\ Live(t) /\ told[t] = "ready"
          /\ t \in tty_sessions /\ t \notin tty_sessions'
          => \/ ServerExit \/ ServerDies
             \/ /\ ServerReaps /\ t \in tty_stale
                /\ \A c \in Conn : tty_conn[c].tok = t => tty_ui[c].pc = "none"
  <2> SUFFICES ASSUME BridgeInv, TTY!PInv, [BridgeNext]_allVars, NEW t \in Token, bus # "exited",
                      Live(t), told[t] = "ready", t \in tty_sessions, t \notin tty_sessions',
                      ~ServerExit, ~ServerDies
               PROVE  /\ ServerReaps /\ t \in tty_stale
                      /\ \A c \in Conn : tty_conn[c].tok = t => tty_ui[c].pc = "none"
    OBVIOUS
  <2>1. TTY!IInv /\ tty_client[t] = "begun"
    BY DEF BridgeInv, BegunIsKnown, HasBegun
  <2>2. tty_server # "exited"
    BY <2>1 DEF TTY!IInv, TTY!ExitedIsEmpty
  <2>3. tty_server' # "exited"
    BY <2>2, WhoEndsTheServer
  <2>4. ~ServerRestarts
    BY <2>2 DEF ServerRestarts
  <2>5. [TTY!Next]_(TTY!vars)
    BY <2>4, ServerStepsAlone
  <2>6. /\ TTY!Reap /\ t \in tty_stale
        /\ \A c \in Conn : tty_conn[c].tok = t => tty_ui[c].pc = "none"
    BY <2>1, <2>3, <2>5, ServerAssumptions, TTY!OnlyReaped
  <2>7. QED
    BY <2>3, <2>6, WhoDropsASession
<1>4. QED
  BY <1>1, <1>2, <1>3, BridgeInvariant, PTL DEF BridgeSpec, LeavesWhenIdle
-------------------------------------------------------------------------------
\* Every step of the server is one of BorrowedTerminal's, its death among them, but for its
\* restart; and then it starts with a terminal that nobody has.
LendsBetweenRestarts == [][TTY!LoanStep \/ (ServerRestarts /\ TTY!LoanStarts')]_allVars

\* Whatever dies and is started again, the prompts have the terminal one at a time and in
\* the order in which they asked, and give it back as it was, unless the server ends first.
THEOREM TerminalIsLentBetweenRestarts == BridgeSpec => LendsBetweenRestarts
<1>1. BridgeInv /\ [BridgeNext]_allVars =>
        TTY!LoanStep \/ (ServerRestarts /\ TTY!LoanStarts')
  <2> SUFFICES ASSUME BridgeInv, [BridgeNext]_allVars
               PROVE  TTY!LoanStep \/ (ServerRestarts /\ TTY!LoanStarts')
    OBVIOUS
  <2>1. CASE ServerRestarts
    <3>1. /\ tty_holder' = None /\ tty_mode' = "cooked" /\ tty_server' # "exited"
          /\ \A c \in Conn : tty_ui'[c] = TTY!NoTask
      BY <2>1 DEF ServerRestarts, S!Forgotten, S!NoTask, TTY!NoTask
    <3>2. QED
      BY <2>1, <3>1, ServerAssumptions, TTY!RestartLoan
  <2>2. CASE ~ServerRestarts
    <3>1. [TTY!Next]_(TTY!vars) /\ TTY!IInv
      BY <2>2, ServerStepsAlone DEF BridgeInv
    <3>2. QED
      BY <3>1, ServerAssumptions, TTY!NextLoan
  <2>3. QED
    BY <2>1, <2>2
<1>2. QED
  BY <1>1, BridgeInvariant, PTL DEF BridgeSpec, LendsBetweenRestarts
===============================================================================
