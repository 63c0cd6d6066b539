------------------------- MODULE SystemPrompterProofs -------------------------
(***************************************************************************)
(* The safety invariants of SystemPrompter hold for any number of          *)
(* applications, paths, sessions and tasks, whether paths are used again   *)
(* or not.                                                                 *)
(***************************************************************************)
EXTENDS SystemPrompterInv, LineLemmas

-------------------------------------------------------------------------------
(***************************************************************************)
(* What a task may become.                                                 *)
(***************************************************************************)
\* A free slot is a task state.
LEMMA IdleType == Idle \in TaskState
BY DEF Idle, TaskState, PC

\* So is a task that calls a coroutine.
LEMMA CallType ==
  ASSUME TypeOK, NEW x \in Task, NEW p \in PC
  PROVE  Call(x, p) \in TaskState
BY DEF TypeOK, TaskState, Call, Idle

-------------------------------------------------------------------------------
(***************************************************************************)
(* A step of one task that leaves the sessions and the line alone: u is    *)
(* what the task becomes.  Follows says what such a step must not lose;    *)
(* most actions are instances of it.                                       *)
(***************************************************************************)
Held == Activating \union Prompting \union Stopping

Follows(x, u) ==
  /\ u.pc \in Held => task[x].pc \in Held /\ u.sess = task[x].sess
  /\ u.pc = "finish" => u.key # None
  /\ u.pc \notin {"serving", "rpc_stop", "notify"}
  /\ u.pc = "return" => running' = x
  /\ u.pc \in Prompting => task[x].pc \in Prompting
  /\ u.pc \in Wanted => task[x].pc \in Wanted
  /\ task[x].pc \in Prompting =>
       \/ u.pc \in Prompting
       \/ u.pc = "finish" /\ u.key = obj[task[x].sess].key /\ running' = x
       \/ obj'[task[x].sess].ready /\ obj'[task[x].sess].prompt_task = None
       \/ ~Live(task[x].sess)
  /\ task[x].pc = "finish" => ~Begun(task[x].key)
  /\ WillActivate(x) =>
       \/ u.pc = "activate" \/ (u.pc \in Stopping /\ u.was)
       \/ active_key # None \/ waiting = <<>>
  /\ task[x].pc \in Wanted =>
       \/ ~Live(task[x].sess) \/ obj'[task[x].sess].ready
       \/ u.pc \in Wanted \/ (u.pc = "finish" /\ u.key = obj[task[x].sess].key)
  /\ u.pc \in Stopping => task[x].pc \in Stopping

\* The session of a task that activated it or prompted for it becomes ready.
ReadyNow(x) ==
  \E r \in Object :
    LET s == task[x].sess IN
      /\ r.key = obj[s].key /\ r.active = obj[s].active /\ r.ready
      /\ r.prompt_task \in {None, obj[s].prompt_task}
      /\ task[x].pc \in Prompting => r.prompt_task = None
      /\ obj' = [obj EXCEPT ![s] = r]

MakesReady(x, u) ==
  \/ obj' = obj
  \/ task[x].pc \in Wanted \union Prompting /\ u.pc \notin Wanted \union Prompting /\ ReadyNow(x)

\* Main sweeps on; other tasks cannot end the sweep.
Sweeps(x, u) ==
  x = Main =>
    /\ task[x].pc # "serving" /\ u.pc \notin {"idle", "sweep"}
    /\ \A k \in Key : Begun(k) /\ (k \in task[x].rest \/ (task[x].pc = "finish" /\ task[x].key = k))
         => k \in u.rest \/ (u.pc = "finish" /\ u.key = k)

\* A step of one task that Follows, and wakes nobody, preserves the invariant.
LEMMA TaskStep ==
  ASSUME IInv, NEW x \in Task, NEW u \in TaskState,
         task' = [task EXCEPT ![x] = u],
         UNCHANGED <<sessions, waiting, active_key, bus, late>>, MakesReady(x, u),
         bus # "exited",
         running \in {None, x}, running' \in {None, x},
         alive' \in SUBSET Sender,
         told' \in [Token -> {"nothing", "ready", "done"}],
         \A t \in Token : told'[t] = "done" =>
           told[t] = "done" \/ (task[x].pc \in {"rpc_stop", "notify"} /\ task[x].sess = t),
         Follows(x, u), Sweeps(x, u)
  PROVE  IInv'
<1> USE DEF IInv
<1>a. /\ obj' \in [Token -> Object]
      /\ \A t \in Token : obj'[t].key = obj[t].key /\ obj'[t].active = obj[t].active
      /\ \A t \in Token : t # task[x].sess => obj'[t] = obj[t]
      /\ \A t \in Token : /\ obj'[t].prompt_task \in {None, obj[t].prompt_task}
                          /\ obj[t].ready => obj'[t].ready
  <2>1. CASE obj' = obj
    BY <2>1 DEF TypeOK
  <2>2. CASE obj' # obj
    <3> DEFINE s == task[x].sess
    <3>1. PICK r \in Object :
            /\ r.key = obj[s].key /\ r.active = obj[s].active /\ r.ready
            /\ r.prompt_task \in {None, obj[s].prompt_task}
            /\ obj' = [obj EXCEPT ![s] = r]
      BY <2>2 DEF MakesReady, ReadyNow
    <3>2. s \in Token
      BY <2>2 DEF MakesReady, TaskShape, Wanted, TypeOK, TaskState
    <3> HIDE DEF s
    <3>3. QED
      BY <3>1, <3>2 DEF TypeOK, s
  <2>3. QED
    BY <2>1, <2>2
<1>0. /\ x # None /\ task'[x] = u /\ \A y \in Task \ {x} : task'[y] = task[y]
      /\ DOMAIN task' = Task
      /\ \A y \in Task \ {x} : task[y].pc \notin {"notify", "return"}
      /\ \A t \in Token : Live(t)' = Live(t)
      /\ \A k \in Key : Begun(k)' = Begun(k)
  BY <1>a, NoneIsFresh DEF TypeOK, LoopHeld, Live, Begun
<1>b. \A y \in Task \ {x} : task[y].pc \in Wanted \union Prompting /\ Live(task[y].sess) =>
        obj'[task[y].sess] = obj[task[y].sess]
  <2> SUFFICES ASSUME NEW y \in Task \ {x}, task[y].pc \in Wanted \union Prompting,
                      Live(task[y].sess), obj' # obj, task[y].sess = task[x].sess
               PROVE  FALSE
    <3>1. \A y \in Task : task[y].pc \in Wanted \union Prompting => task[y].sess \in Token
      BY DEF TaskShape, Wanted, TypeOK, TaskState
    <3>2. QED
      BY <1>a, <3>1
  <2>1. task[x].pc \in Wanted \union Prompting
    BY DEF MakesReady
  <2>2. task[y].sess \in Token /\ y # None
    BY NoneIsFresh DEF TaskShape, Wanted, TypeOK, TaskState
  <2>3. CASE task[y].pc \in Wanted
    BY <1>0, <2>1, <2>2, <2>3 DEF ActivatedOnce, SinglePrompter
  <2>4. CASE task[y].pc \in Prompting
    BY <1>0, <2>1, <2>2, <2>4 DEF ActivatedOnce, SinglePrompter
  <2>5. QED
    BY <2>3, <2>4
<1>1. TypeOK'
  BY <1>a DEF TypeOK
<1>2. KeysAgree'
  BY <1>a DEF KeysAgree, Begun, TypeOK
<1>3. TaskShape'
  <2>1. \A y \in Task : task[y].pc \in Held => task[y].sess \in Token
    BY DEF TaskShape, Held, TypeOK, TaskState
  <2>2. QED
    BY <1>0, <1>a, <2>1 DEF TaskShape, Follows, Held
<1>4. LoopHeld'
  BY <1>0 DEF LoopHeld, Follows
<1>5. SinglePrompter'
  <2>1. \A y \in Task : task'[y].pc \in Prompting =>
          /\ task[y].pc \in Prompting /\ task'[y].sess = task[y].sess
          /\ obj'[task[y].sess] = obj[task[y].sess]
    <3>1. u.pc \in Prompting =>
            task[x].pc \in Prompting /\ u.sess = task[x].sess /\ obj' = obj
      BY DEF Follows, Held, MakesReady
    <3>2. QED
      BY <1>0, <1>b, <3>1 DEF SinglePrompter, LiveActive
  <2>2. \A t \in Token : LiveActive(t)' = LiveActive(t)
    BY <1>0, <1>a DEF LiveActive
  <2>3. active_key # None => Begun(active_key) /\ obj'[sessions[active_key]].active
    BY <1>a DEF SinglePrompter, Begun, TypeOK
  <2>4. \A y \in Task : task[y].pc \in Prompting => task[y].sess \in Token
    BY DEF TaskShape, TypeOK, TaskState
  <2>5. QED
    BY <1>a, <2>1, <2>2, <2>3, <2>4 DEF SinglePrompter, Begun
<1>6. PromptTaskIsHers'
  <2> SUFFICES ASSUME NEW t \in Token, Live(t), obj'[t].prompt_task # None
               PROVE  LET y == obj'[t].prompt_task
                      IN \/ task'[y].pc \in Prompting /\ task'[y].sess = t
                         \/ task'[y].pc = "finish" /\ task'[y].key = obj'[t].key /\ running' = y
    BY <1>0 DEF PromptTaskIsHers
  <2> DEFINE y == obj[t].prompt_task
  <2>1. obj'[t].prompt_task = y
    BY <1>a
  <2>2. y \in Task
    BY <2>1 DEF TypeOK, Object
  <2>3. \/ task[y].pc \in Prompting /\ task[y].sess = t
        \/ task[y].pc = "finish" /\ task[y].key = obj[t].key /\ running = y
    BY <2>1 DEF PromptTaskIsHers
  <2>4. CASE y # x
    BY <1>0, <1>a, <2>1, <2>2, <2>3, <2>4 DEF Prompting
  <2>5. CASE y = x
    <3>1. Begun(obj[t].key)
      BY NoneIsFresh DEF Live, Begun
    <3>2. QED
      BY <1>0, <1>a, <2>1, <2>3, <2>5, <3>1 DEF Follows, Prompting, Held
  <2>6. QED
    BY <2>4, <2>5
<1>c. ActivatedOnce'
  <2>1. \A t \in Token : Live(t) /\ ~obj[t].active => obj'[t] = obj[t]
    <3>1. task[x].pc \in Wanted \union Prompting /\ Live(task[x].sess) => obj[task[x].sess].active
      BY DEF ActivatedOnce, SinglePrompter, LiveActive
    <3>2. QED
      BY <1>a, <3>1 DEF MakesReady
  <2>2. \A y \in Task : task'[y].pc \in Wanted =>
          task[y].pc \in Wanted /\ task'[y].sess = task[y].sess
    BY <1>0 DEF Follows, Held, Wanted
  <2>3. \A y \in Task : task'[y].pc \in Wanted /\ Live(task[y].sess) =>
          obj'[task[y].sess] = obj[task[y].sess]
    BY <1>0, <1>b DEF MakesReady
  <2>4. \A y \in Task : task[y].pc \in Wanted => task[y].sess \in Token
    BY DEF TaskShape, Wanted, TypeOK, TaskState
  <2>5. QED
    BY <1>0, <1>a, <2>1, <2>2, <2>3, <2>4 DEF ActivatedOnce
<1>7. WaitingLine'
  BY <1>a DEF WaitingLine, Begun, TypeOK
<1>8. NoLostWakeup'
  BY <1>0 DEF NoLostWakeup, WillActivate, Follows
<1>9. NoStuckSession'
  <2> SUFFICES ASSUME NEW t \in Token, LiveActive(t), ~obj'[t].ready
               PROVE  \E y \in Task : WorksFor(y, t)'
    BY <1>0, <1>a DEF NoStuckSession, LiveActive
  <2>0. ~obj[t].ready
    BY <1>a
  <2>1. PICK y \in Task : WorksFor(y, t)
    BY <2>0 DEF NoStuckSession
  <2>2. CASE y # x
    BY <1>0, <1>a, <2>1, <2>2 DEF WorksFor
  <2>3. CASE y = x
    <3>1. CASE task[x].pc \in Wanted /\ task[x].sess = t
      BY <1>0, <1>a, <3>1 DEF WorksFor, LiveActive, Follows, Wanted, Held
    <3>2. CASE task[x].pc \in Prompting /\ task[x].sess = t
      BY <1>0, <1>a, <3>2 DEF WorksFor, LiveActive, Follows, Held
    <3>3. CASE task[x].pc = "finish" /\ task[x].key = obj[t].key
      BY <3>3, NoneIsFresh DEF LiveActive, Live, Begun, Follows
    <3>4. QED
      BY <2>1, <2>3, <3>1, <3>2, <3>3 DEF WorksFor, Wanted
  <2>4. QED
    BY <2>2, <2>3
<1>10. OneFinisher'
  <2>1. \A y \in Task : task'[y].pc \in Stopping =>
          task[y].pc \in Stopping /\ task'[y].sess = task[y].sess
    <3>1. u.pc \in Stopping => task[x].pc \in Stopping /\ u.sess = task[x].sess
      BY DEF Follows, Held
    <3>2. QED
      BY <1>0, <3>1
  <2>2. \A y \in Task : task[y].pc \in Stopping => task[y].sess \in Token
    BY DEF TaskShape, TypeOK, TaskState
  <2>3. QED
    BY <1>0, <2>1, <2>2 DEF OneFinisher
<1>11. DoneIsLast'
  <2> SUFFICES ASSUME NEW t \in Token, told'[t] = "done"
               PROVE  /\ ~Live(t)
                      /\ \A y \in Task : task'[y].pc \in {"rpc_stop", "notify"} => task'[y].sess # t
                      /\ obj[t].key # None
    BY <1>0, <1>a DEF DoneIsLast
  <2>1. \A y \in Task : task'[y].pc \in {"rpc_stop", "notify"} => y # x /\ task'[y] = task[y]
    BY <1>0 DEF Follows
  <2>2. CASE told[t] = "done"
    BY <2>1, <2>2 DEF DoneIsLast
  <2>3. CASE task[x].pc \in {"rpc_stop", "notify"} /\ task[x].sess = t
    BY <1>0, <2>1, <2>3 DEF OneFinisher, TaskShape, Stopping
  <2>4. QED
    BY <2>2, <2>3
<1>12. ToBeSwept'
  <2>1. CASE x = Main
    BY <1>0, <2>1 DEF ToBeSwept, Closing, Sweeps, Begun, Follows
  <2>2. CASE x # Main
    BY <1>0, <2>2, MainIsATask DEF ToBeSwept, Closing, Begun
  <2>3. QED
    BY <2>1, <2>2
<1>13. QED
  BY <1>1, <1>2, <1>3, <1>4, <1>5, <1>6, <1>c, <1>7, <1>8, <1>9, <1>10, <1>11, <1>12
-------------------------------------------------------------------------------
(***************************************************************************)
(* The instances of TaskStep.                                              *)
(***************************************************************************)
Quiet == UNCHANGED <<sessions, waiting, active_key, obj, alive, bus, late>>

\* A task at work is not left over after the client has ended.
LEMMA Awake ==
  ASSUME IInv, NEW x \in Task, task[x].pc \notin {"idle", "serving"}
  PROVE  bus # "exited" /\ x # None
<1>1. Idle.pc = "idle"
  BY DEF Idle
<1>2. QED
  BY <1>1, NoneIsFresh DEF IInv, ToBeSwept, TypeOK

\* A coroutine returns that was not needed any more, or has made its session ready.
LEMMA ReturnStep ==
  ASSUME IInv, NEW x \in Task, running \in {None, x}, Return(x),
         UNCHANGED <<sessions, waiting, active_key, alive, bus, told, late>>,
         task[x].pc \notin {"idle", "serving"},
         \/ /\ obj' = obj
            /\ task[x].pc \notin Prompting
            /\ task[x].pc \in Wanted => ~Live(task[x].sess)
         \/ task[x].pc \in {"ready_answered", "reply_answered"} /\ ReadyNow(x),
         task[x].pc = "finish" => ~Begun(task[x].key),
         WillActivate(x) => active_key # None \/ waiting = <<>>
  PROVE  IInv'
<1> DEFINE u == IF x = Main \/ task[x].rest # {}
                THEN [Idle EXCEPT !.pc = "return", !.rest = task[x].rest] ELSE Idle
<1>1. task' = [task EXCEPT ![x] = u] /\ running' \in {None, x} /\ (u.pc = "return" => running' = x)
  BY DEF Return, Resume, Await, Idle
<1>2. /\ u.pc \in {"idle", "return"} /\ (x = Main => u.pc = "return")
      /\ u.rest = task[x].rest
  BY DEF Idle, IInv, TypeOK, TaskState
<1>3. u \in TaskState
  BY DEF Idle, IInv, TypeOK, TaskState, PC
<1> HIDE DEF u
<1>4. MakesReady(x, u)
  BY <1>2 DEF MakesReady, Wanted, Activating, Prompting
<1>5. \/ /\ task[x].pc \notin Prompting
         /\ task[x].pc \in Wanted => ~Live(task[x].sess)
      \/ /\ task[x].pc = "ready_answered" /\ obj'[task[x].sess].ready
      \/ /\ task[x].pc = "reply_answered" /\ obj'[task[x].sess].ready
         /\ obj'[task[x].sess].prompt_task = None
  <2>1. CASE task[x].pc \notin Prompting /\ (task[x].pc \in Wanted => ~Live(task[x].sess))
    BY <2>1
  <2>2. CASE task[x].pc \in {"ready_answered", "reply_answered"} /\ ReadyNow(x)
    <3>1. task[x].sess \in Token
      BY <2>2 DEF IInv, TaskShape, Activating, Prompting, TypeOK, TaskState
    <3>2. obj'[task[x].sess].ready
          /\ (task[x].pc \in Prompting => obj'[task[x].sess].prompt_task = None)
      BY <2>2, <3>1 DEF ReadyNow, IInv, TypeOK
    <3>3. QED
      BY <2>2, <3>2 DEF Prompting
  <2>3. QED
    BY <2>1, <2>2
<1>6. Follows(x, u)
  BY <1>1, <1>2, <1>5 DEF Follows, Held, Wanted, Activating, Prompting, Stopping
<1>7. Sweeps(x, u)
  BY <1>2, Awake DEF Sweeps
<1>8. QED
  BY <1>1, <1>3, <1>4, <1>6, <1>7, Awake, TaskStep DEF IInv, TypeOK

\* A task with no code of its own left to lose calls _activate_next.
LEMMA ActivateStep ==
  ASSUME IInv, NEW x \in Task, running \in {None, x}, running' = x,
         task' = [task EXCEPT ![x] = Call(x, "activate")], Quiet, UNCHANGED told,
         task[x].pc \in Stopping
  PROVE  IInv'
<1> DEFINE u == Call(x, "activate")
<1>1. u \in TaskState
  BY CallType DEF IInv, PC
<1>2. u.pc = "activate" /\ u.rest = task[x].rest
  BY DEF Call, Idle
<1> HIDE DEF u
<1>3. Follows(x, u)
  BY <1>2 DEF Follows, Held, Wanted, Activating, Prompting, Stopping, WillActivate
<1>4. bus # "exited"
  BY Awake DEF Stopping
<1>5. Sweeps(x, u)
  BY <1>2, <1>4 DEF Sweeps, Stopping
<1>6. QED
  BY <1>1, <1>3, <1>4, <1>5, TaskStep DEF Quiet, MakesReady, IInv, TypeOK, u

\* The end of _finish_session, whether it had the prompt or not.
LEMMA HandOverStep ==
  ASSUME IInv, NEW x \in Task, running \in {None, x}, HandOver(x), Quiet, UNCHANGED told,
         task[x].pc \in Stopping
  PROVE  IInv'
<1>1. CASE task[x].was
  BY <1>1, ActivateStep DEF HandOver
<1>2. CASE ~task[x].was
  <2>1. Return(x)
    BY <1>2 DEF HandOver
  <2>2. ~WillActivate(x)
    BY <1>2 DEF WillActivate, Stopping
  <2>3. QED
    BY <2>1, <2>2, ReturnStep DEF Quiet, Stopping, Prompting, Wanted, Activating
<1>3. QED
  BY <1>1, <1>2

\* A coroutine moves to its next await, and keeps its session.
LEMMA GotoStep ==
  ASSUME IInv, NEW x \in Task, NEW p \in Held \ {"rpc_stop", "notify"},
         running \in {None, x}, running' = None, Goto(x, p), Quiet,
         told' \in [Token -> {"nothing", "ready", "done"}],
         \A t \in Token : told'[t] = "done" =>
           told[t] = "done" \/ (task[x].pc \in {"rpc_stop", "notify"} /\ task[x].sess = t),
         \/ task[x].pc \in Activating /\ p \in Activating
         \/ task[x].pc \in Prompting /\ p \in Prompting
         \/ task[x].pc \in Stopping /\ p \in Stopping,
         p = "rpc_late" => ~Live(task[x].sess), task[x].pc # "rpc_late"
  PROVE  IInv'
<1> DEFINE u == [task[x] EXCEPT !.pc = p]
<1>1. p \in PC
  BY DEF Held, PC
<1>2. u \in TaskState
  BY <1>1 DEF IInv, TypeOK, TaskState
<1>3. /\ u.pc = p /\ u.sess = task[x].sess /\ u.rest = task[x].rest /\ u.was = task[x].was
      /\ u.key = task[x].key
  BY DEF IInv, TypeOK, TaskState
<1>4. task' = [task EXCEPT ![x] = u]
  BY DEF Goto, IInv, TypeOK
<1> HIDE DEF u
<1>5. Follows(x, u)
  BY <1>3 DEF Follows, Held, Wanted, Activating, Prompting, Stopping, WillActivate
<1>6. bus # "exited"
  BY Awake DEF Activating, Prompting, Stopping
<1>7. Sweeps(x, u)
  BY <1>3, <1>6 DEF Sweeps, Activating, Prompting, Stopping
<1>8. QED
  BY <1>2, <1>4, <1>5, <1>6, <1>7, TaskStep DEF Quiet, MakesReady, IInv, TypeOK

\* `except Exception' of _activate_next and of _perform_async.
LEMMA GiveUpStep ==
  ASSUME IInv, NEW x \in Task, running \in {None, x}, GiveUp(x),
         task[x].pc \in Wanted \union Prompting
  PROVE  IInv'
<1> DEFINE k == obj[task[x].sess].key
           u == [Call(x, "finish") EXCEPT !.key = k, !.done = TRUE]
<1>1. task[x].sess \in Token /\ k \in Key
  <2>1. task[x].sess # None /\ k # None
    BY DEF IInv, TaskShape, Wanted
  <2>2. task[x].sess \in Token
    BY <2>1 DEF IInv, TypeOK, TaskState
  <2>3. QED
    BY <2>1, <2>2 DEF IInv, TypeOK, Object
<1>2. Call(x, "finish") \in TaskState
  BY CallType DEF IInv, PC
<1>3. u \in TaskState /\ u.pc = "finish" /\ u.key = k /\ u.rest = task[x].rest
  BY <1>1, <1>2 DEF TaskState, Call, Idle
<1>4. task' = [task EXCEPT ![x] = u] /\ running' = x
  BY DEF GiveUp
<1> HIDE DEF u
<1>5. k # None
  BY <1>1, NoneIsFresh DEF Key
<1>6. Follows(x, u)
  BY <1>3, <1>4, <1>5 DEF Follows, Held, Wanted, Activating, Prompting, Stopping, WillActivate
<1>7. bus # "exited"
  BY Awake DEF Wanted, Activating, Prompting
<1>8. Sweeps(x, u)
  BY <1>3, <1>7 DEF Sweeps, Wanted, Activating, Prompting
<1>9. QED
  BY <1>3, <1>4, <1>6, <1>7, <1>8, TaskStep DEF GiveUp, MakesReady, IInv, TypeOK

\* A handler creates a task that has nothing in hand yet.
LEMMA CreateStep ==
  ASSUME IInv, NEW u \in TaskState, CreateTask(u), u.pc \in {"finish", "sweep"},
         u.pc = "finish" => u.key # None,
         UNCHANGED <<sessions, waiting, active_key, obj, running, bus, told, late>>,
         bus = "up", running = None, alive' \in SUBSET Sender
  PROVE  IInv'
<1>1. PICK x \in Task \ {Main} : task[x] = Idle /\ task' = [task EXCEPT ![x] = u]
  BY DEF CreateTask
<1>2. task[x].pc = "idle"
  BY <1>1 DEF Idle
<1>3. Follows(x, u)
  BY <1>2 DEF Follows, Held, Wanted, Activating, Prompting, Stopping, WillActivate
<1>4. QED
  BY <1>1, <1>3, TaskStep DEF Sweeps, MakesReady, IInv, TypeOK
-------------------------------------------------------------------------------
(***************************************************************************)
(* The actions of a task, but FinishSession.                               *)
(***************************************************************************)
\* Whoever is in the line has begun and has not had the prompt.
LEMMA LineBegun ==
  ASSUME IInv, NEW i \in 1..Len(waiting)
  PROVE  waiting[i] \in Key /\ Begun(waiting[i]) /\ ~obj[sessions[waiting[i]]].active
<1>1. DOMAIN waiting = 1..Len(waiting)
  BY LenProperties DEF IInv, TypeOK
<1>2. waiting[i] \in ToSet(waiting)
  BY <1>1 DEF ToSet
<1>3. QED
  BY <1>2 DEF IInv, WaitingLine

\* _activate_next finds the prompt taken, or the line empty.
LEMMA ActivateNobodyStep ==
  ASSUME IInv, NEW x \in Task, ActivateNobody(x) PROVE IInv'
<1>1. active_key # None \/ waiting = <<>>
  <2> SUFFICES ASSUME active_key = None, waiting # <<>> PROVE FALSE
    OBVIOUS
  <2>1. 1 \in 1..Len(waiting) /\ DOMAIN waiting = 1..Len(waiting)
    BY BehindTheFirst, LenProperties DEF IInv, TypeOK
  <2>2. QED
    BY <2>1, LineBegun DEF ActivateNobody, NobodyToActivate
<1>2. UNCHANGED waiting
  BY <1>1 DEF ActivateNobody
<1>3. task[x].pc = "activate" /\ running \in {None, x}
  BY DEF ActivateNobody, At
<1>4. QED
  BY <1>1, <1>2, <1>3, ReturnStep DEF ActivateNobody, Prompting, Wanted, Activating

\* The TTY server made the session: PromptReady is sent.
LEMMA BeginReturnsStep ==
  ASSUME IInv, NEW x \in Task, BeginReturns(x) PROVE IInv'
<1>1. task[x].pc = "rpc_begin" /\ running \in {None, x} /\ Goto(x, "ready_sent")
  BY DEF BeginReturns, At, SendCallback
<1>2. told' = [told EXCEPT ![task[x].sess] = "ready"]
  BY DEF BeginReturns, SendCallback
<1>3. QED
  BY <1>1, <1>2, GotoStep
     DEF BeginReturns, SendCallback, Await, Held, Activating, Quiet, IInv, TypeOK

\* The TTY server made a session that is not wanted any more.
LEMMA BeginReturnsLateStep ==
  ASSUME IInv, NEW x \in Task, BeginReturnsLate(x) PROVE IInv'
<1>1. task[x].pc = "rpc_begin" /\ running \in {None, x} /\ Goto(x, "rpc_late")
  BY DEF BeginReturnsLate, At
<1>2. ~Live(task[x].sess)
  <2>1. task[x].sess \in Token
    BY <1>1 DEF IInv, TaskShape, Activating, TypeOK, TaskState
  <2>2. QED
    BY <2>1, NoneIsFresh DEF BeginReturnsLate, StillBegun, Begun, Live
<1>3. QED
  BY <1>1, <1>2, GotoStep DEF BeginReturnsLate, Await, Held, Activating, Quiet, IInv, TypeOK

\* A "begin", a callback or a prompt failed.
LEMMA GiveUpActionsStep ==
  ASSUME IInv, NEW x \in Task, BeginFails(x) \/ CallbackFails(x) \/ PromptFails(x) PROVE IInv'
BY GiveUpStep DEF BeginFails, CallbackFails, PromptFails, At, Wanted, Activating, Prompting

\* The unwanted session is torn down.
LEMMA LateStopReturnsStep ==
  ASSUME IInv, NEW x \in Task, LateStopReturns(x) PROVE IInv'
BY ReturnStep DEF LateStopReturns, At, Wanted, Activating, Prompting, Stopping, WillActivate

\* The application answered PromptReady.
LEMMA CallbackAnswersStep ==
  ASSUME IInv, NEW x \in Task, CallbackAnswers(x) PROVE IInv'
BY GotoStep DEF CallbackAnswers, Held, Activating, Prompting, Quiet, IInv, TypeOK

\* The user answered: the reply is sent with PromptReady.
LEMMA PromptReturnsStep ==
  ASSUME IInv, NEW x \in Task, PromptReturns(x) PROVE IInv'
<1>1. task[x].pc = "rpc_prompt" /\ running \in {None, x} /\ Goto(x, "reply_sent")
  BY DEF PromptReturns, At, SendCallback
<1>2. told' = [told EXCEPT ![task[x].sess] = "ready"]
  BY DEF PromptReturns, SendCallback
<1>3. QED
  BY <1>1, <1>2, GotoStep
     DEF PromptReturns, SendCallback, Await, Held, Prompting, Quiet, IInv, TypeOK

\* A task resumes after PromptReady, at first or after a prompt.
LEMMA ResumesStep ==
  ASSUME IInv, NEW x \in Task, ReadyResumes(x) \/ ReplyResumes(x) PROVE IInv'
<1> DEFINE t == task[x].sess
<1>1. t \in Token /\ obj[t] \in Object
  BY DEF ReadyResumes, ReplyResumes, At, IInv, TaskShape, Activating, Prompting, TypeOK, TaskState
<1>2. running \in {None, x} /\ Return(x) /\ UNCHANGED <<sessions, waiting, active_key, alive, bus, told, late>>
  BY DEF ReadyResumes, ReplyResumes, At
<1>3. CASE ReadyResumes(x) /\ ~StillBegun(t)
  <2>1. task[x].pc = "ready_answered" /\ obj' = obj
    BY <1>3 DEF ReadyResumes, At
  <2>2. ~Live(t)
    BY <1>1, <1>3, NoneIsFresh DEF StillBegun, Begun, Live
  <2>3. QED
    BY <1>2, <2>1, <2>2, ReturnStep DEF Prompting, WillActivate, Stopping
<1>4. CASE ReadyResumes(x) /\ StillBegun(t)
  <2> DEFINE r == [obj[t] EXCEPT !.ready = TRUE]
  <2>1. task[x].pc = "ready_answered" /\ obj' = [obj EXCEPT ![t] = r]
    BY <1>1, <1>4 DEF ReadyResumes, At, IInv, TypeOK
  <2>2. /\ r \in Object /\ r.ready /\ r.key = obj[t].key /\ r.active = obj[t].active
        /\ r.prompt_task = obj[t].prompt_task
    BY <1>1 DEF Object
  <2>3. ReadyNow(x)
    BY <2>1, <2>2 DEF ReadyNow, Prompting
  <2>4. QED
    BY <1>2, <2>1, <2>3, ReturnStep DEF Prompting, WillActivate, Stopping
<1>5. CASE ReplyResumes(x)
  <2> DEFINE r == [obj[t] EXCEPT !.ready = TRUE, !.prompt_task = None]
  <2>1. task[x].pc = "reply_answered"
    BY <1>5 DEF ReplyResumes, At
  <2>2. StillBegun(t)
    BY <1>1, <2>1, NoneIsFresh DEF IInv, SinglePrompter, LiveActive, Live, Prompting, StillBegun, Begun
  <2>3. obj' = [obj EXCEPT ![t] = r]
    BY <1>1, <1>5, <2>2 DEF ReplyResumes, IInv, TypeOK
  <2>4. /\ r \in Object /\ r.ready /\ r.key = obj[t].key /\ r.active = obj[t].active
        /\ r.prompt_task = None
    BY <1>1 DEF Object
  <2>5. ReadyNow(x)
    BY <2>3, <2>4 DEF ReadyNow
  <2>6. QED
    BY <1>2, <2>1, <2>5, ReturnStep DEF Prompting, WillActivate, Stopping
<1>6. QED
  BY <1>3, <1>4, <1>5

\* _finish_session of a session that is gone.
LEMMA FinishNothingStep ==
  ASSUME IInv, NEW x \in Task, FinishNothing(x) PROVE IInv'
BY ReturnStep DEF FinishNothing, At, Wanted, Activating, Prompting, Stopping, WillActivate

\* PromptDone is sent, or the prompt is handed over without it.
LEMMA NotifyStep ==
  ASSUME IInv, NEW x \in Task, Notify(x) PROVE IInv'
<1>1. task[x].pc \in {"rpc_stop", "notify"} /\ running \in {None, x}
  BY DEF Notify, At
<1>2. CASE task[x].done
  <2>1. /\ Goto(x, "done_sent")
        /\ told' = [told EXCEPT ![task[x].sess] = "done"]
        /\ running' = None
    BY <1>2 DEF Notify, SendCallback, Await
  <2>2. \A t \in Token : told'[t] = "done" => told[t] = "done" \/ task[x].sess = t
    BY <2>1 DEF IInv, TypeOK
  <2>3. told' \in [Token -> {"nothing", "ready", "done"}]
    BY <2>1 DEF IInv, TypeOK
  <2>4. QED
    BY <1>1, <2>1, <2>2, <2>3, GotoStep
       DEF Notify, Held, Activating, Prompting, Stopping, Quiet, IInv, TypeOK
<1>3. CASE ~task[x].done
  BY <1>1, <1>3, HandOverStep DEF Notify, Quiet, Stopping
<1>4. QED
  BY <1>2, <1>3

\* PromptDone was answered.
LEMMA DoneReturnsStep ==
  ASSUME IInv, NEW x \in Task, DoneReturns(x) PROVE IInv'
BY HandOverStep DEF DoneReturns, At, Quiet, Stopping

\* close or _sender_vanished takes its snapshot of the keys.
LEMMA StartSweepStep ==
  ASSUME IInv, NEW x \in Task, StartSweep(x) PROVE IInv'
<1> DEFINE r == {k \in task[x].rest : Begun(k)}
           u == IF x = Main \/ r # {} THEN [Idle EXCEPT !.pc = "return", !.rest = r] ELSE Idle
<1>1. task[x].pc = "sweep" /\ running \in {None, x}
  BY DEF StartSweep, At
<1>2. task' = [task EXCEPT ![x] = u] /\ running' \in {None, x} /\ (u.pc = "return" => running' = x)
  BY DEF StartSweep, Resume, Await, Idle
<1>3. /\ u.pc \in {"idle", "return"} /\ (x = Main => u.pc = "return")
      /\ u.rest = r
  BY DEF Idle, IInv, TypeOK, TaskState
<1>4. u \in TaskState
  BY DEF Idle, IInv, TypeOK, TaskState, PC
<1> HIDE DEF u
<1>5. Follows(x, u)
  BY <1>1, <1>2, <1>3 DEF Follows, Held, Wanted, Activating, Prompting, Stopping, WillActivate
<1>6. bus # "exited"
  BY <1>1, Awake
<1>7. Sweeps(x, u)
  BY <1>1, <1>3, <1>6 DEF Sweeps
<1>8. QED
  BY <1>1, <1>2, <1>4, <1>5, <1>6, <1>7, TaskStep DEF StartSweep, MakesReady, IInv, TypeOK

\* It finishes the next key of the snapshot.
LEMMA SweepNextStep ==
  ASSUME IInv, NEW x \in Task, SweepNext(x) PROVE IInv'
<1>1. task[x].pc = "return" /\ running \in {None, x} /\ running' = x
  BY DEF SweepNext, At
<1>2. PICK k \in task[x].rest :
        task' = [task EXCEPT ![x] =
          [Idle EXCEPT !.pc = "finish", !.key = k, !.rest = task[x].rest \ {k}]]
  BY DEF SweepNext
<1> DEFINE u == [Idle EXCEPT !.pc = "finish", !.key = k, !.rest = task[x].rest \ {k}]
<1>3. k \in Key /\ k # None
  BY NoneIsFresh DEF IInv, TypeOK, TaskState, Key
<1>4. u.pc = "finish" /\ u.key = k /\ u.rest = task[x].rest \ {k}
  BY DEF Idle
<1>5. u \in TaskState
  BY <1>3 DEF Idle, IInv, TypeOK, TaskState, PC
<1>6. task' = [task EXCEPT ![x] = u]
  BY <1>2
<1> HIDE DEF u
<1>7. Follows(x, u)
  BY <1>1, <1>3, <1>4 DEF Follows, Held, Wanted, Activating, Prompting, Stopping, WillActivate
<1>8. bus # "exited"
  BY <1>1, Awake
<1>9. Sweeps(x, u)
  BY <1>1, <1>4, <1>8 DEF Sweeps
<1>10. QED
  BY <1>1, <1>5, <1>6, <1>7, <1>8, <1>9, TaskStep DEF SweepNext, MakesReady, IInv, TypeOK

\* StopPrompting creates its task.
LEMMA StopStep ==
  ASSUME IInv, NEW k \in Key, Stop(k) PROVE IInv'
<1> DEFINE u == [Idle EXCEPT !.pc = "finish", !.key = k, !.done = TRUE]
<1>1. u \in TaskState /\ u.pc = "finish" /\ u.key = k
  BY DEF Idle, TaskState, PC
<1>2. k # None
  BY NoneIsFresh DEF Key
<1>3. CreateTask(u)
  BY DEF Stop
<1> HIDE DEF u
<1>4. QED
  BY <1>1, <1>2, <1>3, CreateStep DEF Stop, Dispatch, IInv, TypeOK

\* NameOwnerChanged creates its task.
LEMMA SenderVanishesStep ==
  ASSUME IInv, NEW s \in Sender, SenderVanishes(s) PROVE IInv'
<1> DEFINE u == [Idle EXCEPT !.pc = "sweep", !.rest = {k \in Key : k[1] = s}]
<1>1. u \in TaskState /\ u.pc = "sweep"
  BY DEF Idle, TaskState, PC
<1>2. CreateTask(u)
  BY DEF SenderVanishes
<1> HIDE DEF u
<1>3. QED
  BY <1>1, <1>2, CreateStep DEF SenderVanishes, Dispatch, IInv, TypeOK

\* A refused call, like any stutter, changes nothing.
LEMMA StutterStep ==
  ASSUME IInv, UNCHANGED vars PROVE IInv'
BY DEF vars, IInv, TypeOK, KeysAgree, TaskShape, LoopHeld, SinglePrompter, LiveActive, Live, Begun,
       PromptTaskIsHers, ActivatedOnce, WaitingLine, NoLostWakeup, WillActivate, NoStuckSession,
       WorksFor, OneFinisher, DoneIsLast, ToBeSwept, Closing
-------------------------------------------------------------------------------
(***************************************************************************)
(* The steps that change the dict, the deque or active_key.                *)
(***************************************************************************)
\* BeginPrompting puts a new session in the dict and at the end of the line, and creates a
\* task that will activate the first.
LEMMA BeginAcceptedStep ==
  ASSUME IInv, NEW k \in Key, BeginAccepted(k) PROVE IInv'
<1> USE DEF IInv
<1> DEFINE v == [Idle EXCEPT !.pc = "activate"]
<1>1. PICK t \in Token :
        /\ Fresh(t, k)
        /\ obj' = [obj EXCEPT ![t].key = k]
        /\ sessions' = [sessions EXCEPT ![k] = t]
        /\ late' = IF Closing THEN late \union {t} ELSE late
  BY DEF BeginAccepted
<1>2. PICK x \in Task \ {Main} : task[x] = Idle /\ task' = [task EXCEPT ![x] = v]
  BY DEF BeginAccepted, CreateTask
<1>3. v.pc = "activate" /\ v \in TaskState
  BY DEF Idle, TaskState, PC
<1> HIDE DEF v
<1>4. /\ running = None /\ bus = "up" /\ ~Begun(k) /\ waiting' = Append(waiting, k)
      /\ UNCHANGED <<active_key, running, alive, bus, told>>
  BY DEF BeginAccepted, Dispatch
<1>5. /\ t # None /\ k # None /\ x # None
      /\ obj[t].key = None /\ obj'[t].key = k
      /\ ~obj'[t].active /\ ~obj'[t].ready /\ obj'[t].prompt_task = None
      /\ \A u \in Token \ {t} : obj'[u] = obj[u]
      /\ sessions'[k] = t /\ \A j \in Key \ {k} : sessions'[j] = sessions[j]
  BY <1>1, NoneIsFresh DEF Fresh, Unmade, TypeOK, Object, Key
<1>6. /\ task[x].pc = "idle" /\ task'[x] = v /\ \A y \in Task \ {x} : task'[y] = task[y]
      /\ \A y \in Task : task[y].pc \notin {"notify", "return"}
  BY <1>2, <1>4, NoneIsFresh DEF TypeOK, Idle, LoopHeld
<1>7. /\ ~Live(t) /\ Live(t)'
      /\ \A u \in Token \ {t} : Live(u)' = Live(u)
      /\ \A j \in Key : Begun(j)' = (j = k \/ Begun(j))
  <2>1. \A u \in Token \ {t} : Live(u) => obj[u].key # k
    BY <1>4, <1>5, NoneIsFresh DEF Live, Begun
  <2>2. \A u \in Token : obj[u].key # None => obj[u].key \in Key
    BY DEF TypeOK, Object
  <2>3. QED
    BY <1>4, <1>5, <2>1, <2>2 DEF Live, Begun
<1>8. \A y \in Task : task[y].pc \in Held => task[y].sess \in Token \ {t}
  BY <1>5 DEF TaskShape, Held, TypeOK, TaskState
<1>9. \A j \in Key \ {k} : Begun(j) => sessions[j] \in Token \ {t}
  BY <1>5, NoneIsFresh DEF Begun, KeysAgree, TypeOK, Key
<1>10. TypeOK'
  <2>1. obj' \in [Token -> Object]
    BY <1>1 DEF TypeOK, Object
  <2>2. waiting' \in Seq(Key)
    BY <1>4 DEF TypeOK
  <2>3. QED
    BY <1>1, <1>2, <1>3, <1>4, <2>1, <2>2 DEF TypeOK
<1>11. KeysAgree'
  BY <1>5, <1>7, <1>9 DEF KeysAgree, Begun
<1>12. TaskShape'
  BY <1>2, <1>3, <1>5, <1>6, <1>8 DEF TaskShape, Held, Activating, Prompting, Stopping
<1>13. LoopHeld'
  BY <1>3, <1>4, <1>6 DEF LoopHeld
<1>14. SinglePrompter'
  <2>1. \A u \in Token : LiveActive(u)' => u # t /\ LiveActive(u)
    BY <1>5, <1>7 DEF LiveActive
  <2>2. active_key # None => active_key \in Key \ {k}
    BY <1>4 DEF SinglePrompter, TypeOK
  <2>3. \A y \in Task : task'[y].pc \in Prompting => task'[y] = task[y] /\ task[y].sess \in Token \ {t}
    BY <1>3, <1>6, <1>8 DEF Prompting, Held
  <2>4. QED
    BY <1>4, <1>5, <1>7, <1>9, <2>1, <2>2, <2>3 DEF SinglePrompter, LiveActive, Begun
<1>15. PromptTaskIsHers'
  <2>1. \A u \in Token : Live(u)' /\ obj'[u].prompt_task # None => u # t /\ Live(u) /\ obj'[u] = obj[u]
    BY <1>5, <1>7
  <2>2. \A y \in Task : task[y].pc \in Prompting \union {"finish"} => task'[y] = task[y]
    BY <1>6 DEF Prompting
  <2>3. \A u \in Token : obj[u].prompt_task # None => obj[u].prompt_task \in Task
    BY DEF TypeOK, Object
  <2>4. QED
    BY <1>4, <2>1, <2>2, <2>3 DEF PromptTaskIsHers
<1>16. ActivatedOnce'
  BY <1>3, <1>5, <1>6, <1>7, <1>8 DEF ActivatedOnce, Wanted, Activating, Held
<1>17. WaitingLine'
  <2>1. k \notin ToSet(waiting)
    BY <1>4 DEF WaitingLine
  <2>2. IsInjective(waiting') /\ ToSet(waiting') = ToSet(waiting) \union {k}
    BY <1>4, <2>1, AppendElements DEF WaitingLine, TypeOK
  <2>3. \A j \in Key : Begun(j)' /\ ~obj'[sessions'[j]].active
                         <=> (j = k \/ (Begun(j) /\ ~obj[sessions[j]].active))
    BY <1>5, <1>7, <1>9
  <2>4. QED
    BY <2>2, <2>3 DEF WaitingLine
<1>18. NoLostWakeup'
  BY <1>3, <1>6 DEF NoLostWakeup, WillActivate
<1>19. NoStuckSession'
  <2>1. \A u \in Token : LiveActive(u)' => u # t /\ LiveActive(u) /\ obj'[u] = obj[u]
    BY <1>5, <1>7 DEF LiveActive
  <2>2. \A y \in Task : \A u \in Token \ {t} : WorksFor(y, u) => WorksFor(y, u)'
    BY <1>5, <1>6 DEF WorksFor, Activating, Prompting
  <2>3. QED
    BY <1>4, <2>1, <2>2 DEF NoStuckSession
<1>20. OneFinisher'
  BY <1>3, <1>6, <1>7, <1>8 DEF OneFinisher, Stopping, Held
<1>21. DoneIsLast'
  BY <1>3, <1>4, <1>5, <1>6, <1>7 DEF DoneIsLast
<1>22. ToBeSwept'
  <2>1. task'[Main] = task[Main] /\ Closing' = Closing
    BY <1>6, MainIsATask, <1>2 DEF Closing
  <2>2. late \subseteq late' /\ (Closing => t \in late')
    BY <1>1
  <2>3. task[Main].pc = "sweep" => k \in task[Main].rest
    BY DEF ToBeSwept
  <2>4. bus' = bus /\ bus # "exited" /\ task[Main].pc # "idle"
    BY <1>4 DEF ToBeSwept
  <2>5. Closing => \A j \in Key : Begun(j)' =>
          \/ sessions'[j] \in late'
          \/ j \in task[Main].rest
          \/ task[Main].pc = "finish" /\ task[Main].key = j
    BY <1>5, <1>7, <2>2, <2>4 DEF ToBeSwept
  <2>6. QED
    BY <2>1, <2>4, <2>5 DEF ToBeSwept
<1>23. QED
  BY <1>10, <1>11, <1>12, <1>13, <1>14, <1>15, <1>16, <1>17, <1>18, <1>19, <1>20, <1>21, <1>22

\* PerformPrompt takes the session's readiness, and creates the task of its prompt.
LEMMA PerformAcceptedStep ==
  ASSUME IInv, NEW k \in Key, PerformAccepted(k) PROVE IInv'
<1> USE DEF IInv
<1>2. PICK t \in Token : t = sessions[k] /\ Begun(k) /\ obj[t].active /\ obj[t].ready
  BY DEF PerformAccepted, HasPrompter, IsReady, Begun, TypeOK
<1> DEFINE v == [Idle EXCEPT !.pc = "rpc_prompt", !.sess = t]
<1>1. PICK x \in Task \ {Main} :
        /\ task[x] = Idle
        /\ task' = [task EXCEPT ![x] = v]
        /\ obj' = [obj EXCEPT ![t].ready = FALSE, ![t].prompt_task = x]
  BY <1>2 DEF PerformAccepted
<1>3. v.pc = "rpc_prompt" /\ v.sess = t /\ v \in TaskState
  BY <1>2 DEF Idle, TaskState, PC, Prompting
<1> HIDE DEF v
<1>4. /\ running = None /\ bus = "up"
      /\ UNCHANGED <<sessions, waiting, active_key, running, alive, bus, told, late>>
  BY DEF PerformAccepted, Dispatch
<1>5. /\ x # None /\ t # None /\ k # None /\ obj[t].key = k /\ LiveActive(t)
      /\ obj'[t].key = k /\ obj'[t].active /\ ~obj'[t].ready /\ obj'[t].prompt_task = x
      /\ \A u \in Token \ {t} : obj'[u] = obj[u]
      /\ \A u \in Token : obj'[u].key = obj[u].key /\ obj'[u].active = obj[u].active
  BY <1>1, <1>2, NoneIsFresh DEF KeysAgree, Begun, LiveActive, Live, TypeOK, Object, Key
<1>6. /\ task[x].pc = "idle" /\ task'[x] = v /\ \A y \in Task \ {x} : task'[y] = task[y]
  BY <1>1 DEF TypeOK, Idle
<1>7. /\ \A u \in Token : Live(u)' = Live(u) /\ LiveActive(u)' = LiveActive(u)
      /\ \A j \in Key : Begun(j)' = Begun(j)
  BY <1>4, <1>5 DEF Live, LiveActive, Begun
<1>8. \A y \in Task : task[y].pc \in Held => task[y].sess \in Token
  BY DEF TaskShape, Held, TypeOK, TaskState
<1>9. /\ \A y \in Task : task[y].pc \in Prompting => task[y].sess # t
      /\ \A y \in Task : task[y].pc \in Wanted => task[y].sess # t
  BY <1>2, <1>5 DEF SinglePrompter, ActivatedOnce, LiveActive
<1>10. TypeOK'
  <2> DEFINE r == [obj[t] EXCEPT !.ready = FALSE, !.prompt_task = x]
  <2>0. r \in Object
    <3>1. obj[t] \in Object
      BY <1>2 DEF TypeOK
    <3>2. QED
      BY <3>1 DEF Object
  <2>1. obj' \in [Token -> Object]
    <3>1. obj' = [obj EXCEPT ![t] = r]
      BY <1>1, <1>2 DEF TypeOK
    <3>2. QED
      BY <2>0, <3>1 DEF TypeOK
  <2>2. QED
    BY <1>1, <1>3, <1>4, <2>1 DEF TypeOK
<1>11. KeysAgree'
  BY <1>4, <1>5, <1>7 DEF KeysAgree, Begun, TypeOK
<1>12. TaskShape'
  BY <1>3, <1>5, <1>6, <1>8 DEF TaskShape, Held, Prompting
<1>13. LoopHeld'
  BY <1>3, <1>4, <1>6 DEF LoopHeld
<1>14. SinglePrompter'
  <2>1. \A y \in Task : task'[y].pc \in Prompting =>
          \/ y = x /\ task'[y].sess = t
          \/ task'[y] = task[y] /\ task[y].sess \in Token \ {t}
    BY <1>3, <1>6, <1>8, <1>9 DEF Held
  <2>2. \A u \in Token : LiveActive(u)' => active_key' = obj'[u].key
    BY <1>4, <1>5, <1>7 DEF SinglePrompter
  <2>3. active_key' # None => Begun(active_key)' /\ obj'[sessions'[active_key']].active
    BY <1>4, <1>5, <1>7 DEF SinglePrompter, Begun, TypeOK
  <2>4. (\A y \in Task : task[y].pc \in Prompting =>
           LET u == task[y].sess
           IN LiveActive(u) /\ obj[u].prompt_task = y /\ ~obj[u].ready)'
    BY <1>5, <1>7, <2>1 DEF SinglePrompter, LiveActive
  <2>5. QED
    BY <2>2, <2>3, <2>4 DEF SinglePrompter
<1>15. PromptTaskIsHers'
  <2>1. \A u \in Token \ {t} : obj[u].prompt_task # None => obj[u].prompt_task \in Task
    BY DEF TypeOK, Object
  <2>2. \A y \in Task : task[y].pc \in Prompting \union {"finish"} => task'[y] = task[y]
    BY <1>6 DEF Prompting
  <2>3. task'[x].pc \in Prompting /\ task'[x].sess = t
    BY <1>3, <1>6 DEF Prompting
  <2>4. QED
    BY <1>4, <1>5, <1>7, <2>1, <2>2, <2>3 DEF PromptTaskIsHers
<1>16. ActivatedOnce'
  <2>1. \A y \in Task : task'[y].pc \in Wanted => task'[y] = task[y] /\ task[y].sess \in Token \ {t}
    BY <1>3, <1>6, <1>8, <1>9 DEF Wanted, Held, Activating
  <2>2. QED
    BY <1>5, <1>6, <1>7, <2>1 DEF ActivatedOnce
<1>17. WaitingLine'
  BY <1>4, <1>5, <1>7 DEF WaitingLine, Begun, TypeOK
<1>18. NoLostWakeup'
  BY <1>4, <1>6 DEF NoLostWakeup, WillActivate, Stopping
<1>19. NoStuckSession'
  <2>1. WorksFor(x, t)'
    BY <1>3, <1>6 DEF WorksFor, Prompting
  <2>2. \A y \in Task : \A u \in Token \ {t} : WorksFor(y, u) => WorksFor(y, u)'
    BY <1>5, <1>6 DEF WorksFor, Activating, Prompting
  <2>3. QED
    BY <1>4, <1>5, <1>7, <2>1, <2>2 DEF NoStuckSession
<1>20. OneFinisher'
  BY <1>3, <1>6, <1>7, <1>8 DEF OneFinisher, Stopping, Held
<1>21. DoneIsLast'
  BY <1>3, <1>4, <1>5, <1>6, <1>7 DEF DoneIsLast
<1>22. ToBeSwept'
  BY <1>1, <1>4, <1>6, <1>7, MainIsATask DEF ToBeSwept, Closing
<1>23. QED
  BY <1>10, <1>11, <1>12, <1>13, <1>14, <1>15, <1>16, <1>17, <1>18, <1>19, <1>20, <1>21, <1>22

\* _activate_next gives the prompt to the first of the line, who has begun.
LEMMA ActivateFirstStep ==
  ASSUME IInv, NEW x \in Task, ActivateFirst(x) PROVE IInv'
<1> USE DEF IInv
<1>1. task[x].pc = "activate" /\ running \in {None, x} /\ x # None /\ active_key = None
  BY NoneIsFresh DEF ActivateFirst, At, NobodyToActivate
<1>2. PICK i \in 1..Len(waiting) :
        /\ FirstBegun(i)
        /\ waiting' = SubSeq(waiting, i + 1, Len(waiting))
        /\ active_key' = waiting[i]
        /\ obj' = [obj EXCEPT ![sessions[waiting[i]]].active = TRUE]
        /\ task' = [task EXCEPT ![x].pc = "rpc_begin", ![x].sess = sessions[waiting[i]]]
  <2>1. DOMAIN waiting = 1..Len(waiting)
    BY LenProperties DEF TypeOK
  <2>2. QED
    BY <2>1 DEF ActivateFirst
<1>3. i = 1
  <2> SUFFICES ASSUME i # 1 PROVE FALSE
    OBVIOUS
  <2>1. Len(waiting) \in Nat
    BY LenProperties DEF TypeOK
  <2>2. 1 \in 1..i - 1 /\ 1 \in 1..Len(waiting)
    BY <2>1
  <2>3. QED
    BY <1>2, <2>2, LineBegun DEF FirstBegun
<1>4. PICK k \in Key : k = waiting[1] /\ Begun(k) /\ ~obj[sessions[k]].active
  BY <1>2, <1>3, LineBegun
<1>5. PICK t \in Token : t = sessions[k] /\ t # None
  BY <1>4, NoneIsFresh DEF TypeOK, Begun
<1> DEFINE v == [task[x] EXCEPT !.pc = "rpc_begin", !.sess = t]
<1>6. /\ v.pc = "rpc_begin" /\ v.sess = t /\ v.rest = task[x].rest /\ v \in TaskState
      /\ task' = [task EXCEPT ![x] = v]
  BY <1>2, <1>3, <1>4, <1>5 DEF TypeOK, TaskState, PC, Activating
<1> HIDE DEF v
<1>7. /\ waiting' = CloseUp(waiting, 1) /\ 1 \in 1..Len(waiting)
      /\ active_key' = k /\ running' = None
      /\ UNCHANGED <<sessions, alive, bus, told, late>>
  <2>1. waiting # <<>>
    BY <1>2, LenProperties DEF TypeOK
  <2>2. SubSeq(waiting, 2, Len(waiting)) = CloseUp(waiting, 1) /\ 1 \in 1..Len(waiting)
    BY <2>1, BehindTheFirst DEF TypeOK
  <2>3. QED
    BY <1>2, <1>3, <1>4, <2>2 DEF ActivateFirst, Await
<1>8. /\ k # None /\ obj[t].key = k /\ Live(t) /\ ~obj[t].active
      /\ ~obj[t].ready /\ obj[t].prompt_task = None
      /\ obj'[t].active /\ obj'[t].ready = obj[t].ready /\ obj'[t].prompt_task = obj[t].prompt_task
      /\ \A u \in Token \ {t} : obj'[u] = obj[u]
      /\ \A u \in Token : obj'[u].key = obj[u].key
      /\ obj' \in [Token -> Object]
  <2>1. k # None /\ obj[t].key = k /\ Live(t) /\ ~obj[t].active
    BY <1>4, <1>5, NoneIsFresh DEF KeysAgree, Live, Key
  <2>2. ~obj[t].ready /\ obj[t].prompt_task = None
    BY <2>1 DEF ActivatedOnce
  <2>3. obj' = [obj EXCEPT ![t].active = TRUE]
    BY <1>2, <1>3, <1>4, <1>5
  <2> DEFINE r == [obj[t] EXCEPT !.active = TRUE]
  <2>4. r \in Object /\ r.active /\ r.ready = obj[t].ready
        /\ r.prompt_task = obj[t].prompt_task /\ r.key = obj[t].key
    BY DEF TypeOK, Object
  <2>5. obj' = [obj EXCEPT ![t] = r]
    BY <2>3 DEF TypeOK
  <2> HIDE DEF r
  <2>6. QED
    BY <2>1, <2>2, <2>4, <2>5 DEF TypeOK
<1>9. task'[x] = v /\ \A y \in Task \ {x} : task'[y] = task[y]
  BY <1>6 DEF TypeOK
<1>10. /\ \A u \in Token : Live(u)' = Live(u)
       /\ \A u \in Token : ~LiveActive(u)
       /\ \A j \in Key : Begun(j)' = Begun(j)
  <2>1. \A u \in Token : LiveActive(u) => obj[u].key = None
    BY <1>1 DEF SinglePrompter
  <2>2. QED
    BY <1>7, <1>8, <2>1 DEF Live, LiveActive, Begun
<1>11. \A y \in Task : task[y].pc \in Held => task[y].sess \in Token
  BY DEF TaskShape, Held, TypeOK, TaskState
<1>12. \A y \in Task : task[y].pc \notin Prompting
  BY <1>10, <1>11 DEF SinglePrompter, Held
<1>13. \A y \in Task : task[y].pc \in Wanted => ~Live(task[y].sess)
  BY <1>10, <1>11 DEF ActivatedOnce, LiveActive, Wanted, Held
<1>14. \A y \in Task \ {x} : task[y].pc \notin {"notify", "return"}
  BY <1>1, NoneIsFresh DEF LoopHeld
<1>20. TypeOK'
  <2>1. waiting' \in Seq(Key)
    BY <1>7, CloseUpElements DEF TypeOK, WaitingLine
  <2>2. QED
    BY <1>6, <1>7, <1>8, <2>1 DEF TypeOK
<1>21. KeysAgree'
  BY <1>7, <1>8, <1>10 DEF KeysAgree, Begun, TypeOK
<1>22. TaskShape'
  BY <1>5, <1>6, <1>8, <1>9, <1>11 DEF TaskShape, Held, Activating, Prompting, Stopping
<1>23. LoopHeld'
  BY <1>6, <1>9, <1>14 DEF LoopHeld
<1>24. SinglePrompter'
  <2>1. \A u \in Token : LiveActive(u)' => u = t
    BY <1>8, <1>10 DEF LiveActive
  <2>2. \A y \in Task : task'[y].pc \notin Prompting
    BY <1>6, <1>9, <1>12 DEF Prompting
  <2>3. Begun(k)' /\ obj'[sessions'[k]].active
    BY <1>4, <1>5, <1>7, <1>8, <1>10
  <2>4. QED
    BY <1>7, <1>8, <2>1, <2>2, <2>3 DEF SinglePrompter, Begun
<1>25. PromptTaskIsHers'
  <2>1. \A u \in Token : obj'[u].prompt_task = obj[u].prompt_task
    BY <1>8
  <2>2. \A u \in Token : obj[u].prompt_task # None => obj[u].prompt_task \in Task
    BY DEF TypeOK, Object
  <2>3. \A u \in Token : Live(u) => obj[u].prompt_task = None
    BY <1>1, Awake, <1>10, <1>12 DEF PromptTaskIsHers, ActivatedOnce, LiveActive
  <2>4. QED
    BY <1>10, <2>1, <2>3 DEF PromptTaskIsHers
<1>26. ActivatedOnce'
  <2>1. \A y \in Task \ {x} : task'[y].pc \in Wanted => task'[y].sess # t
    BY <1>8, <1>9, <1>13
  <2>3. QED
    BY <1>6, <1>8, <1>9, <1>10, <1>11, <1>13, <2>1 DEF ActivatedOnce, Wanted, Held
<1>27. WaitingLine'
  <2>1. IsInjective(waiting') /\ ToSet(waiting') = ToSet(waiting) \ {k}
    BY <1>4, <1>7, CloseUpElements DEF WaitingLine, TypeOK
  <2>2. \A j \in Key : Begun(j) => (obj'[sessions[j]].active <=> (j = k \/ obj[sessions[j]].active))
    BY <1>5, <1>8 DEF KeysAgree, Begun, TypeOK
  <2>3. QED
    BY <1>7, <1>10, <2>1, <2>2 DEF WaitingLine
<1>28. NoLostWakeup'
  BY <1>7, <1>8 DEF NoLostWakeup
<1>29. NoStuckSession'
  <2>1. \A u \in Token : LiveActive(u)' => u = t
    BY <1>8, <1>10 DEF LiveActive
  <2>2. WorksFor(x, t)'
    BY <1>6, <1>9 DEF WorksFor, Activating
  <2>3. QED
    BY <2>1, <2>2 DEF NoStuckSession
<1>30. OneFinisher'
  BY <1>6, <1>9, <1>10, <1>11 DEF OneFinisher, Stopping, Held
<1>31. DoneIsLast'
  BY <1>6, <1>7, <1>8, <1>9, <1>10 DEF DoneIsLast
<1>32. ToBeSwept'
  <2>1. bus # "exited"
    BY <1>1, Awake
  <2>2. CASE x = Main
    BY <1>1, <1>6, <1>7, <1>9, <1>10, <2>1, <2>2 DEF ToBeSwept, Closing
  <2>3. CASE x # Main
    BY <1>7, <1>9, <1>10, <2>1, <2>3, MainIsATask DEF ToBeSwept, Closing
  <2>4. QED
    BY <2>2, <2>3
<1>33. QED
  BY <1>20, <1>21, <1>22, <1>23, <1>24, <1>25, <1>26, <1>27, <1>28, <1>29, <1>30, <1>31, <1>32

\* amain leaves wait_for_disconnect, and close() is next.
LEMMA LeaveStep ==
  ASSUME IInv, Leave, task[Main].pc = "serving", running = None,
         bus' \in {"up", "down"},
         UNCHANGED <<sessions, waiting, active_key, obj, running, alive, told, late>>
  PROVE  IInv'
<1> USE DEF IInv
<1> DEFINE v == [Idle EXCEPT !.pc = "sweep", !.rest = Key]
<1>1. v.pc = "sweep" /\ v.rest = Key /\ v \in TaskState
  BY DEF Idle, TaskState, PC
<1>2. task' = [task EXCEPT ![Main] = v]
  BY DEF Leave
<1> HIDE DEF v
<1>3. bus' # "exited" /\ bus = "up"
  BY DEF ToBeSwept
<1>4. UNCHANGED <<sessions, waiting, active_key, obj, running, alive, told, late>>
  OBVIOUS
<1>5. task'[Main] = v /\ \A y \in Task \ {Main} : task'[y] = task[y]
  BY <1>2, MainIsATask DEF TypeOK
<1>6. /\ \A t \in Token : Live(t)' = Live(t) /\ LiveActive(t)' = LiveActive(t)
      /\ \A k \in Key : Begun(k)' = Begun(k)
  BY <1>4 DEF Live, LiveActive, Begun
<1>7. \A y \in Task : task[y].pc \in Held => task[y].sess \in Token
  BY DEF TaskShape, Held, TypeOK, TaskState
<1>8. \A y \in Task : \/ task'[y] = task[y]
                      \/ y = Main /\ task'[y].pc = "sweep" /\ task[y].pc = "serving"
  BY <1>1, <1>2, <1>5
<1>20. TypeOK'
  BY <1>1, <1>2, <1>3, <1>4 DEF TypeOK
<1>21. KeysAgree'
  BY <1>4 DEF KeysAgree, Begun
<1>22. TaskShape'
  BY <1>4, <1>7, <1>8 DEF TaskShape, Held, Activating, Prompting, Stopping
<1>23. LoopHeld'
  BY <1>4, <1>8 DEF LoopHeld
<1>24. SinglePrompter'
  <2>1. \A y \in Task : task'[y].pc \in Prompting => task'[y] = task[y] /\ task[y].sess \in Token
    BY <1>7, <1>8 DEF Prompting, Held
  <2>2. QED
    BY <1>4, <1>6, <2>1 DEF SinglePrompter, LiveActive, Begun
<1>25. PromptTaskIsHers'
  <2>1. \A y \in Task : task[y].pc \in Prompting \union {"finish"} => task'[y] = task[y]
    BY <1>8 DEF Prompting
  <2>2. \A u \in Token : obj[u].prompt_task # None => obj[u].prompt_task \in Task
    BY DEF TypeOK, Object
  <2>3. QED
    BY <1>3, <1>4, <1>6, <2>1, <2>2 DEF PromptTaskIsHers
<1>26. ActivatedOnce'
  BY <1>4, <1>6, <1>7, <1>8 DEF ActivatedOnce, Wanted, Activating, Held
<1>27. WaitingLine'
  BY <1>4 DEF WaitingLine, Begun
<1>28. NoLostWakeup'
  BY <1>3, <1>4, <1>8 DEF NoLostWakeup, WillActivate, Stopping
<1>29. NoStuckSession'
  BY <1>3, <1>4, <1>6, <1>8 DEF NoStuckSession, WorksFor, Activating, Prompting
<1>30. OneFinisher'
  BY <1>6, <1>7, <1>8 DEF OneFinisher, Stopping, Held
<1>31. DoneIsLast'
  BY <1>4, <1>6, <1>8 DEF DoneIsLast
<1>32. ToBeSwept'
  BY <1>1, <1>3, <1>5 DEF ToBeSwept, Closing
<1>33. QED
  BY <1>20, <1>21, <1>22, <1>23, <1>24, <1>25, <1>26, <1>27, <1>28, <1>29, <1>30, <1>31, <1>32

\* The connection to the bus ends, whether close() has started or not.
LEMMA DisconnectStep ==
  ASSUME IInv, Disconnect PROVE IInv'
<1>1. CASE task[Main].pc = "serving"
  BY <1>1, LeaveStep DEF Disconnect
<1>2. CASE task[Main].pc # "serving"
  <2>1. /\ bus = "up" /\ bus' = "down" /\ bus' # "exited"
        /\ UNCHANGED <<sessions, waiting, active_key, obj, task, running, alive, told, late>>
    BY <1>2 DEF Disconnect
  <2>2. QED
    BY <1>2, <2>1 DEF IInv, TypeOK, KeysAgree, TaskShape, LoopHeld, SinglePrompter, LiveActive,
         Live, Begun, PromptTaskIsHers, ActivatedOnce, WaitingLine, NoLostWakeup, WillActivate,
         NoStuckSession, WorksFor, OneFinisher, DoneIsLast, ToBeSwept, Closing
<1>3. QED
  BY <1>1, <1>2

\* Ctrl-C.
LEMMA InterruptStep ==
  ASSUME IInv, Interrupt PROVE IInv'
<1>1. bus = "up"
  BY DEF Interrupt, IInv, ToBeSwept
<1>2. QED
  BY <1>1, LeaveStep DEF Interrupt

\* The client ends, and its tasks with it.
LEMMA EndStep ==
  ASSUME IInv, task' = [y \in Task |-> Idle], bus' = "exited", running' = None,
         UNCHANGED <<sessions, waiting, active_key, obj, alive, told, late>>
  PROVE  IInv'
<1> USE DEF IInv
<1>1. /\ \A y \in Task : task'[y] = Idle /\ task'[y].pc = "idle"
      /\ \A t \in Token : Live(t)' = Live(t) /\ LiveActive(t)' = LiveActive(t)
      /\ \A k \in Key : Begun(k)' = Begun(k)
  BY DEF Idle, Live, LiveActive, Begun
<1>20. TypeOK'
  BY IdleType DEF TypeOK
<1>21. KeysAgree'
  BY <1>1 DEF KeysAgree
<1>22. TaskShape'
  BY <1>1 DEF TaskShape, Activating, Prompting, Stopping
<1>23. LoopHeld'
  BY <1>1 DEF LoopHeld
<1>24. SinglePrompter'
  BY <1>1 DEF SinglePrompter, Begun, Prompting
<1>25. PromptTaskIsHers'
  BY DEF PromptTaskIsHers
<1>26. ActivatedOnce'
  BY <1>1 DEF ActivatedOnce, Wanted, Activating
<1>27. WaitingLine'
  BY DEF WaitingLine, Begun
<1>28. NoLostWakeup' /\ NoStuckSession'
  BY DEF NoLostWakeup, NoStuckSession
<1>30. OneFinisher'
  BY <1>1 DEF OneFinisher, Stopping
<1>31. DoneIsLast'
  BY <1>1 DEF DoneIsLast
<1>32. ToBeSwept'
  BY <1>1, MainIsATask DEF ToBeSwept, Closing
<1>33. QED
  BY <1>20, <1>21, <1>22, <1>23, <1>24, <1>25, <1>26, <1>27, <1>28, <1>30, <1>31, <1>32

\* _finish_session takes its session out of the dict and out of the line, cancels the task
\* of its prompt and no other, and keeps the duty to wake up the next.
LEMMA FinishSessionStep ==
  ASSUME IInv, NEW x \in Task, FinishSession(x) PROVE IInv'
<1> USE DEF IInv
<1>1. PICK k \in Key : k = task[x].key /\ Begun(k) /\ k # None
  BY NoneIsFresh DEF FinishSession, At, TaskShape, TypeOK, TaskState, Key
<1>2. PICK t \in Token : t = sessions[k] /\ t # None
  BY <1>1, NoneIsFresh DEF TypeOK, Begun
<1>3. /\ task[x].pc = "finish" /\ running \in {None, x} /\ x # None
      /\ sessions' = [sessions EXCEPT ![k] = None]
      /\ waiting' = RemoveFirst(waiting, k)
      /\ active_key' = IF active_key = k THEN None ELSE active_key
      /\ running' = IF obj[t].active THEN None ELSE x
      /\ UNCHANGED <<obj, alive, bus, told, late>>
  BY <1>1, <1>2, NoneIsFresh DEF FinishSession, At, Without, LeavesLine
<1> DEFINE v == [task[x] EXCEPT !.pc = IF obj[t].active THEN "rpc_stop" ELSE "notify",
                                !.key = None, !.sess = t, !.was = (active_key = k)]
<1>4. task' = [y \in Task |-> IF y = x THEN v
                              ELSE IF y \in ToCancel(t, x) THEN Idle ELSE task[y]]
  BY <1>1, <1>2 DEF FinishSession
<1>5. /\ v \in TaskState /\ v.sess = t /\ v.rest = task[x].rest
      /\ v.pc = IF obj[t].active THEN "rpc_stop" ELSE "notify"
      /\ v.was = (active_key = k)
  <2>1. task[x] \in TaskState
    BY DEF TypeOK
  <2>2. QED
    BY <2>1 DEF TaskState, PC, Stopping
<1> HIDE DEF v
<1>6. /\ obj[t].key = k /\ Live(t)
      /\ \A u \in Token : Live(u)' = (u # t /\ Live(u))
      /\ \A j \in Key : Begun(j)' = (j # k /\ Begun(j))
  <2>1. obj[t].key = k
    BY <1>1, <1>2 DEF KeysAgree
  <2>2. \A u \in Token : obj[u].key # None => obj[u].key \in Key
    BY DEF TypeOK, Object
  <2>3. \A j \in Key \ {k} : sessions'[j] = sessions[j]
    BY <1>3 DEF TypeOK
  <2>4. sessions'[k] = None
    BY <1>3 DEF TypeOK
  <2>5. QED
    BY <1>1, <1>2, <1>3, <2>1, <2>2, <2>3, <2>4, NoneIsFresh DEF Live, Begun
<1>7. \A y \in Task : task[y].pc \in Held => task[y].sess \in Token
  BY DEF TaskShape, Held, TypeOK, TaskState
\* The cancelled task, if there is one, is the one of t's prompt.
<1>8. \A y \in ToCancel(t, x) : y \in Task /\ task[y].pc \in Prompting /\ task[y].sess = t
  <2> SUFFICES ASSUME NEW y \in ToCancel(t, x)
               PROVE  y \in Task /\ task[y].pc \in Prompting /\ task[y].sess = t
    OBVIOUS
  <2>1. y = obj[t].prompt_task /\ y # None /\ y # x
    BY DEF ToCancel
  <2>2. y \in Task
    BY <2>1 DEF TypeOK, Object
  <2>3. QED
    BY <1>3, <1>6, <2>1, <2>2, Awake DEF PromptTaskIsHers
<1>9. \A y \in Task : task[y].pc \in Prompting /\ task[y].sess = t => y \in ToCancel(t, x)
  BY <1>3, NoneIsFresh DEF SinglePrompter, ToCancel, Prompting
<1>10. \A y \in Task :
         \/ y = x /\ task'[y] = v
         \/ y # x /\ task'[y] = task[y] /\ y \notin ToCancel(t, x)
         \/ y # x /\ task'[y] = Idle /\ task'[y].pc = "idle" /\ y \in ToCancel(t, x)
  BY <1>4 DEF Idle
<1>11. \A y \in Task \ {x} : task[y].pc \notin {"notify", "return"}
  BY <1>3, NoneIsFresh DEF LoopHeld
<1>12. /\ IsInjective(waiting') /\ waiting' \in Seq(Key)
       /\ ToSet(waiting') = ToSet(waiting) \ {k}
       /\ waiting' # <<>> => waiting # <<>>
  <2>1. CASE k \notin ToSet(waiting) /\ waiting' = waiting
    BY <2>1 DEF WaitingLine, TypeOK
  <2>2. CASE \E i \in 1..Len(waiting) : waiting[i] = k /\ waiting' = CloseUp(waiting, i)
    <3>1. PICK i \in 1..Len(waiting) : waiting[i] = k /\ waiting' = CloseUp(waiting, i)
      BY <2>2
    <3>2. IsInjective(waiting) /\ waiting \in Seq(Key)
      BY DEF WaitingLine, TypeOK
    <3>3. QED
      BY <3>1, <3>2, CloseUpElements, LenProperties
  <2>3. QED
    BY <1>3, <2>1, <2>2, RemoveFirstPlace DEF WaitingLine, TypeOK
<1>13. bus # "exited"
  BY <1>3, Awake
<1>14. /\ active_key = k => obj[t].active
       /\ obj[t].active => active_key = k
  BY <1>1, <1>2, <1>6 DEF SinglePrompter, LiveActive
<1>20. TypeOK'
  <2>1. task' \in [Task -> TaskState]
    BY <1>4, <1>5, IdleType DEF TypeOK
  <2>2. sessions' \in [Key -> Token \union {None}]
    BY <1>3 DEF TypeOK
  <2>3. QED
    BY <1>3, <1>12, <2>1, <2>2 DEF TypeOK
<1>21. KeysAgree'
  <2>1. \A j \in Key \ {k} : sessions'[j] = sessions[j]
    BY <1>3 DEF TypeOK
  <2>2. QED
    BY <1>3, <1>6, <2>1 DEF KeysAgree
<1>22. TaskShape'
  BY <1>1, <1>2, <1>3, <1>5, <1>6, <1>10 DEF TaskShape, Activating, Prompting, Stopping
<1>23. LoopHeld'
  BY <1>3, <1>5, <1>10, <1>11 DEF LoopHeld
<1>24. SinglePrompter'
  <2>1. \A u \in Token : LiveActive(u)' => LiveActive(u) /\ u # t /\ obj[u].key # k
    <3>1. \A u \in Token : Live(u) /\ obj[u].key = k => u = t
      BY <1>2 DEF Live
    <3>2. QED
      BY <1>3, <1>6, <3>1 DEF LiveActive
  <2>2. active_key' # None => active_key' \in Key \ {k} /\ active_key' = active_key
    BY <1>3 DEF TypeOK
  <2>3. \A j \in Key \ {k} : sessions'[j] = sessions[j]
    BY <1>3 DEF TypeOK
  <2>4. \A u \in Token : LiveActive(u)' => active_key' = obj'[u].key
    BY <1>3, <2>1 DEF SinglePrompter
  <2>5. active_key' # None => Begun(active_key)' /\ obj'[sessions'[active_key']].active
    BY <1>3, <1>6, <2>2, <2>3 DEF SinglePrompter, Begun
  <2>6. \A y \in Task : task'[y].pc \in Prompting =>
          task'[y] = task[y] /\ task[y].sess \in Token \ {t}
    BY <1>5, <1>7, <1>9, <1>10 DEF Prompting, Held
  <2>7. QED
    BY <1>3, <1>6, <2>4, <2>5, <2>6 DEF SinglePrompter, LiveActive
<1>25. PromptTaskIsHers'
  <2> SUFFICES ASSUME NEW u \in Token, Live(u), u # t, obj[u].prompt_task # None
               PROVE  LET y == obj[u].prompt_task
                      IN task'[y].pc \in Prompting /\ task'[y].sess = u
    BY <1>3, <1>6 DEF PromptTaskIsHers
  <2> DEFINE y == obj[u].prompt_task
  <2>1. y \in Task
    BY DEF TypeOK, Object
  <2>2. \/ task[y].pc \in Prompting /\ task[y].sess = u
        \/ task[y].pc = "finish" /\ task[y].key = obj[u].key /\ running = y
    BY <1>13 DEF PromptTaskIsHers
  <2>3. CASE y = x
    <3>1. obj[u].key = k
      BY <1>1, <1>3, <2>2, <2>3 DEF Prompting
    <3>2. QED
      BY <1>2, <3>1 DEF Live
  <2>4. CASE y # x
    BY <1>3, <1>8, <1>10, <2>1, <2>2, <2>4, NoneIsFresh
  <2>5. QED
    BY <2>3, <2>4
<1>26. ActivatedOnce'
  <2>1. \A y \in Task : task'[y].pc \in Wanted => task'[y] = task[y]
    BY <1>5, <1>10 DEF Wanted, Activating
  <2>2. \A y \in Task : task[y].pc \in Wanted => task[y].sess \in Token
    BY <1>7 DEF Wanted, Held
  <2>3. QED
    BY <1>3, <1>6, <2>1, <2>2 DEF ActivatedOnce
<1>27. WaitingLine'
  <2>1. \A j \in Key \ {k} : sessions'[j] = sessions[j]
    BY <1>3 DEF TypeOK
  <2>2. QED
    BY <1>3, <1>6, <1>12, <2>1 DEF WaitingLine
<1>28. NoLostWakeup'
  <2> SUFFICES ASSUME active_key' = None, waiting' # <<>>
               PROVE  \E y \in Task : WillActivate(y)'
    BY DEF NoLostWakeup
  <2>1. CASE active_key = k
    BY <1>5, <1>10, <2>1 DEF WillActivate, Stopping
  <2>2. CASE active_key # k
    <3>1. PICK y \in Task : WillActivate(y)
      BY <1>3, <1>12, <1>13, <2>2 DEF NoLostWakeup
    <3>2. y # x /\ y \notin ToCancel(t, x)
      BY <1>3, <1>8, <3>1 DEF WillActivate, Stopping, Prompting
    <3>3. QED
      BY <1>10, <3>1, <3>2 DEF WillActivate
  <2>3. QED
    BY <2>1, <2>2
<1>29. NoStuckSession'
  <2> SUFFICES ASSUME NEW u \in Token, LiveActive(u), u # t, ~obj[u].ready
               PROVE  \E y \in Task : WorksFor(y, u)'
    BY <1>3, <1>6 DEF NoStuckSession, LiveActive
  <2>1. PICK y \in Task : WorksFor(y, u)
    BY <1>13 DEF NoStuckSession
  <2>2. obj[u].key # k
    BY <1>2 DEF LiveActive, Live
  <2>3. y # x /\ y \notin ToCancel(t, x)
    BY <1>1, <1>3, <1>8, <2>1, <2>2 DEF WorksFor, Activating, Prompting
  <2>4. QED
    BY <1>3, <1>10, <2>1, <2>3 DEF WorksFor
<1>30. OneFinisher'
  <2>1. \A y \in Task : task[y].pc \in Stopping => task[y].sess \in Token \ {t}
    BY <1>6, <1>7 DEF OneFinisher, Held
  <2>2. \A y \in Task : task'[y].pc \in Stopping =>
          \/ y = x /\ task'[y].sess = t
          \/ y # x /\ task'[y] = task[y]
    BY <1>5, <1>10 DEF Stopping
  <2>3. QED
    BY <1>6, <2>1, <2>2 DEF OneFinisher, Live
<1>31. DoneIsLast'
  <2>1. told[t] # "done"
    BY <1>6 DEF DoneIsLast
  <2>2. \A y \in Task : task'[y].pc \in {"rpc_stop", "notify"} =>
          task'[y].sess = t \/ task'[y] = task[y]
    BY <1>5, <1>10
  <2>3. QED
    BY <1>3, <1>6, <2>1, <2>2 DEF DoneIsLast
<1>32. ToBeSwept'
  <2>0. \A j \in Key \ {k} : sessions'[j] = sessions[j]
    BY <1>3 DEF TypeOK
  <2>1. Main \notin ToCancel(t, x)
    BY <1>8 DEF TaskShape
  <2>2. CASE x = Main
    <3>1. task[Main].pc = "finish" /\ task[Main].key = k /\ Closing
      BY <1>1, <1>3, <2>2 DEF Closing
    <3>2. task'[Main] = v /\ task'[Main].pc \notin {"idle", "serving", "sweep"}
      BY <1>5, <1>10, <2>2, MainIsATask
    <3>3. \A j \in Key : Begun(j)' => sessions'[j] \in late' \/ j \in task'[Main].rest
      <4>1. late' = late /\ task'[Main].rest = task[Main].rest
        BY <1>3, <1>5, <2>2, <3>2
      <4>2. \A j \in Key \ {k} : Begun(j) => sessions[j] \in late \/ j \in task[Main].rest
        BY <1>13, <3>1 DEF ToBeSwept
      <4>3. QED
        BY <1>6, <2>0, <4>1, <4>2
    <3>4. QED
      BY <1>3, <1>13, <3>2, <3>3 DEF ToBeSwept
  <2>3. CASE x # Main
    <3>1. task'[Main] = task[Main] /\ Closing' = Closing
      BY <1>10, <2>1, <2>3, MainIsATask DEF Closing
    <3>2. \A j \in Key : Begun(j)' => Begun(j) /\ sessions'[j] = sessions[j]
      BY <1>6, <2>0
    <3>3. QED
      BY <1>3, <1>13, <3>1, <3>2 DEF ToBeSwept
  <2>4. QED
    BY <2>2, <2>3
<1>33. QED
  BY <1>20, <1>21, <1>22, <1>23, <1>24, <1>25, <1>26, <1>27, <1>28, <1>29, <1>30, <1>31, <1>32
-------------------------------------------------------------------------------
(***************************************************************************)
(* The inductive invariant, and what it says of the behaviours of Spec.    *)
(***************************************************************************)
LEMMA InitIInv == Init => IInv
<1> SUFFICES ASSUME Init PROVE IInv
  OBVIOUS
<1>1. /\ \A k \in Key : sessions[k] = None /\ ~Begun(k)
      /\ \A t \in Token : obj[t] = Unmade /\ obj[t].key = None /\ ~Live(t) /\ told[t] = "nothing"
      /\ waiting = <<>> /\ active_key = None /\ running = None /\ bus = "up"
  BY DEF Init, Unmade, Begun, Live
<1>2. \A x \in Task : task[x].pc = IF x = Main THEN "serving" ELSE "idle"
  BY DEF Init, Idle
<1>3. Unmade \in Object
  BY DEF Unmade, Object
<1>4. [Idle EXCEPT !.pc = "serving"] \in TaskState
  BY IdleType DEF TaskState, PC
<1>5. TypeOK
  BY <1>3, <1>4, IdleType DEF Init, TypeOK
<1>6. KeysAgree /\ TaskShape /\ LoopHeld
  BY <1>1, <1>2 DEF KeysAgree, TaskShape, LoopHeld, Activating, Prompting, Stopping
<1>7. SinglePrompter /\ PromptTaskIsHers /\ ActivatedOnce
  BY <1>1, <1>2 DEF SinglePrompter, LiveActive, PromptTaskIsHers, ActivatedOnce,
                    Wanted, Activating, Prompting
<1>8. WaitingLine
  BY <1>1 DEF WaitingLine, IsInjective, ToSet
<1>9. NoLostWakeup /\ NoStuckSession /\ OneFinisher /\ DoneIsLast
  BY <1>1, <1>2 DEF NoLostWakeup, NoStuckSession, LiveActive, OneFinisher, DoneIsLast, Stopping
<1>10. ToBeSwept
  BY <1>1, <1>2, MainIsATask DEF ToBeSwept, Closing
<1>11. QED
  BY <1>5, <1>6, <1>7, <1>8, <1>9, <1>10 DEF IInv

\* Every step preserves the invariant: one lemma above for each action.
LEMMA NextIInv == IInv /\ [Next]_vars => IInv'
<1> SUFFICES ASSUME IInv, [Next]_vars PROVE IInv'
  OBVIOUS
<1>1. CASE UNCHANGED vars
  BY <1>1, StutterStep
<1>2. ASSUME NEW k \in Key, Begin(k) PROVE IInv'
  BY <1>2, StutterStep, BeginAcceptedStep DEF Begin, BeginTwice, Refuse
<1>3. ASSUME NEW k \in Key, Perform(k) PROVE IInv'
  BY <1>3, StutterStep, PerformAcceptedStep
     DEF Perform, PerformNotBegun, PerformBusy, PerformInvalid, Refuse
<1>4. ASSUME NEW k \in Key, Stop(k) PROVE IInv'
  BY <1>4, StopStep
<1>5. ASSUME NEW s \in Sender, SenderVanishes(s) PROVE IInv'
  BY <1>5, SenderVanishesStep
<1>6. CASE Disconnect \/ Interrupt
  BY <1>6, DisconnectStep, InterruptStep
<1>7. ASSUME NEW x \in Task, ActivateNext(x) PROVE IInv'
  BY <1>7, ActivateNobodyStep, ActivateFirstStep DEF ActivateNext
<1>8. ASSUME NEW x \in Task,
             BeginReturns(x) \/ BeginReturnsLate(x) \/ BeginFails(x) \/ LateStopReturns(x)
      PROVE IInv'
  BY <1>8, BeginReturnsStep, BeginReturnsLateStep, GiveUpActionsStep, LateStopReturnsStep
<1>9. ASSUME NEW x \in Task,
             \/ CallbackAnswers(x) \/ CallbackFails(x) \/ ReadyResumes(x)
             \/ PromptReturns(x) \/ PromptFails(x) \/ ReplyResumes(x)
      PROVE IInv'
  BY <1>9, CallbackAnswersStep, GiveUpActionsStep, ResumesStep, PromptReturnsStep
<1>10. ASSUME NEW x \in Task,
              FinishNothing(x) \/ FinishSession(x) \/ Notify(x) \/ DoneReturns(x)
       PROVE IInv'
  BY <1>10, FinishNothingStep, FinishSessionStep, NotifyStep, DoneReturnsStep
<1>11. ASSUME NEW x \in Task, StartSweep(x) \/ SweepNext(x) PROVE IInv'
  BY <1>11, StartSweepStep, SweepNextStep
<1>12. CASE Exit \/ Killed
  BY <1>12, EndStep DEF Exit, Killed, Await
<1>13. QED
  BY <1>1, <1>2, <1>3, <1>4, <1>5, <1>6, <1>7, <1>8, <1>9, <1>10, <1>11, <1>12
     DEF Next, Application, Runs, CallbackEnds, PromptEnds

\* IInv holds in every state that the client can reach.
THEOREM InvariantHolds == Spec => []IInv
BY InitIInv, NextIInv, PTL DEF Spec

\* The fields of the client have their types: no session is put in the line, made
\* active or finished under a key that is not one.
THEOREM TypeCorrect == Spec => []TypeOK
<1>1. IInv => TypeOK
  BY DEF IInv
<1>2. QED
  BY InvariantHolds, <1>1, PTL

\* One session at a time has the prompt, and only for it the user is asked.
THEOREM OnePrompterAtATime == Spec => []SinglePrompter
<1>1. IInv => SinglePrompter
  BY DEF IInv
<1>2. QED
  BY InvariantHolds, <1>1, PTL

\* The deque holds the sessions that have not had the prompt, each once.
THEOREM LineHoldsWhoWaits == Spec => []WaitingLine
<1>1. IInv => WaitingLine
  BY DEF IInv
<1>2. QED
  BY InvariantHolds, <1>1, PTL

\* While sessions wait and nobody has the prompt, a task is on its way to
\* _activate_next.
THEOREM NoWakeupIsLost == Spec => []NoLostWakeup
<1>1. IInv => NoLostWakeup
  BY DEF IInv
<1>2. QED
  BY InvariantHolds, <1>1, PTL

\* The session that has the prompt is ready, or a task makes it ready or finishes it.
THEOREM NobodyHoldsThePromptForNothing == Spec => []NoStuckSession
<1>1. IInv => NoStuckSession
  BY DEF IInv
<1>2. QED
  BY InvariantHolds, <1>1, PTL

\* close() finishes every session it found, whatever arrives meanwhile and whoever else
\* finishes, begins or activates sessions: what is left when amain returns began later.
THEOREM CloseFinishesWhatItFound == Spec => ExitClean
<1>1. IInv /\ Exit => \A t \in Token : Live(t) => t \in late
  <2> SUFFICES ASSUME IInv, Exit, NEW t \in Token, Live(t) PROVE t \in late
    OBVIOUS
  <2>1. task[Main].pc = "return" /\ task[Main].rest = {}
    BY DEF Exit, At
  <2>2. bus # "exited" /\ Closing
    BY <2>1, MainIsATask, Awake DEF Closing
  <2>3. obj[t].key \in Key /\ sessions[obj[t].key] = t /\ Begun(obj[t].key)
    BY NoneIsFresh DEF Live, Begun, IInv, TypeOK, Object
  <2>4. QED
    BY <2>1, <2>2, <2>3 DEF IInv, ToBeSwept
<1>2. QED
  BY InvariantHolds, <1>1, PTL DEF Spec, ExitClean

\* PromptDone is sent at most once for a session.
THEOREM PromptDoneIsSentOnce == Spec => DoneOnce
<1>1. IInv => \A t \in Token : \A x \in Task :
                Notify(x) /\ task[x].done /\ task[x].sess = t => told[t] # "done"
  BY DEF IInv, DoneIsLast, Notify, At
<1>2. QED
  BY InvariantHolds, <1>1, PTL DEF Spec, DoneOnce
-------------------------------------------------------------------------------
\* An object keeps the key it was made with, and a new one gets the key of BeginPrompting.
LEMMA KeysAreKept ==
  ASSUME IInv, [Next]_vars
  PROVE  \/ \E k \in Key : BeginAccepted(k)
         \/ \A t \in Token : obj'[t].key = obj[t].key
<1> DEFINE Kept == \A t \in Token : obj'[t].key = obj[t].key
<1> SUFFICES ASSUME \A k \in Key : ~BeginAccepted(k) PROVE Kept
  OBVIOUS
<1>1. ASSUME NEW s, NEW b \in BOOLEAN, obj' = [obj EXCEPT ![s].ready = b] PROVE Kept
  BY <1>1 DEF IInv, TypeOK, Object
<1>2. ASSUME NEW s, NEW b \in BOOLEAN, NEW y \in Task \union {None},
             obj' = [obj EXCEPT ![s].ready = b, ![s].prompt_task = y] PROVE Kept
  BY <1>2 DEF IInv, TypeOK, Object
<1>3. ASSUME NEW s, obj' = [obj EXCEPT ![s].active = TRUE] PROVE Kept
  BY <1>3 DEF IInv, TypeOK, Object
<1>4. UNCHANGED obj => Kept
  OBVIOUS
<1> HIDE DEF Kept
<1>5. ASSUME NEW k \in Key, Begin(k) \/ Perform(k) \/ Stop(k) PROVE Kept
  BY <1>2, <1>4, <1>5 DEF Begin, BeginTwice, Perform, PerformNotBegun, PerformBusy,
       PerformInvalid, PerformAccepted, Refuse, Stop, vars
<1>6. ASSUME NEW x \in Task,
             ActivateNext(x) \/ ReadyResumes(x) \/ ReplyResumes(x)
      PROVE  Kept
  BY <1>1, <1>2, <1>3, <1>4, <1>6
     DEF ActivateNext, ActivateNobody, ActivateFirst, ReadyResumes, ReplyResumes
<1>7. ASSUME NEW x \in Task,
             \/ BeginReturns(x) \/ BeginReturnsLate(x) \/ BeginFails(x) \/ LateStopReturns(x)
             \/ CallbackAnswers(x) \/ CallbackFails(x) \/ PromptReturns(x) \/ PromptFails(x)
             \/ FinishNothing(x) \/ FinishSession(x) \/ Notify(x) \/ DoneReturns(x)
             \/ StartSweep(x) \/ SweepNext(x)
      PROVE  UNCHANGED obj
  BY <1>7 DEF BeginReturns, BeginReturnsLate, BeginFails, LateStopReturns, CallbackAnswers,
       CallbackFails, PromptReturns, PromptFails, GiveUp, FinishNothing, FinishSession, Notify,
       DoneReturns, StartSweep, SweepNext
<1>8. \/ \E s \in Sender : SenderVanishes(s)
      \/ Disconnect \/ Interrupt \/ Killed \/ Exit \/ UNCHANGED vars
      => UNCHANGED obj
  BY DEF SenderVanishes, Disconnect, Interrupt, Killed, Exit, vars
<1>9. QED
  BY <1>4, <1>5, <1>6, <1>7, <1>8 DEF Next, Application, Runs, CallbackEnds, PromptEnds

\* Without Reuse, a path has at most one session ever.
OnePathOneSession ==
  \A t, u \in Token : obj[t].key # None /\ obj[t].key = obj[u].key => t = u

LEMMA PathsAreNew ==
  ASSUME ~Reuse, IInv, OnePathOneSession, [Next]_vars PROVE OnePathOneSession'
<1>1. ASSUME NEW k \in Key, BeginAccepted(k) PROVE OnePathOneSession'
  <2>1. PICK t \in Token : Fresh(t, k) /\ obj' = [obj EXCEPT ![t].key = k]
    BY <1>1 DEF BeginAccepted
  <2>2. obj'[t].key = k /\ \A u \in Token \ {t} : obj'[u].key = obj[u].key /\ obj[u].key # k
    BY <2>1 DEF Fresh, IInv, TypeOK, Object
  <2>3. QED
    BY <2>2 DEF OnePathOneSession
<1>2. QED
  BY <1>1, KeysAreKept DEF OnePathOneSession

\* The user's reply is sent only to a session that is begun, whether paths are used again
\* or not: a prompt whose session was finished is cancelled with it.
THEOREM RepliesAreNotLate ==
  Spec => [][\A x \in Task : PromptReturns(x) => Live(task[x].sess)]_vars
<1>1. IInv => \A x \in Task : PromptReturns(x) => Live(task[x].sess)
  BY DEF IInv, SinglePrompter, LiveActive, PromptReturns, At, Prompting
<1>2. QED
  BY InvariantHolds, <1>1, PTL DEF Spec

\* With one session for a path, what a coroutine sends is about a session that is begun.
LEMMA NoneIsLate ==
  ASSUME IInv, OnePathOneSession, NEW x \in Task
  PROVE  BeginReturns(x) \/ PromptReturns(x) => Live(task[x].sess)
<1>1. ASSUME PromptReturns(x) PROVE Live(task[x].sess)
  BY <1>1 DEF IInv, SinglePrompter, LiveActive, PromptReturns, At, Prompting
<1>2. ASSUME BeginReturns(x) PROVE Live(task[x].sess)
  <2> DEFINE t == task[x].sess
             k == obj[t].key
  <2>1. t \in Token /\ k \in Key /\ Begun(k)
    BY <1>2, NoneIsFresh DEF BeginReturns, At, StillBegun, IInv, TaskShape, Activating, TypeOK,
         TaskState, Object
  <2>2. sessions[k] \in Token /\ obj[sessions[k]].key = k
    BY <2>1 DEF Begun, IInv, KeysAgree, TypeOK
  <2>3. k # None
    BY <2>1, NoneIsFresh DEF Key
  <2>4. QED
    BY <2>1, <2>2, <2>3 DEF OnePathOneSession, Live
<1>3. QED
  BY <1>1, <1>2

\* Were no path used again, no call to one would come after the session it is about: the
\* late PromptReady of the handler of BeginPrompting needs an application that reuses the
\* path of its callback.
THEOREM NewPathsAreNeverLate == ASSUME ~Reuse PROVE Spec => NoLateReady
<1>1. Init => OnePathOneSession
  BY DEF Init, Unmade, OnePathOneSession
<1>2. OnePathOneSession /\ IInv /\ [Next]_vars => OnePathOneSession'
  BY PathsAreNew
<1>3. OnePathOneSession /\ IInv =>
        \A x \in Task : BeginReturns(x) \/ PromptReturns(x) => Live(task[x].sess)
  BY NoneIsLate
<1>4. QED
  BY InvariantHolds, <1>1, <1>2, <1>3, PTL DEF Spec, NoLateReady
===============================================================================
