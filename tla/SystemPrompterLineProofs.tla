------------------------ MODULE SystemPrompterLineProofs ------------------------
(***************************************************************************)
(* The client implements PromptLine: its dict, its deque and active_key    *)
(* are the line that PromptLine promises, for any number of applications,  *)
(* paths, sessions and tasks.                                              *)
(***************************************************************************)
EXTENDS SystemPrompterProofs

\* The three variables of PromptLine, as Line reads them off the client's state.
Queue == [i \in 1..Len(waiting) |-> sessions[waiting[i]]]
Holder == IF active_key = None THEN None ELSE sessions[active_key]
Departed == {t \in Token : obj[t].key # None /\ ~Live(t)}

\* The places of the line are sessions, and no two of them are the same.
LEMMA QueueType ==
  ASSUME IInv
  PROVE  /\ Len(waiting) \in Nat /\ DOMAIN waiting = 1..Len(waiting)
         /\ Queue \in Seq(Token) /\ Len(Queue) = Len(waiting)
         /\ \A i \in 1..Len(waiting) : Queue[i] = sessions[waiting[i]] /\ Queue[i] \in Token
<1>1. Len(waiting) \in Nat /\ DOMAIN waiting = 1..Len(waiting)
  BY LenProperties DEF IInv, TypeOK
<1>2. \A i \in 1..Len(waiting) : sessions[waiting[i]] \in Token
  BY LineBegun DEF Begun, IInv, TypeOK
<1>3. QED
  BY <1>1, <1>2 DEF Queue

\* A step that leaves the dict, the deque and active_key alone, and makes no object, is
\* a stutter of the line.
LEMMA LineStutters ==
  ASSUME UNCHANGED <<sessions, waiting, active_key>>,
         \A t \in Token : obj'[t].key = obj[t].key
  PROVE  UNCHANGED <<Queue, Holder, Departed>>
BY DEF Queue, Holder, Departed, Live

\* BeginPrompting joins the line.
LEMMA BeginJoins ==
  ASSUME IInv, NEW k \in Key, BeginAccepted(k)
  PROVE  \E t \in Token :
           /\ t \notin {Queue[i] : i \in 1..Len(Queue)} \union {Holder} \union Departed
           /\ Queue' = Append(Queue, t)
           /\ UNCHANGED <<Holder, Departed>>
<1> USE DEF IInv
<1>1. PICK t \in Token :
        /\ Fresh(t, k)
        /\ obj' = [obj EXCEPT ![t].key = k]
        /\ sessions' = [sessions EXCEPT ![k] = t]
  BY DEF BeginAccepted
<1>2. ~Begun(k) /\ waiting' = Append(waiting, k) /\ UNCHANGED active_key
  BY DEF BeginAccepted
<1>3. /\ t # None /\ k # None /\ obj[t].key = None /\ obj'[t].key = k
      /\ \A u \in Token \ {t} : obj'[u] = obj[u]
      /\ sessions'[k] = t /\ \A j \in Key \ {k} : sessions'[j] = sessions[j]
  BY <1>1, NoneIsFresh DEF Fresh, Unmade, TypeOK, Object, Key
<1>4. \A j \in Key : Begun(j) => sessions[j] # t /\ j # k
  BY <1>2, <1>3, NoneIsFresh DEF KeysAgree, Key
<1>5. \A i \in 1..Len(waiting) : waiting[i] \in Key \ {k} /\ sessions[waiting[i]] # t
  BY <1>4, LineBegun
<1>6. active_key # None => active_key \in Key \ {k} /\ sessions[active_key] # t
  BY <1>4 DEF SinglePrompter, TypeOK
<1>7. t \notin {Queue[i] : i \in 1..Len(Queue)}
  BY <1>5, QueueType
<1>8. t # Holder /\ UNCHANGED Holder
  BY <1>2, <1>3, <1>6 DEF Holder
<1>9. t \notin Departed /\ UNCHANGED Departed
  <2>1. Live(t)'
    BY <1>3 DEF Live
  <2>2. \A u \in Token \ {t} : Live(u)' = Live(u)
    <3>1. \A u \in Token \ {t} : Live(u) => obj[u].key # k
      BY <1>2, <1>3, NoneIsFresh DEF Live, Begun
    <3>2. \A u \in Token : obj[u].key # None => obj[u].key \in Key
      BY DEF TypeOK, Object
    <3>3. QED
      BY <1>3, <3>1, <3>2 DEF Live
  <2>3. QED
    BY <1>3, <2>1, <2>2 DEF Departed
<1>10. Queue' = Append(Queue, t)
  <2>1. Len(waiting') = Len(waiting) + 1 /\ waiting'[Len(waiting) + 1] = k
        /\ \A i \in 1..Len(waiting) : waiting'[i] = waiting[i]
    BY <1>2 DEF TypeOK
  <2>2. \A i \in 1..Len(waiting) + 1 :
          sessions'[waiting'[i]] = IF i = Len(waiting) + 1 THEN t ELSE sessions[waiting[i]]
    BY <1>3, <1>5, <2>1, QueueType
  <2>3. Append(Queue, t) = [i \in 1..Len(waiting) + 1 |->
                              IF i = Len(waiting) + 1 THEN t ELSE sessions[waiting[i]]]
    BY QueueType DEF Queue
  <2>4. QED
    BY <2>1, <2>2, <2>3 DEF Queue
<1>11. QED
  BY <1>7, <1>8, <1>9, <1>10

\* _activate_next serves the head of the line.
LEMMA ActivateServes ==
  ASSUME IInv, NEW x \in Task, ActivateFirst(x)
  PROVE  /\ Holder = None /\ Queue # <<>>
         /\ Holder' = Head(Queue) /\ Queue' = Tail(Queue)
         /\ UNCHANGED Departed
<1> USE DEF IInv
<1>1. active_key = None
  BY DEF ActivateFirst, NobodyToActivate
<1>2. PICK i \in 1..Len(waiting) :
        /\ FirstBegun(i)
        /\ waiting' = SubSeq(waiting, i + 1, Len(waiting))
        /\ active_key' = waiting[i]
        /\ obj' = [obj EXCEPT ![sessions[waiting[i]]].active = TRUE]
  BY QueueType DEF ActivateFirst
<1>3. i = 1
  <2> SUFFICES ASSUME i # 1 PROVE FALSE
    OBVIOUS
  <2>1. 1 \in 1..i - 1 /\ 1 \in 1..Len(waiting)
    BY QueueType
  <2>2. QED
    BY <1>2, <2>1, LineBegun DEF FirstBegun
<1>4. waiting # <<>> /\ waiting[1] \in Key /\ Begun(waiting[1]) /\ 1 \in 1..Len(waiting)
  BY <1>2, <1>3, LineBegun, QueueType
<1>5. /\ waiting' = CloseUp(waiting, 1)
      /\ UNCHANGED sessions
      /\ \A u \in Token : obj'[u].key = obj[u].key
  BY <1>2, <1>3, <1>4, BehindTheFirst DEF ActivateFirst, TypeOK, Object
<1>6. UNCHANGED Departed
  BY <1>5 DEF Departed, Live
<1>7. Holder = None /\ Queue # <<>>
  BY <1>1, <1>4, QueueType DEF Holder
<1>8. Holder' = Head(Queue)
  <2>1. Holder' = sessions[waiting[1]]
    BY <1>2, <1>3, <1>4, <1>5, NoneIsFresh DEF Holder, Key
  <2>2. Head(Queue) = Queue[1]
    BY <1>7, QueueType
  <2>3. QED
    BY <1>4, <2>1, <2>2, QueueType
<1>9. Queue' = Tail(Queue)
  <2>1. Len(waiting') = Len(waiting) - 1 /\ \A j \in 1..Len(waiting) - 1 : waiting'[j] = waiting[j + 1]
    BY <1>4, <1>5, QueueType, CloseUpElements DEF WaitingLine, TypeOK, CloseUp
  <2>2. Tail(Queue) = CloseUp(Queue, 1)
    BY <1>7, QueueType, BehindTheFirst
  <2>3. CloseUp(Queue, 1) = [j \in 1..Len(waiting) - 1 |-> sessions[waiting[j + 1]]]
    BY QueueType DEF CloseUp
  <2>4. QED
    BY <1>5, <2>1, <2>2, <2>3 DEF Queue
<1>10. QED
  BY <1>6, <1>7, <1>8, <1>9

\* _finish_session takes its session from the prompt or from its place in the line.
LEMMA FinishLeaves ==
  ASSUME IInv, NEW x \in Task, FinishSession(x)
  PROVE  \/ /\ Holder # None
            /\ Departed' = Departed \union {Holder} /\ Holder' = None /\ UNCHANGED Queue
         \/ \E i \in 1..Len(Queue) :
              /\ Queue' = [j \in 1..Len(Queue) - 1 |-> IF j < i THEN Queue[j] ELSE Queue[j + 1]]
              /\ Departed' = Departed \union {Queue[i]} /\ UNCHANGED Holder
<1> USE DEF IInv
<1>1. PICK k \in Key : k = task[x].key /\ Begun(k) /\ k # None
  BY NoneIsFresh DEF FinishSession, At, TaskShape, TypeOK, TaskState, Key
<1>2. PICK t \in Token : t = sessions[k] /\ t # None /\ obj[t].key = k
  BY <1>1, NoneIsFresh DEF TypeOK, Begun, KeysAgree
<1>3. /\ sessions'[k] = None /\ \A j \in Key \ {k} : sessions'[j] = sessions[j]
      /\ waiting' = RemoveFirst(waiting, k)
      /\ active_key' = IF active_key = k THEN None ELSE active_key
      /\ UNCHANGED obj
  BY <1>1, NoneIsFresh DEF FinishSession, Without, LeavesLine, TypeOK
<1>4. Departed' = Departed \union {t}
  <2>1. \A u \in Token : Live(u)' = (u # t /\ Live(u))
    <3>1. \A u \in Token : obj[u].key # None => obj[u].key \in Key
      BY DEF TypeOK, Object
    <3>2. QED
      BY <1>1, <1>2, <1>3, <3>1, NoneIsFresh DEF Live
  <2>2. QED
    BY <1>1, <1>2, <1>3, <2>1 DEF Departed
<1>5. active_key = k <=> obj[t].active
  BY <1>1, <1>2 DEF SinglePrompter, LiveActive, Live
<1>6. k \in ToSet(waiting) <=> ~obj[t].active
  BY <1>1, <1>2 DEF WaitingLine
<1>7. CASE active_key = k
  <2>1. k \notin ToSet(waiting) /\ ~\E i \in 1..Len(waiting) : waiting[i] = k
    BY <1>5, <1>6, <1>7, QueueType DEF ToSet
  <2>2. UNCHANGED waiting
    BY <1>3, <2>1, RemoveFirstPlace DEF WaitingLine, TypeOK
  <2>3. \A i \in 1..Len(waiting) : sessions'[waiting[i]] = sessions[waiting[i]]
    BY <1>3, <2>1, LineBegun
  <2>4. UNCHANGED Queue
    BY <2>2, <2>3 DEF Queue
  <2>5. Holder = t /\ Holder' = None
    BY <1>1, <1>2, <1>3, <1>7 DEF Holder
  <2>6. QED
    BY <1>2, <1>4, <2>4, <2>5
<1>8. CASE active_key # k
  <2>1. PICK i \in 1..Len(waiting) : waiting[i] = k /\ waiting' = CloseUp(waiting, i)
    BY <1>3, <1>5, <1>6, <1>8, RemoveFirstPlace DEF WaitingLine, TypeOK
  <2>2. /\ Len(waiting') = Len(waiting) - 1
        /\ \A j \in 1..Len(waiting) - 1 :
             waiting'[j] = IF j < i THEN waiting[j] ELSE waiting[j + 1]
        /\ k \notin ToSet(waiting')
        /\ waiting' \in Seq(Key)
    BY <2>1, QueueType, CloseUpElements DEF WaitingLine, TypeOK, CloseUp
  <2>3. \A j \in 1..Len(waiting) - 1 : waiting'[j] \in Key \ {k}
    <3>1. DOMAIN waiting' = 1..Len(waiting) - 1
      BY <2>2, QueueType, LenProperties
    <3>2. QED
      BY <2>2, <3>1, ElementOfSeq, QueueType DEF ToSet
  <2>4. Queue' = [j \in 1..Len(waiting) - 1 |-> sessions[waiting'[j]]]
    BY <1>3, <2>2, <2>3 DEF Queue
  <2>5. \A j \in 1..Len(waiting) - 1 :
          sessions[waiting'[j]] = IF j < i THEN Queue[j] ELSE Queue[j + 1]
    BY <2>2, QueueType
  <2>6. Queue' = [j \in 1..Len(Queue) - 1 |-> IF j < i THEN Queue[j] ELSE Queue[j + 1]]
    BY <2>4, <2>5, QueueType
  <2>7. Queue[i] = t /\ i \in 1..Len(Queue)
    BY <1>2, <2>1, QueueType
  <2>8. UNCHANGED Holder
    BY <1>3, <1>8 DEF Holder, TypeOK
  <2>9. QED
    BY <1>4, <2>6, <2>7, <2>8
<1>9. QED
  BY <1>7, <1>8

\* Every step of the client is a step of the line or a stutter of it.
LEMMA StepRefines ==
  ASSUME IInv, [Next]_vars
  PROVE  \/ \E k \in Key : BeginAccepted(k)
         \/ \E x \in Task : ActivateFirst(x) \/ FinishSession(x)
         \/ UNCHANGED <<Queue, Holder, Departed>>
<1> DEFINE Same == /\ UNCHANGED <<sessions, waiting, active_key>>
                   /\ \A t \in Token : obj'[t].key = obj[t].key
<1> USE DEF IInv
<1>1. CASE UNCHANGED vars
  BY <1>1, LineStutters DEF vars
<1>2. ASSUME NEW k \in Key, Begin(k) \/ Perform(k) \/ Stop(k), ~BeginAccepted(k)
      PROVE  Same
  <2>1. CASE PerformAccepted(k)
    <3>1. PICK x \in Task : obj' = [obj EXCEPT ![sessions[k]].ready = FALSE,
                                             ![sessions[k]].prompt_task = x]
      BY <2>1 DEF PerformAccepted
    <3>2. \A t \in Token : obj'[t].key = obj[t].key
      BY <3>1 DEF TypeOK, Object
    <3>3. QED
      BY <2>1, <3>2 DEF PerformAccepted
  <2>2. CASE ~PerformAccepted(k)
    BY <1>2, <2>2 DEF Begin, BeginTwice, Perform, PerformNotBegun, PerformBusy, PerformInvalid,
                      Refuse, vars, Stop
  <2>3. QED
    BY <2>1, <2>2
<1>3. ASSUME NEW s \in Sender, SenderVanishes(s) PROVE Same
  BY <1>3 DEF SenderVanishes
<1>4. CASE Disconnect \/ Interrupt \/ Killed
  BY <1>4, LineStutters DEF Disconnect, Interrupt, Killed
<1>5. ASSUME NEW x \in Task, ActivateNobody(x) PROVE Same
  <2>1. active_key # None \/ waiting = <<>>
    <3> SUFFICES ASSUME active_key = None, waiting # <<>> PROVE FALSE
      OBVIOUS
    <3>1. 1 \in 1..Len(waiting) /\ DOMAIN waiting = 1..Len(waiting)
      BY BehindTheFirst, QueueType DEF TypeOK
    <3>2. QED
      BY <1>5, <3>1, LineBegun DEF ActivateNobody, NobodyToActivate
  <2>2. QED
    BY <1>5, <2>1 DEF ActivateNobody
<1>6. ASSUME NEW x \in Task, ReadyResumes(x) PROVE Same
  <2>1. obj' = obj \/ obj' = [obj EXCEPT ![task[x].sess].ready = TRUE]
    BY <1>6 DEF ReadyResumes
  <2>2. \A t \in Token : obj'[t].key = obj[t].key
    BY <2>1 DEF TypeOK, Object
  <2>3. QED
    BY <1>6, <2>2 DEF ReadyResumes
<1>7. ASSUME NEW x \in Task, ReplyResumes(x) PROVE Same
  <2>1. obj' = obj \/ obj' = [obj EXCEPT ![task[x].sess].ready = TRUE,
                                         ![task[x].sess].prompt_task = None]
    BY <1>7 DEF ReplyResumes
  <2>2. \A t \in Token : obj'[t].key = obj[t].key
    BY <2>1 DEF TypeOK, Object
  <2>3. QED
    BY <1>7, <2>2 DEF ReplyResumes
<1>8. ASSUME NEW x \in Task,
             \/ BeginReturns(x) \/ BeginReturnsLate(x) \/ BeginFails(x) \/ LateStopReturns(x)
             \/ CallbackAnswers(x) \/ CallbackFails(x) \/ PromptReturns(x) \/ PromptFails(x)
      PROVE  Same
  BY <1>8 DEF BeginReturns, BeginReturnsLate, BeginFails, LateStopReturns, CallbackAnswers,
              CallbackFails, PromptReturns, PromptFails, GiveUp
<1>9. ASSUME NEW x \in Task,
             FinishNothing(x) \/ Notify(x) \/ DoneReturns(x) \/ StartSweep(x) \/ SweepNext(x)
      PROVE  Same
  BY <1>9 DEF FinishNothing, Notify, DoneReturns, StartSweep, SweepNext
<1>10. CASE Exit
  BY <1>10, LineStutters DEF Exit
<1>11. Same => UNCHANGED <<Queue, Holder, Departed>>
  BY LineStutters
<1> HIDE DEF Same
<1>12. QED
  BY <1>1, <1>2, <1>3, <1>4, <1>5, <1>6, <1>7, <1>8, <1>9, <1>10, <1>11
     DEF Next, Application, Runs, ActivateNext, CallbackEnds, PromptEnds

\* The line starts empty.
LEMMA InitRefines == Init => Line!LineInit
<1> SUFFICES ASSUME Init PROVE Line!LineInit
  OBVIOUS
<1>1. waiting = <<>> /\ active_key = None /\ \A t \in Token : obj[t].key = None
  BY DEF Init, Unmade
<1>2. Queue = <<>> /\ Holder = None /\ Departed = {}
  BY <1>1 DEF Queue, Holder, Departed
<1>3. QED
  BY <1>2 DEF Line!LineInit, Queue, Holder, Departed

LEMMA NextIsOfTheLine ==
  ASSUME IInv, [Next]_vars PROVE [Line!LineNext]_(Line!lineVars)
<1>1. ASSUME NEW k \in Key, BeginAccepted(k) PROVE \E t \in Token : Line!Join(t)
  BY <1>1, BeginJoins DEF Line!Join, Line!InLine, Queue, Holder, Departed
<1>2. ASSUME NEW x \in Task, ActivateFirst(x) PROVE Line!Serve
  BY <1>2, ActivateServes DEF Line!Serve, Queue, Holder, Departed
<1>3. ASSUME NEW x \in Task, FinishSession(x)
      PROVE  Line!LeavePrompt \/ \E i \in 1..Len(Queue) : Line!LeaveLine(i)
  BY <1>3, FinishLeaves DEF Line!LeavePrompt, Line!LeaveLine, Queue, Holder, Departed
<1>4. UNCHANGED <<Queue, Holder, Departed>> => UNCHANGED Line!lineVars
  BY DEF Line!lineVars, Queue, Holder, Departed
<1>5. QED
  BY <1>1, <1>2, <1>3, <1>4, StepRefines DEF Line!LineNext, Queue

\* The dict, the deque and active_key are a line: first come first served, one at a
\* time, and whoever left does not return.
THEOREM ClientIsALine == Spec => ImplementsLine
<1>1. IInv /\ [Next]_vars => [Line!LineNext]_(Line!lineVars)
  BY NextIsOfTheLine
<1>2. QED
  BY InitRefines, InvariantHolds, <1>1, PTL DEF Spec, ImplementsLine, Line!LineSpec
===============================================================================
