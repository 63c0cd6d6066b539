------------------------- MODULE PrompterServerProofs -------------------------
(***************************************************************************)
(* The safety invariants of PrompterServer hold for any number of sessions *)
(* and connections and for all kinds of prompts.                           *)
(***************************************************************************)
EXTENDS PrompterServerInv, LineLemmas

-------------------------------------------------------------------------------
(***************************************************************************)
(* Facts about the records.                                                *)
(***************************************************************************)
\* A connection that is not there, and a task that is not there, are well-typed.
LEMMA NothingIsTyped == Free \in Handler /\ NoTask \in UiTask
BY DEF Free, Handler, NoTask, UiTask

\* A task may be cancelled, and a task may go on to its next point.
LEMMA UiTaskType ==
  ASSUME NEW u \in UiTask
  PROVE  /\ \A b \in BOOLEAN : [u EXCEPT !.cancel = b] \in UiTask
         /\ \A q \in Question \union {"lock", "created"} : [u EXCEPT !.pc = q] \in UiTask
BY DEF UiTask, Question

\* After the server has exited nothing is there that could take a step.
LEMMA AliveOrEmpty ==
  ASSUME IInv, NEW c \in Conn, conn[c].pc # "free" \/ ui[c].pc # "none"
  PROVE  server # "exited"
BY DEF IInv, ExitedIsEmpty, Free, NoTask

\* A handler knows a token; two prompts have two.
LEMMA TokenOfHandler ==
  ASSUME IInv, NEW c \in Conn, conn[c].pc # "free"
  PROVE  conn[c].tok \in Token
BY DEF IInv, HandlerShape

\* A ui_task belongs to a handler that awaits the end of a prompt.
LEMMA HandlerOfTask ==
  ASSUME IInv, NEW c \in Conn, ui[c].pc # "none"
  PROVE  conn[c].pc \in AtWork /\ conn[c].op = "prompt" /\ conn[c].tok \in Token
         /\ server # "exited"
<1>1. conn[c].pc \in AtWork /\ conn[c].op = "prompt"
  BY DEF IInv, HandlerShape, NoTask
<1>2. QED
  BY <1>1, TokenOfHandler, AliveOrEmpty DEF AtWork

\* A session names a prompt whose task is there.
LEMMA NamedPrompt ==
  ASSUME IInv, server # "exited", NEW t \in Token, prompt_task[t] # None
  PROVE  /\ prompt_task[t] \in Conn
         /\ conn[prompt_task[t]].pc \in AtWork /\ conn[prompt_task[t]].tok = t
         /\ ui[prompt_task[t]].pc # "none"
<1>1. prompt_task[t] \in Conn
  BY DEF IInv, TypeOK
<1>2. QED
  BY <1>1 DEF IInv, NoPromptLeftBehind, HandlerShape, AtWork

\* What changes no task at the terminal, and nothing of the terminal, keeps its modes.
Elsewhere == {"none", "created", "over"}

LEMMA TerminalLeftAlone ==
  ASSUME TypeOK, TerminalModes, server # "exited", UNCHANGED terminalVars,
         \A d \in Conn : \/ ui'[d].pc = ui[d].pc
                         \/ ui[d].pc \in Elsewhere /\ ui'[d].pc \in Elsewhere
  PROVE  TerminalModes'
<1>1. \A d \in Conn : /\ Reading(d)' <=> Reading(d)
                      /\ ui'[d].pc = "lock" <=> ui[d].pc = "lock"
  BY DEF Reading, Question, Elsewhere
<1>2. QED
  BY <1>1 DEF TerminalModes, terminalVars

-------------------------------------------------------------------------------
(***************************************************************************)
(* A step of the ui_task of c: u is what it becomes.  What it does at the  *)
(* terminal is left to the action.                                         *)
(***************************************************************************)
SecretState == {"none", "held", "wiped", "dropped"}

LEMMA UiStep ==
  ASSUME IInv, NEW c \in Conn, NEW u \in UiTask, NEW s \in SecretState,
         ui[c].pc \notin {"none", "over"},
         ui' = [ui EXCEPT ![c] = u], secret' = [secret EXCEPT ![c] = s],
         UNCHANGED <<sessionVars, conn, server, client>>,
         u.pc # "none",
         u.pc = "over" => u.out = "CancelledError" \/ ~ui[c].cancel,
         u.pc # "over" => u.cancel = ui[c].cancel,
         queue' \in Seq(Conn), tty' \in {"cooked", "raw"}, saved' \in [Conn -> {"cooked", "raw"}],
         SecretShape(c)', TerminalModes',
         holder' \in Conn \union {None}
  PROVE  IInv'
<1>1. /\ ui'[c] = u /\ secret'[c] = s
      /\ \A d \in Conn \ {c} : ui'[d] = ui[d] /\ secret'[d] = secret[d]
      /\ conn' = conn /\ server' = server /\ client' = client
      /\ sessions' = sessions /\ prompt_task' = prompt_task /\ exchange' = exchange
      /\ stale' = stale
  BY DEF IInv, TypeOK, sessionVars
<1>2. conn[c].pc \in AtWork /\ conn[c].op = "prompt" /\ server # "exited"
  BY HandlerOfTask
<1>3. TypeOK'
  BY <1>1 DEF IInv, TypeOK, SecretState
<1>4. \A d \in Conn : HandlerShape(d)' /\ SecretShape(d)'
  <2>1. HandlerShape(c)'
    BY <1>1, <1>2 DEF IInv, HandlerShape, Over, AtWork
  <2>2. \A d \in Conn \ {c} : HandlerShape(d)' /\ SecretShape(d)'
    BY <1>1 DEF IInv, HandlerShape, SecretShape, Over
  <2>3. QED
    BY <2>1, <2>2
<1>5. OnePromptEach'
  BY <1>1 DEF IInv, OnePromptEach
<1>6. PromptIsTracked'
  BY <1>1 DEF IInv, PromptIsTracked
<1>7. NoPromptLeftBehind' /\ ExchangeFollowsSession'
  BY <1>1 DEF IInv, NoPromptLeftBehind, ExchangeFollowsSession
<1>8. ExitedIsEmpty'
  BY <1>1, <1>2 DEF ExitedIsEmpty
<1>9. QED
  BY <1>3, <1>4, <1>5, <1>6, <1>7, <1>8 DEF IInv

-------------------------------------------------------------------------------
(***************************************************************************)
(* What a ui_task does at the terminal.                                    *)
(***************************************************************************)
\* It has the lock and nobody else reads: what it asks first keeps the modes.
LEMMA AskKeepsModes ==
  ASSUME IInv, NEW c \in Conn, NEW q \in Question, Ask(c, q),
         holder = None, holder' = c, UNCHANGED server, server # "exited",
         queue' \in Seq(Conn), IsInjective(queue'), ToSet(queue') = ToSet(queue) \ {c}
  PROVE  TerminalModes'
<1>1. /\ ui'[c].pc = q /\ \A d \in Conn \ {c} : ui'[d] = ui[d]
      /\ saved'[c] = tty /\ \A d \in Conn \ {c} : saved'[d] = saved[d]
      /\ tty' = "raw"
  BY DEF Ask, IInv, TypeOK, UiTask
<1>2. tty = "cooked" /\ \A d \in Conn : ~Reading(d)
  BY NoneIsNoConn DEF IInv, TerminalModes, TypeOK
<1>3. \A d \in Conn : Reading(d)' <=> d = c
  BY <1>1, <1>2 DEF Reading
<1>4. {d \in Conn : ui'[d].pc = "lock"} = {d \in Conn : ui[d].pc = "lock"} \ {c}
  BY <1>1 DEF Question
<1>5. QED
  BY <1>1, <1>2, <1>3, <1>4, NoneIsNoConn DEF IInv, TerminalModes

\* One question after the other.
LEMMA AsksNextKeepsModes ==
  ASSUME IInv, NEW c \in Conn, NEW q \in Question, AsksNext(c, q), Reading(c),
         UNCHANGED server, server # "exited"
  PROVE  TerminalModes'
<1>1. /\ ui'[c].pc = q /\ \A d \in Conn \ {c} : ui'[d] = ui[d]
      /\ saved' = saved /\ tty' = "raw" /\ holder' = holder /\ queue' = queue
  BY DEF AsksNext, IInv, TypeOK, UiTask
<1>2. \A d \in Conn : /\ Reading(d)' <=> Reading(d)
                      /\ ui'[d].pc = "lock" <=> ui[d].pc = "lock"
  BY <1>1 DEF Reading, Question
<1>3. holder = c
  BY DEF IInv, TerminalModes
<1>4. QED
  BY <1>1, <1>2, <1>3, NoneIsNoConn DEF IInv, TerminalModes

\* The end of a prompt gives back the lock and the terminal as it was.
LEMMA EndsKeepsModes ==
  ASSUME IInv, NEW c \in Conn, NEW out, Ends(c, out), Reading(c), UNCHANGED server,
         server # "exited"
  PROVE  TerminalModes'
<1>1. /\ ui'[c].pc = "over" /\ \A d \in Conn \ {c} : ui'[d] = ui[d]
      /\ \A d \in Conn \ {c} : saved'[d] = saved[d]
      /\ tty' = saved[c] /\ holder' = None /\ queue' = queue
  BY DEF Ends, IInv, TypeOK
<1>2. holder = c /\ saved[c] = "cooked"
  BY DEF IInv, TerminalModes
<1>3. \A d \in Conn : ~Reading(d)' /\ (ui'[d].pc = "lock" <=> ui[d].pc = "lock")
  BY <1>1, <1>2 DEF IInv, TerminalModes, Reading, Question
<1>4. QED
  BY <1>1, <1>2, <1>3, NoneIsNoConn DEF IInv, TerminalModes

-------------------------------------------------------------------------------
(***************************************************************************)
(* The actions of a ui_task.                                               *)
(***************************************************************************)
\* The first question of a prompt is about a secret only if its form has one.
LEMMA FirstQuestionFits ==
  ASSUME NEW c \in Conn
  PROVE  /\ FirstQuestion(c) \in Question
         /\ FirstQuestion(c) \in {"secret", "repeat"} => conn[c].form # "confirm"
BY DEF FirstQuestion, Question

\* A task that has the lock starts to ask.
LEMMA AskStep ==
  ASSUME IInv, NEW c \in Conn, Ask(c, FirstQuestion(c)),
         ui[c].pc \in {"created", "lock"}, ~ui[c].cancel,
         holder = None, holder' = c,
         queue' \in Seq(Conn), IsInjective(queue'), ToSet(queue') = ToSet(queue) \ {c},
         UNCHANGED <<sessionVars, conn, secret, server, client>>
  PROVE  IInv'
<1> DEFINE q == FirstQuestion(c)
           u == [ui[c] EXCEPT !.pc = q]
<1>1. q \in Question /\ (q \in {"secret", "repeat"} => conn[c].form # "confirm")
  BY FirstQuestionFits
<1> HIDE DEF q
<1>2. ui[c] \in UiTask /\ server # "exited" /\ tty \in {"cooked", "raw"}
  BY HandlerOfTask DEF IInv, TypeOK
<1>3. u \in UiTask /\ u.pc = q /\ u.cancel = ui[c].cancel /\ u.out = ui[c].out
  BY <1>1, <1>2, UiTaskType DEF UiTask
<1>4. ui' = [ui EXCEPT ![c] = u] /\ tty' = "raw" /\ saved' = [saved EXCEPT ![c] = tty]
  BY DEF Ask, IInv, TypeOK, q
<1>5. secret' = [secret EXCEPT ![c] = secret[c]] /\ secret[c] \in SecretState
  BY DEF IInv, TypeOK, SecretState
<1>6. TerminalModes'
  BY <1>1, <1>2, AskKeepsModes DEF q
<1>7. SecretShape(c)'
  <2>1. ui'[c] = u /\ conn'[c] = conn[c] /\ secret'[c] = secret[c]
    BY <1>4 DEF IInv, TypeOK
  <2>2. QED
    BY <1>1, <1>3, <2>1 DEF IInv, SecretShape, Over, Question
<1>8. /\ u.pc \notin {"none", "over"}
      /\ saved' \in [Conn -> {"cooked", "raw"}] /\ holder' \in Conn \union {None}
  BY <1>1, <1>2, <1>3, <1>4 DEF IInv, TypeOK, Question
<1> HIDE DEF u
<1>9. QED
  BY <1>3, <1>4, <1>5, <1>6, <1>7, <1>8, UiStep

\* The line at ui_lock has no duplicates and holds the tasks that wait.
LEMMA QueueShape ==
  ASSUME IInv, server # "exited"
  PROVE  /\ queue \in Seq(Conn) /\ IsInjective(queue)
         /\ \A c \in Conn : c \in ToSet(queue) <=> ui[c].pc = "lock"
BY DEF IInv, TypeOK, TerminalModes

LEMMA UiStartsStep ==
  ASSUME IInv, NEW c \in Conn, UiStarts(c)
  PROVE  IInv'
<1>1. /\ ui[c].pc = "created" /\ ~ui[c].cancel
      /\ UNCHANGED <<sessionVars, conn, secret, server, client>>
  BY DEF UiStarts
<1>2. server # "exited" /\ c \notin ToSet(queue) /\ queue \in Seq(Conn) /\ IsInjective(queue)
  BY <1>1, HandlerOfTask, QueueShape
<1>3. CASE LockIsFree /\ holder' = c /\ Ask(c, FirstQuestion(c)) /\ UNCHANGED queue
  <2>1. ToSet(queue') = ToSet(queue) \ {c} /\ queue' \in Seq(Conn) /\ IsInjective(queue')
    BY <1>2, <1>3
  <2>2. QED
    BY <1>1, <1>3, <2>1, AskStep DEF LockIsFree
<1>4. CASE /\ queue' = Append(queue, c)
           /\ ui' = [ui EXCEPT ![c].pc = "lock"]
           /\ UNCHANGED <<holder, tty, saved>>
  <2> DEFINE u == [ui[c] EXCEPT !.pc = "lock"]
  <2>0. ui[c] \in UiTask
    BY DEF IInv, TypeOK
  <2>1. u \in UiTask /\ u.pc = "lock" /\ u.cancel = ui[c].cancel /\ u.out = ui[c].out
    BY <2>0 DEF UiTask
  <2>2. ui' = [ui EXCEPT ![c] = u] /\ ui'[c] = u /\ \A d \in Conn \ {c} : ui'[d] = ui[d]
    BY <1>4 DEF IInv, TypeOK
  <2> HIDE DEF u
  <2>3. queue' \in Seq(Conn) /\ IsInjective(queue') /\ ToSet(queue') = ToSet(queue) \union {c}
    BY <1>2, <1>4, AppendElements
  <2>4. TerminalModes'
    <3>1. \A d \in Conn : Reading(d)' <=> Reading(d)
      BY <1>1, <2>1, <2>2 DEF Reading, Question
    <3>2. {d \in Conn : ui'[d].pc = "lock"} = {d \in Conn : ui[d].pc = "lock"} \union {c}
      BY <2>1, <2>2
    <3>3. QED
      BY <1>1, <1>2, <1>4, <2>3, <3>1, <3>2 DEF IInv, TerminalModes
  <2>5. SecretShape(c)'
    <3>1. conn'[c] = conn[c] /\ secret'[c] = secret[c]
      BY <1>1
    <3>2. QED
      BY <1>1, <2>1, <2>2, <3>1 DEF IInv, SecretShape, Over
  <2>6. secret' = [secret EXCEPT ![c] = secret[c]] /\ secret[c] \in SecretState
    BY <1>1 DEF IInv, TypeOK, SecretState
  <2>7. /\ holder' \in Conn \union {None} /\ tty' \in {"cooked", "raw"}
        /\ saved' \in [Conn -> {"cooked", "raw"}]
    BY <1>4 DEF IInv, TypeOK
  <2>8. QED
    BY <1>1, <2>1, <2>2, <2>3, <2>4, <2>5, <2>6, <2>7, UiStep
<1>5. QED
  BY <1>3, <1>4 DEF UiStarts

LEMMA UiGetsLockStep ==
  ASSUME IInv, NEW c \in Conn, UiGetsLock(c)
  PROVE  IInv'
<1>1. /\ ui[c].pc = "lock" /\ ~ui[c].cancel
      /\ holder = None /\ holder' = c /\ Head(queue) = c /\ queue' = Tail(queue)
      /\ Ask(c, FirstQuestion(c))
      /\ UNCHANGED <<sessionVars, conn, secret, server, client>>
  BY DEF UiGetsLock
<1>2. queue \in Seq(Conn) /\ IsInjective(queue) /\ c \in ToSet(queue)
  BY <1>1, HandlerOfTask, QueueShape
<1>3. queue # <<>>
  BY <1>2 DEF ToSet
<1>4. queue' = CloseUp(queue, 1) /\ 1 \in 1..Len(queue) /\ queue[1] = c
  BY <1>1, <1>2, <1>3, BehindTheFirst, HeadTailProperties
<1>5. queue' \in Seq(Conn) /\ IsInjective(queue') /\ ToSet(queue') = ToSet(queue) \ {c}
  BY <1>2, <1>4, CloseUpElements
<1>6. QED
  BY <1>1, <1>5, AskStep

\* The next question, with s the state of the secret then.
LEMMA AsksNextStep ==
  ASSUME IInv, NEW c \in Conn, NEW q \in Question, NEW s \in SecretState,
         Reading(c), AsksNext(c, q), secret' = [secret EXCEPT ![c] = s],
         q \in {"secret", "repeat"} => conn[c].form # "confirm",
         s = "held" => q \in {"repeat", "choice"} /\ conn[c].form # "confirm",
         UNCHANGED <<sessionVars, conn, server, client>>
  PROVE  IInv'
<1> DEFINE u == [ui[c] EXCEPT !.pc = q]
<1>1. ui[c] \in UiTask /\ ui[c].pc \notin {"none", "over"} /\ server # "exited"
  BY HandlerOfTask DEF IInv, TypeOK, Reading, Question
<1>2. u \in UiTask /\ u.pc = q /\ u.cancel = ui[c].cancel /\ u.out = ui[c].out
  BY <1>1 DEF UiTask
<1>3. /\ ui' = [ui EXCEPT ![c] = u] /\ ui'[c] = u /\ secret'[c] = s /\ conn'[c] = conn[c]
      /\ tty' = "raw" /\ UNCHANGED <<holder, queue, saved>>
  BY DEF AsksNext, IInv, TypeOK
<1> HIDE DEF u
<1>4. SecretShape(c)'
  BY <1>1, <1>2, <1>3 DEF IInv, SecretShape, Question, Over
<1>5. TerminalModes'
  BY <1>1, AsksNextKeepsModes
<1>6. /\ holder' \in Conn \union {None} /\ queue' \in Seq(Conn) /\ tty' \in {"cooked", "raw"}
      /\ saved' \in [Conn -> {"cooked", "raw"}]
  BY <1>3 DEF IInv, TypeOK
<1>7. u.pc \notin {"none", "over"}
  BY <1>2 DEF Question
<1>8. QED
  BY <1>1, <1>2, <1>3, <1>4, <1>5, <1>6, <1>7, UiStep

Outcome == {"yes", "no", "PromptCancelled", "CancelledError", "Exception"}

\* The end of a prompt that was reading.
LEMMA EndsStep ==
  ASSUME IInv, NEW c \in Conn, NEW out \in Outcome, NEW s \in SecretState,
         Reading(c), Ends(c, out), secret' = [secret EXCEPT ![c] = s],
         out = "CancelledError" \/ ~ui[c].cancel,
         s = "held" => out = "yes",
         UNCHANGED <<sessionVars, conn, server, client>>
  PROVE  IInv'
<1> DEFINE u == [pc |-> "over", cancel |-> FALSE, out |-> out]
<1>1. ui[c].pc \notin {"none", "over"} /\ server # "exited"
  BY HandlerOfTask DEF Reading, Question
<1>2. u \in UiTask /\ u.pc = "over" /\ u.out = out
  BY DEF UiTask, Outcome
<1>3. /\ ui' = [ui EXCEPT ![c] = u] /\ ui'[c] = u /\ secret'[c] = s
      /\ tty' = saved[c] /\ saved' = [saved EXCEPT ![c] = "cooked"]
      /\ holder' = None /\ queue' = queue
  BY DEF Ends, IInv, TypeOK
<1> HIDE DEF u
<1>4. SecretShape(c)'
  BY <1>2, <1>3 DEF SecretShape, Over
<1>5. TerminalModes'
  BY <1>1, EndsKeepsModes
<1>6. /\ holder' \in Conn \union {None} /\ queue' \in Seq(Conn) /\ tty' \in {"cooked", "raw"}
      /\ saved' \in [Conn -> {"cooked", "raw"}]
  BY <1>3 DEF IInv, TypeOK
<1>7. QED
  BY <1>1, <1>2, <1>3, <1>4, <1>5, <1>6, UiStep

\* A secret stays as it is.
LEMMA SecretKept ==
  ASSUME IInv, NEW c \in Conn, UNCHANGED secret
  PROVE  secret[c] \in SecretState /\ secret' = [secret EXCEPT ![c] = secret[c]]
BY DEF IInv, TypeOK, SecretState

\* After a password: the choice, or the end.
LEMMA PasswordReadStep ==
  ASSUME IInv, NEW c \in Conn, NEW s \in SecretState, PasswordRead(c),
         ui[c].pc \in {"secret", "repeat"}, ~ui[c].cancel, secret' = [secret EXCEPT ![c] = s],
         UNCHANGED <<sessionVars, conn, server, client>>
  PROVE  IInv'
<1>1. Reading(c) /\ conn[c].form # "confirm"
  BY DEF IInv, SecretShape, Reading, Question
<1>2. CASE AsksNext(c, "choice")
  BY <1>1, <1>2, AsksNextStep DEF Question
<1>3. CASE Ends(c, "yes")
  BY <1>1, <1>3, EndsStep DEF Outcome
<1>4. QED
  BY <1>2, <1>3 DEF PasswordRead

LEMMA UserAnswersStep ==
  ASSUME IInv, NEW c \in Conn, UserAnswers(c)
  PROVE  IInv'
<1>0. ~ui[c].cancel /\ UNCHANGED <<sessionVars, conn, server, client>>
  BY DEF UserAnswers
<1>1. CASE SecretEntered(c)
  <2>1. ui[c].pc = "secret" /\ secret' = [secret EXCEPT ![c] = "held"] /\ "held" \in SecretState
    BY <1>1 DEF SecretEntered, SecretState
  <2>2. CASE conn[c].form = "new" /\ AsksNext(c, "repeat")
    BY <1>0, <2>1, <2>2, AsksNextStep DEF Reading, Question
  <2>3. CASE PasswordRead(c)
    BY <1>0, <2>1, <2>3, PasswordReadStep
  <2>4. QED
    BY <1>1, <2>2, <2>3 DEF SecretEntered
<1>2. CASE RepeatMatches(c)
  BY <1>0, <1>2, SecretKept, PasswordReadStep DEF RepeatMatches
<1>3. CASE RepeatDiffers(c)
  <2> DEFINE s == IF secret[c] = "held" THEN "wiped" ELSE secret[c]
  <2>1. s \in SecretState /\ s # "held" /\ secret' = [secret EXCEPT ![c] = s]
    BY <1>3 DEF RepeatDiffers, Wipe, IInv, TypeOK, SecretState
  <2> HIDE DEF s
  <2>2. Reading(c) /\ conn[c].form # "confirm" /\ AsksNext(c, "secret")
    BY <1>3 DEF RepeatDiffers, IInv, SecretShape, Reading, Question
  <2>3. QED
    BY <1>0, <2>1, <2>2, AsksNextStep DEF Question
<1>4. CASE ChoiceMade(c)
  <2>1. /\ Reading(c) /\ secret' = [secret EXCEPT ![c] = secret[c]] /\ secret[c] \in SecretState
        /\ secret[c] = "held" => conn[c].form # "confirm"
    BY <1>4, SecretKept DEF ChoiceMade, Reading, Question, IInv, SecretShape, Over
  <2>2. CASE conn[c].form = "confirm" /\ AsksNext(c, "confirm")
    BY <1>0, <2>1, <2>2, AsksNextStep DEF Question
  <2>3. CASE Ends(c, "yes")
    BY <1>0, <2>1, <2>3, EndsStep DEF Outcome
  <2>4. QED
    BY <1>4, <2>2, <2>3 DEF ChoiceMade
<1>5. CASE Confirmed(c)
  <2>1. /\ Reading(c) /\ secret' = [secret EXCEPT ![c] = secret[c]] /\ secret[c] \in SecretState
        /\ secret[c] # "held"
    BY <1>5, SecretKept DEF Confirmed, Reading, Question, IInv, SecretShape, Over
  <2>2. PICK out \in {"yes", "no"} : Ends(c, out)
    BY <1>5 DEF Confirmed
  <2>3. QED
    BY <1>0, <2>1, <2>2, EndsStep DEF Outcome
<1>6. QED
  BY <1>1, <1>2, <1>3, <1>4, <1>5 DEF UserAnswers

\* An exception at a question leaves no secret held.
LEMMA UnwindLetsGo ==
  ASSUME IInv, NEW c \in Conn, Reading(c), Unwind(c)
  PROVE  \E s \in SecretState : s # "held" /\ secret' = [secret EXCEPT ![c] = s]
<1>1. ui[c].pc \notin {"repeat", "choice"} => secret[c] # "held"
  BY DEF IInv, SecretShape, Reading, Question, Over
<1> DEFINE s == CASE ui[c].pc = "choice" /\ secret[c] = "held" -> "wiped"
                  [] ui[c].pc = "repeat" -> "dropped"
                  [] OTHER -> secret[c]
<1>2. secret' = [secret EXCEPT ![c] = s]
  BY DEF Unwind, IInv, TypeOK
<1>3. secret[c] \in SecretState
  BY DEF IInv, TypeOK, SecretState
<1>4. s \in SecretState /\ s # "held"
  BY <1>1, <1>3 DEF SecretState
<1>5. QED
  BY <1>2, <1>4

LEMMA UserCancelsStep ==
  ASSUME IInv, NEW c \in Conn, UserCancels(c)
  PROVE  IInv'
<1>1. Reading(c) /\ ~ui[c].cancel /\ UNCHANGED <<sessionVars, conn, server, client>>
  BY DEF UserCancels
<1>2. PICK s \in SecretState : s # "held" /\ secret' = [secret EXCEPT ![c] = s]
  BY <1>1, UnwindLetsGo DEF UserCancels
<1>3. PICK out \in {"PromptCancelled", "Exception"} : Ends(c, out)
  BY DEF UserCancels
<1>4. QED
  BY <1>1, <1>2, <1>3, EndsStep DEF Outcome

LEMMA UiCancelledStep ==
  ASSUME IInv, NEW c \in Conn, UiCancelled(c)
  PROVE  IInv'
<1>0. ui[c].cancel /\ UNCHANGED <<sessionVars, conn, server, client>>
  BY DEF UiCancelled
<1>1. CASE ReadCancelled(c)
  <2>1. Reading(c) /\ Ends(c, "CancelledError")
    BY <1>1 DEF ReadCancelled
  <2>2. PICK s \in SecretState : s # "held" /\ secret' = [secret EXCEPT ![c] = s]
    BY <1>1, <2>1, UnwindLetsGo DEF ReadCancelled
  <2>3. QED
    BY <1>0, <2>1, <2>2, EndsStep DEF Outcome
<1>2. CASE WaitCancelled(c)
  <2> DEFINE u == [pc |-> "over", cancel |-> FALSE, out |-> "CancelledError"]
  <2>1. /\ ui[c].pc \in {"created", "lock"} /\ ui' = [ui EXCEPT ![c] = u]
        /\ queue' = RemoveFirst(queue, c) /\ UNCHANGED <<holder, tty, saved, secret>>
    BY <1>2 DEF WaitCancelled
  <2>2. u \in UiTask /\ u.pc = "over" /\ u.out = "CancelledError"
    BY DEF UiTask
  <2> HIDE DEF u
  <2>3. ui'[c] = u /\ \A d \in Conn \ {c} : ui'[d] = ui[d]
    BY <2>1 DEF IInv, TypeOK
  <2>4. queue \in Seq(Conn) /\ IsInjective(queue) /\ server # "exited"
    BY <2>1, HandlerOfTask, QueueShape
  <2>5. queue' \in Seq(Conn) /\ IsInjective(queue') /\ ToSet(queue') = ToSet(queue) \ {c}
    BY <2>1, <2>4, RemoveFirstPlace, CloseUpElements
  <2>6. TerminalModes'
    <3>1. \A d \in Conn : Reading(d)' <=> Reading(d)
      BY <2>1, <2>2, <2>3 DEF Reading, Question
    <3>2. {d \in Conn : ui'[d].pc = "lock"} = {d \in Conn : ui[d].pc = "lock"} \ {c}
      BY <2>2, <2>3
    <3>3. QED
      BY <1>0, <2>1, <2>4, <2>5, <3>1, <3>2 DEF IInv, TerminalModes
  <2>7. /\ secret' = [secret EXCEPT ![c] = secret[c]] /\ secret[c] \in SecretState
        /\ secret[c] # "held"
    BY <2>1, SecretKept DEF IInv, SecretShape, Over
  <2>8. SecretShape(c)'
    BY <2>1, <2>2, <2>3, <2>7 DEF SecretShape, Over
  <2>9. /\ holder' \in Conn \union {None} /\ tty' \in {"cooked", "raw"}
        /\ saved' \in [Conn -> {"cooked", "raw"}]
    BY <2>1 DEF IInv, TypeOK
  <2>10. QED
    BY <1>0, <2>1, <2>2, <2>5, <2>6, <2>7, <2>8, <2>9, UiStep
<1>3. QED
  BY <1>1, <1>2 DEF UiCancelled

-------------------------------------------------------------------------------
(***************************************************************************)
(* A step of the handler of c: h is what it becomes.  It may cancel the    *)
(* ui_task of another, and leaves the terminal alone.                      *)
(***************************************************************************)
CancelledOrSame(d) ==
  \/ ui'[d] = ui[d]
  \/ ui[d].pc \notin {"none", "over"} /\ ui'[d] = [ui[d] EXCEPT !.cancel = TRUE]

Replies(c, h) ==
  h = Free \/ \E p \in AtWork : h = [conn[c] EXCEPT !.pc = p]

SessionsTyped ==
  /\ sessions' \in SUBSET Token /\ stale' \in SUBSET Token /\ exchange' = sessions'
  /\ prompt_task' \in [Token -> Conn \union {None}]

ClientGoesOn ==
  /\ client' \in [Token -> {"new", "asked", "begun", "stopped"}]
  /\ \A t \in Token : client[t] = "stopped" => client'[t] = "stopped"

LEMMA HandlerStep ==
  ASSUME IInv, NEW c \in Conn, conn[c].pc # "free",
         NEW h, Replies(c, h), conn' = [conn EXCEPT ![c] = h],
         UNCHANGED <<terminalVars, server>>,
         ui' \in [Conn -> UiTask], secret' \in [Conn -> SecretState],
         \A d \in Conn \ {c} : secret'[d] = secret[d] /\ CancelledOrSame(d),
         \/ ui'[c].pc = ui[c].pc
         \/ ui[c].pc \in Elsewhere /\ ui'[c].pc \in Elsewhere,
         HandlerShape(c)', SecretShape(c)',
         SessionsTyped, ClientGoesOn, PromptIsTracked', NoPromptLeftBehind'
  PROVE  IInv'
<1>0. server # "exited" /\ server' = server
  BY AliveOrEmpty
<1>1. conn'[c] = h /\ \A d \in Conn \ {c} : conn'[d] = conn[d]
  BY DEF IInv, TypeOK
<1>2. h \in Handler
  <2>1. conn[c] \in Handler
    BY DEF IInv, TypeOK
  <2>2. CASE \E p \in AtWork : h = [conn[c] EXCEPT !.pc = p]
    BY <2>1, <2>2 DEF Handler, AtWork
  <2>3. QED
    BY <2>2, NothingIsTyped DEF Replies
<1>3. TypeOK'
  BY <1>2 DEF IInv, TypeOK, SessionsTyped, ClientGoesOn, SecretState, terminalVars
<1>4. \A d \in Conn \ {c} :
        ui'[d].pc = ui[d].pc /\ ui'[d].out = ui[d].out /\ (ui[d].cancel => ui'[d].cancel)
  <2>1. \A d \in Conn : ui[d] \in UiTask
    BY DEF IInv, TypeOK
  <2>2. QED
    BY <2>1 DEF CancelledOrSame, UiTask
<1>5. \A d \in Conn : HandlerShape(d)' /\ SecretShape(d)'
  <2> SUFFICES ASSUME NEW d \in Conn \ {c} PROVE HandlerShape(d)' /\ SecretShape(d)'
    OBVIOUS
  <2>1. ui[d] = NoTask => ui'[d] = NoTask
    BY DEF CancelledOrSame, NoTask
  <2>2. QED
    BY <1>1, <1>4, <2>1 DEF IInv, HandlerShape, SecretShape, Over
<1>6. OnePromptEach'
  <2>1. h.op = "prompt" => /\ conn[c].op = "prompt" /\ h.tok = conn[c].tok
                           /\ h.open = conn[c].open
    <3>1. conn[c] \in Handler
      BY DEF IInv, TypeOK
    <3>2. CASE \E p \in AtWork : h = [conn[c] EXCEPT !.pc = p]
      BY <3>1, <3>2 DEF Handler
    <3>3. CASE h = Free
      BY <3>3 DEF Free
    <3>4. QED
      BY <3>2, <3>3 DEF Replies
  <2>2. \A d \in Conn : conn[d].op = "prompt" => conn[d].tok \in Token
    <3>1. \A d \in Conn : conn[d].op = "prompt" => conn[d].pc # "free"
      BY DEF IInv, HandlerShape, Free
    <3>2. QED
      BY <3>1, TokenOfHandler
  <2>3. QED
    BY <1>1, <2>1, <2>2 DEF IInv, OnePromptEach, ClientGoesOn
<1>7. TerminalModes'
  BY <1>0, <1>4, TerminalLeftAlone DEF IInv
<1>8. ExchangeFollowsSession'
  BY DEF ExchangeFollowsSession, SessionsTyped
<1>9. ExitedIsEmpty'
  BY <1>0 DEF ExitedIsEmpty
<1>10. QED
  BY <1>3, <1>5, <1>6, <1>7, <1>8, <1>9 DEF IInv

\* The sessions, and what the client did, stay as they are.
LEMMA SessionsKept ==
  ASSUME IInv
  PROVE  /\ UNCHANGED sessionVars => SessionsTyped
         /\ UNCHANGED client => ClientGoesOn
BY DEF IInv, TypeOK, ExchangeFollowsSession, SessionsTyped, ClientGoesOn, sessionVars

\* The handler of a request that starts no prompt ends with it.
LEMMA EndOfRequest ==
  ASSUME IInv, NEW c \in Conn, conn[c].pc = "read", conn' = Closed(c),
         UNCHANGED <<secret, terminalVars, server>>,
         ui' \in [Conn -> UiTask], \A d \in Conn : CancelledOrSame(d),
         SessionsTyped, ClientGoesOn, PromptIsTracked', NoPromptLeftBehind'
  PROVE  IInv'
<1>1. conn' = [conn EXCEPT ![c] = Free] /\ conn'[c] = Free
  BY DEF Closed, IInv, TypeOK
<1>2. ui[c] = NoTask
  BY DEF IInv, HandlerShape, AtWork
<1>3. ui'[c] = NoTask
  BY <1>2 DEF CancelledOrSame, NoTask
<1>4. HandlerShape(c)'
  BY <1>1, <1>3 DEF HandlerShape, Free, AtWork, NoTask, Over
<1>5. SecretShape(c)'
  <2>1. secret[c] # "held"
    BY <1>2 DEF IInv, SecretShape, NoTask, Over
  <2>2. QED
    BY <1>3, <2>1 DEF SecretShape, NoTask, Over
<1>6. secret' \in [Conn -> SecretState] /\ ui'[c].pc = ui[c].pc
  BY <1>2, <1>3 DEF IInv, TypeOK, SecretState
<1>7. Replies(c, Free)
  BY DEF Replies
<1>8. QED
  BY <1>1, <1>4, <1>5, <1>6, <1>7, HandlerStep

\* The handler of a request that starts no prompt has no task.
LEMMA ReaderHasNoTask ==
  ASSUME IInv, NEW c \in Conn, conn[c].pc = "read"
  PROVE  /\ ui[c].pc = "none"
         /\ \A t \in Token : prompt_task[t] # c
         /\ server # "exited" /\ conn[c].tok \in Token
<1>1. ui[c].pc = "none" /\ server # "exited" /\ conn[c].tok \in Token
  BY AliveOrEmpty, TokenOfHandler DEF IInv, HandlerShape, AtWork, NoTask
<1>2. QED
  BY <1>1, NoneIsNoConn, NamedPrompt

LEMMA RefusedStep ==
  ASSUME IInv, NEW c \in Conn, BeginRefused(c) \/ PromptRefused(c)
  PROVE  IInv'
<1>1. /\ conn[c].pc = "read" /\ conn' = Closed(c)
      /\ UNCHANGED <<sessionVars, ui, secret, terminalVars, server, client>>
  BY DEF BeginRefused, PromptRefused, Reads
<1>2. \A d \in Conn \ {c} : conn'[d] = conn[d]
  BY <1>1 DEF Closed, IInv, TypeOK
<1>3. ui[c].pc = "none" /\ server # "exited" /\ \A t \in Token : prompt_task[t] # c
  BY <1>1, ReaderHasNoTask
<1>4. PromptIsTracked'
  BY <1>1, <1>2, <1>3 DEF IInv, PromptIsTracked, sessionVars
<1>5. NoPromptLeftBehind'
  BY <1>1, <1>2, <1>3 DEF IInv, TypeOK, NoPromptLeftBehind, sessionVars
<1>6. ui' \in [Conn -> UiTask] /\ \A d \in Conn : CancelledOrSame(d)
  BY <1>1 DEF IInv, TypeOK, CancelledOrSame
<1>7. SessionsTyped /\ ClientGoesOn
  BY <1>1, SessionsKept
<1>8. QED
  BY <1>1, <1>4, <1>5, <1>6, <1>7, EndOfRequest

LEMMA BeginServedStep ==
  ASSUME IInv, NEW c \in Conn, BeginServed(c)
  PROVE  IInv'
<1> DEFINE t == conn[c].tok
<1>1. /\ conn[c].pc = "read" /\ conn' = Closed(c) /\ t \notin sessions
      /\ sessions' = sessions \union {t} /\ exchange' = exchange \union {t}
      /\ stale' = stale \ {t} /\ prompt_task' = [prompt_task EXCEPT ![t] = None]
      /\ client' = IF conn[c].open /\ client[t] = "asked"
                   THEN [client EXCEPT ![t] = "begun"] ELSE client
      /\ UNCHANGED <<ui, secret, terminalVars, server>>
  BY DEF BeginServed, Reads
<1>2. \A d \in Conn \ {c} : conn'[d] = conn[d]
  BY <1>1 DEF Closed, IInv, TypeOK
<1>3. ui[c].pc = "none" /\ server # "exited" /\ t \in Token
      /\ \A k \in Token : prompt_task[k] # c
  BY <1>1, ReaderHasNoTask
<1>3a. /\ prompt_task'[t] = None
       /\ \A k \in Token \ {t} : prompt_task'[k] = prompt_task[k]
  BY <1>1, <1>3 DEF IInv, TypeOK
<1> HIDE DEF t
<1>4. PromptIsTracked'
  <2> SUFFICES ASSUME NEW d \in Conn, ui[d].pc \notin {"none", "over"}, ~ui[d].cancel
               PROVE  conn'[d].tok \in sessions' /\ prompt_task'[conn'[d].tok] = d
    BY <1>1 DEF PromptIsTracked
  <2>1. conn[d].tok \in sessions /\ prompt_task[conn[d].tok] = d /\ conn[d].tok \in Token
    BY HandlerOfTask DEF IInv, PromptIsTracked
  <2>2. QED
    BY <1>1, <1>2, <1>3, <1>3a, <2>1
<1>5. NoPromptLeftBehind'
  BY <1>1, <1>2, <1>3, <1>3a DEF IInv, TypeOK, NoPromptLeftBehind
<1>6. ui' \in [Conn -> UiTask] /\ \A d \in Conn : CancelledOrSame(d)
  BY <1>1 DEF IInv, TypeOK, CancelledOrSame
<1>7. SessionsTyped
  BY <1>1, <1>3 DEF IInv, TypeOK, ExchangeFollowsSession, SessionsTyped
<1>8. ClientGoesOn
  BY <1>1, <1>3 DEF IInv, TypeOK, ClientGoesOn
<1>9. QED
  BY <1>1, <1>4, <1>5, <1>6, <1>7, <1>8, EndOfRequest

LEMMA StopServedStep ==
  ASSUME IInv, NEW c \in Conn, StopServed(c)
  PROVE  IInv'
<1> DEFINE t == conn[c].tok
           x == prompt_task[t]
<1>1. /\ conn[c].pc = "read" /\ conn' = Closed(c)
      /\ sessions' = sessions \ {t} /\ exchange' = exchange \ {t} /\ stale' = stale \ {t}
      /\ ui' = IF t \in sessions THEN Cancel(x) ELSE ui
      /\ UNCHANGED <<prompt_task, secret, terminalVars, server, client>>
  BY DEF StopServed, Reads
<1>2. \A d \in Conn \ {c} : conn'[d] = conn[d]
  BY <1>1 DEF Closed, IInv, TypeOK
<1>3. ui[c].pc = "none" /\ server # "exited" /\ t \in Token
      /\ \A k \in Token : prompt_task[k] # c
  BY <1>1, ReaderHasNoTask
<1>4. x # None => x \in Conn \ {c} /\ ui[x].pc # "none"
  BY <1>3, NamedPrompt
<1> HIDE DEF t, x
<1>5. \A d \in Conn : ui[d] \in UiTask
  BY DEF IInv, TypeOK
<1>6. \/ ui' = ui /\ (t \notin sessions \/ x = None \/ ui[x].pc = "over")
      \/ /\ x \in Conn \ {c} /\ ui[x].pc \notin {"none", "over"}
         /\ ui' = [ui EXCEPT ![x] = [ui[x] EXCEPT !.cancel = TRUE]]
  BY <1>1, <1>4 DEF Cancel, IInv, TypeOK
<1>7. ui' \in [Conn -> UiTask] /\ \A d \in Conn : CancelledOrSame(d)
  <2>1. CASE ui' = ui
    BY <2>1 DEF IInv, TypeOK, CancelledOrSame
  <2>2. CASE /\ x \in Conn \ {c} /\ ui[x].pc \notin {"none", "over"}
             /\ ui' = [ui EXCEPT ![x] = [ui[x] EXCEPT !.cancel = TRUE]]
    <3>1. [ui[x] EXCEPT !.cancel = TRUE] \in UiTask
      BY <1>5, <2>2 DEF UiTask
    <3>2. QED
      BY <2>2, <3>1 DEF IInv, TypeOK, CancelledOrSame
  <2>3. QED
    BY <1>6, <2>1, <2>2
<1>8. PromptIsTracked'
  <2> SUFFICES ASSUME NEW d \in Conn, ui'[d].pc \notin {"none", "over"}, ~ui'[d].cancel
               PROVE  conn'[d].tok \in sessions' /\ prompt_task'[conn'[d].tok] = d
    BY DEF PromptIsTracked
  <2>1. ui'[d] = ui[d]
    BY <1>5, <1>7 DEF CancelledOrSame, UiTask
  <2>2. d # c /\ conn[d].tok \in sessions /\ prompt_task[conn[d].tok] = d
    BY <1>3, <2>1 DEF IInv, PromptIsTracked
  <2>3. conn[d].tok # t
    <3> SUFFICES ASSUME conn[d].tok = t PROVE FALSE
      OBVIOUS
    <3>1. x = d /\ t \in sessions /\ x # None
      BY <2>2, NoneIsNoConn DEF x
    <3>2. ui'[x] = [ui[x] EXCEPT !.cancel = TRUE]
      BY <1>6, <2>1, <3>1 DEF IInv, TypeOK
    <3>3. ui'[x].cancel
      BY <1>5, <3>1, <3>2 DEF UiTask
    <3>4. QED
      BY <3>1, <3>3
  <2>4. QED
    BY <1>1, <1>2, <2>2, <2>3
<1>9. NoPromptLeftBehind'
  BY <1>1, <1>2, <1>3 DEF IInv, TypeOK, NoPromptLeftBehind
<1>10. SessionsTyped /\ ClientGoesOn
  BY <1>1 DEF IInv, TypeOK, ExchangeFollowsSession, SessionsTyped, ClientGoesOn
<1>11. QED
  BY <1>1, <1>7, <1>8, <1>9, <1>10, EndOfRequest

\* A handler at its next await; u is its ui_task then, which may be new or cancelled.
LEMMA AwaitStep ==
  ASSUME IInv, NEW c \in Conn, conn[c].pc # "free", NEW p \in AtWork, NEW u \in UiTask,
         conn' = [conn EXCEPT ![c].pc = p], ui' = [ui EXCEPT ![c] = u],
         UNCHANGED <<sessions, exchange, secret, terminalVars, server, client>>,
         stale' \in SUBSET Token,
         conn[c].op = "prompt", u.pc # "none",
         u.pc = ui[c].pc \/ (ui[c].pc = "none" /\ u.pc = "created"),
         u.out = ui[c].out,
         p = "settle" => u.pc = "over",
         p = "cancelling" => u.pc # "over" /\ u.cancel,
         \/ /\ UNCHANGED prompt_task
            /\ ui[c].pc # "none" /\ (ui[c].cancel => u.cancel \/ u.pc = "over")
         \/ /\ conn[c].tok \in sessions
            /\ prompt_task' = [prompt_task EXCEPT ![conn[c].tok] = c]
  PROVE  IInv'
<1> DEFINE h == [conn[c] EXCEPT !.pc = p]
           t == conn[c].tok
<1>0. /\ conn[c] \in Handler /\ t \in Token /\ server # "exited" /\ ui[c] \in UiTask
      /\ \A d \in Conn : conn[d].op = "prompt" /\ conn[d].tok = t => d = c
  <2>1. conn[c] \in Handler /\ ui[c] \in UiTask
    BY DEF IInv, TypeOK
  <2>2. QED
    BY <2>1, AliveOrEmpty, TokenOfHandler DEF IInv, OnePromptEach
<1>1. /\ conn' = [conn EXCEPT ![c] = h] /\ conn'[c] = h
      /\ \A d \in Conn \ {c} : conn'[d] = conn[d] /\ ui'[d] = ui[d]
      /\ ui'[c] = u
  BY DEF IInv, TypeOK
<1>2. /\ h.pc = p /\ h.op = conn[c].op /\ h.tok = t /\ h.form = conn[c].form
  BY <1>0 DEF Handler
<1> HIDE DEF h
<1>3. HandlerShape(c)'
  <2>1. t \in Token /\ p \notin {"free", "read"}
    BY DEF IInv, HandlerShape, AtWork
  <2>2. QED
    BY <1>1, <1>2, <2>1 DEF HandlerShape, AtWork, Over
<1>4. SecretShape(c)'
  <2>1. ui[c].pc = "none" => ui[c].out = "none"
    BY DEF IInv, HandlerShape, NoTask
  <2>2. secret'[c] = secret[c]
    OBVIOUS
  <2>3. QED
    BY <1>1, <1>2, <2>1, <2>2 DEF IInv, SecretShape, Over
<1>5. SessionsTyped /\ ClientGoesOn
  BY <1>0 DEF IInv, TypeOK, ExchangeFollowsSession, SessionsTyped, ClientGoesOn
<1>6. PromptIsTracked'
  <2> SUFFICES ASSUME NEW d \in Conn, ui'[d].pc \notin {"none", "over"}, ~ui'[d].cancel
               PROVE  conn'[d].tok \in sessions' /\ prompt_task'[conn'[d].tok] = d
    BY DEF PromptIsTracked
  <2>1. conn'[d].tok = conn[d].tok
    BY <1>1, <1>2 DEF t
  <2>2. CASE UNCHANGED prompt_task /\ ui[c].pc # "none" /\ (ui[c].cancel => u.cancel \/ u.pc = "over")
    <3>1. ui[d].pc \notin {"none", "over"} /\ ~ui[d].cancel
      BY <1>1, <2>2
    <3>2. QED
      BY <2>1, <2>2, <3>1 DEF IInv, PromptIsTracked
  <2>3. CASE t \in sessions /\ prompt_task' = [prompt_task EXCEPT ![t] = c]
    <3>1. CASE d = c
      BY <1>0, <2>1, <2>3, <3>1 DEF IInv, TypeOK
    <3>2. CASE d # c
      <4>1. /\ conn[d].tok \in sessions /\ prompt_task[conn[d].tok] = d
            /\ conn[d].op = "prompt" /\ conn[d].tok \in Token
        BY <1>1, <3>2, HandlerOfTask DEF IInv, PromptIsTracked
      <4>2. conn[d].tok # t
        BY <1>0, <3>2, <4>1
      <4>3. QED
        BY <2>1, <2>3, <4>1, <4>2 DEF IInv, TypeOK
    <3>3. QED
      BY <3>1, <3>2
  <2>4. QED
    BY <2>2, <2>3 DEF t
<1>7. NoPromptLeftBehind'
  <2> SUFFICES ASSUME NEW k \in Token, prompt_task'[k] # None
               PROVE  LET d == prompt_task'[k] IN conn'[d].pc \in AtWork /\ conn'[d].tok = k
    BY DEF NoPromptLeftBehind, AtWork
  <2>1. CASE prompt_task'[k] = prompt_task[k]
    <3>1. /\ prompt_task[k] \in Conn
          /\ conn[prompt_task[k]].pc \in AtWork /\ conn[prompt_task[k]].tok = k
      BY <1>0, <2>1, NamedPrompt
    <3>2. QED
      BY <1>1, <1>2, <2>1, <3>1 DEF t
  <2>2. CASE k = t /\ prompt_task'[k] = c
    BY <1>1, <1>2, <2>2
  <2>3. QED
    BY <2>1, <2>2 DEF IInv, TypeOK, t
<1>8. /\ ui' \in [Conn -> UiTask] /\ secret' \in [Conn -> SecretState]
      /\ \A d \in Conn \ {c} : secret'[d] = secret[d] /\ CancelledOrSame(d)
      /\ \/ ui'[c].pc = ui[c].pc
         \/ ui[c].pc \in Elsewhere /\ ui'[c].pc \in Elsewhere
  BY <1>1 DEF IInv, TypeOK, SecretState, CancelledOrSame, Elsewhere
<1>9. Replies(c, h)
  BY DEF Replies, h
<1>10. QED
  BY <1>1, <1>3, <1>4, <1>5, <1>6, <1>7, <1>8, <1>9, HandlerStep

LEMMA PromptStartsStep ==
  ASSUME IInv, NEW c \in Conn, PromptStarts(c)
  PROVE  IInv'
<1> DEFINE u == [NoTask EXCEPT !.pc = "created"]
<1>1. u \in UiTask /\ u.pc = "created" /\ u.out = "none" /\ ~u.cancel
  BY DEF NoTask, UiTask
<1>2. /\ conn[c].pc = "read" /\ conn[c].op = "prompt" /\ conn[c].tok \in sessions
      /\ stale' = stale \ {conn[c].tok} /\ ui' = [ui EXCEPT ![c] = u]
      /\ prompt_task' = [prompt_task EXCEPT ![conn[c].tok] = c]
      /\ conn' = [conn EXCEPT ![c].pc = "wait"]
      /\ UNCHANGED <<sessions, exchange, secret, terminalVars, server, client>>
  BY DEF PromptStarts, Reads
<1> HIDE DEF u
<1>3. ui[c].pc = "none" /\ ui[c].out = "none"
  BY <1>2 DEF IInv, HandlerShape, AtWork, NoTask
<1>4. stale' \in SUBSET Token
  BY <1>2 DEF IInv, TypeOK
<1>5. QED
  BY <1>1, <1>2, <1>3, <1>4, AwaitStep DEF AtWork

LEMMA PeerLostStep ==
  ASSUME IInv, NEW c \in Conn, PeerLost(c)
  PROVE  IInv'
<1> DEFINE u == [ui[c] EXCEPT !.cancel = TRUE]
<1>1. /\ conn[c].pc = "wait" /\ ~Over(c) /\ ui' = Cancel(c)
      /\ conn' = [conn EXCEPT ![c].pc = "cancelling"]
      /\ UNCHANGED <<sessionVars, secret, terminalVars, server, client>>
  BY DEF PeerLost
<1>2. ui[c] \in UiTask /\ ui[c].pc \notin {"none", "over"} /\ conn[c].op = "prompt"
  BY <1>1 DEF IInv, TypeOK, HandlerShape, AtWork, Over
<1>3. u \in UiTask /\ u.pc = ui[c].pc /\ u.out = ui[c].out /\ u.cancel
  BY <1>2 DEF UiTask
<1>4. ui' = [ui EXCEPT ![c] = u]
  BY <1>1, <1>2, NoneIsNoConn DEF Cancel, IInv, TypeOK
<1> HIDE DEF u
<1>5. stale' \in SUBSET Token
  BY <1>1 DEF IInv, TypeOK, sessionVars
<1>6. QED
  BY <1>1, <1>2, <1>3, <1>4, <1>5, AwaitStep DEF AtWork, sessionVars

LEMMA PromptDoneStep ==
  ASSUME IInv, NEW c \in Conn, PromptDone(c)
  PROVE  IInv'
<1>1. /\ conn[c].pc = "wait" /\ Over(c) /\ conn' = [conn EXCEPT ![c].pc = "settle"]
      /\ UNCHANGED <<sessionVars, ui, secret, terminalVars, server, client>>
  BY DEF PromptDone
<1>2. /\ ui[c] \in UiTask /\ ui[c].pc = "over" /\ conn[c].op = "prompt"
      /\ ui' = [ui EXCEPT ![c] = ui[c]]
  BY <1>1 DEF IInv, TypeOK, HandlerShape, AtWork, Over
<1>3. stale' \in SUBSET Token
  BY <1>1 DEF IInv, TypeOK, sessionVars
<1>4. QED
  BY <1>1, <1>2, <1>3, AwaitStep DEF AtWork, sessionVars

\* The handler of a prompt that is over ends, and lets go of the secret.
LEMMA EndOfPrompt ==
  ASSUME IInv, NEW c \in Conn, conn[c].pc \in AtWork, Over(c), Forget(c), PromptClosed(c),
         NEW s \in SecretState, s # "held", secret' = [secret EXCEPT ![c] = s],
         UNCHANGED <<sessions, exchange, terminalVars, server, client>>,
         stale' \in SUBSET Token
  PROVE  IInv'
<1> DEFINE t == conn[c].tok
<1>1. /\ conn' = [conn EXCEPT ![c] = Free] /\ conn'[c] = Free
      /\ ui' = [ui EXCEPT ![c] = NoTask] /\ ui'[c] = NoTask
      /\ \A d \in Conn \ {c} : conn'[d] = conn[d] /\ ui'[d] = ui[d]
      /\ secret'[c] = s
  BY DEF PromptClosed, Closed, IInv, TypeOK
<1>2. /\ t \in Token /\ conn[c].pc # "free" /\ server # "exited"
      /\ \A d \in Conn : conn[d].op = "prompt" /\ conn[d].tok = t => d = c
  BY HandlerOfTask DEF Over, AtWork, IInv, OnePromptEach
<1>3. /\ prompt_task'[t] # c
      /\ \A k \in Token : prompt_task'[k] = prompt_task[k] \/ (k = t /\ prompt_task'[k] = None)
      /\ prompt_task' \in [Token -> Conn \union {None}]
  BY <1>2, NoneIsNoConn DEF Forget, IInv, TypeOK
<1> HIDE DEF t
<1>4. HandlerShape(c)' /\ SecretShape(c)'
  BY <1>1 DEF HandlerShape, SecretShape, Free, NoTask, AtWork, Over
<1>5. SessionsTyped /\ ClientGoesOn
  BY <1>3 DEF IInv, TypeOK, ExchangeFollowsSession, SessionsTyped, ClientGoesOn
<1>6. PromptIsTracked'
  <2> SUFFICES ASSUME NEW d \in Conn, ui'[d].pc \notin {"none", "over"}, ~ui'[d].cancel
               PROVE  conn'[d].tok \in sessions' /\ prompt_task'[conn'[d].tok] = d
    BY DEF PromptIsTracked
  <2>1. d # c
    BY <1>1 DEF NoTask
  <2>2. /\ conn[d].tok \in sessions /\ prompt_task[conn[d].tok] = d
        /\ conn[d].op = "prompt" /\ conn[d].tok \in Token
    BY <1>1, <2>1, HandlerOfTask DEF IInv, PromptIsTracked
  <2>3. conn[d].tok # t
    BY <1>2, <2>1, <2>2
  <2>4. QED
    BY <1>1, <1>3, <2>1, <2>2, <2>3
<1>7. NoPromptLeftBehind'
  <2> SUFFICES ASSUME NEW k \in Token, prompt_task'[k] # None
               PROVE  LET d == prompt_task'[k] IN conn'[d].pc \in AtWork /\ conn'[d].tok = k
    BY DEF NoPromptLeftBehind, AtWork
  <2>1. prompt_task'[k] = prompt_task[k]
    BY <1>3
  <2>2. /\ prompt_task[k] \in Conn
        /\ conn[prompt_task[k]].pc \in AtWork /\ conn[prompt_task[k]].tok = k
    BY <1>2, <2>1, NamedPrompt
  <2>3. prompt_task[k] # c
    BY <1>3, <2>1, <2>2 DEF t
  <2>4. QED
    BY <1>1, <2>1, <2>2, <2>3
<1>8. /\ ui' \in [Conn -> UiTask] /\ secret' \in [Conn -> SecretState]
      /\ \A d \in Conn \ {c} : secret'[d] = secret[d] /\ CancelledOrSame(d)
      /\ ui[c].pc \in Elsewhere /\ ui'[c].pc \in Elsewhere
  BY <1>1, NothingIsTyped DEF IInv, TypeOK, SecretState, CancelledOrSame, Elsewhere, Over, NoTask
<1>9. Replies(c, Free)
  BY DEF Replies
<1>10. QED
  BY <1>1, <1>2, <1>4, <1>5, <1>6, <1>7, <1>8, <1>9, HandlerStep

LEMMA EndOfPromptSteps ==
  ASSUME IInv, NEW c \in Conn, Withdrawn(c) \/ AnswerSent(c) \/ SendFails(c) \/ AnswerLost(c)
  PROVE  IInv'
<1>0. stale \in SUBSET Token
  BY DEF IInv, TypeOK
<1>1. CASE Withdrawn(c)
  <2>1. /\ conn[c].pc = "cancelling" /\ Over(c) /\ Forget(c) /\ PromptClosed(c)
        /\ UNCHANGED <<sessions, stale, exchange, secret, terminalVars, server, client>>
    BY <1>1 DEF Withdrawn
  <2>2. secret[c] # "held"
    BY <2>1 DEF IInv, HandlerShape, SecretShape, Over
  <2>3. QED
    BY <1>0, <2>1, <2>2, SecretKept, EndOfPrompt DEF AtWork
<1>2. CASE AnswerSent(c) \/ SendFails(c)
  <2>1. /\ conn[c].pc = "settle" /\ Forget(c) /\ PromptClosed(c)
        /\ stale' \in SUBSET Token
        /\ IF ui[c].out = "yes" THEN Wipe(c) ELSE UNCHANGED secret
        /\ UNCHANGED <<sessions, exchange, terminalVars, server, client>>
    BY <1>0, <1>2 DEF AnswerSent, SendFails, Settles
  <2>2. Over(c)
    BY <2>1 DEF IInv, HandlerShape
  <2>3. CASE ui[c].out = "yes" /\ Wipe(c)
    <3> DEFINE s == IF secret[c] = "held" THEN "wiped" ELSE secret[c]
    <3>1. s \in SecretState /\ s # "held" /\ secret' = [secret EXCEPT ![c] = s]
      BY <2>3 DEF Wipe, IInv, TypeOK, SecretState
    <3> HIDE DEF s
    <3>2. QED
      BY <2>1, <2>2, <3>1, EndOfPrompt DEF AtWork
  <2>4. CASE ui[c].out # "yes" /\ UNCHANGED secret
    <3>1. secret[c] # "held"
      BY <2>2, <2>4 DEF IInv, SecretShape, Over
    <3>2. QED
      BY <2>1, <2>2, <2>4, <3>1, SecretKept, EndOfPrompt DEF AtWork
  <2>5. QED
    BY <2>1, <2>3, <2>4
<1>3. CASE AnswerLost(c)
  <2>1. /\ conn[c].pc = "settle" /\ ui[c].out # "yes" /\ Forget(c) /\ PromptClosed(c)
        /\ UNCHANGED <<sessions, stale, exchange, secret, terminalVars, server, client>>
    BY <1>3 DEF AnswerLost, Answered
  <2>2. Over(c) /\ secret[c] # "held"
    BY <2>1 DEF IInv, HandlerShape, SecretShape, Over
  <2>3. QED
    BY <1>0, <2>1, <2>2, SecretKept, EndOfPrompt DEF AtWork
<1>4. QED
  BY <1>1, <1>2, <1>3

-------------------------------------------------------------------------------
(***************************************************************************)
(* The peer.                                                               *)
(***************************************************************************)
\* A new request, which no prompt of its session precedes if it is one.
LEMMA ConnectStep ==
  ASSUME IInv, NEW c \in Conn, NEW req \in Handler, Connect(c, req),
         req.pc = "read", req.tok \in Token, req.open,
         ClientGoesOn,
         req.op = "prompt" => \A d \in Conn : conn[d].op = "prompt" => conn[d].tok # req.tok
  PROVE  IInv'
<1>1. /\ server = "up" /\ conn[c].pc = "free" /\ conn' = [conn EXCEPT ![c] = req]
      /\ conn'[c] = req /\ \A d \in Conn \ {c} : conn'[d] = conn[d]
      /\ secret' = [secret EXCEPT ![c] = "none"] /\ secret'[c] = "none"
      /\ \A d \in Conn \ {c} : secret'[d] = secret[d]
      /\ UNCHANGED <<sessionVars, ui, terminalVars, server>>
  BY DEF Connect, IInv, TypeOK
<1>2. ui[c] = NoTask /\ \A t \in Token : prompt_task[t] # c
  <2>1. ui[c] = NoTask
    BY <1>1 DEF IInv, HandlerShape, AtWork
  <2>2. QED
    BY <1>1, <2>1, NamedPrompt, NoneIsNoConn DEF NoTask
<1>3. TypeOK'
  BY <1>1 DEF IInv, TypeOK, ClientGoesOn, sessionVars, terminalVars
<1>4. \A d \in Conn : HandlerShape(d)' /\ SecretShape(d)'
  <2>1. HandlerShape(c)' /\ SecretShape(c)'
    BY <1>1, <1>2 DEF HandlerShape, SecretShape, AtWork, NoTask, Over
  <2>2. \A d \in Conn \ {c} : HandlerShape(d)' /\ SecretShape(d)'
    BY <1>1 DEF IInv, HandlerShape, SecretShape, Over
  <2>3. QED
    BY <2>1, <2>2
<1>5. OnePromptEach'
  <2>1. \A d \in Conn : conn[d].op = "prompt" => conn[d].tok \in Token
    <3>1. \A d \in Conn : conn[d].op = "prompt" => conn[d].pc # "free"
      BY DEF IInv, HandlerShape, Free
    <3>2. QED
      BY <3>1, TokenOfHandler
  <2>2. QED
    BY <1>1, <2>1 DEF IInv, OnePromptEach, ClientGoesOn
<1>6. TerminalModes'
  BY <1>1, TerminalLeftAlone DEF IInv
<1>7. PromptIsTracked'
  BY <1>1, <1>2 DEF IInv, PromptIsTracked, sessionVars, NoTask
<1>8. NoPromptLeftBehind' /\ ExchangeFollowsSession'
  BY <1>1, <1>2 DEF IInv, TypeOK, NoPromptLeftBehind, ExchangeFollowsSession, sessionVars
<1>9. ExitedIsEmpty'
  BY <1>1 DEF ExitedIsEmpty
<1>10. QED
  BY <1>3, <1>4, <1>5, <1>6, <1>7, <1>8, <1>9 DEF IInv

LEMMA PeerStep ==
  ASSUME IInv, NEW c \in Conn, NEW t \in Token, AskBegin(c, t) \/ AskPrompt(c, t) \/ AskStop(c, t)
  PROVE  IInv'
<1>1. \A op \in {"begin", "stop", "prompt"} :
        LET r == Request(op, t) IN
          r \in Handler /\ r.pc = "read" /\ r.op = op /\ r.tok = t /\ r.open
  BY DEF Request, Free, Handler
<1>2. CASE AskBegin(c, t)
  <2>1. ClientGoesOn
    BY <1>2 DEF AskBegin, ClientGoesOn, IInv, TypeOK
  <2>2. QED
    BY <1>1, <1>2, <2>1, ConnectStep DEF AskBegin
<1>3. CASE AskStop(c, t)
  <2>1. ClientGoesOn
    BY <1>3 DEF AskStop, ClientGoesOn, IInv, TypeOK
  <2>2. QED
    BY <1>1, <1>3, <2>1, ConnectStep DEF AskStop
<1>4. CASE AskPrompt(c, t)
  <2>1. PICK f \in Form, b \in Choice :
          Connect(c, [Request("prompt", t) EXCEPT !.form = f, !.choice = b])
    BY <1>4 DEF AskPrompt
  <2> DEFINE r == [Request("prompt", t) EXCEPT !.form = f, !.choice = b]
  <2>2. r \in Handler /\ r.pc = "read" /\ r.op = "prompt" /\ r.tok = t /\ r.open
    BY ChoiceIsBoolean DEF Request, Free, Handler
  <2>3. ClientGoesOn
    BY <1>4 DEF AskPrompt, ClientGoesOn, IInv, TypeOK
  <2>4. \A d \in Conn : conn[d].op = "prompt" => conn[d].tok # t
    BY <1>4 DEF AskPrompt, IInv, OnePromptEach, TypeOK, Handler
  <2> HIDE DEF r
  <2>5. QED
    BY <2>1, <2>2, <2>3, <2>4, ConnectStep DEF r
<1>5. QED
  BY <1>2, <1>3, <1>4

LEMMA HangUpStep ==
  ASSUME IInv, NEW c \in Conn, HangUp(c)
  PROVE  IInv'
<1> DEFINE h == [conn[c] EXCEPT !.open = FALSE]
           t == conn[c].tok
<1>1. /\ conn[c].open /\ conn' = [conn EXCEPT ![c] = h]
      /\ client' = [client EXCEPT ![t] = "stopped"]
      /\ UNCHANGED <<sessionVars, ui, secret, terminalVars, server>>
  BY DEF HangUp, IInv, TypeOK
<1>2. conn[c] \in Handler /\ conn[c].pc # "free" /\ t \in Token /\ server # "exited"
  <2>1. conn[c] \in Handler /\ conn[c].pc # "free"
    BY <1>1 DEF IInv, TypeOK, HandlerShape, Free
  <2>2. QED
    BY <2>1, TokenOfHandler, AliveOrEmpty
<1>3. /\ h \in Handler /\ h.pc = conn[c].pc /\ h.op = conn[c].op /\ h.tok = t
      /\ h.form = conn[c].form
  BY <1>2 DEF Handler
<1>4. conn'[c] = h /\ \A d \in Conn \ {c} : conn'[d] = conn[d]
  BY <1>1 DEF IInv, TypeOK
<1> HIDE DEF h
<1>5. TypeOK'
  BY <1>1, <1>2, <1>3 DEF IInv, TypeOK, sessionVars, terminalVars
<1>6. \A d \in Conn : /\ conn'[d].pc = conn[d].pc /\ conn'[d].op = conn[d].op
                      /\ conn'[d].tok = conn[d].tok /\ conn'[d].form = conn[d].form
                      /\ conn[d].pc = "free" => conn'[d] = conn[d]
  BY <1>2, <1>3, <1>4
<1>7. \A d \in Conn : HandlerShape(d)' /\ SecretShape(d)'
  BY <1>1, <1>6 DEF IInv, HandlerShape, SecretShape, Over
<1>8. OnePromptEach'
  <2>1. \A d \in Conn : conn[d].op = "prompt" => conn[d].tok \in Token
    <3>1. \A d \in Conn : conn[d].op = "prompt" => conn[d].pc # "free"
      BY DEF IInv, HandlerShape, Free
    <3>2. QED
      BY <3>1, TokenOfHandler
  <2>2. client'[t] = "stopped" /\ \A k \in Token \ {t} : client'[k] = client[k]
    BY <1>1, <1>2 DEF IInv, TypeOK
  <2>3. QED
    BY <1>2, <1>4, <1>6, <2>1, <2>2 DEF IInv, OnePromptEach
<1>9. TerminalModes'
  BY <1>1, <1>2, TerminalLeftAlone DEF IInv
<1>10. PromptIsTracked'
  BY <1>1, <1>6 DEF IInv, PromptIsTracked, sessionVars
<1>11. NoPromptLeftBehind' /\ ExchangeFollowsSession'
  BY <1>1, <1>6 DEF IInv, TypeOK, NoPromptLeftBehind, ExchangeFollowsSession, sessionVars
<1>12. ExitedIsEmpty'
  BY <1>1, <1>2 DEF ExitedIsEmpty
<1>13. QED
  BY <1>5, <1>7, <1>8, <1>9, <1>10, <1>11, <1>12 DEF IInv

-------------------------------------------------------------------------------
(***************************************************************************)
(* Time, the reaper, and the end.                                          *)
(***************************************************************************)
LEMMA TimeStep ==
  ASSUME IInv, Reap \/ \E t \in Token : Ages(t)
  PROVE  IInv'
<1>1. /\ stale' \in SUBSET Token
      /\ sessions' \in SUBSET Token /\ exchange' = sessions' /\ server # "exited"
      /\ \A t \in sessions : t \in sessions' \/ prompt_task[t] = None
      /\ UNCHANGED <<prompt_task, conn, ui, secret, terminalVars, server, client>>
  <2>1. CASE Reap
    BY <2>1 DEF Reap, Reapable, IInv, TypeOK, ExchangeFollowsSession
  <2>2. CASE \E t \in Token : Ages(t)
    BY <2>2 DEF Ages, IInv, TypeOK, ExchangeFollowsSession, ExitedIsEmpty
  <2>3. QED
    BY <2>1, <2>2
<1>2. TypeOK'
  BY <1>1 DEF IInv, TypeOK, terminalVars
<1>3. \A d \in Conn : HandlerShape(d)' /\ SecretShape(d)'
  BY <1>1 DEF IInv, HandlerShape, SecretShape, Over
<1>4. OnePromptEach'
  BY <1>1 DEF IInv, OnePromptEach
<1>5. TerminalModes'
  BY <1>1, TerminalLeftAlone DEF IInv
<1>6. PromptIsTracked'
  BY <1>1, NoneIsNoConn DEF IInv, PromptIsTracked
<1>7. NoPromptLeftBehind' /\ ExchangeFollowsSession'
  BY <1>1 DEF IInv, NoPromptLeftBehind, ExchangeFollowsSession
<1>8. ExitedIsEmpty'
  BY <1>1 DEF ExitedIsEmpty
<1>9. QED
  BY <1>2, <1>3, <1>4, <1>5, <1>6, <1>7, <1>8 DEF IInv

LEMMA InterruptStep ==
  ASSUME IInv, Interrupt
  PROVE  IInv'
<1>1. /\ server # "exited" /\ server' = "stopping"
      /\ UNCHANGED <<sessionVars, conn, ui, secret, terminalVars, client>>
  BY DEF Interrupt
<1>2. TypeOK'
  BY <1>1 DEF IInv, TypeOK, sessionVars, terminalVars
<1>3. \A d \in Conn : HandlerShape(d)' /\ SecretShape(d)'
  BY <1>1 DEF IInv, HandlerShape, SecretShape, Over
<1>4. OnePromptEach'
  BY <1>1 DEF IInv, OnePromptEach
<1>5. TerminalModes'
  BY <1>1, TerminalLeftAlone DEF IInv
<1>6. PromptIsTracked' /\ NoPromptLeftBehind' /\ ExchangeFollowsSession'
  BY <1>1 DEF IInv, PromptIsTracked, NoPromptLeftBehind, ExchangeFollowsSession, sessionVars
<1>7. ExitedIsEmpty'
  BY <1>1 DEF ExitedIsEmpty
<1>8. QED
  BY <1>2, <1>3, <1>4, <1>5, <1>6, <1>7 DEF IInv

\* Nothing is left in a server that has ended, in whichever way.
LEMMA ExitStep ==
  ASSUME IInv, Exit \/ Killed
  PROVE  IInv'
<1>1. /\ server' = "exited"
      /\ sessions' = {} /\ exchange' = {} /\ stale' = {}
      /\ prompt_task' = [t \in Token |-> None]
      /\ conn' = [c \in Conn |-> Free] /\ ui' = [c \in Conn |-> NoTask]
      /\ secret' = [c \in Conn |-> "none"]
      /\ holder' = None /\ queue' = <<>>
      /\ saved' = [c \in Conn |-> "cooked"]
      /\ client' = client
  BY DEF Exit, Killed, Forgotten
<1>2. tty' \in {"cooked", "raw"}
  BY DEF Exit, Killed, IInv, TypeOK
<1>3. TypeOK'
  BY <1>1, <1>2, NothingIsTyped DEF IInv, TypeOK
<1>4. \A d \in Conn : HandlerShape(d)' /\ SecretShape(d)'
  BY <1>1 DEF HandlerShape, SecretShape, Free, NoTask, AtWork, Over
<1>5. OnePromptEach'
  BY <1>1 DEF OnePromptEach, Free
<1>6. TerminalModes' /\ PromptIsTracked' /\ NoPromptLeftBehind' /\ ExchangeFollowsSession'
  BY <1>1 DEF TerminalModes, PromptIsTracked, NoPromptLeftBehind, ExchangeFollowsSession, NoTask
<1>7. ExitedIsEmpty'
  BY <1>1 DEF ExitedIsEmpty
<1>8. QED
  BY <1>3, <1>4, <1>5, <1>6, <1>7 DEF IInv

-------------------------------------------------------------------------------
(***************************************************************************)
(* The theorems.                                                           *)
(***************************************************************************)
LEMMA InitInv == Init => IInv
<1> SUFFICES ASSUME Init PROVE IInv
  OBVIOUS
<1>1. TypeOK
  BY NothingIsTyped DEF Init, TypeOK
<1>2. \A c \in Conn : HandlerShape(c) /\ SecretShape(c)
  BY DEF Init, HandlerShape, SecretShape, Free, NoTask, AtWork, Over
<1>3. OnePromptEach
  BY DEF Init, OnePromptEach, Free
<1>4. TerminalModes
  <2>1. IsInjective(queue) /\ ToSet(queue) = {}
    BY DEF Init, IsInjective, ToSet
  <2>2. \A c \in Conn : ~Reading(c) /\ ui[c].pc # "lock"
    BY DEF Init, NoTask, Reading, Question
  <2>3. QED
    BY <2>1, <2>2, NoneIsNoConn DEF Init, TerminalModes
<1>5. PromptIsTracked /\ NoPromptLeftBehind /\ ExchangeFollowsSession
  BY DEF Init, PromptIsTracked, NoPromptLeftBehind, ExchangeFollowsSession, NoTask
<1>6. ExitedIsEmpty
  BY DEF Init, ExitedIsEmpty
<1>7. QED
  BY <1>1, <1>2, <1>3, <1>4, <1>5, <1>6 DEF IInv

LEMMA StutterInv ==
  ASSUME IInv, UNCHANGED vars
  PROVE  IInv'
<1>1. TypeOK'
  BY DEF IInv, TypeOK, vars
<1>2. \A c \in Conn : HandlerShape(c)' /\ SecretShape(c)'
  BY DEF IInv, HandlerShape, SecretShape, Over, vars
<1>3. OnePromptEach' /\ TerminalModes' /\ PromptIsTracked'
  BY DEF IInv, OnePromptEach, TerminalModes, PromptIsTracked, Reading, vars
<1>4. NoPromptLeftBehind' /\ ExchangeFollowsSession' /\ ExitedIsEmpty'
  BY DEF IInv, NoPromptLeftBehind, ExchangeFollowsSession, ExitedIsEmpty, vars
<1>5. QED
  BY <1>1, <1>2, <1>3, <1>4 DEF IInv

LEMMA NextInv ==
  ASSUME IInv, Next
  PROVE  IInv'
<1>1. CASE Peer
  <2>1. CASE \E c \in Conn, t \in Token : AskBegin(c, t) \/ AskPrompt(c, t) \/ AskStop(c, t)
    BY <2>1, PeerStep
  <2>2. CASE \E c \in Conn : HangUp(c)
    BY <2>2, HangUpStep
  <2>3. QED
    BY <1>1, <2>1, <2>2 DEF Peer
<1>2. ASSUME NEW c \in Conn, Handles(c) PROVE IInv'
  BY <1>2, RefusedStep, BeginServedStep, StopServedStep, PromptStartsStep, PeerLostStep,
     PromptDoneStep, EndOfPromptSteps DEF Handles
<1>3. ASSUME NEW c \in Conn, UiRuns(c) PROVE IInv'
  BY <1>3, UiStartsStep, UiGetsLockStep, UiCancelledStep DEF UiRuns
<1>4. ASSUME NEW c \in Conn, User(c) PROVE IInv'
  BY <1>4, UserAnswersStep, UserCancelsStep DEF User
<1>5. CASE Reap \/ \E t \in Token : Ages(t)
  BY <1>5, TimeStep
<1>6. CASE Interrupt \/ Exit \/ Killed
  BY <1>6, InterruptStep, ExitStep
<1>7. QED
  BY <1>1, <1>2, <1>3, <1>4, <1>5, <1>6 DEF Next

\* The inductive invariant holds in every state of the server.
THEOREM ServerInvariant == Spec => []IInv
<1>1. IInv /\ [Next]_vars => IInv'
  BY NextInv, StutterInv
<1>2. QED
  BY <1>1, InitInv, PTL DEF Spec

\* Every variable of the server keeps its type.
THEOREM ServerTypes == Spec => []TypeOK
<1>1. IInv => TypeOK
  BY DEF IInv
<1>2. QED
  BY <1>1, ServerInvariant, PTL

\* ui_lock serves its purpose: however many prompts there are, one at a time reads the
\* terminal, it is raw only then, and what will be restored is a cooked terminal
\* (PrompterServer._run_prompt, TTY).
THEOREM OnePromptOnTheTerminal == Spec => []TerminalModes
<1>1. IInv => TerminalModes
  BY DEF IInv
<1>2. QED
  BY <1>1, ServerInvariant, PTL

\* "stop" and the reaper find every prompt that is not being cancelled in prompt_task of its
\* session (PrompterServer._dispatch).
THEOREM StopFindsEveryPrompt == Spec => []PromptIsTracked
<1>1. IInv => PromptIsTracked
  BY DEF IInv
<1>2. QED
  BY <1>1, ServerInvariant, PTL

\* prompt_task names no handler that has ended, so that the reaper can have the session
\* (the `finally' of PrompterServer._dispatch).
THEOREM NoNameIsLeftBehind == Spec => []NoPromptLeftBehind
<1>1. IInv => NoPromptLeftBehind
  BY DEF IInv
<1>2. QED
  BY <1>1, ServerInvariant, PTL

\* Whichever way a session goes, its key exchange goes with it.
THEOREM ExchangeGoesWithSession == Spec => []ExchangeFollowsSession
<1>1. IInv => ExchangeFollowsSession
  BY DEF IInv
<1>2. QED
  BY <1>1, ServerInvariant, PTL

\* No closed connection has left its password in memory, if it was not dropped by a
\* cancelled repetition (handle_connection, TTY.read_secret).
THEOREM PasswordsAreWiped == Spec => []PasswordWiped
<1>1. IInv => PasswordWiped
  BY DEF IInv, HandlerShape, SecretShape, PasswordWiped, AtWork, NoTask, Over
<1>2. QED
  BY <1>1, ServerInvariant, PTL
-------------------------------------------------------------------------------
(***************************************************************************)
(* The server implements BorrowedTerminal.                                 *)
(***************************************************************************)
\* What BorrowedTerminal may do in a step of the server.
LoanStep == [Loan!LoanNext]_(Loan!loanVars)
LoanStarts == Loan!LoanInit

LEMMA PrecedesOrder ==
  /\ \A e \in Precedes : e[1] \in InTurn /\ e[2] \in InTurn /\ Ahead(queue, e[1], e[2])
  /\ \A a, b \in InTurn : <<a, b>> \in Precedes <=> Ahead(queue, a, b)
BY DEF Precedes, Ahead

\* The line and the terminal are left alone, and who waits goes on waiting.
LEMMA LoanStutters ==
  ASSUME UNCHANGED <<queue, holder, tty>>, server = "exited" <=> server' = "exited",
         \A c \in Conn : c \in InTurn' <=> c \in InTurn
  PROVE  UNCHANGED Loan!loanVars
<1>1. InTurn' = InTurn
  BY DEF InTurn
<1>2. Precedes' = Precedes
  BY <1>1 DEF Precedes
<1>3. QED
  BY <1>1, <1>2 DEF Loan!loanVars

\* A loan is made or ends while the server is there.
LEMMA Lent ==
  ASSUME server # "exited", UNCHANGED server, Loan!Lends
  PROVE  LoanStep
BY DEF LoanStep, Loan!LoanNext

\* A task is cancelled: if it waits, its prompt is withdrawn.
LEMMA CancelWithdraws ==
  ASSUME IInv, server # "exited", UNCHANGED <<server, terminalVars>>, NEW x \in Conn \union {None}, ui' = Cancel(x)
  PROVE  LoanStep
<1>1. CASE ui' = ui
  <2>1. InTurn' = InTurn
    BY <1>1 DEF InTurn
  <2>2. QED
    BY <2>1, LoanStutters DEF LoanStep, terminalVars
<1>2. CASE x \in Conn /\ ui' = [ui EXCEPT ![x].cancel = TRUE]
  <2>1. /\ ui'[x].pc = ui[x].pc /\ ui'[x].cancel
        /\ \A d \in Conn \ {x} : ui'[d] = ui[d]
    BY <1>2 DEF IInv, TypeOK, UiTask
  <2>2. InTurn' = InTurn \ {x}
    BY <2>1 DEF InTurn
  <2>3. CASE x \in InTurn
    <3>1. Precedes' = Precedes \intersect (InTurn' \X InTurn')
      BY <2>2 DEF Precedes, terminalVars
    <3>2. Loan!Withdraw(x)
      BY <2>2, <2>3, <3>1 DEF Loan!Withdraw, Loan!Leaves, terminalVars
    <3>3. QED
      BY <1>2, <3>2, Lent DEF Loan!Lends
  <2>4. CASE x \notin InTurn
    BY <2>2, <2>4, LoanStutters DEF LoanStep, terminalVars
  <2>5. QED
    BY <2>3, <2>4
<1>3. QED
  BY <1>1, <1>2 DEF Cancel

\* A task that does not wait, and will not.
LEMMA OneTaskElsewhere ==
  ASSUME IInv, NEW c \in Conn, NEW u, ui' = [ui EXCEPT ![c] = u],
         c \notin InTurn, u.pc # "lock", UNCHANGED <<queue, holder, tty, server>>
  PROVE  LoanStep
<1>1. ui'[c] = u /\ \A d \in Conn \ {c} : ui'[d] = ui[d]
  BY DEF IInv, TypeOK
<1>2. \A d \in Conn : d \in InTurn' <=> d \in InTurn
  BY <1>1 DEF InTurn
<1>3. QED
  BY <1>2, LoanStutters DEF LoanStep

LEMMA HandlesLoan ==
  ASSUME IInv, NEW c \in Conn, Handles(c)
  PROVE  LoanStep
<1>1. CASE BeginRefused(c) \/ BeginServed(c) \/ PromptRefused(c) \/ PromptDone(c)
  <2>1. UNCHANGED <<ui, terminalVars, server>>
    BY <1>1 DEF BeginRefused, BeginServed, PromptRefused, PromptDone
  <2>2. QED
    BY <2>1, LoanStutters DEF LoanStep, InTurn, terminalVars
<1>2. CASE StopServed(c)
  <2>1. conn[c].tok \in Token
    BY <1>2, TokenOfHandler DEF StopServed, Reads
  <2>2. prompt_task[conn[c].tok] \in Conn \union {None}
    BY <2>1 DEF IInv, TypeOK
  <2>3. UNCHANGED <<server, terminalVars>> /\ server # "exited"
    BY <1>2, AliveOrEmpty DEF StopServed, Reads
  <2>4. CASE ui' = ui
    BY <2>3, <2>4, LoanStutters DEF LoanStep, InTurn, terminalVars
  <2>5. CASE ui' = Cancel(prompt_task[conn[c].tok])
    BY <2>2, <2>3, <2>5, CancelWithdraws
  <2>6. QED
    BY <1>2, <2>4, <2>5 DEF StopServed
<1>3. CASE PeerLost(c)
  BY <1>3, AliveOrEmpty, CancelWithdraws DEF PeerLost
<1>4. CASE PromptStarts(c)
  <2> DEFINE u == [NoTask EXCEPT !.pc = "created"]
  <2>1. ui[c] = NoTask
    BY <1>4 DEF PromptStarts, Reads, IInv, HandlerShape, AtWork
  <2>2. c \notin InTurn /\ u.pc # "lock"
    BY <2>1 DEF InTurn, NoTask
  <2>3. ui' = [ui EXCEPT ![c] = u] /\ UNCHANGED <<terminalVars, server>>
    BY <1>4 DEF PromptStarts
  <2>4. QED
    BY <2>2, <2>3, OneTaskElsewhere DEF terminalVars
<1>5. CASE Withdrawn(c) \/ AnswerSent(c) \/ SendFails(c) \/ AnswerLost(c)
  <2>1. Over(c)
    BY <1>5 DEF Withdrawn, AnswerSent, SendFails, Settles, AnswerLost, IInv, HandlerShape
  <2>2. c \notin InTurn /\ NoTask.pc # "lock"
    BY <2>1 DEF InTurn, Over, NoTask
  <2>3. ui' = [ui EXCEPT ![c] = NoTask] /\ UNCHANGED <<terminalVars, server>>
    BY <1>5 DEF Withdrawn, AnswerSent, SendFails, Settles, AnswerLost, PromptClosed
  <2>4. QED
    BY <2>2, <2>3, OneTaskElsewhere DEF terminalVars
<1>6. QED
  BY <1>1, <1>2, <1>3, <1>4, <1>5 DEF Handles

\* A ui_task that asks at once, or takes the last place of the line.
LEMMA UiStartsLoan ==
  ASSUME IInv, NEW c \in Conn, UiStarts(c)
  PROVE  LoanStep
<1>1. ui[c].pc = "created" /\ ~ui[c].cancel /\ c \notin InTurn /\ UNCHANGED server
  BY DEF UiStarts, InTurn
<1>2. server # "exited" /\ queue \in Seq(Conn) /\ IsInjective(queue)
      /\ \A d \in Conn : d \in ToSet(queue) <=> ui[d].pc = "lock"
  BY <1>1, HandlerOfTask, QueueShape
<1>3. CASE LockIsFree /\ holder' = c /\ Ask(c, FirstQuestion(c)) /\ UNCHANGED queue
  <2>1. InTurn = {}
    BY <1>2, <1>3 DEF LockIsFree, InTurn
  <2>2. InTurn' = {}
    <3>1. FirstQuestion(c) # "lock"
      BY DEF FirstQuestion
    <3>2. ui'[c].pc = FirstQuestion(c) /\ \A d \in Conn \ {c} : ui'[d] = ui[d]
      BY <1>3 DEF Ask, IInv, TypeOK, UiTask
    <3>3. QED
      BY <2>1, <3>1, <3>2 DEF InTurn
  <2>3. Precedes = {} /\ Precedes' = {}
    BY <2>1, <2>2 DEF Precedes
  <2>4. holder = None /\ tty = "cooked" /\ tty' = "raw"
    BY <1>2, <1>3 DEF LockIsFree, Ask, IInv, TypeOK, TerminalModes
  <2>5. Loan!BorrowAtOnce(c)
    BY <1>3, <2>1, <2>2, <2>3, <2>4 DEF Loan!BorrowAtOnce, Loan!Takes
  <2>6. QED
    BY <1>1, <1>2, <2>5, Lent DEF Loan!Lends
<1>4. CASE /\ queue' = Append(queue, c)
           /\ ui' = [ui EXCEPT ![c].pc = "lock"]
           /\ UNCHANGED <<holder, tty, saved>>
  <2>1. /\ ui'[c].pc = "lock" /\ ui'[c].cancel = ui[c].cancel
        /\ \A d \in Conn \ {c} : ui'[d] = ui[d]
    BY <1>4 DEF IInv, TypeOK, UiTask
  <2>2. InTurn' = InTurn \union {c}
    BY <1>1, <2>1 DEF InTurn
  <2>3. c \notin ToSet(queue)
    BY <1>1, <1>2
  <2>4. \A a, b : Ahead(queue', a, b) <=> Ahead(queue, a, b) \/ (a \in ToSet(queue) /\ b = c)
    BY <1>2, <1>4, <2>3, AppendOrder
  <2>5. \A a : ~Ahead(queue, a, c) /\ ~Ahead(queue, c, a)
    BY <2>3 DEF Ahead, ToSet
  <2>6. \A a \in InTurn : a \in ToSet(queue)
    BY <1>2 DEF InTurn
  <2>7. Precedes' = Precedes \union (InTurn \X {c})
    <3>1. Precedes = {e \in InTurn \X InTurn : Ahead(queue, e[1], e[2])}
      BY DEF Precedes, Ahead
    <3>2. Precedes' = {e \in InTurn' \X InTurn' : Ahead(queue', e[1], e[2])}
      BY DEF Precedes, Ahead
    <3>3. QED
      BY <1>1, <2>2, <2>3, <2>4, <2>5, <2>6, <3>1, <3>2
  <2>8. c # holder
    BY <1>1, <1>2 DEF IInv, TerminalModes, Reading, Question
  <2>9. Loan!AskFor(c)
    BY <1>1, <1>4, <2>2, <2>7, <2>8 DEF Loan!AskFor
  <2>10. QED
    BY <1>1, <1>2, <2>9, Lent DEF Loan!Lends
<1>5. QED
  BY <1>3, <1>4 DEF UiStarts

\* The first of the line: all that asked earlier have had the terminal or were withdrawn.
LEMMA UiGetsLockLoan ==
  ASSUME IInv, NEW c \in Conn, UiGetsLock(c)
  PROVE  LoanStep
<1>1. /\ ui[c].pc = "lock" /\ ~ui[c].cancel /\ c \in InTurn
      /\ holder = None /\ holder' = c /\ Head(queue) = c /\ queue' = Tail(queue)
      /\ Ask(c, FirstQuestion(c)) /\ UNCHANGED server
  BY DEF UiGetsLock, InTurn
<1>2. server # "exited" /\ queue \in Seq(Conn) /\ IsInjective(queue) /\ c \in ToSet(queue)
  BY <1>1, HandlerOfTask, QueueShape
<1>3. queue # <<>>
  BY <1>2 DEF ToSet
<1>4. queue' = CloseUp(queue, 1) /\ 1 \in 1..Len(queue) /\ queue[1] = c
  BY <1>1, <1>2, <1>3, BehindTheFirst, HeadTailProperties
<1>5. InTurn' = InTurn \ {c}
  <2>1. FirstQuestion(c) # "lock"
    BY DEF FirstQuestion
  <2>2. ui'[c].pc = FirstQuestion(c) /\ \A d \in Conn \ {c} : ui'[d] = ui[d]
    BY <1>1 DEF Ask, IInv, TypeOK, UiTask
  <2>3. QED
    BY <2>1, <2>2 DEF InTurn
<1>6. \A a, b \in InTurn' : Ahead(queue', a, b) <=> Ahead(queue, a, b)
  BY <1>2, <1>4, <1>5, CloseUpOrder
<1>7. Precedes' = Precedes \intersect (InTurn' \X InTurn')
  <2>1. Precedes = {e \in InTurn \X InTurn : Ahead(queue, e[1], e[2])}
    BY DEF Precedes, Ahead
  <2>2. Precedes' = {e \in InTurn' \X InTurn' : Ahead(queue', e[1], e[2])}
    BY DEF Precedes, Ahead
  <2>3. QED
    BY <1>5, <1>6, <2>1, <2>2
<1>8. \A q \in InTurn : <<q, c>> \notin Precedes
  BY <1>2, <1>3, <1>4, FirstIsAhead, PrecedesOrder
<1>9. tty = "cooked" /\ tty' = "raw"
  BY <1>1, <1>2 DEF Ask, IInv, TypeOK, TerminalModes
<1>10. Loan!BorrowInTurn(c)
  BY <1>1, <1>5, <1>7, <1>8, <1>9 DEF Loan!BorrowInTurn, Loan!Leaves, Loan!Takes
<1>11. QED
  BY <1>1, <1>2, <1>10, Lent DEF Loan!Lends

\* The read ends, and so does the prompt: the terminal is what it was before.
LEMMA EndsLoan ==
  ASSUME IInv, NEW c \in Conn, Reading(c), NEW out, Ends(c, out), UNCHANGED server
  PROVE  LoanStep
<1>1. server # "exited"
  BY HandlerOfTask DEF Reading, Question
<1>2. holder = c /\ saved[c] = "cooked"
  BY <1>1 DEF IInv, TerminalModes
<1>3. holder # None /\ holder' = None /\ tty' = "cooked" /\ UNCHANGED queue
  BY <1>2, NoneIsNoConn DEF Ends
<1>4. InTurn' = InTurn
  <2> DEFINE u == [pc |-> "over", cancel |-> FALSE, out |-> out]
  <2>1. ui' = [ui EXCEPT ![c] = u] /\ u.pc = "over"
    BY DEF Ends
  <2>2. ui'[c].pc = "over" /\ \A d \in Conn \ {c} : ui'[d] = ui[d]
    BY <2>1 DEF IInv, TypeOK
  <2>3. QED
    BY <2>2 DEF InTurn, Reading, Question
<1>5. Precedes' = Precedes
  BY <1>3, <1>4 DEF Precedes
<1>6. Loan!GiveBack
  BY <1>3, <1>4, <1>5 DEF Loan!GiveBack
<1>7. QED
  BY <1>1, <1>6, Lent DEF Loan!Lends

\* The next question: between the two reads nobody else could have had the terminal.
LEMMA AsksNextLoan ==
  ASSUME IInv, NEW c \in Conn, Reading(c), NEW q \in Question, AsksNext(c, q), UNCHANGED server
  PROVE  LoanStep
<1>1. server # "exited"
  BY HandlerOfTask DEF Reading, Question
<1>2. tty = "raw" /\ UNCHANGED <<queue, holder, tty>>
  BY <1>1, NoneIsNoConn DEF IInv, TerminalModes, AsksNext
<1>3. /\ ui'[c].pc = q /\ q # "lock" /\ \A d \in Conn \ {c} : ui'[d] = ui[d]
  BY DEF AsksNext, IInv, TypeOK, UiTask, Question
<1>4. \A d \in Conn : d \in InTurn' <=> d \in InTurn
  BY <1>3 DEF InTurn, Reading, Question
<1>5. QED
  BY <1>2, <1>4, LoanStutters DEF LoanStep

LEMMA UserLoan ==
  ASSUME IInv, NEW c \in Conn, User(c)
  PROVE  LoanStep
<1>1. Reading(c)
  BY DEF User, UserAnswers, UserCancels, SecretEntered, RepeatMatches, RepeatDiffers,
         ChoiceMade, Confirmed, Reading, Question
<1>2. (\E q \in Question : AsksNext(c, q)) \/ (\E out : Ends(c, out))
  BY DEF User, UserAnswers, UserCancels, SecretEntered, RepeatMatches, RepeatDiffers,
         ChoiceMade, Confirmed, PasswordRead, Question
<1>3. UNCHANGED server
  BY DEF User, UserAnswers, UserCancels
<1>4. QED
  BY <1>1, <1>2, <1>3, EndsLoan, AsksNextLoan

\* A cancelled task was withdrawn when it was cancelled; now it leaves the line.
LEMMA UiCancelledLoan ==
  ASSUME IInv, NEW c \in Conn, UiCancelled(c)
  PROVE  LoanStep
<1>1. CASE ReadCancelled(c)
  BY <1>1, EndsLoan DEF UiCancelled, ReadCancelled
<1>2. CASE WaitCancelled(c)
  <2> DEFINE u == [pc |-> "over", cancel |-> FALSE, out |-> "CancelledError"]
  <2>1. /\ ui[c].pc \in {"created", "lock"} /\ ui' = [ui EXCEPT ![c] = u] /\ u.pc = "over"
        /\ queue' = RemoveFirst(queue, c) /\ UNCHANGED <<holder, tty, server>>
    BY <1>2 DEF UiCancelled, WaitCancelled
  <2>2. c \notin InTurn
    BY DEF UiCancelled, InTurn
  <2>3. ui'[c].pc = "over" /\ \A d \in Conn \ {c} : ui'[d] = ui[d]
    BY <2>1 DEF IInv, TypeOK
  <2>4. InTurn' = InTurn
    BY <2>2, <2>3 DEF InTurn
  <2>5. queue \in Seq(Conn) /\ IsInjective(queue)
    BY <2>1, HandlerOfTask, QueueShape
  <2>6. \A a, b \in InTurn : Ahead(queue', a, b) <=> Ahead(queue, a, b)
    <3>1. CASE queue' = queue
      BY <3>1
    <3>2. CASE \E i \in 1..Len(queue) : queue[i] = c /\ queue' = CloseUp(queue, i)
      BY <2>2, <2>5, <3>2, CloseUpOrder
    <3>3. QED
      BY <2>1, <2>5, <3>1, <3>2, RemoveFirstPlace
  <2>7. Precedes' = Precedes
    <3>1. Precedes = {e \in InTurn \X InTurn : Ahead(queue, e[1], e[2])}
      BY DEF Precedes, Ahead
    <3>2. Precedes' = {e \in InTurn' \X InTurn' : Ahead(queue', e[1], e[2])}
      BY DEF Precedes, Ahead
    <3>3. QED
      BY <2>4, <2>6, <3>1, <3>2
  <2>8. QED
    BY <2>1, <2>4, <2>7 DEF LoanStep, Loan!loanVars
<1>3. QED
  BY <1>1, <1>2 DEF UiCancelled

\* The server ends: nobody waits any more, and the terminal is left as it is or given back.
LEMMA EndLoan ==
  ASSUME IInv, Exit \/ Killed
  PROVE  LoanStep
<1>1. server # "exited" /\ server' = "exited" /\ holder' = None
      /\ ui' = [c \in Conn |-> NoTask]
  BY DEF Exit, Killed, Forgotten
<1>2. InTurn' = {}
  BY <1>1 DEF InTurn, NoTask
<1>3. Precedes' = {}
  BY <1>2 DEF Precedes
<1>4. \A c \in {holder} \ {None} : saved[c] = "cooked"
  BY <1>1 DEF IInv, TypeOK, TerminalModes
<1>5. tty' \in {tty, "cooked"}
  BY <1>4 DEF Exit, Killed
<1>6. Loan!Closes
  BY <1>1, <1>2, <1>3, <1>5 DEF Loan!Closes
<1>7. QED
  BY <1>6 DEF LoanStep, Loan!LoanNext

LEMMA NextLoan ==
  ASSUME IInv, [Next]_vars
  PROVE  LoanStep
<1>1. CASE UNCHANGED vars \/ Peer \/ (\E t \in Token : Ages(t)) \/ Reap \/ Interrupt
  <2>1. UNCHANGED <<ui, terminalVars>> /\ (server = "exited" <=> server' = "exited")
    BY <1>1 DEF vars, Peer, AskBegin, AskPrompt, AskStop, Connect, HangUp, Ages, Reap, Interrupt,
                terminalVars
  <2>2. QED
    BY <2>1, LoanStutters DEF LoanStep, InTurn, terminalVars
<1>2. ASSUME NEW c \in Conn, Handles(c) \/ UiRuns(c) \/ User(c) PROVE LoanStep
  BY <1>2, HandlesLoan, UiStartsLoan, UiGetsLockLoan, UiCancelledLoan, UserLoan DEF UiRuns
<1>3. CASE Exit \/ Killed
  BY <1>3, EndLoan
<1>4. QED
  BY <1>1, <1>2, <1>3 DEF Next

\* The terminal is at home, and nobody asks for it.
LEMMA InitLoan ==
  ASSUME holder = None, tty = "cooked", server # "exited", \A c \in Conn : ui[c] = NoTask
  PROVE  LoanStarts
<1>1. InTurn = {}
  BY DEF InTurn, NoTask
<1>2. Precedes = {}
  BY <1>1 DEF Precedes
<1>3. QED
  BY <1>1, <1>2 DEF LoanStarts, Loan!LoanInit

LEMMA RestartLoan ==
  ASSUME holder' = None, tty' = "cooked", server' # "exited", \A c \in Conn : ui'[c] = NoTask
  PROVE  LoanStarts'
<1>1. InTurn' = {}
  BY DEF InTurn, NoTask
<1>2. Precedes' = {}
  BY <1>1 DEF Precedes
<1>3. QED
  BY <1>1, <1>2 DEF LoanStarts, Loan!LoanInit

\* The server implements BorrowedTerminal: while it is there, the prompts have the terminal
\* one at a time and in the order in which they asked for it (ui_lock), but for those that
\* were withdrawn, and each gives it back as it was.
THEOREM TerminalIsLentInOrder == Spec => LendsInOrder
<1>1. Init => Loan!LoanInit
  BY InitLoan DEF Init, LoanStarts
<1>2. IInv /\ [Next]_vars => [Loan!LoanNext]_(Loan!loanVars)
  BY NextLoan DEF LoanStep
<1>3. QED
  BY <1>1, <1>2, ServerInvariant, PTL DEF Spec, LendsInOrder, Loan!LoanSpec
-------------------------------------------------------------------------------
(***************************************************************************)
(* When a session is dropped while its client has it.                      *)
(***************************************************************************)
\* A connection that is there has a token, and is another's when it changes.
LEMMA RequestOf ==
  ASSUME IInv, NEW c \in Conn
  PROVE  /\ conn[c] \in Handler
         /\ \A op \in {"begin", "stop"} : Reads(c, op) => conn[c].tok \in Token
         /\ conn[c].op = "prompt" => conn[c].tok \in Token /\ conn[c].pc # "free"
         /\ conn[c].pc \in AtWork => conn[c].op = "prompt"
<1>1. conn[c].op = "prompt" => conn[c].pc # "free"
  BY DEF IInv, HandlerShape, Free
<1>2. QED
  BY <1>1, TokenOfHandler DEF IInv, TypeOK, HandlerShape, Reads

LEMMA AskPInv ==
  ASSUME IInv, PInv, NEW c \in Conn, NEW t \in Token,
         AskBegin(c, t) \/ AskPrompt(c, t) \/ AskStop(c, t)
  PROVE  PInv'
<1>1. /\ conn[c].pc = "free" /\ UNCHANGED <<sessions, prompt_task>>
      /\ \A d \in Conn \ {c} : conn'[d] = conn[d]
      /\ conn'[c].pc = "read" /\ conn'[c].tok = t
      /\ \/ conn'[c].op = "begin" /\ client[t] = "new" /\ client' = [client EXCEPT ![t] = "asked"]
         \/ conn'[c].op = "prompt" /\ client[t] = "begun" /\ client' = client
         \/ conn'[c].op = "stop" /\ client' = [client EXCEPT ![t] = "stopped"]
  <2>1. ASSUME NEW r, Connect(c, r)
        PROVE  /\ conn[c].pc = "free" /\ UNCHANGED <<sessions, prompt_task>>
               /\ \A d \in Conn \ {c} : conn'[d] = conn[d]
               /\ conn'[c] = r
    BY <2>1 DEF Connect, sessionVars, IInv, TypeOK
  <2>2. \A op \in {"begin", "stop", "prompt"} :
          Request(op, t).pc = "read" /\ Request(op, t).op = op /\ Request(op, t).tok = t
    BY DEF Request, Free
  <2>3. CASE AskBegin(c, t)
    BY <2>1, <2>2, <2>3 DEF AskBegin
  <2>4. CASE AskStop(c, t)
    BY <2>1, <2>2, <2>4 DEF AskStop
  <2>5. CASE AskPrompt(c, t)
    <3>1. PICK f \in Form, b \in Choice :
            Connect(c, [Request("prompt", t) EXCEPT !.form = f, !.choice = b])
      BY <2>5 DEF AskPrompt
    <3> DEFINE r == [Request("prompt", t) EXCEPT !.form = f, !.choice = b]
    <3>2. r.pc = "read" /\ r.op = "prompt" /\ r.tok = t
      BY DEF Request, Free
    <3> HIDE DEF r
    <3>3. client[t] = "begun" /\ client' = client
      BY <2>5 DEF AskPrompt
    <3>4. QED
      BY <2>1, <3>1, <3>2, <3>3 DEF r
  <2>6. QED
    BY <2>3, <2>4, <2>5
<1>2. \A d \in Conn : conn[d].pc \in AtWork => d # c
  BY <1>1 DEF AtWork
<1>3. \A u \in Token \ {t} : client'[u] = client[u]
  BY <1>1 DEF IInv, TypeOK
<1>4. \/ conn'[c].op = "begin" /\ client[t] = "new" /\ client'[t] = "asked"
      \/ conn'[c].op = "prompt" /\ client[t] = "begun" /\ client'[t] = "begun"
      \/ conn'[c].op = "stop" /\ client'[t] = "stopped"
  BY <1>1 DEF IInv, TypeOK
<1>5. PeerShape'
  BY <1>1, <1>3, <1>4, RequestOf DEF PInv, PeerShape, Reads
<1>6. PromptIsNamed'
  BY <1>1, <1>2, <1>3, <1>4, RequestOf DEF PInv, PromptIsNamed, PeerShape, AtWork
<1>7. QED
  BY <1>5, <1>6 DEF PInv

LEMMA HangUpPInv ==
  ASSUME IInv, PInv, NEW c \in Conn, HangUp(c)
  PROVE  PInv'
<1> DEFINE t == conn[c].tok
<1>1. /\ conn[c].open /\ client' = [client EXCEPT ![t] = "stopped"]
      /\ UNCHANGED <<sessions, prompt_task>>
  BY DEF HangUp, sessionVars
<1>2. \A d \in Conn : conn'[d].pc = conn[d].pc /\ conn'[d].op = conn[d].op /\ conn'[d].tok = conn[d].tok
  BY RequestOf DEF HangUp, IInv, TypeOK, Handler
<1>3. \A d \in Conn : (conn[d].pc # "free" \/ conn[d].op = "prompt") => conn[d].tok \in Token
  BY RequestOf, TokenOfHandler
<1>4. \A u \in Token : client'[u] = client[u] \/ client'[u] = "stopped"
  BY <1>1 DEF IInv, TypeOK
<1>5. PeerShape'
  BY <1>2, <1>3, <1>4 DEF PInv, PeerShape, Reads
<1>6. PromptIsNamed'
  BY <1>1, <1>2, <1>3, <1>4 DEF PInv, PromptIsNamed, AtWork
<1>7. QED
  BY <1>5, <1>6 DEF PInv

LEMMA HandlesPInv ==
  ASSUME IInv, PInv, NEW c \in Conn, Handles(c)
  PROVE  PInv'
<1> DEFINE t == conn[c].tok
<1>0. /\ conn[c].pc # "free" /\ t \in Token
      /\ conn[c] \in Handler
      /\ \A d \in Conn : conn[d].op = "prompt" => conn[d].tok \in Token /\ conn[d].pc # "free"
      /\ \A d \in Conn : conn[d].pc \in AtWork => conn[d].op = "prompt"
  <2>1. conn[c].pc # "free"
    BY DEF Handles, BeginRefused, BeginServed, StopServed, PromptRefused, PromptStarts, PeerLost,
         PromptDone, Withdrawn, AnswerSent, SendFails, Settles, AnswerLost, Reads
  <2>2. QED
    BY <2>1, RequestOf, TokenOfHandler
\* The end of a handler that leaves the sessions alone.
<1>1. ASSUME conn' = Closed(c), UNCHANGED <<sessions, client>>,
             \A u \in Token : prompt_task'[u] = prompt_task[u] \/ prompt_task[u] = c
      PROVE  PInv'
  <2>1. conn'[c] = Free /\ \A d \in Conn \ {c} : conn'[d] = conn[d]
    BY <1>1 DEF Closed, IInv, TypeOK
  <2>2. PeerShape'
    BY <1>1, <2>1 DEF PInv, PeerShape, Reads, Free
  <2>3. PromptIsNamed'
    BY <1>0, <1>1, <2>1 DEF PInv, PromptIsNamed, AtWork, Free
  <2>4. QED
    BY <2>2, <2>3 DEF PInv
\* A handler that goes on to its next await.
<1>2. ASSUME NEW p \in AtWork, conn' = [conn EXCEPT ![c].pc = p],
             UNCHANGED <<sessions, client>>,
             conn[c].op = "prompt",
             \/ conn[c].pc \in AtWork /\ UNCHANGED prompt_task
             \/ t \in sessions /\ prompt_task' = [prompt_task EXCEPT ![t] = c]
      PROVE  PInv'
  <2>1. /\ conn'[c].op = "prompt" /\ conn'[c].tok = t /\ conn'[c].pc = p
        /\ \A d \in Conn \ {c} : conn'[d] = conn[d]
    BY <1>0, <1>2 DEF IInv, TypeOK, Handler
  <2>2. PeerShape'
    BY <1>2, <2>1 DEF PInv, PeerShape, Reads, AtWork
  <2>3. \A d \in Conn \ {c} : conn[d].pc \in AtWork => conn[d].tok # t
    BY <1>0, <1>2 DEF IInv, OnePromptEach
  <2>4. PromptIsNamed'
    BY <1>0, <1>2, <2>1, <2>3 DEF PInv, PromptIsNamed, IInv, TypeOK
  <2>5. QED
    BY <2>2, <2>4 DEF PInv
<1>3. CASE BeginRefused(c) \/ PromptRefused(c)
  BY <1>1, <1>3 DEF BeginRefused, PromptRefused, sessionVars
<1>4. CASE BeginServed(c)
  <2>1. /\ Reads(c, "begin") /\ sessions' = sessions \union {t}
        /\ prompt_task' = [prompt_task EXCEPT ![t] = None]
        /\ client' = IF conn[c].open /\ client[t] = "asked"
                     THEN [client EXCEPT ![t] = "begun"] ELSE client
    BY <1>4 DEF BeginServed
  <2>2. conn'[c] = Free /\ \A d \in Conn \ {c} : conn'[d] = conn[d]
    BY <1>4 DEF BeginServed, Closed, IInv, TypeOK
  <2>3. /\ \A d \in Conn \ {c} : Reads(d, "begin") => conn[d].tok # t
        /\ \A d \in Conn \ {c} : Reads(d, "stop") /\ conn[d].tok = t => client[t] = "stopped"
        /\ \A d \in Conn : conn[d].op = "prompt" /\ conn[d].tok = t => client[t] = "stopped"
    BY <2>1 DEF PInv, PeerShape
  <2>4. /\ \A u \in Token \ {t} : client'[u] = client[u] /\ prompt_task'[u] = prompt_task[u]
        /\ client[t] = "stopped" => client'[t] = "stopped"
    BY <2>1 DEF IInv, TypeOK
  <2>5. PeerShape'
    BY <1>0, <2>2, <2>3, <2>4, RequestOf DEF PInv, PeerShape, Reads, Free
  <2>6. PromptIsNamed'
    BY <1>0, <2>1, <2>2, <2>3, <2>4 DEF PInv, PromptIsNamed, AtWork, Free
  <2>7. QED
    BY <2>5, <2>6 DEF PInv
<1>5. CASE StopServed(c)
  <2>1. client[t] = "stopped" /\ sessions' = sessions \ {t} /\ UNCHANGED <<prompt_task, client>>
    BY <1>5 DEF StopServed, PInv, PeerShape
  <2>2. conn'[c] = Free /\ \A d \in Conn \ {c} : conn'[d] = conn[d]
    BY <1>5 DEF StopServed, Closed, IInv, TypeOK
  <2>3. PeerShape'
    BY <2>1, <2>2 DEF PInv, PeerShape, Reads, Free
  <2>4. PromptIsNamed'
    BY <2>1, <2>2 DEF PInv, PromptIsNamed, AtWork, Free
  <2>5. QED
    BY <2>3, <2>4 DEF PInv
<1>6. CASE PromptStarts(c)
  BY <1>2, <1>6 DEF PromptStarts, Reads, AtWork
<1>7. CASE PeerLost(c) \/ PromptDone(c)
  BY <1>0, <1>2, <1>7 DEF PeerLost, PromptDone, sessionVars, AtWork
<1>8. CASE Withdrawn(c) \/ AnswerSent(c) \/ SendFails(c) \/ AnswerLost(c)
  <2>1. \A u \in Token : prompt_task'[u] = prompt_task[u] \/ prompt_task[u] = c
    BY <1>8 DEF Withdrawn, AnswerSent, SendFails, Settles, AnswerLost, Forget, IInv, TypeOK
  <2>2. conn' = Closed(c) /\ UNCHANGED <<sessions, client>>
    BY <1>8 DEF Withdrawn, AnswerSent, SendFails, Settles, AnswerLost, PromptClosed
  <2>3. QED
    BY <1>1, <2>1, <2>2
<1>9. QED
  BY <1>3, <1>4, <1>5, <1>6, <1>7, <1>8 DEF Handles

LEMMA ElsePInv ==
  ASSUME IInv, PInv, NEW S, S \subseteq sessions,
         \A t \in sessions \ S : prompt_task[t] = None,
         sessions' = S, UNCHANGED <<prompt_task, conn, client>>
  PROVE  PInv'
<1>1. PeerShape'
  BY DEF PInv, PeerShape, Reads
<1>2. PromptIsNamed'
  BY NoneIsNoConn DEF PInv, PromptIsNamed
<1>3. QED
  BY <1>1, <1>2 DEF PInv

LEMMA NextPInv == ASSUME IInv, PInv, [Next]_vars PROVE PInv'
<1>1. CASE Peer
  BY <1>1, AskPInv, HangUpPInv DEF Peer
<1>2. ASSUME NEW c \in Conn, Handles(c) PROVE PInv'
  BY <1>2, HandlesPInv
<1>3. ASSUME UNCHANGED <<sessions, prompt_task, conn, client>> PROVE PInv'
  BY <1>3, ElsePInv
<1>4. ASSUME NEW c \in Conn, UiRuns(c) \/ User(c) PROVE PInv'
  BY <1>3, <1>4 DEF UiRuns, UiStarts, UiGetsLock, UiCancelled, User, UserAnswers, UserCancels,
       sessionVars
<1>5. CASE (\E t \in Token : Ages(t)) \/ Interrupt \/ UNCHANGED vars
  BY <1>3, <1>5 DEF Ages, Interrupt, vars, sessionVars
<1>6. CASE Reap
  BY <1>6, ElsePInv DEF Reap, Reapable
<1>7. CASE Exit \/ Killed
  <2>1. \A c \in Conn : conn'[c] = Free
    BY <1>7 DEF Exit, Killed, Forgotten
  <2>2. QED
    BY <2>1 DEF PInv, PeerShape, PromptIsNamed, Reads, Free, AtWork
<1>8. QED
  BY <1>1, <1>2, <1>4, <1>5, <1>6, <1>7 DEF Next

\* Whoever drops a session that is begun is the reaper.
LEMMA OnlyReaped ==
  ASSUME IInv, PInv, [Next]_vars, NEW t \in Token, client[t] = "begun", t \in sessions,
         server' # "exited", t \notin sessions'
  PROVE  /\ Reap
         /\ t \in stale
         /\ \A c \in Conn : conn[c].tok = t => ui[c].pc = "none"
<1>1. ASSUME NEW c \in Conn, Handles(c) PROVE FALSE
  <2>1. \/ sessions' = sessions
        \/ BeginServed(c) /\ sessions' = sessions \union {conn[c].tok}
        \/ StopServed(c) /\ sessions' = sessions \ {conn[c].tok}
    BY <1>1 DEF Handles, BeginRefused, BeginServed, StopServed, PromptRefused, PromptStarts,
         PeerLost, PromptDone, Withdrawn, AnswerSent, SendFails, AnswerLost, sessionVars
  <2>2. StopServed(c) => client[conn[c].tok] = "stopped"
    BY DEF StopServed, PInv, PeerShape
  <2>3. QED
    BY <2>1, <2>2
<1>2. ASSUME NEW c \in Conn, UiRuns(c) \/ User(c) PROVE FALSE
  BY <1>2 DEF UiRuns, UiStarts, UiGetsLock, UiCancelled, User, UserAnswers, UserCancels,
       sessionVars
<1>3. ~Peer
  BY DEF Peer, AskBegin, AskPrompt, AskStop, HangUp, Connect, sessionVars
<1>4. ~(\E u \in Token : Ages(u)) /\ ~Interrupt /\ ~Exit /\ ~Killed /\ ~(UNCHANGED vars)
  BY DEF Ages, Interrupt, Exit, Killed, Forgotten, sessionVars, vars
<1>5. Reap
  BY <1>1, <1>2, <1>3, <1>4 DEF Next
<1>6. t \in stale /\ prompt_task[t] = None
  BY <1>5 DEF Reap, Reapable
<1>7. \A c \in Conn : conn[c].pc \in AtWork => conn[c].tok # t
  BY <1>6, NoneIsNoConn DEF PInv, PromptIsNamed
<1>8. QED
  BY <1>5, <1>6, <1>7 DEF IInv, HandlerShape, NoTask

LEMMA InitPInv == Init => PInv
BY DEF Init, PInv, PeerShape, PromptIsNamed, Reads, Free, AtWork

\* This is how far the server departs from "maintained for the full callback lifetime"
\* (reap_stale_sessions): it never drops a session with a prompt under way.
THEOREM OnlyIdleSessionsAreDropped == Spec => DroppedOnlyWhenIdle
<1>1. IInv /\ PInv /\ [Next]_vars => PInv'
  BY NextPInv
<1>2. IInv /\ PInv /\ [Next]_vars =>
        \A t \in Token :
          client[t] = "begun" /\ t \in sessions /\ server' # "exited" /\ t \notin sessions' =>
            /\ Reap
            /\ t \in stale
            /\ \A c \in Conn : conn[c].tok = t => ui[c].pc = "none"
  BY OnlyReaped
<1>3. QED
  BY ServerInvariant, InitPInv, <1>1, <1>2, PTL DEF Spec, DroppedOnlyWhenIdle
===============================================================================
