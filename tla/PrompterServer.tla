---------------------------- MODULE PrompterServer ----------------------------
(***************************************************************************)
(* The foreground TTY server (server.py): the class PrompterServer, the    *)
(* prompts it runs on the terminal (TTY), and the coroutine amain.         *)
(*                                                                         *)
(* It is one asyncio event loop.  An action is what a task does between    *)
(* two awaits.  Each connection has a handler task, and a "prompt" request *)
(* a second one, ui_task, which asks the user; it goes by the name of its  *)
(* connection.  The actions of the peer are what this module assumes of    *)
(* client.py; the module Bridge shows that it does no more than that.      *)
(***************************************************************************)
EXTENDS Integers, SequencesExt

CONSTANTS
  Token,    \* bridge tokens, one for each session of the client
  Conn,     \* connections that can exist at a time
  Form,     \* the kinds of prompt: some of "password", "new" and "confirm"
  Choice,   \* whether it has a choice-label: some of the BOOLEANs
  None,
  WaitsForConnections  \* does Server.wait_closed wait for the connections (Python 3.12.1)?

ASSUME NoneIsNoConn == None \notin Conn
ASSUME FormIsKnown == Form \subseteq {"password", "new", "confirm"}  \* "new": password-new
ASSUME ChoiceIsBoolean == Choice \subseteq BOOLEAN
ASSUME WaitsIsBoolean == WaitsForConnections \in BOOLEAN

VARIABLES
  sessions,     \* the keys of self.sessions
  prompt_task,  \* prompt_task of each ServerSession
  stale,        \* those whose last_used is more than an hour ago
  exchange,     \* the sessions whose SecretExchange is not closed
  conn,         \* the handler task of each connection, its request and its peer
  ui,           \* the ui_task of each connection
  secret,       \* the first password that the ui_task read: its bytearray is "held",
                \* "wiped", or "dropped" by an exception that passed it by
  holder,       \* the ui_task that holds ui_lock, or None
  queue,        \* those that wait for it, in order
  tty,          \* the terminal: "cooked", or "raw" without echo and signals
  saved,        \* the attributes that each ui_task will restore
  server,       \* "up", "stopping" after SIGINT, "exited"
  client        \* what the client has done with each token

vars == <<sessions, prompt_task, stale, exchange, conn, ui, secret, holder, queue, tty, saved,
          server, client>>
sessionVars == <<sessions, prompt_task, stale, exchange>>
terminalVars == <<holder, queue, tty, saved>>

(***************************************************************************)
(* A handler: "read" has its request in the socket; "wait" waits for the   *)
(* user or the peer; "cancelling" awaits the ui_task it cancelled;         *)
(* "settle" awaits the watcher it cancelled, and the answer is there.      *)
(***************************************************************************)
Handler == [pc : {"free", "read", "wait", "cancelling", "settle"},
            op : {"begin", "stop", "prompt"}, tok : Token \union {None},
            form : Form \union {None}, choice : BOOLEAN, open : BOOLEAN]
Free == [pc |-> "free", op |-> "stop", tok |-> None,
         form |-> None, choice |-> FALSE, open |-> FALSE]

(***************************************************************************)
(* A ui_task: "created" has not run yet, "lock" waits for ui_lock, the     *)
(* questions are the points where it reads the terminal, and "over" is a   *)
(* task that is done: out is its result, or the exception it ended with.   *)
(***************************************************************************)
Question == {"secret", "repeat", "choice", "confirm"}
UiTask == [pc : {"none", "created", "lock", "over"} \union Question,
           cancel : BOOLEAN,   \* cancel() was called: CancelledError comes next
           out : {"none", "yes", "no", "PromptCancelled", "CancelledError", "Exception"}]
NoTask == [pc |-> "none", cancel |-> FALSE, out |-> "none"]

TypeOK ==
  /\ sessions \in SUBSET Token /\ stale \in SUBSET Token /\ exchange \in SUBSET Token
  /\ prompt_task \in [Token -> Conn \union {None}]
  /\ conn \in [Conn -> Handler]
  /\ ui \in [Conn -> UiTask]
  /\ secret \in [Conn -> {"none", "held", "wiped", "dropped"}]
  /\ holder \in Conn \union {None}
  /\ queue \in Seq(Conn)
  /\ tty \in {"cooked", "raw"}
  /\ saved \in [Conn -> {"cooked", "raw"}]
  /\ server \in {"up", "stopping", "exited"}
  /\ client \in [Token -> {"new", "asked", "begun", "stopped"}]

Init ==
  /\ sessions = {} /\ stale = {} /\ exchange = {}
  /\ prompt_task = [t \in Token |-> None]
  /\ conn = [c \in Conn |-> Free]
  /\ ui = [c \in Conn |-> NoTask]
  /\ secret = [c \in Conn |-> "none"]
  /\ holder = None
  /\ queue = <<>>
  /\ tty = "cooked"
  /\ saved = [c \in Conn |-> "cooked"]
  /\ server = "up"
  /\ client = [t \in Token |-> "new"]
-------------------------------------------------------------------------------
(***************************************************************************)
(* The peer: bridge_rpc, called by the client (external to this module).   *)
(***************************************************************************)
\* A request arrives on a new connection.
Connect(c, req) ==
  /\ server = "up"
  /\ conn[c].pc = "free"
  /\ conn' = [conn EXCEPT ![c] = req]
  /\ secret' = [secret EXCEPT ![c] = "none"]
  /\ UNCHANGED <<sessionVars, ui, terminalVars, server>>

Request(op, t) == [Free EXCEPT !.pc = "read", !.op = op, !.tok = t, !.open = TRUE]

\* "begin" is asked once for a token.
AskBegin(c, t) ==
  /\ client[t] = "new"
  /\ client' = [client EXCEPT ![t] = "asked"]
  /\ Connect(c, Request("begin", t))

\* One "prompt" at a time, for a session that was begun.
AskPrompt(c, t) ==
  /\ client[t] = "begun"
  /\ \A d \in Conn : conn[d].op = "prompt" /\ conn[d].tok = t => ~conn[d].open
  /\ \E f \in Form, b \in Choice :
       Connect(c, [Request("prompt", t) EXCEPT !.form = f, !.choice = b])
  /\ UNCHANGED client

\* "stop" may overtake the "begin" it follows, may be sent again, and may be all the
\* server sees of a session whose "begin" found no server.
AskStop(c, t) ==
  /\ client' = [client EXCEPT ![t] = "stopped"]
  /\ Connect(c, Request("stop", t))

\* The client closes the connection before the reply: a time limit, a cancelled RPC, or
\* it died.  In each case it has finished the session, or will.
HangUp(c) ==
  /\ conn[c].open
  /\ conn' = [conn EXCEPT ![c].open = FALSE]
  /\ client' = [client EXCEPT ![conn[c].tok] = "stopped"]
  /\ UNCHANGED <<sessionVars, ui, secret, terminalVars, server>>
-------------------------------------------------------------------------------
(***************************************************************************)
(* The handler: handle_connection.                                         *)
(***************************************************************************)
\* Mutant: the handler is not done after its reply.
NotClosed(c) == [conn EXCEPT ![c].pc = "replied"]

\* Its end, with a reply or without: writer.close().
Closed(c) == [conn EXCEPT ![c] = Free]

Reads(c, op) == conn[c].pc = "read" /\ conn[c].op = op

\* The token is in use, or libgcr failed.
BeginRefused(c) ==
  /\ Reads(c, "begin")
  /\ conn' = Closed(c)
  /\ UNCHANGED <<sessionVars, ui, secret, terminalVars, server, client>>

\* The request is served though its peer may have hung up.
BeginServed(c) ==
  LET t == conn[c].tok IN
    /\ Reads(c, "begin")
    /\ t \notin sessions
    /\ sessions' = sessions \union {t}
    /\ exchange' = exchange \union {t}
    /\ stale' = stale \ {t}
    /\ prompt_task' = [prompt_task EXCEPT ![t] = None]
    /\ conn' = Closed(c)
    /\ client' = IF conn[c].open /\ client[t] = "asked"
                 THEN [client EXCEPT ![t] = "begun"] ELSE client
    /\ UNCHANGED <<ui, secret, terminalVars, server>>

\* Mutant: only a prompt that is on the terminal is cancelled.
CancelOnTerminal(x) == IF x = holder /\ x # None THEN [ui EXCEPT ![x].cancel = TRUE] ELSE ui

\* The tasks with a cancel() for x, unless it is done.
Cancel(x) == IF x # None /\ ui[x].pc # "over" THEN [ui EXCEPT ![x].cancel = TRUE] ELSE ui

StopServed(c) ==
  LET t == conn[c].tok IN
    /\ Reads(c, "stop")
    /\ sessions' = sessions \ {t}
    /\ exchange' = exchange \ {t}
    /\ stale' = stale \ {t}
    /\ ui' = IF t \in sessions THEN Cancel(prompt_task[t]) ELSE ui
    /\ conn' = Closed(c)
    /\ UNCHANGED <<prompt_task, secret, terminalVars, server, client>>

\* An unknown session, a wrong type, or an exchange that libgcr does not accept.
PromptRefused(c) ==
  /\ Reads(c, "prompt")
  /\ conn' = Closed(c)
  /\ UNCHANGED <<sessionVars, ui, secret, terminalVars, server, client>>

PromptStarts(c) ==
  LET t == conn[c].tok IN
    /\ Reads(c, "prompt")
    /\ t \in sessions
    /\ stale' = stale \ {t}
    /\ ui' = [ui EXCEPT ![c] = [NoTask EXCEPT !.pc = "created"]]
    /\ prompt_task' = [prompt_task EXCEPT ![t] = c]
    /\ conn' = [conn EXCEPT ![c].pc = "wait"]
    /\ UNCHANGED <<sessions, exchange, secret, terminalVars, server, client>>

Over(c) == ui[c].pc = "over"

\* The peer is gone and the user has not answered: the prompt is cancelled.
PeerLost(c) ==
  /\ conn[c].pc = "wait"
  /\ ~conn[c].open /\ ~Over(c)
  /\ ui' = Cancel(c)
  /\ conn' = [conn EXCEPT ![c].pc = "cancelling"]
  /\ UNCHANGED <<sessionVars, secret, terminalVars, server, client>>

\* The ui_task is done: the watcher of the connection is cancelled, and awaited.
PromptDone(c) ==
  /\ conn[c].pc = "wait"
  /\ Over(c)
  /\ conn' = [conn EXCEPT ![c].pc = "settle"]
  /\ UNCHANGED <<sessionVars, ui, secret, terminalVars, server, client>>

\* Mutant: the session goes on naming a prompt that is over.
Remember(c) == UNCHANGED prompt_task

\* `finally': the session forgets the task, if it still names it.
Forget(c) ==
  LET t == conn[c].tok
  IN prompt_task' = IF prompt_task[t] = c THEN [prompt_task EXCEPT ![t] = None] ELSE prompt_task

\* The handler of a prompt ends, and its ui_task is forgotten.
PromptClosed(c) ==
  /\ conn' = Closed(c)
  /\ ui' = [ui EXCEPT ![c] = NoTask]

\* The cancelled prompt is over: no reply.
Withdrawn(c) ==
  /\ conn[c].pc = "cancelling"
  /\ Over(c)
  /\ Forget(c)
  /\ PromptClosed(c)
  /\ UNCHANGED <<sessions, stale, exchange, secret, terminalVars, server, client>>

Answered(c) == ui[c].out \in {"yes", "no", "PromptCancelled"}

\* Mutant: the wipe is not in a `finally', and a closed exchange skips it.
WipeWhenSent(c) ==
  secret' = [secret EXCEPT ![c] = IF @ = "held" /\ conn[c].tok \in exchange THEN "wiped" ELSE @]

Wipe(c) == secret' = [secret EXCEPT ![c] = IF @ = "held" THEN "wiped" ELSE @]

\* What follows the send in each case: a `finally' wipes the password, another one makes
\* the session forget the prompt.
Settles(c) ==
  /\ conn[c].pc = "settle"
  /\ Answered(c)
  /\ IF ui[c].out = "yes" THEN Wipe(c) ELSE UNCHANGED secret
  /\ Forget(c)
  /\ PromptClosed(c)

\* The answer goes through the exchange into the reply.
AnswerSent(c) ==
  /\ Settles(c)
  /\ conn[c].tok \in exchange
  /\ stale' = stale \ {conn[c].tok}
  /\ UNCHANGED <<sessions, exchange, terminalVars, server, client>>

\* The session was stopped meanwhile and its exchange is closed, or libgcr failed: the
\* reply is an error.
SendFails(c) ==
  /\ Settles(c)
  /\ UNCHANGED <<sessions, stale, exchange, terminalVars, server, client>>

\* The ui_task was cancelled by "stop", or failed: no reply, or an error.
AnswerLost(c) ==
  /\ conn[c].pc = "settle"
  /\ ~Answered(c)
  /\ Forget(c)
  /\ PromptClosed(c)
  /\ UNCHANGED <<sessions, stale, exchange, secret, terminalVars, server, client>>
-------------------------------------------------------------------------------
(***************************************************************************)
(* The prompt: _run_prompt, _prompt_password, _prompt_confirm and          *)
(* _choice_properties, down to the reads of TTY.  One segment ends a read, *)
(* restores the terminal, and starts the next read, which saves and        *)
(* changes it again.                                                       *)
(***************************************************************************)
FirstQuestion(c) ==
  IF conn[c].form # "confirm" THEN "secret" ELSE IF conn[c].choice THEN "choice" ELSE "confirm"

\* read_secret or read_yes_no, up to its await.
Ask(c, q) ==
  /\ ui' = [ui EXCEPT ![c].pc = q]
  /\ saved' = [saved EXCEPT ![c] = tty]
  /\ tty' = "raw"

\* asyncio.Lock.acquire does not wait: nobody holds the lock, and those that wait for it
\* were cancelled.
LockIsFree == holder = None /\ \A d \in ToSet(queue) : ui[d].cancel

\* Mutant: _run_prompt asks without `async with self.ui_lock'.
AsksAtOnce(c) ==
  /\ ui[c].pc = "created" /\ ~ui[c].cancel
  /\ holder' = c
  /\ Ask(c, FirstQuestion(c))
  /\ UNCHANGED <<queue, sessionVars, conn, secret, server, client>>

\* The ui_task runs for the first time, and gets ui_lock or waits for it.  (It also waits
\* when a cancelled one had been woken already.)
UiStarts(c) ==
  /\ ui[c].pc = "created" /\ ~ui[c].cancel
  /\ \/ /\ LockIsFree
        /\ holder' = c
        /\ Ask(c, FirstQuestion(c))
        /\ UNCHANGED queue
     \/ /\ ~LockIsFree \/ queue # <<>>
        /\ queue' = Append(queue, c)
        /\ ui' = [ui EXCEPT ![c].pc = "lock"]
        /\ UNCHANGED <<holder, tty, saved>>
  /\ UNCHANGED <<sessionVars, conn, secret, server, client>>

\* Mutant: whichever runs first gets it.
GetsLockOutOfTurn(c) ==
  /\ ui[c].pc = "lock" /\ ~ui[c].cancel
  /\ holder = None
  /\ holder' = c
  /\ queue' = RemoveFirst(queue, c)
  /\ Ask(c, FirstQuestion(c))
  /\ UNCHANGED <<sessionVars, conn, secret, server, client>>

\* asyncio.Lock wakes those that wait in their order.
UiGetsLock(c) ==
  /\ ui[c].pc = "lock" /\ ~ui[c].cancel
  /\ holder = None /\ Head(queue) = c
  /\ holder' = c
  /\ queue' = Tail(queue)
  /\ Ask(c, FirstQuestion(c))
  /\ UNCHANGED <<sessionVars, conn, secret, server, client>>

Reading(c) == ui[c].pc \in Question

\* The read ends, and so does the prompt: `finally' restores the terminal, and
\* `async with' releases ui_lock.
Ends(c, out) ==
  /\ ui' = [ui EXCEPT ![c] = [pc |-> "over", cancel |-> FALSE, out |-> out]]
  /\ tty' = saved[c]
  /\ saved' = [saved EXCEPT ![c] = "cooked"]
  /\ holder' = None
  /\ UNCHANGED queue

\* The read ends, and the next one starts.
AsksNext(c, q) ==
  /\ ui' = [ui EXCEPT ![c].pc = q]
  /\ tty' = "raw"
  /\ UNCHANGED <<holder, queue, saved>>

\* After the password, or its repetition: the choice, if there is one.
PasswordRead(c) == IF conn[c].choice THEN AsksNext(c, "choice") ELSE Ends(c, "yes")

SecretEntered(c) ==
  /\ ui[c].pc = "secret"
  /\ secret' = [secret EXCEPT ![c] = "held"]
  /\ IF conn[c].form = "new" THEN AsksNext(c, "repeat") ELSE PasswordRead(c)

RepeatMatches(c) == ui[c].pc = "repeat" /\ PasswordRead(c) /\ UNCHANGED secret

RepeatDiffers(c) == ui[c].pc = "repeat" /\ Wipe(c) /\ AsksNext(c, "secret")

ChoiceMade(c) ==
  /\ ui[c].pc = "choice"
  /\ IF conn[c].form = "confirm" THEN AsksNext(c, "confirm") ELSE Ends(c, "yes")
  /\ UNCHANGED secret

Confirmed(c) ==
  /\ ui[c].pc = "confirm"
  /\ \E out \in {"yes", "no"} : Ends(c, out)
  /\ UNCHANGED secret

\* The user answers the question (a cancelled task does not see the answer).
UserAnswers(c) ==
  /\ ~ui[c].cancel
  /\ \/ SecretEntered(c) \/ RepeatMatches(c) \/ RepeatDiffers(c)
     \/ ChoiceMade(c) \/ Confirmed(c)
  /\ UNCHANGED <<sessionVars, conn, server, client>>

\* An exception ends the question: what happens to the first password.  The one that is
\* being read is wiped by read_secret; while it is repeated nobody wipes the first.
Unwind(c) ==
  secret' = [secret EXCEPT ![c] =
    CASE ui[c].pc = "choice" /\ @ = "held" -> "wiped"
      [] ui[c].pc = "repeat" -> "dropped"
      [] OTHER -> @]

\* Ctrl-C, Ctrl-D or the end of the input; or the terminal cannot be read.
UserCancels(c) ==
  /\ Reading(c) /\ ~ui[c].cancel
  /\ Unwind(c)
  /\ \E out \in {"PromptCancelled", "Exception"} : Ends(c, out)
  /\ UNCHANGED <<sessionVars, conn, server, client>>

\* Mutant: acquire() and release() without a `finally'.
LockKept(c) ==
  /\ Reading(c)
  /\ Unwind(c)
  /\ ui' = [ui EXCEPT ![c] = [pc |-> "over", cancel |-> FALSE, out |-> "CancelledError"]]
  /\ tty' = saved[c]
  /\ saved' = [saved EXCEPT ![c] = "cooked"]
  /\ UNCHANGED <<holder, queue>>

\* CancelledError is thrown into a task that reads the terminal,
ReadCancelled(c) ==
  /\ Reading(c)
  /\ Unwind(c)
  /\ Ends(c, "CancelledError")

\* or into one that has not got ui_lock.
WaitCancelled(c) ==
  /\ ui[c].pc \in {"created", "lock"}
  /\ ui' = [ui EXCEPT ![c] = [pc |-> "over", cancel |-> FALSE, out |-> "CancelledError"]]
  /\ queue' = RemoveFirst(queue, c)
  /\ UNCHANGED <<holder, tty, saved, secret>>

UiCancelled(c) ==
  /\ ui[c].cancel
  /\ ReadCancelled(c) \/ WaitCancelled(c)
  /\ UNCHANGED <<sessionVars, conn, server, client>>
-------------------------------------------------------------------------------
(***************************************************************************)
(* reap_stale_sessions, and the end of amain.                              *)
(***************************************************************************)
\* An hour passes since a session was last used.
Ages(t) ==
  /\ t \in sessions \ stale
  /\ stale' = stale \union {t}
  /\ UNCHANGED <<sessions, prompt_task, exchange, conn, ui, secret, terminalVars, server, client>>

\* Mutant: the reaper does not look at prompt_task.
TooOld == sessions \intersect stale

Reapable == {t \in sessions : prompt_task[t] = None /\ t \in stale}

\* Mutant: the reaper drops the session with its exchange open.
ReapSessionsOnly ==
  /\ server # "exited"
  /\ Reapable # {}
  /\ sessions' = sessions \ Reapable
  /\ stale' = stale \ Reapable
  /\ UNCHANGED <<exchange, prompt_task, conn, ui, secret, terminalVars, server, client>>

Reap ==
  /\ server # "exited"
  /\ Reapable # {}
  /\ sessions' = sessions \ Reapable
  /\ exchange' = exchange \ Reapable
  /\ stale' = stale \ Reapable
  /\ UNCHANGED <<prompt_task, conn, ui, secret, terminalVars, server, client>>

\* SIGINT: serve_forever is cancelled, and no connection is accepted any more.
Interrupt ==
  /\ server = "up"
  /\ server' = "stopping"
  /\ UNCHANGED <<sessionVars, conn, ui, secret, terminalVars, client>>

\* All that was in the server's memory is lost, and the kernel closes its connections.
Forgotten ==
  /\ sessions' = {} /\ exchange' = {} /\ stale' = {}
  /\ prompt_task' = [t \in Token |-> None]
  /\ conn' = [c \in Conn |-> Free]
  /\ ui' = [c \in Conn |-> NoTask]
  /\ secret' = [c \in Conn |-> "none"]
  /\ holder' = None /\ queue' = <<>>
  /\ saved' = [c \in Conn |-> "cooked"]
  /\ UNCHANGED client

\* amain's `finally' closes every session and then the terminal; the tasks that are
\* left are cancelled, too late to restore it.
Exit ==
  /\ server = "stopping"
  /\ WaitsForConnections => \A c \in Conn : conn[c].pc = "free"
  /\ server' = "exited"
  /\ Forgotten
  /\ UNCHANGED tty

\* SIGTERM, a terminal that is closed, or a second SIGINT, by which asyncio.run cancels all
\* tasks: the prompt that has the terminal may or may not restore it before amain closes it.
Killed ==
  /\ server # "exited"
  /\ server' = "exited"
  /\ Forgotten
  /\ tty' \in {tty} \union {saved[c] : c \in {holder} \ {None}}
-------------------------------------------------------------------------------
Peer ==
  \/ \E c \in Conn, t \in Token : AskBegin(c, t) \/ AskPrompt(c, t) \/ AskStop(c, t)
  \/ \E c \in Conn : HangUp(c)

Handles(c) ==
  \/ BeginRefused(c) \/ BeginServed(c) \/ StopServed(c) \/ PromptRefused(c) \/ PromptStarts(c)
  \/ PeerLost(c) \/ PromptDone(c) \/ Withdrawn(c)
  \/ AnswerSent(c) \/ SendFails(c) \/ AnswerLost(c)

UiRuns(c) == UiStarts(c) \/ UiGetsLock(c) \/ UiCancelled(c)

User(c) == UserAnswers(c) \/ UserCancels(c)

Next ==
  \/ Peer
  \/ \E c \in Conn : Handles(c) \/ UiRuns(c) \/ User(c)
  \/ \E t \in Token : Ages(t)
  \/ Reap \/ Interrupt \/ Exit \/ Killed

Spec == Init /\ [][Next]_vars

(***************************************************************************)
(* Fairness.  The loop runs every task that is ready, and the reaper when  *)
(* its timer is due.  Of the surroundings it is assumed that time passes,  *)
(* and that a client which asked to stop closes the connection of its      *)
(* prompt (_finish_session cancels the RPC, and a dead process has no      *)
(* sockets); two properties also need a user who does not leave a question *)
(* open for ever, nor mistype for ever.                                    *)
(***************************************************************************)
LoopFairness == \A c \in Conn : WF_vars(Handles(c)) /\ WF_vars(UiRuns(c))
ReaperFairness == WF_vars(Reap) /\ \A t \in Token : WF_vars(Ages(t))
StoppedClientHangsUp ==
  \A c \in Conn : WF_vars(conn[c].tok # None /\ client[conn[c].tok] = "stopped" /\ HangUp(c))
UserEnds(c) == User(c) /\ ui'[c].pc = "over"
UserFairness == \A c \in Conn : WF_vars(UserEnds(c))

Fairness == LoopFairness /\ ReaperFairness /\ StoppedClientHangsUp
FairSpec == Spec /\ Fairness
-------------------------------------------------------------------------------
(***************************************************************************)
(* Properties.                                                             *)
(***************************************************************************)
\* One prompt at a time reads the terminal, it holds ui_lock, and what it will restore
\* is a cooked terminal; nobody reads a cooked one, and nobody leaves a raw one behind.
TerminalModes ==
  server # "exited" =>
    /\ tty = "raw" <=> holder # None
    /\ \A c \in Conn : Reading(c) <=> holder = c
    /\ \A c \in Conn : Reading(c) => saved[c] = "cooked"
    /\ IsInjective(queue) /\ ToSet(queue) = {c \in Conn : ui[c].pc = "lock"}

\* A prompt that is not being cancelled is the prompt_task of a session in the dict:
\* "stop" and the reaper know of every prompt that is, or will be, on the terminal.
PromptIsTracked ==
  \A c \in Conn : ui[c].pc \notin {"none", "over"} /\ ~ui[c].cancel =>
    conn[c].tok \in sessions /\ prompt_task[conn[c].tok] = c

\* A session names a prompt only while its handler is at work: a name left behind would
\* keep the reaper off the session for ever.
NoPromptLeftBehind ==
  server # "exited" =>
    \A t \in Token : prompt_task[t] # None =>
      LET c == prompt_task[t]
      IN conn[c].pc \in {"wait", "cancelling", "settle"} /\ conn[c].tok = t

\* The key exchange of a session is closed when the session goes, on each of the ways
\* it can go, and never before.
ExchangeFollowsSession == exchange = sessions

\* When a connection is closed, the password that was read for it has been wiped,
\* whatever happened between the read and the reply.  (But the first of two passwords is
\* dropped when its repetition is cancelled: _prompt_password has no code for that.)
PasswordWiped == \A c \in Conn : conn[c].pc = "free" => secret[c] # "held"

\* The prompts whose turn at the terminal will come, and the order of their turns.
InTurn == {c \in Conn : ui[c].pc = "lock" /\ ~ui[c].cancel}
Precedes ==
  {e \in InTurn \X InTurn :
     \E i, j \in DOMAIN queue : i < j /\ queue[i] = e[1] /\ queue[j] = e[2]}

Loan == INSTANCE BorrowedTerminal WITH
  Prompt <- Conn, waiting <- InTurn, before <- Precedes, borrower <- holder, mode <- tty,
  closed <- server = "exited"

\* The server implements BorrowedTerminal: a prompt gets the terminal when nobody has it and
\* each that asked earlier had it or was withdrawn, and gives it back as it was, however it
\* ends (`async with self.ui_lock', asyncio.Lock, and the `finally's of TTY), until the
\* server ends: only then may the terminal be left as it is.
LendsInOrder == Loan!LoanSpec

\* The exchange of a session is kept until the client asks to stop, or the server ends
\* ("maintained for the full callback lifetime", README.md:403).
KeptForLifetime ==
  [][\A t \in Token : client[t] = "begun" /\ t \in sessions /\ server' # "exited"
                        => t \in sessions']_vars

\* How far it departs from that: the reaper and no other drops a session that its client
\* has begun and not stopped, and only when it was not used for an hour and its client asks
\* nothing of the user.
DroppedOnlyWhenIdle ==
  [][\A t \in Token :
       client[t] = "begun" /\ t \in sessions /\ server' # "exited" /\ t \notin sessions' =>
         /\ Reap
         /\ t \in stale
         /\ \A c \in Conn : conn[c].tok = t => ui[c].pc = "none"]_vars

\* A prompt whose client hung up, or whose session was stopped, leaves the terminal and
\* its handler ends, without any help from the user.
PromptWithdrawn ==
  \A c \in Conn :
    conn[c].pc = "wait" /\ (~conn[c].open \/ conn[c].tok \notin sessions) ~> conn[c].pc = "free"

\* A session whose client is done with it does not stay for ever, though its "stop" may
\* have come before its "begin", or never.
OrphansReaped ==
  \A t \in Token : t \in sessions /\ client[t] = "stopped" ~> t \notin sessions

\* With a user who ends every question, every prompt is answered in its turn, however
\* many wait for the terminal.
EveryPromptEnds ==
  UserFairness => \A c \in Conn : conn[c].pc = "wait" ~> conn[c].pc = "free"

\* SIGINT ends the server, though it waits for the prompts that are under way: none of
\* them waits for another connection, which would not be accepted any more.
InterruptEnds ==
  UserFairness /\ WF_vars(Exit) => (server = "stopping" ~> server = "exited")
===============================================================================
