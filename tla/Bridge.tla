------------------------------- MODULE Bridge -------------------------------
(***************************************************************************)
(* The client and the TTY server together, over the Unix socket.           *)
(*                                                                         *)
(* The client is SystemPrompter; the server is PrompterServer, with its    *)
(* variables prefixed by tty_.  This module adds what is between them:     *)
(* bridge_rpc (common.py), one connection for each request; the socket's   *)
(* path; and the ends of the two processes, which the other side only sees *)
(* as a closed connection.  An RPC of the client has the outcome that the  *)
(* server gives it, or that a time limit, a closed connection or a missing *)
(* server gives it: nothing is left to chance here.                        *)
(***************************************************************************)
EXTENDS SystemPrompter

CONSTANTS
  Conn,        \* connections that can exist at a time
  Form,        \* as in PrompterServer
  Choice,
  WaitsForConnections,
  MaxFaults    \* how many things go wrong

ASSUME NoneIsNoConnection == None \notin Conn
ASSUME FormIsOfTheServer == Form \subseteq {"password", "new", "confirm"}
ASSUME ChoiceIsOfTheServer == Choice \subseteq BOOLEAN
ASSUME MaxFaultsIsNat == MaxFaults \in Nat

VARIABLES
  tty_sessions, tty_prompt_task, tty_stale, tty_exchange, tty_conn, tty_ui, tty_secret,
  tty_holder, tty_queue, tty_mode, tty_saved, tty_server, tty_client,
  rpc,       \* the bridge_rpc that each task of the client is in
  faults     \* what went wrong so far: deaths, disconnects, time limits, hours of idleness

S == INSTANCE PrompterServer WITH
  sessions <- tty_sessions, prompt_task <- tty_prompt_task, stale <- tty_stale,
  exchange <- tty_exchange, conn <- tty_conn, ui <- tty_ui, secret <- tty_secret,
  holder <- tty_holder, queue <- tty_queue, tty <- tty_mode, saved <- tty_saved,
  server <- tty_server, client <- tty_client

ttyVars == <<tty_sessions, tty_prompt_task, tty_stale, tty_exchange, tty_conn, tty_ui, tty_secret,
             tty_holder, tty_queue, tty_mode, tty_saved, tty_server, tty_client>>
allVars == <<vars, ttyVars, rpc, faults>>

\* The connection of an RPC, once there is one, and its outcome, when it has one.
Rpc == [conn : Conn \union {None}, out : {"none", "ok", "failed"}]
NoRpc == [conn |-> None, out |-> "none"]
Outcome(out) == [conn |-> None, out |-> out]

BridgeInit ==
  /\ Init
  /\ S!Init
  /\ rpc = [x \in Task |-> NoRpc]
  /\ faults = 0
-------------------------------------------------------------------------------
(***************************************************************************)
(* The client's side: bridge_rpc.                                          *)
(***************************************************************************)
\* The operation that a task asks for at this point of its code.
OpAt == [rpc_begin |-> "begin", rpc_late |-> "stop", rpc_prompt |-> "prompt", rpc_stop |-> "stop"]
InRpc(x) == task[x].pc \in DOMAIN OpAt

\* A step that is not the normal course of things.
Fault == faults < MaxFaults /\ faults' = faults + 1

\* In an RPC that has not been sent yet.
Unsent(x) == InRpc(x) /\ rpc[x] = NoRpc

\* Mutant: bridge_rpc closes the connection after a reply only, not in a `finally'.
ClientLeaves ==
  /\ \A x \in Task : ~Unsent(x)
  /\ rpc' = [x \in Task |-> IF InRpc(x) /\ rpc[x].out # "none" /\ task'[x] # task[x]
                          THEN NoRpc ELSE rpc[x]]
  /\ UNCHANGED ttyVars

\* A step of the client's code.  The loop connects in the segment that calls bridge_rpc, so
\* what another task or handler does comes later.  A task that goes on, or is cancelled,
\* leaves its RPC.
ClientMoves ==
  /\ \A x \in Task : ~Unsent(x)
  /\ rpc' = [x \in Task |-> IF InRpc(x) /\ task'[x] = task[x] THEN rpc[x] ELSE NoRpc]
  /\ UNCHANGED ttyVars

\* Mutant: the token is made from the callback, and a callback that begins again has the same.
CallbackToken(x) == CHOOSE t \in Token : obj[t].key = obj[task[x].sess].key

\* The token that is sent: session.bridge_token.
SentToken(x) == task[x].sess

\* What this means to the server.
ClientDid(op, t) ==
  CASE op = "begin" -> [tty_client EXCEPT ![t] = "asked"]
    [] op = "stop" -> [tty_client EXCEPT ![t] = "stopped"]
    [] op = "prompt" -> tty_client

\* open_unix_connection, and the request is written.
Dial(x) ==
  LET op == OpAt[task[x].pc]
      t == SentToken(x)
  IN /\ Unsent(x)
     /\ \E c \in Conn, f \in Form, b \in Choice :
          /\ S!Connect(c, [S!Request(op, t) EXCEPT
               !.form = IF op = "prompt" THEN f ELSE None, !.choice = op = "prompt" /\ b])
          /\ rpc' = [rpc EXCEPT ![x].conn = c]
     /\ tty_client' = ClientDid(op, t)
     /\ UNCHANGED <<vars, faults>>

\* "TTY server unavailable": no socket, or nobody listens on it; or the connection was not
\* there after two seconds, whatever it was to ask.
DialFails(x) ==
  /\ Unsent(x)
  /\ IF tty_server = "up" THEN Fault ELSE UNCHANGED faults
  /\ rpc' = [rpc EXCEPT ![x] = Outcome("failed")]
  /\ UNCHANGED <<vars, ttyVars>>

\* Mutant: the limit is for every request.
InAnyRpc(x) == InRpc(x)

\* Two seconds for the reply to "begin" and to "stop"; a prompt may take as long as the user
\* needs.
HasTimeLimit(x) == InRpc(x) /\ task[x].pc # "rpc_prompt"

\* The limit has passed: the connection is closed.
Timeout(x) ==
  /\ HasTimeLimit(x)
  /\ rpc[x].conn # None
  /\ Fault
  /\ S!HangUp(rpc[x].conn)
  /\ rpc' = [rpc EXCEPT ![x] = Outcome("failed")]
  /\ UNCHANGED vars

\* A connection whose RPC was cancelled is closed: bridge_rpc's `finally', or the kernel.
Orphan(c) == tty_conn[c].open /\ \A x \in Task : rpc[x].conn # c

CloseOrphan(c) ==
  /\ Orphan(c)
  /\ S!HangUp(c)
  /\ UNCHANGED <<vars, rpc, faults>>

\* The coroutine that called bridge_rpc goes on with what it returned or raised.
RpcReturns(x) ==
  /\ \/ rpc[x].out = "ok" /\ (BeginReturns(x) \/ BeginReturnsLate(x) \/ PromptReturns(x))
     \/ rpc[x].out = "failed" /\ (BeginFails(x) \/ PromptFails(x))
     \/ rpc[x].out # "none" /\ InRpc(x) /\ (LateStopReturns(x) \/ Notify(x))
  /\ ClientMoves
  /\ UNCHANGED faults

\* The steps of a task that is in no RPC.
RunsOn(x) ==
  /\ ~InRpc(x)
  /\ Runs(x) \/ CallbackEnds(x)
  /\ ClientMoves
  /\ UNCHANGED faults

\* Messages of the applications.  (The end of the bus connection and Ctrl-C are left to
\* SystemPrompter: of close() the server sees what it sees of vanished applications, and
\* then what it sees of ClientDies.)
ClientHears ==
  /\ \/ (\E k \in Key : Begin(k) \/ Perform(k) \/ Stop(k)) /\ UNCHANGED faults
     \/ (\E s \in Sender : SenderVanishes(s)) /\ Fault
  /\ ClientMoves

\* The client is killed: by gcr-tty-prompter-mode, or in any other way.
ClientDies == Killed /\ ClientMoves /\ Fault
-------------------------------------------------------------------------------
(***************************************************************************)
(* The server's side.                                                      *)
(***************************************************************************)
\* The reply on connection c, or its end without one, reaches the task that waits for it.
Replies(c, out) == rpc' = [x \in Task |-> IF rpc[x].conn = c THEN Outcome(out) ELSE rpc[x]]

\* Every connection ends, without a reply.
AllFail == rpc' = [x \in Task |-> IF rpc[x].conn # None THEN Outcome("failed") ELSE rpc[x]]

ServerHandles(c) ==
  /\ \/ (S!BeginServed(c) \/ S!StopServed(c)) /\ Replies(c, "ok")
     \/ S!AnswerSent(c) /\ Replies(c, "ok")
     \/ (S!AnswerLost(c) \/ S!Withdrawn(c)) /\ Replies(c, "failed")
     \/ (S!PromptStarts(c) \/ S!PeerLost(c) \/ S!PromptDone(c)) /\ UNCHANGED rpc
  /\ UNCHANGED <<vars, faults>>

\* The reply is an error: the token is in use, or not known, or not known any more; for
\* anything else, something went wrong in libgcr.
ServerRefuses(c) ==
  /\ S!BeginRefused(c) \/ S!PromptRefused(c) \/ S!SendFails(c)
  /\ Replies(c, "failed")
  /\ IF (tty_conn[c].tok \in tty_sessions) = (tty_conn[c].op = "begin")
     THEN UNCHANGED faults ELSE Fault
  /\ UNCHANGED vars

ServerRuns(c) == S!UiRuns(c) /\ UNCHANGED <<vars, rpc, faults>>

UserActs(c) == S!User(c) /\ UNCHANGED <<vars, rpc, faults>>

TimePasses(t) == S!Ages(t) /\ Fault /\ UNCHANGED <<vars, rpc>>

ServerReaps == S!Reap /\ UNCHANGED <<vars, rpc, faults>>

ServerInterrupt == S!Interrupt /\ Fault /\ UNCHANGED <<vars, rpc>>

ServerExit == S!Exit /\ AllFail /\ UNCHANGED <<vars, faults>>

\* The server is killed, or its terminal is closed.
ServerDies == S!Killed /\ AllFail /\ Fault /\ UNCHANGED vars

\* It is started again: prepare_socket replaces the socket that a killed one has left.
ServerRestarts ==
  /\ tty_server = "exited"
  /\ tty_server' = "up"
  /\ tty_mode' = "cooked"
  /\ S!Forgotten
  /\ UNCHANGED <<vars, rpc, faults>>
-------------------------------------------------------------------------------
Client(x) == RunsOn(x) \/ RpcReturns(x) \/ Dial(x) \/ DialFails(x) \/ Timeout(x)

Server(c) == ServerHandles(c) \/ ServerRefuses(c) \/ ServerRuns(c)

BridgeNext ==
  \/ \E x \in Task : Client(x)
  \/ \E c \in Conn : CloseOrphan(c) \/ Server(c) \/ UserActs(c)
  \/ \E t \in Token : TimePasses(t)
  \/ ClientHears \/ ClientDies
  \/ ServerReaps \/ ServerInterrupt \/ ServerExit \/ ServerDies \/ ServerRestarts

BridgeSpec == BridgeInit /\ [][BridgeNext]_allVars

(***************************************************************************)
(* Fairness.  What is to be done about a connection is done: the server's  *)
(* loop runs what is ready, and the kernel closes what nobody has open.    *)
(* Nothing is assumed of the client, or of the user.                       *)
(***************************************************************************)
BridgeFairness ==
  \A c \in Conn : WF_allVars(CloseOrphan(c) \/ Server(c))
-------------------------------------------------------------------------------
(***************************************************************************)
(* Properties.                                                             *)
(***************************************************************************)
\* An RPC in progress has an open connection of its own, which carries the token of the
\* session that its task works for.
RpcOK ==
  /\ rpc \in [Task -> Rpc]
  /\ \A x \in Task : rpc[x].conn # None =>
       /\ InRpc(x) /\ rpc[x].out = "none"
       /\ LET c == rpc[x].conn
          IN /\ tty_conn[c].open /\ tty_conn[c].tok = task[x].sess
             /\ tty_conn[c].op = OpAt[task[x].pc]
             /\ \A y \in Task : rpc[y].conn = c => y = x

\* "stop" reaches the server only for a session the client has finished: a callback that
\* begins again while its first session is being stopped keeps the second one.
StopsOnlyTheFinished ==
  \A c \in Conn : tty_conn[c].pc = "read" /\ tty_conn[c].op = "stop" => ~Live(tty_conn[c].tok)

\* As long as nothing goes wrong, the server holds the session whose exchange it gave to an
\* application, until the client has finished that session and no other.
SessionIsHeld ==
  faults = 0 => \A t \in Token : Live(t) /\ told[t] = "ready" => t \in tty_sessions

\* The server works on one prompt at a time for a client that still wants it: it is of the
\* session that has the prompter, and the task of that prompt waits for its answer.  Whatever
\* else has the terminal, or waits for it, is of a session that is finished, or of a client
\* that is gone.
OneWantedPrompt ==
  bus # "exited" =>
    \A c \in Conn : tty_conn[c].op = "prompt" /\ Live(tty_conn[c].tok) =>
      /\ active_key = obj[tty_conn[c].tok].key
      /\ \A d \in Conn : tty_conn[d].op = "prompt" /\ Live(tty_conn[d].tok) => d = c
      /\ LET x == obj[tty_conn[c].tok].prompt_task
         IN x \in Task /\ task[x].pc = "rpc_prompt" /\ rpc[x].conn = c

\* How far SessionIsHeld goes when things go wrong: a session that an application was told
\* to use leaves the server only when the client has finished it, when the server ends, or
\* by the reaper, after an hour without a request and without a question of it.
LeavesWhenIdle ==
  [][\A t \in Token :
       /\ bus # "exited" /\ Live(t) /\ told[t] = "ready"
       /\ t \in tty_sessions /\ t \notin tty_sessions'
       => \/ ServerExit \/ ServerDies
          \/ /\ ServerReaps /\ t \in tty_stale
             /\ \A c \in Conn : tty_conn[c].tok = t => tty_ui[c].pc = "none"]_allVars

\* What PrompterServer assumes of its peer is what the client does, whatever it met:
\* each step of the server's state is one of PrompterServer's, but for its restart.
ServerMeetsItsPeer == [][S!Next \/ ServerRestarts]_ttyVars

\* A question leaves the terminal, without any help from the user, once the client has
\* finished its session or is gone.
NoQuestionLeft ==
  \A c \in Conn :
    S!Reading(c) /\ (bus = "exited" \/ ~Live(tty_conn[c].tok))
      ~> ~S!Reading(c) \/ (bus # "exited" /\ Live(tty_conn[c].tok))

===============================================================================
