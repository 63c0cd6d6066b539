-------------------------- MODULE PrompterServerInv --------------------------
(***************************************************************************)
(* The inductive invariant of PrompterServer: its safety invariants, and   *)
(* what they need of a handler, its ui_task and its peer.                  *)
(***************************************************************************)
EXTENDS PrompterServer

AtWork == {"wait", "cancelling", "settle"}

\* A handler has a ui_task exactly while it awaits something, and it awaits something for
\* a prompt only.  It cancels the prompt before it awaits its end for a lost peer.
HandlerShape(c) ==
  /\ conn[c].pc = "free" => conn[c] = Free
  /\ conn[c].pc # "free" => conn[c].tok \in Token
  /\ conn[c].pc \notin AtWork => ui[c] = NoTask
  /\ conn[c].pc \in AtWork => ui[c].pc # "none" /\ conn[c].op = "prompt"
  /\ conn[c].pc = "settle" => Over(c)
  /\ conn[c].pc = "cancelling" => IF Over(c) THEN ui[c].out = "CancelledError" ELSE ui[c].cancel

\* A password is held between its entry and the reply only, and not by a prompt that ended
\* without it.
SecretShape(c) ==
  /\ ui[c].pc \in {"secret", "repeat"} => conn[c].form # "confirm"
  /\ ui[c].pc \notin {"none", "over"} => ui[c].out = "none"
  /\ secret[c] = "held" =>
       \/ ui[c].pc \in {"repeat", "choice"} /\ conn[c].form # "confirm"
       \/ Over(c) /\ ui[c].out = "yes"

\* Of each session one prompt is in the server, though its client may have hung up: it has
\* stopped the session then, and asks no second prompt of it.
OnePromptEach ==
  /\ \A c \in Conn : conn[c].op = "prompt" /\ ~conn[c].open => client[conn[c].tok] = "stopped"
  /\ \A c, d \in Conn :
       conn[c].op = "prompt" /\ conn[d].op = "prompt" /\ conn[c].tok = conn[d].tok => c = d

\* Nothing is left when the server has exited.
ExitedIsEmpty ==
  server = "exited" =>
    /\ sessions = {} /\ holder = None
    /\ \A c \in Conn : conn[c] = Free /\ ui[c] = NoTask

IInv ==
  /\ TypeOK
  /\ \A c \in Conn : HandlerShape(c) /\ SecretShape(c)
  /\ OnePromptEach
  /\ TerminalModes
  /\ PromptIsTracked
  /\ NoPromptLeftBehind
  /\ ExchangeFollowsSession
  /\ ExitedIsEmpty
-------------------------------------------------------------------------------
(***************************************************************************)
(* What DroppedOnlyWhenIdle needs beside IInv.                             *)
(***************************************************************************)
\* What the peer has done, for each request that is in the server.
PeerShape ==
  /\ \A c \in Conn : Reads(c, "begin") => client[conn[c].tok] \in {"asked", "stopped"}
  /\ \A c, d \in Conn :
       Reads(c, "begin") /\ Reads(d, "begin") /\ conn[c].tok = conn[d].tok => c = d
  /\ \A c \in Conn : Reads(c, "stop") => client[conn[c].tok] = "stopped"
  /\ \A c \in Conn : conn[c].op = "prompt" => client[conn[c].tok] \in {"begun", "stopped"}

\* A prompt at work, of a session that is not stopped, is the one the session names.
PromptIsNamed ==
  \A c \in Conn : conn[c].pc \in AtWork /\ client[conn[c].tok] = "begun" =>
    conn[c].tok \in sessions /\ prompt_task[conn[c].tok] = c

PInv == PeerShape /\ PromptIsNamed
===============================================================================
