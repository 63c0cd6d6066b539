------------------------------ MODULE MCBridge ------------------------------
(***************************************************************************)
(* A small instance of Bridge for TLC.                                     *)
(***************************************************************************)
EXTENDS Bridge

\* Interchangeable names are taken in one order: see MCSystemPrompter.
InOrder ==
  /\ \A t \in Token : obj[t] = Unmade /\ obj'[t] # Unmade =>
       t = CHOOSE u \in Token : obj[u] = Unmade
  /\ \A x \in Task : task[x] = Idle /\ task'[x] # Idle =>
       x = CHOOSE y \in Task : task[y] = Idle
  /\ \A c \in Conn : tty_conn[c] = S!Free /\ tty_conn'[c] # S!Free =>
       c = CHOOSE d \in Conn : tty_conn[d] = S!Free

\* Something is left of the session t.
Remains(t) ==
  \/ Live(t) \/ t \in tty_sessions
  \/ \E x \in Task : task[x].sess = t
  \/ \E c \in Conn : tty_conn[c].tok = t

\* One of several steps that make no difference between client and server: a "no" is
\* answered as a "yes" is, StopPrompting without a session does nothing, and when nothing
\* is left of the sessions there were, a new one starts as the first one did.
Essential ==
  /\ \A c \in Conn : tty_ui'[c].out \notin {"no", "PromptCancelled"}
  /\ \A k \in Key : Begun(k) \/ ~Stop(k)
  /\ \A t \in Token : obj'[t] # obj[t] =>
       obj[t] # Unmade \/ \A u \in Token : obj[u] = Unmade \/ Remains(u)

LiveSpec == BridgeInit /\ [][BridgeNext /\ InOrder /\ Essential]_allVars /\ BridgeFairness
===============================================================================
