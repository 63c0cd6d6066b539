--------------------------- MODULE MCSystemPrompter ---------------------------
(***************************************************************************)
(* Small instances of SystemPrompter for TLC.                              *)
(***************************************************************************)
EXTENDS SystemPrompterInv

\* The names of applications, paths, session objects and free tasks are
\* interchangeable; amain's task is not.
Interchangeable ==
  Permutations(Sender) \union Permutations(Path) \union Permutations(Token)
    \union Permutations(Task \ {Main})

(***************************************************************************)
(* Symmetry reduction is not sound for liveness.  The same redundancy is   *)
(* avoided by taking the interchangeable names in one order: which token a *)
(* new session gets, or which slot a new task, makes no difference.        *)
(***************************************************************************)
InOrder ==
  /\ \A t \in Token : obj[t] = Unmade /\ obj'[t] # Unmade =>
       t = CHOOSE u \in Token : obj[u] = Unmade
  /\ \A x \in Task : task[x] = Idle /\ task'[x] # Idle =>
       x = CHOOSE y \in Task : task[y] = Idle

\* Bounds of the end: while close() runs after Ctrl-C, applications begin one session at
\* most, and neither they nor the bus nor the client go away.
ShortEnd ==
  /\ \A t, u \in late' : t = u
  /\ bus = "up" /\ task[Main].pc # "serving" =>
       ~(Disconnect \/ Killed \/ \E s \in Sender : SenderVanishes(s))

SafetySpec == Init /\ [][Next /\ ShortEnd]_vars

\* The liveness properties are checked up to a disconnect, without Ctrl-C.
LiveSpec == Init /\ [][Next /\ InOrder /\ ~Interrupt]_vars /\ TaskFairness
===============================================================================
