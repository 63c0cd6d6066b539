--------------------------- MODULE MCPrompterServer ---------------------------
(***************************************************************************)
(* Small instances of PrompterServer for TLC.                              *)
(***************************************************************************)
EXTENDS PrompterServer

\* The names of tokens and of connections are interchangeable.
Interchangeable == Permutations(Token) \union Permutations(Conn)

\* Symmetry is not sound for liveness; instead the names are taken in one order.
InOrder ==
  /\ \A t \in Token : client[t] = "new" /\ client'[t] # "new" =>
       t = CHOOSE u \in Token : client[u] = "new"
  /\ \A c \in Conn : conn[c] = Free /\ conn'[c] # Free =>
       c = CHOOSE d \in Conn : conn[d] = Free

LiveSpec == Init /\ [][Next /\ InOrder]_vars /\ Fairness
===============================================================================
