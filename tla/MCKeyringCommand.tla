--------------------------- MODULE MCKeyringCommand ---------------------------
(***************************************************************************)
(* Small instances of KeyringCommand for TLC.                              *)
(***************************************************************************)
EXTENDS KeyringCommand, TLC

\* The commands are interchangeable; symmetry is not sound for CompletedEnds, so they
\* start in one order.
InOrder ==
  \A c \in Cmd : cmd[c].pc = "idle" /\ cmd'[c].pc # "idle" =>
    c = CHOOSE d \in Cmd : cmd[d].pc = "idle"

LiveSpec == Init /\ [][Next /\ InOrder]_vars /\ Fairness
===============================================================================
