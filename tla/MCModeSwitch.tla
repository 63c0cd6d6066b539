----------------------------- MODULE MCModeSwitch -----------------------------
(***************************************************************************)
(* Small instances of ModeSwitch for TLC.                                  *)
(***************************************************************************)
EXTENDS ModeSwitch

\* The commands are interchangeable; symmetry is not sound for CommandEnds, so their
\* names are taken in one order.
InOrder ==
  \A c \in Cmd : cmd[c].pc = "idle" /\ cmd'[c].pc # "idle" =>
    c = CHOOSE d \in Cmd : cmd[d].pc = "idle"

LiveSpec == Init /\ [][Next /\ InOrder]_vars /\ Fairness
===============================================================================
