--------------------------- MODULE BorrowedTerminal ---------------------------
(***************************************************************************)
(* What the TTY server promises about the terminal: prompts borrow it one  *)
(* at a time, in the order in which they asked for it, unless they were    *)
(* withdrawn meanwhile, and each gives it back as it was, unless the       *)
(* server ends first.  Nothing here knows of connections, of locks or of   *)
(* cancelled tasks.                                                        *)
(***************************************************************************)
CONSTANTS Prompt,     \* whatever may ask for the terminal, time and again
          None        \* nobody: not one of them

VARIABLES waiting,    \* the prompts that have asked and are not withdrawn
          before,     \* the pairs of them of which the first one asked first
          borrower,   \* the prompt that has the terminal, or None
          mode,       \* "cooked", or "raw" while it is borrowed
          closed      \* the server has ended

loanVars == <<waiting, before, borrower, mode, closed>>

LoanInit == waiting = {} /\ before = {} /\ borrower = None /\ mode = "cooked" /\ ~closed

AskFor(p) ==
  /\ p \notin waiting \union {borrower}
  /\ waiting' = waiting \union {p}
  /\ before' = before \union (waiting \X {p})
  /\ UNCHANGED <<borrower, mode>>

\* p waits no more.
Leaves(p) ==
  /\ p \in waiting
  /\ waiting' = waiting \ {p}
  /\ before' = before \intersect (waiting' \X waiting')

Withdraw(p) == Leaves(p) /\ UNCHANGED <<borrower, mode>>

Takes(p) ==
  /\ borrower = None /\ borrower' = p
  /\ mode = "cooked" /\ mode' = "raw"

\* The one that asked first,
BorrowInTurn(p) == Leaves(p) /\ (\A q \in waiting : <<q, p>> \notin before) /\ Takes(p)

\* or, when nobody waits, one that did not have to ask.
BorrowAtOnce(p) == waiting = {} /\ Takes(p) /\ UNCHANGED <<waiting, before>>

GiveBack ==
  /\ borrower # None /\ borrower' = None
  /\ mode' = "cooked"
  /\ UNCHANGED <<waiting, before>>

\* The server ends, and whoever has the terminal may or may not give it back.
Closes ==
  /\ ~closed /\ closed'
  /\ waiting' = {} /\ before' = {} /\ borrower' = None
  /\ mode' \in {mode, "cooked"}

Lends ==
  \/ \E p \in Prompt : AskFor(p) \/ Withdraw(p) \/ BorrowInTurn(p) \/ BorrowAtOnce(p)
  \/ GiveBack

LoanNext == (~closed /\ Lends /\ UNCHANGED closed) \/ Closes

LoanSpec == LoanInit /\ [][LoanNext]_loanVars
===============================================================================
