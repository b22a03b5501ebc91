--------------------------- MODULE MCSessionFile ---------------------------
EXTENDS SessionFile, TLC

(* What the messages weigh, by their ids: one alone may spend the budget.  *)
Weights == <<1, 2, 0, 1>>

=============================================================================
