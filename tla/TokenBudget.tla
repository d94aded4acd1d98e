---------------------------- MODULE TokenBudget ----------------------------
(***************************************************************************)
(* What a rate limit promises each of its clients: a budget of their own,   *)
(* which accrues as time passes up to a capacity, and of which a request    *)
(* takes one.  A request is refused only when its own budget is spent.      *)
(***************************************************************************)
EXTENDS Integers

CONSTANTS Keys, Cap, Rate   \* whose budgets; key -> its capacity, its accrual

VARIABLES
  level,     \* key -> what is left
  answer     \* the last request: whose, and whether it was granted
budgetVars == <<level, answer>>

Fill(n, cap) == IF n > cap THEN cap ELSE n

BudgetInit ==
  /\ level = [k \in Keys |-> Cap[k]]
  /\ answer = <<>>

Accrue ==
  /\ level' = [k \in Keys |-> Fill(level[k] + Rate[k], Cap[k])]
  /\ UNCHANGED answer

Ask(k) ==
  /\ level' = IF level[k] >= 1 THEN [level EXCEPT ![k] = level[k] - 1] ELSE level
  /\ answer' = <<k, level[k] >= 1>>

BudgetNext == Accrue \/ \E k \in Keys : Ask(k)
BudgetSpec == BudgetInit /\ [][BudgetNext]_budgetVars
=============================================================================
