-------------------------------- MODULE Budget --------------------------------
(***************************************************************************)
(* How much one behaviour may do: a record with a number of operations for *)
(* each part of the system, chosen at the start among Shares, so that a    *)
(* run can look at several parts, and several mixes, one at a time.        *)
(***************************************************************************)
EXTENDS Integers

CONSTANT Shares
VARIABLE left    \* what is left of the share

BudgetInit == left \in Shares
Spend(part) == left[part] > 0 /\ left' = [left EXCEPT ![part] = @ - 1]
==============================================================================
