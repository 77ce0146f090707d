----------------------------- MODULE MCExpenses -----------------------------
(* Model checking of the book of expenses. *)
EXTENDS Expenses

OneModel == [g \in Gen |-> CHOOSE m \in Model \ Seeded : TRUE]
=============================================================================
