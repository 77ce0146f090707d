--------------------------- MODULE MCCreditLedger ---------------------------
(* Model checking of the ledger's contract on its own. *)
EXTENDS CreditLedger, TLC

CONSTANT MaxRows

\* The ledger only grows: the instance stops after MaxRows rows.
FewRows == Cardinality(ledger) <= MaxRows

Symmetry == Permutations(User) \cup Permutations(Ref)
=============================================================================
