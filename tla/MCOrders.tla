------------------------------ MODULE MCOrders ------------------------------
(* Model checking of one order and its credits. *)
EXTENDS Orders, TLC

\* The first line is a piece of art, the second a credit pack that may be
\* unmarked or deleted, or not synced when the order comes; without its mark
\* it is an accessory.
ArtAndGoods == 1 :> {"art"} @@ 2 :> {"accessory"}
Registered == 1 :> "art" @@ 2 :> "accessory"
BeforeTheSync == 1 :> "art" @@ 2 :> "unknown"
FirstCatalogues == {Registered, BeforeTheSync}

OrderRows == 1..MaxRows
References == {OrderRef(row) : row \in OrderRows}
                \cup {ItemRef(row, l) : row \in OrderRows, l \in Line}

Symmetry == Permutations(Proc)
=============================================================================
