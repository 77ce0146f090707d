------------------------------- MODULE MCShop -------------------------------
(***************************************************************************)
(* Model checking of six components that share nothing: the cart, the      *)
(* photos of a pet, the saved paintings, the catalogue, a style with its   *)
(* pipeline, and the conversion of costs with the figures made of them.    *)
(* Which of them the requests are about is chosen at the start.            *)
(***************************************************************************)
EXTENDS Cart, Pets, Paintings, Catalogue, Styles, Economics, TLC

CONSTANTS portrait, trial, ann, bob

Deltas == {1, -2}
Owners == (portrait :> ann) @@ (trial :> bob)
Rates == 0 :> 2 @@ 1 :> 3

\* How many requests there are about each.
JobsOf == [cart |-> 3, pets |-> 3, paintings |-> 3, catalogue |-> 3, styles |-> 4, costs |-> 3]

VARIABLE about

cartState == <<hasCart, lines, lineIds, asked, additionsMet>>
petState == <<photos, petFiles, uploads, primaryRaced, faultless>>
pbnState == <<paintings, linked, artifacts, ids, files, spoilt, orderly>>
catalogueState == <<shop, products, hooks, changes, kindsHad, mirror, flagRaced>>
styleState == <<style, pipeline, configs, images, reference, generations,
                styleFiles, made, unharmed>>
costState == <<today, cache, costs, overlapped>>

vars == <<about, job, started, cartState, petState, pbnState, catalogueState,
          styleState, costState>>

Init ==
    /\ CartInit /\ PetInit /\ PaintingInit /\ CatalogueInit
    /\ StyleInit /\ EconomicsInit
    /\ about \in DOMAIN JobsOf
    /\ about # "cart" => hasCart
    /\ about # "pets" => uploads = 0
    /\ about # "catalogue" => InRows = {}

Next ==
    /\ UNCHANGED about
    /\ \/ /\ about = "cart" /\ CartNext
          /\ UNCHANGED <<petState, pbnState, catalogueState, styleState, costState>>
       \/ /\ about = "pets" /\ PetNext
          /\ UNCHANGED <<cartState, pbnState, catalogueState, styleState, costState>>
       \/ /\ about = "paintings" /\ PaintingNext
          /\ UNCHANGED <<cartState, petState, catalogueState, styleState, costState>>
       \/ /\ about = "catalogue" /\ CatalogueNext
          /\ UNCHANGED <<cartState, petState, pbnState, styleState, costState>>
       \/ /\ about = "styles" /\ StyleNext
          /\ UNCHANGED <<cartState, petState, pbnState, catalogueState, costState>>
       \/ /\ about = "costs" /\ EconomicsNext
          /\ UNCHANGED <<cartState, petState, pbnState, catalogueState, styleState>>
    /\ started' <= JobsOf[about]

Spec == Init /\ [][Next]_vars

Symmetry == Permutations(Proc) \cup Permutations(Product) \cup Permutations(Config)
=============================================================================
