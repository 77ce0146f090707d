------------------------------ MODULE MCStudio ------------------------------
(***************************************************************************)
(* Model checking of the images of one order item and of their sizes.  A   *)
(* computation of sizes changes nothing: it is made at the start or never. *)
(***************************************************************************)
EXTENDS PrintImages, PrintGeometry, TLC

SourceSizes == {<<w, h>> : w \in {600, 2000, 5600}, h \in {800, 2500, 4700}}
PrintFormats == {<<8, 10>>, <<12, 16>>}

Init == PrintInit /\ GeometryInit
Next ==
    \/ asked = NotAsked /\ PrintNext /\ UNCHANGED asked
    \/ started = 0 /\ Ask /\ UNCHANGED printVars
Spec == Init /\ [][Next]_<<printVars, asked>>

Symmetry == Permutations(Proc)
=============================================================================
