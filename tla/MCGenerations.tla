--------------------------- MODULE MCGenerations ---------------------------
(* Model checking of the generation pipeline. *)
EXTENDS Generations, TLC

Symmetry == Permutations(Worker) \cup Permutations(Gen)
=============================================================================
