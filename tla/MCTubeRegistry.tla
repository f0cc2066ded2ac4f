--------------------------- MODULE MCTubeRegistry ---------------------------
(***************************************************************************)
(* Small instances of the registry.  Two close tasks are enough for every  *)
(* race between closes; the second tube may re-create the id of the first. *)
(***************************************************************************)
EXTENDS TubeRegistry, TLC

Symmetry == Permutations(TubeIds) \cup Permutations(Convs) \cup Permutations(Closers)
=============================================================================
