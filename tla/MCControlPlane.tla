--------------------------- MODULE MCControlPlane ---------------------------
(* Symmetry for the safety runs of ControlPlane: keys, credentials and     *)
(* handlers are interchangeable.                                           *)
EXTENDS ControlPlane, TLC

Symmetry == Permutations(Keys) \cup Permutations(Refs) \cup Permutations(Handlers)
=============================================================================
