-------------------------- MODULE MCGoogleVerifier --------------------------
(* Symmetry for GoogleVerifier.                                            *)
EXTENDS GoogleVerifier, TLC

Symmetry == Permutations(Kids) \cup Permutations(Logins)
=============================================================================
