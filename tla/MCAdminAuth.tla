---------------------------- MODULE MCAdminAuth ----------------------------
(* Symmetry for the action-property run of AdminAuth.                      *)
EXTENDS AdminAuth, TLC

Symmetry == Permutations(Admins) \cup Permutations(Requests)
=============================================================================
