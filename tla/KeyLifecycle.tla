---------------------------- MODULE KeyLifecycle ----------------------------
(***************************************************************************)
(* What the control plane promises about one access key, whatever happens  *)
(* to calls, requests and processes: it is issued once, works until it is  *)
(* ended, and an ended key never works again.                              *)
(***************************************************************************)
CONSTANT Keys

VARIABLE phase

Init == phase = [k \in Keys |-> "new"]

Issue(k) == phase[k] = "new"  /\ phase' = [phase EXCEPT ![k] = "working"]
End(k)   == phase[k] = "working" /\ phase' = [phase EXCEPT ![k] = "ended"]

Next == \E k \in Keys : Issue(k) \/ End(k)

Spec == Init /\ [][Next]_phase
=============================================================================
