---------------------------- MODULE MCProofRunner ----------------------------
(* Three commands for two slots; any two of them outgrow the memory together. *)
EXTENDS ProofRunner
CONSTANTS p1, p2, p3
ThreeProcs == {p1, p2, p3}
MCSizes == (p1 :> {2}) @@ (p2 :> {2}) @@ (p3 :> {})
MCExpected == (p1 :> 0) @@ (p2 :> 1) @@ (p3 :> 0)
=============================================================================
