------------------------------ MODULE MCCrmBatch ------------------------------
(* Two requests of one candidate, and one of another. *)
EXTENDS CrmBatch, TLC
CONSTANTS r1, r2, r3, c1, c2

TwoCandidates == (r1 :> c1) @@ (r2 :> c1) @@ (r3 :> c2)
RequestSymmetry == Permutations({r1, r2})
===============================================================================
