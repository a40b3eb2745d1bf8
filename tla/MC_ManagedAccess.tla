-------------------------- MODULE MC_ManagedAccess --------------------------
(* Finite instances of ManagedAccess *)
EXTENDS ManagedAccess, TLC
CONSTANTS m1, m2, x, y, MaxEpoch
RequiresValue == (m1 :> x) @@ (m2 :> y)
Symmetry == Permutations(Credentials) \cup Permutations(Tokens) \cup Permutations(Calls)
EpochBound == service.revision <= MaxEpoch /\ service.permission <= MaxEpoch
=============================================================================
