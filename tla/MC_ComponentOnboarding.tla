----------------------- MODULE MC_ComponentOnboarding -----------------------
(* Small instances of ComponentOnboarding for TLC.                          *)
EXTENDS ComponentOnboarding, FiniteSets, TLC

CONSTANT MaxLock

Alike == Permutations(Jobs) \cup Permutations(Keys) \cup Permutations(Callers)

(* Three requests are in flight together only while there is one job.       *)
InFlight == {k \in Callers : call[k] # Quiet}
Bounded ==
  /\ \A j \in Jobs : Exists(j) => job[j].lock <= MaxLock
  /\ Cardinality(InFlight) <= 2 \/ \A i, j \in Jobs : Exists(i) /\ Exists(j) => i = j
=============================================================================
