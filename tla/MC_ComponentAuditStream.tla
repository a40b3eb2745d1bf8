----------------------- MODULE MC_ComponentAuditStream -----------------------
(* Small instances of ComponentAuditStream for TLC.                         *)
EXTENDS ComponentAuditStream, TLC

Symmetry == Permutations(Contents) \cup Permutations(Revisions) \cup Permutations(Callers)
=============================================================================
