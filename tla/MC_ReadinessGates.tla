-------------------------- MODULE MC_ReadinessGates --------------------------
(* The readiness gates for TLC: the reports of the end-to-end workers.       *)
EXTENDS ReadinessGates

\* the gate that takes the component's own token to pass
DispatchOnly == <<"dispatch">>

\* the report in full
AllRows == <<"e2e", "lease", "dispatch">>
=============================================================================
