------------------------- MODULE MC_ComponentControl -------------------------
(* Small instances of ComponentControl for TLC.                             *)
EXTENDS ComponentControl, TLC

CONSTANT MaxEpoch   \* how often the policy epoch moves in a run

(* Two commands are requests for activation or deactivation, and the epoch   *)
(* moves once less then.                                                     *)
Present == {d \in Commands : dispatch[d] # Absent}
EpochBound ==
  IF Present = Commands
    THEN /\ \A d \in Commands : dispatch[d].kind \in {"enable", "disable"}
         /\ comp.epoch < MaxEpoch
    ELSE comp.epoch <= MaxEpoch
Symmetry == Permutations(Commands) \cup Permutations(Callers)
=============================================================================
