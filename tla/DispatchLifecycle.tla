------------------------- MODULE DispatchLifecycle -------------------------
(* What a row of component_control_dispatch promises to the rest of the     *)
(* control plane, without the worker that drives it: a command is issued    *)
(* once, is offered to a worker a bounded number of times, and is either    *)
(* acknowledged, given up or left to its deadline.  The counter of          *)
(* recorded attempts only grows, one attempt at a time.                     *)
(* DispatchWorker implements this specification.                            *)
EXTENDS Naturals

CONSTANTS Dispatches,    \* ids of command rows
          MaxAttempts    \* retry_policy.maxAttempts

VARIABLES phase,   \* [Dispatches -> Phases], what the row stands for
          tries    \* [Dispatches -> 0..MaxAttempts], attempt_count

Phases == {"absent", "open", "delivered", "acked", "failed", "expired"}

Init == /\ phase = [d \in Dispatches |-> "absent"]
        /\ tries = [d \in Dispatches |-> 0]

Issue(d) == /\ phase[d] = "absent"
            /\ phase' = [phase EXCEPT ![d] = "open"]
            /\ UNCHANGED tries

(* A recorded attempt ends in one of three ways: delivered, to be retried,  *)
(* or given up.  Only the last attempt that the policy allows gives up, and *)
(* the last one is never put back.  The phase before it is not constrained: *)
(* a slow worker may record its attempt after the deadline or after an      *)
(* acknowledgement that the component sent on its own.                      *)
Attempt(d) == /\ phase[d] # "absent"
              /\ tries[d] < MaxAttempts
              /\ tries' = [tries EXCEPT ![d] = @ + 1]
              /\ \/ phase' = [phase EXCEPT ![d] = "delivered"]
                 \/ /\ tries'[d] < MaxAttempts
                    /\ phase' = [phase EXCEPT ![d] = "open"]
                 \/ /\ tries'[d] = MaxAttempts
                    /\ phase' = [phase EXCEPT ![d] = "failed"]

Acknowledge(d) == /\ phase[d] # "absent"
                  /\ phase' = [phase EXCEPT ![d] = "acked"]
                  /\ UNCHANGED tries

Refuse(d) == /\ phase[d] # "absent"
             /\ phase' = [phase EXCEPT ![d] = "failed"]
             /\ UNCHANGED tries

Expire(D) == /\ \A d \in D : phase[d] \in {"open", "delivered"}
             /\ phase' = [d \in Dispatches |->
                            IF d \in D THEN "expired" ELSE phase[d]]
             /\ UNCHANGED tries

Next == \/ \E d \in Dispatches : Issue(d) \/ Attempt(d) \/ Acknowledge(d) \/ Refuse(d)
        \/ \E D \in SUBSET Dispatches : Expire(D)

Spec == Init /\ [][Next]_<<phase, tries>>
=============================================================================
