------------------------------ MODULE MC_Secrets ------------------------------
(* Secrets for TLC: either the secrets and their grants move or the          *)
(* component does, beside the resolves, but not both in one behaviour.       *)
EXTENDS Secrets

SecretsMoved ==
  \/ direct # {}
  \/ \E s \in Secrets : secret[s].status \in {"DISABLED", "DELETED"} \/ secret[s].version > 1

ComponentMoved ==
  \/ component.lifecycle \notin {"REVIEW", "ACTIVE"}
  \/ component.pending # {}
  \/ access.issued > 1 \/ access.live["*"] # access.issued
  \/ token.expired

Apart == ~SecretsMoved \/ ~ComponentMoved
=============================================================================
