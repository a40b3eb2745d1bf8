------------------------ MODULE ComponentOnboarding ------------------------
(* The onboarding jobs of one integration token (apps/server/src/domain/    *)
(* component.ts, http/component-routes.ts, and the token's own operations   *)
(* in domain/onboarding.ts), with the component each job creates.           *)
(*                                                                          *)
(* A request is authenticated by one statement and handled by a later       *)
(* transaction, so between the two the token may be revoked, expire or be   *)
(* consumed, and other requests may be handled.  Each handler locks the     *)
(* token or its job first and is one action.                                *)
(*                                                                          *)
(* Abstractions: a manifest is a value, those in Sources being source       *)
(* descriptors that make no revision; whether all gates pass is open at     *)
(* every evaluation; the traffic flags are one "enabled"; the access token  *)
(* is the one the job issues, valid while neither its row nor its epoch is  *)
(* revoked; audit rows, probes, gate evidence and grants are left out.      *)
EXTENDS Naturals

CONSTANTS Jobs,       \* ids of onboarding jobs, each with its component
          Keys,       \* idempotency keys
          Manifests,
          Sources,    \* the manifests of phase SOURCE
          None,       \* no revision
          Callers     \* requests that are in flight together

ASSUME ManifestAssumption == Sources \subseteq Manifests /\ None \notin Manifests

VARIABLES token,      \* the integration token
          job,        \* [Jobs -> Rows \cup {Absent}]
          component,  \* [Jobs -> Component], the component of each job
          call        \* [Callers -> Calls]

vars == <<token, job, component, call>>

Absent == [state |-> "absent"]
Requests == SUBSET (Keys \X Manifests)  \* component_onboarding_revision_request
Rows == [state    : {"IN_REVIEW", "BLOCKED", "ACTIVE", "CANCELLED"},
         key      : Keys,
         manifest : Manifests,
         revised  : Requests,
         held     : BOOLEAN,   \* principal_access_token_ciphertext
         handed   : BOOLEAN,   \* principal_access_token_handed_off_at
         lock     : Nat]       \* lock_version
Component == [lifecycle : {"REVIEW", "ACTIVE", "QUARANTINED", "APPROVED", "RETIRED", "DEREGISTERED"},
              enabled   : BOOLEAN,
              revision  : Manifests \cup {None},
              approved  : BOOLEAN,
              principal : {"SUSPENDED", "ACTIVE", "QUARANTINED", "REVOKED"},
              access    : {"none", "valid", "revoked"}]

Quiet == [op |-> "quiet"]
Calls == {Quiet}
         \cup [op : {"create"}, key : Keys, manifest : Manifests]
         \cup [op : {"evaluate", "cancel"}, job : Jobs]
         \cup [op : {"revise"}, job : Jobs, key : Keys, manifest : Manifests \ Sources, seen : Nat]

TypeOK == /\ token \in [revoked : BOOLEAN, expired : BOOLEAN]
          /\ job \in [Jobs -> Rows \cup {Absent}]
          /\ component \in [Jobs -> Component]
          /\ call \in [Callers -> Calls]

RevisionOf(m) == IF m \in Sources THEN None ELSE m
Unborn == [lifecycle |-> "REVIEW", enabled |-> FALSE, revision |-> None, approved |-> FALSE,
           principal |-> "SUSPENDED", access |-> "none"]
NewComponent(m) == [Unborn EXCEPT !.revision = RevisionOf(m)]
NewJob(key, m) == [state |-> "IN_REVIEW", key |-> key, manifest |-> m, revised |-> {},
                   held |-> FALSE, handed |-> FALSE, lock |-> 0]

(* A token that has just been issued; an absent job has no component yet.   *)
Init == /\ token = [revoked |-> FALSE, expired |-> FALSE]
        /\ job = [j \in Jobs |-> Absent]
        /\ component = [j \in Jobs |-> Unborn]
        /\ call = [k \in Callers |-> Quiet]

Exists(j) == job[j] # Absent
Usable == ~token.revoked /\ ~token.expired

-----------------------------------------------------------------------------
(* authenticateIntegrationToken, and the request is on its way.  A revision *)
(* names a lock version its client has read, the current one or older.      *)
Arrive(k, request) == /\ Usable
                      /\ call[k] = Quiet
                      /\ call' = [call EXCEPT ![k] = request]
                      /\ UNCHANGED <<token, job, component>>

Authenticate(k) ==
  \/ \E key \in Keys, m \in Manifests :
       Arrive(k, [op |-> "create", key |-> key, manifest |-> m])
  \/ \E j \in Jobs :
       /\ Exists(j)
       /\ \/ Arrive(k, [op |-> "evaluate", job |-> j])
          \/ Arrive(k, [op |-> "cancel", job |-> j])
          \/ \E key \in Keys, m \in Manifests \ Sources, seen \in 0..job[j].lock :
               Arrive(k, [op |-> "revise", job |-> j, key |-> key, manifest |-> m, seen |-> seen])

(* The request ends and has changed nothing: refused, rolled back, aborted  *)
(* by the database as the victim of a deadlock, or lost.                    *)
Done(k) == call' = [call EXCEPT ![k] = Quiet]
End(k) == /\ call[k] # Quiet
          /\ Done(k)
          /\ UNCHANGED <<token, job, component>>

-----------------------------------------------------------------------------
(* cleanupComponentOnboardingRow: the job's row is left alone once it has   *)
(* handed its token off, the component is not.                              *)
CleanJob_kept(r) == IF r.handed THEN r   \* mutant
                    ELSE [r EXCEPT !.state = "CANCELLED", !.lock = @ + 1]
CleanJob(r) == IF r.handed THEN r
               ELSE [r EXCEPT !.state = "CANCELLED", !.held = FALSE, !.lock = @ + 1]
Revoked(access) == IF access = "none" THEN "none" ELSE "revoked"
CleanComponent(c) == [c EXCEPT !.lifecycle = "DEREGISTERED", !.enabled = FALSE,
                               !.principal = "REVOKED", !.access = Revoked(@)]
CleanedJobs(S) == [j \in Jobs |-> IF j \in S THEN CleanJob(job[j]) ELSE job[j]]
CleanedComponents(S) ==
  [j \in Jobs |-> IF j \in S THEN CleanComponent(component[j]) ELSE component[j]]

(* createComponentOnboarding.  It locks the token and looks at it again,    *)
(* cleans up what may be retried, and then either finds the key or starts   *)
(* a new job, unless the token is consumed or bound to another job.         *)
Retryable == {j \in Jobs : Exists(j) /\ ~job[j].handed /\ job[j].state \in {"BLOCKED", "CANCELLED"}}
WithKey(key) == {j \in Jobs : Exists(j) /\ job[j].key = key}
Successful(j) == Exists(j) /\ job[j].handed
Bound_active(j) == Exists(j) /\ job[j].state = "ACTIVE"   \* mutant
Bound(j) == Exists(j) /\ ~job[j].handed /\ job[j].state # "CANCELLED" /\ j \notin Retryable

CreateFinds(k) == /\ Usable
                  /\ \E j \in WithKey(call[k].key) : job[j].manifest = call[k].manifest
                  /\ job' = CleanedJobs(Retryable)
                  /\ component' = CleanedComponents(Retryable)

CreateStarts(k, j) ==
  /\ Usable
  /\ WithKey(call[k].key) = {}
  /\ \A i \in Jobs : ~Successful(i) /\ ~Bound(i)
  /\ job[j] = Absent
  /\ job' = [CleanedJobs(Retryable) EXCEPT ![j] = NewJob(call[k].key, call[k].manifest)]
  /\ component' = [CleanedComponents(Retryable) EXCEPT ![j] = NewComponent(call[k].manifest)]

Create(k) == /\ call[k].op = "create"
             /\ CreateFinds(k) \/ \E j \in Jobs : CreateStarts(k, j)
             /\ Done(k)
             /\ UNCHANGED token

-----------------------------------------------------------------------------
(* evaluateComponentReadiness.  The access token is issued by the first     *)
(* evaluation and kept, encrypted, until one passes; that one hands it off  *)
(* and consumes the integration token.  The token is not looked at again,   *)
(* nor the lifecycle of the component.                                      *)
Evaluable(j) == job[j].state # "CANCELLED" /\ component[j].revision # None
Available(j) == component[j].access = "none" \/ job[j].held

Evaluated(r, passed, handsOff, available) ==
  [r EXCEPT !.state = IF passed THEN "ACTIVE" ELSE "BLOCKED",
            !.held = available /\ ~handsOff, !.handed = @ \/ handsOff, !.lock = @ + 1]
Judged(c, passed) ==
  [c EXCEPT !.lifecycle = IF passed THEN "ACTIVE" ELSE "REVIEW", !.enabled = passed,
            !.approved = passed, !.access = IF @ = "none" THEN "valid" ELSE @,
            !.principal = IF passed \/ c.access = "none" THEN "ACTIVE" ELSE @]

Evaluate(k, j, passed) ==
  /\ call[k] = [op |-> "evaluate", job |-> j]
  /\ Evaluable(j)
  /\ LET handsOff == passed /\ ~job[j].handed /\ Available(j)
     IN  /\ job' = [job EXCEPT ![j] = Evaluated(@, passed, handsOff, Available(j))]
         /\ token' = [token EXCEPT !.revoked = @ \/ handsOff]
  /\ component' = [component EXCEPT ![j] = Judged(@, passed)]
  /\ Done(k)

(* reviseComponentOnboarding: the lock version is compared first, so the    *)
(* repetition of a request is recognised only under a newer one.            *)
Current_any(j, seen) == TRUE   \* mutant
Current(j, seen) == job[j].lock = seen
Revised_forgets(r, key, m) ==   \* mutant
  [r EXCEPT !.state = "IN_REVIEW", !.manifest = m, !.revised = @ \cup {<<key, m>>},
            !.held = FALSE, !.lock = @ + 1]
Revised(r, key, m) ==
  [r EXCEPT !.state = "IN_REVIEW", !.manifest = m, !.revised = @ \cup {<<key, m>>},
            !.lock = @ + 1]
Reopened(c, m) == [c EXCEPT !.lifecycle = "REVIEW", !.enabled = FALSE, !.revision = m,
                            !.approved = FALSE]

Revise(k, j) ==
  /\ call[k].op = "revise"
  /\ call[k].job = j
  /\ Current(j, call[k].seen)
  /\ job[j].state \notin {"ACTIVE", "CANCELLED"}
  /\ \A request \in job[j].revised : request[1] # call[k].key
  /\ job' = [job EXCEPT ![j] = Revised(@, call[k].key, call[k].manifest)]
  /\ component' = [component EXCEPT ![j] = Reopened(@, call[k].manifest)]
  /\ Done(k)
  /\ UNCHANGED token

(* cancelComponentOnboarding                                                *)
Cancel(k, j) == /\ call[k] = [op |-> "cancel", job |-> j]
                /\ job[j].state \notin {"ACTIVE", "CANCELLED"}
                /\ job' = CleanedJobs({j})
                /\ component' = CleanedComponents({j})
                /\ Done(k)
                /\ UNCHANGED token

-----------------------------------------------------------------------------
(* revokeIntegrationToken, deleteIntegrationToken and the retention in      *)
(* cleanupIntegrationTokens all leave the token revoked; time expires it.   *)
RevokeToken == token' = [token EXCEPT !.revoked = TRUE] /\ UNCHANGED <<job, component, call>>
Expire == /\ ~token.expired
          /\ token' = [token EXCEPT !.expired = TRUE]
          /\ UNCHANGED <<job, component, call>>

(* cleanupExpiredComponentOnboardings, about every minute; nothing sets the *)
(* credential_id it asks to be null.                                        *)
Overdue == {j \in Jobs : Exists(j) /\ job[j].state # "CANCELLED"}
CleanupExpired == /\ token.expired
                  /\ Overdue # {}
                  /\ job' = CleanedJobs(Overdue)
                  /\ component' = CleanedComponents(Overdue)
                  /\ UNCHANGED <<token, call>>

(* setComponentLifecycle on the job's component, whatever the job's state.  *)
Lifecycle(j, lifecycle, principal) ==
  /\ Exists(j)
  /\ component' = [component EXCEPT ![j].lifecycle = lifecycle, ![j].enabled = FALSE,
                                    ![j].principal = principal,
                                    ![j].access = IF principal = "REVOKED" THEN Revoked(@) ELSE @]
  /\ UNCHANGED <<token, job, call>>

Quarantine(j) == Lifecycle(j, "QUARANTINED", "QUARANTINED")
Restore_active(j) ==   \* mutant
  component[j].lifecycle = "QUARANTINED" /\ Lifecycle(j, "APPROVED", "ACTIVE")
Restore(j) == component[j].lifecycle = "QUARANTINED" /\ Lifecycle(j, "APPROVED", "SUSPENDED")
Retire(j) == component[j].lifecycle # "DEREGISTERED" /\ Lifecycle(j, "RETIRED", "REVOKED")
Deregister(j) == component[j].lifecycle = "RETIRED" /\ Lifecycle(j, "DEREGISTERED", "REVOKED")

(* rotateComponentAccessToken and revokeComponentAccessToken, as far as the *)
(* job's own access token goes.                                             *)
RevokeAccess(j) == /\ component[j].access = "valid"
                   /\ component' = [component EXCEPT ![j].access = "revoked"]
                   /\ UNCHANGED <<token, job, call>>

Request(k) == \/ Authenticate(k)
              \/ End(k)
              \/ Create(k)
              \/ \E j \in Jobs : \/ \E passed \in BOOLEAN : Evaluate(k, j, passed)
                                 \/ Revise(k, j)
                                 \/ Cancel(k, j)
Administer(j) == Quarantine(j) \/ Restore(j) \/ Retire(j) \/ Deregister(j) \/ RevokeAccess(j)

Next == \/ \E k \in Callers : Request(k)
        \/ \E j \in Jobs : Administer(j)
        \/ RevokeToken
        \/ Expire
        \/ CleanupExpired

Spec == Init /\ [][Next]_vars

-----------------------------------------------------------------------------
(* The release notes promise that the long-lived access token is handed off *)
(* exactly once: an integration token never yields a second one, whatever   *)
(* retries, clean-ups and evaluations are in flight together.               *)
OneHandOff == \A i, j \in Jobs : Successful(i) /\ Successful(j) => i = j

(* No component goes into operation without its owner getting the access    *)
(* token, and what goes into operation is the manifest that was evaluated:  *)
(* an active job or an open component means that the token was handed off,  *)
(* the integration token consumed and the active revision is the job's.     *)
ActiveIsHandedOff ==
  \A j \in Jobs : Exists(j) /\ (job[j].state = "ACTIVE" \/ component[j].enabled)
    => job[j].handed /\ token.revoked /\ component[j].revision = job[j].manifest

(* The plaintext of an issued access token can be recovered exactly until   *)
(* it is handed off or the job is cancelled: not lost before, not kept      *)
(* after.                                                                   *)
HeldUntilHandOff ==
  \A j \in Jobs : Exists(j)
    => (job[j].held <=> /\ component[j].access # "none"
                        /\ ~job[j].handed
                        /\ job[j].state # "CANCELLED")

(* A cancelled job's component stays unusable, also under an evaluation or  *)
(* a revision that was on its way and under later lifecycle actions.        *)
CancelledIsUnusable ==
  \A j \in Jobs : Exists(j) /\ job[j].state = "CANCELLED"
    => /\ ~component[j].enabled
       /\ component[j].principal # "ACTIVE"
       /\ component[j].access # "valid"

(* The revision that was handed off is not replaced, and none is accepted   *)
(* any more, from a revision request that was on its way, even if a late    *)
(* evaluation has blocked the job again.                                    *)
Unrevised(j) == /\ job'[j].manifest = job[j].manifest
                /\ job'[j].revised = job[j].revised
                /\ component'[j].revision = component[j].revision
HandedOffIsFinal == [][\A j \in Jobs : Successful(j) => Unrevised(j)]_vars

=============================================================================
