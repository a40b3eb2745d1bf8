-------------------------- MODULE ComponentControl --------------------------
(* One handed-off component under control (apps/server/src/domain/          *)
(* component.ts, component-auth.ts, component-audit.ts): its row, its       *)
(* principal, the commands issued to it, and the transactions that race to  *)
(* change them: administrators, the monitor, the dispatch worker and the    *)
(* component's own callbacks.                                               *)
(*                                                                          *)
(* A callback is several transactions: the authorization commits first, the *)
(* handler follows, and two handlers (the acknowledgement and the state     *)
(* observation) read the policy epoch without a lock before they write.     *)
(* Whatever locks the component row from the start is one action.           *)
(*                                                                          *)
(* Abstractions: the four traffic flags are always written together, so     *)
(* "enabled" is all of them; a PENDING, QUEUED or CLAIMED command is        *)
(* "OPEN"; the worker's steps are those that DispatchWorker shows possible; *)
(* an answer to a state query either matches the expected state or not;     *)
(* audit rows and gate evidence are left out.                               *)
EXTENDS Naturals

CONSTANTS Commands,  \* ids of command rows
          Callers    \* callback requests that are in flight together

VARIABLES comp,       \* the component row
          principal,  \* status of its principal
          revoked,    \* its access token has been revoked
          dispatch,   \* [Commands -> Rows \cup {Absent}], with their query and challenge
          call        \* [Callers -> Calls], the requests in flight

controlVars == <<comp, principal, revoked, dispatch, call>>

Component == [lifecycle   : {"APPROVED", "ACTIVE", "QUARANTINED", "RETIRED", "DEREGISTERED"},
              activation  : {"INACTIVE", "READY", "ACTIVE", "BLOCKED", "ENABLE_REQUESTED",
                             "DISABLE_REQUESTED", "DISABLE_UNCONFIRMED"},
              operational : {"DISABLED", "HEALTHY", "UNHEALTHY", "QUARANTINED", "RETIRED"},
              monitoring  : {"PENDING", "HEALTHY", "DEGRADED", "FAILED"},
              enabled     : BOOLEAN,
              epoch       : Nat]

Absent == [kind |-> "absent"]
Answers == {"match", "other"}
Rows == [kind  : {"enable", "disable", "state", "heartbeat"},
         epoch : Nat,   \* requested_policy_epoch
         state : {"OPEN", "ACK_PENDING", "ACKED", "COMPLETED", "FAILED", "EXPIRED"},
         send  : {"trying", "delivered", "over"},       \* where the worker is
         query : {"none", "PENDING"} \cup Answers,      \* component_state_query_run
         beat  : {"none", "PENDING", "RESPONDED"}]      \* component_heartbeat_challenge

Quiet == [at |-> "quiet"]
Calls == {Quiet}
         \cup [at : {"authorized"}, scope : {"callback", "runtime"}, epoch : Nat]
         \cup [at : {"acking"}, cmd : Commands, status : {"ACKED", "FAILED"}]
         \cup [at : {"observing"}, cmd : Commands, answer : Answers,
               beat : {"none", "PENDING", "RESPONDED"}]
         \cup [at : {"auditing"}]

ControlTypeOK ==
  /\ comp \in Component
  /\ principal \in {"ACTIVE", "SUSPENDED", "QUARANTINED", "REVOKED"}
  /\ revoked \in BOOLEAN
  /\ dispatch \in [Commands -> Rows \cup {Absent}]
  /\ call \in [Callers -> Calls]

(* A component whose onboarding has handed it over.                         *)
ControlInit ==
  /\ comp = [lifecycle |-> "ACTIVE", activation |-> "ACTIVE", operational |-> "HEALTHY",
             monitoring |-> "HEALTHY", enabled |-> TRUE, epoch |-> 1]
  /\ principal = "ACTIVE"
  /\ revoked = FALSE
  /\ dispatch = [d \in Commands |-> Absent]
  /\ call = [k \in Callers |-> Quiet]

-----------------------------------------------------------------------------
(* The row trigger component_policy_epoch_sync: an update that changes a    *)
(* watched column sets the epoch to one more than it was, whatever the      *)
(* update itself assigned.                                                  *)
Watched(c) == <<c.enabled, c.activation, c.operational, c.monitoring, c.lifecycle>>
Synced(old, new) == IF Watched(new) = Watched(old)
                      THEN new
                      ELSE [new EXCEPT !.epoch = old.epoch + 1]
Update(new) == comp' = Synced(comp, new)

Issue(d, kind, epoch, query, beat) ==
  /\ dispatch[d] = Absent
  /\ dispatch' = [dispatch EXCEPT ![d] =
       [kind |-> kind, epoch |-> epoch, state |-> "OPEN", send |-> "trying",
        query |-> query, beat |-> beat]]

(* setComponentActivation(enabled = true); the gate evidence, the audit     *)
(* stream and the recertification it also asks for are left open.           *)
RequestEnable(d) ==
  /\ comp.monitoring = "HEALTHY"
  /\ Issue(d, "enable", comp.epoch + 1, "PENDING", "PENDING")
  /\ Update([comp EXCEPT !.enabled = FALSE, !.activation = "ENABLE_REQUESTED",
                         !.operational = "DISABLED", !.epoch = @ + 1])
  /\ UNCHANGED <<principal, revoked, call>>

Withdrawn(lifecycle) == IF lifecycle = "ACTIVE" THEN "APPROVED" ELSE lifecycle

(* setComponentActivation(enabled = false): the same update, and then       *)
(* advanceComponentPolicyEpoch moves the epoch once more.                   *)
Requested(c) == [c EXCEPT !.enabled = FALSE, !.activation = "DISABLE_REQUESTED",
                          !.lifecycle = Withdrawn(@), !.operational = "DISABLED",
                          !.epoch = @ + 1]
RequestDisable_sameEpoch(d) ==   \* mutant
  /\ Issue(d, "disable", comp.epoch, "PENDING", "none")
  /\ comp' = Synced(comp, Requested(comp))
  /\ UNCHANGED <<principal, revoked, call>>
RequestDisable(d) ==
  /\ Issue(d, "disable", comp.epoch + 1, "PENDING", "none")
  /\ LET requested == Synced(comp, Requested(comp))
     IN  comp' = Synced(requested, [requested EXCEPT !.epoch = @ + 1])
  /\ UNCHANGED <<principal, revoked, call>>

(* queueComponentStateQuery and queueComponentHeartbeatChallenge; an earlier *)
(* heartbeat command only stands in the way until its deadline, which an    *)
(* open one meets by expiring and an acknowledged one unchanged.            *)
QueueStateQuery(d) == /\ Issue(d, "state", comp.epoch, "PENDING", "none")
                      /\ UNCHANGED <<comp, principal, revoked, call>>

QueueHeartbeatChallenge(d) ==
  /\ \A e \in Commands : dispatch[e].kind = "heartbeat"
       => dispatch[e].state \in {"ACKED", "COMPLETED", "FAILED", "EXPIRED"}
  /\ Issue(d, "heartbeat", comp.epoch, "none", "PENDING")
  /\ UNCHANGED <<comp, principal, revoked, call>>

-----------------------------------------------------------------------------
(* finalizeDispatchFromEvidence over row r of command d, as this            *)
(* transaction has left it; "beat" is the challenge as its select sees it.  *)
HeartbeatOkay_any(r, beat) == TRUE   \* mutant
HeartbeatOkay(r, beat) == r.kind \in {"enable", "heartbeat"} => beat = "RESPONDED"
QueryOkay_asked(r) == r.query # "other"   \* mutant
QueryOkay(r) == /\ r.kind = "state" => r.query \in Answers
                /\ r.kind \in {"enable", "disable"} => r.query = "match"
Confirmed(r, beat) == /\ r.state \in {"ACKED", "COMPLETED"}
                      /\ QueryOkay(r)
                      /\ HeartbeatOkay(r, beat)

Opened == [comp EXCEPT !.enabled = TRUE, !.activation = "ACTIVE", !.lifecycle = "ACTIVE",
                       !.operational = "HEALTHY", !.monitoring = "HEALTHY"]
Closed == [comp EXCEPT !.enabled = FALSE, !.activation = "READY",
                       !.lifecycle = Withdrawn(@), !.operational = "DISABLED",
                       !.monitoring = "PENDING"]

Finalize(d, r, beat) ==
  \/ /\ ~Confirmed(r, beat)
     /\ dispatch' = [dispatch EXCEPT ![d] = r]
     /\ UNCHANGED <<comp, principal>>
  \/ /\ Confirmed(r, beat)
     /\ dispatch' = [dispatch EXCEPT ![d] = [r EXCEPT !.state = "COMPLETED"]]
     /\ CASE r.kind = "enable"  -> Update(Opened) /\ principal' = "ACTIVE"
          [] r.kind = "disable" -> Update(Closed) /\ principal' = "SUSPENDED"
          [] OTHER              -> UNCHANGED <<comp, principal>>

-----------------------------------------------------------------------------
(* The dispatch worker, as DispatchWorker has it: a failed attempt puts the *)
(* row back and a recorded delivery leaves it in ACK_PENDING, whatever has  *)
(* happened to it in between; the last failed attempt blocks the component. *)
Worker(d, send) == /\ dispatch[d] # Absent
                   /\ dispatch[d].send = send
                   /\ UNCHANGED <<revoked, call>>

Deliver(d) == /\ Worker(d, "trying")
              /\ dispatch' = [dispatch EXCEPT ![d].state = "ACK_PENDING", ![d].send = "delivered"]
              /\ UNCHANGED <<comp, principal>>

Retry(d) == /\ Worker(d, "trying")
            /\ dispatch' = [dispatch EXCEPT ![d].state = "OPEN"]
            /\ UNCHANGED <<comp, principal>>

GivenUp_open(c) == [c EXCEPT !.activation = "BLOCKED", !.operational = "UNHEALTHY",   \* mutant
                             !.monitoring = "FAILED"]
GivenUp(c) == [c EXCEPT !.enabled = FALSE, !.activation = "BLOCKED",
                        !.operational = "UNHEALTHY", !.monitoring = "FAILED"]
GiveUp(d) == /\ Worker(d, "trying")
             /\ dispatch' = [dispatch EXCEPT ![d].state = "FAILED", ![d].send = "over"]
             /\ Update(GivenUp(comp))
             /\ UNCHANGED principal

Expire(d) == /\ dispatch[d] # Absent
             /\ dispatch[d].state \in {"OPEN", "ACK_PENDING"}
             /\ dispatch' = [dispatch EXCEPT ![d].state = "EXPIRED"]
             /\ UNCHANGED <<comp, principal, revoked, call>>

(* recordComponentControlAck called by the worker: it declares the epoch    *)
(* the command was issued under.                                            *)
WorkerAckReads(k, d) ==
  /\ call[k] = Quiet
  /\ dispatch[d] # Absent
  /\ dispatch[d].send = "delivered"
  /\ dispatch[d].epoch = comp.epoch
  /\ dispatch' = [dispatch EXCEPT ![d].send = "over"]
  /\ call' = [call EXCEPT ![k] = [at |-> "acking", cmd |-> d, status |-> "ACKED"]]
  /\ UNCHANGED <<comp, principal, revoked>>

-----------------------------------------------------------------------------
(* authorizeComponentCall for the component's own token.  A component       *)
(* declares the epoch it was last told; one that is stale already is only   *)
(* rejected, which Rejected and Drop include.                               *)
Pending == {"ENABLE_REQUESTED", "DISABLE_REQUESTED", "DISABLE_UNCONFIRMED"}
Authorize(k, scope) ==
  /\ call[k] = Quiet
  /\ ~revoked
  /\ principal = "ACTIVE"
  /\ comp.lifecycle # "QUARANTINED"
  /\ comp.operational # "QUARANTINED"
  /\ comp.enabled \/ (scope = "callback" /\ comp.activation \in Pending)
  /\ call' = [call EXCEPT ![k] = [at |-> "authorized", scope |-> scope, epoch |-> comp.epoch]]
  /\ UNCHANGED <<comp, principal, revoked, dispatch>>

Authorized(k, scope) == call[k].at = "authorized" /\ call[k].scope = scope
Return(k) == call' = [call EXCEPT ![k] = Quiet]

(* An answer to command d under an epoch that is still the current one.     *)
Answering(k, d) == /\ Authorized(k, "callback")
                   /\ call[k].epoch = comp.epoch
                   /\ dispatch[d] # Absent

(* recordComponentControlAck: the unlocked read, then the writes.           *)
AckReads(k, d, status) ==
  /\ Answering(k, d)
  /\ call' = [call EXCEPT ![k] = [at |-> "acking", cmd |-> d, status |-> status]]
  /\ UNCHANGED <<comp, principal, revoked, dispatch>>

Refused(c, kind) ==
  [c EXCEPT !.enabled = FALSE, !.monitoring = "DEGRADED",
            !.activation = IF kind = "disable" THEN "DISABLE_UNCONFIRMED" ELSE "BLOCKED"]

AckCommits(k) ==
  LET d == call[k].cmd IN
  /\ call[k].at = "acking"
  /\ IF call[k].status = "FAILED"
       THEN /\ dispatch' = [dispatch EXCEPT ![d].state = "FAILED"]
            /\ Update(Refused(comp, dispatch[d].kind))
            /\ UNCHANGED principal
       ELSE Finalize(d, [dispatch[d] EXCEPT !.state = "ACKED"], dispatch[d].beat)
  /\ Return(k)
  /\ UNCHANGED revoked

(* recordComponentStateObservation that names a query: no nonce, no look at *)
(* the query's own status or epoch.  While it waits for the row locks a     *)
(* heartbeat may commit that its select no longer sees.                     *)
ObserveReads(k, d, answer) ==
  /\ Answering(k, d)
  /\ dispatch[d].query # "none"
  /\ call' = [call EXCEPT ![k] = [at |-> "observing", cmd |-> d, answer |-> answer,
                                  beat |-> dispatch[d].beat]]
  /\ UNCHANGED <<comp, principal, revoked, dispatch>>

ObserveCommits(k) ==
  LET d == call[k].cmd IN
  /\ call[k].at = "observing"
  /\ \E beat \in {call[k].beat, dispatch[d].beat} :
       Finalize(d, [dispatch[d] EXCEPT !.query = call[k].answer], beat)
  /\ Return(k)
  /\ UNCHANGED revoked

(* recordComponentStateSnapshot: the component row is locked first, the     *)
(* query must still be open and its epoch the current one.                  *)
Snapshot(k, d, answer) ==
  /\ Answering(k, d)
  /\ dispatch[d].query = "PENDING"
  /\ dispatch[d].epoch = comp.epoch
  /\ Finalize(d, [dispatch[d] EXCEPT !.query = answer], dispatch[d].beat)
  /\ Return(k)
  /\ UNCHANGED revoked

(* recordComponentHeartbeat with a challenge: the component row is locked   *)
(* first; the challenge's own epoch and status are not looked at.           *)
Heartbeat(k, d) ==
  /\ Answering(k, d)
  /\ dispatch[d].beat # "none"
  /\ Finalize(d, [dispatch[d] EXCEPT !.beat = "RESPONDED"], "RESPONDED")
  /\ Return(k)
  /\ UNCHANGED revoked

(* A heartbeat, observation or snapshot that fails its validation.          *)
Rejected(k) == /\ Authorized(k, "callback")
               /\ Update([comp EXCEPT !.monitoring = "DEGRADED"])
               /\ Return(k)
               /\ UNCHANGED <<principal, revoked, dispatch>>

(* ingestComponentPulse and ingestComponentOperationEvent without success;  *)
(* a pulse ends there, an operation event goes on to the audit stream.      *)
OperationFails(k) ==
  /\ Authorized(k, "runtime")
  /\ Update([comp EXCEPT !.operational = "UNHEALTHY", !.monitoring = "FAILED"])
  /\ Return(k) \/ call' = [call EXCEPT ![k] = [at |-> "auditing"]]
  /\ UNCHANGED <<principal, revoked, dispatch>>

Impounded(c) == [c EXCEPT !.enabled = FALSE, !.lifecycle = "QUARANTINED",
                          !.activation = "BLOCKED", !.operational = "QUARANTINED"]

(* ingestComponentAuditEvent that finds a sequence number with another hash. *)
AuditConflict(k) == /\ Authorized(k, "runtime") \/ call[k].at = "auditing"
                    /\ Update(Impounded(comp))
                    /\ Return(k)
                    /\ UNCHANGED <<principal, revoked, dispatch>>

(* A request that changes nothing more: refused, failed, deadlocked, dead.  *)
Drop(k) == /\ call[k] # Quiet
           /\ Return(k)
           /\ UNCHANGED <<comp, principal, revoked, dispatch>>

-----------------------------------------------------------------------------
(* setComponentLifecycle.                                                   *)
Quarantine == /\ Update(Impounded(comp))
              /\ principal' = "QUARANTINED"
              /\ UNCHANGED <<revoked, dispatch, call>>

Restore == /\ comp.lifecycle = "QUARANTINED"   \* SUSPENDED is never written
           /\ Update([comp EXCEPT !.enabled = FALSE, !.lifecycle = "APPROVED",
                                  !.activation = "READY", !.operational = "DISABLED"])
           /\ principal' = "SUSPENDED"
           /\ UNCHANGED <<revoked, dispatch, call>>

Leave(lifecycle) ==
  /\ Update([comp EXCEPT !.enabled = FALSE, !.lifecycle = lifecycle,
                         !.activation = "INACTIVE", !.operational = "RETIRED"])
  /\ principal' = "REVOKED"
  /\ revoked' = TRUE
  /\ UNCHANGED <<dispatch, call>>
Retire == comp.lifecycle # "DEREGISTERED" /\ Leave("RETIRED")
Deregister == comp.lifecycle = "RETIRED" /\ Leave("DEREGISTERED")

(* revokeComponentAccessToken; a revoked token cannot be rotated.           *)
RevokeToken == /\ ~revoked
               /\ revoked' = TRUE
               /\ UNCHANGED <<comp, principal, dispatch, call>>

(* setComponentPermissionEnabled and every other bare policy_epoch + 1.     *)
PermissionChange == /\ comp' = [comp EXCEPT !.epoch = @ + 1]
                    /\ UNCHANGED <<principal, revoked, dispatch, call>>

(* markStaleComponentHeartbeats and recordComponentMonitoringWatchdog (the  *)
(* monitor selects live components before it probes them, and records what  *)
(* the probe said whatever became of the component since).                  *)
MarkStale(disable) ==
  /\ comp.lifecycle = "ACTIVE"
  /\ comp.enabled
  /\ Update([comp EXCEPT !.operational = IF disable THEN "DISABLED" ELSE "UNHEALTHY",
                         !.monitoring = "FAILED", !.enabled = ~disable, !.epoch = @ + 1])
  /\ UNCHANGED <<principal, revoked, dispatch, call>>

Watchdog(pass) ==
  /\ Update([comp EXCEPT !.monitoring = IF pass THEN "HEALTHY" ELSE "FAILED"])
  /\ UNCHANGED <<principal, revoked, dispatch, call>>

-----------------------------------------------------------------------------
Admin == \/ \E d \in Commands : RequestEnable(d) \/ RequestDisable(d)
                                   \/ QueueStateQuery(d) \/ QueueHeartbeatChallenge(d)
         \/ Quarantine \/ Restore \/ Retire \/ Deregister \/ RevokeToken \/ PermissionChange

Monitor == \E b \in BOOLEAN : MarkStale(b) \/ Watchdog(b)

Dispatcher == \E d \in Commands : \/ Deliver(d) \/ Retry(d) \/ GiveUp(d) \/ Expire(d)
                                  \/ \E k \in Callers : WorkerAckReads(k, d)

Callback(k) ==
  \/ \E scope \in {"callback", "runtime"} : Authorize(k, scope)
  \/ \E d \in Commands :
       \/ \E status \in {"ACKED", "FAILED"} : AckReads(k, d, status)
       \/ \E answer \in Answers : ObserveReads(k, d, answer) \/ Snapshot(k, d, answer)
       \/ Heartbeat(k, d)
  \/ AckCommits(k) \/ ObserveCommits(k) \/ Rejected(k)
  \/ OperationFails(k) \/ AuditConflict(k) \/ Drop(k)

ControlNext == Admin \/ Monitor \/ Dispatcher \/ \E k \in Callers : Callback(k)

ControlSpec == ControlInit /\ [][ControlNext]_controlVars

-----------------------------------------------------------------------------
(* The traffic flags, the lifecycle, the activation state and the principal *)
(* live in two tables and are written by many hands; whenever traffic is    *)
(* open the others agree, whoever closed or opened it last.                 *)
OpenConsistent ==
  comp.enabled => /\ comp.activation = "ACTIVE"
                  /\ comp.lifecycle = "ACTIVE"
                  /\ comp.operational # "QUARANTINED"
                  /\ principal = "ACTIVE"

(* Epochs tell activation requests apart: no two share one, none lies ahead *)
(* of the component's, and a disable command is behind it from the start,   *)
(* so the worker (which declares the command's epoch) never acknowledges    *)
(* one: only the component itself can.                                      *)
EpochsTellApart ==
  \A d \in Commands : dispatch[d] # Absent =>
    /\ dispatch[d].epoch <= comp.epoch
    /\ dispatch[d].kind = "disable" => dispatch[d].epoch < comp.epoch
    /\ \A e \in Commands \ {d} :
         dispatch[d].kind \in {"enable", "disable"} /\ dispatch[e].kind \in {"enable", "disable"}
           => dispatch[d].epoch # dispatch[e].epoch

(* A command is COMPLETED only with the evidence its kind asks for, however *)
(* the acknowledgement, the state answer and the heartbeat are ordered and  *)
(* however often each of them comes.                                        *)
CompletedHasEvidence ==
  \A d \in Commands : dispatch[d] # Absent /\ dispatch[d].state = "COMPLETED" =>
    /\ dispatch[d].kind \in {"enable", "heartbeat"} => dispatch[d].beat = "RESPONDED"
    /\ dispatch[d].query # "PENDING"

(* What a request in flight and a row hold on to: the command of a request  *)
(* exists, a heartbeat once answered stays answered, and a command that     *)
(* asks no state query never gets an answer to one.                         *)
Coherent ==
  /\ \A k \in Callers : call[k].at \in {"acking", "observing"} =>
       LET r == dispatch[call[k].cmd] IN
       /\ r # Absent
       /\ call[k].at = "observing" =>
            r.query # "none" /\ (call[k].beat = "RESPONDED" => r.beat = "RESPONDED")
  /\ \A d \in Commands : dispatch[d].kind = "heartbeat" => dispatch[d].query = "none"

ControlIInv ==
  ControlTypeOK /\ OpenConsistent /\ EpochsTellApart /\ CompletedHasEvidence /\ Coherent

(* Closed traffic opens only in a step that completes an enable command     *)
(* whose state query matched and whose heartbeat challenge was answered.    *)
Opens == ~comp.enabled /\ comp'.enabled
ActivationConfirmed(d) == /\ dispatch[d] # Absent
                          /\ dispatch[d].kind = "enable" /\ dispatch[d].state = "COMPLETED"
                          /\ dispatch[d].query = "match" /\ dispatch[d].beat = "RESPONDED"
OpenOnlyConfirmed ==
  [][Opens => \E d \in Commands : ActivationConfirmed(d)']_controlVars

=============================================================================
