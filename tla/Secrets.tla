------------------------------- MODULE Secrets -------------------------------
(***************************************************************************)
(* The secrets one component may resolve (domain/secret-manager.ts,        *)
(* http/secret-api-routes.ts, onboarding/secret-broker.ts).                *)
(*                                                                         *)
(* Administrators create, rotate, disable, delete and restore secrets and  *)
(* grant them; the component comes with its onboarding, which hands the    *)
(* grants of its integration token over to it and issues its first access  *)
(* token (domain/component.ts); each deployment of a component that the    *)
(* repository holds gives it one more, for the secret broker               *)
(* (domain/repository-component-runtime-auth.ts).  A resolve is            *)
(* authenticated by one or two statements and answered by a transaction    *)
(* that locks the secret's row.                                            *)
(*                                                                         *)
(* Abstractions: an administrator's expected version is the current one    *)
(* (any other is refused with 409); a value is its version number; the     *)
(* epochs of a component's principal move only where its tokens are        *)
(* revoked too, so both are one "revoked"; enabled, egress_enabled and     *)
(* activation_state = ACTIVE are one "open".  The idempotency key of a     *)
(* resolve, rate limits and audit rows are left out.                       *)
(***************************************************************************)
EXTENDS Naturals

CONSTANTS
  Secrets,      \* rows of secret_record
  TokenGrants,  \* the names granted with the integration token
  Requests,     \* resolves in flight
  MaxVersion,   \* bound: versions of a secret
  MaxLife,      \* bound: how often a secret is deleted
  MaxDigest,    \* bound: access tokens issued to the component
  None

ASSUME GrantAssumption == TokenGrants \subseteq Secrets
ASSUME NoneAssumption == None \notin Secrets
ASSUME BoundAssumption ==
  MaxVersion \in Nat \ {0} /\ MaxLife \in Nat /\ MaxDigest \in Nat \ {0}

VARIABLES
  secret,     \* each secret_record with its active version
  direct,     \* rows of secret_grant that are not revoked
  token,      \* the integration token
  job,        \* the component's onboarding job
  component,  \* the component with its principal
  access,     \* its access tokens, numbered as they are issued
  request     \* where each resolve stands

vars == <<secret, direct, token, job, component, access, request>>

Status == {"NONE", "ACTIVE", "DISABLED", "DELETED"}
Secret == [status: Status, version: 0..MaxVersion, life: 0..MaxLife]

\* life: of the secret the grant hangs on, when it was given.
Grant == [secret: Secrets, all: BOOLEAN, life: 0..MaxLife]

\* barred: operational_state is QUARANTINED or RETIRED; gone: deregistered_at is
\* set; pending: the control commands under way; ended: the access tokens issued
\* before the component was retired or deregistered (a record of the past).
Component ==
  [lifecycle: {"REVIEW", "ACTIVE", "APPROVED", "QUARANTINED", "RETIRED", "DEREGISTERED"},
   open: BOOLEAN, barred: BOOLEAN, gone: BOOLEAN, ended: 0..MaxDigest,
   pending: SUBSET {"enable", "disable"},
   principal: {"SUSPENDED", "ACTIVE", "QUARANTINED", "REVOKED"}]

\* issued: the last access token; own: the one whose digest the onboarding job
\* holds; live: of each audience the token that is not revoked (0: none).
Audience == {"*", "kcml-runtime-secret-broker"}
Access == [issued: 0..MaxDigest, own: 0..MaxDigest, live: [Audience -> 0..MaxDigest]]

\* late: its token was issued before the component was retired or deregistered,
\* and it arrived after; read: whether the component was active when its row was read.
Request ==
  [at: {"IDLE", "ARRIVED", "READ", "ADMITTED", "SELECTED", "LOCKED", "SERVED"},
   kind: {"COMPONENT", "INTEGRATION_TOKEN"}, digest: 0..MaxDigest,
   secret: Secrets \cup {None}, version: 0..MaxVersion, late: BOOLEAN,
   read: {"UNREAD", "ACTIVE", "CLOSED"}]
Idle == [at |-> "IDLE", kind |-> "COMPONENT", digest |-> 0, secret |-> None,
         version |-> 0, late |-> FALSE, read |-> "UNREAD"]

TypeOK ==
  /\ secret \in [Secrets -> Secret]
  /\ direct \subseteq Grant
  /\ token \in [revoked: BOOLEAN, expired: BOOLEAN]
  /\ job \in {"NONE", "OPEN", "DONE", "CANCELLED"}
  /\ component \in Component
  /\ access \in Access
  /\ request \in [Requests -> Request]

\* An integration token with its grants, and no component yet.
Init ==
  /\ secret = [s \in Secrets |-> [status |-> "NONE", version |-> 0, life |-> 0]]
  /\ direct = {}
  /\ token = [revoked |-> FALSE, expired |-> FALSE]
  /\ job = "NONE"
  /\ component = [lifecycle |-> "REVIEW", open |-> FALSE, barred |-> FALSE, gone |-> FALSE,
                  ended |-> 0, pending |-> {}, principal |-> "SUSPENDED"]
  /\ access = [issued |-> 0, own |-> 0, live |-> [a \in Audience |-> 0]]
  /\ request = [r \in Requests |-> Idle]

-----------------------------------------------------------------------------
(* Administrators and their secrets.  A resolve holds the row's lock from   *)
(* its select until it commits; update and select for update wait for it.   *)

Unlocked(s) == \A r \in Requests : request[r].at = "LOCKED" => request[r].secret # s

ChangeSecret(s, row) ==
  /\ Unlocked(s)
  /\ secret' = [secret EXCEPT ![s] = row]
  /\ UNCHANGED <<token, job, component, access, request>>

CreateSecret(s) ==
  /\ secret[s].status = "NONE"
  /\ ChangeSecret(s, [secret[s] EXCEPT !.status = "ACTIVE", !.version = 1])
  /\ UNCHANGED direct

RotateSecret(s) ==
  /\ secret[s].status \in {"ACTIVE", "DISABLED"}
  /\ secret[s].version < MaxVersion
  /\ ChangeSecret(s, [secret[s] EXCEPT !.version = @ + 1])
  /\ UNCHANGED direct

SetSecretStatus(s, status) ==
  /\ secret[s].status \in {"ACTIVE", "DISABLED"}
  /\ ChangeSecret(s, [secret[s] EXCEPT !.status = status])
  /\ UNCHANGED direct

\* The grants that hang on a deleted secret, the one for all secrets too.
Revocable_none(s) == {}   \* mutant
Revocable(s) == {g \in direct : g.secret = s}

DeleteSecret(s) ==
  /\ secret[s].status \in {"ACTIVE", "DISABLED"}
  /\ secret[s].life < MaxLife
  /\ ChangeSecret(s, [secret[s] EXCEPT !.status = "DELETED", !.life = @ + 1])
  /\ direct' = direct \ Revocable(s)

RestoreSecret(s) ==
  /\ secret[s].status = "DELETED"
  /\ ChangeSecret(s, [secret[s] EXCEPT !.status = "DISABLED"])
  /\ UNCHANGED direct

\* grantSecret; secret_grant_current_all_secrets_identity_idx lets a component
\* have one grant for all secrets, whichever secret it hangs on.
GrantSecret(s, all) ==
  /\ secret[s].status \in {"ACTIVE", "DISABLED"}
  /\ Unlocked(s)
  /\ job # "NONE"
  /\ all => \A g \in direct : ~g.all
  /\ direct' = direct \cup {[secret |-> s, all |-> all, life |-> secret[s].life]}
  /\ UNCHANGED <<secret, token, job, component, access, request>>

RevokeSecretGrant(g) ==
  /\ direct' = direct \ {g}
  /\ UNCHANGED <<secret, token, job, component, access, request>>

-----------------------------------------------------------------------------
(* The component's onboarding *)

CreateOnboarding ==
  /\ job = "NONE"
  /\ ~token.revoked /\ ~token.expired
  /\ job' = "OPEN"
  /\ UNCHANGED <<secret, direct, token, component, access, request>>

\* An access token of this audience, at the principal's present epochs.
Issue(a) == [access EXCEPT !.issued = @ + 1, !.live[a] = access.issued + 1]

\* evaluateComponentReadiness, for a call authenticated while the token was
\* live; the first one issues the access token, the first that passes hands it
\* off and revokes the integration token.
Evaluate(passed) ==
  /\ job \in {"OPEN", "DONE"}
  /\ access.own = 0 => access.issued < MaxDigest
  /\ access' = IF access.own = 0 THEN [Issue("*") EXCEPT !.own = access.issued + 1] ELSE access
  /\ job' = IF passed THEN "DONE" ELSE job
  /\ token' = IF passed /\ job = "OPEN" THEN [token EXCEPT !.revoked = TRUE] ELSE token
  /\ component' = [component EXCEPT
       !.lifecycle = IF passed THEN "ACTIVE" ELSE "REVIEW",
       !.open = passed,
       !.barred = @ /\ ~passed,
       !.principal = IF passed \/ access.own = 0 THEN "ACTIVE" ELSE @]
  /\ UNCHANGED <<secret, direct, request>>

\* Whatever ends a component revokes all its access tokens.
Withdrawn_kept == access   \* mutant
Withdrawn == [access EXCEPT !.live = [a \in Audience |-> 0]]

\* cleanupComponentOnboardingRow, after a cancellation or when the integration
\* token has expired; the row of a job that has handed off is left alone.
CleanUp ==
  /\ \/ job = "OPEN"
     \/ job = "DONE" /\ token.expired
  /\ job' = IF job = "OPEN" THEN "CANCELLED" ELSE job
  /\ access' = Withdrawn
  /\ component' = [component EXCEPT !.lifecycle = "DEREGISTERED", !.open = FALSE, !.barred = TRUE,
                                    !.gone = TRUE, !.principal = "REVOKED", !.ended = access.issued]
  /\ UNCHANGED <<secret, direct, token, request>>

\* revokeIntegrationToken and deleteIntegrationToken, or time.
TokenEnds ==
  /\ \/ token' = [token EXCEPT !.revoked = TRUE]
     \/ token' = [token EXCEPT !.expired = TRUE]
  /\ UNCHANGED <<secret, direct, job, component, access, request>>

-----------------------------------------------------------------------------
(* The component's later life *)

ChangeComponent(row) ==
  /\ job # "NONE"
  /\ component' = row
  /\ UNCHANGED <<secret, direct, token, job, request>>

\* setComponentActivation; whether readiness allows an enabling is open.
RequestEnable ==
  /\ job = "DONE"
  /\ ChangeComponent([component EXCEPT !.open = FALSE, !.barred = FALSE,
                                       !.pending = @ \cup {"enable"}])
  /\ UNCHANGED access

RequestDisable ==
  /\ ChangeComponent([component EXCEPT !.open = FALSE, !.barred = FALSE,
                                       !.lifecycle = IF @ = "ACTIVE" THEN "APPROVED" ELSE @,
                                       !.pending = @ \cup {"disable"}])
  /\ UNCHANGED access

\* finalizeDispatchFromEvidence
Confirm(command) ==
  /\ command \in component.pending
  /\ ChangeComponent([component EXCEPT
       !.open = command = "enable",
       !.barred = FALSE,
       !.lifecycle = IF command = "enable" THEN "ACTIVE" ELSE IF @ = "ACTIVE" THEN "APPROVED" ELSE @,
       !.principal = IF command = "enable" THEN "ACTIVE" ELSE "SUSPENDED",
       !.pending = @ \ {command}])
  /\ UNCHANGED access

\* The control worker gives a command up.
GiveUp(command) ==
  /\ command \in component.pending
  /\ ChangeComponent([component EXCEPT !.open = FALSE, !.barred = FALSE, !.pending = @ \ {command}])
  /\ UNCHANGED access

\* A pulse or an operation event that reports a failure, authorized before, sets
\* operational_state to UNHEALTHY; a stale heartbeat may close the component too.
ReportFailure ==
  /\ job = "DONE"
  /\ ChangeComponent([component EXCEPT !.barred = FALSE])
  /\ UNCHANGED access

GoStale ==
  /\ component.lifecycle = "ACTIVE" /\ component.open
  /\ ChangeComponent([component EXCEPT !.open = FALSE, !.barred = FALSE])
  /\ UNCHANGED access

\* setComponentLifecycle, or a conflict in the component's audit stream, which
\* leaves the principal alone.
Quarantine ==
  \E principal \in {"QUARANTINED", component.principal} :
    /\ ChangeComponent([component EXCEPT !.lifecycle = "QUARANTINED", !.open = FALSE,
                                         !.barred = TRUE, !.principal = principal])
    /\ UNCHANGED access

Restore ==
  /\ component.lifecycle = "QUARANTINED"
  /\ ChangeComponent([component EXCEPT !.lifecycle = "APPROVED", !.open = FALSE,
                                       !.barred = FALSE, !.principal = "SUSPENDED"])
  /\ UNCHANGED access

Retire ==
  /\ component.lifecycle # "DEREGISTERED"
  /\ ChangeComponent([component EXCEPT !.lifecycle = "RETIRED", !.open = FALSE, !.barred = TRUE,
                                       !.principal = "REVOKED", !.ended = access.issued])
  /\ access' = Withdrawn

Deregister ==
  /\ component.lifecycle = "RETIRED"
  /\ ChangeComponent([component EXCEPT !.lifecycle = "DEREGISTERED", !.open = FALSE, !.barred = TRUE,
                                       !.gone = TRUE, !.principal = "REVOKED", !.ended = access.issued])
  /\ access' = Withdrawn

\* rotateComponentAccessToken keeps the audience.
RotateAccess(a) ==
  /\ access.live[a] # 0
  /\ access.issued < MaxDigest
  /\ access' = Issue(a)
  /\ UNCHANGED <<secret, direct, token, job, component, request>>

RevokeAccess(a) ==
  /\ access.live[a] # 0
  /\ access' = [access EXCEPT !.live[a] = 0]
  /\ UNCHANGED <<secret, direct, token, job, component, request>>

\* issueRepositoryComponentRuntimeSecretToken, at each deployment: asks only that
\* the component is not deregistered, and replaces the token of this audience.
IssueRuntimeToken ==
  /\ job # "NONE" /\ ~component.gone
  /\ access.issued < MaxDigest
  /\ access' = Issue("kcml-runtime-secret-broker")
  /\ UNCHANGED <<secret, direct, token, job, component, request>>

-----------------------------------------------------------------------------
(* A resolve *)

Go(r, row) ==
  /\ request' = [request EXCEPT ![r] = row]
  /\ UNCHANGED <<secret, direct, token, job, component, access>>

Arrive(r, kind, digest, s) ==
  /\ request[r].at = "IDLE"
  /\ Go(r, [Idle EXCEPT !.at = "ARRIVED", !.kind = kind, !.digest = digest, !.secret = s,
                        !.late = digest \in 1..component.ended])

\* authenticateIntegrationTokenForSecretResolve
AdmitToken(r) ==
  /\ request[r].at = "ARRIVED" /\ request[r].kind = "INTEGRATION_TOKEN"
  /\ ~token.revoked /\ ~token.expired
  /\ Go(r, [request[r] EXCEPT !.at = "ADMITTED"])

\* authenticatePrincipalAccessToken: the token's row with principal and
\* component, then in a statement of its own the onboarding job that issued this
\* very token, which excuses all but the last conditions.
Standing ==
  IF component.open /\ component.lifecycle = "ACTIVE" /\ component.principal = "ACTIVE"
  THEN "ACTIVE" ELSE "CLOSED"

Read(r) ==
  /\ request[r].at = "ARRIVED" /\ request[r].kind = "COMPONENT"
  /\ \E a \in Audience : access.live[a] = request[r].digest
  /\ ~component.barred /\ ~component.gone
  /\ Go(r, [request[r] EXCEPT !.at = "READ", !.read = Standing])

Excused(r) == request[r].digest = access.own /\ job \in {"OPEN", "DONE"}

Admit(r) ==
  /\ request[r].at = "READ"
  /\ request[r].read = "ACTIVE" \/ Excused(r)
  /\ Go(r, [request[r] EXCEPT !.at = "ADMITTED"])

\* resolveSecret: the statement takes its snapshot, and then the lock of the row
\* it found.  If the row has changed in between it is checked again in its new
\* version, against the secret_version row of the snapshot.
Select(r) ==
  /\ request[r].at = "ADMITTED"
  /\ secret[request[r].secret].status = "ACTIVE"
  /\ Go(r, [request[r] EXCEPT !.at = "SELECTED", !.version = secret[request[r].secret].version])

StillMatches_active(r) == secret[request[r].secret].status = "ACTIVE"   \* mutant
StillMatches(r) ==
  /\ secret[request[r].secret].status = "ACTIVE"
  /\ secret[request[r].secret].version = request[r].version

Lock(r) ==
  /\ request[r].at = "SELECTED"
  /\ Unlocked(request[r].secret)
  /\ StillMatches(r)
  /\ Go(r, [request[r] EXCEPT !.at = "LOCKED"])

\* assertGrant; the grants of the token are never revoked, and have been the
\* component's since its onboarding was created.
Granted(r) ==
  \/ request[r].secret \in TokenGrants
  \/ /\ request[r].kind = "COMPONENT"
     /\ \E g \in direct : g.all \/ g.secret = request[r].secret

Serve(r) ==
  /\ request[r].at = "LOCKED"
  /\ Granted(r)
  /\ Go(r, [request[r] EXCEPT !.at = "SERVED"])

\* The request is over: answered, refused, or lost.
End(r) ==
  /\ request[r].at # "IDLE"
  /\ Go(r, Idle)

-----------------------------------------------------------------------------
Administrator ==
  \/ \E s \in Secrets :
       \/ CreateSecret(s) \/ RotateSecret(s) \/ DeleteSecret(s) \/ RestoreSecret(s)
       \/ \E status \in {"ACTIVE", "DISABLED"} : SetSecretStatus(s, status)
       \/ \E all \in BOOLEAN : GrantSecret(s, all)
  \/ \E g \in direct : RevokeSecretGrant(g)
  \/ RequestEnable \/ RequestDisable \/ Quarantine \/ Restore \/ Retire \/ Deregister
  \/ \E a \in Audience : RotateAccess(a) \/ RevokeAccess(a)
  \/ TokenEnds

Onboarding == CreateOnboarding \/ (\E passed \in BOOLEAN : Evaluate(passed)) \/ CleanUp

Control ==
  \/ \E command \in component.pending : Confirm(command) \/ GiveUp(command)
  \/ ReportFailure \/ GoStale

Resolve ==
  \E r \in Requests :
    \/ \E s \in Secrets :
         \/ Arrive(r, "INTEGRATION_TOKEN", 0, s)
         \/ \E digest \in 1..access.issued : Arrive(r, "COMPONENT", digest, s)
    \/ AdmitToken(r) \/ Read(r) \/ Admit(r) \/ Select(r) \/ Lock(r) \/ Serve(r) \/ End(r)

Next == Administrator \/ Onboarding \/ Control \/ IssueRuntimeToken \/ Resolve
Spec == Init /\ [][Next]_vars

-----------------------------------------------------------------------------
(* Properties *)

\* The value that a resolve is about to hand out is, until its transaction ends,
\* that of the secret's active version, and the secret is active: a rotation, a
\* deactivation or a deletion that commits meanwhile comes before or after it.
HeldIsCurrent ==
  \A r \in Requests : request[r].at = "LOCKED" =>
    LET s == secret[request[r].secret]
    IN  s.status = "ACTIVE" /\ s.version = request[r].version

\* A component is served a secret on its integration token's grant or on a direct
\* one, for this secret or for all, that was given since the secret it hangs on was
\* last deleted: a request on its way while a secret is deleted, restored and
\* activated again does not come through on that secret's former direct grants.
\* (The token's grants, and one for all secrets that hangs on another, do serve a
\* restored secret.)
ServedOnPresentGrant ==
  [][\A r \in Requests :
       request[r].kind = "COMPONENT" /\ request[r].at = "LOCKED" /\ request'[r].at = "SERVED" =>
         \/ request[r].secret \in TokenGrants
         \/ \E g \in direct : /\ g.all \/ g.secret = request[r].secret
                              /\ g.life = secret[g.secret].life
                              /\ secret[g.secret].status # "DELETED"]_vars

\* No access token that a component had when it was retired or deregistered admits
\* a request that arrives after that, whatever is done to the component afterwards:
\* enabled again, given further tokens, rotated.  (A request whose token was read
\* before is still served, and what a later token admits is for Standing to say.)
OldTokensAdmitNothing ==
  \A r \in Requests : request[r].late => request[r].at = "ARRIVED"

\* The inductive invariant: a direct grant was given in the present life of the
\* secret it hangs on, the tokens issued before the component ended are not live,
\* a late request comes with one of those, and every request names a secret.
GrantsOfThisLife ==
  \A g \in direct : /\ g.life = secret[g.secret].life
                    /\ secret[g.secret].status # "DELETED"
EndedAreRevoked ==
  /\ component.ended <= access.issued
  /\ \A a \in Audience : access.live[a] = 0 \/ access.live[a] > component.ended
LateIsEnded ==
  \A r \in Requests :
    request[r].late => request[r].digest \in 1..component.ended /\ request[r].kind = "COMPONENT"
Named == \A r \in Requests : request[r].at = "IDLE" \/ request[r].secret \in Secrets
IInv ==
  /\ TypeOK /\ HeldIsCurrent /\ GrantsOfThisLife /\ OldTokensAdmitNothing
  /\ EndedAreRevoked /\ LateIsEnded /\ Named
=============================================================================
