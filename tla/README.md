# TLA+ specifications of the KajovoCML control plane

KajovoCML ("KCML") is a TypeScript control plane over PostgreSQL. It registers
components (AI clients, agents, MCP servers, managed runtimes), authorizes the
calls between them, sends them control commands, and opens or closes their
traffic. Its state lives in database rows; several processes change them at the
same time: the HTTP server (administrators' requests and the components' own
callbacks), the control-dispatch worker, the onboarding worker, the end-to-end
worker, the monitor. `db.ts` runs every transaction as a plain
`BEGIN ... COMMIT`, so the isolation level is READ COMMITTED: a statement sees
what has committed when it starts, a row lock makes it wait and re-read the
locked row, and nothing else is protected. Most of what can go wrong here goes
wrong between two statements or two transactions of one request, and that is
what these modules are about.

All source paths below are relative to `apps/server/src/` unless they start at
the repository's root. `PROJECT.json` maps every definition to the lines it
models; the map covers a third of the implementation.

## Inventory

| component | state | operations | hard behaviour | what makes it correct | module |
|---|---|---|---|---|---|
| Control-dispatch worker (`onboarding/component-control-worker.ts`) | `component_control_dispatch` (state, attempt_count, lease, deadline), its attempts, circuit breaker of `component_runtime_target` | claim with sweep, send, record delivery, record failure, acknowledge | leases that lapse under slow workers, crashes, late writes over newer states | gapless attempts, bounded retries, delivery is last, one acknowledger, every command comes to rest | `DispatchWorker` |
| Component control (`domain/component.ts`, second half) | `component` (lifecycle, activation, operational and monitoring state, traffic flags, policy epoch), `principal`, commands with their state query and heartbeat challenge | activation, deactivation, state query, challenge; acknowledgement, heartbeat, state answers; lifecycle; stale-heartbeat closing, watchdog | unlocked reads, evidence in any order and repeated, epochs moved by trigger and code | open traffic agrees with everything else, opens only confirmed; epochs tell requests apart | `ComponentControl` |
| Component authorization (`domain/component-auth.ts`) | access tokens, permissions | one decision per call, committed before the handler runs | decision stale when the handler commits | nothing closed or quarantined is let in | `ComponentControl` (a component's own token) |
| Component audit stream (`domain/component-audit.ts`) | expected sequence, gap, integrity, stored events | ingest with duplicate, gap and conflict detection | replays, reordering, two events in flight | contiguous stored prefix, gap reported while something is missing, conflicts real | `ComponentAuditStream` |
| Component onboarding (`domain/component.ts`, first half) | integration token, onboarding job, revision | create (idempotent), revise, evaluate readiness, cancel, clean-up | retry with the same key, evaluation racing revision, expiry | token handed off once, no activation without hand-off | `ComponentOnboarding` |
| Readiness gates and end-to-end worker (`domain/component.ts`, `onboarding/component-e2e-worker.ts`) | gate evidence, runs with leases | probe, record, judge, queue, claim, execute, report | recorders racing evaluations and revisions, lapsed leases, a report row by row | what is handed off was shown, one run at a time, runs end | `ReadinessGates` |
| Onboarding pipeline and MCP server state (`domain/onboarding.ts`, `onboarding/worker.ts`, `activation.ts`, `domain/server-state.ts`) | `onboarding_job` (state, lease, lock_version), `mcp_server` | lease, transition, heartbeat, deploy, register, try, activate, fail, pause, cancel, quarantine | lease loss in the middle of a saga, compensation, crashes | nothing given up is served, what is deployed was built from the source named | `OnboardingPipeline` |
| External API registry and managed services (`domain/external-api.ts`, `managed-service.ts`, `auth.ts`) | service, credentials, permissions, tokens with epochs | register, revise, issue, authorize, open, close, monitor | a call decided in four statements | a call goes to the revision it was authorized for; what is invalid stays invalid | `ManagedAccess` |
| Monitoring, alerts, recertification (`onboarding/monitoring.ts`, `domain/alerts.ts`, `recertification.ts`) | probe results, alerts, deliveries | tick, enforce, raise, close, deliver | death between any two steps, stale rows, delivery retries | a suspension is alerted, deliveries counted, final and settled | `Monitoring` |
| Secrets (`domain/secret-manager.ts`, `onboarding/secret-broker.ts`, `domain/repository-component-runtime-auth.ts`) | secrets, versions, grants, the access tokens of a component | create, rotate, delete, restore, grant, resolve; issue, rotate and revoke tokens | a resolve in several statements against all of these | the value handed out is the current one, a deletion ends the direct grants that hang on the secret, a retirement ends the tokens issued so far | `Secrets` |
| Administrator identity (`http/admin-routes.ts`, `domain/deployment-managed-admin.ts`) | accounts, sessions, trusted devices | log in, answer a challenge, change credentials, revoke | a login of several requests | a session rests on the present credentials | `AdminIdentity` |
| MCP gateway, platform worker access, egress, audit chain and archive, operational configuration, rate limiting, admin UI, deployment | | | | | not modelled, see below |

Interactions. An administrator's request writes the component row and a command
in one transaction; the worker claims the command, posts it to the component
and acknowledges it; the component calls back with an acknowledgement, a state
answer and a heartbeat, each authorized against the very row the command
changes; whichever of them comes last finalizes the command and opens or closes
the traffic, and leaves gate evidence behind. An integration client creates,
revises and evaluates a component; the evaluation judges that evidence with
what its own probes and the end-to-end worker have recorded, and hands the
access token off. The monitor, the audit stream, permission changes and
lifecycle actions write the same component row, and a trigger moves its policy
epoch. MCP servers take another way, through the pipeline; the monitor
supervises them, and both raise alerts.

What is reachable. The shipped `/v1/onboardings*` routes answer 410
(`http/onboarding-routes.ts:236-242`), so new jobs of the pipeline come from
`POST /v1/service-onboardings`, which creates `EXTERNAL_API` services; the
pipeline's code for MCP servers runs on jobs that exist already and on
revisions, and is modelled as it is.

## Modules

| module | what it is |
|---|---|
| `DispatchLifecycle` | the abstract promise of a command row: issued once, a bounded number of attempts, no way back from the last |
| `DispatchWorker` | the worker over the rows of one component; `ImplementsLifecycle` is the refinement of `DispatchLifecycle` |
| `ComponentControl` | one handed-off component under administrators, monitor, worker and its own callbacks |
| `AuditLog` | the abstract promise of an audit stream: the log grows at its end and holds what was acknowledged |
| `ComponentAuditStream` | the stream of one component; `ImplementsLog` is the refinement of `AuditLog` |
| `ComponentOnboarding` | the jobs and components of one integration token, up to the hand-off of the access token and beyond |
| `ReadinessGates` | the gate evidence of one component, its recorders, the evaluation and the end-to-end workers |
| `JobLifecycle` | the abstract promise of a pipeline job: one state at a time, the source it names, a server served by its trial alone |
| `OnboardingPipeline` | pipeline jobs, their servers and the workers that lease them; `ImplementsJobLifecycle` is the refinement of `JobLifecycle` |
| `ManagedAccess` | one managed service, credentials, tokens and the gateway statement by statement |
| `Monitoring` | the monitor's cycle over one server, with alerts and their deliveries |
| `Secrets` | secrets, grants, and resolves statement by statement |
| `AdminIdentity` | accounts, logins, sessions, trusted devices |
| `MC_*` | symmetry, constraints and constant values for TLC |
| `*_proofs` | theorems and their proofs: `ControlPlane_proofs` about `DispatchWorker` and `ComponentControl`, `Access_proofs` about `ManagedAccess` and `AdminIdentity`, the others about the module they are named after |

Definitions that end in `_something` and are commented `mutant` are plausible
bugs, each kept beside the definition it stands in for; nothing uses them.

### DispatchWorker

State: `state`, `attemptCount`, `lease` and `ledger` are columns of the command
row and its attempt rows; `overdue` stands for `deadline_at <= now()`, `fenced`
for "the component's policy epoch is no longer the command's"; `circuit` is the
breaker; `worker` is where each process stands, with the row it read when it
claimed. Actions are the code's transactions: `Claim` and `Sweep` (claim()),
`SendSucceeds`, `RecordDelivery`, `AckAccepted`, `Catch`, `FailAttempt`,
`FailAttemptAborts` (the unique key refuses the attempt number, the error leaves
the catch block and the process exits), `CallbackAck` (the component's own
acknowledgement, in any state), `Crash`, `Restart`, and the passing of time.

What the clock decides is left open: a lease lapses, a deadline passes and a
circuit closes at any moment, and a back-off is the freedom not to claim.

`InsertState` is the column default of `component_control_dispatch.state`. The
shipped default is `PENDING`, which the worker never selects; `dispatch_shipped`
shows what follows. `dispatch_workers` takes `QUEUED`,
the state the worker's own retries use: it says what the worker guarantees for
rows it does select. The theorems hold for both values.

### ComponentControl

State: the component row (`comp`; the four traffic flags are always written
together and are one `enabled`), its `principal`, whether its token is
`revoked`, the commands (`dispatch`, each with its query run and its heartbeat
challenge), and the requests in flight (`call`). A request is authorized in a
transaction of its own; the acknowledgement and the state observation then read
the policy epoch without a lock and write later (`AckReads`/`AckCommits`,
`ObserveReads`/`ObserveCommits`), while the heartbeat and the snapshot lock the
component row first and are one action. `Finalize` is
finalizeDispatchFromEvidence; `Update` is an update under the trigger
component_policy_epoch_sync, which sets the epoch to the old one plus one
whenever a watched column changed, whatever the update assigned.

An observation's `Finalize` may use the heartbeat evidence of its snapshot or
the current one: its select locks the command and the component and joins the
challenge unlocked, so what committed while it waited may or may not be seen.

A PENDING, QUEUED or CLAIMED command is `OPEN`, and the worker's steps are
those `DispatchWorker` allows for a row it selects: retry, delivery, giving up
and expiry, also after the row has moved on.

### ComponentAuditStream

State: the columns of `component_audit_stream` (`expected`, `highestReceived`,
`gap`, `integrity`, `currentHash`), its events (`stored`), the operation events
recorded before them (`operations`), what the component was told (`receipts`),
the requests in flight (`call`) and of the component what the stream reads or
changes: `revision`, `handedOff`, `admitted`. A request authorizes
(`Authorize`), records its operation event (`RecordOperation`) and comes to the
stream, where one transaction that locks stream and component decides:
`Duplicate`, `Conflict`, `Gap` or `Store`. Its receipt arrives (`Receive`) or
not (`Drop`).

A hash is the sequence of what went into it, hence free of collisions. A content
is everything the canonical payload covers, the retry count and the correlation
id included: the same event with another retry count is another content.

### ComponentOnboarding

State: one integration token (`token`), the rows of `component_onboarding_job`
that belong to it (`job`; `held` is the ciphertext of the access token, `handed`
its hand-off time), the component of each job as far as the onboarding writes it
(`component`, with its principal and the access token the job issues), and the
requests in flight (`call`). `Authenticate` is authenticateIntegrationToken, a
statement of its own; the handler comes later and is one action, because it
locks the token (`Create`) or its job (`Evaluate`, `Revise`, `Cancel`) before it
reads anything it relies on. Only the creation looks at the token again. `End`
is a handler that changes nothing.

Whether all gates pass is open at every evaluation: `ReadinessGates` says when
they do, and no property here depends on which. Manifests are values; those in
`Sources` are source descriptors, which make a component without a revision. A
revision request names a lock version its client has read. `Lifecycle` and
`RevokeAccess` are the administrator's operations on the same component, which
do not ask where the job stands. Requests for activation and the callbacks of
`ComponentControl` are left out here: they need an approved revision, hence a
handed-off job, and write neither jobs nor revisions nor access tokens.

### ReadinessGates

State: the active revision and what the job says of its access token
(`component`), the gates whose latest evidence for the active revision passes
(`standing`), the keys of the workers' evidence rows (`keys`), evaluations and
orders on their way (`request`), `component_e2e_run` (`run`, one row per
correlation id), the worker processes (`worker`), and what a worker has found of
which revision (`shown`, a record of the past).

A request for an evaluation is `Arrive` and `RecordAuth` (the authorization
probes read the revision first and record later), `ReadToken` and `RecordSecret`
(the secret probes), `Evaluate` (one transaction under the lock of the
component: it judges, rewrites every row under its own correlation id and hands
off) and `QueueRun`; it may `Fail` anywhere. A worker takes `Claim` (with the
sweep of overdue runs) or `Sweep`, `Fixture`, `Finish` (which closes the run by
its id, whatever has become of it), `RecordGate` row by row, and `Exit`: when a
key is there already the insert fails and the process ends. An idle worker and
one that is being restarted are the same state. `Answer` stands for everyone
else who records: the commands that an evaluation queues are those of
`DispatchWorker`, and their answers come at any time.

Left out: the expiry of rows other than a gate's latest (older ones expire
first); a manifest submitted again under the same revision number, whose row is
updated in place and whose new digest refuses the old evidence; executed_at is
taken for the order of the commits. That an insert waits for an evaluation is
the foreign key's share lock on the component row. `Revise` is guarded by the
absence of a hand-off, which is `HandedOffIsFinal` of `ComponentOnboarding`.

### OnboardingPipeline

State: the jobs (`job`), the head of each job's open pull request (`pull`), its
integration token (`token`), the revisions that are authenticated and not yet
written (`asked`), the registered server (`server`) and the workers (`worker`,
each with the row it read when it took the lease). `lock_version` is
only compared with the value a worker has read, so `current` says whether it
still has that value; every other write clears it (`Overtaken`). A worker goes
through `Lease`, `Read` (the heartbeat), the steps of its job's state (`Push`,
`RecordPullRequest`, `StartChecks`, `ChecksFail`, `MergePullRequest`,
`RecordMerge`, `StartBuild`, `Verified`, `Retry`, `Fails`, `Deploy`,
`RegisterServer`, `FinishDeploy`, `StartTrial`, `BeginTrial`, `RollbackTrial`,
`Reread`, `ReturnTrial`, `RunTrial`, `Activate`, `CloseJob`) and its failure
path (`ReadFailed`, `FailServer`, `FailJob`), which reads the present lock
version. It may `Crash` between any two. Beside it: the programmer (`Create`,
`Authenticate`, `Replace`, `UpdateExternal`, `Cancel`), administrators (`Release`,
`BeginRevision`, `RevokeToken`, `SetServerEnabled`, `Promote`, `Delete`), the
monitor (`Quarantine`, `Suspend`), the maintenance (`Pause`) and the token's
expiry. A revision is authenticated by one statement and written by a later
transaction that does not look at the token again; that of an MCP server asks
for the job's state, that of an external service only for the lock version
(`Revises`). What a worker that was overtaken has pushed is `Late`: no lock version
reaches the repository host.

`JobLifecycle` sees the row without owner, link and lock version (`Kinds`,
`States`, `Revisions`), the revisions under way (`asked`), the commit from the merge on (`Artifacts`) and whether
the pipeline has the server served (`Serving`). Most steps of a worker are
stutters there; those that write the row are its steps forward (`Advance`,
`Merge`), back, or its end (`GiveUp`, `Cut`). That a job does not skip a state,
merge another source, or fail with its server in service is what the lock
version is for, and what a dropped comparison breaks. A cancelled job takes
up no revision (`Ask`); one that was under way brings an external service back.

### ManagedAccess

State: the service with its active revision, its two epochs and what holds of it
(`service`), the seeded scopes (`catalog`), credentials, permissions
(`granted`), tokens and the calls at the gateway. A call is decided by four
statements: the gateway loads the service, the authorizer reads token,
credential and service (`TokenAccepted`), then the probes, then the scopes;
anything may commit between them. An epoch is a uuid in the code, drawn anew at
each change; here it grows.

### Monitoring

State: the server with its review, the active alert of each type, the deliveries
with how often the receiver has got them (`posts`), where the monitor stands
with the row it has read. The cycle is `ReadServer`, the enforcement of the
recertification, the probes, their recording, and for each due delivery lease,
post and record; it may die between any two. Administrators and the pipeline
change the server meanwhile, and the cycle goes on with its row. One branch of
probeServer is left out, the suspension of a server without monitoring profile,
manifest or enabled monitoring, under an alert of its own
(`onboarding/monitoring.ts:407-427`): transitionServerState serves no server
without them (`domain/server-state.ts:96`), registration writes all three, and
an administrator cannot take them from a served one (`http/admin-routes.ts:774`).
Only a transition that waits for the server's row while the profile is disabled
decides on the profile of before. `SuspensionAlerted` speaks of suspensions for
the review.

### Secrets

State: secrets with version and life (how often they were deleted), direct
grants, the integration token, the job, the component, its access tokens, and the
resolves. Of each audience one token is live at most: that of the onboarding,
which the job knows (`own`), and that of the deployment, which is issued to any
component that is not deregistered (`IssueRuntimeToken`); both can be rotated
and revoked, and a retirement, a deregistration or a clean-up revokes both
(`Withdrawn`). A resolve is authenticated by one or two statements, authorized,
selected, locked and answered; `LOCKED` holds the row's lock, and everything
that writes the secret waits for it. `late` marks a request that comes with a
token from before the component was retired, after that (a record of the past).

### AdminIdentity

State: accounts with the epoch in which password and second factor were set,
sessions and what their logins proved, changes of credentials under way, logins,
trusted devices. A login is `Password`, `AnswerChallenge`, `SweepSessions`,
`InsertSession`, statement by statement; whatever changes credentials draws a
new session epoch (`CutOff`), except the deployment's own account, whose secret
`Sync` replaces under the same one.

## Runs

| run | instance | shows |
|---|---|---|
| `dispatch_workers` | 3 workers, 1 command, 3 attempts, fairness | `LedgerGapless`, `DeliveredIsLast`, `SingleAcknowledger`, `ImplementsLifecycle`, `ComesToRest` |
| `dispatch_shipped` | 1 worker, 1 command, `PENDING`, fairness | `ComesToRest` fails |
| `control_together` | 2 commands, 2 requests in flight, epochs up to 4 (`EpochBound`) | `OpenConsistent`, `EpochsTellApart`, `CompletedHasEvidence`, `OpenOnlyConfirmed` |
| `audit_races` | 3 numbers, 2 contents, 2 revisions, 2 requests in flight | `ChainIntact`, `NoFalseConflict`, `GapReported`, `ImplementsLog` |
| `onboarding_token` | 2 jobs, 2 keys, a source and a final manifest, 3 requests in flight, lock versions up to 2 (`Bounded`) | `OneHandOff`, `CancelledIsUnusable`, `ActiveIsHandedOff`, `HeldUntilHandOff`, `HandedOffIsFinal` |
| `readiness` | 2 evaluations, 1 order, 1 worker that may die, 2 revisions, the gate that takes the component's token, fairness | `HandedIsShown`, `OneRun`, `RunsSettle` |
| `e2e_recorded` | 1 evaluation, 1 worker without crashes, the whole report | `EvidenceRecorded` fails |
| `pipeline` | 1 job, 2 workers, 2 sources, fairness (`InTime`) | `GivenUpNotServed`, `ArtifactOfSource`, `ImplementsJobLifecycle`, `ExpiredIsDecided` |
| `managed_calls` | 2 credentials, 2 tokens, 2 manifests with a scope each, 1 call, epochs up to 2 (`EpochBound`) | `SameRevision`, `IssuedWithScopes`, `OverlapOnly`, `NoResurrection` |
| `monitoring` | 1 server, 1 delivery followed, 2 attempts, 2 samples, 1 death, 1 intervention, fairness | `PostsCounted`, `SuspensionAlerted`, `Hysteresis`, `DeliveredIsFinal`, `ReviewEnforced`, `AlertsSettled` |
| `secrets` | 2 secrets, one granted with the token, 1 resolve, 2 versions, 1 deletion, 2 access tokens (`Apart`) | `HeldIsCurrent`, `ServedOnPresentGrant`, `OldTokensAdmitNothing` |
| `admin_logins` | 1 account and the deployment's, 2 sessions, 2 logins, epochs up to 2 (`Focused`) | `SessionProvesCredentials`, `RevocationReachesLogins` |

### Bounds

- `dispatch_workers`: three workers are what it takes for one to record a
  delivery, a second to fail and a third to be late; three attempts are the
  code's maxAttempts. One command is enough for the refinement, whose proof
  covers any number.
- `control_together`: a policy epoch of 4 starts at 1 and lets an activation,
  its answers and two outside changes happen. `EpochBound` lets two commands
  exist at once only as requests for activation or deactivation, and lets the
  epoch move once less then; a state query or a challenge is raced by two
  callbacks of its own, with no second command beside it.
- `audit_races`: three numbers are what a gap of two needs, and what it takes to
  shrink one from either end; two contents make a conflict.
- `onboarding_token`: two jobs are what a second hand-off needs; the lock
  version of a job reaches 2 with an evaluation before the one that hands off.
  Replacing a handed-off revision takes three requests authenticated before the
  hand-off, and `Bounded` keeps three in flight where there is one job.
- `readiness`: two revisions and two evaluations make a run of one revision end
  in the other; the order gives a correlation id that no evaluation has written
  under, so that evidence can be recorded at all (see below). One worker that
  dies leaves its run to its successor; two at once are in the theorems only.
  The run requires one gate, because no property tells the others apart from it.
- `pipeline`: two workers on one job are an overtaken one and its successor, two
  sources an older and a newer one. `InTime` does not follow what an overtaken
  worker has pushed beyond its merge, and not at all once there is a server; nor
  does it follow a server an administrator had served beyond its first source or with
  a revision under way.
- `managed_calls`: each epoch moves twice, before a token and after it.
- `monitoring`: one death and one intervention, wherever they fall; two attempts
  and two samples are a first and a last.
- `secrets`: `Apart` lets the secrets and their grants or the component move
  beside a resolve, not both in one behaviour: the first two properties are
  about the former, the third about the latter. Two tokens are one that ends with
  the component and one issued after, or two of different audiences.
- `admin_logins`: two logins may both be between their sweep and their insert.
  `Focused` gives sessions to one account at a time, and no update of an account
  is left open while a session changes its credentials.

The theorems are free of these bounds and constraints.

Deadlock is checked except in `onboarding_token`, `pipeline`, `readiness` and
`e2e_recorded`: there every job, request and run may be at its end, with the
bound reached and nothing left to do.

### Fairness

- Dispatch worker. The loop polls for ever and systemd restarts a process that
  failed, so a process that is up takes its steps (weak fairness of `Process`
  and `Restart`); since it may crash and restart between polls, its poll is
  strongly fair. Time passes (leases lapse, deadlines pass, circuits close).
  Nothing is assumed of components, administrators or crashes. The deadline
  alone is what brings a command to rest in the worst case.
- End-to-end worker. A deadline passes (`RunOverdue`). Fixtures have time
  limits, so one that executes finishes (`Works`); its loop polls, and
  `deploy/systemd/kcml-component-e2e-worker.service` restarts it on failure, so
  that it gets to a claim again and again however often it dies in between
  (strong fairness of `Poll`). No bound on its deaths is assumed.
- Pipeline. The maintenance (`Pause`) runs at the beginning of every tick,
  whatever becomes of the jobs. Nothing is assumed of the jobs' workers.
- Monitor. The loop goes on whatever a cycle throws (weak fairness of `Cycle`);
  a served server is due again after an hour at the latest (strong fairness of
  `ReadServer`); a delivery that stays due is taken (strong fairness of
  `LeaseDelivery`). The last is an idealization: a cycle takes twenty, the worst
  and oldest first, so more than twenty critical ones per cycle for ever would
  starve the rest. Deaths are bounded in this run.

## What the failing runs say

1. `dispatch_shipped`: enqueueControlDispatch names no state, the column default
   is PENDING, the worker selects QUEUED and CLAIMED. Commands are never sent,
   never expire. The integration tests insert or update QUEUED rows themselves.
2. `e2e_recorded`: the readiness route evaluates and queues the run under one
   correlation id; the evaluation has by then inserted a row of every gate under
   it, the table is unique in component, revision, gate and correlation id, and
   the worker inserts without ON CONFLICT after it has closed the run. The first
   insert fails, the process ends and is restarted, the run stays PASS and its
   evidence is lost. Only a run an administrator orders can be recorded.

## Further observations

Each is behaviour the models have and no run states; where a text of the
repository reads otherwise it is named.

- Six required gates (`domain/component.ts:56-61`: WORKER_SINGLE_ACTIVE,
  PERSISTENT_STORAGE_MOUNT, SECRET_ALLOWED_RUNTIME, TCP_TLS_EGRESS_ALLOWED,
  DEPENDENCY_READY, DRAIN_HANDOFF) are computed and recorded by nobody, so no
  evaluation passes as shipped. In `ReadinessGates` they are `orphan`; the pass
  run leaves it out of `Gates`, and `ComponentOnboarding` leaves passing open.
  `docs/releases/2026.07.22-compliance.1/README.md:7` counts 38 gates and a
  hand-off once they pass; the code requires 44.
- After the hand-off the job holds no token for a worker, so an administrator's
  run records REGISTERED_TO_REGISTERED_DISPATCH as failed, and
  setComponentActivation (`component.ts:2388-2403`), which does not look at
  expires_at, refuses to enable the component from then on.
- An answer to a heartbeat challenge of an older revision counts for the active
  one (`component.ts:1855`).
- An acknowledgement that read the epoch before a quarantine finalizes an
  activation after it (`component.ts:2114`, `:937`): the component is ACTIVE
  again, against `docs/runbooks/incident-response.md:34`. The same step can
  leave RETIRED. An evaluation writes lifecycle, traffic flags and principal
  without reading the lifecycle (`component.ts:1580`), with the same effect.
- A heartbeat for an older activation opens the traffic after a deactivation was
  requested, because the epoch of the challenge is not compared
  (`component.ts:1815`; `apps/admin-ui/src/component-page.tsx:74`).
- An event refused from ahead overwrites the end of the gap, also with a lower
  one (`component-audit.ts:187`; `apps/admin-ui/src/ui-helpers.ts:112`). After
  3, 2, 1 the stream says CONTIGUOUS and 2 is missing.
- The next accepted event clears a conflict that raced with it
  (`component-audit.ts:216`), and a retried one records its operation event
  again (`http/component-routes.ts:751`).
- The clean-up of expired onboardings asks for a null credential_id, which
  nothing sets, and not for the hand-off (`component.ts:1621`): a day after its
  integration token was issued a component in operation is deregistered
  (`docs/releases/2026.07.22-compliance.1/README.md:5`).
- A creation cleans up before it looks for its key (`CreateFinds`), so its
  repetition after a blocked evaluation cancels the very job it then finds.
- A deactivation's command is behind the component's epoch from the moment it
  is issued (`EpochsTellApart`), so the worker's own acknowledgement of it is
  always refused; the refusal makes failAttempt insert an attempt number that
  the delivery has used, which ends the process (`FailAttemptAborts`).
- `Restore` suspends the principal, `RequestEnable` leaves it suspended, and a
  suspended principal is refused the three callbacks an activation waits for.
- Closing a managed service keeps its permission epoch, so tokens issued before
  work again after the opening (`managed-service.ts:364`;
  `docs/runbooks/external-api-managed-service-runtime.md:30`).
- A revision of an external service that was authenticated before its job was
  cancelled, paused or its token revoked is still written if it names the lock
  version of then: the job goes from CANCELLED back to REGISTERED_DISABLED
  (`domain/external-api.ts:1204-1260`), which the transition table
  (`domain/onboarding.ts:68`) excludes.
- The pipeline's worker leases jobs of every kind (`domain/onboarding.ts:753-773`)
  and knows no manifest of an external service, so it fails the job of a
  registration that ended well (`Fails`; `onboarding/worker.ts:145`,
  `docs/runbooks/external-api-managed-service-runtime.md:13`).
- registerDisabledServer takes a quarantined server back without a decision
  (`onboarding/activation.ts:203-217`; `docs/runbooks/incident-response.md:34`).
- A worker overtaken before it pushes forces the job's branch back to its older
  source (`Late`); the artifact is then not of the source the row names.
- A failing operation event or a given-up command overwrites the operational
  state QUARANTINED, and the exempt token of a quarantined component resolves
  again (`secret-manager.ts:484-498`; `docs/runbooks/deployment.md:42`).
- A secret that was deleted and restored is served at once, when it is activated
  again, to a component whose integration token was granted it, and to one that
  has a grant for all secrets on another secret
  (`secret-manager.ts:521-541`; the deletion revokes only what hangs on the
  secret, `:336`). `apps/admin-ui/src/secrets-page.tsx:241` says that grants are
  not renewed, and the audit row says `grantsRestored: false`
  (`secret-manager.ts:391`). In the other direction, deleting the secret on
  which a grant for all hangs ends that grant for all the others.
- A resolve whose token was read before its component was retired is served
  after it. The deployment issues a token to a retired component, too
  (`repository-component-runtime-auth.ts:12-69`), which admits nothing until the
  component is enabled again.
- Two owners who demote each other in two transactions leave no owner: the
  trigger preserve_last_admin_owner sees the other's row as it was
  (`http/admin-routes.ts:1137`; `apps/admin-ui/src/ui-helpers.ts:59`).
- A creation locks the token and then its jobs, an evaluation that hands off the
  job and then the token (`component.ts:1200`): the database aborts one of them.

## Proofs

TLAPS checks the eight `_proofs` modules from the named assumptions of the
modules alone: positive or natural bounds, one of two insert states, sources are
manifests, `None` (`Nobody`) is none of the rows, the report names the workers'
gates. Each shows that an inductive invariant (`IInv`; `ControlIInv` of
`ComponentControl` and `AdminIInv` of `AdminIdentity`, which share a module with
another) holds initially and is preserved by every action, one lemma per group
of actions, and then that it implies the properties. Type correctness is a
theorem of every module, and every safety and action property that a run checks
is one, as are the three refinements.

DispatchWorker. The safety properties are not inductive alone. `IInv` adds
`WorkersBehind` (a worker in the middle of an attempt is at most one ahead of
the row, not ahead at all once a delivery is recorded, and acknowledges only
what it recorded), `Fresh` (a row no worker has seen has no attempts) and
`RetriesBounded` (a claimable row has an attempt left, the theorem
`BoundedRetries`). The unique key is what keeps the ledger gapless: a worker
either records the next number or aborts. `Refinement` maps the row's states to
phases and uses `IInv` to know that a recorded attempt is the next one and that
the count was below the maximum.

ComponentControl. `ControlIInv` adds `Coherent` (what a request in flight holds
on to). `EpochsTellApart` rests on the epoch never decreasing and on every request
moving it beyond the one it is issued under; `OpenConsistent` on every writer
that leaves traffic open leaving the other columns alone, except finalization,
which writes them all; `CompletedHasEvidence` on evidence never being taken
back. `OpenOnlyConfirmed` is proved as an action property from `ControlIInv`.

ComponentAuditStream. `IInv` adds `CallsRecorded`, `AcceptedIsStored` (what a
request in flight relies on) and `OperationBehindEvent` (the theorem
`OperationsFirst`: every stored event has its operation event). `NoFalseConflict`
follows from `ChainIntact`: the stored hash is the hash of the stored content
over the stored revision and predecessor, so a different hash over the same two
means a different content, and `OperationBehindEvent` says that both were sent.
`Refinement` maps the stored contents below the expected number to the log.

ComponentOnboarding. `IInv` adds `AllSound` (per job: what its state, its token
and its component say about each other), `OneLive` (at most one job is not
cancelled) and `Behind` (a revision in flight names no later lock version than
the job's, and an earlier one once the job has handed off). `OneHandOff` rests
on `OneLive`: a creation adds a job only after it has cancelled what may be
retried and found nothing else. `HandedOffIsFinal` is proved as an action
property: the hand-off raises the lock version, so a revision that would be
current was read after it, when the token admits no further request.

ReadinessGates. `HandedIsShown` is not inductive, since nothing in it says where
the verdict of an evaluation comes from. `IInv` adds `StandingIsShown` (standing
evidence of a worker's gate was found for the active revision), `ReportIsShown`
(so was what a worker is still reporting, for the revision of its run) and
`QueuedLast` (a request queues its run last, hence at most one). A revision
clears `standing`, and a report for another revision does not enter it. The
theorems cover any number of workers, gates and revisions.

OnboardingPipeline. A worker acts on the row it has read, and no property says
what it has read. `IInv` does, for a worker whose lock version is the job's: the
row it holds is the job's (`RowAgrees`), and where it has forgotten the row, the
job still stands where it stood (`StageAgrees`: a merge is recorded while the
job waits for its checks, a registration while it deploys). `HeadOfSource` and
`BranchOfSource` carry the source from the push over the branch to the merge;
both leave room for `Late`. `FailedIsDown` is what makes `GivenUpNotServed`
hold: a worker about to give a job up has taken its server out of service, and
if a trial could begin meanwhile, into a state no trial begins from. A step
either increments the lock version, after which nobody relies on anything
(`OvertakingStep`), or leaves the job alone (`QuietStep`); every action is shown
to be one of the two. `Refinement` then needs that an EXTERNAL_API's row is
never in a state of the way an MCP goes, and that a worker gives up only what
was not given up before (`NotYetGivenUp`); `CancelledStays` is read off
`JobLifecycle`.

Monitoring. The monitor works with the row of the beginning of its cycle, while
administrators move the server; what of that row can be relied on is in `IInv`.
A server is found UNHEALTHY by a cycle alone, so the row says so, too
(`RowKnowsUnhealthy`); it is suspended by a cycle alone, so one that was read in
service is not suspended before the cycle has come to its review
(`ReviewAhead`). `LeaseHolds` says that a delivery in the monitor's hands is not
delivered yet, and that its attempt was counted before it is posted: a death in
between leaves an attempt without a post, never a post without an attempt, which
is `PostsCounted`. `HysteresisHolds` and `DeliveredStays` are proved as action
properties from `IInv`.

ManagedAccess. `IInv` (in the proofs module) adds `Registered`, `Behind` (no
token holds a later epoch than the service, and its credential exists) and
`InFlight` (what a call holds on to: if its token is of the active revision, so
is the manifest it has loaded, which is why `SameRevision` survives the
authorizer's statement). `NoResurrection` is proved as an action property: what
an invalidated token lacks it lacks for good, because the epochs only grow past
those it holds and no credential comes back.

Secrets. `HeldIsCurrent` is inductive because whatever writes a secret waits for
the lock. `ServedOnPresentGrant`, an action property, follows from
`GrantsOfThisLife` (a direct grant was given in the present life of the secret it
hangs on), because grants are asked for in the step that answers.
`OldTokensAdmitNothing` needs `EndedAreRevoked` (the live tokens have numbers
beyond those issued when the component ended), `LateIsEnded` (a late request
comes with one of the latter) and `Named` (a request on its way names a secret).

AdminIdentity. Whatever proved itself under an epoch that is still the
account's agrees with the account: `AdminIInv` says so of sessions, logins, trusted
devices and swept sessions, and `ChangesAreCurrent` says that a session that is
changing credentials is under the present epoch as long as it is not revoked.

Only model-checked: liveness (`ComesToRest`, `RunsSettle`, `ExpiredIsDecided`,
`ReviewEnforced`, `AlertsSettled`), whose arguments go through fairness and
ENABLED. `CancelledIsFinal` is proved and stated by no run: it follows from
`ImplementsJobLifecycle`, which one checks.

## Plan

What is left, in this order:

1. `ComponentAuth` as a decision between two components, with permissions and
   audiences; composition with `ComponentControl`.
2. Composition of `DispatchWorker` with `ComponentControl`, replacing the
   latter's abstract worker steps, and of `ComponentControl` with
   `ComponentAuditStream` (an activation against a gap reported meanwhile).

## Not modelled

- MCP gateway: proxying and schema checks. The idempotency of invocations
  (`domain/invocation.ts`), `validateBearer` and `BoundedValidatorCache` are
  called by nothing that ships; replaceKajaPermissions concerns legacy servers.
- Platform worker access: one token, rotated and compared under its row.
- Egress: grants are rows of their own; the proxying is I/O.
- Audit chain and archive: a trigger chains each row under the lock of the one
  `audit_head` row, the archiver writes leased rows under their lease id.
- Operational configuration, rate limiting, uploads, shared types, user
  interface, deployment scripts, generated catalogs: I/O, data checks or single
  statements, without interleavings that a property would be about.
- Of the modelled components: audit rows, manifest validation, schema checks,
  cryptography, wording; of secrets the idempotent replay and the reveal of a
  value to an administrator (consumeRevealGrant,
  `domain/secret-manager.ts:676-686`, whose statement uses a reserved word as an
  alias); of administrators the throttle, recovery codes and user agents; of
  the pipeline egress and the back-off; of the monitor the warnings before a
  review's end and the service level objectives; of `ComponentControl` the
  commands marked probeOnly, whose answers are in `ReadinessGates`.
