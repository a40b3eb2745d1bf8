------------------------- MODULE OnboardingPipeline -------------------------
(***************************************************************************)
(* The onboarding pipeline of MCP servers: jobs (domain/onboarding.ts),    *)
(* the servers they register (domain/server-state.ts), and the workers     *)
(* that lease a job and carry it one step further (onboarding/worker.ts,   *)
(* onboarding/activation.ts).  A registration of an EXTERNAL_API is a row  *)
(* of the same table.                                                      *)
(*                                                                         *)
(* A worker works on the row it read when it took its lease.  A lease      *)
(* lasts a minute and deploying alone may take five, so it may lapse at    *)
(* any time, another worker takes the job, and both go on.  lock_version   *)
(* is only ever compared with the value a worker has read: `current` says  *)
(* whether it still has that value.  The passing of next_run_at and the    *)
(* egress capabilities are left out.                                       *)
(***************************************************************************)
EXTENDS Integers

CONSTANTS
  Jobs,       \* rows of onboarding_job, each with its integration token
  Workers,    \* processes of the onboarding worker
  MaxSource,  \* bound: source revisions of one job
  None        \* no worker, no job

ASSUME BoundAssumption == MaxSource \in Nat \ {0}

VARIABLES
  job,        \* the jobs
  pull,       \* the source at the head of each job's open pull request, 0: none
  token,      \* state of the integration token of each job
  server,     \* the mcp_server row registered for each job
  worker,     \* where each worker stands and what it has read
  asked       \* the revisions under way: authenticated, and not written yet

vars == <<job, pull, token, server, worker, asked>>

JobState ==
  {"NONE", "SOURCE_UPLOADED", "PR_CREATED", "CI_RUNNING", "AWAITING_REVISION",
   "MERGED", "ARTIFACT_BUILDING", "DEPLOYING", "REGISTERED_DISABLED",
   "TRIAL_TESTING", "ACTIVE", "FAILED", "QUARANTINED", "CANCELLED"}
ServerState ==
  {"NONE", "REGISTERED_DISABLED", "TRIAL", "ACTIVE", "TEST_FAILED",
   "SUSPENDED", "QUARANTINED", "RETIRED"}

GivenUp == {"FAILED", "QUARANTINED", "CANCELLED"}
Served == {"TRIAL", "ACTIVE"}
Sources == 0..MaxSource

\* createPullRequest forces the branch of the job to what the worker has read,
\* and no lock version keeps a worker that was overtaken from it.
Late == -1
Heads == {Late} \cup Sources

\* TRANSITIONS of server-state.ts, for the states servers of this pipeline have
Follows ==
  [from \in ServerState |->
     CASE from = "TEST_FAILED" -> {"REGISTERED_DISABLED", "QUARANTINED"}
       [] from = "REGISTERED_DISABLED" ->
            {"TRIAL", "TEST_FAILED", "SUSPENDED", "QUARANTINED", "RETIRED"}
       [] from = "TRIAL" ->
            {"ACTIVE", "REGISTERED_DISABLED", "TEST_FAILED", "SUSPENDED", "QUARANTINED"}
       [] from = "ACTIVE" -> {"REGISTERED_DISABLED", "SUSPENDED", "QUARANTINED", "RETIRED"}
       [] from = "SUSPENDED" -> {"REGISTERED_DISABLED", "QUARANTINED", "RETIRED"}
       [] from = "QUARANTINED" -> {"REGISTERED_DISABLED", "RETIRED"}
       [] OTHER -> {}]

Job ==
  [kind: {"MCP", "EXTERNAL"}, state: JobState, source: Sources, commit: Heads,
   linked: BOOLEAN, owner: Workers \cup {None}]
\* commit: the source behind source_commit; linked: server_id is set.

\* by: who had the server served last
Server == [state: ServerState, by: {"NOBODY", "PIPELINE", "ADMIN"}]

\* DONE: process has returned; ENDED: the error it has thrown is dealt with
Stage ==
  {"IDLE", "LEASED", "WORK", "PUSHED", "MERGED", "DEPLOYED", "REGISTERED", "TRIAL", "ROLLBACK", "REREAD",
   "RETURN", "BLOCK", "TRIED", "ACTIVATED", "CLOSE", "DONE",
   "FAILING", "FAIL_SERVER", "FAIL_JOB", "ENDED"}

\* row: what it has read of the job, beside its source, which is the job's as long
\* as the worker is current; head: what it has merged
Worker ==
  [at: Stage, job: Jobs \cup {None}, row: [state: JobState, linked: BOOLEAN],
   head: Heads, current: BOOLEAN, error: {"NONE", "PLAIN", "SECURITY"}]

NoRow == [state |-> "NONE", linked |-> FALSE]
Idle == [at |-> "IDLE", job |-> None, row |-> NoRow, head |-> 0, current |-> FALSE, error |-> "NONE"]

TypeOK ==
  /\ job \in [Jobs -> Job]
  /\ pull \in [Jobs -> Heads]
  /\ token \in [Jobs -> {"LIVE", "REVOKED", "EXPIRED"}]
  /\ server \in [Jobs -> Server]
  /\ worker \in [Workers -> Worker]
  /\ asked \in [Jobs -> Sources]

Init ==
  /\ job = [j \in Jobs |-> [kind |-> "MCP", state |-> "NONE", source |-> 0, commit |-> 0,
                            linked |-> FALSE, owner |-> None]]
  /\ pull = [j \in Jobs |-> 0]
  /\ token = [j \in Jobs |-> "LIVE"]
  /\ server = [j \in Jobs |-> [state |-> "NONE", by |-> "NOBODY"]]
  /\ worker = [w \in Workers |-> Idle]
  /\ asked = [j \in Jobs |-> 0]

-----------------------------------------------------------------------------
(* Helpers *)

\* A write that increments lock_version: what workers have read is outdated.
Overtaken(j) ==
  [w \in Workers |-> IF worker[w].job = j THEN [worker[w] EXCEPT !.current = FALSE]
                                         ELSE worker[w]]

\* disableOnboardingServer, of a server the job is linked to
Disabled(j) ==
  IF job[j].linked /\ server[j].state \in {"TRIAL", "ACTIVE", "TEST_FAILED"}
    THEN [server EXCEPT ![j].state = "REGISTERED_DISABLED"] ELSE server

\* of a token that has expired nobody asks whether it was revoked
Revoked(t) == IF t = "LIVE" THEN "REVOKED" ELSE t

\* A worker that has no further use for what it has read, but for the lock version
Goes(w, at) == [worker EXCEPT ![w].at = at, ![w].row = NoRow]

\* process has returned, fail or blockForRetry has
Returned(w, at) == [Idle EXCEPT !.at = at, !.job = worker[w].job]

\* canUploadRevision and the state check of replaceOnboardingSource
Open == {"AWAITING_REVISION", "FAILED"}

-----------------------------------------------------------------------------
(* The programmer: domain/onboarding.ts and domain/external-api.ts *)

\* createOnboardingJob, createExternalApiManagedService: each reads the token
\* again, in the transaction that writes the job
Create(j, kind) ==
  /\ job[j].state = "NONE" /\ token[j] = "LIVE"
  /\ job' = [job EXCEPT ![j].kind = kind, ![j].source = 1,
       ![j].state = IF kind = "MCP" THEN "SOURCE_UPLOADED" ELSE "REGISTERED_DISABLED"]
  /\ UNCHANGED <<pull, token, server, worker, asked>>

\* authenticateIntegrationToken, before a revision.  No later statement of it
\* looks at the token.  One that is refused then is as one that never arrives.
Authenticate(j) ==
  /\ job[j].state # "NONE" /\ token[j] = "LIVE"
  /\ job[j].source + asked[j] < MaxSource
  /\ asked' = [asked EXCEPT ![j] = @ + 1]
  /\ UNCHANGED <<pull, job, token, server, worker>>

\* A revision that is under way, with If-Match naming the lock version of now,
\* which the programmer may have seen or guessed
Revises(j, to) ==
  /\ asked[j] # 0 /\ job[j].source < MaxSource
  /\ asked' = [asked EXCEPT ![j] = @ - 1]
  /\ job' = [job EXCEPT ![j].state = to, ![j].source = @ + 1]
  /\ worker' = Overtaken(j)
  /\ UNCHANGED <<pull, token, server>>

\* replaceOnboardingSource; the evidence of the artifact stays in the row
Replace(j) ==
  /\ job[j].kind = "MCP" /\ job[j].state \in Open
  /\ Revises(j, "SOURCE_UPLOADED")

\* updateExternalApiManagedService, which asks for no state of the job
UpdateExternal(j) ==
  /\ job[j].kind = "EXTERNAL" /\ job[j].state # "NONE"
  /\ Revises(j, "REGISTERED_DISABLED")

\* cancelOnboardingJob, of the programmer or an administrator
CancelledToken_kept(t) == t   \* mutant
CancelledToken(t) == Revoked(t)
Cancel(j) ==
  /\ job[j].state \notin {"NONE", "ACTIVE", "QUARANTINED", "CANCELLED"}
  /\ job' = [job EXCEPT ![j].state = "CANCELLED", ![j].owner = None]
  /\ token' = [token EXCEPT ![j] = CancelledToken(@)]
  /\ server' = Disabled(j)
  /\ worker' = Overtaken(j)
  /\ UNCHANGED <<pull, asked>>

-----------------------------------------------------------------------------
(* Administrators *)

\* releaseQuarantinedOnboardingJob: the revision it approves needs a token, and
\* the job's is revoked
Release(j) ==
  /\ job[j].state = "QUARANTINED"
  /\ job' = [job EXCEPT ![j].state = "AWAITING_REVISION"]
  /\ token' = [token EXCEPT ![j] = Revoked(@)]
  /\ worker' = Overtaken(j)
  /\ UNCHANGED <<pull, server, asked>>

\* beginActiveServerRevision: the server stays as it is
BeginRevision(j) ==
  /\ job[j].state = "ACTIVE" /\ server[j].state = "ACTIVE" /\ job[j].linked
  /\ job' = [job EXCEPT ![j].state = "AWAITING_REVISION"]
  /\ worker' = Overtaken(j)
  /\ UNCHANGED <<pull, token, server, asked>>

\* revokeIntegrationToken
RevokeToken(j) ==
  /\ token[j] = "LIVE"
  /\ token' = [token EXCEPT ![j] = "REVOKED"]
  /\ UNCHANGED <<pull, job, server, worker, asked>>

\* transitionServerState for an administrator, who has no recovery to show
AdminSets(j, to) ==
  /\ to \in Follows[server[j].state]
  /\ server[j].state \in {"SUSPENDED", "QUARANTINED"} => to # "REGISTERED_DISABLED"
  /\ server' = [server EXCEPT ![j].state = to, ![j].by = "ADMIN"]
  /\ UNCHANGED <<pull, job, token, worker, asked>>

SetServerEnabled(j, enabled) ==
  /\ (server[j].state \in Served) # enabled
  /\ AdminSets(j, IF enabled THEN "TRIAL" ELSE "REGISTERED_DISABLED")

\* the end of runServerTest, for a server it has found in TRIAL
Promote(j) == AdminSets(j, "ACTIVE")

\* deleteRegisteredServer
Delete(j) ==
  /\ server[j].state # "NONE"
  /\ server' = [server EXCEPT ![j].state = "RETIRED"]
  /\ token' = [token EXCEPT ![j] = Revoked(@)]
  /\ job' = [job EXCEPT ![j].state = IF @ \in {"ACTIVE", "REGISTERED_DISABLED", "TRIAL_TESTING"}
                                         THEN "CANCELLED" ELSE @,
                        ![j].owner = None]
  /\ worker' = Overtaken(j)
  /\ UNCHANGED <<pull, asked>>

-----------------------------------------------------------------------------
(* Monitoring of the server: onboarding/monitoring.ts *)

\* probeServer has seen drift.  It judges the rows in TRIAL and ACTIVE of the
\* beginning of its cycle: the server may have moved on.
Quarantine(j) ==
  /\ server[j].by # "NOBODY"
  /\ "QUARANTINED" \in Follows[server[j].state]
  /\ server' = [server EXCEPT ![j].state = "QUARANTINED"]
  /\ job' = [job EXCEPT ![j].state = IF job[j].linked /\ @ = "ACTIVE" THEN "QUARANTINED" ELSE @]
  /\ worker' = IF job'[j] # job[j] THEN Overtaken(j) ELSE worker
  /\ UNCHANGED <<pull, token, asked>>

\* enforceRecertification
Suspend(j) ==
  /\ server[j].by # "NOBODY"
  /\ "SUSPENDED" \in Follows[server[j].state]
  /\ server' = [server EXCEPT ![j].state = "SUSPENDED"]
  /\ UNCHANGED <<pull, job, token, worker, asked>>

-----------------------------------------------------------------------------
(* The worker: leases and maintenance *)

\* leaseNextJob; a lease that another worker holds has lapsed
Lease(w, j) ==
  /\ worker[w].at = "IDLE"
  /\ job[j].state \notin GivenUp \cup {"NONE", "ACTIVE", "AWAITING_REVISION"}
  /\ token[j] = "LIVE"
  /\ job' = [job EXCEPT ![j].owner = w]
  /\ worker' = [worker EXCEPT ![w] = [Idle EXCEPT !.at = "LEASED", !.job = j]]
  /\ UNCHANGED <<pull, token, server, asked>>

RowOf(j) == [state |-> job[j].state, linked |-> job[j].linked]

HeartbeatOkay(w) == job[worker[w].job].owner = w /\ token[worker[w].job] = "LIVE"

\* internalJob and the first heartbeat
Read(w) ==
  /\ worker[w].at = "LEASED"
  /\ worker' = [worker EXCEPT ![w] =
       IF HeartbeatOkay(w)
         THEN [@ EXCEPT !.at = "WORK", !.row = RowOf(worker[w].job), !.current = TRUE]
         ELSE [@ EXCEPT !.at = "FAILING", !.error = "PLAIN"]]
  /\ UNCHANGED <<pull, job, token, server, asked>>

\* The end of tick: releaseLease
End(w) ==
  /\ worker[w].at \in {"DONE", "ENDED"}
  /\ job' = [job EXCEPT ![worker[w].job].owner = IF @ = w THEN None ELSE @]
  /\ worker' = [worker EXCEPT ![w] = Idle]
  /\ UNCHANGED <<pull, token, server, asked>>

Crash(w) ==
  /\ worker[w].at # "IDLE"
  /\ worker' = [worker EXCEPT ![w] = Idle]
  /\ UNCHANGED <<pull, job, token, server, asked>>

\* The jobs pauseExpiredOnboardingJobs takes
Expirable_waiting(j) == job[j].state \notin GivenUp \cup {"NONE", "ACTIVE", "AWAITING_REVISION"}   \* mutant
Expirable(j) == job[j].state \notin GivenUp \cup {"NONE", "ACTIVE"}

\* pauseExpiredOnboardingJobs looks at expires_at alone
Pause(j) ==
  /\ token[j] = "EXPIRED" /\ Expirable(j)
  /\ job' = [job EXCEPT ![j].state = "CANCELLED", ![j].owner = None]
  /\ server' = Disabled(j)
  /\ worker' = Overtaken(j)
  /\ UNCHANGED <<pull, token, asked>>

-----------------------------------------------------------------------------
(* The worker: process *)

\* transitionJob by a worker that has read the row: the lock version of then
\* must be that of now
LockMatches_any(w) == TRUE   \* mutant
LockMatches(w) == worker[w].current

Transition(w, to) ==
  LET j == worker[w].job IN
  /\ LockMatches(w)
  /\ job' = [job EXCEPT ![j].state = to,
       ![j].owner = IF to \in GivenUp \cup {"REGISTERED_DISABLED", "ACTIVE"} THEN None ELSE @]

\* process has thrown
Throws(w, error) ==
  /\ worker' = [worker EXCEPT ![w] = [Returned(w, "FAILING") EXCEPT !.error = error]]
  /\ UNCHANGED <<pull, job, token, server, asked>>

Refused(w) == ~LockMatches(w) /\ Throws(w, "PLAIN")

\* process, on a row of this state that is an MCP's
Works(w, state) ==
  /\ worker[w].at = "WORK" /\ worker[w].row.state = state
  /\ job[worker[w].job].kind = "MCP"

\* the end of a step of process: the transition, or its refusal
Steps(w, to, commit) ==
  LET j == worker[w].job IN
  /\ \/ /\ LockMatches(w)
        /\ job' = [job EXCEPT ![j].state = to, ![j].commit = commit]
        /\ worker' = [Overtaken(j) EXCEPT ![w] = Returned(w, "DONE")]
     \/ Refused(w)
  /\ UNCHANGED <<pull, token, server, asked>>

\* createPullRequest: the branch is forced, and a pull request opened if none is
Push(w) ==
  LET j == worker[w].job IN
  /\ Works(w, "SOURCE_UPLOADED")
  /\ pull' = [pull EXCEPT ![j] = IF LockMatches(w) THEN job[j].source ELSE Late]
  /\ worker' = [worker EXCEPT ![w].at = "PUSHED"]
  /\ UNCHANGED <<job, token, server, asked>>

RecordPullRequest(w) ==
  /\ worker[w].at = "PUSHED"
  /\ Steps(w, "PR_CREATED", job[worker[w].job].source)

StartChecks(w) ==
  /\ Works(w, "PR_CREATED")
  /\ Steps(w, "CI_RUNNING", job[worker[w].job].commit)

\* checkPullRequest: a check has failed, or the pull request is not open any more
ChecksFail(w) ==
  /\ Works(w, "CI_RUNNING")
  /\ Steps(w, "AWAITING_REVISION", job[worker[w].job].commit)

\* checkPullRequest and mergePullRequest, which merges the head that was checked
\* if it still is the head
MergePullRequest(w) ==
  LET j == worker[w].job IN
  /\ Works(w, "CI_RUNNING")
  /\ pull[j] # 0
  /\ pull' = [pull EXCEPT ![j] = 0]
  /\ worker' = [worker EXCEPT ![w].at = "MERGED", ![w].row = NoRow, ![w].head = pull[j]]
  /\ UNCHANGED <<job, token, server, asked>>

RecordMerge(w) ==
  /\ worker[w].at = "MERGED"
  /\ Steps(w, "MERGED", worker[w].head)

StartBuild(w) ==
  /\ Works(w, "MERGED")
  /\ Steps(w, "ARTIFACT_BUILDING", job[worker[w].job].commit)

\* checkTrustedBuild and verifyArtifact have found the artifact of the commit
Verified(w) ==
  /\ Works(w, "ARTIFACT_BUILDING")
  /\ Steps(w, "DEPLOYING", job[worker[w].job].commit)

\* Nothing to do yet, or an error that is worth a retry: blockForRetry
Retry(w) ==
  /\ worker[w].at \in {"WORK", "PUSHED", "MERGED", "BLOCK"}
  /\ worker' = [Overtaken(worker[w].job) EXCEPT ![w] = Returned(w, "DONE")]
  /\ UNCHANGED <<pull, job, token, server, asked>>

\* A check fails, some for a reason of QUARANTINE_ERRORS; the manifest of an
\* EXTERNAL_API is none that validateStoredOnboardingManifest knows.  A lease
\* that is lost stays lost: the timer may have seen it by the time process returns.
Fails(w) ==
  /\ \/ /\ worker[w].at \in {"WORK", "PUSHED", "MERGED", "DEPLOYED"}
        /\ job[worker[w].job].kind = "MCP" /\ worker[w].row.state # "REGISTERED_DISABLED"
        /\ \E error \in {"PLAIN", "SECURITY"} : Throws(w, error)
     \/ /\ worker[w].at = "WORK" /\ job[worker[w].job].kind = "EXTERNAL"
        /\ Throws(w, "PLAIN")
     \/ /\ worker[w].at = "DONE" /\ ~HeartbeatOkay(w)
        /\ Throws(w, "PLAIN")

-----------------------------------------------------------------------------
(* DEPLOYING *)

\* oci.deploy replaces the container that runs under the job's code, which is
\* left out; runtime_stopped_at is, too
Deploy(w) ==
  /\ worker[w].at = "WORK" /\ worker[w].row.state = "DEPLOYING"
  /\ worker' = Goes(w, "DEPLOYED")
  /\ UNCHANGED <<pull, job, token, server, asked>>

\* registerDisabledServer: it asks for the job's state and its token, and not
\* for the lock version
RegisterServer(w) ==
  LET j == worker[w].job IN
  /\ worker[w].at = "DEPLOYED"
  /\ IF job[j].state = "DEPLOYING" /\ token[j] = "LIVE" /\ server[j].state # "RETIRED"
       THEN /\ server' = [server EXCEPT ![j].state = "REGISTERED_DISABLED"]
            /\ worker' = Goes(w, "REGISTERED")
            /\ UNCHANGED <<pull, job, token, asked>>
       ELSE Throws(w, "PLAIN")

FinishDeploy(w) ==
  LET j == worker[w].job IN
  /\ worker[w].at = "REGISTERED"
  /\ \/ /\ LockMatches(w)
        /\ job' = [job EXCEPT ![j].state = "REGISTERED_DISABLED", ![j].linked = TRUE,
                              ![j].owner = None]
        /\ worker' = [Overtaken(j) EXCEPT ![w] = Returned(w, "DONE")]
     \/ Refused(w)
  /\ UNCHANGED <<pull, token, server, asked>>

-----------------------------------------------------------------------------
(* REGISTERED_DISABLED: the trial begins *)

\* An error here, a lost lock version too, is caught by process itself.
StartTrial(w) ==
  LET j == worker[w].job IN
  /\ worker[w].at = "WORK" /\ worker[w].row.state = "REGISTERED_DISABLED"
  /\ job[j].kind = "MCP"
  /\ IF LockMatches(w)
       THEN /\ Transition(w, "TRIAL_TESTING")
            /\ worker' = [Overtaken(j) EXCEPT ![w] = Returned(w, "TRIAL")]
       ELSE /\ worker' = Goes(w, "ROLLBACK")
            /\ UNCHANGED job
  /\ UNCHANGED <<pull, token, server, asked>>

\* setAuthorizedServerState asks that the job is in TRIAL_TESTING
Authorized_linked(j) == job[j].linked   \* mutant
Authorized(j) == token[j] = "LIVE" /\ job[j].linked /\ job[j].state = "TRIAL_TESTING"

\* beginTrial and the preflight after it
BeginTrial(w) ==
  LET j == worker[w].job IN
  /\ worker[w].at = "TRIAL"
  /\ IF Authorized(j) /\ "TRIAL" \in Follows[server[j].state]
       THEN /\ server' = [server EXCEPT ![j].state = "TRIAL", ![j].by = "PIPELINE"]
            /\ \/ worker' = [worker EXCEPT ![w] = Returned(w, "DONE")]
               \/ worker' = Goes(w, "ROLLBACK")
       ELSE /\ worker' = Goes(w, "ROLLBACK")
            /\ UNCHANGED server
  /\ UNCHANGED <<pull, job, token, asked>>

RollbackTrial(w) ==
  LET j == worker[w].job IN
  /\ worker[w].at = "ROLLBACK"
  /\ server' = IF server[j].state = "TRIAL"
                 THEN [server EXCEPT ![j].state = "REGISTERED_DISABLED"] ELSE server
  /\ worker' = Goes(w, "REREAD")
  /\ UNCHANGED <<pull, job, token, asked>>

\* internalJob again, by whoever needs the lock version of now: after a rollback
\* and before the job is closed
Reread(w) ==
  LET j == worker[w].job IN
  /\ \/ /\ worker[w].at = "REREAD"
        /\ worker' = [worker EXCEPT ![w].current = TRUE,
             ![w].at = IF job[j].state = "TRIAL_TESTING" THEN "RETURN" ELSE "BLOCK"]
     \/ /\ worker[w].at = "ACTIVATED"
        /\ worker' = [worker EXCEPT ![w].row = RowOf(j), ![w].current = TRUE, ![w].at = "CLOSE"]
  /\ UNCHANGED <<pull, job, token, server, asked>>

ReturnTrial(w) ==
  /\ worker[w].at = "RETURN"
  /\ \/ /\ Transition(w, "REGISTERED_DISABLED")
        /\ worker' = [Overtaken(worker[w].job) EXCEPT ![w] = Returned(w, "BLOCK")]
     \/ Refused(w)
  /\ UNCHANGED <<pull, token, server, asked>>

-----------------------------------------------------------------------------
(* TRIAL_TESTING: the trial and the activation *)

\* The calls of runTrialAndActivate through the public gateway have passed
RunTrial(w) ==
  /\ worker[w].at = "WORK" /\ worker[w].row.state = "TRIAL_TESTING"
  /\ server[worker[w].job].state \in Served
  /\ worker' = Goes(w, "TRIED")
  /\ UNCHANGED <<pull, job, token, server, asked>>

Activate(w) ==
  LET j == worker[w].job IN
  /\ worker[w].at = "TRIED"
  /\ IF Authorized(j) /\ "ACTIVE" \in Follows[server[j].state]
       THEN /\ server' = [server EXCEPT ![j].state = "ACTIVE", ![j].by = "PIPELINE"]
            /\ worker' = Goes(w, "ACTIVATED")
            /\ UNCHANGED <<pull, job, token, asked>>
       ELSE Throws(w, "PLAIN")

CloseJob(w) ==
  /\ worker[w].at = "CLOSE"
  /\ \/ /\ worker[w].row.state = "TRIAL_TESTING"
        /\ Transition(w, "ACTIVE")
        /\ worker' = [Overtaken(worker[w].job) EXCEPT ![w] = Returned(w, "DONE")]
     \/ /\ worker[w].row.state # "TRIAL_TESTING" \/ ~LockMatches(w)
        /\ Throws(w, "PLAIN")
  /\ UNCHANGED <<pull, token, server, asked>>

-----------------------------------------------------------------------------
(* The worker: fail.  An error in it ends the process, which is restarted. *)

ReadFailed(w) ==
  LET j == worker[w].job IN
  /\ worker[w].at = "FAILING"
  /\ IF job[j].state \in {"ACTIVE", "FAILED", "QUARANTINED"}
       THEN worker' = [worker EXCEPT ![w] = Returned(w, "ENDED")]
       ELSE worker' = [worker EXCEPT ![w].at = "FAIL_SERVER", ![w].current = TRUE,
                                     ![w].row = RowOf(j)]
  /\ UNCHANGED <<pull, job, token, server, asked>>

\* disableAfterFailure, and stopRuntime, whose failure is swallowed
FailServer(w) ==
  LET j    == worker[w].job
      to   == IF worker[w].error = "SECURITY" THEN "QUARANTINED" ELSE "TEST_FAILED"
      next == [worker EXCEPT ![w] = IF worker[w].row.state = "CANCELLED"
                 THEN Returned(w, "ENDED") ELSE [@ EXCEPT !.at = "FAIL_JOB"]]
  IN
  /\ worker[w].at = "FAIL_SERVER"
  /\ IF ~worker[w].row.linked
       THEN worker' = next /\ UNCHANGED server
     ELSE IF to \in Follows[server[j].state]
       THEN server' = [server EXCEPT ![j].state = to] /\ worker' = next
     ELSE worker' = [worker EXCEPT ![w] = Returned(w, "ENDED")] /\ UNCHANGED server
  /\ UNCHANGED <<pull, job, token, asked>>

FailJob(w) ==
  /\ worker[w].at = "FAIL_JOB"
  /\ \/ /\ Transition(w, IF worker[w].error = "SECURITY" THEN "QUARANTINED" ELSE "FAILED")
        /\ worker' = [Overtaken(worker[w].job) EXCEPT ![w] = Returned(w, "ENDED")]
     \/ /\ ~LockMatches(w)
        /\ worker' = [worker EXCEPT ![w] = Returned(w, "ENDED")]
        /\ UNCHANGED job
  /\ UNCHANGED <<pull, token, server, asked>>

-----------------------------------------------------------------------------

TokenExpires(j) ==
  /\ token[j] # "EXPIRED"
  /\ token' = [token EXCEPT ![j] = "EXPIRED"]
  /\ UNCHANGED <<pull, job, server, worker, asked>>

Programmer ==
  \E j \in Jobs :
    \/ \E kind \in {"MCP", "EXTERNAL"} : Create(j, kind)
    \/ Authenticate(j) \/ Replace(j) \/ UpdateExternal(j) \/ Cancel(j)

JobAdministrator ==
  \E j \in Jobs : Release(j) \/ BeginRevision(j) \/ RevokeToken(j)

ServerAdministrator ==
  \E j \in Jobs :
    \/ \E enabled \in BOOLEAN : SetServerEnabled(j, enabled)
    \/ Promote(j) \/ Delete(j)

Monitor == \E j \in Jobs : Quarantine(j) \/ Suspend(j)

Maintenance == \E j \in Jobs : Pause(j)

Work(w) ==
  \/ \E j \in Jobs : Lease(w, j)
  \/ Read(w) \/ End(w) \/ Crash(w)
  \/ Push(w) \/ RecordPullRequest(w) \/ StartChecks(w) \/ ChecksFail(w)
  \/ MergePullRequest(w) \/ RecordMerge(w) \/ StartBuild(w) \/ Verified(w)
  \/ Retry(w) \/ Fails(w)
  \/ Deploy(w) \/ RegisterServer(w) \/ FinishDeploy(w)
  \/ StartTrial(w) \/ BeginTrial(w) \/ RollbackTrial(w) \/ Reread(w) \/ ReturnTrial(w)
  \/ RunTrial(w) \/ Activate(w) \/ CloseJob(w)
  \/ ReadFailed(w) \/ FailServer(w) \/ FailJob(w)

Next ==
  \/ Programmer \/ JobAdministrator \/ ServerAdministrator \/ Monitor \/ Maintenance
  \/ \E w \in Workers : Work(w)
  \/ \E j \in Jobs : TokenExpires(j)

\* A worker's tick begins with the maintenance, and a worker that dies is
\* restarted: maintenance goes on whatever becomes of the jobs.
Spec ==
  /\ Init /\ [][Next]_vars
  /\ \A j \in Jobs : WF_vars(Pause(j))
-----------------------------------------------------------------------------
(* Properties *)

\* A server that the pipeline has had served, and a job that has merged its source
PipelineServes(j) == server[j].state \in Served /\ server[j].by # "ADMIN"
Built == {"MERGED", "ARTIFACT_BUILDING", "DEPLOYING", "REGISTERED_DISABLED",
          "TRIAL_TESTING", "ACTIVE"}
HasBuilt(j) == job[j].kind = "MCP" /\ job[j].state \in Built

\* The server of a job that was given up is served only if an administrator had
\* it served: no worker that still works on the job brings it back.
GivenUpNotServed ==
  \A j \in Jobs : job[j].state \in GivenUp => ~PipelineServes(j)

\* From the merge on, the commit a job goes on with, and with it the artifact
\* that is built, verified and deployed, is of the source in the row, also when
\* a worker that has merged an earlier source comes late.  It may be another if
\* a worker that was overtaken has forced the branch.
ArtifactOfSource ==
  \A j \in Jobs : HasBuilt(j) => job[j].commit \in {job[j].source, Late}

\* No revision of a cancelled job is authenticated, and the job stays cancelled
\* but for an external service that was sent a revision before: that one is
\* written whatever has become of the job, and the service is back.
CancelledIsFinal ==
  [][\A j \in Jobs : job[j].state = "CANCELLED" =>
       /\ asked'[j] <= asked[j]
       /\ \/ job'[j].state = "CANCELLED"
          \/ /\ job[j].kind = "EXTERNAL" /\ asked'[j] = asked[j] - 1
             /\ job'[j].state = "REGISTERED_DISABLED"]_vars

\* What JobLifecycle sees of a job: the row without its owner, its link and its
\* commit, and of the server whether the pipeline has it served
Kinds == [j \in Jobs |-> job[j].kind]
States == [j \in Jobs |-> job[j].state]
Revisions == [j \in Jobs |-> job[j].source]
Artifacts == [j \in Jobs |-> IF HasBuilt(j) THEN job[j].commit ELSE 0]
Serving == [j \in Jobs |-> PipelineServes(j)]

Lifecycle ==
  INSTANCE JobLifecycle WITH kind <- Kinds, state <- States, source <- Revisions,
                             artifact <- Artifacts, serves <- Serving, asked <- asked

\* The pipeline keeps the promise of JobLifecycle: however many workers believe
\* they hold a job, it goes its way as if one did.
ImplementsJobLifecycle == Lifecycle!Spec

\* A job whose token has expired is brought to an end.
ExpiredIsDecided ==
  \A j \in Jobs : (token[j] = "EXPIRED" /\ job[j].state # "NONE")
                    ~> (job[j].state \in GivenUp \cup {"ACTIVE"})

=============================================================================
