---------------------- MODULE OnboardingPipeline_proofs ----------------------
(***************************************************************************)
(* Theorems about OnboardingPipeline, for any number of jobs, workers and  *)
(* source revisions: its types, that the server of a job that was given up *)
(* is served by nobody's doing but an administrator's, that the artifact   *)
(* is the source's, that the pipeline implements JobLifecycle, and that a  *)
(* cancelled job stays cancelled but for a revision that was under way.    *)
(*                                                                         *)
(* None of them is inductive.  A worker acts on what it has read, and what *)
(* it may do is right as long as the lock version it holds is the job's:   *)
(* the invariant says what such a worker knows of the job at each stage    *)
(* (RowAgrees, StageAgrees), what it has made of the server before it      *)
(* gives the job up (FailedIsDown), and what the pull request of a job     *)
(* holds that waits for its checks (BranchOfSource).                       *)
(***************************************************************************)
EXTENDS OnboardingPipeline, TLAPS

-----------------------------------------------------------------------------
(* The inductive invariant, worker by worker and job by job *)

\* A worker that is at work is at work on a job that exists.
Engaged(w) ==
  worker[w].at # "IDLE" => worker[w].job \in Jobs /\ job[worker[w].job].state # "NONE"

\* A worker whose lock version is the job's
Current(w) == worker[w].at # "IDLE" /\ worker[w].current

\* What it has read of the job is what the job is.
RowAgrees(w) ==
  (Current(w) /\ worker[w].at \in {"WORK", "CLOSE", "FAIL_SERVER", "FAIL_JOB"})
    => worker[w].row = RowOf(worker[w].job)

\* At the steps that hold the row no longer, the job is where it was then.
StageAgrees(w) ==
  LET state == job[worker[w].job].state IN
  Current(w) =>
    /\ worker[w].at = "PUSHED" => state = "SOURCE_UPLOADED"
    /\ worker[w].at = "MERGED" => state = "CI_RUNNING"
    /\ worker[w].at \in {"DEPLOYED", "REGISTERED"} => state = "DEPLOYING"
    /\ worker[w].at = "RETURN" => state = "TRIAL_TESTING"

\* What it has merged is the source of the row, unless an overtaken worker
\* pushed it.
HeadOfSource(w) ==
  (Current(w) /\ worker[w].at = "MERGED")
    => worker[w].head \in {job[worker[w].job].source, Late}

\* A worker about to give up a job has taken its server out of service, and no
\* trial can bring it back.
Down == {"TEST_FAILED", "QUARANTINED", "RETIRED"}
FailedIsDown(w) ==
  LET j == worker[w].job IN
  worker[w].at = "FAIL_JOB" =>
    /\ worker[w].row.state # "CANCELLED"
    /\ Current(w) =>
         /\ ~PipelineServes(j)
         /\ (job[j].linked /\ job[j].state = "TRIAL_TESTING") => server[j].state \in Down

\* It has found the job neither in service nor given up before.
NotYetGivenUp(w) ==
  worker[w].at \in {"FAIL_SERVER", "FAIL_JOB"}
    => worker[w].row.state \notin {"ACTIVE", "FAILED", "QUARANTINED"}

WorkerOkay(w) ==
  /\ Engaged(w) /\ RowAgrees(w) /\ StageAgrees(w) /\ HeadOfSource(w)
  /\ FailedIsDown(w) /\ NotYetGivenUp(w)

\* The pull request of a job that waits for its checks, or is about to, holds the
\* source of the row, unless an overtaken worker pushed it.
Pushed(j) == \E w \in Workers : Current(w) /\ worker[w].at = "PUSHED" /\ worker[w].job = j
BranchOfSource(j) ==
  (job[j].state \in {"PR_CREATED", "CI_RUNNING"} \/ Pushed(j))
    => pull[j] \in {0, job[j].source, Late}

\* The states of a registration of an EXTERNAL_API, beside those of a job given up
ExternalStates == {"NONE", "REGISTERED_DISABLED", "AWAITING_REVISION"}
JobOkay(j) ==
  /\ job[j].state \in GivenUp => ~PipelineServes(j)
  /\ PipelineServes(j) => job[j].linked
  /\ HasBuilt(j) => job[j].commit \in {job[j].source, Late}
  /\ job[j].state = "CANCELLED" => token[j] # "LIVE"
  /\ job[j].kind = "EXTERNAL" => job[j].state \in ExternalStates \cup GivenUp

IInv ==
  /\ TypeOK
  /\ \A w \in Workers : WorkerOkay(w)
  /\ \A j \in Jobs : BranchOfSource(j) /\ JobOkay(j)

-----------------------------------------------------------------------------
(* What a step has to show *)

\* A step concerns one job: nothing else changes, and whoever is at work on
\* another job stays as it is.
Concerns(j) ==
  /\ \A i \in Jobs \ {j} : /\ job'[i] = job[i] /\ pull'[i] = pull[i]
                           /\ token'[i] = token[i] /\ server'[i] = server[i]
  /\ \A v \in Workers : (worker'[v].at # "IDLE" /\ worker'[v].job # j)
                           => worker'[v] = worker[v]

\* Such a step keeps the invariant if it keeps what is said of that job and of
\* the workers on it.
LEMMA OneJob ==
  ASSUME IInv, NEW j \in Jobs, Concerns(j), TypeOK',
         \A v \in Workers : (worker'[v].at # "IDLE" /\ worker'[v].job = j) => WorkerOkay(v)',
         BranchOfSource(j)', JobOkay(j)'
  PROVE  IInv'
<1>1. ASSUME NEW v \in Workers PROVE WorkerOkay(v)'
  <2>1. CASE worker'[v].at = "IDLE"
    BY <2>1 DEF WorkerOkay, Engaged, RowAgrees, StageAgrees, HeadOfSource, FailedIsDown,
       NotYetGivenUp, Current
  <2>2. CASE worker'[v].at # "IDLE" /\ worker'[v].job # j
    <3>1. worker'[v] = worker[v] /\ WorkerOkay(v)
      BY <2>2 DEF Concerns, IInv
    <3>2. worker[v].job \in Jobs \ {j}
      BY <2>2, <3>1 DEF WorkerOkay, Engaged
    <3>3. job'[worker[v].job] = job[worker[v].job] /\ server'[worker[v].job] = server[worker[v].job]
      BY <3>2 DEF Concerns
    <3> QED
      BY <3>1, <3>3 DEF WorkerOkay, Engaged, RowAgrees, StageAgrees, HeadOfSource, FailedIsDown,
         NotYetGivenUp,
         Current, RowOf, PipelineServes
  <2> QED
    BY <2>1, <2>2
<1>2. ASSUME NEW i \in Jobs \ {j} PROVE BranchOfSource(i)' /\ JobOkay(i)'
  <2>1. Pushed(i)' => Pushed(i)
    BY DEF Concerns, Pushed, Current
  <2> QED
    BY <2>1 DEF Concerns, IInv, BranchOfSource, JobOkay, HasBuilt, PipelineServes
<1> QED
  BY <1>1, <1>2 DEF IInv

-----------------------------------------------------------------------------
(* Two kinds of steps *)

\* The job is written and its lock version incremented.  Whoever has read it
\* knows nothing any more, but for the worker that has written, which has
\* returned.
Overtakes(j) ==
  \A v \in Workers :
    /\ worker'[v].job = j => ~worker'[v].current
    /\ worker'[v] # worker[v] =>
         /\ worker[v].job = j /\ worker'[v].job = j
         /\ \/ worker'[v] = [worker[v] EXCEPT !.current = FALSE]
            \/ worker'[v].at \in {"DONE", "ENDED", "BLOCK", "TRIAL"}

LEMMA OvertakingStep ==
  ASSUME IInv, TypeOK', NEW j \in Jobs, Overtakes(j), job'[j].state # "NONE",
         \A i \in Jobs \ {j} : /\ job'[i] = job[i] /\ pull'[i] = pull[i]
                               /\ token'[i] = token[i] /\ server'[i] = server[i],
         job'[j].state \in {"PR_CREATED", "CI_RUNNING"} => pull'[j] \in {0, job'[j].source, Late},
         JobOkay(j)'
  PROVE  IInv'
<1>1. Concerns(j)
  BY DEF Concerns, Overtakes
<1>2. ASSUME NEW v \in Workers, worker'[v].at # "IDLE", worker'[v].job = j
      PROVE  WorkerOkay(v)'
  <2>1. ~worker'[v].current
    BY <1>2 DEF Overtakes
  <2>2. worker'[v].at = "FAIL_JOB" => worker[v].at = "FAIL_JOB" /\ worker'[v].row = worker[v].row
    BY DEF Overtakes, IInv, TypeOK, Worker
  <2>3. FailedIsDown(v) /\ NotYetGivenUp(v)
    BY DEF IInv, WorkerOkay
  <2>4. worker'[v].at = "FAIL_SERVER" => worker[v].at = "FAIL_SERVER" /\ worker'[v].row = worker[v].row
    BY DEF Overtakes, IInv, TypeOK, Worker
  <2> QED
    BY <1>2, <2>1, <2>2, <2>3, <2>4
    DEF WorkerOkay, Engaged, RowAgrees, StageAgrees, HeadOfSource, FailedIsDown, NotYetGivenUp,
        Current
<1>3. ~Pushed(j)'
  BY DEF Pushed, Current, Overtakes
<1> QED
  BY <1>1, <1>2, <1>3, OneJob DEF BranchOfSource

\* The lock version stays.  The server may have moved as long as a job that is
\* about to be given up keeps its server out of service.
ServerMoves(j) ==
  /\ PipelineServes(j)' =>
       \/ PipelineServes(j)
       \/ job[j].linked /\ job[j].state = "TRIAL_TESTING" /\ server[j].state \notin Down
  /\ server[j].state \in Down => server'[j].state \in Down \/ job[j].state # "TRIAL_TESTING"

\* A worker has gone on, with something it may rely on.
GoesOn(v, j) ==
  /\ worker'[v].at # "IDLE" => worker'[v].job = j
  /\ WorkerOkay(v)'
  /\ worker'[v].at = "PUSHED" => pull'[j] \in {job[j].source, Late}

LEMMA QuietStep ==
  ASSUME IInv, TypeOK', NEW j \in Jobs,
         \A i \in Jobs \ {j} : /\ job'[i] = job[i] /\ pull'[i] = pull[i]
                               /\ token'[i] = token[i] /\ server'[i] = server[i],
         job'[j].kind = job[j].kind, job'[j].state = job[j].state,
         job'[j].source = job[j].source, job'[j].commit = job[j].commit,
         job'[j].linked = job[j].linked,
         pull'[j] \in {pull[j], 0, job[j].source, Late},
         token'[j] = "LIVE" => token[j] = "LIVE",
         ServerMoves(j),
         \A v \in Workers : worker'[v] = worker[v] \/ GoesOn(v, j)
  PROVE  IInv'
<1>1. Concerns(j)
  BY DEF Concerns, GoesOn
<1>2. ASSUME NEW v \in Workers, worker'[v].at # "IDLE", worker'[v].job = j
      PROVE  WorkerOkay(v)'
  <2>1. CASE worker'[v] = worker[v]
    <3>1. WorkerOkay(v)
      BY DEF IInv
    <3> QED
      BY <1>2, <2>1, <3>1
      DEF WorkerOkay, Engaged, RowAgrees, StageAgrees, HeadOfSource, FailedIsDown, NotYetGivenUp,
          Current, RowOf,
          ServerMoves
  <2> QED
    BY <2>1 DEF GoesOn
<1>3. BranchOfSource(j)'
  <2>1. BranchOfSource(j)
    BY DEF IInv
  <2>2. Pushed(j)' => Pushed(j) \/ pull'[j] \in {job[j].source, Late}
    BY DEF Pushed, Current, GoesOn
  <2> QED
    BY <2>1, <2>2 DEF BranchOfSource
<1>4. JobOkay(j)'
  <2>1. JobOkay(j)
    BY DEF IInv
  <2> QED
    BY <2>1 DEF JobOkay, HasBuilt, ServerMoves, GivenUp
<1> QED
  BY <1>1, <1>2, <1>3, <1>4, OneJob

-----------------------------------------------------------------------------
(* The helpers of the model *)

\* A job written by the steps that write its state or its owner
LEMMA JobWritten ==
  ASSUME TypeOK, NEW j \in Jobs
  PROVE  /\ \A state \in JobState : [job EXCEPT ![j].state = state] \in [Jobs -> Job]
         /\ \A owner \in Workers \cup {None} : [job EXCEPT ![j].owner = owner] \in [Jobs -> Job]
         /\ \A state \in JobState, owner \in Workers \cup {None} :
              [job EXCEPT ![j].state = state, ![j].owner = owner] \in [Jobs -> Job]
<1>1. job[j] \in Job /\ job \in [Jobs -> Job]
  BY DEF TypeOK
<1>2. ASSUME NEW state \in JobState, NEW owner \in Workers \cup {None}
      PROVE  /\ [job[j] EXCEPT !.state = state] \in Job
             /\ [job[j] EXCEPT !.owner = owner] \in Job
             /\ [job[j] EXCEPT !.state = state, !.owner = owner] \in Job
  BY <1>1 DEF Job
<1>3. "NONE" \in JobState /\ None \in Workers \cup {None}
  BY DEF JobState
<1> QED
  BY <1>1, <1>2, <1>3

\* What Overtaken writes: it takes from the workers on a job what they hold of
\* its lock version, and nothing else.
LEMMA OvertakenWorkers ==
  ASSUME TypeOK, NEW j \in Jobs
  PROVE  /\ Overtaken(j) \in [Workers -> Worker]
         /\ \A v \in Workers :
              /\ worker[v].job # j => Overtaken(j)[v] = worker[v]
              /\ worker[v].job = j => Overtaken(j)[v] = [worker[v] EXCEPT !.current = FALSE]
  BY DEF Overtaken, TypeOK, Worker

\* What a worker is when it has returned: it has forgotten what it has read.
LEMMA WorkerTypes ==
  ASSUME TypeOK, NEW w \in Workers
  PROVE  /\ Idle \in Worker /\ NoRow \in [state: JobState, linked: BOOLEAN]
         /\ \A at \in Stage :
              /\ Returned(w, at) \in Worker
              /\ \A error \in {"NONE", "PLAIN", "SECURITY"} :
                   [Returned(w, at) EXCEPT !.error = error] \in Worker
              /\ Returned(w, at).at = at /\ Returned(w, at).job = worker[w].job
              /\ ~Returned(w, at).current /\ Returned(w, at).row = NoRow
<1>1. 0 \in Heads
  BY BoundAssumption DEF Heads, Sources
<1>2. NoRow \in [state: JobState, linked: BOOLEAN]
  BY DEF NoRow, JobState
<1>3. Idle \in Worker
  BY <1>1, <1>2 DEF Idle, Worker, Stage
<1>4. worker[w].job \in Jobs \cup {None}
  BY DEF TypeOK, Worker
<1>5. ASSUME NEW at \in Stage
      PROVE  /\ Returned(w, at) \in Worker
             /\ \A error \in {"NONE", "PLAIN", "SECURITY"} :
                  [Returned(w, at) EXCEPT !.error = error] \in Worker
  BY <1>1, <1>2, <1>4 DEF Returned, Idle, Worker
<1>6. \A at : /\ Returned(w, at).at = at /\ Returned(w, at).job = worker[w].job
              /\ ~Returned(w, at).current /\ Returned(w, at).row = NoRow
  BY DEF Returned, Idle
<1> QED
  BY <1>2, <1>3, <1>5, <1>6

LEMMA DisabledServer ==
  ASSUME TypeOK, NEW j \in Jobs
  PROVE  /\ Disabled(j) \in [Jobs -> Server]
         /\ \A i \in Jobs \ {j} : Disabled(j)[i] = server[i]
         /\ job[j].linked => Disabled(j)[j].state \notin Served
         /\ ~job[j].linked => Disabled(j)[j] = server[j]
  BY DEF Disabled, TypeOK, Server, ServerState, Served

\* What TRANSITIONS leads to: TRIAL and ACTIVE come after each other, and a
\* server that is down gets out of it only by way of REGISTERED_DISABLED.
LEMMA FollowsFacts ==
  ASSUME NEW from \in ServerState, NEW to \in Follows[from]
  PROVE  /\ to \in ServerState \ {"NONE"}
         /\ from # "NONE"
         /\ to = "TRIAL" => from = "REGISTERED_DISABLED"
         /\ to = "ACTIVE" => from = "TRIAL"
         /\ from \in Down => to \in Down \cup {"REGISTERED_DISABLED"}
  BY DEF Follows, ServerState, Down

-----------------------------------------------------------------------------
(* The types *)

LEMMA RowTypes ==
  ASSUME TypeOK, NEW j \in Jobs
  PROVE  RowOf(j) \in [state: JobState, linked: BOOLEAN]
  BY DEF TypeOK, Job, RowOf

LEMMA TypeByOthers ==
  TypeOK /\ (Programmer \/ JobAdministrator \/ ServerAdministrator \/ Monitor \/ Maintenance
             \/ \E j \in Jobs : TokenExpires(j)) => TypeOK'
<1> SUFFICES ASSUME TypeOK, NEW j \in Jobs,
                    \/ \E kind \in {"MCP", "EXTERNAL"} : Create(j, kind)
                    \/ Authenticate(j) \/ Replace(j) \/ UpdateExternal(j) \/ Cancel(j)
                    \/ Release(j) \/ BeginRevision(j) \/ RevokeToken(j)
                    \/ \E enabled \in BOOLEAN : SetServerEnabled(j, enabled)
                    \/ Promote(j) \/ Delete(j)
                    \/ Quarantine(j) \/ Suspend(j) \/ Pause(j) \/ TokenExpires(j)
             PROVE  TypeOK'
  BY DEF Programmer, JobAdministrator, ServerAdministrator, Monitor, Maintenance
<1>0. /\ Overtaken(j) \in [Workers -> Worker]
      /\ Disabled(j) \in [Jobs -> Server]
  BY OvertakenWorkers, DisabledServer
<1>1. ASSUME NEW kind \in {"MCP", "EXTERNAL"}, Create(j, kind) PROVE TypeOK'
  BY <1>1, BoundAssumption DEF Create, TypeOK, Job, JobState, Sources
<1>2. CASE Authenticate(j)
  <2>1. asked[j] + 1 \in Sources
    BY <1>2, BoundAssumption DEF Authenticate, TypeOK, Job, Sources
  <2> QED
    BY <1>2, <2>1 DEF Authenticate, TypeOK
<1>3. ASSUME NEW to \in JobState, Revises(j, to) PROVE TypeOK'
  <2>1. job[j] \in Job /\ job[j].source + 1 \in Sources /\ asked[j] - 1 \in Sources
    BY <1>3, BoundAssumption DEF Revises, TypeOK, Job, Sources
  <2>2. job' \in [Jobs -> Job]
    BY <1>3, <2>1 DEF Revises, TypeOK, Job
  <2>3. asked' \in [Jobs -> Sources]
    BY <1>3, <2>1 DEF Revises, TypeOK
  <2> QED
    BY <1>0, <1>3, <2>2, <2>3 DEF Revises, TypeOK
<1>4. CASE Cancel(j)
  <2>1. job' \in [Jobs -> Job]
    BY <1>4, JobWritten DEF Cancel, JobState
  <2> QED
    BY <1>0, <1>4, <2>1 DEF Cancel, CancelledToken, Revoked, TypeOK
<1>5. CASE Release(j)
  <2>1. job' \in [Jobs -> Job]
    BY <1>5 DEF Release, TypeOK, Job, JobState
  <2> QED
    BY <1>0, <1>5, <2>1 DEF Release, Revoked, TypeOK
<1>6. CASE BeginRevision(j)
  <2>1. job' \in [Jobs -> Job]
    BY <1>6 DEF BeginRevision, TypeOK, Job, JobState
  <2> QED
    BY <1>0, <1>6, <2>1 DEF BeginRevision, TypeOK
<1>7. CASE RevokeToken(j)
  BY <1>7 DEF RevokeToken, TypeOK
<1>8. ASSUME NEW to, AdminSets(j, to) PROVE TypeOK'
  <2>1. to \in ServerState
    BY <1>8, FollowsFacts DEF AdminSets, TypeOK, Server
  <2> QED
    BY <1>8, <2>1 DEF AdminSets, TypeOK, Server
<1>9. CASE Delete(j)
  <2>1. job' \in [Jobs -> Job]
    <3>1. job[j].state \in JobState /\ "CANCELLED" \in JobState
      BY DEF TypeOK, Job, JobState
    <3> QED
      BY <1>9, <3>1, JobWritten DEF Delete
  <2>2. server' \in [Jobs -> Server]
    BY <1>9 DEF Delete, TypeOK, Server, ServerState
  <2> QED
    BY <1>0, <1>9, <2>1, <2>2 DEF Delete, Revoked, TypeOK
<1>10. CASE Quarantine(j)
  <2>1. job' \in [Jobs -> Job]
    <3>1. job[j].state \in JobState /\ "QUARANTINED" \in JobState
      BY DEF TypeOK, Job, JobState
    <3> QED
      BY <1>10, <3>1, JobWritten DEF Quarantine
  <2>2. server' \in [Jobs -> Server]
    BY <1>10 DEF Quarantine, TypeOK, Server, ServerState
  <2> QED
    BY <1>0, <1>10, <2>1, <2>2 DEF Quarantine, TypeOK
<1>11. CASE Suspend(j)
  BY <1>11 DEF Suspend, TypeOK, Server, ServerState
<1>12. CASE Pause(j)
  <2>1. job' \in [Jobs -> Job]
    BY <1>12, JobWritten DEF Pause, JobState
  <2> QED
    BY <1>0, <1>12, <2>1 DEF Pause, TypeOK
<1>13. CASE TokenExpires(j)
  BY <1>13 DEF TokenExpires, TypeOK
<1> QED
  BY <1>1, <1>2, <1>3, <1>4, <1>5, <1>6, <1>7, <1>8, <1>9, <1>10, <1>11, <1>12, <1>13
  DEF SetServerEnabled, Promote, Replace, UpdateExternal, JobState

\* A worker that goes on with the job it has leased
LEMMA WorkerWritten ==
  ASSUME TypeOK, NEW w \in Workers, NEW x \in Worker
  PROVE  [worker EXCEPT ![w] = x] \in [Workers -> Worker]
  BY DEF TypeOK

LEMMA OvertakenWritten ==
  ASSUME TypeOK, NEW j \in Jobs, NEW w \in Workers
  PROVE  \A at \in Stage : [Overtaken(j) EXCEPT ![w] = Returned(w, at)] \in [Workers -> Worker]
  BY OvertakenWorkers, WorkerTypes

LEMMA GoesWorker ==
  ASSUME TypeOK, NEW w \in Workers
  PROVE  \A at \in Stage : Goes(w, at) \in [Workers -> Worker]
<1>1. worker[w] \in Worker /\ worker \in [Workers -> Worker]
  BY DEF TypeOK
<1>2. ASSUME NEW at \in Stage PROVE [worker[w] EXCEPT !.at = at, !.row = NoRow] \in Worker
  BY <1>1, WorkerTypes DEF Worker
<1> QED
  BY <1>1, <1>2 DEF Goes

LEMMA StepsTypes ==
  ASSUME TypeOK, NEW w \in Workers, worker[w].job \in Jobs,
         NEW to \in JobState, NEW commit \in Heads, Steps(w, to, commit)
  PROVE  TypeOK'
<1> DEFINE j == worker[w].job
<1>1. CASE Refused(w)
  <2>1. worker' = [worker EXCEPT ![w] = [Returned(w, "FAILING") EXCEPT !.error = "PLAIN"]]
    BY <1>1 DEF Refused, Throws
  <2>2. worker' \in [Workers -> Worker]
    BY <2>1, WorkerTypes, WorkerWritten DEF Stage
  <2> QED
    BY <1>1, <2>2 DEF Refused, Throws, TypeOK
<1>2. CASE /\ job' = [job EXCEPT ![j].state = to, ![j].commit = commit]
           /\ worker' = [Overtaken(j) EXCEPT ![w] = Returned(w, "DONE")]
  <2>1. job' \in [Jobs -> Job]
    <3>1. job \in [Jobs -> Job] /\ job[j] \in Job
      BY DEF TypeOK
    <3>2. [job[j] EXCEPT !.state = to, !.commit = commit] \in Job
      BY <3>1 DEF Job
    <3> QED
      BY <1>2, <3>1, <3>2
  <2>2. worker' \in [Workers -> Worker]
    BY <1>2, OvertakenWritten DEF Stage
  <2> QED
    BY <2>1, <2>2 DEF Steps, TypeOK
<1> QED
  BY <1>1, <1>2 DEF Steps

LEMMA ThrowsTypes ==
  ASSUME TypeOK, NEW w \in Workers, NEW error \in {"PLAIN", "SECURITY"}, Throws(w, error)
  PROVE  TypeOK'
<1>1. worker' \in [Workers -> Worker]
  BY WorkerTypes, WorkerWritten DEF Throws, Stage
<1> QED
  BY <1>1 DEF Throws, TypeOK

LEMMA TypeByWorkers ==
  ASSUME TypeOK, NEW w \in Workers, Engaged(w), Work(w)
  PROVE  TypeOK'
<1> DEFINE j == worker[w].job
<1>0. /\ worker[w].at # "IDLE" => j \in Jobs /\ job[j] \in Job
      /\ worker[w] \in Worker /\ worker \in [Workers -> Worker] /\ server \in [Jobs -> Server]
      /\ worker[w].head \in Heads
      /\ \A i \in Jobs : job[i].source \in Heads /\ job[i].commit \in Heads /\ pull[i] \in Heads
  BY DEF TypeOK, Engaged, Job, Worker, Heads
<1>1. ASSUME NEW i \in Jobs, Lease(w, i) PROVE TypeOK'
  <2>1. job' \in [Jobs -> Job]
    BY <1>1, JobWritten DEF Lease
  <2>2. [Idle EXCEPT !.at = "LEASED", !.job = i] \in Worker
    <3>1. Idle \in Worker
      BY WorkerTypes
    <3> QED
      BY <3>1 DEF Worker, Stage
  <2> QED
    BY <1>1, <2>1, <2>2, WorkerWritten DEF Lease, TypeOK
<1>2. CASE Read(w)
  <2>1. /\ HeartbeatOkay(w) => worker'[w] = [worker[w] EXCEPT !.at = "WORK", !.row = RowOf(j), !.current = TRUE]
        /\ ~HeartbeatOkay(w) => worker'[w] = [worker[w] EXCEPT !.at = "FAILING", !.error = "PLAIN"]
    BY <1>0, <1>2 DEF Read
  <2>2. RowOf(j) \in [state: JobState, linked: BOOLEAN]
    BY <1>0, <1>2, RowTypes DEF Read
  <2>3. worker'[w] \in Worker
    BY <1>0, <2>1, <2>2 DEF Worker, Stage
  <2>4. worker' = [worker EXCEPT ![w] = worker'[w]]
    BY <1>0, <1>2 DEF Read
  <2> QED
    BY <1>2, <2>3, <2>4, WorkerWritten DEF Read, TypeOK
<1>3. CASE End(w)
  <2>1. job' \in [Jobs -> Job]
    <3>1. job[j].owner \in Workers \cup {None}
      BY <1>0, <1>3 DEF End, Job
    <3> QED
      BY <1>0, <1>3, <3>1, JobWritten DEF End
  <2> QED
    BY <1>3, <2>1, WorkerTypes, WorkerWritten DEF End, TypeOK, Stage
<1>4. CASE Crash(w)
  <2>1. Idle \in Worker
    BY WorkerTypes DEF Stage
  <2> QED
    BY <1>4, <2>1, WorkerWritten DEF Crash, TypeOK
<1>5. CASE Push(w)
  <2>1. pull' \in [Jobs -> Heads]
    BY <1>0, <1>5 DEF Push, TypeOK, Heads
  <2>2. [worker[w] EXCEPT !.at = "PUSHED"] \in Worker
    BY <1>0 DEF Worker, Stage
  <2> QED
    BY <1>0, <1>5, <2>1, <2>2, WorkerWritten DEF Push, TypeOK
<1>6. CASE RecordPullRequest(w) \/ StartChecks(w) \/ ChecksFail(w) \/ RecordMerge(w)
           \/ StartBuild(w) \/ Verified(w)
  BY <1>0, <1>6, StepsTypes
  DEF RecordPullRequest, StartChecks, ChecksFail, RecordMerge, StartBuild, Verified, Works, JobState
<1>7. CASE MergePullRequest(w)
  <2>1. pull' \in [Jobs -> Heads]
    <3>1. 0 \in Heads
      BY BoundAssumption DEF Heads, Sources
    <3> QED
      BY <1>7, <3>1 DEF MergePullRequest, TypeOK
  <2>2. [worker[w] EXCEPT !.at = "MERGED", !.row = NoRow, !.head = pull[j]] \in Worker
    <3>1. pull[j] \in Heads
      BY <1>0, <1>7 DEF MergePullRequest, Works
    <3>2. NoRow \in [state: JobState, linked: BOOLEAN]
      BY WorkerTypes DEF Stage
    <3> QED
      BY <1>0, <3>1, <3>2 DEF Worker, Stage
  <2> QED
    BY <1>0, <1>7, <2>1, <2>2, WorkerWritten DEF MergePullRequest, TypeOK
<1>8. CASE Retry(w)
  BY <1>0, <1>8, OvertakenWritten DEF Retry, TypeOK, Stage
<1>9. CASE Fails(w)
  BY <1>9, ThrowsTypes DEF Fails
<1>10. CASE Deploy(w)
  BY <1>10, GoesWorker DEF Deploy, TypeOK, Stage
<1>11. CASE RegisterServer(w)
  <2>1. CASE Throws(w, "PLAIN")
    BY <2>1, ThrowsTypes
  <2>2. CASE /\ server' = [server EXCEPT ![j].state = "REGISTERED_DISABLED"]
             /\ worker' = Goes(w, "REGISTERED") /\ UNCHANGED <<pull, job, token, asked>>
    <3>1. server' \in [Jobs -> Server]
      BY <1>0, <2>2 DEF Server, ServerState
    <3>2. worker' \in [Workers -> Worker]
      BY <2>2, GoesWorker DEF Stage
    <3> QED
      BY <2>2, <3>1, <3>2 DEF TypeOK
  <2> QED
    BY <1>11, <2>1, <2>2 DEF RegisterServer
<1>12. CASE FinishDeploy(w)
  <2>1. CASE Refused(w)
    BY <2>1, ThrowsTypes DEF Refused
  <2>2. CASE ~Refused(w)
    <3>1. job' \in [Jobs -> Job]
      BY <1>0, <1>12, <2>2 DEF FinishDeploy, TypeOK, Job, JobState
    <3> QED
      <4>1. worker' \in [Workers -> Worker]
        BY <1>0, <1>12, <2>2, OvertakenWritten DEF FinishDeploy, Stage
      <4> QED
        BY <1>12, <2>2, <3>1, <4>1 DEF FinishDeploy, TypeOK
  <2> QED
    BY <2>1, <2>2
<1>13. ASSUME NEW to \in JobState, j \in Jobs, Transition(w, to) PROVE job' \in [Jobs -> Job]
  <2>1. job[j].owner \in Workers \cup {None}
    BY <1>13 DEF TypeOK, Job
  <2> QED
    BY <1>13, <2>1, JobWritten DEF Transition
<1>14. CASE StartTrial(w)
  <2>1. worker' \in [Workers -> Worker]
    <3>1. Goes(w, "ROLLBACK") \in [Workers -> Worker]
      BY GoesWorker DEF Stage
    <3>2. [Overtaken(j) EXCEPT ![w] = Returned(w, "TRIAL")] \in [Workers -> Worker]
      BY <1>0, <1>14, OvertakenWritten DEF StartTrial, Stage
    <3> QED
      BY <1>14, <3>1, <3>2 DEF StartTrial
  <2>2. job' \in [Jobs -> Job]
    BY <1>0, <1>13, <1>14 DEF StartTrial, TypeOK, JobState
  <2> QED
    BY <1>14, <2>1, <2>2 DEF StartTrial, TypeOK
<1>15. CASE BeginTrial(w)
  <2>1. worker' \in [Workers -> Worker]
    <3>1. Goes(w, "ROLLBACK") \in [Workers -> Worker]
      BY GoesWorker DEF Stage
    <3>2. [worker EXCEPT ![w] = Returned(w, "DONE")] \in [Workers -> Worker]
      BY WorkerTypes, WorkerWritten DEF Stage
    <3> QED
      BY <1>15, <3>1, <3>2 DEF BeginTrial
  <2>2. server' \in [Jobs -> Server]
    BY <1>0, <1>15 DEF BeginTrial, Server, ServerState
  <2> QED
    BY <1>15, <2>1, <2>2 DEF BeginTrial, TypeOK
<1>16. CASE RollbackTrial(w)
  <2>1. server' \in [Jobs -> Server]
    BY <1>0, <1>16 DEF RollbackTrial, Server, ServerState
  <2> QED
    BY <1>16, <2>1, GoesWorker DEF RollbackTrial, TypeOK, Stage
<1>17. CASE Reread(w)
  <2>1. RowOf(j) \in [state: JobState, linked: BOOLEAN]
    BY <1>0, <1>17, RowTypes DEF Reread
  <2>2. /\ [worker[w] EXCEPT !.row = RowOf(j), !.current = TRUE, !.at = "CLOSE"] \in Worker
        /\ [worker[w] EXCEPT !.current = TRUE, !.at = "RETURN"] \in Worker
        /\ [worker[w] EXCEPT !.current = TRUE, !.at = "BLOCK"] \in Worker
    BY <1>0, <2>1 DEF Worker, Stage
  <2> QED
    BY <1>0, <1>17, <2>2, WorkerWritten DEF Reread, TypeOK
<1>18. CASE ReturnTrial(w)
  <2>1. CASE Refused(w)
    BY <2>1, ThrowsTypes DEF Refused
  <2> QED
    BY <1>0, <1>13, <1>18, <2>1, OvertakenWritten DEF ReturnTrial, TypeOK, Stage, JobState
<1>19. CASE RunTrial(w)
  BY <1>19, GoesWorker DEF RunTrial, TypeOK, Stage
<1>20. CASE Activate(w)
  <2>1. CASE Throws(w, "PLAIN")
    BY <2>1, ThrowsTypes
  <2>2. CASE ~Throws(w, "PLAIN")
    <3>1. Goes(w, "ACTIVATED") \in [Workers -> Worker]
      BY GoesWorker DEF Stage
    <3>2. server' \in [Jobs -> Server]
      BY <1>0, <1>20, <2>2 DEF Activate, Server, ServerState
    <3> QED
      BY <1>20, <2>2, <3>1, <3>2 DEF Activate, TypeOK
  <2> QED
    BY <2>1, <2>2
<1>21. CASE CloseJob(w)
  <2>1. CASE Throws(w, "PLAIN")
    BY <1>21, <2>1, ThrowsTypes
  <2> QED
    <3>1. CASE ~Throws(w, "PLAIN")
      <4>1. job' \in [Jobs -> Job]
        BY <1>0, <1>13, <1>21, <3>1 DEF CloseJob, JobState
      <4>2. worker' \in [Workers -> Worker]
        BY <1>0, <1>21, <3>1, OvertakenWritten DEF CloseJob, Stage
      <4> QED
        BY <1>21, <3>1, <4>1, <4>2 DEF CloseJob, TypeOK
    <3> QED
      BY <2>1, <3>1
<1>22. CASE ReadFailed(w)
  <2>1. RowOf(j) \in [state: JobState, linked: BOOLEAN]
    BY <1>0, <1>22, RowTypes DEF ReadFailed
  <2>2. /\ Returned(w, "ENDED") \in Worker
        /\ [worker[w] EXCEPT !.at = "FAIL_SERVER", !.current = TRUE, !.row = RowOf(j)] \in Worker
    <3>1. Returned(w, "ENDED") \in Worker
      BY WorkerTypes DEF Stage
    <3> QED
      BY <1>0, <2>1, <3>1 DEF Worker, Stage
  <2> QED
    BY <1>0, <1>22, <2>2, WorkerWritten DEF ReadFailed, TypeOK
<1>23. CASE FailServer(w)
  <2>1. /\ Returned(w, "ENDED") \in Worker
        /\ [worker[w] EXCEPT !.at = "FAIL_JOB"] \in Worker
    <3>1. Returned(w, "ENDED") \in Worker
      BY WorkerTypes DEF Stage
    <3> QED
      BY <1>0, <3>1 DEF Worker, Stage
  <2>2. worker' \in [Workers -> Worker]
    BY <1>0, <1>23, <2>1, WorkerWritten DEF FailServer
  <2>3. server' \in [Jobs -> Server]
    BY <1>0, <1>23 DEF FailServer, Server, ServerState
  <2> QED
    BY <1>23, <2>2, <2>3 DEF FailServer, TypeOK
<1>24. CASE FailJob(w)
  <2>1. worker' \in [Workers -> Worker]
    <3>1. [worker EXCEPT ![w] = Returned(w, "ENDED")] \in [Workers -> Worker]
      BY WorkerTypes, WorkerWritten DEF Stage
    <3>2. [Overtaken(j) EXCEPT ![w] = Returned(w, "ENDED")] \in [Workers -> Worker]
      BY <1>0, <1>24, OvertakenWritten DEF FailJob, Stage
    <3> QED
      BY <1>24, <3>1, <3>2 DEF FailJob
  <2>2. job' \in [Jobs -> Job]
    BY <1>0, <1>13, <1>24 DEF FailJob, TypeOK, JobState
  <2> QED
    BY <1>24, <2>1, <2>2 DEF FailJob, TypeOK
<1> QED
  BY <1>1, <1>2, <1>3, <1>4, <1>5, <1>6, <1>7, <1>8, <1>9, <1>10, <1>11, <1>12, <1>14, <1>15,
     <1>16, <1>17, <1>18, <1>19, <1>20, <1>21, <1>22, <1>23, <1>24
  DEF Work

-----------------------------------------------------------------------------
(* The steps of everybody but the workers *)

\* The workers after a step that has overtaken them
LEMMA OvertakenOvertakes ==
  ASSUME TypeOK, NEW j \in Jobs, worker' = Overtaken(j)
  PROVE  Overtakes(j)
  BY OvertakenWorkers DEF Overtakes, TypeOK, Worker

\* A worker that waits for its checks knows the state of its job.
LEMMA PushedState ==
  ASSUME IInv, NEW j \in Jobs, Pushed(j)
  PROVE  job[j].state = "SOURCE_UPLOADED"
  BY DEF IInv, Pushed, WorkerOkay, StageAgrees, Current

\* Create: nobody is at work on a job that does not exist yet.
LEMMA CreateStep ==
  ASSUME IInv, TypeOK', NEW j \in Jobs, NEW kind \in {"MCP", "EXTERNAL"}, Create(j, kind)
  PROVE  IInv'
<1>0. job[j] \in Job /\ job \in [Jobs -> Job] /\ JobOkay(j)
  BY DEF IInv, TypeOK
<1>1. /\ job'[j].state \in {"SOURCE_UPLOADED", "REGISTERED_DISABLED"}
      /\ job'[j].linked = job[j].linked
      /\ job'[j].kind = IF job'[j].state = "SOURCE_UPLOADED" THEN "MCP" ELSE "EXTERNAL"
      /\ \A i \in Jobs \ {j} : job'[i] = job[i]
  BY <1>0 DEF Create, Job
<1>2. \A v \in Workers : worker[v].at # "IDLE" => worker[v].job # j
  BY DEF IInv, WorkerOkay, Engaged, Create
<1>3. ~Pushed(j)'
  BY <1>2 DEF Pushed, Current, Create
<1>4. BranchOfSource(j)'
  BY <1>1, <1>3 DEF BranchOfSource
<1>5. JobOkay(j)'
  BY <1>0, <1>1 DEF JobOkay, HasBuilt, Create, PipelineServes, GivenUp, Built, ExternalStates
<1>6. Concerns(j)
  BY <1>1 DEF Concerns, Create
<1> QED
  BY <1>2, <1>4, <1>5, <1>6, OneJob DEF Create

\* What overtakes the workers and is no worker's doing: a new source, an end, an
\* administrator's decision, a drift.
LEMMA OvertakingSteps ==
  ASSUME IInv, TypeOK', NEW j \in Jobs,
         \/ Replace(j) \/ UpdateExternal(j) \/ Cancel(j) \/ Release(j) \/ BeginRevision(j)
         \/ Delete(j) \/ Pause(j)
  PROVE  IInv'
<1>0. /\ job[j] \in Job /\ job \in [Jobs -> Job] /\ server[j] \in Server /\ TypeOK
      /\ token \in [Jobs -> {"LIVE", "REVOKED", "EXPIRED"}] /\ server \in [Jobs -> Server]
      /\ JobOkay(j) /\ BranchOfSource(j)
  BY DEF IInv, TypeOK
<1>1. Overtakes(j)
  BY <1>0, OvertakenOvertakes
  DEF Replace, UpdateExternal, Revises, Cancel, Release, BeginRevision, Delete, Pause
<1>2. CASE Replace(j)
  <2>1. /\ job'[j].state = "SOURCE_UPLOADED" /\ job'[j].linked = job[j].linked
        /\ job'[j].kind = "MCP"
        /\ \A i \in Jobs \ {j} : job'[i] = job[i]
    BY <1>0, <1>2 DEF Replace, Revises, Job
  <2>2. JobOkay(j)'
    BY <1>0, <1>2, <2>1 DEF Replace, Revises, JobOkay, HasBuilt, PipelineServes, GivenUp, Built,
       ExternalStates
  <2> QED
    BY <1>1, <1>2, <2>1, <2>2, OvertakingStep DEF Replace, Revises
<1>3. CASE UpdateExternal(j)
  <2>1. /\ job'[j].state = "REGISTERED_DISABLED" /\ job'[j].linked = job[j].linked
        /\ job'[j].kind = "EXTERNAL"
        /\ \A i \in Jobs \ {j} : job'[i] = job[i]
    BY <1>0, <1>3 DEF UpdateExternal, Revises, Job
  <2>2. JobOkay(j)'
    BY <1>0, <1>3, <2>1 DEF UpdateExternal, Revises, JobOkay, HasBuilt, PipelineServes, GivenUp,
       Built, ExternalStates
  <2> QED
    BY <1>1, <1>3, <2>1, <2>2, OvertakingStep DEF UpdateExternal, Revises
<1>4. CASE Cancel(j) \/ Pause(j)
  <2>1. /\ job'[j].state = "CANCELLED" /\ job'[j].linked = job[j].linked
        /\ \A i \in Jobs \ {j} : job'[i] = job[i]
    BY <1>0, <1>4 DEF Cancel, Pause, Job
  <2>2. /\ server' = Disabled(j) /\ token'[j] # "LIVE"
        /\ \A i \in Jobs \ {j} : token'[i] = token[i] /\ server'[i] = server[i] /\ pull'[i] = pull[i]
    BY <1>0, <1>4, DisabledServer DEF Cancel, Pause, CancelledToken, Revoked
  <2>3. ~PipelineServes(j)'
    BY <1>0, <2>2, DisabledServer DEF JobOkay, HasBuilt, PipelineServes
  <2>4. JobOkay(j)'
    BY <2>1, <2>2, <2>3 DEF JobOkay, HasBuilt, Built, GivenUp
  <2> QED
    BY <1>1, <2>1, <2>2, <2>4, OvertakingStep
<1>5. CASE Release(j) \/ BeginRevision(j)
  <2>1. /\ job'[j].state = "AWAITING_REVISION" /\ job'[j].linked = job[j].linked
        /\ \A i \in Jobs \ {j} : job'[i] = job[i] /\ token'[i] = token[i]
    BY <1>0, <1>5 DEF Release, BeginRevision, Job
  <2>2. UNCHANGED <<pull, server>>
    BY <1>5 DEF Release, BeginRevision
  <2>3. JobOkay(j)'
    BY <1>0, <2>1, <2>2 DEF JobOkay, HasBuilt, PipelineServes, GivenUp, Built, ExternalStates
  <2> QED
    BY <1>1, <2>1, <2>2, <2>3, OvertakingStep
<1>6. CASE Delete(j)
  <2>1. /\ job'[j].kind = job[j].kind /\ job'[j].source = job[j].source
        /\ job'[j].commit = job[j].commit /\ job'[j].linked = job[j].linked
        /\ job'[j].state \in {job[j].state, "CANCELLED"}
        /\ \A i \in Jobs \ {j} : job'[i] = job[i] /\ token'[i] = token[i] /\ server'[i] = server[i]
        /\ server'[j].state = "RETIRED" /\ token'[j] # "LIVE"
        /\ UNCHANGED pull
    BY <1>0, <1>6 DEF Delete, Job, Server, Revoked
  <2>2. JobOkay(j)'
    BY <1>0, <2>1 DEF JobOkay, HasBuilt, PipelineServes, Served, Built, GivenUp
  <2>3. CASE job[j].state # "NONE"
    BY <1>0, <1>1, <2>1, <2>2, <2>3, OvertakingStep DEF BranchOfSource
  <2>4. CASE job[j].state = "NONE"
    <3>1. job'[j].state = "NONE"
      BY <1>0, <1>6, <2>4 DEF Delete, Job
    <3>2. \A v \in Workers : worker'[v].at # "IDLE" => worker'[v].job # j
      <4>1. \A v \in Workers : worker'[v].at = worker[v].at /\ worker'[v].job = worker[v].job
        <5>1. ASSUME NEW v \in Workers
              PROVE  /\ worker'[v] \in {worker[v], [worker[v] EXCEPT !.current = FALSE]}
                     /\ worker[v] \in Worker
          BY <1>0, <1>6, OvertakenWorkers DEF Delete, TypeOK
        <5> QED
          BY <5>1 DEF Worker
      <4>2. \A v \in Workers : worker[v].at # "IDLE" => worker[v].job # j
        BY <2>4 DEF IInv, WorkerOkay, Engaged
      <4> QED
        BY <4>1, <4>2
    <3>3. Concerns(j)
      BY <1>1, <2>1 DEF Concerns, Overtakes
    <3>4. BranchOfSource(j)'
      BY <3>1, <3>2 DEF BranchOfSource, Pushed, Current
    <3> QED
      BY <2>2, <3>2, <3>3, <3>4, OneJob
  <2> QED
    BY <2>3, <2>4
<1> QED
  BY <1>2, <1>3, <1>4, <1>5, <1>6

\* What the lock version does not tell
LEMMA QuietSteps ==
  ASSUME IInv, TypeOK', NEW j \in Jobs, UNCHANGED <<job, pull, worker>>,
         \A i \in Jobs \ {j} : token'[i] = token[i] /\ server'[i] = server[i],
         token'[j] = "LIVE" => token[j] = "LIVE", ServerMoves(j)
  PROVE  IInv'
  BY QuietStep

LEMMA ServerSteps ==
  ASSUME IInv, TypeOK', NEW j \in Jobs,
         \/ Authenticate(j) \/ RevokeToken(j) \/ TokenExpires(j)
         \/ \E enabled \in BOOLEAN : SetServerEnabled(j, enabled)
         \/ Promote(j) \/ Quarantine(j) \/ Suspend(j)
  PROVE  IInv'
<1>0. /\ job[j] \in Job /\ job \in [Jobs -> Job] /\ server[j] \in Server /\ TypeOK
      /\ token \in [Jobs -> {"LIVE", "REVOKED", "EXPIRED"}] /\ server \in [Jobs -> Server]
      /\ server[j].state \in ServerState
      /\ JobOkay(j) /\ BranchOfSource(j)
  BY DEF IInv, TypeOK, Server
<1>1. CASE Authenticate(j) \/ RevokeToken(j) \/ TokenExpires(j)
  <2>1. /\ UNCHANGED <<job, pull, worker, server>>
        /\ token'[j] = "LIVE" => token[j] = "LIVE"
        /\ \A i \in Jobs \ {j} : token'[i] = token[i]
    BY <1>0, <1>1 DEF Authenticate, RevokeToken, TokenExpires
  <2>2. ServerMoves(j)
    BY <2>1 DEF ServerMoves, PipelineServes
  <2> QED
    BY <2>1, <2>2, QuietSteps
<1>2. ASSUME NEW to, AdminSets(j, to), to = "REGISTERED_DISABLED" => server[j].state \in Served
      PROVE  IInv'
  <2>1. /\ UNCHANGED <<job, pull, worker, token>>
        /\ \A i \in Jobs \ {j} : server'[i] = server[i]
        /\ server'[j].state = to /\ server'[j].by = "ADMIN"
    BY <1>0, <1>2 DEF AdminSets, Server
  <2>2. server[j].state \in Down => to \in Down
    BY <1>0, <1>2, FollowsFacts DEF AdminSets, Served, Down
  <2>3. ServerMoves(j)
    BY <2>1, <2>2 DEF ServerMoves, PipelineServes
  <2> QED
    BY <2>1, <2>3, QuietSteps
<1>3. CASE \E enabled \in BOOLEAN : SetServerEnabled(j, enabled)
  <2>1. PICK enabled \in BOOLEAN : SetServerEnabled(j, enabled)
    BY <1>3
  <2>2. /\ AdminSets(j, IF enabled THEN "TRIAL" ELSE "REGISTERED_DISABLED")
        /\ ~enabled => server[j].state \in Served
    BY <2>1 DEF SetServerEnabled
  <2> QED
    BY <1>2, <2>2
<1>4. CASE Promote(j)
  BY <1>2, <1>4 DEF Promote
<1>5. CASE Suspend(j)
  <2>1. /\ UNCHANGED <<job, pull, worker, token>>
        /\ \A i \in Jobs \ {j} : server'[i] = server[i]
        /\ server'[j].state = "SUSPENDED"
    BY <1>0, <1>5 DEF Suspend, Server
  <2>2. server[j].state \notin Down
    BY <1>0, <1>5, FollowsFacts DEF Suspend, Down
  <2>3. ServerMoves(j)
    BY <2>1, <2>2 DEF ServerMoves, PipelineServes, Served
  <2> QED
    BY <2>1, <2>3, QuietSteps
<1>6. CASE Quarantine(j)
  <2>1. /\ UNCHANGED <<pull, token>>
        /\ \A i \in Jobs \ {j} : server'[i] = server[i] /\ job'[i] = job[i]
        /\ server'[j].state = "QUARANTINED"
    BY <1>0, <1>6 DEF Quarantine, Server
  <2>2. CASE job'[j] = job[j]
    <3>1. ServerMoves(j)
      BY <2>1 DEF ServerMoves, PipelineServes, Served, Down
    <3>2. job' = job /\ worker' = worker
      BY <1>0, <1>6, <2>2 DEF Quarantine
    <3> QED
      BY <2>1, <3>1, <3>2, QuietSteps
  <2>3. CASE job'[j] # job[j]
    <3>1. job'[j].state = "QUARANTINED" /\ worker' = Overtaken(j)
      BY <1>0, <1>6, <2>3 DEF Quarantine, Job
    <3>2. JobOkay(j)'
      BY <2>1, <3>1 DEF JobOkay, HasBuilt, PipelineServes, Served, Built, GivenUp
    <3> QED
      BY <1>0, <2>1, <3>1, <3>2, OvertakenOvertakes, OvertakingStep
  <2> QED
    BY <2>2, <2>3
<1> QED
  BY <1>1, <1>3, <1>4, <1>5, <1>6

-----------------------------------------------------------------------------
(* The steps of the workers *)

\* A worker that is outdated, or stands where nothing is asked of it
Free == {"LEASED", "DONE", "ENDED", "FAILING", "BLOCK", "TRIAL", "TRIED", "ROLLBACK",
         "REREAD", "ACTIVATED"}

LEMMA Forgets ==
  ASSUME NEW w \in Workers, NEW j \in Jobs, worker'[w].job = j, job'[j].state # "NONE",
         worker'[w].at \in Free \/ ~worker'[w].current,
         worker'[w].at \notin {"FAIL_SERVER", "FAIL_JOB", "PUSHED"}
  PROVE  GoesOn(w, j)
  BY DEF GoesOn, WorkerOkay, Engaged, RowAgrees, StageAgrees, HeadOfSource, FailedIsDown,
     NotYetGivenUp, Current, Free

\* A worker goes on by itself.
LEMMA OwnStep ==
  ASSUME IInv, TypeOK', NEW j \in Jobs, NEW w \in Workers, NEW x,
         worker' = [worker EXCEPT ![w] = x], UNCHANGED <<job, token>>,
         \A i \in Jobs \ {j} : pull'[i] = pull[i] /\ server'[i] = server[i],
         pull'[j] \in {pull[j], 0, job[j].source, Late},
         ServerMoves(j), GoesOn(w, j)
  PROVE  IInv'
<1>1. \A v \in Workers : worker'[v] = worker[v] \/ GoesOn(v, j)
  BY DEF IInv, TypeOK
<1> QED
  BY <1>1, QuietStep

\* process has thrown
LEMMA ThrowsStep ==
  ASSUME IInv, TypeOK', NEW j \in Jobs, NEW w \in Workers, worker[w].at # "IDLE",
         worker[w].job = j, NEW error \in {"PLAIN", "SECURITY"}, Throws(w, error)
  PROVE  IInv'
<1>1. job[j].state # "NONE" /\ TypeOK
  BY DEF IInv, WorkerOkay, Engaged
<1>2. worker'[w].job = j /\ worker'[w].at = "FAILING"
  BY <1>1 DEF Throws, Returned, Idle, TypeOK
<1>3. GoesOn(w, j)
  BY <1>1, <1>2, Forgets DEF Throws, Free
<1>4. ServerMoves(j)
  BY DEF Throws, ServerMoves, PipelineServes
<1> QED
  BY <1>1, <1>3, <1>4, OwnStep DEF Throws

\* A worker that holds the lock version writes the job and returns.
LEMMA WriteStep ==
  ASSUME IInv, TypeOK', NEW j \in Jobs, NEW w \in Workers, worker[w].job = j,
         NEW at \in {"DONE", "ENDED", "BLOCK", "TRIAL"},
         worker' = [Overtaken(j) EXCEPT ![w] = Returned(w, at)],
         UNCHANGED <<pull, token, server>>,
         \A i \in Jobs \ {j} : job'[i] = job[i],
         job'[j].state # "NONE",
         job'[j].state \in {"PR_CREATED", "CI_RUNNING"} => pull[j] \in {0, job'[j].source, Late},
         JobOkay(j)'
  PROVE  IInv'
<1>1. TypeOK
  BY DEF IInv
<1>2. Overtakes(j)
  <2>1. worker'[w].job = j /\ ~worker'[w].current /\ worker'[w].at = at
    BY <1>1, OvertakenWorkers DEF Returned, Idle
  <2>2. ASSUME NEW v \in Workers \ {w} PROVE worker'[v] = Overtaken(j)[v]
    BY <1>1, OvertakenWorkers
  <2>3. ASSUME NEW v \in Workers \ {w}
        PROVE  /\ worker'[v].job = j => ~worker'[v].current
               /\ worker'[v] # worker[v] =>
                    /\ worker[v].job = j /\ worker'[v].job = j
                    /\ worker'[v] = [worker[v] EXCEPT !.current = FALSE]
    <3>1. worker[v] \in Worker
      BY <1>1 DEF TypeOK
    <3>2. CASE worker[v].job = j
      <4>1. worker'[v] = [worker[v] EXCEPT !.current = FALSE]
        BY <1>1, <2>2, <3>2, OvertakenWorkers
      <4> QED
        BY <3>1, <3>2, <4>1 DEF Worker
    <3>3. CASE worker[v].job # j
      BY <1>1, <2>2, <3>3, OvertakenWorkers
    <3> QED
      BY <3>2, <3>3
  <2> QED
    BY <2>1, <2>3 DEF Overtakes
<1> QED
  BY <1>2, OvertakingStep

\* In these states a job is no EXTERNAL_API's.
LEMMA OnlyServers ==
  ASSUME IInv, NEW j \in Jobs, job[j].state \notin ExternalStates \cup GivenUp
  PROVE  job[j].kind = "MCP"
  BY DEF IInv, JobOkay, HasBuilt, TypeOK, Job

\* Steps: the commit the job goes on with is right, and so is the branch.
LEMMA StepsStep ==
  ASSUME IInv, TypeOK', NEW j \in Jobs, NEW w \in Workers, worker[w].at # "IDLE",
         worker[w].job = j,
         NEW to \in JobState \ (GivenUp \cup {"NONE"}), NEW commit \in Heads, Steps(w, to, commit),
         LockMatches(w) =>
           /\ job[j].kind = "MCP"
           /\ to \in {"PR_CREATED", "CI_RUNNING"} => pull[j] \in {0, job[j].source, Late}
           /\ (job[j].kind = "MCP" /\ to \in Built) => commit \in {job[j].source, Late}
  PROVE  IInv'
<1>0. TypeOK /\ JobOkay(j) /\ job[j] \in Job /\ job \in [Jobs -> Job]
  BY DEF IInv, TypeOK
<1>1. CASE Refused(w)
  BY <1>1, ThrowsStep DEF Refused
<1>2. CASE ~Refused(w)
  <2>1. /\ LockMatches(w)
        /\ worker' = [Overtaken(j) EXCEPT ![w] = Returned(w, "DONE")]
        /\ \A i \in Jobs \ {j} : job'[i] = job[i]
        /\ job'[j].state = to /\ job'[j].commit = commit /\ job'[j].kind = job[j].kind
        /\ job'[j].source = job[j].source /\ job'[j].linked = job[j].linked
        /\ UNCHANGED <<pull, token, server>>
    BY <1>0, <1>2 DEF Steps, Job
  <2>2. JobOkay(j)'
    BY <1>0, <2>1 DEF JobOkay, HasBuilt, PipelineServes, GivenUp, Job
  <2> QED
    BY <1>0, <2>1, <2>2, WriteStep
<1> QED
  BY <1>1, <1>2

\* What is known of a worker at work, before its step
LEMMA AtWork ==
  ASSUME IInv, NEW w \in Workers, worker[w].at # "IDLE"
  PROVE  /\ worker[w].job \in Jobs /\ job[worker[w].job].state # "NONE"
         /\ RowAgrees(w) /\ StageAgrees(w) /\ HeadOfSource(w)
         /\ FailedIsDown(w) /\ NotYetGivenUp(w)
         /\ TypeOK
         /\ worker[w] \in Worker /\ worker \in [Workers -> Worker]
         /\ \A j \in Jobs :
              /\ JobOkay(j) /\ BranchOfSource(j)
              /\ job[j] \in Job /\ job \in [Jobs -> Job]
              /\ server[j] \in Server /\ server \in [Jobs -> Server] /\ server[j].state \in ServerState
              /\ pull[j] \in Heads /\ pull \in [Jobs -> Heads]
              /\ job[j].source \in Heads /\ job[j].commit \in Heads
  BY DEF IInv, WorkerOkay, Engaged, TypeOK, Job, Server, Heads

LEMMA LeaseSteps ==
  ASSUME IInv, TypeOK', NEW w \in Workers,
         \/ \E j \in Jobs : Lease(w, j)
         \/ Read(w) \/ End(w) \/ Crash(w)
  PROVE  IInv'
<1>0. TypeOK /\ worker \in [Workers -> Worker] /\ job \in [Jobs -> Job]
  BY DEF IInv, TypeOK
<1>1. ASSUME NEW j \in Jobs, Lease(w, j) PROVE IInv'
  <2>1. /\ \A i \in Jobs \ {j} : job'[i] = job[i]
        /\ job'[j].kind = job[j].kind /\ job'[j].state = job[j].state
        /\ job'[j].source = job[j].source /\ job'[j].commit = job[j].commit
        /\ job'[j].linked = job[j].linked
    BY <1>0, <1>1 DEF Lease, Job
  <2>2. worker'[w].at = "LEASED" /\ worker'[w].job = j /\ UNCHANGED <<pull, token, server>>
    BY <1>0, <1>1 DEF Lease, Idle
  <2>3. GoesOn(w, j)
    BY <1>1, <2>1, <2>2, Forgets DEF Lease, Free
  <2>4. ServerMoves(j)
    BY <2>2 DEF ServerMoves, PipelineServes
  <2>5. \A v \in Workers : worker'[v] = worker[v] \/ GoesOn(v, j)
    BY <1>0, <1>1, <2>3 DEF Lease
  <2> QED
    BY <2>1, <2>2, <2>4, <2>5, QuietStep
<1>2. CASE Read(w)
  <2>1. PICK j \in Jobs : worker[w].job = j
    BY <1>2, AtWork DEF Read
  <2>2. job[j].state # "NONE" /\ worker[w] \in Worker
    BY <1>2, <2>1, AtWork DEF Read
  <2>3. /\ worker'[w].job = j
        /\ \/ worker'[w].at = "WORK" /\ worker'[w].row = RowOf(j)
           \/ worker'[w].at = "FAILING"
        /\ UNCHANGED <<pull, job, token, server>>
    BY <1>0, <1>2, <2>1, <2>2 DEF Read, Worker
  <2>4. GoesOn(w, j)
    BY <2>2, <2>3 DEF GoesOn, WorkerOkay, Engaged, RowAgrees, StageAgrees, HeadOfSource,
       FailedIsDown, NotYetGivenUp, Current, RowOf
  <2>5. ServerMoves(j)
    BY <2>3 DEF ServerMoves, PipelineServes
  <2> QED
    BY <1>2, <2>3, <2>4, <2>5, OwnStep DEF Read
<1>3. CASE End(w) \/ Crash(w)
  <2>1. PICK j \in Jobs : worker[w].job = j
    BY <1>3, AtWork DEF End, Crash
  <2>2. /\ \A i \in Jobs \ {j} : job'[i] = job[i]
        /\ job'[j].kind = job[j].kind /\ job'[j].state = job[j].state
        /\ job'[j].source = job[j].source /\ job'[j].commit = job[j].commit
        /\ job'[j].linked = job[j].linked
    BY <1>0, <1>3, <2>1 DEF End, Crash, Job
  <2>3. worker'[w].at = "IDLE" /\ UNCHANGED <<pull, token, server>>
    BY <1>0, <1>3 DEF End, Crash, Idle
  <2>4. GoesOn(w, j)
    BY <2>3 DEF GoesOn, WorkerOkay, Engaged, RowAgrees, StageAgrees, HeadOfSource, FailedIsDown,
       NotYetGivenUp,
       Current
  <2>5. ServerMoves(j)
    BY <2>3 DEF ServerMoves, PipelineServes
  <2>6. \A v \in Workers : worker'[v] = worker[v] \/ GoesOn(v, j)
    BY <1>0, <1>3, <2>4 DEF End, Crash
  <2> QED
    BY <2>2, <2>3, <2>5, <2>6, QuietStep
<1> QED
  BY <1>1, <1>2, <1>3

\* From the source to the artifact
LEMMA BuildSteps ==
  ASSUME IInv, TypeOK', NEW w \in Workers,
         \/ Push(w) \/ RecordPullRequest(w) \/ StartChecks(w) \/ ChecksFail(w)
         \/ MergePullRequest(w) \/ RecordMerge(w) \/ StartBuild(w) \/ Verified(w)
         \/ Retry(w) \/ Fails(w)
  PROVE  IInv'
<1>1. worker[w].at # "IDLE"
  BY DEF Push, RecordPullRequest, StartChecks, ChecksFail, MergePullRequest, RecordMerge,
         StartBuild, Verified, Retry, Fails, Works
<1>2. PICK j \in Jobs : worker[w].job = j
  BY <1>1, AtWork
<1>3. /\ job[j].state # "NONE" /\ TypeOK /\ worker[w] \in Worker /\ worker \in [Workers -> Worker]
      /\ JobOkay(j) /\ BranchOfSource(j)
      /\ job[j] \in Job /\ pull[j] \in Heads /\ pull \in [Jobs -> Heads]
      /\ job[j].source \in Heads /\ job[j].commit \in Heads /\ worker[w].head \in Heads
      /\ RowAgrees(w) /\ StageAgrees(w) /\ HeadOfSource(w)
  BY <1>1, <1>2, AtWork DEF Worker
<1>4. ASSUME NEW state, Works(w, state)
      PROVE  LockMatches(w) => job[j].state = state
  BY <1>1, <1>2, <1>3, <1>4 DEF Works, LockMatches, RowAgrees, Current, RowOf
<1>5. CASE Push(w)
  <2>1. /\ worker'[w].at = "PUSHED" /\ worker'[w].job = j
        /\ worker'[w].current = worker[w].current
        /\ pull'[j] \in {job[j].source, Late} /\ \A i \in Jobs \ {j} : pull'[i] = pull[i]
        /\ UNCHANGED <<job, token, server>>
    BY <1>2, <1>3, <1>5 DEF Push, Worker
  <2>2. GoesOn(w, j)
    BY <1>3, <1>4, <1>5, <2>1 DEF GoesOn, WorkerOkay, Engaged, RowAgrees, StageAgrees,
       HeadOfSource, FailedIsDown, NotYetGivenUp, Current, Push, LockMatches
  <2>3. ServerMoves(j)
    BY <2>1 DEF ServerMoves, PipelineServes
  <2> QED
    BY <1>5, <2>1, <2>2, <2>3, OwnStep DEF Push
<1>6. CASE RecordPullRequest(w)
  <2>1. LockMatches(w) => pull[j] \in {0, job[j].source, Late} /\ job[j].state = "SOURCE_UPLOADED"
    BY <1>1, <1>2, <1>3, <1>6 DEF RecordPullRequest, LockMatches, BranchOfSource, Pushed, Current,
       StageAgrees
  <2>2. LockMatches(w) => job[j].kind = "MCP"
    BY <2>1, OnlyServers DEF ExternalStates, GivenUp
  <2> QED
    BY <1>1, <1>2, <1>3, <1>6, <2>1, <2>2, StepsStep DEF RecordPullRequest, JobState, GivenUp, Built
<1>7. CASE StartChecks(w)
  <2>1. LockMatches(w) => pull[j] \in {0, job[j].source, Late}
    BY <1>3, <1>4, <1>7 DEF StartChecks, BranchOfSource
  <2> QED
    BY <1>1, <1>2, <1>3, <1>7, <2>1, StepsStep DEF StartChecks, Works, JobState, GivenUp, Built
<1>8. CASE ChecksFail(w)
  BY <1>1, <1>2, <1>3, <1>8, StepsStep DEF ChecksFail, Works, JobState, GivenUp, Built
<1>9. CASE MergePullRequest(w)
  <2>1. /\ worker'[w].at = "MERGED" /\ worker'[w].job = j
        /\ worker'[w].current = worker[w].current /\ worker'[w].head = pull[j]
        /\ pull'[j] = 0 /\ pull[j] # 0 /\ \A i \in Jobs \ {j} : pull'[i] = pull[i]
        /\ UNCHANGED <<job, token, server>>
    BY <1>2, <1>3, <1>9 DEF MergePullRequest, Worker
  <2>2. worker[w].current => job[j].state = "CI_RUNNING" /\ pull[j] \in {job[j].source, Late}
    BY <1>3, <1>4, <1>9, <2>1 DEF MergePullRequest, LockMatches, BranchOfSource
  <2>3. GoesOn(w, j)
    BY <1>3, <2>1, <2>2 DEF GoesOn, WorkerOkay, Engaged, RowAgrees, StageAgrees, HeadOfSource,
       FailedIsDown, NotYetGivenUp, Current
  <2>4. ServerMoves(j)
    BY <2>1 DEF ServerMoves, PipelineServes
  <2> QED
    BY <1>2, <1>9, <2>1, <2>3, <2>4, OwnStep DEF MergePullRequest
<1>10. CASE RecordMerge(w)
  <2>1. LockMatches(w) => worker[w].head \in {job[j].source, Late} /\ job[j].state = "CI_RUNNING"
    BY <1>1, <1>2, <1>3, <1>10 DEF RecordMerge, LockMatches, HeadOfSource, StageAgrees, Current
  <2>2. LockMatches(w) => job[j].kind = "MCP"
    BY <2>1, OnlyServers DEF ExternalStates, GivenUp
  <2> QED
    BY <1>1, <1>2, <1>3, <1>10, <2>1, <2>2, StepsStep DEF RecordMerge, JobState, GivenUp
<1>11. CASE StartBuild(w)
  <2>1. (LockMatches(w) /\ job[j].kind = "MCP") => job[j].commit \in {job[j].source, Late}
    BY <1>3, <1>4, <1>11 DEF StartBuild, JobOkay, HasBuilt, Built
  <2> QED
    BY <1>1, <1>2, <1>3, <1>11, <2>1, StepsStep DEF StartBuild, Works, JobState, GivenUp
<1>12. CASE Verified(w)
  <2>1. (LockMatches(w) /\ job[j].kind = "MCP") => job[j].commit \in {job[j].source, Late}
    BY <1>3, <1>4, <1>12 DEF Verified, JobOkay, HasBuilt, Built
  <2> QED
    BY <1>1, <1>2, <1>3, <1>12, <2>1, StepsStep DEF Verified, Works, JobState, GivenUp
<1>13. CASE Retry(w)
  BY <1>2, <1>3, <1>13, WriteStep DEF Retry, JobOkay, HasBuilt, PipelineServes, BranchOfSource
<1>14. CASE Fails(w)
  BY <1>1, <1>2, <1>14, ThrowsStep DEF Fails
<1> QED
  BY <1>5, <1>6, <1>7, <1>8, <1>9, <1>10, <1>11, <1>12, <1>13, <1>14

\* A worker that goes on and forgets the row
LEMMA GoesAt ==
  ASSUME TypeOK, NEW w \in Workers, NEW at, worker' = Goes(w, at)
  PROVE  /\ worker'[w].at = at /\ worker'[w].job = worker[w].job
         /\ worker'[w].current = worker[w].current
         /\ worker' = [worker EXCEPT ![w] = worker'[w]]
  BY DEF Goes, TypeOK, Worker

\* What a worker transitions, and what it leaves of the job
LEMMA TransitionWrites ==
  ASSUME TypeOK, NEW j \in Jobs, NEW w \in Workers, worker[w].job = j, NEW to, Transition(w, to)
  PROVE  /\ job'[j].state = to /\ job'[j].linked = job[j].linked /\ job'[j].kind = job[j].kind
         /\ job'[j].source = job[j].source /\ job'[j].commit = job[j].commit
         /\ \A i \in Jobs \ {j} : job'[i] = job[i]
  BY DEF Transition, TypeOK, Job

\* A transition to a state that asks for no more of the job than the state before
LEMMA TransitionStep ==
  ASSUME IInv, TypeOK', NEW j \in Jobs, NEW w \in Workers, worker[w].job = j,
         NEW to \in {"TRIAL_TESTING", "REGISTERED_DISABLED", "ACTIVE"}, Transition(w, to),
         job[j].state \in Built, job[j].kind = "MCP",
         NEW at \in {"DONE", "ENDED", "BLOCK", "TRIAL"},
         worker' = [Overtaken(j) EXCEPT ![w] = Returned(w, at)], UNCHANGED <<pull, token, server>>
  PROVE  IInv'
<1>1. JobOkay(j) /\ TypeOK
  BY DEF IInv
<1>2. /\ job'[j].state = to /\ job'[j].linked = job[j].linked /\ job'[j].kind = job[j].kind
      /\ job'[j].source = job[j].source /\ job'[j].commit = job[j].commit
      /\ \A i \in Jobs \ {j} : job'[i] = job[i]
  BY <1>1, TransitionWrites
<1>3. JobOkay(j)'
  BY <1>1, <1>2 DEF JobOkay, HasBuilt, PipelineServes, GivenUp
<1> QED
  BY <1>2, <1>3, WriteStep

\* The server is registered, its trial begins and ends, it is made active.
LEMMA TrialSteps ==
  ASSUME IInv, TypeOK', NEW w \in Workers,
         \/ Deploy(w) \/ RegisterServer(w) \/ FinishDeploy(w)
         \/ StartTrial(w) \/ BeginTrial(w) \/ RollbackTrial(w) \/ Reread(w) \/ ReturnTrial(w)
         \/ RunTrial(w) \/ Activate(w) \/ CloseJob(w)
  PROVE  IInv'
<1>1. worker[w].at # "IDLE"
  BY DEF Deploy, RegisterServer, FinishDeploy, StartTrial, BeginTrial, RollbackTrial, Reread,
         ReturnTrial, Transition, RunTrial, Activate, CloseJob
<1>2. PICK j \in Jobs : worker[w].job = j
  BY <1>1, AtWork
<1>3. /\ job[j].state # "NONE" /\ TypeOK /\ worker[w] \in Worker /\ worker \in [Workers -> Worker]
      /\ JobOkay(j) /\ BranchOfSource(j)
      /\ job[j] \in Job /\ job \in [Jobs -> Job]
      /\ server[j] \in Server /\ server \in [Jobs -> Server] /\ server[j].state \in ServerState
      /\ RowAgrees(w) /\ StageAgrees(w)
  BY <1>1, <1>2, AtWork
<1>4. worker[w].at \in {"WORK", "CLOSE"} /\ worker[w].current => job[j].state = worker[w].row.state
  BY <1>1, <1>2, <1>3 DEF RowAgrees, Current, RowOf
<1>5. server' = server => ServerMoves(j)
  BY DEF ServerMoves, PipelineServes
<1>6. CASE Deploy(w)
  <2>1. /\ worker'[w].at = "DEPLOYED" /\ worker'[w].job = j
        /\ worker'[w].current = worker[w].current
        /\ worker' = [worker EXCEPT ![w] = worker'[w]]
    BY <1>2, <1>3, <1>6, GoesAt DEF Deploy
  <2>2. GoesOn(w, j)
    BY <1>3, <1>4, <1>6, <2>1 DEF GoesOn, WorkerOkay, Engaged, RowAgrees, StageAgrees,
       HeadOfSource, FailedIsDown, NotYetGivenUp, Current, Deploy
  <2> QED
    BY <1>5, <1>6, <2>1, <2>2, OwnStep DEF Deploy
<1>7. CASE RegisterServer(w)
  <2>1. CASE Throws(w, "PLAIN")
    BY <1>1, <1>2, <2>1, ThrowsStep
  <2>2. CASE ~Throws(w, "PLAIN")
    <3>1. /\ job[j].state = "DEPLOYING" /\ worker' = Goes(w, "REGISTERED")
          /\ server' = [server EXCEPT ![j].state = "REGISTERED_DISABLED"]
          /\ UNCHANGED <<pull, job, token>>
      BY <1>2, <1>7, <2>2 DEF RegisterServer
    <3>2. /\ worker'[w].at = "REGISTERED" /\ worker'[w].job = j
          /\ worker' = [worker EXCEPT ![w] = worker'[w]]
      BY <1>2, <1>3, <3>1, GoesAt
    <3>3. GoesOn(w, j)
      BY <1>3, <3>1, <3>2 DEF GoesOn, WorkerOkay, Engaged, RowAgrees, StageAgrees, HeadOfSource,
         FailedIsDown, NotYetGivenUp, Current
    <3>4. ServerMoves(j)
      BY <1>3, <3>1 DEF ServerMoves, PipelineServes, Served
    <3> QED
      BY <3>1, <3>2, <3>3, <3>4, OwnStep
  <2> QED
    BY <2>1, <2>2
<1>8. CASE FinishDeploy(w)
  <2>1. CASE Refused(w)
    BY <1>1, <1>2, <2>1, ThrowsStep DEF Refused
  <2>2. CASE ~Refused(w)
    <3>1. /\ LockMatches(w) /\ worker' = [Overtaken(j) EXCEPT ![w] = Returned(w, "DONE")]
          /\ UNCHANGED <<pull, token, server>>
          /\ job'[j].state = "REGISTERED_DISABLED" /\ job'[j].linked /\ job'[j].kind = job[j].kind
          /\ job'[j].source = job[j].source /\ job'[j].commit = job[j].commit
          /\ \A i \in Jobs \ {j} : job'[i] = job[i]
      BY <1>2, <1>3, <1>8, <2>2 DEF FinishDeploy, Job
    <3>2. job[j].state = "DEPLOYING"
      BY <1>1, <1>2, <1>3, <1>8, <3>1 DEF FinishDeploy, StageAgrees, Current, LockMatches
    <3>3. JobOkay(j)'
      BY <1>3, <3>1, <3>2 DEF JobOkay, HasBuilt, PipelineServes, GivenUp, Built, ExternalStates
    <3> QED
      BY <1>2, <3>1, <3>3, WriteStep
  <2> QED
    BY <2>1, <2>2
<1>9. CASE StartTrial(w)
  <2>1. CASE LockMatches(w)
    <3>1. job[j].state \in Built /\ job[j].kind = "MCP"
      BY <1>2, <1>4, <1>9, <2>1 DEF StartTrial, LockMatches, Built
    <3> QED
      BY <1>2, <1>9, <2>1, <3>1, TransitionStep DEF StartTrial
  <2>2. CASE ~LockMatches(w)
    <3>1. /\ worker'[w].at = "ROLLBACK" /\ worker'[w].job = j
          /\ worker' = [worker EXCEPT ![w] = worker'[w]]
          /\ UNCHANGED <<job, pull, token, server>>
      BY <1>2, <1>3, <1>9, <2>2, GoesAt DEF StartTrial
    <3>2. GoesOn(w, j)
      BY <1>3, <3>1, Forgets DEF Free
    <3> QED
      BY <1>5, <3>1, <3>2, OwnStep
  <2> QED
    BY <2>1, <2>2
<1>10. CASE BeginTrial(w)
  <2>1. /\ worker'[w].at \in {"DONE", "ROLLBACK"} /\ worker'[w].job = j
        /\ worker' = [worker EXCEPT ![w] = worker'[w]]
        /\ UNCHANGED <<job, pull, token>>
    <3>1. CASE worker' = Goes(w, "ROLLBACK")
      BY <1>2, <1>3, <1>10, <3>1, GoesAt DEF BeginTrial
    <3>2. CASE worker' = [worker EXCEPT ![w] = Returned(w, "DONE")]
      BY <1>2, <1>3, <1>10, <3>2 DEF BeginTrial, Returned, Idle
    <3> QED
      BY <1>10, <3>1, <3>2 DEF BeginTrial
  <2>2. GoesOn(w, j)
    BY <1>3, <2>1, Forgets DEF Free
  <2>3. ServerMoves(j) /\ \A i \in Jobs \ {j} : server'[i] = server[i]
    <3>1. CASE server' = server
      BY <1>5, <3>1
    <3>2. CASE server' # server
      <4>1. /\ job[j].linked /\ job[j].state = "TRIAL_TESTING" /\ "TRIAL" \in Follows[server[j].state]
            /\ server' = [server EXCEPT ![j].state = "TRIAL", ![j].by = "PIPELINE"]
        BY <1>2, <1>10, <3>2 DEF BeginTrial, Authorized
      <4>2. server[j].state = "REGISTERED_DISABLED"
        BY <1>3, <4>1, FollowsFacts
      <4> QED
        BY <1>3, <4>1, <4>2 DEF ServerMoves, Down
    <3> QED
      BY <3>1, <3>2
  <2> QED
    BY <2>1, <2>2, <2>3, OwnStep
<1>11. CASE RollbackTrial(w)
  <2>1. /\ worker'[w].at = "REREAD" /\ worker'[w].job = j
        /\ worker' = [worker EXCEPT ![w] = worker'[w]]
        /\ UNCHANGED <<job, pull, token>>
    BY <1>2, <1>3, <1>11, GoesAt DEF RollbackTrial
  <2>2. GoesOn(w, j)
    BY <1>3, <2>1, Forgets DEF Free
  <2>3. ServerMoves(j) /\ \A i \in Jobs \ {j} : server'[i] = server[i]
    BY <1>2, <1>3, <1>11 DEF RollbackTrial, ServerMoves, PipelineServes, Served, Down
  <2> QED
    BY <2>1, <2>2, <2>3, OwnStep
<1>12. CASE Reread(w)
  <2>1. /\ worker'[w].job = j /\ worker' = [worker EXCEPT ![w] = worker'[w]]
        /\ UNCHANGED <<job, pull, token, server>>
        /\ \/ worker'[w].at = "RETURN" /\ job[j].state = "TRIAL_TESTING"
           \/ worker'[w].at = "BLOCK"
           \/ worker'[w].at = "CLOSE" /\ worker'[w].row = RowOf(j)
    BY <1>2, <1>3, <1>12 DEF Reread, Worker
  <2>2. GoesOn(w, j)
    BY <1>3, <2>1 DEF GoesOn, WorkerOkay, Engaged, RowAgrees, StageAgrees, HeadOfSource,
       FailedIsDown, NotYetGivenUp, Current, RowOf
  <2> QED
    BY <1>5, <2>1, <2>2, OwnStep
<1>13. CASE ReturnTrial(w)
  <2>1. CASE Refused(w)
    BY <1>1, <1>2, <2>1, ThrowsStep DEF Refused
  <2>2. CASE ~Refused(w)
    <3>1. job[j].state = "TRIAL_TESTING"
      BY <1>1, <1>2, <1>3, <1>13, <2>2
      DEF ReturnTrial, Transition, StageAgrees, Current, LockMatches
    <3>2. job[j].kind = "MCP" /\ job[j].state \in Built
      BY <3>1, OnlyServers DEF ExternalStates, GivenUp, Built
    <3> QED
      BY <1>2, <1>13, <2>2, <3>2, TransitionStep DEF ReturnTrial
  <2> QED
    BY <2>1, <2>2
<1>14. CASE RunTrial(w)
  <2>1. /\ worker'[w].at = "TRIED" /\ worker'[w].job = j
        /\ worker' = [worker EXCEPT ![w] = worker'[w]]
        /\ UNCHANGED <<job, pull, token, server>>
    BY <1>2, <1>3, <1>14, GoesAt DEF RunTrial
  <2>2. GoesOn(w, j)
    BY <1>3, <2>1, Forgets DEF Free
  <2> QED
    BY <1>5, <2>1, <2>2, OwnStep
<1>15. CASE Activate(w)
  <2>1. CASE Throws(w, "PLAIN")
    BY <1>1, <1>2, <2>1, ThrowsStep
  <2>2. CASE ~Throws(w, "PLAIN")
    <3>1. /\ job[j].linked /\ job[j].state = "TRIAL_TESTING" /\ "ACTIVE" \in Follows[server[j].state]
          /\ server' = [server EXCEPT ![j].state = "ACTIVE", ![j].by = "PIPELINE"]
          /\ worker' = Goes(w, "ACTIVATED")
          /\ UNCHANGED <<job, pull, token>>
      BY <1>2, <1>15, <2>2 DEF Activate, Authorized
    <3>2. server[j].state = "TRIAL"
      BY <1>3, <3>1, FollowsFacts
    <3>3. ServerMoves(j)
      BY <1>3, <3>1, <3>2 DEF ServerMoves, Down
    <3>4. /\ worker'[w].at = "ACTIVATED" /\ worker'[w].job = j
          /\ worker' = [worker EXCEPT ![w] = worker'[w]]
      BY <1>2, <1>3, <3>1, GoesAt
    <3>5. GoesOn(w, j)
      BY <1>3, <3>1, <3>4, Forgets DEF Free
    <3> QED
      BY <1>3, <3>1, <3>3, <3>4, <3>5, OwnStep
  <2> QED
    BY <2>1, <2>2
<1>16. CASE CloseJob(w)
  <2>1. CASE Throws(w, "PLAIN")
    BY <1>1, <1>2, <2>1, ThrowsStep
  <2>2. CASE ~Throws(w, "PLAIN")
    <3>1. job[j].state = "TRIAL_TESTING"
      BY <1>4, <1>16, <2>2 DEF CloseJob, Transition, LockMatches
    <3>2. job[j].kind = "MCP" /\ job[j].state \in Built
      BY <3>1, OnlyServers DEF ExternalStates, GivenUp, Built
    <3> QED
      <4>1. Transition(w, "ACTIVE") /\ worker' = [Overtaken(j) EXCEPT ![w] = Returned(w, "DONE")]
        BY <1>2, <1>16, <2>2 DEF CloseJob
      <4> QED
        BY <1>2, <1>16, <3>2, <4>1, TransitionStep DEF CloseJob
  <2> QED
    BY <2>1, <2>2
<1> QED
  BY <1>6, <1>7, <1>8, <1>9, <1>10, <1>11, <1>12, <1>13, <1>14, <1>15, <1>16

\* A worker gives a job up.
LEMMA FailSteps ==
  ASSUME IInv, TypeOK', NEW w \in Workers, ReadFailed(w) \/ FailServer(w) \/ FailJob(w)
  PROVE  IInv'
<1>1. worker[w].at # "IDLE"
  BY DEF ReadFailed, FailServer, FailJob
<1>2. PICK j \in Jobs : worker[w].job = j
  BY <1>1, AtWork
<1>3. /\ job[j].state # "NONE" /\ TypeOK /\ worker[w] \in Worker /\ worker \in [Workers -> Worker]
      /\ JobOkay(j)
      /\ server[j] \in Server /\ server \in [Jobs -> Server] /\ server[j].state \in ServerState
      /\ RowAgrees(w) /\ FailedIsDown(w) /\ NotYetGivenUp(w)
  BY <1>1, <1>2, AtWork
<1>4. server' = server => ServerMoves(j)
  BY DEF ServerMoves, PipelineServes
<1>5. worker'[w] = Returned(w, "ENDED") => worker'[w].job = j /\ worker'[w].at = "ENDED"
  BY <1>2 DEF Returned, Idle
<1>6. CASE ReadFailed(w)
  <2>1. /\ worker'[w].job = j /\ worker' = [worker EXCEPT ![w] = worker'[w]]
        /\ UNCHANGED <<job, pull, token, server>>
        /\ \/ worker'[w].at = "ENDED"
           \/ /\ worker'[w].at = "FAIL_SERVER" /\ worker'[w].row = RowOf(j)
              /\ job[j].state \notin {"ACTIVE", "FAILED", "QUARANTINED"}
    BY <1>2, <1>3, <1>5, <1>6 DEF ReadFailed, Worker
  <2>2. GoesOn(w, j)
    BY <1>3, <2>1 DEF GoesOn, WorkerOkay, Engaged, RowAgrees, StageAgrees, HeadOfSource,
       FailedIsDown, NotYetGivenUp, Current, RowOf
  <2> QED
    BY <1>4, <2>1, <2>2, OwnStep
<1>7. CASE FailServer(w)
  <2> DEFINE to == IF worker[w].error = "SECURITY" THEN "QUARANTINED" ELSE "TEST_FAILED"
             ends == worker' = [worker EXCEPT ![w] = Returned(w, "ENDED")]
             goes == /\ worker[w].row.state # "CANCELLED"
                     /\ worker' = [worker EXCEPT ![w] = [@ EXCEPT !.at = "FAIL_JOB"]]
  <2>1. UNCHANGED <<job, pull, token>> /\ worker[w].at = "FAIL_SERVER"
    BY <1>7 DEF FailServer
  <2>2. \/ ~worker[w].row.linked /\ (ends \/ goes) /\ server' = server
        \/ to \in Follows[server[j].state] /\ (ends \/ goes)
             /\ server' = [server EXCEPT ![j].state = to]
        \/ ends /\ server' = server
    BY <1>2, <1>7 DEF FailServer
  <2>3. ServerMoves(j) /\ \A i \in Jobs \ {j} : server'[i] = server[i]
    <3>1. server' # server => server' = [server EXCEPT ![j].state = to] /\ to \in Down
      BY <2>2 DEF Down
    <3>2. CASE server' # server
      <4>1. server'[j].state \in Down /\ \A i \in Jobs \ {j} : server'[i] = server[i]
        <5>1. server' = [server EXCEPT ![j].state = to] /\ to \in Down
          BY <3>1, <3>2
        <5>2. server'[j].state = to
          BY <1>3, <5>1 DEF Server
        <5> QED
          BY <1>3, <5>1, <5>2
      <4> QED
        BY <4>1 DEF ServerMoves, PipelineServes, Served, Down
    <3> QED
      BY <1>4, <3>2
  <2>4. CASE ends
    <3>1. GoesOn(w, j)
      BY <1>3, <1>5, <2>1, <2>4, Forgets DEF Free
    <3> QED
      BY <2>1, <2>3, <2>4, <3>1, OwnStep
  <2>5. CASE goes /\ ~ends
    <3>1. /\ worker'[w].at = "FAIL_JOB" /\ worker'[w].job = j
          /\ worker'[w].row = worker[w].row /\ worker'[w].current = worker[w].current
      BY <1>2, <1>3, <2>5 DEF Worker
    <3>2. worker[w].current => worker[w].row = RowOf(j)
      BY <1>2, <1>3, <2>1 DEF RowAgrees, Current
    <3>3. CASE ~worker[w].row.linked /\ server' = server
      <4>1. worker[w].current => ~job[j].linked
        BY <3>2, <3>3 DEF RowOf
      <4>2. GoesOn(w, j)
        BY <1>3, <2>1, <2>5, <3>1, <3>2, <3>3, <4>1
        DEF GoesOn, WorkerOkay, Engaged, RowAgrees, StageAgrees, HeadOfSource, FailedIsDown,
            NotYetGivenUp,
            Current, RowOf, JobOkay, HasBuilt, PipelineServes
      <4> QED
        BY <2>1, <2>3, <2>5, <4>2, OwnStep
    <3>4. CASE server' = [server EXCEPT ![j].state = to]
      <4>1. server'[j].state \in Down
        BY <1>3, <3>4 DEF Down
      <4>2. GoesOn(w, j)
        BY <1>3, <2>1, <2>5, <3>1, <3>2, <4>1
        DEF GoesOn, WorkerOkay, Engaged, RowAgrees, StageAgrees, HeadOfSource, FailedIsDown,
            NotYetGivenUp,
            Current, RowOf, PipelineServes, Served, Down
      <4> QED
        BY <2>1, <2>3, <2>5, <4>2, OwnStep
    <3> QED
      BY <2>2, <2>5, <3>3, <3>4
  <2> QED
    BY <2>2, <2>4, <2>5
<1>8. CASE FailJob(w)
  <2>1. CASE worker' = [worker EXCEPT ![w] = Returned(w, "ENDED")] /\ UNCHANGED job
    <3>1. GoesOn(w, j)
      BY <1>3, <1>5, <2>1, Forgets DEF Free
    <3> QED
      BY <1>4, <1>8, <2>1, <3>1, OwnStep DEF FailJob
  <2>2. ASSUME NEW to \in {"QUARANTINED", "FAILED"}, Transition(w, to),
               worker' = [Overtaken(j) EXCEPT ![w] = Returned(w, "ENDED")]
        PROVE  IInv'
    <3>1. /\ job'[j].state = to /\ job'[j].linked = job[j].linked
          /\ \A i \in Jobs \ {j} : job'[i] = job[i]
      BY <1>2, <1>3, <2>2, TransitionWrites
    <3>2. ~PipelineServes(j)
      BY <1>1, <1>2, <1>3, <1>8, <2>2 DEF FailJob, Transition, LockMatches, FailedIsDown, Current
    <3>3. JobOkay(j)'
      BY <1>8, <3>1, <3>2 DEF FailJob, JobOkay, HasBuilt, PipelineServes, Built, GivenUp
    <3> QED
      BY <1>2, <1>8, <2>2, <3>1, <3>3, WriteStep DEF FailJob
  <2> QED
    BY <1>2, <1>8, <2>1, <2>2 DEF FailJob
<1> QED
  BY <1>6, <1>7, <1>8

-----------------------------------------------------------------------------
(* The theorems *)

LEMMA InvariantStart == Init => IInv
<1> SUFFICES ASSUME Init PROVE IInv
  OBVIOUS
<1>1. 0 \in Sources /\ 0 \in Heads
  BY BoundAssumption DEF Sources, Heads
<1>2. TypeOK
  BY <1>1 DEF Init, TypeOK, Job, JobState, Server, ServerState, Idle, NoRow, Worker, Stage
<1>3. \A w \in Workers : WorkerOkay(w)
  BY DEF Init, Idle, WorkerOkay, Engaged, RowAgrees, StageAgrees, HeadOfSource, FailedIsDown,
     NotYetGivenUp, Current
<1>4. \A j \in Jobs : BranchOfSource(j) /\ JobOkay(j)
  BY DEF Init, Idle, BranchOfSource, Pushed, Current, JobOkay, HasBuilt, PipelineServes, Served,
     GivenUp,
     Built
<1> QED
  BY <1>2, <1>3, <1>4 DEF IInv

LEMMA InvariantStep == IInv /\ [Next]_vars => IInv'
<1> SUFFICES ASSUME IInv, [Next]_vars PROVE IInv'
  OBVIOUS
<1>1. TypeOK /\ \A w \in Workers : Engaged(w)
  BY DEF IInv, WorkerOkay
<1>2. CASE Next
  <2>1. TypeOK'
    BY <1>1, <1>2, TypeByOthers, TypeByWorkers DEF Next
  <2>2. CASE Programmer \/ JobAdministrator \/ ServerAdministrator \/ Monitor \/ Maintenance
             \/ \E j \in Jobs : TokenExpires(j)
    BY <2>1, <2>2, CreateStep, OvertakingSteps, ServerSteps
    DEF Programmer, JobAdministrator, ServerAdministrator, Monitor, Maintenance
  <2>3. ASSUME NEW w \in Workers, Work(w) PROVE IInv'
    BY <2>1, <2>3, LeaseSteps, BuildSteps, TrialSteps, FailSteps DEF Work
  <2> QED
    BY <1>2, <2>2, <2>3 DEF Next
<1>3. CASE UNCHANGED vars
  BY <1>3 DEF vars, IInv, TypeOK, WorkerOkay, Engaged, RowAgrees, StageAgrees, HeadOfSource,
     FailedIsDown, NotYetGivenUp, Current, RowOf, BranchOfSource, Pushed, JobOkay, HasBuilt,
     PipelineServes
<1> QED
  BY <1>2, <1>3

\* What the workers, the programmers, the administrators, the monitor and the
\* passing of time leave of a job and its server at any moment
THEOREM Invariance == Spec => []IInv
  BY InvariantStart, InvariantStep, PTL DEF Spec

\* The rows, the tokens and the workers have their types.
THEOREM TypeCorrect == Spec => []TypeOK
<1>1. IInv => TypeOK
  BY DEF IInv
<1> QED
  BY <1>1, Invariance, PTL

\* The server of a job that was given up is served only if an administrator had it
\* served, however many workers believe they hold the job.
THEOREM GivenUpStaysDown == Spec => []GivenUpNotServed
<1>1. IInv => GivenUpNotServed
  BY DEF IInv, JobOkay, HasBuilt, PipelineServes, GivenUpNotServed
<1> QED
  BY <1>1, Invariance, PTL

\* What is merged, built, verified and deployed is of the source in the row, or of
\* what an overtaken worker has forced into the branch.
THEOREM ArtifactCorrect == Spec => []ArtifactOfSource
<1>1. IInv => ArtifactOfSource
  BY DEF IInv, JobOkay, ArtifactOfSource
<1> QED
  BY <1>1, Invariance, PTL

-----------------------------------------------------------------------------
(* The refinement of JobLifecycle: what a step on one job makes of what the  *)
(* lifecycle sees                                                            *)

\* The lifecycle sees a step on job j alone.
Alone(j) ==
  \A i \in Jobs \ {j} :
    /\ job'[i].kind = job[i].kind /\ job'[i].state = job[i].state
    /\ job'[i].source = job[i].source /\ job'[i].commit = job[i].commit
    /\ server'[i] = server[i]

\* The artifact of a job, as the lifecycle sees it
Merged(j) == IF HasBuilt(j) THEN job[j].commit ELSE 0

LEMMA Seen ==
  ASSUME NEW j \in Jobs
  PROVE  /\ Kinds[j] = job[j].kind /\ States[j] = job[j].state /\ Revisions[j] = job[j].source
         /\ Artifacts[j] = Merged(j) /\ Serving[j] = PipelineServes(j)
  BY DEF Kinds, States, Revisions, Artifacts, Serving, Merged

LEMMA SeenAlone ==
  ASSUME NEW j \in Jobs, Alone(j)
  PROVE  /\ Kinds' = [Kinds EXCEPT ![j] = job'[j].kind]
         /\ States' = [States EXCEPT ![j] = job'[j].state]
         /\ Revisions' = [Revisions EXCEPT ![j] = job'[j].source]
         /\ Artifacts' = [Artifacts EXCEPT ![j] = Merged(j)']
         /\ Serving' = [Serving EXCEPT ![j] = PipelineServes(j)']
         /\ job'[j].kind = job[j].kind => Kinds' = Kinds
         /\ job'[j].state = job[j].state => States' = States
         /\ job'[j].source = job[j].source => Revisions' = Revisions
         /\ Merged(j)' = Merged(j) => Artifacts' = Artifacts
         /\ PipelineServes(j)' = PipelineServes(j) => Serving' = Serving
<1>1. /\ Kinds' = [Kinds EXCEPT ![j] = job'[j].kind]
      /\ job'[j].kind = job[j].kind => Kinds' = Kinds
  BY DEF Alone, Kinds
<1>2. /\ States' = [States EXCEPT ![j] = job'[j].state]
      /\ job'[j].state = job[j].state => States' = States
  BY DEF Alone, States
<1>3. /\ Revisions' = [Revisions EXCEPT ![j] = job'[j].source]
      /\ job'[j].source = job[j].source => Revisions' = Revisions
  BY DEF Alone, Revisions
<1>4. /\ Artifacts' = [Artifacts EXCEPT ![j] = Merged(j)']
      /\ Merged(j)' = Merged(j) => Artifacts' = Artifacts
  BY DEF Alone, Artifacts, Merged, HasBuilt
<1>5. \A i \in Jobs \ {j} : PipelineServes(i)' = PipelineServes(i)
  BY DEF Alone, PipelineServes
<1>6. Serving' = [Serving EXCEPT ![j] = PipelineServes(j)']
  BY <1>5 DEF Serving
<1>7. PipelineServes(j)' = PipelineServes(j) => Serving' = Serving
  BY <1>5 DEF Serving
<1> QED
  BY <1>1, <1>2, <1>3, <1>4, <1>6, <1>7

\* Whether the pipeline has the server served may change alone: it may end at any
\* time, and begins in a trial.
LEMMA ServingStep ==
  ASSUME NEW j \in Jobs, Alone(j), UNCHANGED asked,
         job'[j].kind = job[j].kind, job'[j].state = job[j].state,
         job'[j].source = job[j].source, Merged(j)' = Merged(j),
         PipelineServes(j)' => PipelineServes(j) \/ job[j].state = "TRIAL_TESTING"
  PROVE  [Lifecycle!Next]_(Lifecycle!vars)
<1>1. UNCHANGED <<Kinds, States, Revisions, Artifacts>>
  BY SeenAlone
<1>2. CASE ~PipelineServes(j)'
  <2>1. Serving' = [Serving EXCEPT ![j] = FALSE]
    <3>1. PipelineServes(j)' = FALSE
      BY <1>2 DEF PipelineServes
    <3> QED
      BY <3>1, SeenAlone
  <2> QED
    BY <1>1, <2>1 DEF Lifecycle!Next, Lifecycle!Stop
<1>3. CASE PipelineServes(j)' /\ PipelineServes(j)
  <2>1. PipelineServes(j)' = PipelineServes(j)
    BY <1>3 DEF PipelineServes
  <2> QED
    BY <1>1, <2>1, SeenAlone DEF Lifecycle!vars
<1>4. CASE PipelineServes(j)' /\ job[j].state = "TRIAL_TESTING"
  <2>1. Serving' = [Serving EXCEPT ![j] = TRUE]
    <3>1. PipelineServes(j)' = TRUE
      BY <1>4 DEF PipelineServes
    <3> QED
      BY <3>1, SeenAlone
  <2> QED
    BY <1>1, <1>4, <2>1, Seen DEF Lifecycle!Next, Lifecycle!Serve
<1> QED
  BY <1>2, <1>3, <1>4

\* A worker carries the job one state further, or back.
LEMMA AdvanceStep ==
  ASSUME NEW j \in Jobs, Alone(j), UNCHANGED asked, UNCHANGED server,
         job[j].kind = "MCP", job'[j].kind = job[j].kind, job'[j].source = job[j].source,
         <<job[j].state, job'[j].state>> \in Lifecycle!Way \cup Lifecycle!Back,
         job'[j].commit = job[j].commit \/ job'[j].state = "PR_CREATED"
  PROVE  Lifecycle!Advance(j)
<1>1. Merged(j)' = Merged(j)
  BY DEF Merged, HasBuilt, Built, Lifecycle!Way, Lifecycle!Back
<1>2. PipelineServes(j)' = PipelineServes(j)
  BY DEF PipelineServes
<1>3. job'[j].state \in {"PR_CREATED", "CI_RUNNING", "ARTIFACT_BUILDING", "DEPLOYING",
                         "REGISTERED_DISABLED", "TRIAL_TESTING", "ACTIVE", "AWAITING_REVISION"}
  BY DEF Lifecycle!Way, Lifecycle!Back
<1> QED
  BY <1>1, <1>2, <1>3, Seen, SeenAlone DEF Lifecycle!Advance

\* The merge of the source, or of what an overtaken worker has pushed
LEMMA MergeStep ==
  ASSUME NEW j \in Jobs, Alone(j), UNCHANGED asked, UNCHANGED server,
         job[j].kind = "MCP", job'[j].kind = job[j].kind, job'[j].source = job[j].source,
         job[j].state = "CI_RUNNING", job'[j].state = "MERGED",
         job'[j].commit \in {job[j].source, Late}
  PROVE  Lifecycle!Merge(j)
<1>1. Merged(j)' \in {Revisions[j], Late}
  BY Seen DEF Merged, HasBuilt, Built
<1>2. PipelineServes(j)' = PipelineServes(j)
  BY DEF PipelineServes
<1> QED
  BY <1>1, <1>2, Seen, SeenAlone DEF Lifecycle!Merge

\* In a state that has nothing built there is no artifact.
LEMMA NothingMerged ==
  ASSUME NEW j \in Jobs, job'[j].state \notin Built
  PROVE  Merged(j)' = 0
  BY DEF Merged, HasBuilt

LEMMA GiveUpStep ==
  ASSUME NEW j \in Jobs, Alone(j), UNCHANGED asked, UNCHANGED server, ~PipelineServes(j),
         job[j].state \notin GivenUp \cup {"NONE", "ACTIVE"},
         job'[j].state \in {"FAILED", "QUARANTINED"},
         job'[j].kind = job[j].kind, job'[j].source = job[j].source
  PROVE  Lifecycle!GiveUp(j)
<1>1. Merged(j)' = 0 /\ PipelineServes(j)' = PipelineServes(j)
  BY NothingMerged DEF Built, PipelineServes
<1>2. ~Serving[j]
  BY Seen
<1> QED
  BY <1>1, <1>2, Seen, SeenAlone DEF Lifecycle!GiveUp, Lifecycle!GivenUp, GivenUp

LEMMA CutStep ==
  ASSUME NEW j \in Jobs, Alone(j), UNCHANGED asked, ~PipelineServes(j)',
         \/ job[j].state \notin {"NONE", "QUARANTINED", "CANCELLED"} /\ job'[j].state = "CANCELLED"
         \/ job[j].state = "ACTIVE" /\ job'[j].state = "QUARANTINED",
         job'[j].kind = job[j].kind, job'[j].source = job[j].source
  PROVE  Lifecycle!Cut(j)
<1>1. Merged(j)' = 0
  BY NothingMerged DEF Built
<1>2. PipelineServes(j)' = FALSE
  BY DEF PipelineServes
<1> QED
  BY <1>1, <1>2, Seen, SeenAlone DEF Lifecycle!Cut

LEMMA ReopenStep ==
  ASSUME NEW j \in Jobs, Alone(j), UNCHANGED asked, UNCHANGED server,
         job[j].state \in {"QUARANTINED", "ACTIVE"}, job'[j].state = "AWAITING_REVISION",
         job'[j].kind = job[j].kind, job'[j].source = job[j].source
  PROVE  Lifecycle!Reopen(j)
<1>1. Merged(j)' = 0 /\ PipelineServes(j)' = PipelineServes(j)
  BY NothingMerged DEF Built, PipelineServes
<1> QED
  BY <1>1, Seen, SeenAlone DEF Lifecycle!Reopen

LEMMA ReviseStep ==
  ASSUME NEW j \in Jobs, Alone(j), UNCHANGED server,
         \/ /\ job[j].kind = "MCP" /\ job[j].state \in {"AWAITING_REVISION", "FAILED"}
            /\ job'[j].state = "SOURCE_UPLOADED"
         \/ /\ job[j].kind = "EXTERNAL" /\ job[j].state # "NONE"
            /\ job'[j].state = "REGISTERED_DISABLED",
         job'[j].kind = job[j].kind,
         asked[j] # 0, asked' = [asked EXCEPT ![j] = @ - 1],
         job[j].source < MaxSource, job'[j].source = job[j].source + 1
  PROVE  Lifecycle!Revise(j)
<1>1. Merged(j)' = Merged(j) /\ PipelineServes(j)' = PipelineServes(j)
  BY DEF Merged, HasBuilt, Built, PipelineServes
<1> QED
  BY <1>1, Seen, SeenAlone DEF Lifecycle!Revise

LEMMA SubmitStep ==
  ASSUME NEW j \in Jobs, Alone(j), UNCHANGED asked, UNCHANGED server, job[j].state = "NONE",
         \/ job'[j].kind = "MCP" /\ job'[j].state = "SOURCE_UPLOADED"
         \/ job'[j].kind = "EXTERNAL" /\ job'[j].state = "REGISTERED_DISABLED",
         job'[j].source = 1
  PROVE  Lifecycle!Submit(j)
<1>1. Merged(j)' = Merged(j) /\ PipelineServes(j)' = PipelineServes(j)
  BY DEF Merged, HasBuilt, Built, PipelineServes
<1> QED
  BY <1>1, Seen, SeenAlone DEF Lifecycle!Submit

-----------------------------------------------------------------------------
(* Every step is one of the lifecycle or none. *)

\* The programmer, the administrators, the monitor, the maintenance
LEMMA OthersRefine ==
  ASSUME IInv, NEW j \in Jobs,
         \/ \E kind \in {"MCP", "EXTERNAL"} : Create(j, kind)
         \/ Authenticate(j) \/ Replace(j) \/ UpdateExternal(j) \/ Cancel(j) \/ Pause(j)
         \/ Release(j) \/ BeginRevision(j) \/ RevokeToken(j) \/ TokenExpires(j)
         \/ \E enabled \in BOOLEAN : SetServerEnabled(j, enabled)
         \/ Promote(j) \/ Delete(j) \/ Quarantine(j) \/ Suspend(j)
  PROVE  [Lifecycle!Next]_(Lifecycle!vars)
<1>0. /\ TypeOK /\ job[j] \in Job /\ job \in [Jobs -> Job]
      /\ server[j] \in Server /\ server \in [Jobs -> Server]
      /\ PipelineServes(j) => job[j].linked
      /\ job[j].state = "CANCELLED" => token[j] # "LIVE"
  BY DEF IInv, TypeOK, JobOkay
<1>1. ASSUME NEW kind \in {"MCP", "EXTERNAL"}, Create(j, kind) PROVE Lifecycle!Submit(j)
  BY <1>0, <1>1, SubmitStep DEF Create, Alone, Job
<1>2. ASSUME Replace(j) \/ UpdateExternal(j) PROVE Lifecycle!Revise(j)
  BY <1>0, <1>2, ReviseStep DEF Replace, UpdateExternal, Revises, Open, Alone, Job
<1>3. ASSUME Cancel(j) \/ Pause(j) PROVE Lifecycle!Cut(j)
  <2>1. server' = Disabled(j)
    BY <1>3 DEF Cancel, Pause
  <2>2. ~PipelineServes(j)'
    BY <1>0, <2>1, DisabledServer DEF PipelineServes
  <2>3. /\ \A i \in Jobs \ {j} : server'[i] = server[i] /\ job'[i] = job[i]
        /\ job'[j].state = "CANCELLED" /\ job[j].state \notin {"NONE", "QUARANTINED", "CANCELLED"}
        /\ job'[j].kind = job[j].kind /\ job'[j].source = job[j].source
    BY <1>0, <1>3, <2>1, DisabledServer DEF Cancel, Pause, Expirable, GivenUp, Job
  <2> QED
    BY <1>3, <2>2, <2>3, CutStep DEF Alone, Cancel, Pause
<1>4. ASSUME Release(j) \/ BeginRevision(j) PROVE Lifecycle!Reopen(j)
  BY <1>0, <1>4, ReopenStep DEF Release, BeginRevision, Alone, Job
<1>5. ASSUME UNCHANGED <<job, asked>>, \A i \in Jobs \ {j} : server'[i] = server[i],
             server'[j].state \notin Served \/ server'[j].by = "ADMIN" \/ server' = server
      PROVE  [Lifecycle!Next]_(Lifecycle!vars)
  BY <1>5, ServingStep DEF Alone, Merged, HasBuilt, PipelineServes
<1>6. ASSUME RevokeToken(j) \/ TokenExpires(j) PROVE [Lifecycle!Next]_(Lifecycle!vars)
  BY <1>5, <1>6 DEF RevokeToken, TokenExpires
<1>7. ASSUME (\E enabled \in BOOLEAN : SetServerEnabled(j, enabled)) \/ Promote(j)
      PROVE  [Lifecycle!Next]_(Lifecycle!vars)
  <2>1. PICK to : AdminSets(j, to)
    BY <1>7 DEF SetServerEnabled, Promote
  <2>2. /\ UNCHANGED <<job, asked>> /\ \A i \in Jobs \ {j} : server'[i] = server[i]
        /\ server'[j].by = "ADMIN"
    BY <1>0, <2>1 DEF AdminSets, Server
  <2> QED
    BY <1>5, <2>2
<1>8. ASSUME Suspend(j) PROVE [Lifecycle!Next]_(Lifecycle!vars)
  BY <1>0, <1>5, <1>8 DEF Suspend, Server, Served
<1>9. ASSUME Delete(j) \/ Quarantine(j) PROVE [Lifecycle!Next]_(Lifecycle!vars)
  <2>1. /\ \A i \in Jobs \ {j} : server'[i] = server[i] /\ job'[i] = job[i]
        /\ job'[j].kind = job[j].kind /\ job'[j].source = job[j].source
        /\ job'[j].commit = job[j].commit /\ UNCHANGED asked
        /\ server'[j].state \in {"RETIRED", "QUARANTINED"}
        /\ \/ job'[j].state = job[j].state
           \/ /\ job'[j].state = "CANCELLED"
              /\ job[j].state \in {"ACTIVE", "REGISTERED_DISABLED", "TRIAL_TESTING"}
           \/ job'[j].state = "QUARANTINED" /\ job[j].state = "ACTIVE"
    BY <1>0, <1>9 DEF Delete, Quarantine, Job, Server
  <2>2. Alone(j) /\ ~PipelineServes(j)'
    BY <2>1 DEF Alone, PipelineServes, Served
  <2>3. CASE job'[j].state = job[j].state
    BY <2>1, <2>2, <2>3, ServingStep DEF Merged, HasBuilt
  <2>4. CASE job'[j].state # job[j].state
    BY <2>1, <2>2, <2>4, CutStep DEF Lifecycle!Next
  <2> QED
    BY <2>3, <2>4
<1>10. ASSUME Authenticate(j) PROVE Lifecycle!Ask(j)
  <2>1. UNCHANGED <<Kinds, States, Revisions, Artifacts>>
    BY <1>10 DEF Authenticate, Kinds, States, Revisions, Artifacts, HasBuilt
  <2>2. UNCHANGED Serving
    BY <1>10 DEF Authenticate, Serving, PipelineServes
  <2>3. States[j] \notin {"NONE", "CANCELLED"}
    BY <1>0, <1>10, Seen DEF Authenticate
  <2> QED
    BY <1>10, <2>1, <2>2, <2>3 DEF Authenticate, Lifecycle!Ask
<1> QED
  BY <1>1, <1>2, <1>3, <1>4, <1>6, <1>7, <1>8, <1>9, <1>10 DEF Lifecycle!Next

\* No worker has a part in the programmer's revisions.
LEMMA WorkersAskNothing ==
  ASSUME NEW w \in Workers, Work(w)
  PROVE  UNCHANGED asked
<1>1. ASSUME NEW to, NEW commit, Steps(w, to, commit) PROVE UNCHANGED asked
  BY <1>1 DEF Steps
<1> QED
  BY <1>1
  DEF Work, Lease, Read, End, Crash, Push, RecordPullRequest, StartChecks, ChecksFail,
      MergePullRequest, RecordMerge, StartBuild, Verified, Retry, Fails, Throws, Deploy,
      RegisterServer, FinishDeploy, StartTrial, BeginTrial, RollbackTrial, Reread, ReturnTrial,
      RunTrial, Activate, CloseJob, ReadFailed, FailServer, FailJob

\* A step of a worker writes its job as the lock version allows, or moves its
\* server, or does neither.
LEMMA WorkersRefine ==
  ASSUME IInv, NEW w \in Workers, Work(w)
  PROVE  [Lifecycle!Next]_(Lifecycle!vars)
<1>0. /\ TypeOK /\ job \in [Jobs -> Job] /\ server \in [Jobs -> Server]
      /\ UNCHANGED asked
  BY WorkersAskNothing DEF IInv, TypeOK
<1>1. ASSUME NEW j \in Jobs, UNCHANGED server, \A i \in Jobs \ {j} : job'[i] = job[i],
             job'[j].kind = job[j].kind, job'[j].state = job[j].state,
             job'[j].source = job[j].source, job'[j].commit = job[j].commit
      PROVE  [Lifecycle!Next]_(Lifecycle!vars)
  BY <1>0, <1>1, ServingStep DEF Alone, Merged, HasBuilt, PipelineServes
<1>2. CASE (\E j \in Jobs : Lease(w, j)) \/ End(w) \/ Crash(w)
  <2>1. PICK j \in Jobs : job' = job \/ \E owner : job' = [job EXCEPT ![j].owner = owner]
    BY <1>2, AtWork DEF Lease, End, Crash
  <2>2. UNCHANGED server
    BY <1>2 DEF Lease, End, Crash
  <2> QED
    BY <1>0, <1>1, <2>1, <2>2 DEF Job
<1>3. CASE worker[w].at # "IDLE"
  <2>1. PICK j \in Jobs : worker[w].job = j
    BY <1>3, AtWork
  <2>2. /\ job[j].state # "NONE" /\ job[j] \in Job
        /\ RowAgrees(w) /\ StageAgrees(w) /\ HeadOfSource(w)
        /\ FailedIsDown(w) /\ NotYetGivenUp(w)
        /\ server[j] \in Server /\ server[j].state \in ServerState
    BY <1>3, <2>1, AtWork
  <2>3. UNCHANGED <<job, server>> => [Lifecycle!Next]_(Lifecycle!vars)
    BY <1>1
  <2>4. worker[w].at \in {"WORK", "CLOSE", "FAIL_JOB"} /\ LockMatches(w)
          => job[j].state = worker[w].row.state
    BY <1>3, <2>1, <2>2 DEF LockMatches, RowAgrees, Current, RowOf
  <2>5. LockMatches(w) =>
          /\ worker[w].at = "PUSHED" => job[j].state = "SOURCE_UPLOADED"
          /\ worker[w].at = "MERGED" => /\ job[j].state = "CI_RUNNING"
                                        /\ worker[w].head \in {job[j].source, Late}
          /\ worker[w].at = "REGISTERED" => job[j].state = "DEPLOYING"
          /\ worker[w].at = "RETURN" => job[j].state = "TRIAL_TESTING"
    BY <1>3, <2>1, <2>2 DEF LockMatches, StageAgrees, HeadOfSource, Current
  <2>6. job[j].state \notin ExternalStates \cup GivenUp => job[j].kind = "MCP"
    BY OnlyServers
  \* a step of process that has written the job
  <2>7. ASSUME NEW to, NEW commit, Steps(w, to, commit),
               LockMatches(w) =>
                 /\ <<job[j].state, to>> \in Lifecycle!Way \cup Lifecycle!Back \/ to = "MERGED"
                 /\ commit = job[j].commit \/ to \in {"PR_CREATED", "MERGED"}
                 /\ to = "MERGED" =>
                      job[j].state = "CI_RUNNING" /\ commit \in {job[j].source, Late}
                 /\ job[j].kind = "MCP"
        PROVE  [Lifecycle!Next]_(Lifecycle!vars)
    <3>1. CASE Refused(w)
      BY <2>3, <3>1 DEF Refused, Throws
    <3>2. CASE ~Refused(w)
      <4>1. /\ LockMatches(w) /\ UNCHANGED server
            /\ \A i \in Jobs \ {j} : job'[i] = job[i]
            /\ job'[j].state = to /\ job'[j].commit = commit
            /\ job'[j].kind = job[j].kind /\ job'[j].source = job[j].source
        BY <1>0, <2>1, <2>7, <3>2 DEF Steps, Job
      <4>2. Alone(j)
        BY <4>1 DEF Alone
      <4>3. CASE to = "MERGED"
        BY <1>0, <2>7, <4>1, <4>2, <4>3, MergeStep DEF Lifecycle!Next
      <4>4. CASE to # "MERGED"
        BY <1>0, <2>7, <4>1, <4>2, <4>4, AdvanceStep DEF Lifecycle!Next
      <4> QED
        BY <4>3, <4>4
    <3> QED
      BY <3>1, <3>2
  \* a transition that keeps the artifact
  <2>8. ASSUME NEW to, Transition(w, to), UNCHANGED server, job[j].kind = "MCP",
               <<job[j].state, to>> \in Lifecycle!Way \cup Lifecycle!Back
        PROVE  [Lifecycle!Next]_(Lifecycle!vars)
    BY <1>0, <2>1, <2>8, TransitionWrites, AdvanceStep DEF Alone, Lifecycle!Next
  <2>9. CASE RecordPullRequest(w)
    <3>1. LockMatches(w) => job[j].kind = "MCP"
      BY <2>5, <2>6, <2>9 DEF RecordPullRequest, ExternalStates, GivenUp
    <3> QED
      BY <2>1, <2>5, <2>7, <2>9, <3>1 DEF RecordPullRequest, Lifecycle!Way
  <2>10. CASE RecordMerge(w)
    <3>1. LockMatches(w) => job[j].kind = "MCP"
      BY <2>5, <2>6, <2>10 DEF RecordMerge, ExternalStates, GivenUp
    <3> QED
      BY <2>1, <2>5, <2>7, <2>10, <3>1 DEF RecordMerge
  <2>11. CASE StartChecks(w) \/ ChecksFail(w) \/ StartBuild(w) \/ Verified(w)
    BY <2>1, <2>4, <2>7, <2>11
    DEF StartChecks, ChecksFail, StartBuild, Verified, Works, Lifecycle!Way, Lifecycle!Back
  <2>12. CASE FinishDeploy(w)
    <3>1. CASE Refused(w)
      BY <2>3, <2>12, <3>1 DEF FinishDeploy, Refused, Throws
    <3>2. CASE ~Refused(w)
      <4>1. /\ LockMatches(w) /\ UNCHANGED server
            /\ \A i \in Jobs \ {j} : job'[i] = job[i]
            /\ job'[j].state = "REGISTERED_DISABLED" /\ job'[j].commit = job[j].commit
            /\ job'[j].kind = job[j].kind /\ job'[j].source = job[j].source
        BY <1>0, <2>1, <2>12, <3>2 DEF FinishDeploy, Job
      <4>2. job[j].state = "DEPLOYING" /\ job[j].kind = "MCP"
        BY <2>5, <2>6, <2>12, <4>1 DEF FinishDeploy, ExternalStates, GivenUp
      <4> QED
        BY <1>0, <4>1, <4>2, AdvanceStep DEF Alone, Lifecycle!Way, Lifecycle!Next
    <3> QED
      BY <3>1, <3>2
  <2>13. CASE StartTrial(w)
    BY <2>1, <2>3, <2>4, <2>8, <2>13 DEF StartTrial, LockMatches, Lifecycle!Way
  <2>14. CASE ReturnTrial(w)
    <3>1. CASE Transition(w, "REGISTERED_DISABLED")
      <4>1. job[j].state = "TRIAL_TESTING" /\ job[j].kind = "MCP"
        BY <2>5, <2>6, <2>14, <3>1 DEF ReturnTrial, Transition, ExternalStates, GivenUp
      <4> QED
        BY <2>8, <2>14, <3>1, <4>1 DEF ReturnTrial, Lifecycle!Back
    <3> QED
      BY <2>3, <2>14, <3>1 DEF ReturnTrial, Refused, Throws
  <2>15. CASE CloseJob(w)
    <3>1. CASE worker[w].row.state = "TRIAL_TESTING" /\ Transition(w, "ACTIVE")
      <4>1. job[j].state = "TRIAL_TESTING" /\ job[j].kind = "MCP"
        BY <2>4, <2>6, <2>15, <3>1 DEF CloseJob, Transition, ExternalStates, GivenUp
      <4> QED
        BY <2>8, <2>15, <3>1, <4>1 DEF CloseJob, Lifecycle!Way
    <3> QED
      BY <2>3, <2>15, <3>1 DEF CloseJob, Throws
  <2>16. CASE FailJob(w)
    <3>1. ASSUME NEW to \in {"QUARANTINED", "FAILED"}, Transition(w, to)
          PROVE  Lifecycle!GiveUp(j)
      <4>1. job[j].state \notin GivenUp \cup {"NONE", "ACTIVE"} /\ ~PipelineServes(j)
        BY <1>3, <2>1, <2>2, <2>4, <2>16, <3>1
        DEF FailJob, FailedIsDown, NotYetGivenUp, Transition, LockMatches, Current, GivenUp
      <4> QED
        BY <1>0, <2>1, <2>16, <3>1, <4>1, TransitionWrites, GiveUpStep DEF FailJob, Alone
    <3> QED
      BY <2>3, <2>16, <3>1 DEF FailJob, Lifecycle!Next
  \* a step that moves the server alone
  <2>17. ASSUME UNCHANGED job, \A i \in Jobs \ {j} : server'[i] = server[i],
                \/ server'[j].state \notin Served
                \/ job[j].state = "TRIAL_TESTING"
         PROVE  [Lifecycle!Next]_(Lifecycle!vars)
    BY <1>0, <2>17, ServingStep DEF Alone, Merged, HasBuilt, PipelineServes
  <2>18. CASE RegisterServer(w) \/ RollbackTrial(w) \/ FailServer(w)
    <3>1. CASE server' = server
      BY <2>3, <2>18, <3>1 DEF RegisterServer, RollbackTrial, FailServer, Throws
    <3>2. CASE server' # server
      <4>1. \E to \in {"REGISTERED_DISABLED", "TEST_FAILED", "QUARANTINED"} :
              server' = [server EXCEPT ![j].state = to]
        BY <2>1, <2>18, <3>2 DEF RegisterServer, RollbackTrial, FailServer, Throws
      <4>2. UNCHANGED job
        BY <2>18 DEF RegisterServer, RollbackTrial, FailServer, Throws
      <4> QED
        BY <1>0, <2>17, <4>1, <4>2 DEF Server, Served
    <3> QED
      BY <3>1, <3>2
  <2>19. CASE BeginTrial(w) \/ Activate(w)
    <3>1. CASE server' = server
      BY <2>3, <2>19, <3>1 DEF BeginTrial, Activate, Throws
    <3>2. CASE server' # server
      <4>1. /\ job[j].state = "TRIAL_TESTING" /\ UNCHANGED job
            /\ \A i \in Jobs \ {j} : server'[i] = server[i]
        BY <1>0, <2>1, <2>19, <3>2 DEF BeginTrial, Activate, Authorized, Throws
      <4> QED
        BY <2>17, <4>1
    <3> QED
      BY <3>1, <3>2
  <2>20. CASE \/ Read(w) \/ Push(w) \/ MergePullRequest(w) \/ Retry(w) \/ Fails(w) \/ Deploy(w)
              \/ Reread(w) \/ RunTrial(w) \/ ReadFailed(w)
    BY <2>3, <2>20
    DEF Read, Push, MergePullRequest, Retry, Fails, Throws, Deploy, Reread, RunTrial, ReadFailed
  <2> QED
    BY <1>2, <1>3, <2>9, <2>10, <2>11, <2>12, <2>13, <2>14, <2>15, <2>16, <2>18, <2>19, <2>20
    DEF Work
<1>4. CASE worker[w].at = "IDLE"
  BY <1>2, <1>4
  DEF Work, Read, Push, RecordPullRequest, StartChecks, ChecksFail, MergePullRequest, RecordMerge,
      StartBuild, Verified, Retry, Fails, Deploy, RegisterServer, FinishDeploy, StartTrial,
      BeginTrial, RollbackTrial, Reread, ReturnTrial, RunTrial, Activate, CloseJob, ReadFailed,
      FailServer, FailJob, Works
<1> QED
  BY <1>3, <1>4

LEMMA RefinementStep == IInv /\ [Next]_vars => [Lifecycle!Next]_(Lifecycle!vars)
<1> SUFFICES ASSUME IInv, [Next]_vars PROVE [Lifecycle!Next]_(Lifecycle!vars)
  OBVIOUS
<1>1. CASE Next
  BY <1>1, OthersRefine, WorkersRefine
  DEF Next, Programmer, JobAdministrator, ServerAdministrator, Monitor, Maintenance
<1>2. CASE UNCHANGED vars
  <2>1. UNCHANGED <<Kinds, States, Revisions, Artifacts, asked>>
    BY <1>2 DEF vars, Kinds, States, Revisions, Artifacts, HasBuilt
  <2>2. UNCHANGED Serving
    BY <1>2 DEF vars, Serving, PipelineServes
  <2> QED
    BY <2>1, <2>2 DEF Lifecycle!vars
<1> QED
  BY <1>1, <1>2

LEMMA RefinementStart == Init => Lifecycle!Init
<1> SUFFICES ASSUME Init PROVE Lifecycle!Init
  OBVIOUS
<1>1. \A j \in Jobs : PipelineServes(j) = FALSE
  BY DEF Init, PipelineServes, Served
<1>2. Serving = [j \in Jobs |-> FALSE]
  BY <1>1 DEF Serving
<1>3. /\ Kinds = [j \in Jobs |-> "MCP"] /\ States = [j \in Jobs |-> "NONE"]
      /\ Revisions = [j \in Jobs |-> 0] /\ Artifacts = [j \in Jobs |-> 0]
  BY DEF Init, Kinds, States, Revisions, Artifacts, HasBuilt, Built
<1> QED
  BY <1>2, <1>3 DEF Init, Lifecycle!Init

\* The pipeline implements JobLifecycle: each job goes its way one state at a time,
\* builds the source it names, and has its server served by a trial alone, as if
\* one worker carried it.
THEOREM Refinement == Spec => ImplementsJobLifecycle
  BY RefinementStart, RefinementStep, Invariance, PTL
  DEF Spec, ImplementsJobLifecycle, Lifecycle!Spec

\* No revision of a cancelled job is authenticated, and but for the revision of an
\* external service that was authenticated before, no step of the lifecycle leads
\* away from CANCELLED.
THEOREM CancelledStays == Spec => CancelledIsFinal
<1> DEFINE Stays ==
      \A j \in Jobs : job[j].state = "CANCELLED" =>
        /\ asked'[j] <= asked[j]
        /\ \/ job'[j].state = "CANCELLED"
           \/ /\ job[j].kind = "EXTERNAL" /\ asked'[j] = asked[j] - 1
              /\ job'[j].state = "REGISTERED_DISABLED"
<1>1. IInv /\ [Lifecycle!Next]_(Lifecycle!vars) => Stays
  <2> DEFINE StaysOf(i) ==
        /\ asked'[i] <= asked[i]
        /\ \/ job'[i].state = "CANCELLED"
           \/ /\ job[i].kind = "EXTERNAL" /\ asked'[i] = asked[i] - 1
              /\ job'[i].state = "REGISTERED_DISABLED"
  <2> SUFFICES ASSUME IInv, [Lifecycle!Next]_(Lifecycle!vars), NEW i \in Jobs,
                      job[i].state = "CANCELLED"
               PROVE  StaysOf(i)
    OBVIOUS
  <2>1. /\ States[i] = job[i].state /\ States'[i] = job'[i].state /\ Kinds[i] = job[i].kind
        /\ asked[i] \in Int /\ asked \in [Jobs -> Sources]
    BY BoundAssumption DEF States, Kinds, IInv, TypeOK, Sources
  <2>2. ASSUME NEW j \in Jobs, Lifecycle!Revise(j) PROVE StaysOf(i)
    <3>1. asked'[i] = IF i = j THEN asked[i] - 1 ELSE asked[i]
      BY <2>1, <2>2 DEF Lifecycle!Revise
    <3>2. \/ States'[i] = States[i]
          \/ /\ i = j /\ Kinds[i] = "EXTERNAL" /\ States'[i] = "REGISTERED_DISABLED"
      BY <2>1, <2>2 DEF Lifecycle!Revise, States
    <3> QED
      BY <2>1, <3>1, <3>2
  <2>3. ASSUME NEW j \in Jobs, Lifecycle!Ask(j) PROVE StaysOf(i)
    <3>1. i # j
      BY <2>1, <2>3 DEF Lifecycle!Ask
    <3> QED
      BY <2>1, <2>3, <3>1 DEF Lifecycle!Ask
  <2>4. ASSUME NEW j \in Jobs,
               \/ Lifecycle!Submit(j) \/ Lifecycle!Advance(j)
               \/ Lifecycle!Merge(j) \/ Lifecycle!Serve(j) \/ Lifecycle!Stop(j)
               \/ Lifecycle!GiveUp(j) \/ Lifecycle!Cut(j) \/ Lifecycle!Reopen(j)
        PROVE  StaysOf(i)
    <3>1. CASE i = j
      BY <2>1, <2>4, <3>1
      DEF Lifecycle!Submit, Lifecycle!Advance, Lifecycle!Merge, Lifecycle!Serve,
          Lifecycle!Stop, Lifecycle!GiveUp, Lifecycle!GivenUp, Lifecycle!Cut, Lifecycle!Reopen,
          Lifecycle!Way, Lifecycle!Back
    <3>2. CASE i # j
      <4>1. States'[i] = States[i] /\ UNCHANGED asked
        BY <2>1, <2>4, <3>2
        DEF Lifecycle!Submit, Lifecycle!Advance, Lifecycle!Merge, Lifecycle!Serve,
            Lifecycle!Stop, Lifecycle!GiveUp, Lifecycle!Cut, Lifecycle!Reopen, States
      <4> QED
        BY <2>1, <4>1
    <3> QED
      BY <3>1, <3>2
  <2> QED
    BY <2>1, <2>2, <2>3, <2>4 DEF Lifecycle!Next, Lifecycle!vars
<1>2. IInv /\ [Next]_vars => [Stays]_vars
  BY <1>1, RefinementStep
<1> QED
  BY <1>2, Invariance, PTL DEF Spec, CancelledIsFinal

=============================================================================
