--------------------------- MODULE ReadinessGates ---------------------------
(***************************************************************************)
(* The evidence one component in onboarding has to show before it goes     *)
(* into operation (component_readiness_gate_evidence), those who record it *)
(* and the evaluation that judges it.                                      *)
(*                                                                         *)
(* A request for an evaluation runs probes of its own, judges the evidence *)
(* in one transaction and then queues an end-to-end run, all under one     *)
(* correlation id (domain/component.ts, http/component-routes.ts).  The    *)
(* end-to-end workers claim runs under a lease, execute the fixtures and   *)
(* record one row per gate (onboarding/component-e2e-worker.ts).  The      *)
(* component's answers and the monitor record evidence at any time.        *)
(*                                                                         *)
(* A row is keyed by revision, gate and correlation id.  Every insert has  *)
(* to share a lock of the component's row, which an evaluation holds, so   *)
(* none comes between its reading and its writing.  Of a gate only the     *)
(* latest row counts, and older rows expire before it does, so of all rows *)
(* the verdict of the latest and the keys are kept; executed_at is taken   *)
(* for the order of the commits.  Gates with one recorder are one gate.    *)
(***************************************************************************)
EXTENDS Naturals, Sequences

CONSTANTS
  Evaluations,  \* requests for an evaluation, each with its correlation id
  Orders,       \* an administrator's requests for an end-to-end run
  Workers,      \* end-to-end worker processes
  Report,       \* the gates a worker records, in the order of its inserts
  Gates,        \* the gates an activation requires
  MaxRevision,  \* bounds the revisions submitted
  Crashes,      \* whether a worker's process may die at any moment
  None          \* no run

\* dispatch is REGISTERED_TO_REGISTERED_DISPATCH, lease OPERATION_LEASE_ENFORCEMENT,
\* and e2e stands for the six gates about scenarios, tools, endpoints and pulses.
WorkerGates == {Report[i] : i \in DOMAIN Report}

\* auth and secret are recorded by the request; control and heartbeat by answers
\* to commands, unasked by the monitor's watchdog and unsolicited heartbeats;
\* nobody records orphan, which stands for WORKER_SINGLE_ACTIVE and five others.
AllGates == WorkerGates \cup {"auth", "secret", "control", "heartbeat", "unasked", "orphan"}

ASSUME ReportAssumption == Report \in Seq({"e2e", "lease", "dispatch"}) /\ Report # <<>>
ASSUME GatesAssumption == Gates \subseteq AllGates
ASSUME BoundAssumption == MaxRevision \in Nat \ {0}
ASSUME RequestsAssumption == None \notin Evaluations \cup Orders

VARIABLES
  component,  \* its active revision and its access token
  standing,   \* gates whose latest evidence for the active revision passes
  keys,       \* gate, revision and correlation id of the rows of worker gates
  request,    \* where each request stands
  run,        \* component_e2e_run, one row per correlation id
  worker,     \* where each end-to-end worker stands
  shown       \* history: what a worker has found of which revision

vars == <<component, standing, keys, request, run, worker, shown>>

Requests == Evaluations \cup Orders
Revisions == 1..MaxRevision
Others == {"control", "heartbeat", "unasked"}

\* handed: principal_access_token_handed_off_at; while issued and not handed, the
\* job keeps the token's ciphertext.  active: the job's state is ACTIVE.
Component == [revision : Revisions, issued : BOOLEAN, handed : BOOLEAN, active : BOOLEAN]

\* revision: the one a probe has read
Request == [at : {"new", "auth", "token", "secret", "evaluate", "queue", "done"},
            revision : Revisions]
Run == [status : {"NONE", "QUEUED", "RUNNING", "PASS", "FAIL"}, revision : Revisions,
        leased : BOOLEAN, overdue : BOOLEAN]
Worker == [at : {"idle", "executing", "recording"},
           run : Requests \cup {None}, token : BOOLEAN,
           passing : SUBSET WorkerGates, next : 1..Len(Report)]

TypeOK ==
  /\ component \in Component
  /\ standing \subseteq Gates
  /\ keys \subseteq WorkerGates \X Revisions \X Requests
  /\ request \in [Requests -> Request]
  /\ run \in [Requests -> Run]
  /\ worker \in [Workers -> Worker]
  /\ shown \subseteq WorkerGates \X Revisions

Idle == [at |-> "idle", run |-> None, token |-> FALSE, passing |-> {}, next |-> 1]
NoRun == [status |-> "NONE", revision |-> 1, leased |-> FALSE, overdue |-> FALSE]

Init ==
  /\ component = [revision |-> 1, issued |-> FALSE, handed |-> FALSE, active |-> FALSE]
  /\ standing = {}
  /\ keys = {}
  /\ request = [c \in Requests |-> [at |-> "new", revision |-> 1]]
  /\ run = [c \in Requests |-> NoRun]
  /\ worker = [w \in Workers |-> Idle]
  /\ shown = {}

-----------------------------------------------------------------------------
(* Evidence *)

\* recordActiveGateEvidence, and the worker's insert: a row for revision v.  It
\* expires after a quarter of an hour.
Recorded_anyRevision(g, v, pass) ==   \* mutant
  IF g \notin Gates THEN standing
  ELSE IF pass THEN standing \cup {g} ELSE standing \ {g}
Recorded(g, v, pass) ==
  IF g \notin Gates \/ v # component.revision THEN standing
  ELSE IF pass THEN standing \cup {g} ELSE standing \ {g}

\* a recorder whose correlation id is its own
Record(g, v, pass) == standing' = Recorded(g, v, pass) /\ UNCHANGED keys

\* expires_at of the latest row
Lapse(g) ==
  /\ g \in standing
  /\ standing' = standing \ {g}
  /\ UNCHANGED <<component, keys, request, run, worker, shown>>

\* What others find out: the component's answers to commands, which
\* queueReadinessControlProbes and the lifecycle commands have queued
\* (DispatchWorker), its unsolicited heartbeats and the monitor's watchdog.
\* finalizeDispatchFromEvidence records for the revision the command was issued
\* for, the others for the one that is active now; only the monitor refutes.
Answer(g, v, pass) ==
  /\ g \in Others
  /\ v <= component.revision
  /\ g # "control" => v = component.revision
  /\ g # "unasked" => pass
  /\ Record(g, v, pass)
  /\ UNCHANGED <<component, request, run, worker, shown>>

-----------------------------------------------------------------------------
(* The integration client: http/component-routes.ts, domain/component.ts *)

Go(c, at, v) == request' = [request EXCEPT ![c] = [at |-> at, revision |-> v]]
Step(c, at) == Go(c, at, 1)

\* the request is authenticated, and runAuthorizationReadinessProbes reads the
\* active revision; a hand-off has consumed the integration token
Arrive(e) ==
  /\ request[e].at = "new"
  /\ ~component.handed
  /\ Go(e, "auth", component.revision)
  /\ UNCHANGED <<component, standing, keys, run, worker, shown>>

\* its probes are over and recorded, for the revision it has read
RecordAuth(e, pass) ==
  /\ request[e].at = "auth"
  /\ Record("auth", request[e].revision, pass)
  /\ Step(e, "token")
  /\ UNCHANGED <<component, run, worker, shown>>

\* runSecretReadinessProbes does nothing until an access token has been issued
ReadToken(e) ==
  /\ request[e].at = "token"
  /\ IF component.issued THEN Go(e, "secret", component.revision) ELSE Step(e, "evaluate")
  /\ UNCHANGED <<component, standing, keys, run, worker, shown>>

RecordSecret(e, pass) ==
  /\ request[e].at = "secret"
  /\ Record("secret", request[e].revision, pass)
  /\ Step(e, "evaluate")
  /\ UNCHANGED <<component, run, worker, shown>>

\* persistGateEvidence: every row of the revision is replaced by one of this
\* request for each gate, which repeats the verdict of the latest
Replaced(e) ==
  {key \in keys : key[2] # component.revision}
    \cup {<<g, component.revision, e>> : g \in WorkerGates}

\* evaluateComponentReadiness.  Gates computed from the rows of the component
\* pass or do not; the others pass if their latest evidence does.
Passed(direct) == direct /\ standing = Gates

Evaluate(e, direct) ==
  /\ request[e].at = "evaluate"
  /\ LET passed == Passed(direct)
         handsOff == passed /\ ~component.handed
     IN  /\ component' = [component EXCEPT !.issued = TRUE, !.active = passed,
                                           !.handed = @ \/ handsOff]
         /\ Step(e, IF handsOff THEN "done" ELSE "queue")
  /\ keys' = Replaced(e)
  /\ UNCHANGED <<standing, run, worker, shown>>

\* queueComponentE2ERun: a run of the active revision that is under way serves
\* this request too, also one whose deadline has passed
UnderWay_queued(v) == {c \in Requests : run[c].status = "QUEUED" /\ run[c].revision = v}   \* mutant
UnderWay(v) == {c \in Requests : run[c].status \in {"QUEUED", "RUNNING"} /\ run[c].revision = v}

QueueRun(c) ==
  /\ request[c].at = IF c \in Orders THEN "new" ELSE "queue"
  /\ run' = IF UnderWay(component.revision) # {} THEN run
            ELSE [run EXCEPT ![c] = [NoRun EXCEPT !.status = "QUEUED",
                                                 !.revision = component.revision]]
  /\ Step(c, "done")
  /\ UNCHANGED <<component, standing, keys, worker, shown>>

\* An error, a lost connection or a restart ends the request where it stands.
Fail(c) ==
  /\ request[c].at \notin {"new", "done"}
  /\ Step(c, "done")
  /\ UNCHANGED <<component, standing, keys, run, worker, shown>>

\* reviseComponentOnboarding: the new revision has no evidence yet
Revise ==
  /\ ~component.active /\ ~component.handed
  /\ component.revision < MaxRevision
  /\ component' = [component EXCEPT !.revision = @ + 1]
  /\ standing' = {}
  /\ UNCHANGED <<keys, request, run, worker, shown>>

-----------------------------------------------------------------------------
(* The end-to-end workers: onboarding/component-e2e-worker.ts *)

Moves(w, to) == worker' = [worker EXCEPT ![w] = to]

\* claim: every overdue run fails, and a run without a live lease is taken in the
\* same transaction, with the access token as the onboarding job holds it then
Overdue_queued(c) == run[c].status = "QUEUED" /\ run[c].overdue   \* mutant
Overdue(c) == run[c].status \in {"QUEUED", "RUNNING"} /\ run[c].overdue

Swept == [c \in Requests |->
  IF Overdue(c) THEN [run[c] EXCEPT !.status = "FAIL", !.leased = FALSE] ELSE run[c]]

Claimable == {c \in Requests : /\ run[c].status \in {"QUEUED", "RUNNING"}
                                /\ ~run[c].overdue /\ ~run[c].leased}

Claim(w, c) ==
  /\ worker[w].at = "idle"
  /\ c \in Claimable
  /\ run' = [Swept EXCEPT ![c].status = "RUNNING", ![c].leased = TRUE]
  /\ Moves(w, [Idle EXCEPT !.at = "executing", !.run = c,
                           !.token = component.issued /\ ~component.handed])
  /\ UNCHANGED <<component, standing, keys, request, shown>>

\* nothing to claim
Sweep(w) ==
  /\ worker[w].at = "idle"
  /\ Claimable = {}
  /\ run' = Swept
  /\ UNCHANGED <<component, standing, keys, request, worker, shown>>

\* After a fixture the lease is extended, whoever holds it by now.
Fixture(w) ==
  /\ worker[w].at = "executing"
  /\ run' = [run EXCEPT ![worker[w].run].leased = TRUE]
  /\ UNCHANGED <<component, standing, keys, request, worker, shown>>

\* The fixtures are through: the run is closed by its id alone, whatever has
\* become of it, and the gates are judged.  None passes in a run that failed,
\* lease none too late, dispatch only with the component's token.
Finish(w, passed, passing) ==
  LET c == worker[w].run
  IN  /\ worker[w].at = "executing"
      /\ passing # {} => passed
      /\ "lease" \in passing => ~run[c].overdue
      /\ "dispatch" \in passing => worker[w].token
      /\ run' = [run EXCEPT ![c].status = IF passed THEN "PASS" ELSE "FAIL",
                            ![c].leased = FALSE]
      /\ Moves(w, [worker[w] EXCEPT !.at = "recording", !.passing = passing])
      /\ shown' = shown \cup {<<g, run[c].revision>> : g \in passing}
      /\ UNCHANGED <<component, standing, keys, request>>

\* One insert after the other.
Key(w) == <<Report[worker[w].next], run[worker[w].run].revision, worker[w].run>>

RecordGate(w) ==
  /\ worker[w].at = "recording"
  /\ Key(w) \notin keys
  /\ keys' = keys \cup {Key(w)}
  /\ standing' = Recorded(Key(w)[1], Key(w)[2], Key(w)[1] \in worker[w].passing)
  /\ Moves(w, IF worker[w].next = Len(Report) THEN Idle ELSE [worker[w] EXCEPT !.next = @ + 1])
  /\ UNCHANGED <<component, request, run, shown>>

\* The process ends: by an error, as when a row of this key is there already, or
\* at any moment.  The service manager starts it again.
Refused(w) == worker[w].at = "recording" /\ Key(w) \in keys

Exit(w) ==
  /\ worker[w].at # "idle"
  /\ Crashes \/ Refused(w)
  /\ Moves(w, Idle)
  /\ UNCHANGED <<component, standing, keys, request, run, shown>>

\* deadline_at, a quarter of an hour after the run was queued
RunOverdue(c) ==
  /\ run[c].status \in {"QUEUED", "RUNNING"}
  /\ ~run[c].overdue
  /\ run' = [run EXCEPT ![c].overdue = TRUE]
  /\ UNCHANGED <<component, standing, keys, request, worker, shown>>

\* lease_until, 45 seconds after the claim or the last fixture
LeaseLapses(c) ==
  /\ run[c].leased
  /\ run' = [run EXCEPT ![c].leased = FALSE]
  /\ UNCHANGED <<component, standing, keys, request, worker, shown>>

-----------------------------------------------------------------------------

Evidence ==
  \/ \E g \in Gates : Lapse(g)
  \/ \E g \in Others, v \in Revisions, pass \in BOOLEAN : Answer(g, v, pass)

Client ==
  \/ \E e \in Evaluations :
        \/ Arrive(e) \/ ReadToken(e)
        \/ \E pass \in BOOLEAN : RecordAuth(e, pass) \/ RecordSecret(e, pass) \/ Evaluate(e, pass)
  \/ \E c \in Requests : QueueRun(c) \/ Fail(c)
  \/ Revise

Executor(w) ==
  \/ \E c \in Requests : Claim(w, c)
  \/ Sweep(w) \/ Fixture(w)
  \/ \E passed \in BOOLEAN, passing \in SUBSET WorkerGates : Finish(w, passed, passing)
  \/ RecordGate(w) \/ Exit(w)

Time == \E c \in Requests : RunOverdue(c) \/ LeaseLapses(c)

Next == Evidence \/ Client \/ (\E w \in Workers : Executor(w)) \/ Time

Spec == Init /\ [][Next]_vars

\* Deadlines pass.  A worker's fixtures have time limits and its loop goes on; one
\* that keeps dying is started again and gets to its next claim.
Poll(w) == Sweep(w) \/ \E c \in Requests : Claim(w, c)
Works(w) ==
  \/ \E passed \in BOOLEAN, passing \in SUBSET WorkerGates : Finish(w, passed, passing)
  \/ RecordGate(w) \/ (Refused(w) /\ Exit(w))

Fairness ==
  /\ \A c \in Requests : WF_vars(RunOverdue(c))
  /\ \A w \in Workers : SF_vars(Poll(w)) /\ WF_vars(Works(w))

FairSpec == Spec /\ Fairness

-----------------------------------------------------------------------------
(* Properties *)

\* No component is handed its access token before a worker has found every gate
\* that is a worker's to pass for the revision that goes into operation.
HandedIsShown ==
  component.handed => \A g \in Gates \cap WorkerGates : <<g, component.revision>> \in shown

\* Whatever the evaluations, the orders, the workers and the clock do, a revision
\* has at most one run that is under way.
OneRun ==
  \A c, d \in Requests :
    /\ run[c].status \in {"QUEUED", "RUNNING"} /\ run[d].status \in {"QUEUED", "RUNNING"}
    /\ run[c].revision = run[d].revision
    => c = d

\* A run that was queued comes to PASS or FAIL, also when every worker that takes
\* it dies.
RunsSettle ==
  \A c \in Requests :
    run[c].status \in {"QUEUED", "RUNNING"} ~> run[c].status \in {"PASS", "FAIL"}

\* "KCML executes and records onboarding E2E evidence" (http/component-routes.ts):
\* a worker that does not crash records every gate it has judged.
EvidenceRecorded ==
  [][\A w \in Workers :
       worker[w].at = "recording" /\ worker'[w].at # "recording"
         => worker[w].next = Len(Report)]_vars
=============================================================================
