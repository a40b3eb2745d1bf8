------------------------ MODULE ReadinessGates_proofs ------------------------
(* Theorems about ReadinessGates: the types, and the invariants of its run,  *)
(* for every number of requests, workers and revisions, any set of gates and *)
(* with or without crashes.                                                  *)
EXTENDS ReadinessGates, TLAPS

\* Evidence that counts for the active revision was found by a worker in a run of
\* that very revision, however late it was recorded.
StandingIsShown ==
  \A g \in standing \cap WorkerGates : <<g, component.revision>> \in shown

\* What a worker is about to record it has found, and it works on a run.
ReportIsShown ==
  \A w \in Workers : worker[w].at # "idle" =>
    /\ worker[w].run \in Requests
    /\ run[worker[w].run].status # "NONE"
    /\ worker[w].at = "recording" =>
         \A g \in worker[w].passing : <<g, run[worker[w].run].revision>> \in shown

\* A request queues its run last of all, and so at most one.
QueuedLast == \A c \in Requests : run[c].status # "NONE" => request[c].at = "done"

IInv ==
  /\ TypeOK /\ StandingIsShown /\ HandedIsShown /\ OneRun
  /\ ReportIsShown /\ QueuedLast

Running == {"QUEUED", "RUNNING"}

\* Every gate that was standing still is, or has just passed for the active revision.
LEMMA RecordedGates ==
  ASSUME standing \subseteq Gates, NEW g, NEW v, NEW pass \in BOOLEAN
  PROVE  /\ Recorded(g, v, pass) \subseteq Gates
         /\ \A h \in Recorded(g, v, pass) :
              h \in standing \/ (h = g /\ v = component.revision /\ pass)
BY DEF Recorded

LEMMA ReportLength == Len(Report) \in Nat \ {0} /\ DOMAIN Report = 1..Len(Report)
BY ReportAssumption

LEMMA IdleWorker == Idle \in Worker
BY ReportLength DEF Idle, Worker

LEMMA InitSafe == Init => IInv
<1> SUFFICES ASSUME Init PROVE IInv
  OBVIOUS
<1>1. 1 \in Revisions
  BY BoundAssumption DEF Revisions
<1>2. TypeOK
  <2>1. component \in Component
    BY <1>1 DEF Init, Component
  <2>2. request \in [Requests -> Request]
    BY <1>1 DEF Init, Request
  <2>3. run \in [Requests -> Run]
    BY <1>1 DEF Init, Run, NoRun
  <2>4. worker \in [Workers -> Worker]
    BY IdleWorker DEF Init
  <2>5. QED
    BY <2>1, <2>2, <2>3, <2>4 DEF Init, TypeOK
<1>3. QED
  BY <1>2 DEF Init, IInv, StandingIsShown, HandedIsShown, OneRun, ReportIsShown,
              QueuedLast, NoRun, Idle

-----------------------------------------------------------------------------
(* Evidence: what is recorded for a worker's gate has been shown. *)

\* A row of evidence, whoever records it.
LEMMA RecordSafe ==
  ASSUME IInv, NEW g, NEW v, NEW pass \in BOOLEAN,
         standing' = Recorded(g, v, pass),
         g \in WorkerGates /\ pass => <<g, v>> \in shown,
         UNCHANGED <<component, run, shown>>
  PROVE  standing' \subseteq Gates /\ StandingIsShown' /\ HandedIsShown' /\ OneRun'
<1>1. /\ standing' \subseteq Gates
      /\ \A h \in standing' : h \in standing \/ (h = g /\ v = component.revision /\ pass)
  BY RecordedGates DEF IInv, TypeOK
<1>2. StandingIsShown'
  BY <1>1 DEF StandingIsShown, IInv
<1>3. HandedIsShown' /\ OneRun'
  BY DEF IInv, HandedIsShown, OneRun
<1>4. QED
  BY <1>1, <1>2, <1>3

\* The gates that others record are no worker's.
LEMMA NoWorkerGate == WorkerGates \cap {"auth", "secret", "control", "heartbeat", "unasked"} = {}
<1>1. \A i \in DOMAIN Report : Report[i] \in {"e2e", "lease", "dispatch"}
  BY ReportAssumption
<1>2. QED
  BY <1>1 DEF WorkerGates

LEMMA EvidenceSafe ==
  ASSUME IInv, Evidence
  PROVE  IInv'
<1>1. CASE \E g \in Gates : Lapse(g)
  BY <1>1 DEF Lapse, IInv, TypeOK, StandingIsShown, HandedIsShown, OneRun, ReportIsShown,
              QueuedLast
<1>2. ASSUME NEW g \in Others, NEW v \in Revisions, NEW pass \in BOOLEAN, Answer(g, v, pass)
      PROVE  IInv'
  <2>1. standing' = Recorded(g, v, pass) /\ UNCHANGED <<component, keys, request, run, worker, shown>>
    BY <1>2 DEF Answer, Record
  <2>2. g \notin WorkerGates
    BY NoWorkerGate DEF Others
  <2>3. standing' \subseteq Gates /\ StandingIsShown' /\ HandedIsShown' /\ OneRun'
    BY <2>1, <2>2, RecordSafe
  <2>4. QED
    BY <2>1, <2>3 DEF IInv, TypeOK, ReportIsShown, QueuedLast
<1>3. QED
  BY <1>1, <1>2 DEF Evidence

-----------------------------------------------------------------------------
(* The integration client *)

\* A request moves on and leaves the runs alone.
LEMMA StepSafe ==
  ASSUME IInv, NEW c \in Requests, run[c].status = "NONE",
         NEW at \in {"new", "auth", "token", "secret", "evaluate", "queue", "done"},
         NEW v \in Revisions, Go(c, at, v), UNCHANGED <<run, worker>>, shown \subseteq shown'
  PROVE  request' \in [Requests -> Request] /\ ReportIsShown' /\ QueuedLast'
<1>1. request' \in [Requests -> Request]
  BY DEF IInv, TypeOK, Go, Request
<1>2. QueuedLast'
  BY DEF IInv, TypeOK, Go, QueuedLast
<1>3. ReportIsShown'
  BY DEF IInv, ReportIsShown
<1>4. QED
  BY <1>1, <1>2, <1>3

LEMMA Unqueued ==
  ASSUME IInv, NEW c \in Requests, request[c].at # "done"
  PROVE  run[c].status = "NONE"
BY DEF IInv, QueuedLast

LEMMA FirstRevision == 1 \in Revisions
BY BoundAssumption DEF Revisions

\* A probe has read or recorded something: only the evidence may have changed.
LEMMA ProbeSafe ==
  ASSUME IInv, NEW e \in Evaluations, request[e].at # "done",
         NEW at \in {"new", "auth", "token", "secret", "evaluate", "queue", "done"},
         NEW v \in Revisions, Go(e, at, v),
         UNCHANGED <<component, keys, run, worker, shown>>,
         \/ UNCHANGED standing
         \/ \E g \in {"auth", "secret"}, u \in Revisions, pass \in BOOLEAN :
              standing' = Recorded(g, u, pass)
  PROVE  IInv'
<1>1. request' \in [Requests -> Request] /\ ReportIsShown' /\ QueuedLast'
  BY Unqueued, StepSafe DEF Requests
<1>2. standing' \subseteq Gates /\ StandingIsShown' /\ HandedIsShown' /\ OneRun'
  <2>1. CASE UNCHANGED standing
    BY <2>1 DEF IInv, TypeOK, StandingIsShown, HandedIsShown, OneRun
  <2>2. ASSUME NEW g \in {"auth", "secret"}, NEW u \in Revisions, NEW pass \in BOOLEAN,
               standing' = Recorded(g, u, pass)
        PROVE  standing' \subseteq Gates /\ StandingIsShown' /\ HandedIsShown' /\ OneRun'
    BY <2>2, NoWorkerGate, RecordSafe
  <2>3. QED
    BY <2>1, <2>2
<1>3. QED
  BY <1>1, <1>2 DEF IInv, TypeOK

LEMMA ProbesSafe ==
  ASSUME IInv, NEW e \in Evaluations,
         \/ Arrive(e) \/ ReadToken(e)
         \/ \E pass \in BOOLEAN : RecordAuth(e, pass) \/ RecordSecret(e, pass)
  PROVE  IInv'
<1>1. component.revision \in Revisions /\ request[e].revision \in Revisions
  BY DEF IInv, TypeOK, Component, Request, Requests
<1>2. CASE Arrive(e)
  BY <1>1, <1>2, ProbeSafe DEF Arrive
<1>3. CASE ReadToken(e)
  <2>1. CASE component.issued
    BY <1>1, <1>3, <2>1, ProbeSafe DEF ReadToken
  <2>2. CASE ~component.issued
    BY <1>3, <2>2, FirstRevision, ProbeSafe DEF ReadToken, Step
  <2>3. QED
    BY <2>1, <2>2
<1>4. ASSUME NEW pass \in BOOLEAN, RecordAuth(e, pass) PROVE IInv'
  <2>1. /\ request[e].at # "done" /\ Go(e, "token", 1)
        /\ standing' = Recorded("auth", request[e].revision, pass)
        /\ UNCHANGED <<component, keys, run, worker, shown>>
    BY <1>4 DEF RecordAuth, Record, Step
  <2>2. QED
    BY <1>1, <2>1, FirstRevision, ProbeSafe
<1>5. ASSUME NEW pass \in BOOLEAN, RecordSecret(e, pass) PROVE IInv'
  <2>1. /\ request[e].at # "done" /\ Go(e, "evaluate", 1)
        /\ standing' = Recorded("secret", request[e].revision, pass)
        /\ UNCHANGED <<component, keys, run, worker, shown>>
    BY <1>5 DEF RecordSecret, Record, Step
  <2>2. QED
    BY <1>1, <2>1, FirstRevision, ProbeSafe
<1>6. QED
  BY <1>2, <1>3, <1>4, <1>5

\* An evaluation hands off when every gate stands, and what stands has been shown.
LEMMA EvaluateSafe ==
  ASSUME IInv, NEW e \in Evaluations, NEW direct \in BOOLEAN, Evaluate(e, direct)
  PROVE  IInv'
<1> DEFINE passed == Passed(direct)
<1>1. request[e].at = "evaluate" /\ UNCHANGED <<standing, run, worker, shown>>
  BY DEF Evaluate
<1>2. /\ component' = [component EXCEPT !.issued = TRUE, !.active = passed,
                         !.handed = @ \/ (passed /\ ~component.handed)]
      /\ \E at \in {"done", "queue"} : Go(e, at, 1)
      /\ keys' = Replaced(e)
  BY DEF Evaluate, Step
<1>3. passed \in BOOLEAN
  BY DEF Passed
<1>4. component' \in Component /\ component'.revision = component.revision
  BY <1>2, <1>3 DEF IInv, TypeOK, Component
<1>5. keys' \subseteq WorkerGates \X Revisions \X Requests
  BY <1>2 DEF IInv, TypeOK, Component, Replaced, Requests
<1>6. request' \in [Requests -> Request] /\ ReportIsShown' /\ QueuedLast'
  BY <1>1, <1>2, Unqueued, FirstRevision, StepSafe DEF Requests
<1>7. StandingIsShown' /\ OneRun'
  BY <1>1, <1>4 DEF IInv, StandingIsShown, OneRun
<1>8. HandedIsShown'
  <2>1. CASE component.handed
    BY <1>1, <1>4, <2>1 DEF IInv, HandedIsShown
  <2>2. CASE ~component.handed /\ component'.handed
    <3>1. passed
      BY <1>2, <2>2 DEF IInv, TypeOK, Component
    <3>2. Gates \cap WorkerGates \subseteq standing \cap WorkerGates
      BY <3>1 DEF Passed
    <3>3. QED
      BY <1>1, <1>4, <3>2 DEF IInv, StandingIsShown, HandedIsShown
  <2>3. QED
    BY <2>1, <2>2 DEF HandedIsShown
<1>9. QED
  BY <1>1, <1>4, <1>5, <1>6, <1>7, <1>8 DEF IInv, TypeOK

\* A run is queued only if its revision has none under way.
LEMMA QueueSafe ==
  ASSUME IInv, NEW c \in Requests, QueueRun(c)
  PROVE  IInv'
<1>1. /\ request[c].at # "done" /\ Go(c, "done", 1)
      /\ UNCHANGED <<component, standing, keys, worker, shown>>
  BY DEF QueueRun, Step
<1>2. run[c].status = "NONE"
  BY <1>1, Unqueued
<1>3. StandingIsShown' /\ HandedIsShown'
  BY <1>1 DEF IInv, StandingIsShown, HandedIsShown
<1>4. CASE UnderWay(component.revision) # {}
  <2>1. run' = run
    BY <1>4 DEF QueueRun
  <2>2. QED
    BY <1>1, <1>2, <1>3, <2>1, FirstRevision, StepSafe DEF IInv, TypeOK, OneRun
<1>5. CASE UnderWay(component.revision) = {}
  <2> DEFINE row == [NoRun EXCEPT !.status = "QUEUED", !.revision = component.revision]
  <2>1. run' = [run EXCEPT ![c] = row]
    BY <1>5 DEF QueueRun
  <2>2. row \in Run /\ row.status = "QUEUED" /\ row.revision = component.revision
    BY DEF IInv, TypeOK, Component, Run, NoRun
  <2> HIDE DEF row
  <2>3. request' \in [Requests -> Request] /\ request'[c].at = "done"
    BY <1>1, FirstRevision DEF IInv, TypeOK, Go, Request
  <2>4. \A d \in Requests : d # c => run'[d] = run[d] /\ request'[d] = request[d]
    BY <1>1, <2>1 DEF IInv, TypeOK, Go
  <2>5. run'[c] = row
    BY <2>1 DEF IInv, TypeOK
  <2>6. TypeOK'
    BY <1>1, <2>1, <2>2, <2>3 DEF IInv, TypeOK
  <2>7. OneRun'
    <3>1. \A d \in Requests : d # c /\ run'[d].status \in Running => run'[d].revision # row.revision
      BY <1>5, <2>2, <2>4 DEF UnderWay, Running
    <3>2. QED
      BY <2>4, <2>5, <3>1 DEF IInv, OneRun, Running
  <2>8. ReportIsShown'
    <3>1. \A w \in Workers : worker[w].at # "idle" => worker[w].run # c
      BY <1>2 DEF IInv, ReportIsShown
    <3>2. QED
      BY <1>1, <2>4, <3>1 DEF IInv, ReportIsShown
  <2>9. QueuedLast'
    BY <2>3, <2>4 DEF IInv, QueuedLast
  <2>10. QED
    BY <1>3, <2>6, <2>7, <2>8, <2>9 DEF IInv
<1>6. QED
  BY <1>4, <1>5

LEMMA FailSafe ==
  ASSUME IInv, NEW c \in Requests, Fail(c)
  PROVE  IInv'
<1>1. /\ request[c].at # "done" /\ Go(c, "done", 1)
      /\ UNCHANGED <<component, standing, keys, run, worker, shown>>
  BY DEF Fail, Step
<1>2. request' \in [Requests -> Request] /\ ReportIsShown' /\ QueuedLast'
  BY <1>1, Unqueued, FirstRevision, StepSafe
<1>3. QED
  BY <1>1, <1>2 DEF IInv, TypeOK, StandingIsShown, HandedIsShown, OneRun

LEMMA ReviseSafe ==
  ASSUME IInv, Revise
  PROVE  IInv'
<1>1. /\ ~component.handed
      /\ component' = [component EXCEPT !.revision = @ + 1]
      /\ standing' = {}
      /\ UNCHANGED <<keys, request, run, worker, shown>>
  BY DEF Revise
<1>2. component' \in Component /\ ~component'.handed
  <2>1. component.revision \in Nat /\ component.revision >= 1 /\ component.revision + 1 <= MaxRevision
    BY BoundAssumption DEF IInv, TypeOK, Component, Revisions, Revise
  <2>2. component.revision + 1 \in Revisions
    BY <2>1, BoundAssumption DEF Revisions
  <2>3. QED
    BY <1>1, <2>2 DEF IInv, TypeOK, Component
<1>3. QED
  BY <1>1, <1>2 DEF IInv, TypeOK, StandingIsShown, HandedIsShown, OneRun, ReportIsShown,
                    QueuedLast

LEMMA ClientSafe ==
  ASSUME IInv, Client
  PROVE  IInv'
BY ProbesSafe, EvaluateSafe, QueueSafe, FailSafe, ReviseSafe DEF Client

-----------------------------------------------------------------------------
(* The workers and time *)

\* A run that is under way moves without changing its revision, and none comes to
\* be under way.
LEMMA RunsSafe ==
  ASSUME IInv, run' \in [Requests -> Run],
         \A c \in Requests :
           /\ run'[c].revision = run[c].revision
           /\ run'[c].status \in Running => run[c].status \in Running
           /\ run'[c].status = "NONE" <=> run[c].status = "NONE",
         UNCHANGED <<component, standing, keys, request>>, shown \subseteq shown'
  PROVE  StandingIsShown' /\ HandedIsShown' /\ OneRun' /\ QueuedLast'
<1>1. StandingIsShown' /\ HandedIsShown'
  BY DEF IInv, StandingIsShown, HandedIsShown
<1>2. OneRun'
  BY DEF IInv, OneRun, Running
<1>3. QueuedLast'
  BY DEF IInv, QueuedLast
<1>4. QED
  BY <1>1, <1>2, <1>3

LEMMA SweptRuns ==
  ASSUME TypeOK
  PROVE  /\ Swept \in [Requests -> Run]
         /\ \A c \in Requests :
              /\ Swept[c].revision = run[c].revision
              /\ Swept[c].status \in Running => run[c].status \in Running
              /\ Swept[c].status = "NONE" <=> run[c].status = "NONE"
              /\ ~Overdue(c) => Swept[c] = run[c]
BY DEF TypeOK, Swept, Overdue, Run, Running

\* The other workers' reports do not mind.
LEMMA OthersReport ==
  ASSUME IInv, NEW w \in Workers, NEW to, worker' = [worker EXCEPT ![w] = to],
         \A c \in Requests : /\ run'[c].revision = run[c].revision
                             /\ run'[c].status = "NONE" <=> run[c].status = "NONE",
         shown \subseteq shown',
         to.at # "idle" =>
           /\ to.run \in Requests /\ run[to.run].status # "NONE"
           /\ to.at = "recording" => \A g \in to.passing : <<g, run[to.run].revision>> \in shown'
  PROVE  ReportIsShown'
<1>1. \A u \in Workers : worker'[u] = IF u = w THEN to ELSE worker[u]
  BY DEF IInv, TypeOK
<1>2. QED
  BY <1>1 DEF IInv, ReportIsShown

LEMMA PollSafe ==
  ASSUME IInv, NEW w \in Workers, Sweep(w) \/ \E c \in Requests : Claim(w, c)
  PROVE  IInv'
<1> USE SweptRuns
<1>1. CASE Sweep(w)
  <2>1. run' = Swept /\ UNCHANGED <<component, standing, keys, request, worker, shown>>
    BY <1>1 DEF Sweep
  <2>2. StandingIsShown' /\ HandedIsShown' /\ OneRun' /\ QueuedLast'
    BY <2>1, RunsSafe DEF IInv
  <2>3. QED
    BY <2>1, <2>2 DEF IInv, TypeOK, ReportIsShown
<1>2. ASSUME NEW c \in Requests, Claim(w, c) PROVE IInv'
  <2> DEFINE held == component.issued /\ ~component.handed
             to == [Idle EXCEPT !.at = "executing", !.run = c, !.token = held]
  <2>1. /\ run' = [Swept EXCEPT ![c].status = "RUNNING", ![c].leased = TRUE]
        /\ worker' = [worker EXCEPT ![w] = to]
        /\ UNCHANGED <<component, standing, keys, request, shown>>
    BY <1>2 DEF Claim, Moves
  <2>2. run[c].status \in Running /\ ~Overdue(c)
    BY <1>2 DEF Claim, Claimable, Overdue, Running
  <2>3. /\ run' \in [Requests -> Run]
        /\ \A d \in Requests :
             /\ run'[d].revision = run[d].revision
             /\ run'[d].status \in Running => run[d].status \in Running
             /\ run'[d].status = "NONE" <=> run[d].status = "NONE"
    <3>1. run' \in [Requests -> Run]
      BY <2>1 DEF IInv, Run
    <3>2. \A d \in Requests : d # c => run'[d] = Swept[d]
      BY <2>1 DEF IInv
    <3>3. run'[c].revision = Swept[c].revision /\ run'[c].status = "RUNNING"
      BY <2>1 DEF IInv, Run
    <3>4. QED
      BY <2>2, <3>1, <3>2, <3>3 DEF IInv, Running
  <2>4. to \in Worker /\ to.at = "executing" /\ to.run = c
    <3>1. component.issued \in BOOLEAN /\ component.handed \in BOOLEAN
      BY DEF IInv, TypeOK, Component
    <3>2. held \in BOOLEAN
      BY <3>1
    <3> HIDE DEF held
    <3>3. c \in Requests \cup {None}
      OBVIOUS
    <3>4. QED
      BY <3>2, <3>3, IdleWorker DEF Worker
  <2> HIDE DEF to
  <2>5. StandingIsShown' /\ HandedIsShown' /\ OneRun' /\ QueuedLast'
    BY <2>1, <2>3, RunsSafe
  <2>6. ReportIsShown'
    BY <2>1, <2>2, <2>3, <2>4, OthersReport DEF Running
  <2>7. TypeOK'
    BY <2>1, <2>3, <2>4 DEF IInv, TypeOK
  <2>8. QED
    BY <2>5, <2>6, <2>7 DEF IInv
<1>3. QED
  BY <1>1, <1>2

LEMMA FixtureSafe ==
  ASSUME IInv, NEW c \in Requests, NEW leased \in BOOLEAN,
         run' = [run EXCEPT ![c].leased = leased] \/ run' = [run EXCEPT ![c].overdue = TRUE],
         UNCHANGED <<component, standing, keys, request, worker, shown>>
  PROVE  IInv'
<1>1. /\ run' \in [Requests -> Run]
      /\ \A d \in Requests : run'[d].revision = run[d].revision /\ run'[d].status = run[d].status
  <2>1. CASE run' = [run EXCEPT ![c].leased = leased]
    BY <2>1 DEF IInv, TypeOK, Run
  <2>2. CASE run' = [run EXCEPT ![c].overdue = TRUE]
    BY <2>2 DEF IInv, TypeOK, Run
  <2>3. QED
    BY <2>1, <2>2
<1>2. StandingIsShown' /\ HandedIsShown' /\ OneRun' /\ QueuedLast'
  BY <1>1, RunsSafe
<1>3. QED
  BY <1>1, <1>2 DEF IInv, TypeOK, ReportIsShown

\* What a worker has found is found of the revision of its run.
LEMMA FinishSafe ==
  ASSUME IInv, NEW w \in Workers, NEW passed \in BOOLEAN, NEW passing \in SUBSET WorkerGates,
         Finish(w, passed, passing)
  PROVE  IInv'
<1> DEFINE c == worker[w].run
           to == [worker[w] EXCEPT !.at = "recording", !.passing = passing]
<1>1. c \in Requests /\ run[c].status # "NONE"
  BY DEF Finish, IInv, ReportIsShown
<1>2. /\ run' = [run EXCEPT ![c].status = IF passed THEN "PASS" ELSE "FAIL", ![c].leased = FALSE]
      /\ worker' = [worker EXCEPT ![w] = to]
      /\ shown' = shown \cup {<<g, run[c].revision>> : g \in passing}
      /\ UNCHANGED <<component, standing, keys, request>>
  BY DEF Finish, Moves
<1>3. /\ run' \in [Requests -> Run]
      /\ \A d \in Requests :
           /\ run'[d].revision = run[d].revision
           /\ run'[d].status \in Running => run[d].status \in Running
           /\ run'[d].status = "NONE" <=> run[d].status = "NONE"
  BY <1>1, <1>2 DEF IInv, TypeOK, Run, Running
<1>4. /\ to \in Worker /\ to.at = "recording" /\ to.run = c /\ to.passing = passing
  BY DEF IInv, TypeOK, Worker
<1>5. shown' \subseteq WorkerGates \X Revisions
  BY <1>1, <1>2 DEF IInv, TypeOK, Run
<1> HIDE DEF c, to
<1>6. StandingIsShown' /\ HandedIsShown' /\ OneRun' /\ QueuedLast'
  BY <1>2, <1>3, RunsSafe
<1>7. ReportIsShown'
  BY <1>1, <1>2, <1>3, <1>4, OthersReport
<1>8. TypeOK'
  BY <1>2, <1>3, <1>4, <1>5 DEF IInv, TypeOK
<1>9. QED
  BY <1>6, <1>7, <1>8 DEF IInv

LEMMA RecordGateSafe ==
  ASSUME IInv, NEW w \in Workers, RecordGate(w)
  PROVE  IInv'
<1> DEFINE c == worker[w].run
           g == Report[worker[w].next]
           v == run[c].revision
           to == IF worker[w].next = Len(Report) THEN Idle ELSE [worker[w] EXCEPT !.next = @ + 1]
<1>1. /\ worker[w] \in Worker /\ c \in Requests /\ run[c].status # "NONE"
      /\ \A h \in worker[w].passing : <<h, v>> \in shown
  BY DEF RecordGate, IInv, TypeOK, ReportIsShown
<1>2. worker[w].next \in 1..Len(Report) /\ g \in WorkerGates
  BY <1>1, ReportLength DEF Worker, WorkerGates
<1>3. /\ keys' = keys \cup {<<g, v, c>>}
      /\ standing' = Recorded(g, v, g \in worker[w].passing)
      /\ worker' = [worker EXCEPT ![w] = to]
      /\ UNCHANGED <<component, request, run, shown>>
  BY DEF RecordGate, Key, Moves
<1>4. /\ to \in Worker
      /\ to.at # "idle" => to.run = c /\ to.passing = worker[w].passing
  <2>1. CASE worker[w].next = Len(Report)
    BY <2>1, IdleWorker DEF Idle
  <2>2. CASE worker[w].next # Len(Report)
    <3>1. worker[w].next + 1 \in 1..Len(Report)
      BY <1>2, <2>2, ReportLength
    <3>2. QED
      BY <1>1, <2>2, <3>1 DEF Worker
  <2>3. QED
    BY <2>1, <2>2
<1>5. v \in Revisions
  BY <1>1 DEF IInv, TypeOK, Run
<1> DEFINE pass == g \in worker[w].passing
<1> HIDE DEF c, g, v, to
<1>6. standing' \subseteq Gates /\ StandingIsShown' /\ HandedIsShown' /\ OneRun'
  <2>1. pass \in BOOLEAN /\ standing' = Recorded(g, v, pass)
    BY <1>3
  <2>2. pass => <<g, v>> \in shown
    BY <1>1
  <2> HIDE DEF pass
  <2>3. QED
    BY <1>3, <2>1, <2>2, RecordSafe
<1>7. ReportIsShown'
  BY <1>1, <1>3, <1>4, OthersReport DEF v
<1>8. TypeOK' /\ QueuedLast'
  BY <1>1, <1>2, <1>3, <1>4, <1>5, <1>6 DEF IInv, TypeOK, QueuedLast
<1>9. QED
  BY <1>6, <1>7, <1>8 DEF IInv

LEMMA ExitSafe ==
  ASSUME IInv, NEW w \in Workers, Exit(w)
  PROVE  IInv'
<1>1. /\ worker' = [worker EXCEPT ![w] = Idle]
      /\ UNCHANGED <<component, standing, keys, request, run, shown>>
  BY DEF Exit, Moves
<1>2. ReportIsShown'
  BY <1>1, OthersReport DEF Idle
<1>3. QED
  BY <1>1, <1>2, IdleWorker DEF IInv, TypeOK, StandingIsShown, HandedIsShown, OneRun, QueuedLast

LEMMA ExecutorSafe ==
  ASSUME IInv, NEW w \in Workers, Executor(w)
  PROVE  IInv'
<1>1. CASE Sweep(w) \/ \E c \in Requests : Claim(w, c)
  BY <1>1, PollSafe
<1>2. CASE Fixture(w)
  BY <1>2, FixtureSafe DEF Fixture, IInv, ReportIsShown
<1>3. CASE \E passed \in BOOLEAN, passing \in SUBSET WorkerGates : Finish(w, passed, passing)
  BY <1>3, FinishSafe
<1>4. CASE RecordGate(w) \/ Exit(w)
  BY <1>4, RecordGateSafe, ExitSafe
<1>5. QED
  BY <1>1, <1>2, <1>3, <1>4 DEF Executor

LEMMA TimeSafe ==
  ASSUME IInv, Time
  PROVE  IInv'
BY FixtureSafe DEF Time, RunOverdue, LeaseLapses

-----------------------------------------------------------------------------

\* The invariant holds throughout.
THEOREM Invariance == Spec => []IInv
<1>1. ASSUME IInv, [Next]_vars PROVE IInv'
  <2>1. CASE Next
    BY <1>1, <2>1, EvidenceSafe, ClientSafe, ExecutorSafe, TimeSafe DEF Next
  <2>2. CASE UNCHANGED vars
    BY <1>1, <2>2 DEF vars, IInv, TypeOK, StandingIsShown, HandedIsShown, OneRun,
                      ReportIsShown, QueuedLast
  <2>3. QED
    BY <1>1, <2>1, <2>2
<1>2. QED
  BY InitSafe, <1>1, PTL DEF Spec

\* Component, evidence, requests, runs and workers keep their types.
THEOREM TypeCorrect == Spec => []TypeOK
BY Invariance, PTL DEF IInv

\* Evidence that counts for the active revision was found in a run of it.
THEOREM StandingShown == Spec => []StandingIsShown
BY Invariance, PTL DEF IInv

\* Before the hand-off a worker has found every worker's gate to pass for the
\* revision that goes into operation.
THEOREM HandedShown == Spec => []HandedIsShown
BY Invariance, PTL DEF IInv

\* A revision has at most one run under way.
THEOREM OneRunUnderWay == Spec => []OneRun
BY Invariance, PTL DEF IInv
=============================================================================
