-------------------------- MODULE Monitoring_proofs --------------------------
(***************************************************************************)
(* Theorems about Monitoring, for any number of deliveries, attempts and   *)
(* samples: its types, that posts are counted, that a suspension has its   *)
(* alert, that UNHEALTHY is left by way of DEGRADED, and that what was     *)
(* delivered is delivered for good.                                        *)
(*                                                                         *)
(* The process acts on the row and on the delivery it has read before.  The *)
(* invariant says what the rest of the system cannot take from it in the   *)
(* meantime: an attempt counted ahead of its post, a delivery that is not  *)
(* settled, a server that only the process itself suspends or finds        *)
(* UNHEALTHY.                                                              *)
(***************************************************************************)
EXTENDS Monitoring, TLAPS

-----------------------------------------------------------------------------
(* The inductive invariant *)

\* The delivery that was leased is not settled before its answer is recorded, and
\* its attempt is counted before it is posted.
LeaseHolds ==
  monitor.at \in {"LEASED", "ANSWERED"} =>
    /\ monitor.lease \in Deliveries
    /\ delivery[monitor.lease].state \notin {"NONE", "DELIVERED"}
    /\ monitor.at = "LEASED" =>
         delivery[monitor.lease].posts < delivery[monitor.lease].attempts

\* Only a cycle suspends, so a server it has read in service is not suspended
\* before the cycle has come to its review.
ReviewAhead == monitor.at = "READ" => server.state # "SUSPENDED"

\* Only a cycle finds a server UNHEALTHY, so the row it has read says so, too.
RowKnowsUnhealthy ==
  (monitor.at \in {"READ", "PROBING"} /\ server.operational = "UNHEALTHY")
    => monitor.row.operational = "UNHEALTHY"

IInv ==
  /\ TypeOK
  /\ PostsCounted /\ SuspensionAlerted
  /\ LeaseHolds /\ ReviewAhead /\ RowKnowsUnhealthy

-----------------------------------------------------------------------------
(* The helpers of the model *)

\* A new alert puts at most one delivery in the queue, one that was none before.
LEMMA QueuedDeliveries ==
  ASSUME TypeOK, NEW new
  PROVE  /\ Queued(new) \in [Deliveries -> Delivery]
         /\ \A d \in Deliveries :
              /\ Queued(new)[d].attempts = delivery[d].attempts
              /\ Queued(new)[d].posts = delivery[d].posts
              /\ delivery[d].state # "NONE" => Queued(new)[d].state = delivery[d].state
<1>1. delivery \in [Deliveries -> Delivery]
  BY DEF TypeOK
<1>2. CASE Queued(new) = delivery
  BY <1>1, <1>2
<1>3. CASE Queued(new) # delivery
  <2>1. PICK e \in Deliveries :
          delivery[e].state = "NONE" /\ Queued(new) = [delivery EXCEPT ![e].state = "PENDING"]
    BY <1>3 DEF Queued
  <2> QED
    BY <1>1, <2>1 DEF Delivery
<1> QED
  BY <1>2, <1>3

\* raiseAlert leaves an alert of its type and closes none.
LEMMA RaisedAlerts ==
  ASSUME NEW a \in [AlertType -> {"NONE", "OPEN", "ACKNOWLEDGED", "SUPPRESSED"}],
         NEW t \in AlertType
  PROVE  /\ Raised(a, t) \in [AlertType -> {"NONE", "OPEN", "ACKNOWLEDGED", "SUPPRESSED"}]
         /\ Raised(a, t)[t] # "NONE"
         /\ \A u \in AlertType : a[u] # "NONE" => Raised(a, t)[u] # "NONE"
  BY DEF Raised

LEMMA ClosedAlerts ==
  ASSUME NEW a \in [AlertType -> {"NONE", "OPEN", "ACKNOWLEDGED", "SUPPRESSED"}],
         NEW types
  PROVE  /\ Closed(a, types) \in [AlertType -> {"NONE", "OPEN", "ACKNOWLEDGED", "SUPPRESSED"}]
         /\ \A u \in AlertType \ types : Closed(a, types)[u] = a[u]
  BY DEF Closed

\* evaluateOperationalState on a row that was read UNHEALTHY: HEALTHY is not its
\* answer.
LEMMA EvaluatedStates ==
  ASSUME TypeOK, NEW o \in Outcome
  PROVE  /\ Evaluated(o, monitor.row) \in Operational \cup {"DISABLED", "QUARANTINED"}
         /\ (monitor.row.operational = "UNHEALTHY" /\ server.operational = "UNHEALTHY")
              => Evaluated(o, monitor.row) # "HEALTHY"
<1>1. /\ server.operational \in Operational \cup {"DISABLED", "QUARANTINED"}
      /\ monitor.row.operational \in Operational \cup {"DISABLED", "QUARANTINED"}
  BY DEF TypeOK, Server, Monitor, Row
<1> DEFINE row     == monitor.row
           current == IF row.operational \in Operational THEN row.operational ELSE "UNKNOWN"
<1>2. Evaluated(o, row) \in {server.operational, current, "UNHEALTHY", "DEGRADED"}
        \/ Evaluated(o, row) = (IF Recovered(row) THEN "HEALTHY" ELSE "DEGRADED")
  BY DEF Evaluated
<1>3. row.operational = "UNHEALTHY" => ~Recovered(row) /\ current = "UNHEALTHY"
  BY DEF Recovered, Operational
<1>4. current \in Operational
  BY DEF Operational
<1> QED
  BY <1>1, <1>2, <1>3, <1>4 DEF Operational

\* What the process is after Goes: it holds nothing any more.
LEMMA GoesMonitor ==
  ASSUME NEW at \in {"SLEEPING", "DELIVERING"}, Goes(at)
  PROVE  monitor' \in Monitor /\ monitor'.at = at
  BY DEF Goes, Sleeping, NoRow, Monitor, Row, Operational

\* A cycle that is done with the server: the alerts are `after`, and one about a
\* suspension is there if it is wanted.
LEMMA RecordStep ==
  ASSUME IInv, server' \in Server, UNCHANGED <<crashes, interventions>>,
         NEW after \in [AlertType -> {"NONE", "OPEN", "ACKNOWLEDGED", "SUPPRESSED"}],
         Alerts(after), Goes("DELIVERING"),
         server'.state = "SUSPENDED" => after["blocked"] # "NONE"
  PROVE  IInv'
<1>1. monitor' \in Monitor /\ monitor'.at = "DELIVERING"
  BY GoesMonitor
<1>2. /\ delivery' \in [Deliveries -> Delivery]
      /\ \A d \in Deliveries : /\ delivery'[d].posts = delivery[d].posts
                               /\ delivery'[d].attempts = delivery[d].attempts
  BY QueuedDeliveries DEF Alerts, IInv
<1>3. TypeOK'
  BY <1>1, <1>2 DEF IInv, TypeOK, Alerts
<1>4. PostsCounted' /\ SuspensionAlerted'
  BY <1>2 DEF IInv, PostsCounted, SuspensionAlerted, Alerts
<1> QED
  BY <1>1, <1>3, <1>4 DEF IInv, LeaseHolds, ReviewAhead, RowKnowsUnhealthy

\* recordInternalError leaves the state of the server and closes no alert.
LEMMA InternalErrorStep ==
  ASSUME IInv, InternalError
  PROVE  IInv'
<1>0. TypeOK /\ SuspensionAlerted
  BY DEF IInv
<1>1. server' \in Server /\ server'.state = server.state
  BY <1>0 DEF InternalError, TypeOK, Server
<1>2. /\ Raised(alert, "internal_error")
           \in [AlertType -> {"NONE", "OPEN", "ACKNOWLEDGED", "SUPPRESSED"}]
      /\ server.state = "SUSPENDED" => Raised(alert, "internal_error")["blocked"] # "NONE"
  BY <1>0, RaisedAlerts DEF TypeOK, AlertType, SuspensionAlerted
<1> QED
  BY <1>1, <1>2, RecordStep DEF InternalError

-----------------------------------------------------------------------------
(* The steps *)

\* The server changes under the process.
LEMMA ServerSteps ==
  ASSUME IInv, \/ \E to \in {"REGISTERED_DISABLED", "TRIAL", "ACTIVE"} : SetState(to)
               \/ NewRevision \/ ReviewAges
  PROVE  IInv'
<1>0. TypeOK /\ UNCHANGED <<alert, delivery, monitor, crashes, interventions>>
  BY DEF IInv, SetState, NewRevision, ReviewAges
<1>1. /\ server' \in Server
      /\ server'.state = "SUSPENDED" => server.state = "SUSPENDED"
      /\ server'.operational = "UNHEALTHY" => server.operational = "UNHEALTHY"
  <2>1. ASSUME NEW to \in {"REGISTERED_DISABLED", "TRIAL", "ACTIVE"}, SetState(to)
        PROVE  <1>1!1 /\ <1>1!2 /\ <1>1!3
    BY <1>0, <2>1 DEF SetState, TypeOK, Server, ServerState, Operational
  <2>2. CASE NewRevision
    BY <1>0, <2>2 DEF NewRevision, Registered, TypeOK, Server, ServerState, Operational, Phase
  <2>3. CASE ReviewAges
    BY <1>0, <2>3 DEF ReviewAges, TypeOK, Server, Phase
  <2> QED
    BY <2>1, <2>2, <2>3
<1>2. TypeOK'
  BY <1>0, <1>1 DEF TypeOK
<1> QED
  BY <1>0, <1>1, <1>2
  DEF IInv, PostsCounted, SuspensionAlerted, LeaseHolds, ReviewAhead, RowKnowsUnhealthy

\* The cycle up to its probes
LEMMA ReviewSteps ==
  ASSUME IInv, ReadServer \/ NothingDue \/ EnforceRecertification
  PROVE  IInv'
<1>0. /\ TypeOK /\ PostsCounted /\ SuspensionAlerted /\ ReviewAhead /\ RowKnowsUnhealthy
      /\ server \in Server /\ monitor \in Monitor
      /\ alert \in [AlertType -> {"NONE", "OPEN", "ACKNOWLEDGED", "SUPPRESSED"}]
  BY DEF IInv, TypeOK
<1>1. CASE ReadServer
  <2>1. /\ monitor' \in Monitor /\ monitor'.at = "READ"
        /\ monitor'.row.operational = server.operational /\ server.state # "SUSPENDED"
        /\ UNCHANGED <<server, alert, delivery, crashes, interventions>>
    BY <1>0, <1>1 DEF ReadServer, Monitor, Row, Server, Served
  <2> QED
    BY <1>0, <2>1 DEF IInv, TypeOK, PostsCounted, SuspensionAlerted, LeaseHolds, ReviewAhead,
       RowKnowsUnhealthy
<1>2. CASE NothingDue
  <2>1. /\ monitor' \in Monitor /\ monitor'.at = "DELIVERING"
        /\ UNCHANGED <<server, alert, delivery, crashes, interventions>>
    BY <1>0, <1>2 DEF NothingDue, Monitor
  <2> QED
    BY <1>0, <2>1 DEF IInv, TypeOK, PostsCounted, SuspensionAlerted, LeaseHolds, ReviewAhead,
       RowKnowsUnhealthy
<1>3. CASE EnforceRecertification
  <2>1. CASE InternalError
    BY <2>1, InternalErrorStep
  <2>2. CASE /\ server' = [server EXCEPT !.state = "SUSPENDED", !.operational = "DISABLED"]
             /\ Alerts(Raised(alert, "blocked")) /\ Goes("DELIVERING")
             /\ UNCHANGED <<crashes, interventions>>
    <3>1. server' \in Server
      BY <1>0, <2>2 DEF Server, ServerState
    <3>2. /\ Raised(alert, "blocked")
               \in [AlertType -> {"NONE", "OPEN", "ACKNOWLEDGED", "SUPPRESSED"}]
          /\ Raised(alert, "blocked")["blocked"] # "NONE"
      BY <1>0, RaisedAlerts DEF AlertType
    <3> QED
      BY <2>2, <3>1, <3>2, RecordStep
  <2>3. CASE /\ alert' = Closed(alert, {"blocked"}) \/ UNCHANGED alert
             /\ monitor' = [monitor EXCEPT !.at = "PROBING"]
             /\ UNCHANGED <<server, delivery, crashes, interventions>>
    <3>1. /\ monitor' \in Monitor /\ monitor'.at = "PROBING" /\ monitor'.row = monitor.row
          /\ monitor.at = "READ"
      BY <1>0, <1>3, <2>3 DEF EnforceRecertification, Monitor
    <3>2. TypeOK'
      BY <1>0, <2>3, <3>1, ClosedAlerts DEF TypeOK
    <3>3. server.state # "SUSPENDED"
      BY <1>0, <3>1 DEF ReviewAhead
    <3> QED
      BY <1>0, <2>3, <3>1, <3>2, <3>3
      DEF IInv, PostsCounted, SuspensionAlerted, LeaseHolds, ReviewAhead, RowKnowsUnhealthy
  <2> QED
    BY <1>3, <2>1, <2>2, <2>3 DEF EnforceRecertification
<1> QED
  BY <1>1, <1>2, <1>3

\* The probes: no alert about a suspension is closed, no server suspended.
LEMMA ProbeSteps ==
  ASSUME IInv, ProbingFails \/ \E o \in Outcome, judged \in BOOLEAN : RecordProbes(o, judged)
  PROVE  IInv'
<1>0. /\ TypeOK /\ SuspensionAlerted /\ server \in Server
      /\ alert \in [AlertType -> {"NONE", "OPEN", "ACKNOWLEDGED", "SUPPRESSED"}]
  BY DEF IInv, TypeOK
<1>1. CASE InternalError
  BY <1>1, InternalErrorStep
<1>2. ASSUME NEW o \in Outcome, NEW judged \in BOOLEAN, RecordProbes(o, judged), ~InternalError
      PROVE  IInv'
  <2>1. /\ UNCHANGED <<crashes, interventions>> /\ Goes("DELIVERING")
        /\ Alerts(AlertsAfter(o, judged))
        /\ \/ server' = [server EXCEPT !.failed = TRUE, !.state = "QUARANTINED",
                                       !.operational = "QUARANTINED"]
           \/ server' = [server EXCEPT !.failed = Failed(o),
                                       !.operational = Evaluated(o, monitor.row)]
    BY <1>2 DEF RecordProbes
  <2>2. Evaluated(o, monitor.row) \in Operational \cup {"DISABLED", "QUARANTINED"}
    BY <1>0, EvaluatedStates
  <2>3. Failed(o) \in BOOLEAN
    BY DEF Failed, Outcome
  <2>4. server' \in Server /\ server'.state \in {server.state, "QUARANTINED"}
    BY <1>0, <2>1, <2>2, <2>3 DEF Server, ServerState
  <2>5. /\ AlertsAfter(o, judged) \in [AlertType -> {"NONE", "OPEN", "ACKNOWLEDGED", "SUPPRESSED"}]
        /\ alert["blocked"] # "NONE" => AlertsAfter(o, judged)["blocked"] # "NONE"
    <3> DEFINE a == Closed(alert, {"internal_error"})
    <3>1. /\ a \in [AlertType -> {"NONE", "OPEN", "ACKNOWLEDGED", "SUPPRESSED"}]
          /\ a["blocked"] = alert["blocked"]
      BY <1>0, ClosedAlerts DEF AlertType
    <3>2. AlertsAfter(o, judged) \in {Raised(a, "probe"), Closed(a, {"probe"}), a}
      BY DEF AlertsAfter
    <3>3. /\ Raised(a, "probe") \in [AlertType -> {"NONE", "OPEN", "ACKNOWLEDGED", "SUPPRESSED"}]
          /\ a["blocked"] # "NONE" => Raised(a, "probe")["blocked"] # "NONE"
      BY <3>1, RaisedAlerts DEF AlertType
    <3>4. /\ Closed(a, {"probe"}) \in [AlertType -> {"NONE", "OPEN", "ACKNOWLEDGED", "SUPPRESSED"}]
          /\ Closed(a, {"probe"})["blocked"] = a["blocked"]
      BY <3>1, ClosedAlerts DEF AlertType
    <3> HIDE DEF a
    <3> QED
      BY <3>1, <3>2, <3>3, <3>4
  <2>6. server'.state = "SUSPENDED" => AlertsAfter(o, judged)["blocked"] # "NONE"
    BY <1>0, <2>4, <2>5 DEF SuspensionAlerted
  <2> QED
    BY <2>1, <2>4, <2>5, <2>6, RecordStep
<1> QED
  BY <1>1, <1>2 DEF ProbingFails

\* The deliveries, and the end of the cycle
LEMMA DeliverySteps ==
  ASSUME IInv, \/ \E d \in Deliveries : LeaseDelivery(d)
               \/ \E received, accepted \in BOOLEAN : Post(received, accepted)
               \/ RecordAnswer \/ EndCycle \/ Crash
  PROVE  IInv'
<1>0. /\ TypeOK /\ PostsCounted /\ SuspensionAlerted /\ LeaseHolds
      /\ monitor \in Monitor /\ delivery \in [Deliveries -> Delivery]
      /\ UNCHANGED <<server, alert, interventions>>
  BY DEF IInv, TypeOK, LeaseDelivery, Post, RecordAnswer, EndCycle, Crash
<1>1. ASSUME NEW d \in Deliveries, LeaseDelivery(d) PROVE IInv'
  <2>1. /\ monitor' \in Monitor /\ monitor'.at = "LEASED" /\ monitor'.lease = d
        /\ delivery[d].state \in {"PENDING", "RETRY"} /\ UNCHANGED crashes
    BY <1>0, <1>1 DEF LeaseDelivery, Due, Monitor
  <2>2. /\ delivery' \in [Deliveries -> Delivery]
        /\ delivery'[d].attempts = delivery[d].attempts + 1
        /\ delivery'[d].posts = delivery[d].posts /\ delivery'[d].state = delivery[d].state
        /\ \A e \in Deliveries \ {d} : delivery'[e] = delivery[e]
        /\ \A e \in Deliveries : delivery[e].attempts \in Nat /\ delivery[e].posts \in Nat
    <3>1. \A e \in Deliveries : delivery[e] \in Delivery
      BY <1>0
    <3>2. delivery' = [delivery EXCEPT ![d] = [delivery[d] EXCEPT !.attempts = delivery[d].attempts + 1]]
      BY <1>1 DEF LeaseDelivery, Counted
    <3>3. [delivery[d] EXCEPT !.attempts = delivery[d].attempts + 1] \in Delivery
      BY <3>1 DEF Delivery
    <3> QED
      BY <1>0, <3>1, <3>2, <3>3 DEF Delivery
  <2>3. PostsCounted'
    BY <1>0, <2>2 DEF PostsCounted
  <2>4. LeaseHolds'
    BY <1>0, <2>1, <2>2 DEF LeaseHolds, PostsCounted
  <2> QED
    BY <1>0, <2>1, <2>2, <2>3, <2>4 DEF IInv, TypeOK, SuspensionAlerted, ReviewAhead,
       RowKnowsUnhealthy
<1>2. ASSUME NEW received \in BOOLEAN, NEW accepted \in BOOLEAN, Post(received, accepted)
      PROVE  IInv'
  <2> DEFINE d == monitor.lease
  <2>1. /\ monitor' \in Monitor /\ monitor'.at = "ANSWERED" /\ monitor'.lease = d
        /\ UNCHANGED crashes
    BY <1>0, <1>2 DEF Post, Monitor
  <2>2. /\ d \in Deliveries /\ delivery[d].posts < delivery[d].attempts
        /\ delivery[d].state \notin {"NONE", "DELIVERED"}
    BY <1>0, <1>2 DEF Post, LeaseHolds
  <2>3. /\ delivery' \in [Deliveries -> Delivery]
        /\ delivery'[d].attempts = delivery[d].attempts
        /\ delivery'[d].posts \in {delivery[d].posts, delivery[d].posts + 1}
        /\ delivery'[d].state = delivery[d].state
        /\ \A e \in Deliveries \ {d} : delivery'[e] = delivery[e]
        /\ \A e \in Deliveries : delivery[e].attempts \in Nat /\ delivery[e].posts \in Nat
    <3>1. \A e \in Deliveries : delivery[e] \in Delivery
      BY <1>0
    <3>2. CASE received
      <4>1. delivery' = [delivery EXCEPT ![d] = [delivery[d] EXCEPT !.posts = delivery[d].posts + 1]]
        BY <1>2, <3>2 DEF Post
      <4>2. [delivery[d] EXCEPT !.posts = delivery[d].posts + 1] \in Delivery
        BY <2>2, <3>1 DEF Delivery
      <4> QED
        BY <1>0, <2>2, <3>1, <4>1, <4>2 DEF Delivery
    <3>3. CASE ~received
      BY <1>0, <1>2, <2>2, <3>1, <3>3 DEF Post, Delivery
    <3> QED
      BY <3>2, <3>3
  <2>4. PostsCounted'
    BY <1>0, <2>2, <2>3 DEF PostsCounted
  <2>5. LeaseHolds'
    BY <2>1, <2>2, <2>3 DEF LeaseHolds
  <2> QED
    BY <1>0, <2>1, <2>3, <2>4, <2>5 DEF IInv, TypeOK, SuspensionAlerted, ReviewAhead,
       RowKnowsUnhealthy
<1>3. CASE RecordAnswer
  <2>1. monitor' \in Monitor /\ monitor'.at = "DELIVERING" /\ UNCHANGED crashes
    BY <1>3, GoesMonitor DEF RecordAnswer
  <2>2. /\ delivery' \in [Deliveries -> Delivery]
        /\ \A e \in Deliveries : /\ delivery'[e].attempts = delivery[e].attempts
                                 /\ delivery'[e].posts = delivery[e].posts
    BY <1>0, <1>3 DEF RecordAnswer, Delivery
  <2> QED
    BY <1>0, <2>1, <2>2
    DEF IInv, TypeOK, PostsCounted, SuspensionAlerted, LeaseHolds, ReviewAhead, RowKnowsUnhealthy
<1>4. CASE EndCycle \/ Crash
  <2>1. monitor' \in Monitor /\ monitor'.at = "SLEEPING" /\ UNCHANGED delivery
    <3>1. monitor' = Sleeping /\ UNCHANGED delivery
      BY <1>4 DEF EndCycle, Crash
    <3>2. Sleeping \in Monitor /\ Sleeping.at = "SLEEPING"
      BY DEF Sleeping, NoRow, Monitor, Row, Operational
    <3> QED
      BY <3>1, <3>2
  <2>2. crashes' \in 0..MaxCrashes
    <3>1. crashes \in 0..MaxCrashes /\ MaxCrashes \in Nat
      BY <1>0, BoundAssumption DEF TypeOK
    <3> QED
      BY <1>4, <3>1 DEF EndCycle, Crash
  <2> QED
    BY <1>0, <2>1, <2>2
    DEF IInv, TypeOK, PostsCounted, SuspensionAlerted, LeaseHolds, ReviewAhead, RowKnowsUnhealthy
<1> QED
  BY <1>1, <1>2, <1>3, <1>4

\* What administrators do with alerts and deliveries, and the end of suppressions
LEMMA AlertSteps ==
  ASSUME IInv, ExpireSuppressions \/ Administrator
  PROVE  IInv'
<1>0. /\ TypeOK /\ PostsCounted /\ SuspensionAlerted /\ LeaseHolds
      /\ delivery \in [Deliveries -> Delivery]
      /\ alert \in [AlertType -> {"NONE", "OPEN", "ACKNOWLEDGED", "SUPPRESSED"}]
  BY DEF IInv, TypeOK
<1>1. CASE ExpireSuppressions \/ \E t \in Handled : Acknowledge(t) \/ Suppress(t)
  <2>1. UNCHANGED <<server, delivery, monitor, crashes, interventions>>
    BY <1>1 DEF ExpireSuppressions, Acknowledge, Suppress
  <2>2. /\ alert' \in [AlertType -> {"NONE", "OPEN", "ACKNOWLEDGED", "SUPPRESSED"}]
        /\ \A t \in AlertType : alert[t] # "NONE" => alert'[t] # "NONE"
    BY <1>0, <1>1 DEF ExpireSuppressions, Reopened, Acknowledge, Suppress
  <2>3. "blocked" \in AlertType
    BY DEF AlertType
  <2> QED
    BY <1>0, <2>1, <2>2, <2>3
    DEF IInv, TypeOK, PostsCounted, SuspensionAlerted, LeaseHolds, ReviewAhead, RowKnowsUnhealthy
<1>2. CASE TestAlert \/ \E d \in Deliveries : RetryByHand(d)
  <2>1. UNCHANGED <<server, alert, monitor, crashes>> /\ interventions' \in 0..MaxInterventions
    <3>1. interventions \in 0..MaxInterventions /\ MaxInterventions \in Nat
      BY <1>0, BoundAssumption DEF TypeOK
    <3>2. /\ UNCHANGED <<server, alert, monitor, crashes>>
          /\ interventions < MaxInterventions /\ interventions' = interventions + 1
      BY <1>2 DEF TestAlert, RetryByHand
    <3> QED
      BY <3>1, <3>2
  <2>2. /\ delivery' \in [Deliveries -> Delivery]
        /\ \A d \in Deliveries :
             /\ delivery'[d].attempts = delivery[d].attempts
             /\ delivery'[d].posts = delivery[d].posts
             /\ delivery[d].state \notin {"NONE", "DELIVERED"}
                  => delivery'[d].state \notin {"NONE", "DELIVERED"}
    <3>1. CASE TestAlert
      BY <1>0, <3>1, QueuedDeliveries DEF TestAlert
    <3>2. ASSUME NEW e \in Deliveries, RetryByHand(e) PROVE <2>2!1 /\ <2>2!2
      BY <1>0, <3>2 DEF RetryByHand, Delivery
    <3> QED
      BY <1>2, <3>1, <3>2
  <2> QED
    BY <1>0, <2>1, <2>2
    DEF IInv, TypeOK, PostsCounted, SuspensionAlerted, LeaseHolds, ReviewAhead, RowKnowsUnhealthy
<1> QED
  BY <1>1, <1>2 DEF Administrator

-----------------------------------------------------------------------------
(* The theorems *)

LEMMA InvariantStart == Init => IInv
<1> SUFFICES ASSUME Init PROVE IInv
  OBVIOUS
<1>1. TypeOK
  BY BoundAssumption
  DEF Init, TypeOK, Server, ServerState, Registered, Operational, Phase, Delivery, Monitor,
      Sleeping, NoRow, Row
<1> QED
  BY <1>1 DEF Init, IInv, Registered, Sleeping, PostsCounted, SuspensionAlerted, LeaseHolds,
     ReviewAhead, RowKnowsUnhealthy

LEMMA InvariantStep == IInv /\ [Next]_vars => IInv'
<1> SUFFICES ASSUME IInv, [Next]_vars PROVE IInv'
  OBVIOUS
<1>1. CASE UNCHANGED vars
  BY <1>1 DEF vars, IInv, TypeOK, PostsCounted, SuspensionAlerted, LeaseHolds, ReviewAhead,
     RowKnowsUnhealthy
<1>2. CASE Next
  BY <1>2, ServerSteps, ReviewSteps, ProbeSteps, DeliverySteps, AlertSteps
  DEF Next, Cycle, Environment
<1> QED
  BY <1>1, <1>2

\* What the cycle may rely on between its steps, whatever administrators, the
\* pipeline and the end of the process do meanwhile
THEOREM Invariance == Spec => []IInv
  BY InvariantStart, InvariantStep, PTL DEF Spec

\* The rows and the process have their types.
THEOREM TypeCorrect == Spec => []TypeOK
<1>1. IInv => TypeOK
  BY DEF IInv
<1> QED
  BY <1>1, Invariance, PTL

\* No alert reaches its receiver more often than attempts are on record.
THEOREM PostsAreCounted == Spec => []PostsCounted
<1>1. IInv => PostsCounted
  BY DEF IInv
<1> QED
  BY <1>1, Invariance, PTL

\* A server suspended for its review has an alert about it that is not closed.
THEOREM SuspensionIsAlerted == Spec => []SuspensionAlerted
<1>1. IInv => SuspensionAlerted
  BY DEF IInv
<1> QED
  BY <1>1, Invariance, PTL

\* No cycle takes an UNHEALTHY server to HEALTHY, whatever row it judges from.
THEOREM HysteresisHolds == Spec => Hysteresis
<1>1. IInv /\ [Next]_vars =>
        [(server.operational = "UNHEALTHY" /\ server'.operational = "HEALTHY") =>
           server.state # server'.state]_vars
  <2> SUFFICES ASSUME IInv, Next, server.operational = "UNHEALTHY",
                      server'.operational = "HEALTHY"
               PROVE  server.state # server'.state
    BY DEF vars
  <2>0. /\ TypeOK /\ server \in Server /\ RowKnowsUnhealthy
        /\ server' # server
    BY DEF IInv, TypeOK
  <2>1. ASSUME NEW to \in {"REGISTERED_DISABLED", "TRIAL", "ACTIVE"}, SetState(to)
        PROVE  server.state # server'.state
    BY <2>0, <2>1 DEF SetState, Server
  <2>2. ~NewRevision /\ ~ReviewAges /\ ~InternalError
    BY <2>0 DEF NewRevision, Registered, ReviewAges, InternalError, Server
  <2>3. CASE EnforceRecertification
    BY <2>0, <2>2, <2>3 DEF EnforceRecertification, Server
  <2>4. ASSUME NEW o \in Outcome, NEW judged \in BOOLEAN, RecordProbes(o, judged) PROVE FALSE
    <3>1. monitor.row.operational = "UNHEALTHY"
      BY <2>0, <2>4 DEF RecordProbes, RowKnowsUnhealthy
    <3>2. Evaluated(o, monitor.row) # "HEALTHY"
      BY <2>0, <3>1, EvaluatedStates
    <3> QED
      BY <2>0, <2>2, <2>4, <3>2 DEF RecordProbes, Server
  <2>5. Next => \/ \E to \in {"REGISTERED_DISABLED", "TRIAL", "ACTIVE"} : SetState(to)
                \/ NewRevision \/ ReviewAges \/ InternalError \/ EnforceRecertification
                \/ \E o \in Outcome, judged \in BOOLEAN : RecordProbes(o, judged)
                \/ server' = server
    BY DEF Next, Cycle, Administrator, Environment, ReadServer, NothingDue, ProbingFails,
           LeaseDelivery, Post, RecordAnswer, EndCycle, Crash, ExpireSuppressions, Acknowledge,
           Suppress, RetryByHand, TestAlert
  <2> QED
    BY <2>0, <2>1, <2>2, <2>3, <2>4, <2>5
<1> QED
  BY <1>1, Invariance, PTL DEF Spec, Hysteresis

\* What was delivered stays delivered: a delivery that is leased is not settled,
\* and a retry by hand takes none that is DELIVERED.
THEOREM DeliveredStays == Spec => DeliveredIsFinal
<1>1. IInv /\ [Next]_vars =>
        [\A d \in Deliveries :
           delivery[d].state = "DELIVERED" => delivery'[d].state = "DELIVERED"]_vars
  <2> SUFFICES ASSUME IInv, Next, NEW d \in Deliveries, delivery[d].state = "DELIVERED"
               PROVE  delivery'[d].state = "DELIVERED"
    BY DEF vars
  <2>0. TypeOK /\ delivery \in [Deliveries -> Delivery] /\ delivery[d] \in Delivery /\ LeaseHolds
    BY DEF IInv, TypeOK
  <2>1. ASSUME NEW new, delivery' = Queued(new) PROVE delivery'[d].state = "DELIVERED"
    BY <2>0, <2>1, QueuedDeliveries
  <2>2. CASE EnforceRecertification \/ InternalError
    BY <2>1, <2>2 DEF EnforceRecertification, InternalError, Alerts
  <2>3. ASSUME NEW o \in Outcome, NEW judged \in BOOLEAN, RecordProbes(o, judged)
        PROVE  delivery'[d].state = "DELIVERED"
    BY <2>1, <2>2, <2>3 DEF RecordProbes, Alerts
  <2>4. ASSUME NEW e \in Deliveries, LeaseDelivery(e) \/ RetryByHand(e)
        PROVE  delivery'[d].state = "DELIVERED"
    BY <2>0, <2>4 DEF LeaseDelivery, Due, Counted, RetryByHand, Retryable
  <2>5. ASSUME NEW received \in BOOLEAN, NEW accepted \in BOOLEAN, Post(received, accepted)
        PROVE  delivery'[d].state = "DELIVERED"
    <3>1. d # monitor.lease
      BY <2>0, <2>5 DEF Post, LeaseHolds
    <3> QED
      BY <2>0, <2>5, <3>1 DEF Post
  <2>6. CASE RecordAnswer
    <3>1. d # monitor.lease
      BY <2>0, <2>6 DEF RecordAnswer, LeaseHolds
    <3> QED
      BY <2>0, <2>6, <3>1 DEF RecordAnswer
  <2>7. Next => \/ EnforceRecertification \/ InternalError
                \/ \E o \in Outcome, judged \in BOOLEAN : RecordProbes(o, judged)
                \/ \E e \in Deliveries : LeaseDelivery(e) \/ RetryByHand(e)
                \/ \E received, accepted \in BOOLEAN : Post(received, accepted)
                \/ RecordAnswer
                \/ delivery' = Queued(TRUE)
                \/ delivery' = delivery
    BY DEF Next, Cycle, Administrator, Environment, ReadServer, NothingDue, ProbingFails,
           EndCycle, Crash, ExpireSuppressions, Acknowledge, Suppress, TestAlert, SetState,
           NewRevision, ReviewAges
  <2> QED
    BY <2>0, <2>1, <2>2, <2>3, <2>4, <2>5, <2>6, <2>7
<1> QED
  BY <1>1, Invariance, PTL DEF Spec, DeliveredIsFinal

=============================================================================
