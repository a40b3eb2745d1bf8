------------------------------ MODULE Monitoring ------------------------------
(***************************************************************************)
(* The monitoring scheduler (onboarding/monitoring.ts) and the alerts it   *)
(* raises and delivers (domain/alerts.ts), for one MCP server.             *)
(*                                                                         *)
(* One process runs cycle after cycle: it reads the server if it is served *)
(* and due, enforces its recertification, probes it, records what came of  *)
(* the probes, and posts up to twenty alerts that are due.  Between these  *)
(* steps administrators and the onboarding pipeline change the server, and *)
(* the cycle goes on with the row it has read.  The process may die.       *)
(*                                                                         *)
(* Alerts are known by their type.  The deliveries of an alert lead a life *)
(* of their own once it is raised, whatever becomes of the alert.          *)
(***************************************************************************)
EXTENDS Naturals

CONSTANTS
  Deliveries,       \* rows of alert_webhook_delivery that are followed
  MaxAttempts,      \* attempts of a delivery before it is a dead letter
  MinSamples,       \* samples evaluateOperationalState asks for
  Handled,          \* bound: types of the alerts administrators deal with
  MaxCrashes,       \* bound: deaths of the process
  MaxInterventions, \* bound: retries by hand and test alerts of administrators
  None              \* no delivery

ASSUME BoundAssumption == MaxCrashes \in Nat /\ MaxInterventions \in Nat

VARIABLES
  server,    \* the mcp_server row with its review and monitoring profile
  alert,     \* status of the active alert of each type
  delivery,  \* the deliveries, with what the receiver has got
  monitor,   \* where the process stands and the row it has read
  crashes, interventions

vars == <<server, alert, delivery, monitor, crashes, interventions>>

ServerState == {"REGISTERED_DISABLED", "TRIAL", "ACTIVE", "SUSPENDED", "QUARANTINED"}
Served == {"TRIAL", "ACTIVE"}
Operational == {"HEALTHY", "DEGRADED", "UNHEALTHY", "UNKNOWN"}
Phase == {"VALID", "GRACE", "SUSPENDED"}
\* the warnings of enforceRecertification before the end of the grace period are
\* left out, and so are the objectives of evaluateSlo
AlertType == {"probe", "internal_error", "blocked"}

\* failed: consecutive_failures is not zero, which is all that is asked of it
Server ==
  [state: ServerState, operational: Operational \cup {"DISABLED", "QUARANTINED"},
   phase: Phase, failed: BOOLEAN]

Row == [operational: Operational \cup {"DISABLED", "QUARANTINED"}, failed: BOOLEAN,
        over: BOOLEAN]

\* posts: how often the receiver has got it
Delivery ==
  [state: {"NONE", "PENDING", "RETRY", "DELIVERED", "DEAD_LETTER"},
   attempts: Nat, posts: Nat]

Monitor ==
  [at: {"SLEEPING", "READ", "PROBING", "DELIVERING", "LEASED", "ANSWERED"},
   row: Row, lease: Deliveries \cup {None}, accepted: BOOLEAN]

TypeOK ==
  /\ server \in Server
  /\ alert \in [AlertType -> {"NONE", "OPEN", "ACKNOWLEDGED", "SUPPRESSED"}]
  /\ delivery \in [Deliveries -> Delivery]
  /\ monitor \in Monitor
  /\ crashes \in 0..MaxCrashes /\ interventions \in 0..MaxInterventions

Registered == [state |-> "REGISTERED_DISABLED", operational |-> "DISABLED",
               phase |-> "VALID", failed |-> FALSE]
NoRow == [operational |-> "DISABLED", failed |-> FALSE, over |-> FALSE]
Sleeping == [at |-> "SLEEPING", row |-> NoRow, lease |-> None, accepted |-> FALSE]

Init ==
  /\ server = Registered
  /\ alert = [t \in AlertType |-> "NONE"]
  /\ delivery = [d \in Deliveries |-> [state |-> "NONE", attempts |-> 0, posts |-> 0]]
  /\ monitor = Sleeping
  /\ crashes = 0 /\ interventions = 0

-----------------------------------------------------------------------------
(* Alerts *)

\* raiseAlert and closeAlert, of the alerts as they are
Raised(a, t) == IF a[t] = "NONE" THEN [a EXCEPT ![t] = "OPEN"] ELSE a
Closed(a, types) == [t \in AlertType |-> IF t \in types THEN "NONE" ELSE a[t]]

\* The rows raiseAlert inserts.  An alert that was active before has none; of
\* those of a new one, one is followed if one is left.
Queued(new) ==
  IF new /\ \E d \in Deliveries : delivery[d].state = "NONE"
    THEN LET d == CHOOSE d \in Deliveries : delivery[d].state = "NONE"
         IN [delivery EXCEPT ![d].state = "PENDING"]
    ELSE delivery

\* alert and delivery after a transaction that has the alerts `after`
Alerts(after) ==
  /\ alert' = after
  /\ delivery' = Queued(\E t \in AlertType : alert[t] = "NONE" /\ after[t] # "NONE")

-----------------------------------------------------------------------------
(* The server: administrators and the onboarding pipeline *)

\* transitionServerState to REGISTERED_DISABLED, TRIAL or ACTIVE; recovery is
\* that of the pipeline
SetState(to) ==
  /\ \/ server.state = "REGISTERED_DISABLED" /\ to = "TRIAL"
     \/ server.state = "TRIAL" /\ to \in {"ACTIVE", "REGISTERED_DISABLED"}
     \/ server.state = "ACTIVE" /\ to = "REGISTERED_DISABLED"
  /\ to \in Served => server.phase = "VALID"
  /\ server' = [server EXCEPT !.state = to,
       !.operational = CASE to = "ACTIVE" -> "HEALTHY" [] to = "TRIAL" -> "UNKNOWN"
                         [] OTHER -> "DISABLED"]
  /\ UNCHANGED <<alert, delivery, monitor, crashes, interventions>>

\* registerDisabledServer: a new revision and its review.  consecutive_failures
\* stays as it is.
NewRevision ==
  /\ server' = [Registered EXCEPT !.failed = server.failed]
  /\ UNCHANGED <<alert, delivery, monitor, crashes, interventions>>

\* evaluateRecertification as time passes; WARNING is VALID to the state
ReviewAges ==
  /\ server.phase # "SUSPENDED"
  /\ server' = [server EXCEPT !.phase =
       IF @ = "VALID" THEN "GRACE" ELSE "SUSPENDED"]
  /\ UNCHANGED <<alert, delivery, monitor, crashes, interventions>>

-----------------------------------------------------------------------------
(* The cycle up to the probes *)

Reopened_closed(status) == IF status = "SUPPRESSED" THEN "NONE" ELSE status   \* mutant
Reopened(status) == IF status = "SUPPRESSED" THEN "OPEN" ELSE status

\* expireAlertSuppressions at the beginning of a cycle, for those that are over
ExpireSuppressions ==
  /\ monitor.at = "SLEEPING"
  /\ \E types \in SUBSET {t \in AlertType : alert[t] = "SUPPRESSED"} :
       alert' = [t \in AlertType |-> IF t \in types THEN Reopened(alert[t]) ELSE alert[t]]
  /\ alert' # alert
  /\ UNCHANGED <<server, delivery, monitor, crashes, interventions>>

\* runOnce's select finds the server, or does not
ReadServer ==
  /\ monitor.at = "SLEEPING" /\ server.state \in Served
  /\ monitor' = [monitor EXCEPT !.at = "READ", !.row =
       [operational |-> server.operational, failed |-> server.failed,
        over |-> server.phase = "SUSPENDED"]]
  /\ UNCHANGED <<server, alert, delivery, crashes, interventions>>

NothingDue ==
  /\ monitor.at = "SLEEPING"
  /\ monitor' = [monitor EXCEPT !.at = "DELIVERING"]
  /\ UNCHANGED <<server, alert, delivery, crashes, interventions>>

Goes(at) == monitor' = [Sleeping EXCEPT !.at = at]

\* A step of probeServer throws: recordInternalError
InternalError ==
  /\ server' = [server EXCEPT !.failed = TRUE]
  /\ Alerts(Raised(alert, "internal_error"))
  /\ Goes("DELIVERING")
  /\ UNCHANGED <<crashes, interventions>>

CanSuspend == server.state \in {"REGISTERED_DISABLED", "TRIAL", "ACTIVE"}
CanQuarantine == server.state # "QUARANTINED"

Over_never(row) == FALSE   \* mutant
Over(row) == row.over

\* enforceRecertification, on the review that was read
EnforceRecertification ==
  /\ monitor.at = "READ"
  /\ \/ /\ Over(monitor.row) /\ CanSuspend
        /\ server' = [server EXCEPT !.state = "SUSPENDED", !.operational = "DISABLED"]
        /\ Alerts(Raised(alert, "blocked"))
        /\ Goes("DELIVERING")
        /\ UNCHANGED <<crashes, interventions>>
     \/ /\ Over(monitor.row) /\ ~CanSuspend
        /\ InternalError
     \/ /\ ~Over(monitor.row)
        /\ \/ alert' = Closed(alert, {"blocked"})   \* the review is VALID
           \/ UNCHANGED alert                       \* WARNING or GRACE
        /\ monitor' = [monitor EXCEPT !.at = "PROBING"]
        /\ UNCHANGED <<server, delivery, crashes, interventions>>

-----------------------------------------------------------------------------
(* The probes.  What they bring: the number of probes that were due, and     *)
(* whether a critical one, another one, or one that shows drift has failed.  *)

Failed(o) == o.critical \/ o.other \/ o.drift
Outcome ==
  {o \in [samples: 0..MinSamples, critical: BOOLEAN, other: BOOLEAN, drift: BOOLEAN] :
     Failed(o) => o.samples > 0}

Recovered_streakOnly(row) == ~row.failed   \* mutant
Recovered(row) == row.operational # "UNHEALTHY" /\ ~row.failed

\* evaluateOperationalState, which is not asked when no probe was due
Evaluated(o, row) ==
  LET current == IF row.operational \in Operational THEN row.operational ELSE "UNKNOWN" IN
  CASE o.samples = 0 -> server.operational
    [] o.samples \in 1..(MinSamples - 1) -> current
    [] o.critical /\ row.failed /\ o.samples >= MinSamples -> "UNHEALTHY"
    [] Failed(o) /\ ~(o.critical /\ row.failed) /\ o.samples >= MinSamples -> "DEGRADED"
    [] OTHER -> IF Recovered(row) THEN "HEALTHY" ELSE "DEGRADED"

\* the alerts after evaluateProbeAlert and the end of the cycle; judged: the
\* probe of the alert was due, and has failed as often as its rule asks for or passed
AlertsAfter(o, judged) ==
  LET a == Closed(alert, {"internal_error"}) IN
  CASE judged /\ Failed(o) -> Raised(a, "probe")
    [] judged /\ ~Failed(o) -> Closed(a, {"probe"})
    [] OTHER -> a

\* The transaction at the end of probeServer.  The state it computes is written
\* whatever has become of the server; the quarantine must be allowed from the
\* state of now.
RecordProbes(o, judged) ==
  /\ monitor.at = "PROBING"
  /\ IF o.drift /\ ~CanQuarantine THEN InternalError
     ELSE /\ server' =
               IF o.drift
                 THEN [server EXCEPT !.failed = TRUE, !.state = "QUARANTINED",
                                     !.operational = "QUARANTINED"]
                 ELSE [server EXCEPT !.failed = Failed(o),
                                     !.operational = Evaluated(o, monitor.row)]
          /\ Alerts(AlertsAfter(o, judged))
          /\ Goes("DELIVERING")
          /\ UNCHANGED <<crashes, interventions>>

\* a stored manifest that does not validate, a statement that fails
ProbingFails == monitor.at = "PROBING" /\ InternalError

-----------------------------------------------------------------------------
(* Deliveries *)

Counted_late(d) == delivery   \* mutant
Counted(d) == [delivery EXCEPT ![d].attempts = @ + 1]

Due_retries(d) == delivery[d].state = "RETRY"   \* mutant
Due(d) == delivery[d].state \in {"PENDING", "RETRY"}

\* leaseDelivery: the row is due again in two minutes
LeaseDelivery(d) ==
  /\ monitor.at = "DELIVERING"
  /\ Due(d)
  /\ delivery' = Counted(d)
  /\ monitor' = [monitor EXCEPT !.at = "LEASED", !.lease = d]
  /\ UNCHANGED <<server, alert, crashes, interventions>>

\* deliverNextAlert's fetch; the receiver may get the alert and the answer be lost
Post(received, accepted) ==
  /\ monitor.at = "LEASED"
  /\ accepted => received
  /\ delivery' = IF received THEN [delivery EXCEPT ![monitor.lease].posts = @ + 1] ELSE delivery
  /\ monitor' = [monitor EXCEPT !.at = "ANSWERED", !.accepted = accepted]
  /\ UNCHANGED <<server, alert, crashes, interventions>>

Terminal(d) == delivery[d].attempts >= MaxAttempts

RecordAnswer ==
  LET d == monitor.lease IN
  /\ monitor.at = "ANSWERED"
  /\ delivery' = [delivery EXCEPT ![d].state =
       IF monitor.accepted THEN "DELIVERED" ELSE IF Terminal(d) THEN "DEAD_LETTER" ELSE "RETRY"]
  /\ Goes("DELIVERING")
  /\ UNCHANGED <<server, alert, crashes, interventions>>

\* No delivery is due, or twenty were made
EndCycle ==
  /\ monitor.at = "DELIVERING"
  /\ monitor' = Sleeping
  /\ UNCHANGED <<server, alert, delivery, crashes, interventions>>

Crash ==
  /\ monitor.at # "SLEEPING" /\ crashes < MaxCrashes
  /\ crashes' = crashes + 1
  /\ monitor' = Sleeping
  /\ UNCHANGED <<server, alert, delivery, interventions>>

-----------------------------------------------------------------------------
(* Administrators: http/admin-routes.ts *)

Acknowledge(t) ==
  /\ alert[t] = "OPEN"
  /\ alert' = [alert EXCEPT ![t] = "ACKNOWLEDGED"]
  /\ UNCHANGED <<server, delivery, monitor, crashes, interventions>>

Suppress(t) ==
  /\ alert[t] \in {"OPEN", "ACKNOWLEDGED"}
  /\ alert' = [alert EXCEPT ![t] = "SUPPRESSED"]
  /\ UNCHANGED <<server, delivery, monitor, crashes, interventions>>

Retryable_any(d) == delivery[d].state # "NONE"   \* mutant
Retryable(d) == delivery[d].state \in {"RETRY", "DEAD_LETTER"}

\* POST /api/alert-deliveries/:id/retry leaves attempt_count
RetryByHand(d) ==
  /\ Retryable(d) /\ interventions < MaxInterventions
  /\ interventions' = interventions + 1
  /\ delivery' = [delivery EXCEPT ![d].state = "RETRY"]
  /\ UNCHANGED <<server, alert, monitor, crashes>>

\* POST /api/alerts/test raises an alert of a type of its own
TestAlert ==
  /\ interventions < MaxInterventions
  /\ interventions' = interventions + 1
  /\ delivery' = Queued(TRUE)
  /\ UNCHANGED <<server, alert, monitor, crashes>>

-----------------------------------------------------------------------------

Cycle ==
  \/ ReadServer \/ NothingDue \/ EnforceRecertification \/ ProbingFails
  \/ \E o \in Outcome, judged \in BOOLEAN : RecordProbes(o, judged)
  \/ \E d \in Deliveries : LeaseDelivery(d)
  \/ \E received, accepted \in BOOLEAN : Post(received, accepted)
  \/ RecordAnswer \/ EndCycle

Administrator ==
  \/ \E t \in Handled : Acknowledge(t) \/ Suppress(t)
  \/ \E d \in Deliveries : RetryByHand(d)
  \/ TestAlert

Environment ==
  \/ \E to \in {"REGISTERED_DISABLED", "TRIAL", "ACTIVE"} : SetState(to)
  \/ NewRevision \/ ReviewAges \/ Crash

Next == Cycle \/ ExpireSuppressions \/ Administrator \/ Environment

\* The loop of run goes on whatever a cycle throws.  A server that stays served
\* is due again after an hour at the latest, and a delivery that stays due is
\* taken: each cycle takes those that are due, the worst and the oldest first.
Fairness ==
  /\ WF_vars(Cycle)
  /\ SF_vars(ReadServer)
  /\ \A d \in Deliveries : SF_vars(LeaseDelivery(d))

Spec == Init /\ [][Next]_vars /\ Fairness
-----------------------------------------------------------------------------
(* Properties *)

\* The receiver never gets an alert more often than attempts are on record,
\* however often the process dies between its steps: the attempt is counted
\* before the alert is posted.
PostsCounted == \A d \in Deliveries : delivery[d].posts <= delivery[d].attempts

\* A server the monitor has suspended for its review has an alert about it that
\* is not closed, through acknowledgement, suppression and its end, until a
\* new revision takes the server out of SUSPENDED.
SuspensionAlerted ==
  server.state = "SUSPENDED" => alert["blocked"] # "NONE"

\* An UNHEALTHY server is HEALTHY again after a cycle of DEGRADED only, also when
\* cycles with few samples lie between; the activation of a trial aside.
Hysteresis ==
  [][(server.operational = "UNHEALTHY" /\ server'.operational = "HEALTHY") =>
       server.state # server'.state]_vars

\* What was delivered is not delivered again: neither a late answer nor an
\* administrator's retry takes it back.
DeliveredIsFinal ==
  [][\A d \in Deliveries :
       delivery[d].state = "DELIVERED" => delivery'[d].state = "DELIVERED"]_vars

\* A server whose review is over by more than the grace period does not stay
\* in service.
ReviewEnforced ==
  (server.phase = "SUSPENDED" /\ server.state \in Served) ~> (server.state \notin Served)

\* An alert reaches its receiver or the dead letters.
AlertsSettled ==
  \A d \in Deliveries :
    delivery[d].state = "PENDING" ~> delivery[d].state \in {"DELIVERED", "DEAD_LETTER"}
=============================================================================
