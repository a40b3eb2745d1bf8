--------------------------- MODULE DispatchWorker ---------------------------
(* The durable control-dispatch worker                                      *)
(* (apps/server/src/onboarding/component-control-worker.ts) over the rows   *)
(* of component_control_dispatch and component_control_dispatch_attempt of  *)
(* one component.                                                           *)
(*                                                                          *)
(* Several worker processes claim rows under a lease, POST the command to   *)
(* the component, record the attempt and acknowledge the command.  Every    *)
(* database transaction of the code is one action; between two of them a    *)
(* worker only keeps the row it read when it claimed ("attempt").           *)
(*                                                                          *)
(* Abstractions: clock readings become flags that time sets (lease lapsed,  *)
(* deadline passed, circuit closed again); the back-off before a retry is   *)
(* the freedom not to claim; the component's policy epoch is only whether   *)
(* a command still carries the current one ("fenced" when it does not).     *)
EXTENDS Naturals, FiniteSets

CONSTANTS Workers,           \* worker processes
          Dispatches,        \* ids of command rows
          MaxAttempts,       \* retry_policy.maxAttempts, 3 in the code
          CircuitThreshold,  \* failures that open the circuit, 3 in the code
          InsertState        \* column default of component_control_dispatch.state

ASSUME WorkerAssumption ==
  /\ MaxAttempts \in Nat \ {0}
  /\ CircuitThreshold \in Nat \ {0}
  /\ InsertState \in {"PENDING", "QUEUED"}

VARIABLES state,         \* [Dispatches -> States]
          attemptCount,  \* [Dispatches -> 0..MaxAttempts]
          lease,         \* [Dispatches -> Leases], lease_until against the clock
          ledger,        \* [Dispatches -> [1..MaxAttempts -> Marks]], the attempt rows
          overdue,       \* commands whose deadline_at has passed
          fenced,        \* commands whose policy epoch is no longer the component's
          circuit,       \* circuit breaker of the runtime target
          worker         \* [Workers -> where each process is]

rowVars == <<state, attemptCount, lease, ledger>>
envVars == <<overdue, fenced, circuit>>
vars == <<rowVars, envVars, worker>>

States == {"ABSENT", "PENDING", "QUEUED", "CLAIMED", "ACK_PENDING", "ACKED",
           "COMPLETED", "FAILED", "EXPIRED"}
Leases == {"none", "live", "lapsed"}
Marks == {"none", "FAILED", "DELIVERED"}

Idle == [at |-> "idle"]
Down == [at |-> "down"]
Busy == [at : {"sending", "received", "acking", "failing"},
         cmd : Dispatches, attempt : 1..MaxAttempts]

Claimable == {"QUEUED", "CLAIMED"}
Expirable_undelivered == {"QUEUED", "CLAIMED"}                          \* mutant
Expirable_acknowledged == {"QUEUED", "CLAIMED", "ACK_PENDING", "ACKED"} \* mutant
Expirable == {"QUEUED", "CLAIMED", "ACK_PENDING"}   \* 'SENT' is never written
Issued == {d \in Dispatches : state[d] # "ABSENT"}

TypeOK == /\ state \in [Dispatches -> States]
          /\ attemptCount \in [Dispatches -> 0..MaxAttempts]
          /\ lease \in [Dispatches -> Leases]
          /\ ledger \in [Dispatches -> [1..MaxAttempts -> Marks]]
          /\ overdue \subseteq Dispatches
          /\ fenced \subseteq Dispatches
          /\ circuit \in [failures : 0..CircuitThreshold, open : BOOLEAN]
          /\ worker \in [Workers -> {Idle, Down} \cup Busy]

Init == /\ state = [d \in Dispatches |-> "ABSENT"]
        /\ attemptCount = [d \in Dispatches |-> 0]
        /\ lease = [d \in Dispatches |-> "none"]
        /\ ledger = [d \in Dispatches |-> [n \in 1..MaxAttempts |-> "none"]]
        /\ overdue = {}
        /\ fenced = {}
        /\ circuit = [failures |-> 0, open |-> FALSE]
        /\ worker = [w \in Workers |-> Idle]

-----------------------------------------------------------------------------
(* enqueueControlDispatch: the insert names no state, so the row gets the   *)
(* column default.  A query carries the current epoch; an activation        *)
(* request moves the epoch on and so fences every earlier command, and a    *)
(* disable command itself, because advanceComponentPolicyEpoch moves the    *)
(* epoch once more after its insert.                                        *)
Enqueue(d, kind) ==
  /\ state[d] = "ABSENT"
  /\ state' = [state EXCEPT ![d] = InsertState]
  /\ fenced' = CASE kind = "query"   -> fenced
                 [] kind = "enable"  -> Issued
                 [] kind = "disable" -> Issued \cup {d}
  /\ UNCHANGED <<attemptCount, lease, ledger, overdue, circuit, worker>>

-----------------------------------------------------------------------------
(* The sweep at the head of claim(): open commands past their deadline.     *)
Overdue == {d \in overdue : state[d] \in Expirable}
SweptState == [d \in Dispatches |-> IF d \in Overdue THEN "EXPIRED" ELSE state[d]]
SweptLease == [d \in Dispatches |-> IF d \in Overdue THEN "none" ELSE lease[d]]

(* The number a worker gives its attempt, from the row it claims.           *)
NextAttempt(d) == attemptCount[d] + 1

(* claim(): sweep, then lease one due row for 45 seconds.                   *)
Claim(w, d) ==
  /\ worker[w] = Idle
  /\ state[d] \in Claimable
  /\ d \notin overdue
  /\ ~circuit.open
  /\ lease[d] # "live"
  /\ state' = [SweptState EXCEPT ![d] = "CLAIMED"]
  /\ lease' = [SweptLease EXCEPT ![d] = "live"]
  /\ worker' = [worker EXCEPT ![w] =
                  [at |-> "sending", cmd |-> d, attempt |-> NextAttempt(d)]]
  /\ UNCHANGED <<attemptCount, ledger, envVars>>

(* claim() that finds no due row still commits its sweep.                   *)
Sweep(w) ==
  /\ worker[w] = Idle
  /\ Overdue # {}
  /\ state' = SweptState
  /\ lease' = SweptLease
  /\ UNCHANGED <<attemptCount, ledger, envVars, worker>>

Goto(w, step) == worker' = [worker EXCEPT ![w].at = step]

(* authorizePlatformWorkerCall and send(): a 2xx answer that fits the        *)
(* command's response schema.                                               *)
SendSucceeds(w) == /\ worker[w].at = "sending"
                   /\ Goto(w, "received")
                   /\ UNCHANGED <<rowVars, envVars>>

(* UNIQUE(dispatch_id, attempt_number) of component_control_dispatch_attempt *)
Unrecorded_noKey(d, n) == TRUE   \* mutant
Unrecorded(d, n) == ledger[d][n] = "none"

Count_lost(d, n) == UNCHANGED attemptCount   \* mutant
Count(d, n) == attemptCount' = [attemptCount EXCEPT ![d] = n]

(* The attempt row and the update of the command row that goes with it.     *)
RecordAttempt(d, n, mark, next) ==
  /\ Unrecorded(d, n)
  /\ ledger' = [ledger EXCEPT ![d][n] = mark]
  /\ state' = [state EXCEPT ![d] = next]
  /\ Count(d, n)
  /\ lease' = [lease EXCEPT ![d] = "none"]

(* The success transaction.                                                 *)
RecordDelivery(w) ==
  /\ worker[w].at = "received"
  /\ RecordAttempt(worker[w].cmd, worker[w].attempt, "DELIVERED", "ACK_PENDING")
  /\ circuit' = [failures |-> 0, open |-> FALSE]
  /\ Goto(w, "acking")
  /\ UNCHANGED <<overdue, fenced>>

(* recordComponentControlAck called by the worker with the epoch the        *)
(* command was issued under.  Evidence that is already complete finalizes   *)
(* the command, which for an activation command rewrites the component row  *)
(* and moves its epoch.  (The evidence itself is not part of this module.)  *)
AckAccepted(w) ==
  LET d == worker[w].cmd IN
  /\ worker[w].at = "acking"
  /\ d \notin fenced
  /\ \/ state' = [state EXCEPT ![d] = "ACKED"] /\ UNCHANGED fenced
     \/ state' = [state EXCEPT ![d] = "COMPLETED"] /\ fenced' \in {fenced, Issued}
  /\ worker' = [worker EXCEPT ![w] = Idle]
  /\ UNCHANGED <<attemptCount, lease, ledger, overdue, circuit>>

(* The catch of processNextComponentControlDispatch: a denied or timed out   *)
(* call, an answer that is not 2xx or does not fit the schema, a success     *)
(* transaction that meets a recorded attempt number, an acknowledgement      *)
(* under an epoch that has moved, a database error in either.                *)
Catch(w) == /\ worker[w].at \in {"sending", "received", "acking"}
            /\ Goto(w, "failing")
            /\ UNCHANGED <<rowVars, envVars>>

Terminal(n) == n >= MaxAttempts

(* The number failAttempt records: that of the row the worker claimed.      *)
FailedAttempt_reread(w) == attemptCount[worker[w].cmd] + 1   \* mutant
FailedAttempt(w) == worker[w].attempt

(* failAttempt: record the attempt, back off or give up; giving up blocks   *)
(* the component, whose row trigger then moves the policy epoch (unless the *)
(* row was like that already).                                              *)
FailAttempt(w) ==
  LET d == worker[w].cmd  n == FailedAttempt(w) IN
  /\ worker[w].at = "failing"
  /\ RecordAttempt(d, n, "FAILED", IF Terminal(n) THEN "FAILED" ELSE "QUEUED")
  /\ LET failures == circuit.failures + 1 IN
     circuit' = IF failures >= CircuitThreshold
                  THEN [failures |-> CircuitThreshold, open |-> TRUE]
                  ELSE [circuit EXCEPT !.failures = failures]
  /\ fenced' \in {fenced} \cup (IF Terminal(n) THEN {Issued} ELSE {})
  /\ worker' = [worker EXCEPT ![w] = Idle]
  /\ UNCHANGED overdue

(* failAttempt whose attempt number is already recorded: the transaction    *)
(* aborts, the error leaves processNextComponentControlDispatch and the     *)
(* process exits.                                                           *)
FailAttemptAborts(w) ==
  /\ worker[w].at = "failing"
  /\ ~Unrecorded(worker[w].cmd, FailedAttempt(w))
  /\ worker' = [worker EXCEPT ![w] = Down]
  /\ UNCHANGED <<rowVars, envVars>>

-----------------------------------------------------------------------------
(* POST /v2/component-control-ack: the component acknowledges or refuses a  *)
(* command itself, whatever state the row is in.                            *)
CallbackAck(d) ==
  /\ state[d] # "ABSENT"
  /\ \/ state' = [state EXCEPT ![d] = "ACKED"] /\ UNCHANGED fenced
     \/ /\ state' \in {[state EXCEPT ![d] = s] : s \in {"COMPLETED", "FAILED"}}
        /\ fenced' \in {fenced, Issued}
  /\ UNCHANGED <<attemptCount, lease, ledger, overdue, circuit, worker>>

(* Any other writer of the component row moves its policy epoch.            *)
EpochMoves == /\ fenced # Issued
              /\ fenced' = Issued
              /\ UNCHANGED <<rowVars, overdue, circuit, worker>>

(* Time, and the death and restart of a worker process.                     *)
LeaseLapses(d) == /\ lease[d] = "live"
                  /\ lease' = [lease EXCEPT ![d] = "lapsed"]
                  /\ UNCHANGED <<state, attemptCount, ledger, envVars, worker>>

DeadlinePasses(d) == /\ d \in Issued \ overdue
                     /\ overdue' = overdue \cup {d}
                     /\ UNCHANGED <<rowVars, fenced, circuit, worker>>

CircuitCloses == /\ circuit.open
                 /\ circuit' = [circuit EXCEPT !.open = FALSE]
                 /\ UNCHANGED <<rowVars, overdue, fenced, worker>>

Crash(w) == /\ worker[w] # Down
            /\ worker' = [worker EXCEPT ![w] = Down]
            /\ UNCHANGED <<rowVars, envVars>>

Restart(w) == /\ worker[w] = Down
              /\ worker' = [worker EXCEPT ![w] = Idle]
              /\ UNCHANGED <<rowVars, envVars>>

-----------------------------------------------------------------------------
Poll(w) == Sweep(w) \/ \E d \in Dispatches : Claim(w, d)

Process(w) == \/ SendSucceeds(w) \/ RecordDelivery(w) \/ AckAccepted(w)
              \/ Catch(w) \/ FailAttempt(w) \/ FailAttemptAborts(w)

Time == CircuitCloses \/ \E d \in Dispatches : LeaseLapses(d) \/ DeadlinePasses(d)

Next == \/ \E d \in Dispatches, kind \in {"query", "enable", "disable"} : Enqueue(d, kind)
        \/ \E w \in Workers : Poll(w) \/ Process(w) \/ Crash(w) \/ Restart(w)
        \/ \E d \in Dispatches : CallbackAck(d)
        \/ EpochMoves
        \/ Time

Spec == Init /\ [][Next]_vars

(* The worker loop polls for ever and systemd restarts a process that       *)
(* exited; a process that comes up again and again gets to its first poll   *)
(* now and then (it polls before anything else).  Time passes.  Nothing     *)
(* makes a component answer, an administrator act or a process crash.       *)
Fairness == /\ \A w \in Workers : SF_vars(Poll(w)) /\ WF_vars(Process(w)) /\ WF_vars(Restart(w))
            /\ WF_vars(CircuitCloses)
            /\ \A d \in Dispatches : WF_vars(LeaseLapses(d)) /\ WF_vars(DeadlinePasses(d))

FairSpec == Spec /\ Fairness

-----------------------------------------------------------------------------
Occupied(d) == {w \in Workers : worker[w].at \notin {"idle", "down"} /\ worker[w].cmd = d}

(* The attempt rows of a command are numbered 1..attempt_count without a    *)
(* gap, although each worker numbers its attempt from the count it read     *)
(* when it claimed the row and leases lapse under slow workers.             *)
LedgerGapless ==
  \A d \in Dispatches, n \in 1..MaxAttempts :
    ledger[d][n] # "none" <=> n <= attemptCount[d]

(* A row that a worker may still claim has an attempt left: maxAttempts     *)
(* bounds the retries even if several workers fail the same attempt, an     *)
(* acknowledgement overtakes the worker or the worker dies.                 *)
RetriesBounded ==
  \A d \in Dispatches : state[d] \in Claimable => attemptCount[d] < MaxAttempts

(* A recorded delivery is the last attempt of its command: the command is   *)
(* not put back for another worker to send again, whatever happens to the   *)
(* acknowledgement, and a command waits in ACK_PENDING only after one.      *)
DeliveredIsLast ==
  \A d \in Dispatches :
    /\ \A n \in 1..MaxAttempts :
         ledger[d][n] = "DELIVERED" => n = attemptCount[d] /\ state[d] \notin Claimable
    /\ state[d] = "ACK_PENDING" => \E n \in 1..MaxAttempts : ledger[d][n] = "DELIVERED"

(* However many workers sent the same command after a lapsed lease, at most *)
(* one of them goes on to acknowledge it in the component's name.           *)
SingleAcknowledger ==
  \A v, w \in Workers :
    worker[v].at = "acking" /\ worker[w].at = "acking" /\ worker[v].cmd = worker[w].cmd
      => v = w

(* What a worker in the middle of an attempt knows about its row: it is at  *)
(* most one attempt ahead of the count, never ahead of a recorded delivery, *)
(* and what it acknowledges it has recorded as delivered.                   *)
WorkersBehind ==
  \A d \in Dispatches : \A w \in Occupied(d) :
    LET n == worker[w].attempt IN
    /\ state[d] # "ABSENT"
    /\ n <= attemptCount[d] + 1
    /\ (\E m \in 1..MaxAttempts : ledger[d][m] = "DELIVERED") => n <= attemptCount[d]
    /\ worker[w].at = "acking" => ledger[d][n] = "DELIVERED"

(* A command no worker could see yet has no attempt behind it.              *)
Fresh == \A d \in Dispatches :
           state[d] \in {"ABSENT", "PENDING"} => attemptCount[d] = 0

IInv == /\ TypeOK /\ LedgerGapless /\ RetriesBounded /\ DeliveredIsLast
        /\ SingleAcknowledger /\ WorkersBehind /\ Fresh

(* Every command that was issued comes to rest: acknowledged, completed,    *)
(* failed or expired, and stays so, whatever slow workers still write.      *)
Settled == {"ACKED", "COMPLETED", "FAILED", "EXPIRED"}
ComesToRest ==
  \A d \in Dispatches : <>[](state[d] = "ABSENT" \/ state[d] \in Settled)

(* The row as the rest of the control plane sees it.                        *)
Phase(s) == CASE s = "ABSENT" -> "absent"
              [] s \in {"PENDING", "QUEUED", "CLAIMED"} -> "open"
              [] s = "ACK_PENDING" -> "delivered"
              [] s \in {"ACKED", "COMPLETED"} -> "acked"
              [] s = "FAILED" -> "failed"
              [] s = "EXPIRED" -> "expired"

(* The worker implements the promise of DispatchLifecycle: one recorded     *)
(* attempt per step, no more than maxAttempts, and no way back from the     *)
(* last attempt.                                                            *)
Lifecycle == INSTANCE DispatchLifecycle
               WITH phase <- [d \in Dispatches |-> Phase(state[d])], tries <- attemptCount
ImplementsLifecycle == Lifecycle!Spec
=============================================================================
