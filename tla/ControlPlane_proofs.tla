------------------------ MODULE ControlPlane_proofs ------------------------
(* Proofs about the control plane, for any number of workers, commands and  *)
(* requests in flight, any retry bound and without a bound on the policy    *)
(* epoch.  First ComponentControl, the state machine behind the commands;   *)
(* then DispatchWorker, which delivers them: the invariants of its safety   *)
(* run and its refinement of DispatchLifecycle.                             *)
EXTENDS DispatchWorker, ComponentControl, TLAPS

-----------------------------------------------------------------------------
(* ComponentControl                                                         *)

(* What the row trigger does to an update that is typed and assigns at most *)
(* the next epoch.                                                          *)
LEMMA UpdateIs ==
  ASSUME ControlTypeOK, NEW new \in Component, new.epoch \in {comp.epoch, comp.epoch + 1},
         Update(new)
  PROVE  /\ comp' \in Component
         /\ comp'.epoch \in {comp.epoch, comp.epoch + 1}
         /\ comp'.enabled = new.enabled
         /\ comp'.activation = new.activation
         /\ comp'.lifecycle = new.lifecycle
         /\ comp'.operational = new.operational
<1>1. comp \in Component /\ comp.epoch \in Nat
  BY DEF ControlTypeOK, Component
<1>2. CASE Watched(new) = Watched(comp)
  <2>1. comp' = new
    BY <1>2 DEF Update, Synced
  <2> QED
    BY <2>1
<1>3. CASE ~(Watched(new) = Watched(comp))
  <2>1. comp' = [new EXCEPT !.epoch = comp.epoch + 1]
    BY <1>3 DEF Update, Synced
  <2> QED
    BY <1>1, <2>1 DEF Component
<1> QED
  BY <1>2, <1>3

(* A step that issues nothing keeps every command's kind and epoch, an      *)
(* answered heartbeat and whether there is a query at all.                  *)
Carried ==
  \A d \in Commands :
    \/ dispatch'[d] = dispatch[d]
    \/ /\ dispatch[d] # Absent /\ dispatch'[d] # Absent
       /\ dispatch'[d].kind = dispatch[d].kind
       /\ dispatch'[d].epoch = dispatch[d].epoch
       /\ dispatch[d].beat = "RESPONDED" => dispatch'[d].beat = "RESPONDED"
       /\ dispatch'[d].query = "none" <=> dispatch[d].query = "none"

LEMMA CarriedEpochs ==
  ASSUME ControlIInv, Carried, comp' \in Component, comp'.epoch >= comp.epoch
  PROVE  EpochsTellApart'
<1>1. comp.epoch \in Nat /\ comp'.epoch \in Nat
  BY DEF ControlIInv, ControlTypeOK, Component
<1>2. \A d \in Commands :
        /\ dispatch'[d] # Absent <=> dispatch[d] # Absent
        /\ dispatch[d] # Absent =>
             /\ dispatch'[d].kind = dispatch[d].kind
             /\ dispatch'[d].epoch = dispatch[d].epoch
             /\ dispatch[d].epoch \in Nat
        /\ dispatch'[d].kind = dispatch[d].kind
  BY DEF Carried, ControlIInv, ControlTypeOK, Rows
<1>3. \A d \in Commands : dispatch[d] = Absent => dispatch[d].kind = "absent"
  BY DEF Absent
<1> QED
  BY <1>1, <1>2, <1>3 DEF ControlIInv, EpochsTellApart

LEMMA CarriedCoherent ==
  ASSUME ControlIInv, Carried,
         \A k \in Callers : call'[k] = call[k] \/ call'[k].at \notin {"acking", "observing"}
  PROVE  Coherent'
<1>1. \A d \in Commands :
        /\ dispatch[d] # Absent => dispatch'[d] # Absent
        /\ dispatch'[d].kind = dispatch[d].kind
        /\ dispatch[d] # Absent =>
             /\ dispatch[d].beat = "RESPONDED" => dispatch'[d].beat = "RESPONDED"
             /\ dispatch'[d].query = "none" <=> dispatch[d].query = "none"
        /\ dispatch[d] = Absent => dispatch'[d] = Absent
  BY DEF Carried
<1>2. \A k \in Callers : call[k].at \in {"acking", "observing"} => call[k].cmd \in Commands
  BY DEF ControlIInv, ControlTypeOK, Calls, Quiet
<1>3. \A d \in Commands : dispatch[d] = Absent => dispatch[d].kind # "heartbeat"
  BY DEF Absent
<1>4. \A k \in Callers : call'[k].at \in {"acking", "observing"} => call'[k] = call[k]
  OBVIOUS
<1> QED
  BY <1>1, <1>2, <1>3, <1>4 DEF ControlIInv, Coherent

(* An update of the component row alone that opens nothing.                 *)
LEMMA CompStep ==
  ASSUME ControlIInv, NEW new \in Component, new.epoch \in {comp.epoch, comp.epoch + 1},
         Update(new), UNCHANGED dispatch, revoked' \in BOOLEAN,
         principal' \in {"ACTIVE", "SUSPENDED", "QUARANTINED", "REVOKED"},
         call' \in [Callers -> Calls],
         \A k \in Callers : call'[k] = call[k] \/ call'[k].at \notin {"acking", "observing"},
         new.enabled => /\ comp.enabled
                        /\ new.activation = comp.activation
                        /\ new.lifecycle = comp.lifecycle
                        /\ new.operational # "QUARANTINED"
                        /\ principal' = principal
  PROVE  ControlIInv' /\ ~Opens
<1>1. /\ comp' \in Component
      /\ comp'.epoch \in {comp.epoch, comp.epoch + 1}
      /\ comp'.enabled = new.enabled
      /\ comp'.activation = new.activation
      /\ comp'.lifecycle = new.lifecycle
      /\ comp'.operational = new.operational
  BY UpdateIs DEF ControlIInv
<1>2. ControlTypeOK'
  BY <1>1 DEF ControlIInv, ControlTypeOK
<1>3. OpenConsistent' /\ ~Opens
  BY <1>1 DEF ControlIInv, OpenConsistent, Opens
<1>4. EpochsTellApart'
  <2>1. comp'.epoch >= comp.epoch
    BY <1>1 DEF ControlIInv, ControlTypeOK, Component
  <2> QED
    BY <1>1, <2>1, CarriedEpochs DEF Carried
<1>5. CompletedHasEvidence'
  BY DEF ControlIInv, CompletedHasEvidence
<1>6. Coherent'
  BY CarriedCoherent DEF Carried
<1> QED
  BY <1>2, <1>3, <1>4, <1>5, <1>6 DEF ControlIInv

(* A step of the command rows alone that completes nothing.                 *)
LEMMA RowStep ==
  ASSUME ControlIInv, UNCHANGED <<comp, principal, revoked>>, Carried,
         dispatch' \in [Commands -> Rows \cup {Absent}],
         call' \in [Callers -> Calls],
         \A k \in Callers : call'[k] = call[k] \/ call'[k].at \notin {"acking", "observing"},
         \A d \in Commands : dispatch'[d] = dispatch[d] \/ dispatch'[d].state # "COMPLETED"
  PROVE  ControlIInv' /\ ~Opens
<1>1. ControlTypeOK'
  BY DEF ControlIInv, ControlTypeOK
<1>2. OpenConsistent' /\ ~Opens
  BY DEF ControlIInv, OpenConsistent, Opens
<1>3. EpochsTellApart'
  BY CarriedEpochs DEF ControlIInv, ControlTypeOK, Component
<1>4. CompletedHasEvidence'
  BY DEF ControlIInv, CompletedHasEvidence
<1>5. Coherent'
  BY CarriedCoherent
<1> QED
  BY <1>1, <1>2, <1>3, <1>4, <1>5 DEF ControlIInv

(* A refusal: the command fails and the component is closed.                *)
LEMMA RefusalStep ==
  ASSUME ControlIInv, UNCHANGED <<principal, revoked>>, Carried,
         comp' \in Component, comp'.epoch \in {comp.epoch, comp.epoch + 1}, comp'.enabled = FALSE,
         dispatch' \in [Commands -> Rows \cup {Absent}],
         call' \in [Callers -> Calls],
         \A k \in Callers : call'[k] = call[k] \/ call'[k].at \notin {"acking", "observing"},
         \A d \in Commands : dispatch'[d] = dispatch[d] \/ dispatch'[d].state # "COMPLETED"
  PROVE  ControlIInv' /\ ~Opens
<1>1. ControlTypeOK'
  BY DEF ControlIInv, ControlTypeOK
<1>2. OpenConsistent' /\ ~Opens
  BY DEF OpenConsistent, Opens
<1>3. EpochsTellApart'
  BY CarriedEpochs DEF ControlIInv, ControlTypeOK, Component
<1>4. CompletedHasEvidence'
  BY DEF ControlIInv, CompletedHasEvidence
<1>5. Coherent'
  BY CarriedCoherent
<1> QED
  BY <1>1, <1>2, <1>3, <1>4, <1>5 DEF ControlIInv

(* A request that starts to acknowledge or to observe a command.            *)
LEMMA CallStarts ==
  ASSUME ControlIInv, UNCHANGED <<comp, principal, revoked>>, NEW k \in Callers, NEW c \in Calls,
         call' = [call EXCEPT ![k] = c], Carried,
         dispatch' \in [Commands -> Rows \cup {Absent}],
         \A d \in Commands : dispatch'[d] = dispatch[d] \/ dispatch'[d].state # "COMPLETED"
                                 \/ /\ dispatch[d].state = "COMPLETED"
                                    /\ dispatch'[d].query = dispatch[d].query
                                    /\ dispatch'[d].beat = dispatch[d].beat,
         c.at \in {"acking", "observing"} =>
           /\ dispatch'[c.cmd] # Absent
           /\ c.at = "observing" => /\ dispatch'[c.cmd].query # "none"
                                    /\ c.beat = "RESPONDED" => dispatch'[c.cmd].beat = "RESPONDED"
  PROVE  ControlIInv' /\ ~Opens
<1>1. ControlTypeOK'
  BY DEF ControlIInv, ControlTypeOK
<1>2. OpenConsistent' /\ ~Opens
  BY DEF ControlIInv, OpenConsistent, Opens
<1>3. EpochsTellApart'
  BY CarriedEpochs DEF ControlIInv, ControlTypeOK, Component
<1>4. CompletedHasEvidence'
  BY DEF ControlIInv, CompletedHasEvidence, Carried
<1>5. \A d \in Commands :
        /\ dispatch[d] # Absent => dispatch'[d] # Absent
        /\ dispatch'[d].kind = dispatch[d].kind
        /\ dispatch[d] # Absent =>
             /\ dispatch[d].beat = "RESPONDED" => dispatch'[d].beat = "RESPONDED"
             /\ dispatch'[d].query = "none" <=> dispatch[d].query = "none"
        /\ dispatch[d] = Absent => dispatch'[d] = Absent
  BY DEF Carried
<1>6. \A j \in Callers : call[j].at \in {"acking", "observing"} => call[j].cmd \in Commands
  BY DEF ControlIInv, ControlTypeOK, Calls, Quiet
<1>7. \A j \in Callers : call'[j] = IF j = k THEN c ELSE call[j]
  BY DEF ControlIInv, ControlTypeOK
<1>8. \A d \in Commands : dispatch[d] = Absent => dispatch[d].kind # "heartbeat"
  BY DEF Absent
<1>9. Coherent'
  <2>1. ASSUME NEW j \in Callers, call'[j].at \in {"acking", "observing"}
        PROVE  LET r == dispatch'[call'[j].cmd] IN
               /\ r # Absent
               /\ call'[j].at = "observing" =>
                    r.query # "none" /\ (call'[j].beat = "RESPONDED" => r.beat = "RESPONDED")
    <3>1. CASE j = k
      BY <1>7, <2>1, <3>1
    <3>2. CASE j # k
      BY <1>5, <1>6, <1>7, <2>1, <3>2 DEF ControlIInv, Coherent
    <3> QED
      BY <3>1, <3>2
  <2>2. \A d \in Commands : dispatch'[d].kind = "heartbeat" => dispatch'[d].query = "none"
    BY <1>5, <1>8 DEF ControlIInv, Coherent
  <2> QED
    BY <2>1, <2>2 DEF Coherent
<1> QED
  BY <1>1, <1>2, <1>3, <1>4, <1>9 DEF ControlIInv

(* finalizeDispatchFromEvidence, over a row that the transaction changed    *)
(* without completing it and with no more of a heartbeat than the row has.  *)
LEMMA FinalizeStep ==
  ASSUME ControlIInv, NEW d \in Commands, dispatch[d] # Absent,
         NEW r \in Rows, NEW beat \in {"none", "PENDING", "RESPONDED"},
         r.kind = dispatch[d].kind, r.epoch = dispatch[d].epoch,
         dispatch[d].beat = "RESPONDED" => r.beat = "RESPONDED",
         beat = "RESPONDED" => r.beat = "RESPONDED",
         r.query = "none" <=> dispatch[d].query = "none",
         r.state = "COMPLETED" =>
           /\ dispatch[d].state = "COMPLETED"
           /\ r.query = "PENDING" => dispatch[d].query = "PENDING",
         Finalize(d, r, beat), UNCHANGED revoked,
         NEW k \in Callers, Return(k)
  PROVE  ControlIInv' /\ (Opens => ActivationConfirmed(d)')
<1> DEFINE s == dispatch'[d]
<1>1. comp \in Component /\ comp.epoch \in Nat
  BY DEF ControlIInv, ControlTypeOK, Component
<1>2. /\ call' \in [Callers -> Calls]
      /\ \A j \in Callers : call'[j] = call[j] \/ call'[j].at \notin {"acking", "observing"}
  BY DEF ControlIInv, ControlTypeOK, Calls, Quiet, Return
<1>3. /\ dispatch' \in [Commands -> Rows \cup {Absent}]
      /\ \A e \in Commands \ {d} : dispatch'[e] = dispatch[e]
      /\ s \in Rows
      /\ s.kind = r.kind /\ s.epoch = r.epoch /\ s.query = r.query /\ s.beat = r.beat
      /\ s.state = "COMPLETED" =>
           Confirmed(r, beat) \/ (r.state = "COMPLETED" /\ s = r)
  <2>1. CASE Confirmed(r, beat)
    <3>1. dispatch' = [dispatch EXCEPT ![d] = [r EXCEPT !.state = "COMPLETED"]]
      BY <2>1 DEF Finalize
    <3>2. [r EXCEPT !.state = "COMPLETED"] \in Rows
      BY DEF Rows
    <3> QED
      BY <2>1, <3>1, <3>2 DEF ControlIInv, ControlTypeOK, Rows
  <2>2. CASE ~Confirmed(r, beat)
    <3>1. dispatch' = [dispatch EXCEPT ![d] = r]
      BY <2>2 DEF Finalize
    <3> QED
      BY <3>1 DEF ControlIInv, ControlTypeOK
  <2> QED
    BY <2>1, <2>2
<1>4. r # Absent /\ s # Absent
  BY <1>3 DEF Rows, Absent
<1>5. Carried
  BY <1>3, <1>4 DEF Carried
<1>6. Opened \in Component /\ Closed \in Component
  BY <1>1 DEF Opened, Closed, Component, Withdrawn
<1>7. /\ comp' \in Component
      /\ comp'.epoch >= comp.epoch
      /\ principal' \in {"ACTIVE", "SUSPENDED", "QUARANTINED", "REVOKED"}
      /\ OpenConsistent'
      /\ Opens => Confirmed(r, beat) /\ r.kind = "enable"
  <2>1. CASE UNCHANGED <<comp, principal>>
    BY <1>1, <2>1 DEF ControlIInv, ControlTypeOK, OpenConsistent, Opens
  <2>2. CASE Confirmed(r, beat) /\ r.kind = "enable" /\ Update(Opened) /\ principal' = "ACTIVE"
    <3>1. /\ Opened.epoch = comp.epoch /\ Opened.activation = "ACTIVE"
          /\ Opened.lifecycle = "ACTIVE" /\ Opened.operational = "HEALTHY"
      BY <1>1 DEF Opened, Component
    <3>2. /\ comp' \in Component
          /\ comp'.epoch \in {comp.epoch, comp.epoch + 1}
          /\ comp'.activation = "ACTIVE" /\ comp'.lifecycle = "ACTIVE"
          /\ comp'.operational = "HEALTHY"
      BY <1>6, <2>2, <3>1, UpdateIs DEF ControlIInv
    <3> QED
      BY <1>1, <2>2, <3>2 DEF OpenConsistent
  <2>3. CASE r.kind = "disable" /\ Update(Closed) /\ principal' = "SUSPENDED"
    <3>1. Closed.epoch = comp.epoch /\ Closed.enabled = FALSE
      BY <1>1 DEF Closed, Component
    <3>2. /\ comp' \in Component
          /\ comp'.epoch \in {comp.epoch, comp.epoch + 1}
          /\ comp'.enabled = FALSE
      BY <1>6, <2>3, <3>1, UpdateIs DEF ControlIInv
    <3> QED
      BY <1>1, <2>3, <3>2 DEF OpenConsistent, Opens
  <2> QED
    BY <2>1, <2>2, <2>3 DEF Finalize
<1>8. ControlTypeOK'
  BY <1>2, <1>3, <1>7 DEF ControlIInv, ControlTypeOK
<1>9. EpochsTellApart'
  BY <1>5, <1>7, CarriedEpochs
<1>10. Coherent'
  BY <1>2, <1>5, CarriedCoherent
<1>11. ASSUME s.state = "COMPLETED"
       PROVE  /\ s.kind \in {"enable", "heartbeat"} => s.beat = "RESPONDED"
              /\ s.query # "PENDING"
  <2>1. CASE Confirmed(r, beat)
    <3>1. r.kind \in {"enable", "heartbeat"} => r.beat = "RESPONDED"
      BY <2>1 DEF Confirmed, HeartbeatOkay
    <3>2. r.kind = "heartbeat" => r.query = "none"
      BY DEF ControlIInv, Coherent
    <3>3. r.query # "PENDING"
      BY <2>1, <3>2 DEF Confirmed, QueryOkay, Answers, Rows
    <3> QED
      BY <1>3, <3>1, <3>3
  <2>2. CASE r.state = "COMPLETED" /\ s = r
    BY <2>2 DEF ControlIInv, CompletedHasEvidence
  <2> QED
    BY <1>3, <1>11, <2>1, <2>2
<1>12. CompletedHasEvidence'
  BY <1>3, <1>11 DEF ControlIInv, CompletedHasEvidence
<1>13. ASSUME Opens PROVE ActivationConfirmed(d)'
  <2>1. Confirmed(r, beat) /\ r.kind = "enable"
    BY <1>7, <1>13
  <2>2. s = [r EXCEPT !.state = "COMPLETED"]
    BY <2>1 DEF Finalize, ControlIInv, ControlTypeOK
  <2>3. r.query = "match" /\ r.beat = "RESPONDED"
    BY <2>1 DEF Confirmed, QueryOkay, HeartbeatOkay
  <2> QED
    BY <1>4, <2>1, <2>2, <2>3 DEF ActivationConfirmed, Rows
<1> QED
  BY <1>7, <1>8, <1>9, <1>10, <1>12, <1>13 DEF ControlIInv

LEMMA ControlInitInv == ControlInit => ControlIInv
<1> SUFFICES ASSUME ControlInit PROVE ControlIInv
  OBVIOUS
<1>1. ControlTypeOK
  BY DEF ControlInit, ControlTypeOK, Component, Calls
<1> QED
  BY <1>1 DEF ControlInit, ControlIInv, OpenConsistent, EpochsTellApart, CompletedHasEvidence,
     Coherent,
       Absent, Quiet

(* Issuing a command: its epoch is ahead of all the others, or it is a      *)
(* probe, which may share the current one.                                  *)
LEMMA IssueStep ==
  ASSUME ControlIInv, NEW d \in Commands, NEW kind \in {"enable", "disable", "state", "heartbeat"},
         NEW epoch \in Nat, NEW query \in {"none", "PENDING"}, NEW beat \in {"none", "PENDING"},
         Issue(d, kind, epoch, query, beat),
         kind = "heartbeat" => query = "none",
         comp' \in Component, comp'.epoch >= comp.epoch, epoch <= comp'.epoch,
         kind \in {"enable", "disable"} => epoch = comp.epoch + 1,
         kind = "disable" => epoch < comp'.epoch,
         UNCHANGED <<principal, revoked, call>>, comp' = comp \/ ~comp'.enabled
  PROVE  ControlIInv' /\ ~Opens
<1> DEFINE r == [kind |-> kind, epoch |-> epoch, state |-> "OPEN", send |-> "trying",
                 query |-> query, beat |-> beat]
<1>1. comp.epoch \in Nat /\ comp'.epoch \in Nat
  BY DEF ControlIInv, ControlTypeOK, Component
<1>2. r \in Rows /\ r # Absent
  BY DEF Rows, Absent
<1>3. /\ dispatch[d] = Absent /\ dispatch'[d] = r
      /\ dispatch' \in [Commands -> Rows \cup {Absent}]
      /\ \A e \in Commands \ {d} : dispatch'[e] = dispatch[e]
  BY <1>2 DEF Issue, ControlIInv, ControlTypeOK
<1>4. ControlTypeOK'
  BY <1>3 DEF ControlIInv, ControlTypeOK
<1>5. OpenConsistent' /\ ~Opens
  BY DEF ControlIInv, OpenConsistent, Opens
<1>6. EpochsTellApart'
  <2>1. \A e \in Commands \ {d} : dispatch[e] # Absent =>
          dispatch[e].epoch \in Nat /\ dispatch[e].epoch <= comp.epoch
    BY DEF ControlIInv, ControlTypeOK, Rows, EpochsTellApart
  <2>2. \A e \in Commands : dispatch[e].kind \in {"enable", "disable"} => dispatch[e] # Absent
    BY DEF Absent
  <2>3. dispatch'[d].epoch = epoch /\ dispatch'[d].kind = kind
    BY <1>3
  <2> QED
    BY <1>1, <1>3, <2>1, <2>2, <2>3 DEF ControlIInv, EpochsTellApart
<1>7. CompletedHasEvidence'
  <2>1. dispatch'[d].state = "OPEN"
    BY <1>3
  <2> QED
    BY <1>3, <2>1 DEF ControlIInv, CompletedHasEvidence
<1>8. Coherent'
  <2>1. \A k \in Callers : call[k].at \in {"acking", "observing"} =>
          call[k].cmd \in Commands \ {d}
    BY <1>3 DEF ControlIInv, ControlTypeOK, Calls, Quiet, Coherent
  <2>2. dispatch'[d].kind = kind /\ dispatch'[d].query = query
    BY <1>3
  <2> QED
    BY <1>3, <2>1, <2>2 DEF ControlIInv, Coherent
<1> QED
  BY <1>4, <1>5, <1>6, <1>7, <1>8 DEF ControlIInv

LEMMA AdminStep == ASSUME ControlIInv, Admin PROVE ControlIInv' /\ ~Opens
<1>1. comp \in Component /\ comp.epoch \in Nat /\ ControlTypeOK
  BY DEF ControlIInv, ControlTypeOK, Component
<1>n. comp.epoch + 1 \in Nat
  BY <1>1
<1>2. ASSUME NEW d \in Commands, RequestEnable(d) PROVE ControlIInv' /\ ~Opens
  <2> DEFINE new == [comp EXCEPT !.enabled = FALSE, !.activation = "ENABLE_REQUESTED",
                                 !.operational = "DISABLED", !.epoch = @ + 1]
  <2>1. new \in Component /\ new.epoch = comp.epoch + 1 /\ new.enabled = FALSE
    <3>1. \A e \in Nat : LET row == [comp EXCEPT !.enabled = FALSE,
                             !.activation = "ENABLE_REQUESTED",
                             !.operational = "DISABLED", !.epoch = e]
                          IN  row \in Component /\ row.epoch = e /\ row.enabled = FALSE
      BY <1>1 DEF Component
    <3> QED
      BY <1>1, <3>1, <1>n
  <2>2. Update(new)
    BY <1>2 DEF RequestEnable
  <2>3. comp' \in Component /\ comp'.epoch = comp.epoch + 1 /\ comp'.enabled = FALSE
    <3>1. CASE Watched(new) = Watched(comp)
      BY <2>1, <2>2, <3>1 DEF Update, Synced
    <3>2. CASE ~(Watched(new) = Watched(comp))
      BY <1>1, <2>1, <2>2, <3>2 DEF Update, Synced, Component
    <3> QED
      BY <3>1, <3>2
  <2>4. Issue(d, "enable", comp.epoch + 1, "PENDING", "PENDING")
        /\ UNCHANGED <<principal, revoked, call>>
    BY <1>2 DEF RequestEnable
  <2> QED
    BY <1>1, <2>3, <2>4, IssueStep
<1>3. ASSUME NEW d \in Commands, RequestDisable(d) PROVE ControlIInv' /\ ~Opens
  <2> DEFINE once == Synced(comp, Requested(comp))
             twice == [once EXCEPT !.epoch = @ + 1]
  <2>1. Requested(comp) \in Component /\ Requested(comp).epoch = comp.epoch + 1
        /\ Requested(comp).enabled = FALSE
    <3>1. \A e \in Nat : LET row == [comp EXCEPT !.enabled = FALSE,
                             !.activation = "DISABLE_REQUESTED", !.lifecycle = Withdrawn(@),
                             !.operational = "DISABLED", !.epoch = e]
                          IN  row \in Component /\ row.epoch = e /\ row.enabled = FALSE
      BY <1>1 DEF Withdrawn, Component
    <3> QED
      BY <1>1, <3>1, <1>n DEF Requested
  <2>2. once \in Component /\ once.epoch = comp.epoch + 1 /\ once.enabled = FALSE
    <3>1. CASE Watched(Requested(comp)) = Watched(comp)
      BY <2>1, <3>1 DEF Synced
    <3>2. CASE ~(Watched(Requested(comp)) = Watched(comp))
      BY <1>1, <2>1, <3>2 DEF Synced, Component
    <3> QED
      BY <3>1, <3>2
  <2>3. comp' = Synced(once, twice) /\ Issue(d, "disable", comp.epoch + 1, "PENDING", "none")
        /\ UNCHANGED <<principal, revoked, call>>
    BY <1>3 DEF RequestDisable
  <2>4. twice \in Component /\ twice.epoch = comp.epoch + 2 /\ twice.enabled = FALSE
        /\ Watched(twice) = Watched(once)
    BY <1>1, <2>2 DEF Component, Watched
  <2>5. comp' = twice
    BY <2>3, <2>4 DEF Synced
  <2> HIDE DEF once, twice
  <2> QED
    BY <1>1, <2>3, <2>4, <2>5, IssueStep
<1>4. ASSUME NEW d \in Commands, QueueStateQuery(d) PROVE ControlIInv' /\ ~Opens
  BY <1>1, <1>4, IssueStep DEF QueueStateQuery
<1>5. ASSUME NEW d \in Commands, QueueHeartbeatChallenge(d) PROVE ControlIInv' /\ ~Opens
  BY <1>1, <1>5, IssueStep DEF QueueHeartbeatChallenge
<1>6. CASE Quarantine
  <2>1. Impounded(comp) \in Component /\ Impounded(comp).epoch = comp.epoch
        /\ Impounded(comp).enabled = FALSE
    BY <1>1 DEF Impounded, Component
  <2> QED
    BY <1>1, <1>6, <2>1, CompStep DEF Quarantine, ControlTypeOK
<1>7. CASE Restore
  <2> DEFINE new == [comp EXCEPT !.enabled = FALSE, !.lifecycle = "APPROVED",
                                 !.activation = "READY", !.operational = "DISABLED"]
  <2>1. new \in Component /\ new.epoch = comp.epoch /\ new.enabled = FALSE
    BY <1>1 DEF Component
  <2>2. Update(new) /\ principal' = "SUSPENDED" /\ UNCHANGED <<revoked, dispatch, call>>
    BY <1>7 DEF Restore
  <2> HIDE DEF new
  <2> QED
    BY <1>1, <2>1, <2>2, CompStep DEF ControlTypeOK
<1>8. ASSUME NEW lifecycle \in {"RETIRED", "DEREGISTERED"}, Leave(lifecycle)
      PROVE ControlIInv' /\ ~Opens
  <2> DEFINE new == [comp EXCEPT !.enabled = FALSE, !.lifecycle = lifecycle,
                                 !.activation = "INACTIVE", !.operational = "RETIRED"]
  <2>1. new \in Component /\ new.epoch = comp.epoch /\ new.enabled = FALSE
    BY <1>1 DEF Component
  <2>2. Update(new) /\ principal' = "REVOKED" /\ revoked' = TRUE /\ UNCHANGED <<dispatch, call>>
    BY <1>8 DEF Leave
  <2> HIDE DEF new
  <2> QED
    BY <1>1, <2>1, <2>2, CompStep DEF ControlTypeOK
<1>9. CASE RevokeToken
  BY <1>9 DEF RevokeToken, ControlIInv, ControlTypeOK, OpenConsistent, EpochsTellApart,
       CompletedHasEvidence, Coherent, Opens
<1>10. CASE PermissionChange
  <2> DEFINE new == [comp EXCEPT !.epoch = @ + 1]
  <2>1. /\ new \in Component /\ new.epoch = comp.epoch + 1 /\ Watched(new) = Watched(comp)
        /\ new.enabled = comp.enabled /\ new.activation = comp.activation
        /\ new.lifecycle = comp.lifecycle /\ new.operational = comp.operational
    BY <1>1 DEF Component, Watched
  <2>2. comp' = new /\ UNCHANGED <<principal, revoked, dispatch, call>>
    BY <1>10 DEF PermissionChange
  <2> HIDE DEF new
  <2>3. Update(new)
    BY <2>1, <2>2 DEF Update, Synced
  <2> QED
    BY <1>1, <2>1, <2>2, <2>3, CompStep DEF ControlIInv, OpenConsistent, ControlTypeOK
<1> QED
  BY <1>2, <1>3, <1>4, <1>5, <1>6, <1>7, <1>8, <1>9, <1>10 DEF Admin, Retire, Deregister

LEMMA MonitorStep == ASSUME ControlIInv, Monitor PROVE ControlIInv' /\ ~Opens
<1>1. comp \in Component /\ comp.epoch \in Nat /\ ControlTypeOK
  BY DEF ControlIInv, ControlTypeOK, Component
<1>n. comp.epoch + 1 \in Nat
  BY <1>1
<1>2. ASSUME NEW b \in BOOLEAN, MarkStale(b) PROVE ControlIInv' /\ ~Opens
  <2> DEFINE new == [comp EXCEPT !.operational = IF b THEN "DISABLED" ELSE "UNHEALTHY",
                        !.monitoring = "FAILED", !.enabled = ~b, !.epoch = @ + 1]
  <2>1. /\ new \in Component /\ new.epoch = comp.epoch + 1
        /\ new.activation = comp.activation /\ new.lifecycle = comp.lifecycle
        /\ new.operational # "QUARANTINED"
    <3>1. \A e \in Nat : LET row == [comp EXCEPT
                             !.operational = IF b THEN "DISABLED" ELSE "UNHEALTHY",
                             !.monitoring = "FAILED", !.enabled = ~b, !.epoch = e]
                          IN  /\ row \in Component /\ row.epoch = e
                              /\ row.activation = comp.activation
                              /\ row.lifecycle = comp.lifecycle
                              /\ row.operational # "QUARANTINED"
      BY <1>1 DEF Component
    <3> QED
      BY <1>1, <3>1, <1>n
  <2>2. Update(new) /\ comp.enabled /\ UNCHANGED <<principal, revoked, dispatch, call>>
    BY <1>2 DEF MarkStale
  <2> HIDE DEF new
  <2> QED
    BY <1>1, <2>1, <2>2, CompStep DEF ControlTypeOK
<1>3. ASSUME NEW b \in BOOLEAN, Watchdog(b) PROVE ControlIInv' /\ ~Opens
  <2> DEFINE new == [comp EXCEPT !.monitoring = IF b THEN "HEALTHY" ELSE "FAILED"]
  <2>1. /\ new \in Component /\ new.epoch = comp.epoch /\ new.enabled = comp.enabled
        /\ new.activation = comp.activation /\ new.lifecycle = comp.lifecycle
        /\ new.operational = comp.operational
    BY <1>1 DEF Component
  <2>2. Update(new) /\ UNCHANGED <<principal, revoked, dispatch, call>>
    BY <1>3 DEF Watchdog
  <2> HIDE DEF new
  <2> QED
    BY <1>1, <2>1, <2>2, CompStep DEF ControlIInv, OpenConsistent, ControlTypeOK
<1> QED
  BY <1>2, <1>3 DEF Monitor

LEMMA DispatcherStep == ASSUME ControlIInv, Dispatcher PROVE ControlIInv' /\ ~Opens
<1>1. /\ comp \in Component /\ comp.epoch \in Nat /\ ControlTypeOK
      /\ \A d \in Commands : dispatch[d] # Absent => dispatch[d] \in Rows
  BY DEF ControlIInv, ControlTypeOK, Component
<1>2. ASSUME NEW d \in Commands, dispatch[d] # Absent, NEW r \in Rows, r.state # "COMPLETED",
             r.kind = dispatch[d].kind, r.epoch = dispatch[d].epoch,
             r.query = dispatch[d].query, r.beat = dispatch[d].beat,
             dispatch' = [dispatch EXCEPT ![d] = r]
      PROVE  /\ Carried
             /\ dispatch' \in [Commands -> Rows \cup {Absent}]
             /\ \A e \in Commands : dispatch'[e] = dispatch[e] \/ dispatch'[e].state # "COMPLETED"
  <2>1. r # Absent
    BY DEF Rows, Absent
  <2>2. dispatch'[d] = r /\ \A e \in Commands \ {d} : dispatch'[e] = dispatch[e]
    BY <1>2, <1>1 DEF ControlTypeOK
  <2> QED
    BY <1>1, <1>2, <2>1, <2>2 DEF ControlTypeOK, Carried
<1>3. ASSUME NEW d \in Commands, Deliver(d) PROVE ControlIInv' /\ ~Opens
  <2> DEFINE r == [dispatch[d] EXCEPT !.state = "ACK_PENDING", !.send = "delivered"]
  <2>1. /\ r \in Rows /\ r.state # "COMPLETED" /\ r.kind = dispatch[d].kind
        /\ r.epoch = dispatch[d].epoch /\ r.query = dispatch[d].query /\ r.beat = dispatch[d].beat
    BY <1>1, <1>3 DEF Deliver, Worker, Rows
  <2>2. dispatch' = [dispatch EXCEPT ![d] = r]
    BY <1>1, <1>3 DEF Deliver, ControlTypeOK
  <2>3. UNCHANGED <<comp, principal, revoked, call>> /\ dispatch[d] # Absent
    BY <1>3 DEF Deliver, Worker
  <2> HIDE DEF r
  <2> QED
    BY <1>1, <1>2, <2>1, <2>2, <2>3, RowStep DEF ControlTypeOK
<1>4. ASSUME NEW d \in Commands, Retry(d) PROVE ControlIInv' /\ ~Opens
  <2> DEFINE r == [dispatch[d] EXCEPT !.state = "OPEN"]
  <2>1. /\ r \in Rows /\ r.state # "COMPLETED" /\ r.kind = dispatch[d].kind
        /\ r.epoch = dispatch[d].epoch /\ r.query = dispatch[d].query /\ r.beat = dispatch[d].beat
    BY <1>1, <1>4 DEF Retry, Worker, Rows
  <2>2. dispatch' = [dispatch EXCEPT ![d] = r]
    BY <1>1, <1>4 DEF Retry, ControlTypeOK
  <2>3. UNCHANGED <<comp, principal, revoked, call>> /\ dispatch[d] # Absent
    BY <1>4 DEF Retry, Worker
  <2> HIDE DEF r
  <2> QED
    BY <1>1, <1>2, <2>1, <2>2, <2>3, RowStep DEF ControlTypeOK
<1>5. ASSUME NEW d \in Commands, Expire(d) PROVE ControlIInv' /\ ~Opens
  <2> DEFINE r == [dispatch[d] EXCEPT !.state = "EXPIRED"]
  <2>1. /\ r \in Rows /\ r.state # "COMPLETED" /\ r.kind = dispatch[d].kind
        /\ r.epoch = dispatch[d].epoch /\ r.query = dispatch[d].query /\ r.beat = dispatch[d].beat
    BY <1>1, <1>5 DEF Expire, Rows
  <2>2. dispatch' = [dispatch EXCEPT ![d] = r]
    BY <1>1, <1>5 DEF Expire, ControlTypeOK
  <2>3. UNCHANGED <<comp, principal, revoked, call>> /\ dispatch[d] # Absent
    BY <1>5 DEF Expire
  <2> HIDE DEF r
  <2> QED
    BY <1>1, <1>2, <2>1, <2>2, <2>3, RowStep DEF ControlTypeOK
<1>6. ASSUME NEW d \in Commands, GiveUp(d) PROVE ControlIInv' /\ ~Opens
  <2> DEFINE r == [dispatch[d] EXCEPT !.state = "FAILED", !.send = "over"]
  <2>1. /\ r \in Rows /\ r.state # "COMPLETED" /\ r.kind = dispatch[d].kind
        /\ r.epoch = dispatch[d].epoch /\ r.query = dispatch[d].query /\ r.beat = dispatch[d].beat
    BY <1>1, <1>6 DEF GiveUp, Worker, Rows
  <2>2. dispatch' = [dispatch EXCEPT ![d] = r]
    BY <1>1, <1>6 DEF GiveUp, ControlTypeOK
  <2>3. UNCHANGED <<principal, revoked, call>> /\ dispatch[d] # Absent /\ Update(GivenUp(comp))
    BY <1>6 DEF GiveUp, Worker
  <2>4. GivenUp(comp) \in Component /\ GivenUp(comp).epoch = comp.epoch
        /\ GivenUp(comp).enabled = FALSE
    BY <1>1 DEF GivenUp, Component
  <2>5. comp' \in Component /\ comp'.epoch \in {comp.epoch, comp.epoch + 1}
        /\ comp'.enabled = FALSE
    BY <1>1, <2>3, <2>4, UpdateIs
  <2> HIDE DEF r
  <2> QED
    BY <1>1, <1>2, <2>1, <2>2, <2>3, <2>5, RefusalStep DEF ControlTypeOK
<1>7. ASSUME NEW d \in Commands, NEW k \in Callers, WorkerAckReads(k, d) PROVE ControlIInv' /\ ~Opens
  <2> DEFINE r == [dispatch[d] EXCEPT !.send = "over"]
             c == [at |-> "acking", cmd |-> d, status |-> "ACKED"]
  <2>1. /\ r \in Rows /\ r.state = dispatch[d].state /\ r.kind = dispatch[d].kind
        /\ r.epoch = dispatch[d].epoch /\ r.query = dispatch[d].query /\ r.beat = dispatch[d].beat
    BY <1>1, <1>7 DEF WorkerAckReads, Rows
  <2>2. /\ dispatch' = [dispatch EXCEPT ![d] = r] /\ dispatch[d] # Absent
        /\ call' = [call EXCEPT ![k] = c] /\ UNCHANGED <<comp, principal, revoked>>
    BY <1>1, <1>7 DEF WorkerAckReads, ControlTypeOK
  <2>3. c \in Calls /\ c.at = "acking" /\ c.cmd = d
    BY DEF Calls
  <2> HIDE DEF r, c
  <2>4. dispatch'[d] = r /\ \A e \in Commands \ {d} : dispatch'[e] = dispatch[e]
    BY <1>1, <2>2 DEF ControlTypeOK
  <2>5. r # Absent
    BY <2>1 DEF Rows, Absent
  <2>6. Carried
    BY <2>1, <2>2, <2>4, <2>5 DEF Carried
  <2>7. dispatch' \in [Commands -> Rows \cup {Absent}]
    BY <1>1, <2>1, <2>2 DEF ControlTypeOK
  <2> QED
    BY <2>1, <2>2, <2>3, <2>4, <2>5, <2>6, <2>7, CallStarts
<1> QED
  BY <1>3, <1>4, <1>5, <1>6, <1>7 DEF Dispatcher

LEMMA CallbackStep ==
  ASSUME ControlIInv, NEW k \in Callers, Callback(k)
  PROVE  ControlIInv' /\ (Opens => \E d \in Commands : ActivationConfirmed(d)')
<1>1. /\ comp \in Component /\ comp.epoch \in Nat /\ ControlTypeOK
      /\ \A d \in Commands : dispatch[d] # Absent => dispatch[d] \in Rows
  BY DEF ControlIInv, ControlTypeOK, Component
<1>2. ASSUME Return(k)
      PROVE  /\ call' \in [Callers -> Calls]
             /\ \A j \in Callers : call'[j] = call[j] \/ call'[j] = Quiet
             /\ Quiet.at \notin {"acking", "observing"}
  BY <1>1, <1>2 DEF ControlTypeOK, Calls, Quiet, Return
<1>3. ASSUME UNCHANGED dispatch PROVE Carried
  BY <1>3 DEF Carried
<1>4. ASSUME NEW scope \in {"callback", "runtime"}, Authorize(k, scope) PROVE ControlIInv' /\ ~Opens
  <2> DEFINE c == [at |-> "authorized", scope |-> scope, epoch |-> comp.epoch]
  <2>1. c \in Calls /\ c.at = "authorized"
    BY <1>1 DEF Calls
  <2>2. call' = [call EXCEPT ![k] = c] /\ UNCHANGED <<comp, principal, revoked, dispatch>>
    BY <1>4 DEF Authorize
  <2> HIDE DEF c
  <2> QED
    BY <1>1, <1>3, <2>1, <2>2, CallStarts DEF ControlTypeOK
<1>5. ASSUME NEW d \in Commands, NEW status \in {"ACKED", "FAILED"}, AckReads(k, d, status)
      PROVE  ControlIInv' /\ ~Opens
  <2> DEFINE c == [at |-> "acking", cmd |-> d, status |-> status]
  <2>1. c \in Calls /\ c.at = "acking" /\ c.cmd = d
    BY DEF Calls
  <2>2. call' = [call EXCEPT ![k] = c] /\ UNCHANGED <<comp, principal, revoked, dispatch>>
        /\ dispatch[d] # Absent
    BY <1>5 DEF AckReads, Answering
  <2> HIDE DEF c
  <2> QED
    BY <1>1, <1>3, <2>1, <2>2, CallStarts DEF ControlTypeOK
<1>6. ASSUME NEW d \in Commands, NEW answer \in Answers, ObserveReads(k, d, answer)
      PROVE  ControlIInv' /\ ~Opens
  <2> DEFINE c == [at |-> "observing", cmd |-> d, answer |-> answer, beat |-> dispatch[d].beat]
  <2>1. /\ call' = [call EXCEPT ![k] = c] /\ UNCHANGED <<comp, principal, revoked, dispatch>>
        /\ dispatch[d] # Absent /\ dispatch[d].query # "none"
    BY <1>6 DEF ObserveReads, Answering
  <2>2. c \in Calls /\ c.at = "observing" /\ c.cmd = d /\ c.beat = dispatch[d].beat
    BY <1>1, <2>1 DEF Calls, Rows
  <2> HIDE DEF c
  <2> QED
    BY <1>1, <1>3, <2>1, <2>2, CallStarts DEF ControlTypeOK
<1>7. ASSUME AckCommits(k)
      PROVE  ControlIInv' /\ (Opens => \E d \in Commands : ActivationConfirmed(d)')
  <2> DEFINE d == call[k].cmd
  <2>1. d \in Commands /\ dispatch[d] # Absent /\ dispatch[d] \in Rows
    BY <1>1, <1>7 DEF AckCommits, ControlIInv, Coherent, ControlTypeOK, Calls, Quiet
  <2>2. Return(k) /\ UNCHANGED revoked
    BY <1>7 DEF AckCommits
  <2>3. CASE call[k].status = "FAILED"
    <3> DEFINE r == [dispatch[d] EXCEPT !.state = "FAILED"]
    <3>1. /\ r \in Rows /\ r.state = "FAILED" /\ r.kind = dispatch[d].kind
          /\ r.epoch = dispatch[d].epoch /\ r.query = dispatch[d].query
          /\ r.beat = dispatch[d].beat
      BY <2>1 DEF Rows
    <3>2. dispatch' = [dispatch EXCEPT ![d] = r] /\ UNCHANGED principal
          /\ Update(Refused(comp, dispatch[d].kind))
      BY <1>1, <1>7, <2>1, <2>3 DEF AckCommits, ControlTypeOK
    <3>3. /\ Refused(comp, dispatch[d].kind) \in Component
          /\ Refused(comp, dispatch[d].kind).epoch = comp.epoch
          /\ Refused(comp, dispatch[d].kind).enabled = FALSE
      BY <1>1 DEF Refused, Component
    <3>4. comp' \in Component /\ comp'.epoch \in {comp.epoch, comp.epoch + 1}
          /\ comp'.enabled = FALSE
      BY <1>1, <3>2, <3>3, UpdateIs
    <3> HIDE DEF r
    <3>5. dispatch'[d] = r /\ \A e \in Commands \ {d} : dispatch'[e] = dispatch[e]
      BY <1>1, <2>1, <3>2 DEF ControlTypeOK
    <3>6. r # Absent
      BY <3>1 DEF Rows, Absent
    <3>7. Carried
      BY <2>1, <3>1, <3>5, <3>6 DEF Carried
    <3>8. dispatch' \in [Commands -> Rows \cup {Absent}]
      BY <1>1, <2>1, <3>1, <3>2 DEF ControlTypeOK
    <3>9. /\ call' \in [Callers -> Calls]
          /\ \A j \in Callers : call'[j] = call[j] \/ call'[j].at \notin {"acking", "observing"}
      BY <1>2, <2>2
    <3>10. \A e \in Commands : dispatch'[e] = dispatch[e] \/ dispatch'[e].state # "COMPLETED"
      BY <3>1, <3>5
    <3> QED
      BY <2>2, <3>2, <3>4, <3>7, <3>8, <3>9, <3>10, RefusalStep
  <2>4. CASE call[k].status # "FAILED"
    <3> DEFINE r == [dispatch[d] EXCEPT !.state = "ACKED"]
    <3>1. /\ r \in Rows /\ r.state = "ACKED" /\ r.kind = dispatch[d].kind
          /\ r.epoch = dispatch[d].epoch /\ r.query = dispatch[d].query
          /\ r.beat = dispatch[d].beat
          /\ dispatch[d].beat \in {"none", "PENDING", "RESPONDED"}
      BY <2>1 DEF Rows
    <3>2. Finalize(d, r, dispatch[d].beat)
      BY <1>7, <2>4 DEF AckCommits
    <3> HIDE DEF r
    <3> QED
      BY <2>1, <2>2, <3>1, <3>2, FinalizeStep
  <2> QED
    BY <2>3, <2>4
<1>8. ASSUME ObserveCommits(k)
      PROVE  ControlIInv' /\ (Opens => \E d \in Commands : ActivationConfirmed(d)')
  <2> DEFINE d == call[k].cmd
             r == [dispatch[d] EXCEPT !.query = call[k].answer]
  <2>1. /\ d \in Commands /\ dispatch[d] # Absent /\ dispatch[d] \in Rows
        /\ dispatch[d].query # "none" /\ call[k].answer \in Answers
        /\ call[k].beat \in {"none", "PENDING", "RESPONDED"}
        /\ call[k].beat = "RESPONDED" => dispatch[d].beat = "RESPONDED"
    BY <1>1, <1>8 DEF ObserveCommits, ControlIInv, Coherent, ControlTypeOK, Calls, Quiet
  <2>2. Return(k) /\ UNCHANGED revoked
    BY <1>8 DEF ObserveCommits
  <2>3. /\ r \in Rows /\ r.state = dispatch[d].state /\ r.kind = dispatch[d].kind
        /\ r.epoch = dispatch[d].epoch /\ r.query \in Answers
        /\ r.beat = dispatch[d].beat
        /\ dispatch[d].beat \in {"none", "PENDING", "RESPONDED"}
    BY <2>1 DEF Rows
  <2>4. PICK beat \in {call[k].beat, dispatch[d].beat} : Finalize(d, r, beat)
    BY <1>8 DEF ObserveCommits
  <2>5. beat \in {"none", "PENDING", "RESPONDED"} /\ (beat = "RESPONDED" => r.beat = "RESPONDED")
    BY <2>1, <2>3, <2>4
  <2>6. r.query # "PENDING" /\ r.query # "none"
    BY <2>3 DEF Answers
  <2> HIDE DEF r
  <2> QED
    BY <2>1, <2>2, <2>3, <2>4, <2>5, <2>6, FinalizeStep
<1>9. ASSUME NEW d \in Commands, NEW answer \in Answers, Snapshot(k, d, answer)
      PROVE  ControlIInv' /\ (Opens => ActivationConfirmed(d)')
  <2> DEFINE r == [dispatch[d] EXCEPT !.query = answer]
  <2>1. /\ dispatch[d] # Absent /\ dispatch[d] \in Rows /\ dispatch[d].query = "PENDING"
        /\ Return(k) /\ UNCHANGED revoked
        /\ Finalize(d, r, dispatch[d].beat)
    BY <1>1, <1>9 DEF Snapshot, Answering
  <2>2. /\ r \in Rows /\ r.state = dispatch[d].state /\ r.kind = dispatch[d].kind
        /\ r.epoch = dispatch[d].epoch /\ r.query \in Answers
        /\ r.beat = dispatch[d].beat
        /\ dispatch[d].beat \in {"none", "PENDING", "RESPONDED"}
    BY <2>1 DEF Rows
  <2>3. r.query # "PENDING" /\ r.query # "none"
    BY <2>2 DEF Answers
  <2> HIDE DEF r
  <2> QED
    BY <2>1, <2>2, <2>3, FinalizeStep
<1>10. ASSUME NEW d \in Commands, Heartbeat(k, d)
       PROVE  ControlIInv' /\ (Opens => ActivationConfirmed(d)')
  <2> DEFINE r == [dispatch[d] EXCEPT !.beat = "RESPONDED"]
  <2>1. /\ dispatch[d] # Absent /\ dispatch[d] \in Rows
        /\ Return(k) /\ UNCHANGED revoked
        /\ Finalize(d, r, "RESPONDED")
    BY <1>1, <1>10 DEF Heartbeat, Answering
  <2>2. /\ r \in Rows /\ r.state = dispatch[d].state /\ r.kind = dispatch[d].kind
        /\ r.epoch = dispatch[d].epoch /\ r.query = dispatch[d].query
        /\ r.beat = "RESPONDED"
    BY <2>1 DEF Rows
  <2> HIDE DEF r
  <2> QED
    BY <2>1, <2>2, FinalizeStep
<1>11. CASE Rejected(k)
  <2> DEFINE new == [comp EXCEPT !.monitoring = "DEGRADED"]
  <2>1. /\ new \in Component /\ new.epoch = comp.epoch /\ new.enabled = comp.enabled
        /\ new.activation = comp.activation /\ new.lifecycle = comp.lifecycle
        /\ new.operational = comp.operational
    BY <1>1 DEF Component
  <2>2. Update(new) /\ Return(k) /\ UNCHANGED <<principal, revoked, dispatch>>
    BY <1>11 DEF Rejected
  <2> HIDE DEF new
  <2> QED
    BY <1>1, <1>2, <2>1, <2>2, CompStep DEF ControlIInv, OpenConsistent, ControlTypeOK
<1>12. CASE OperationFails(k)
  <2> DEFINE new == [comp EXCEPT !.operational = "UNHEALTHY", !.monitoring = "FAILED"]
  <2>1. /\ new \in Component /\ new.epoch = comp.epoch /\ new.enabled = comp.enabled
        /\ new.activation = comp.activation /\ new.lifecycle = comp.lifecycle
        /\ new.operational = "UNHEALTHY"
    BY <1>1 DEF Component
  <2>2. Update(new) /\ UNCHANGED <<principal, revoked, dispatch>>
    BY <1>12 DEF OperationFails
  <2>3. \E c \in Calls : c.at \notin {"acking", "observing"} /\ call' = [call EXCEPT ![k] = c]
    BY <1>12 DEF OperationFails, Return, Calls, Quiet
  <2>4. /\ call' \in [Callers -> Calls]
        /\ \A j \in Callers : call'[j] = call[j] \/ call'[j].at \notin {"acking", "observing"}
    BY <1>1, <2>3 DEF ControlTypeOK
  <2> HIDE DEF new
  <2> QED
    BY <1>1, <2>1, <2>2, <2>4, CompStep DEF ControlTypeOK
<1>13. CASE AuditConflict(k)
  <2>1. Impounded(comp) \in Component /\ Impounded(comp).epoch = comp.epoch
        /\ Impounded(comp).enabled = FALSE
    BY <1>1 DEF Impounded, Component
  <2> QED
    BY <1>1, <1>2, <1>13, <2>1, CompStep DEF AuditConflict, ControlTypeOK
<1>14. CASE Drop(k)
  <2>1. Return(k) /\ UNCHANGED <<comp, principal, revoked, dispatch>>
    BY <1>14 DEF Drop
  <2> QED
    BY <1>1, <1>2, <1>3, <2>1, RowStep DEF ControlTypeOK
<1> QED
  BY <1>4, <1>5, <1>6, <1>7, <1>8, <1>9, <1>10, <1>11, <1>12, <1>13, <1>14 DEF Callback

LEMMA Step ==
  ASSUME ControlIInv, [ControlNext]_controlVars
  PROVE  ControlIInv' /\ (Opens => \E d \in Commands : ActivationConfirmed(d)')
<1>1. CASE UNCHANGED controlVars
  BY <1>1 DEF controlVars, ControlIInv, ControlTypeOK, OpenConsistent, EpochsTellApart,
     CompletedHasEvidence,
       Coherent, Opens
<1>2. CASE Admin
  BY <1>2, AdminStep
<1>3. CASE Monitor
  BY <1>3, MonitorStep
<1>4. CASE Dispatcher
  BY <1>4, DispatcherStep
<1>5. ASSUME NEW k \in Callers, Callback(k)
      PROVE  ControlIInv' /\ (Opens => \E d \in Commands : ActivationConfirmed(d)')
  BY <1>5, CallbackStep
<1> QED
  BY <1>1, <1>2, <1>3, <1>4, <1>5 DEF ControlNext

(* The inductive invariant holds in every reachable state.                  *)
THEOREM ControlInvariance == ControlSpec => []ControlIInv
<1>1. ControlIInv /\ [ControlNext]_controlVars => ControlIInv'
  BY Step
<1> QED
  BY ControlInitInv, <1>1, PTL DEF ControlSpec

(* Component, principal, commands and requests keep their types.           *)
THEOREM ControlTypeCorrect == ControlSpec => []ControlTypeOK
<1>1. ControlIInv => ControlTypeOK
  BY DEF ControlIInv
<1> QED
  BY <1>1, ControlInvariance, PTL

(* Open traffic agrees with the lifecycle, the activation state and the     *)
(* principal, whoever wrote the two rows last.                              *)
THEOREM OpenAgrees == ControlSpec => []OpenConsistent
<1>1. ControlIInv => OpenConsistent
  BY DEF ControlIInv
<1> QED
  BY <1>1, ControlInvariance, PTL

(* No two activation commands share a policy epoch, and a disable command   *)
(* is behind the component's epoch for ever.                                *)
THEOREM ApartEpochs == ControlSpec => []EpochsTellApart
<1>1. ControlIInv => EpochsTellApart
  BY DEF ControlIInv
<1> QED
  BY <1>1, ControlInvariance, PTL

(* COMPLETED stands for evidence, in whatever order it arrived.             *)
THEOREM EvidenceBehindCompletion == ControlSpec => []CompletedHasEvidence
<1>1. ControlIInv => CompletedHasEvidence
  BY DEF ControlIInv
<1> QED
  BY <1>1, ControlInvariance, PTL

(* Closed traffic opens only with a confirmed activation command.           *)
THEOREM OpeningIsConfirmed == ControlSpec => OpenOnlyConfirmed
<1>1. ControlIInv /\ [ControlNext]_controlVars =>
        [Opens => \E d \in Commands : ActivationConfirmed(d)']_controlVars
  BY Step
<1> QED
  BY <1>1, ControlInvariance, PTL DEF ControlSpec, OpenOnlyConfirmed

-----------------------------------------------------------------------------
(* DispatchWorker                                                           *)

USE WorkerAssumption DEF Claimable, Expirable, NextAttempt, RecordAttempt, Count, Terminal,
    FailedAttempt

(* A step of one worker keeps the typing of the array of workers.           *)
LEMMA GotoBusy ==
  ASSUME TypeOK, NEW w \in Workers, worker[w].at \notin {"idle", "down"},
         NEW step \in {"sending", "received", "acking", "failing"}, Goto(w, step)
  PROVE  /\ worker[w] \in Busy
         /\ worker' \in [Workers -> {Idle, Down} \cup Busy]
         /\ worker'[w].at = step
         /\ worker'[w].cmd = worker[w].cmd
         /\ worker'[w].attempt = worker[w].attempt
         /\ \A v \in Workers \ {w} : worker'[v] = worker[v]
<1>1. worker[w] \in Busy
  BY DEF TypeOK, Idle, Down, Busy
<1>2. [worker[w] EXCEPT !.at = step] \in Busy
  BY <1>1 DEF Busy
<1> QED
  BY <1>1, <1>2 DEF TypeOK, Goto, Busy

LEMMA InitInv == Init => IInv
<1> SUFFICES ASSUME Init PROVE IInv
  OBVIOUS
<1>1. TypeOK
  BY DEF Init, TypeOK, States, Leases, Marks, Idle, Down, Busy
<1>2. \A d \in Dispatches : Occupied(d) = {}
  BY DEF Init, Occupied, Idle
<1> QED
  BY <1>1, <1>2 DEF Init, IInv, LedgerGapless, RetriesBounded, DeliveredIsLast,
       SingleAcknowledger, WorkersBehind, Fresh, Idle

(* Issuing a command, time and other writers of the component row change    *)
(* neither the attempt rows nor a worker.                                   *)
LEMMA EnqueueInv ==
  ASSUME IInv, NEW d \in Dispatches, NEW kind \in {"query", "enable", "disable"},
         Enqueue(d, kind)
  PROVE  IInv'
<1>1. TypeOK'
  BY DEF IInv, Enqueue, TypeOK, States, Issued
<1>2. LedgerGapless' /\ SingleAcknowledger'
  BY DEF IInv, Enqueue, LedgerGapless, SingleAcknowledger
<1>3. RetriesBounded' /\ Fresh'
  BY DEF IInv, Enqueue, TypeOK, RetriesBounded, Fresh
<1>4. DeliveredIsLast'
  BY DEF IInv, Enqueue, TypeOK, DeliveredIsLast, LedgerGapless, Fresh
<1>5. WorkersBehind'
  BY DEF IInv, Enqueue, TypeOK, WorkersBehind, Occupied
<1> QED
  BY <1>1, <1>2, <1>3, <1>4, <1>5 DEF IInv

(* A step that leaves the rows alone and only lets workers go, or move on   *)
(* with the attempt they hold without entering "acking".                    *)
LEMMA WorkerStepInv ==
  ASSUME IInv, UNCHANGED <<state, attemptCount, ledger>>, TypeOK',
         \A w \in Workers :
           \/ worker'[w] = worker[w]
           \/ worker'[w].at \in {"idle", "down"}
           \/ /\ worker[w].at \notin {"idle", "down"}
              /\ worker'[w].at \in {"received", "failing"}
              /\ worker'[w].cmd = worker[w].cmd
              /\ worker'[w].attempt = worker[w].attempt
  PROVE  IInv'
<1>1. LedgerGapless' /\ RetriesBounded' /\ DeliveredIsLast' /\ Fresh'
  BY DEF IInv, LedgerGapless, RetriesBounded, DeliveredIsLast, Fresh
<1>2. SingleAcknowledger'
  BY DEF IInv, SingleAcknowledger
<1>3. WorkersBehind'
  BY DEF IInv, WorkersBehind, Occupied
<1> QED
  BY <1>1, <1>2, <1>3 DEF IInv

LEMMA SendSucceedsInv ==
  ASSUME IInv, NEW w \in Workers, SendSucceeds(w)
  PROVE  IInv'
<1>1. Goto(w, "received") /\ worker[w].at = "sending" /\ TypeOK
  BY DEF SendSucceeds, IInv
<1>2. TypeOK'
  BY <1>1, GotoBusy DEF SendSucceeds, TypeOK, rowVars, envVars
<1> QED
  BY <1>1, <1>2, GotoBusy, WorkerStepInv DEF SendSucceeds, rowVars

LEMMA CatchInv ==
  ASSUME IInv, NEW w \in Workers, Catch(w)
  PROVE  IInv'
<1>1. Goto(w, "failing") /\ worker[w].at \notin {"idle", "down"} /\ TypeOK
  BY DEF Catch, IInv
<1>2. TypeOK'
  BY <1>1, GotoBusy DEF Catch, TypeOK, rowVars, envVars
<1> QED
  BY <1>1, <1>2, GotoBusy, WorkerStepInv DEF Catch, rowVars

LEMMA LeaveInv ==
  ASSUME IInv, NEW w \in Workers, UNCHANGED <<rowVars, envVars>>,
         NEW next \in {Idle, Down}, worker' = [worker EXCEPT ![w] = next]
  PROVE  IInv'
<1>1. TypeOK'
  BY DEF IInv, TypeOK, rowVars, envVars
<1>2. next.at \in {"idle", "down"}
  BY DEF Idle, Down
<1>3. \A v \in Workers : worker'[v] = worker[v] \/ worker'[v].at \in {"idle", "down"}
  BY <1>2 DEF IInv, TypeOK
<1> QED
  BY <1>1, <1>3, WorkerStepInv DEF rowVars

LEMMA TimeInv == ASSUME IInv, Time \/ EpochMoves PROVE IInv'
<1>1. UNCHANGED <<state, attemptCount, ledger, worker>>
  BY DEF Time, EpochMoves, CircuitCloses, LeaseLapses, DeadlinePasses, rowVars, envVars
<1>2. TypeOK'
  BY DEF IInv, TypeOK, Time, EpochMoves, CircuitCloses, LeaseLapses, DeadlinePasses,
         rowVars, envVars, Issued, Leases
<1> QED
  BY <1>1, <1>2, WorkerStepInv

LEMMA CallbackAckInv ==
  ASSUME IInv, NEW d \in Dispatches, CallbackAck(d)
  PROVE  IInv'
<1>1. PICK s \in {"ACKED", "COMPLETED", "FAILED"} : state' = [state EXCEPT ![d] = s]
  BY DEF CallbackAck
<1>2. TypeOK'
  BY <1>1 DEF IInv, CallbackAck, TypeOK, States, Issued
<1>3. LedgerGapless' /\ SingleAcknowledger'
  BY DEF IInv, CallbackAck, LedgerGapless, SingleAcknowledger
<1>4. RetriesBounded' /\ Fresh' /\ DeliveredIsLast'
  BY <1>1 DEF IInv, CallbackAck, TypeOK, RetriesBounded, Fresh, DeliveredIsLast
<1>5. WorkersBehind'
  BY <1>1 DEF IInv, CallbackAck, TypeOK, WorkersBehind, Occupied
<1> QED
  BY <1>2, <1>3, <1>4, <1>5 DEF IInv

(* The sweep only ever turns issued rows into expired ones.                 *)
LEMMA SweepRows ==
  ASSUME TypeOK
  PROVE  /\ SweptState \in [Dispatches -> States]
         /\ SweptLease \in [Dispatches -> Leases]
         /\ \A d \in Dispatches :
              /\ \/ SweptState[d] = state[d]
                 \/ SweptState[d] = "EXPIRED" /\ state[d] \in Expirable
              /\ d \notin overdue => SweptState[d] = state[d]
<1>1. \A d \in Dispatches :
        /\ SweptState[d] = IF d \in Overdue THEN "EXPIRED" ELSE state[d]
        /\ SweptLease[d] = IF d \in Overdue THEN "none" ELSE lease[d]
  BY DEF SweptState, SweptLease
<1>2. \A d \in Overdue : d \in overdue /\ state[d] \in Expirable
  BY DEF Overdue
<1>3. SweptState \in [Dispatches -> States] /\ SweptLease \in [Dispatches -> Leases]
  BY DEF TypeOK, SweptState, SweptLease, States, Leases
<1> QED
  BY <1>1, <1>2, <1>3

LEMMA SweepInv ==
  ASSUME IInv, NEW w \in Workers, Sweep(w)
  PROVE  IInv'
<1>1. /\ state' \in [Dispatches -> States]
      /\ lease' \in [Dispatches -> Leases]
      /\ \A d \in Dispatches :
           \/ state'[d] = state[d]
           \/ state'[d] = "EXPIRED" /\ state[d] # "ABSENT"
  BY SweepRows DEF IInv, Sweep
<1>2. TypeOK'
  BY <1>1 DEF IInv, Sweep, TypeOK, envVars
<1>3. LedgerGapless' /\ SingleAcknowledger'
  BY DEF IInv, Sweep, LedgerGapless, SingleAcknowledger
<1>4. RetriesBounded' /\ Fresh' /\ DeliveredIsLast'
  BY <1>1 DEF IInv, Sweep, RetriesBounded, Fresh, DeliveredIsLast
<1>5. WorkersBehind'
  BY <1>1 DEF IInv, Sweep, TypeOK, WorkersBehind, Occupied
<1> QED
  BY <1>2, <1>3, <1>4, <1>5 DEF IInv

LEMMA ClaimInv ==
  ASSUME IInv, NEW w \in Workers, NEW d \in Dispatches, Claim(w, d)
  PROVE  IInv'
<1> DEFINE job == [at |-> "sending", cmd |-> d, attempt |-> attemptCount[d] + 1]
<1>1. /\ state' \in [Dispatches -> States]
      /\ lease' \in [Dispatches -> Leases]
      /\ state[d] \in Claimable /\ state'[d] = "CLAIMED"
      /\ \A e \in Dispatches \ {d} :
           \/ state'[e] = state[e]
           \/ state'[e] = "EXPIRED" /\ state[e] # "ABSENT"
  BY SweepRows DEF IInv, Claim, States, Leases
<1>2. job \in Busy
  BY <1>1 DEF IInv, RetriesBounded, TypeOK, Busy
<1>3. /\ worker' \in [Workers -> {Idle, Down} \cup Busy]
      /\ worker'[w] = job
      /\ \A v \in Workers \ {w} : worker'[v] = worker[v]
  BY <1>2 DEF IInv, TypeOK, Claim
<1>4. TypeOK'
  BY <1>1, <1>3 DEF IInv, Claim, TypeOK, envVars
<1>5. LedgerGapless' /\ SingleAcknowledger'
  BY <1>3 DEF IInv, Claim, LedgerGapless, SingleAcknowledger
<1>6. RetriesBounded' /\ Fresh' /\ DeliveredIsLast'
  BY <1>1 DEF IInv, Claim, RetriesBounded, Fresh, DeliveredIsLast
<1>7. WorkersBehind'
  <2> SUFFICES ASSUME NEW e \in Dispatches, NEW v \in Occupied(e)'
               PROVE  LET n == worker'[v].attempt IN
                        /\ state'[e] # "ABSENT"
                        /\ n <= attemptCount'[e] + 1
                        /\ (\E m \in 1..MaxAttempts : ledger'[e][m] = "DELIVERED")
                             => n <= attemptCount'[e]
                        /\ worker'[v].at = "acking" => ledger'[e][n] = "DELIVERED"
    BY DEF WorkersBehind
  <2>1. CASE v = w
    <3>1. e = d /\ worker'[v].attempt = attemptCount[d] + 1 /\ worker'[v].at = "sending"
      BY <1>3, <2>1 DEF Occupied
    <3>2. attemptCount[d] \in Nat /\ attemptCount' = attemptCount /\ ledger' = ledger
      BY DEF IInv, TypeOK, Claim
    <3>3. \A m \in 1..MaxAttempts : ledger[d][m] # "DELIVERED"
      BY <1>1 DEF IInv, DeliveredIsLast
    <3> QED
      BY <1>1, <3>1, <3>2, <3>3
  <2>2. CASE v # w
    BY <1>1, <1>3, <2>2 DEF IInv, Claim, WorkersBehind, Occupied
  <2> QED
    BY <2>1, <2>2
<1> QED
  BY <1>4, <1>5, <1>6, <1>7 DEF IInv

(* The worker that records attempt n finds the count at n - 1, no delivery  *)
(* recorded, and so no other worker acknowledging.                          *)
LEMMA RecordingIsNext ==
  ASSUME IInv, NEW w \in Workers, worker[w].at \notin {"idle", "down"},
         Unrecorded(worker[w].cmd, worker[w].attempt)
  PROVE  /\ worker[w] \in Busy
         /\ worker[w].attempt = attemptCount[worker[w].cmd] + 1
         /\ state[worker[w].cmd] # "ABSENT"
         /\ \A m \in 1..MaxAttempts : ledger[worker[w].cmd][m] # "DELIVERED"
         /\ \A v \in Workers :
              worker[v].at \notin {"idle", "down"} /\ worker[v].cmd = worker[w].cmd
                => worker[v].attempt <= worker[w].attempt /\ worker[v].at # "acking"
<1> DEFINE d == worker[w].cmd  n == worker[w].attempt
<1>1. worker[w] \in Busy
  BY DEF IInv, TypeOK, Idle, Down
<1>2. d \in Dispatches /\ n \in 1..MaxAttempts /\ w \in Occupied(d)
  BY <1>1 DEF Busy, Occupied
<1>3. attemptCount[d] \in 0..MaxAttempts
  BY <1>2 DEF IInv, TypeOK
<1>4. ~(n <= attemptCount[d])
  BY <1>2 DEF IInv, LedgerGapless, Unrecorded
<1>5. n <= attemptCount[d] + 1 /\ state[d] # "ABSENT"
  BY <1>2 DEF IInv, WorkersBehind
<1>6. n = attemptCount[d] + 1
  BY <1>2, <1>3, <1>4, <1>5
<1>7. \A m \in 1..MaxAttempts : ledger[d][m] # "DELIVERED"
  BY <1>2, <1>4 DEF IInv, WorkersBehind
<1>8. ASSUME NEW v \in Workers, worker[v].at \notin {"idle", "down"}, worker[v].cmd = d
      PROVE  worker[v].attempt <= n /\ worker[v].at # "acking"
  <2>1. v \in Occupied(d) /\ worker[v].attempt \in 1..MaxAttempts
    BY <1>2, <1>8 DEF IInv, TypeOK, Idle, Down, Busy, Occupied
  <2> QED
    BY <1>2, <1>6, <1>7, <2>1 DEF IInv, WorkersBehind
<1> QED
  BY <1>1, <1>5, <1>6, <1>7, <1>8

LEMMA RecordDeliveryInv ==
  ASSUME IInv, NEW w \in Workers, RecordDelivery(w)
  PROVE  IInv'
<1> DEFINE d == worker[w].cmd  n == worker[w].attempt
<1>1. /\ d \in Dispatches /\ n \in 1..MaxAttempts
      /\ n = attemptCount[d] + 1
      /\ \A m \in 1..MaxAttempts : ledger[d][m] # "DELIVERED"
      /\ \A v \in Workers :
           worker[v].at \notin {"idle", "down"} /\ worker[v].cmd = d
             => worker[v].attempt <= n /\ worker[v].at # "acking"
  BY RecordingIsNext DEF RecordDelivery, Busy
<1>2. /\ worker' \in [Workers -> {Idle, Down} \cup Busy]
      /\ worker'[w].at = "acking" /\ worker'[w].cmd = d /\ worker'[w].attempt = n
      /\ \A v \in Workers \ {w} : worker'[v] = worker[v]
  BY GotoBusy DEF RecordDelivery, IInv
<1>3. /\ state' = [state EXCEPT ![d] = "ACK_PENDING"]
      /\ attemptCount' = [attemptCount EXCEPT ![d] = n]
      /\ ledger' = [ledger EXCEPT ![d][n] = "DELIVERED"]
  BY DEF RecordDelivery
<1>4. ledger' \in [Dispatches -> [1..MaxAttempts -> Marks]]
  BY <1>1, <1>3 DEF IInv, TypeOK, Marks
<1>5. state' \in [Dispatches -> States] /\ attemptCount' \in [Dispatches -> 0..MaxAttempts]
  BY <1>1, <1>3 DEF IInv, TypeOK, States
<1>6. TypeOK'
  BY <1>1, <1>2, <1>4, <1>5 DEF RecordDelivery, IInv, TypeOK, Leases
<1>7. /\ ledger'[d][n] = "DELIVERED"
      /\ \A e \in Dispatches, m \in 1..MaxAttempts :
           e # d \/ m # n => ledger'[e][m] = ledger[e][m]
  BY <1>1, <1>3 DEF IInv, TypeOK
<1>8. LedgerGapless'
  BY <1>1, <1>3, <1>7 DEF IInv, TypeOK, LedgerGapless
<1>9. RetriesBounded' /\ Fresh'
  BY <1>1, <1>3 DEF IInv, TypeOK, RetriesBounded, Fresh
<1>10. DeliveredIsLast'
  BY <1>1, <1>3, <1>7 DEF IInv, TypeOK, DeliveredIsLast
<1>11. SingleAcknowledger'
  BY <1>1, <1>2 DEF IInv, SingleAcknowledger
<1>12. WorkersBehind'
  <2> SUFFICES ASSUME NEW e \in Dispatches, NEW v \in Occupied(e)'
               PROVE  /\ state'[e] # "ABSENT"
                      /\ worker'[v].attempt <= attemptCount'[e] + 1
                      /\ (\E m \in 1..MaxAttempts : ledger'[e][m] = "DELIVERED")
                           => worker'[v].attempt <= attemptCount'[e]
                      /\ worker'[v].at = "acking"
                           => ledger'[e][worker'[v].attempt] = "DELIVERED"
    BY DEF WorkersBehind
  <2>1. v \in Workers /\ worker'[v].cmd = e /\ worker'[v].at \notin {"idle", "down"}
        /\ worker'[v].attempt \in 1..MaxAttempts
    BY <1>2 DEF Occupied, Idle, Down, Busy
  <2>2. CASE e = d
    <3>1. state'[e] = "ACK_PENDING" /\ attemptCount'[e] = n
      BY <1>1, <1>3, <2>2 DEF IInv, TypeOK
    <3>2. worker'[v].attempt <= n
      BY <1>1, <1>2, <2>1, <2>2
    <3>3. worker'[v].at = "acking" => v = w
      BY <1>1, <1>2, <2>1, <2>2
    <3> QED
      BY <1>1, <1>2, <1>7, <2>1, <2>2, <3>1, <3>2, <3>3
  <2>3. CASE e # d
    <3>1. state'[e] = state[e] /\ attemptCount'[e] = attemptCount[e]
      BY <1>1, <1>3, <2>3 DEF IInv, TypeOK
    <3>2. worker'[v] = worker[v] /\ v \in Occupied(e)
      BY <1>2, <2>1, <2>3 DEF Occupied
    <3>3. \A m \in 1..MaxAttempts : ledger'[e][m] = ledger[e][m]
      BY <1>7, <2>3
    <3> QED
      BY <2>1, <3>1, <3>2, <3>3 DEF IInv, WorkersBehind
  <2> QED
    BY <2>2, <2>3
<1> QED
  BY <1>6, <1>8, <1>9, <1>10, <1>11, <1>12 DEF IInv

LEMMA AckAcceptedInv ==
  ASSUME IInv, NEW w \in Workers, AckAccepted(w)
  PROVE  IInv'
<1> DEFINE d == worker[w].cmd
<1>1. PICK s \in {"ACKED", "COMPLETED"} : state' = [state EXCEPT ![d] = s]
  BY DEF AckAccepted
<1>2. /\ worker' \in [Workers -> {Idle, Down} \cup Busy]
      /\ worker'[w].at = "idle"
      /\ \A v \in Workers \ {w} : worker'[v] = worker[v]
  BY DEF AckAccepted, IInv, TypeOK, Idle
<1>3. TypeOK'
  BY <1>1, <1>2 DEF IInv, AckAccepted, TypeOK, States, Issued
<1>4. LedgerGapless' /\ SingleAcknowledger'
  BY <1>2 DEF IInv, AckAccepted, LedgerGapless, SingleAcknowledger
<1>5. RetriesBounded' /\ Fresh' /\ DeliveredIsLast'
  BY <1>1 DEF IInv, AckAccepted, TypeOK, RetriesBounded, Fresh, DeliveredIsLast
<1>6. WorkersBehind'
  BY <1>1, <1>2 DEF IInv, AckAccepted, TypeOK, WorkersBehind, Occupied
<1> QED
  BY <1>3, <1>4, <1>5, <1>6 DEF IInv

LEMMA FailAttemptInv ==
  ASSUME IInv, NEW w \in Workers, FailAttempt(w)
  PROVE  IInv'
<1> DEFINE d == worker[w].cmd  n == worker[w].attempt
<1>1. /\ d \in Dispatches /\ n \in 1..MaxAttempts
      /\ n = attemptCount[d] + 1
      /\ \A m \in 1..MaxAttempts : ledger[d][m] # "DELIVERED"
      /\ \A v \in Workers :
           worker[v].at \notin {"idle", "down"} /\ worker[v].cmd = d
             => worker[v].attempt <= n /\ worker[v].at # "acking"
  BY RecordingIsNext DEF FailAttempt, Busy
<1>2. /\ worker' \in [Workers -> {Idle, Down} \cup Busy]
      /\ worker'[w].at = "idle"
      /\ \A v \in Workers \ {w} : worker'[v] = worker[v]
  BY DEF FailAttempt, IInv, TypeOK, Idle
<1>3. PICK s \in {"QUEUED", "FAILED"} :
        /\ state' = [state EXCEPT ![d] = s]
        /\ s = "QUEUED" => n < MaxAttempts
  <2>1. state' = [state EXCEPT ![d] = IF n >= MaxAttempts THEN "FAILED" ELSE "QUEUED"]
    BY DEF FailAttempt
  <2>2. CASE n >= MaxAttempts
    BY <2>1, <2>2
  <2>3. CASE ~(n >= MaxAttempts)
    <3>1. n < MaxAttempts
      BY <1>1, <2>3
    <3> QED
      BY <2>1, <2>3, <3>1
  <2> QED
    BY <2>2, <2>3
<1>4. /\ attemptCount' = [attemptCount EXCEPT ![d] = n]
      /\ ledger' = [ledger EXCEPT ![d][n] = "FAILED"]
  BY DEF FailAttempt
<1>5. ledger' \in [Dispatches -> [1..MaxAttempts -> Marks]]
  BY <1>1, <1>4 DEF IInv, TypeOK, Marks
<1>6. state' \in [Dispatches -> States] /\ attemptCount' \in [Dispatches -> 0..MaxAttempts]
  BY <1>1, <1>3, <1>4 DEF IInv, TypeOK, States
<1>7. circuit' \in [failures : 0..CircuitThreshold, open : BOOLEAN]
  <2>1. circuit.failures \in 0..CircuitThreshold /\ circuit.open \in BOOLEAN
    BY DEF IInv, TypeOK
  <2>2. CASE circuit.failures + 1 >= CircuitThreshold
    BY <2>2 DEF FailAttempt
  <2>3. CASE ~(circuit.failures + 1 >= CircuitThreshold)
    <3>1. circuit.failures + 1 \in 0..CircuitThreshold
      BY <2>1, <2>3
    <3>2. circuit' = [circuit EXCEPT !.failures = circuit.failures + 1]
      BY <2>3 DEF FailAttempt
    <3> QED
      BY <3>1, <3>2 DEF IInv, TypeOK
  <2> QED
    BY <2>2, <2>3
<1>8. TypeOK'
  BY <1>1, <1>2, <1>5, <1>6, <1>7 DEF FailAttempt, IInv, TypeOK, Leases, Issued
<1>9. /\ ledger'[d][n] = "FAILED"
      /\ \A e \in Dispatches, m \in 1..MaxAttempts :
           e # d \/ m # n => ledger'[e][m] = ledger[e][m]
  BY <1>1, <1>4 DEF IInv, TypeOK
<1>10. LedgerGapless'
  BY <1>1, <1>4, <1>9 DEF IInv, TypeOK, LedgerGapless
<1>11. RetriesBounded' /\ Fresh'
  BY <1>1, <1>3, <1>4 DEF IInv, TypeOK, RetriesBounded, Fresh
<1>12. DeliveredIsLast'
  BY <1>1, <1>3, <1>4, <1>9 DEF IInv, TypeOK, DeliveredIsLast
<1>13. SingleAcknowledger'
  BY <1>2 DEF IInv, SingleAcknowledger
<1>14. WorkersBehind'
  <2> SUFFICES ASSUME NEW e \in Dispatches, NEW v \in Occupied(e)'
               PROVE  /\ state'[e] # "ABSENT"
                      /\ worker'[v].attempt <= attemptCount'[e] + 1
                      /\ (\E m \in 1..MaxAttempts : ledger'[e][m] = "DELIVERED")
                           => worker'[v].attempt <= attemptCount'[e]
                      /\ worker'[v].at = "acking"
                           => ledger'[e][worker'[v].attempt] = "DELIVERED"
    BY DEF WorkersBehind
  <2>1. /\ v \in Workers /\ v # w /\ worker'[v] = worker[v] /\ v \in Occupied(e)
        /\ worker[v].attempt \in 1..MaxAttempts
    BY <1>2 DEF Occupied, Idle, Down, Busy
  <2>2. CASE e = d
    <3>1. state'[e] # "ABSENT" /\ attemptCount'[e] = n
      BY <1>1, <1>3, <1>4, <2>2 DEF IInv, TypeOK
    <3>2. worker[v].attempt <= n /\ worker[v].at # "acking"
      BY <1>1, <2>1, <2>2 DEF Occupied
    <3> QED
      BY <1>1, <2>1, <3>1, <3>2
  <2>3. CASE e # d
    <3>1. state'[e] = state[e] /\ attemptCount'[e] = attemptCount[e]
      BY <1>1, <1>3, <1>4, <2>3 DEF IInv, TypeOK
    <3>2. \A m \in 1..MaxAttempts : ledger'[e][m] = ledger[e][m]
      BY <1>9, <2>3
    <3> QED
      BY <2>1, <3>1, <3>2 DEF IInv, WorkersBehind
  <2> QED
    BY <2>2, <2>3
<1> QED
  BY <1>8, <1>10, <1>11, <1>12, <1>13, <1>14 DEF IInv

-----------------------------------------------------------------------------
LEMMA StepInv == IInv /\ [Next]_vars => IInv'
<1> SUFFICES ASSUME IInv, [Next]_vars PROVE IInv'
  OBVIOUS
<1>1. ASSUME NEW d \in Dispatches, NEW kind \in {"query", "enable", "disable"},
             Enqueue(d, kind)
      PROVE  IInv'
  BY <1>1, EnqueueInv
<1>2. ASSUME NEW w \in Workers, Poll(w) PROVE IInv'
  BY <1>2, SweepInv, ClaimInv DEF Poll
<1>3. ASSUME NEW w \in Workers, FailAttemptAborts(w) PROVE IInv'
  BY <1>3, LeaveInv DEF FailAttemptAborts
<1>4. ASSUME NEW w \in Workers, Process(w) PROVE IInv'
  BY <1>3, <1>4, SendSucceedsInv, RecordDeliveryInv, AckAcceptedInv, CatchInv,
     FailAttemptInv DEF Process
<1>5. ASSUME NEW w \in Workers, Crash(w) \/ Restart(w) PROVE IInv'
  BY <1>5, LeaveInv DEF Crash, Restart
<1>6. ASSUME NEW d \in Dispatches, CallbackAck(d) PROVE IInv'
  BY <1>6, CallbackAckInv
<1>7. ASSUME EpochMoves \/ Time PROVE IInv'
  BY <1>7, TimeInv
<1>8. CASE UNCHANGED vars
  <2>1. TypeOK'
    BY <1>8 DEF IInv, TypeOK, vars, rowVars, envVars
  <2> QED
    BY <1>8, <2>1, WorkerStepInv DEF vars, rowVars, envVars
<1> QED
  BY <1>1, <1>2, <1>4, <1>5, <1>6, <1>7, <1>8 DEF Next

(* The inductive invariant, and with it every invariant of the safety run,  *)
(* holds for any number of workers, commands and attempts.                  *)
THEOREM Invariance == Spec => []IInv
<1> QED
  BY InitInv, StepInv, PTL DEF Spec

(* Rows, workers and circuit keep their types, whatever overlaps.          *)
THEOREM TypeCorrect == Spec => []TypeOK
<1>1. IInv => TypeOK
  BY DEF IInv
<1> QED
  BY <1>1, Invariance, PTL

(* No gap and no duplicate among the attempt rows of a command.             *)
THEOREM GaplessLedger == Spec => []LedgerGapless
<1>1. IInv => LedgerGapless
  BY DEF IInv
<1> QED
  BY <1>1, Invariance, PTL

(* A claimable row always has an attempt left, so retries are bounded.      *)
THEOREM BoundedRetries == Spec => []RetriesBounded
<1>1. IInv => RetriesBounded
  BY DEF IInv
<1> QED
  BY <1>1, Invariance, PTL

(* A command recorded as delivered is never offered to a worker again.      *)
THEOREM DeliveryIsLast == Spec => []DeliveredIsLast
<1>1. IInv => DeliveredIsLast
  BY DEF IInv
<1> QED
  BY <1>1, Invariance, PTL

(* At most one worker acknowledges a command.                               *)
THEOREM OneAcknowledger == Spec => []SingleAcknowledger
<1>1. IInv => SingleAcknowledger
  BY DEF IInv
<1> QED
  BY <1>1, Invariance, PTL

-----------------------------------------------------------------------------
(* Refinement of DispatchLifecycle.                                         *)
Abs == [d \in Dispatches |-> Phase(state[d])]

LEMMA PhaseOf ==
  /\ Phase("ABSENT") = "absent"
  /\ \A s \in {"PENDING", "QUEUED", "CLAIMED"} : Phase(s) = "open"
  /\ Phase("ACK_PENDING") = "delivered"
  /\ \A s \in {"ACKED", "COMPLETED"} : Phase(s) = "acked"
  /\ Phase("FAILED") = "failed"
  /\ Phase("EXPIRED") = "expired"
  /\ \A s \in States : s # "ABSENT" => Phase(s) # "absent"
BY DEF Phase, States

(* Writing one row writes one phase.                                        *)
LEMMA AbsExcept ==
  ASSUME TypeOK, NEW d \in Dispatches, NEW s, NEW p, Phase(s) = p,
         state' = [state EXCEPT ![d] = s]
  PROVE  Abs' = [Abs EXCEPT ![d] = p]
BY DEF TypeOK, Abs

LEMMA SweepRefines ==
  ASSUME TypeOK
  PROVE  /\ \A d \in Overdue : Abs[d] \in {"open", "delivered"}
         /\ Overdue \in SUBSET Dispatches
         /\ [d \in Dispatches |-> Phase(SweptState[d])]
              = [d \in Dispatches |-> IF d \in Overdue THEN "expired" ELSE Abs[d]]
<1>1. \A d \in Overdue : d \in Dispatches /\ state[d] \in Expirable
  BY DEF TypeOK, Overdue
<1> QED
  BY <1>1, PhaseOf DEF Abs, SweptState

LEMMA StepRefines ==
  ASSUME IInv, [Next]_vars
  PROVE  [Lifecycle!Next]_<<Abs, attemptCount>>
<1>t. TypeOK
  BY DEF IInv
<1>1. ASSUME NEW d \in Dispatches, NEW kind \in {"query", "enable", "disable"},
             Enqueue(d, kind)
      PROVE  Lifecycle!Issue(d)
  <2>1. Abs' = [Abs EXCEPT ![d] = Phase(InsertState)]
    BY <1>1, <1>t, AbsExcept DEF Enqueue
  <2> QED
    BY <1>1, <2>1, PhaseOf DEF Enqueue, Abs, Lifecycle!Issue
<1>2. ASSUME NEW w \in Workers, Sweep(w) PROVE Lifecycle!Expire(Overdue)
  BY <1>2, <1>t, SweepRefines DEF Sweep, Abs, Lifecycle!Expire
<1>3. ASSUME NEW w \in Workers, NEW d \in Dispatches, Claim(w, d)
      PROVE  Lifecycle!Expire(Overdue)
  <2>1. Abs' = [e \in Dispatches |-> Phase(SweptState[e])]
    <3>1. d \notin Overdue /\ Phase(SweptState[d]) = Phase("CLAIMED")
      BY <1>3, PhaseOf DEF Claim, Overdue, SweptState
    <3>2. state' = [SweptState EXCEPT ![d] = "CLAIMED"] /\ SweptState \in [Dispatches -> States]
      BY <1>3, <1>t, SweepRows DEF Claim
    <3> QED
      BY <3>1, <3>2 DEF Abs
  <2> QED
    BY <1>3, <1>t, <2>1, SweepRefines DEF Claim, Abs, Lifecycle!Expire
<1>4. ASSUME NEW w \in Workers, RecordDelivery(w)
      PROVE  Lifecycle!Attempt(worker[w].cmd)
  <2> DEFINE d == worker[w].cmd
  <2>1. /\ d \in Dispatches /\ worker[w].attempt \in 1..MaxAttempts
        /\ worker[w].attempt = attemptCount[d] + 1 /\ state[d] # "ABSENT"
    BY <1>4, RecordingIsNext DEF RecordDelivery, Busy
  <2>2. Abs' = [Abs EXCEPT ![d] = "delivered"]
    <3>1. state' = [state EXCEPT ![d] = "ACK_PENDING"]
      BY <1>4 DEF RecordDelivery
    <3>2. Phase("ACK_PENDING") = "delivered"
      BY PhaseOf
    <3> QED
      BY <1>t, <2>1, <3>1, <3>2, AbsExcept
  <2>3. attemptCount[d] < MaxAttempts /\ attemptCount' = [attemptCount EXCEPT ![d] = @ + 1]
    BY <1>4, <1>t, <2>1 DEF RecordDelivery, TypeOK
  <2> QED
    BY <1>t, <2>1, <2>2, <2>3, PhaseOf DEF Abs, Lifecycle!Attempt, TypeOK
<1>5. ASSUME NEW w \in Workers, FailAttempt(w)
      PROVE  Lifecycle!Attempt(worker[w].cmd)
  <2> DEFINE d == worker[w].cmd  n == worker[w].attempt
  <2>1. /\ d \in Dispatches /\ n \in 1..MaxAttempts
        /\ n = attemptCount[d] + 1 /\ state[d] # "ABSENT"
    BY <1>5, RecordingIsNext DEF FailAttempt, Busy
  <2>2. state' = [state EXCEPT ![d] = IF n >= MaxAttempts THEN "FAILED" ELSE "QUEUED"]
    BY <1>5 DEF FailAttempt
  <2>3. /\ attemptCount[d] < MaxAttempts
        /\ attemptCount' = [attemptCount EXCEPT ![d] = @ + 1]
        /\ attemptCount'[d] = n
    BY <1>5, <1>t, <2>1 DEF FailAttempt, TypeOK
  <2>4. CASE n >= MaxAttempts
    <3>s. state' = [state EXCEPT ![d] = "FAILED"]
      BY <2>2, <2>4
    <3>p. Phase("FAILED") = "failed" /\ n = MaxAttempts
      BY <2>1, <2>4, PhaseOf
    <3>1. Abs' = [Abs EXCEPT ![d] = "failed"]
      BY <1>t, <2>1, <3>s, <3>p, AbsExcept
    <3> QED
      BY <1>t, <2>1, <2>3, <3>p, <3>1, PhaseOf DEF Abs, Lifecycle!Attempt, TypeOK
  <2>5. CASE ~(n >= MaxAttempts)
    <3>s. state' = [state EXCEPT ![d] = "QUEUED"]
      BY <2>2, <2>5
    <3>p. Phase("QUEUED") = "open" /\ n < MaxAttempts
      BY <2>1, <2>5, PhaseOf
    <3>1. Abs' = [Abs EXCEPT ![d] = "open"]
      BY <1>t, <2>1, <3>s, <3>p, AbsExcept
    <3> QED
      BY <1>t, <2>1, <2>3, <3>p, <3>1, PhaseOf DEF Abs, Lifecycle!Attempt, TypeOK
  <2> QED
    BY <2>4, <2>5
<1>6. ASSUME NEW w \in Workers, AckAccepted(w)
      PROVE  Lifecycle!Acknowledge(worker[w].cmd) /\ worker[w].cmd \in Dispatches
  <2> DEFINE d == worker[w].cmd
  <2>1. worker[w] \in Busy /\ d \in Dispatches /\ w \in Occupied(d)
    BY <1>6, <1>t DEF AckAccepted, TypeOK, Idle, Down, Busy, Occupied
  <2>2. state[d] # "ABSENT"
    BY <2>1 DEF IInv, WorkersBehind
  <2>3. PICK s \in {"ACKED", "COMPLETED"} : state' = [state EXCEPT ![d] = s]
    BY <1>6 DEF AckAccepted
  <2>4. Abs' = [Abs EXCEPT ![d] = "acked"]
    <3>1. Phase(s) = "acked"
      BY <2>3, PhaseOf
    <3> QED
      BY <1>t, <2>1, <2>3, <3>1, AbsExcept
  <2> QED
    BY <1>6, <1>t, <2>1, <2>2, <2>4, PhaseOf DEF AckAccepted, Abs, Lifecycle!Acknowledge, TypeOK
<1>7. ASSUME NEW d \in Dispatches, CallbackAck(d)
      PROVE  Lifecycle!Acknowledge(d) \/ Lifecycle!Refuse(d)
  <2>1. PICK s \in {"ACKED", "COMPLETED", "FAILED"} : state' = [state EXCEPT ![d] = s]
    BY <1>7 DEF CallbackAck
  <2>2. \/ Abs' = [Abs EXCEPT ![d] = "acked"]
        \/ Abs' = [Abs EXCEPT ![d] = "failed"]
    <3>1. CASE s \in {"ACKED", "COMPLETED"}
      <4>1. Phase(s) = "acked"
        BY <3>1, PhaseOf
      <4> QED
        BY <1>t, <2>1, <4>1, AbsExcept
    <3>2. CASE s = "FAILED"
      <4>1. Phase(s) = "failed"
        BY <3>2, PhaseOf
      <4> QED
        BY <1>t, <2>1, <4>1, AbsExcept
    <3> QED
      BY <3>1, <3>2
  <2> QED
    BY <1>7, <1>t, <2>2, PhaseOf
    DEF CallbackAck, Abs, Lifecycle!Acknowledge, Lifecycle!Refuse, TypeOK
<1>8. ASSUME UNCHANGED <<state, attemptCount>>
      PROVE  UNCHANGED <<Abs, attemptCount>>
  BY <1>8 DEF Abs
<1>9. ASSUME NEW w \in Workers, Process(w)
      PROVE  [Lifecycle!Next]_<<Abs, attemptCount>>
  <2>1. CASE RecordDelivery(w)
    BY <1>4, <2>1, RecordingIsNext DEF RecordDelivery, Busy, Abs, Lifecycle!Next
  <2>2. CASE FailAttempt(w)
    BY <1>5, <2>2, RecordingIsNext DEF FailAttempt, Busy, Abs, Lifecycle!Next
  <2>3. CASE AckAccepted(w)
    BY <1>6, <2>3 DEF Abs, Lifecycle!Next
  <2>4. CASE SendSucceeds(w) \/ Catch(w) \/ FailAttemptAborts(w)
    BY <1>8, <2>4 DEF SendSucceeds, Catch, FailAttemptAborts, rowVars
  <2> QED
    BY <1>9, <2>1, <2>2, <2>3, <2>4 DEF Process
<1>10. ASSUME NEW w \in Workers, Poll(w)
       PROVE  [Lifecycle!Next]_<<Abs, attemptCount>>
  BY <1>2, <1>3, <1>10, <1>t, SweepRefines DEF Poll, Abs, Lifecycle!Next
<1>11. ASSUME \/ \E w \in Workers : Crash(w) \/ Restart(w)
              \/ EpochMoves \/ Time \/ UNCHANGED vars
       PROVE  UNCHANGED <<Abs, attemptCount>>
  BY <1>8, <1>11 DEF Crash, Restart, EpochMoves, Time, CircuitCloses, LeaseLapses,
     DeadlinePasses, vars, rowVars
<1> QED
  BY <1>1, <1>7, <1>9, <1>10, <1>11 DEF Next, Abs, Lifecycle!Next

(* The worker and the callbacks together keep the promise of a command row: *)
(* issued once, at most maxAttempts recorded attempts, one at a time, and   *)
(* no way back to the queue from the last of them.                          *)
THEOREM Refinement == Spec => ImplementsLifecycle
<1>1. Init => Lifecycle!Init
  BY PhaseOf DEF Init, Lifecycle!Init
<1>2. IInv /\ [Next]_vars
        => [Lifecycle!Next]_<<[d \in Dispatches |-> Phase(state[d])], attemptCount>>
  BY StepRefines DEF Abs
<1> QED
  BY <1>1, <1>2, Invariance, PTL DEF Spec, ImplementsLifecycle, Lifecycle!Spec
=============================================================================
