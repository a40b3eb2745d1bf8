--------------------- MODULE ComponentOnboarding_proofs ---------------------
(* What holds of the onboarding jobs of a token for any numbers of jobs,    *)
(* keys, manifests and requests in flight.                                  *)
EXTENDS ComponentOnboarding, TLAPS

(* What ties the row of a job, its component and the token together.        *)
Sound(t, r, c) ==
  /\ r.handed => /\ t.revoked
                 /\ r.state \in {"ACTIVE", "BLOCKED"}
                 /\ r.manifest \notin Sources
                 /\ c.access # "none"
  /\ r.state = "ACTIVE" \/ c.enabled => r.handed
  /\ c.revision = RevisionOf(r.manifest)
  /\ r.held <=> c.access # "none" /\ ~r.handed /\ r.state # "CANCELLED"
  /\ r.state = "CANCELLED" => ~c.enabled /\ c.principal # "ACTIVE" /\ c.access # "valid"

AllSound == \A j \in Jobs : Exists(j) => Sound(token, job[j], component[j])

(* A token has at most one job that is not cancelled.                       *)
Live(j) == Exists(j) /\ job[j].state # "CANCELLED"
OneLive == \A i, j \in Jobs : Live(i) /\ Live(j) => i = j

(* A request in flight names a job that exists, and a revision request is   *)
(* behind the hand-off of its job.                                          *)
Behind == \A k \in Callers :
  /\ call[k].op \in {"evaluate", "cancel", "revise"} => Exists(call[k].job)
  /\ call[k].op = "revise" => /\ call[k].seen <= job[call[k].job].lock
                              /\ job[call[k].job].handed => call[k].seen < job[call[k].job].lock

IInv == TypeOK /\ AllSound /\ OneLive /\ Behind

-----------------------------------------------------------------------------
(* The handlers' effects on one row and one component.                      *)
LEMMA RowExists == \A r \in Rows : r # Absent
BY DEF Rows, Absent

LEMMA EvaluatedRow ==
  ASSUME NEW r \in Rows, NEW passed \in BOOLEAN, NEW handsOff \in BOOLEAN, NEW available \in BOOLEAN
  PROVE  /\ Evaluated(r, passed, handsOff, available) \in Rows
         /\ Evaluated(r, passed, handsOff, available).state = IF passed THEN "ACTIVE" ELSE "BLOCKED"
         /\ Evaluated(r, passed, handsOff, available).held = (available /\ ~handsOff)
         /\ Evaluated(r, passed, handsOff, available).handed = (r.handed \/ handsOff)
         /\ Evaluated(r, passed, handsOff, available).manifest = r.manifest
         /\ Evaluated(r, passed, handsOff, available).lock = r.lock + 1
<1>1. PICK held \in BOOLEAN : held = (available /\ ~handsOff)
  OBVIOUS
<1>2. PICK handed \in BOOLEAN : handed = (r.handed \/ handsOff)
  OBVIOUS
<1>3. PICK state \in {"IN_REVIEW", "BLOCKED", "ACTIVE", "CANCELLED"} : state = IF passed THEN "ACTIVE" ELSE "BLOCKED"
  OBVIOUS
<1>4. PICK lock \in Nat : lock = r.lock + 1
  BY DEF Rows
<1>5. Evaluated(r, passed, handsOff, available) = [r EXCEPT !.state = state, !.held = held, !.handed = handed, !.lock = lock]
  BY <1>1, <1>2, <1>3, <1>4, Zenon DEF Evaluated
<1>6. LET q == [r EXCEPT !.state = state, !.held = held, !.handed = handed, !.lock = lock]
         IN  /\ q \in Rows
             /\ q.state = state
             /\ q.held = held
             /\ q.handed = handed
             /\ q.manifest = r.manifest
             /\ q.lock = lock
  BY DEF Rows
<1> DEFINE q == Evaluated(r, passed, handsOff, available)
<1>7. /\ q \in Rows
      /\ q.state = state
      /\ q.held = held
      /\ q.handed = handed
      /\ q.manifest = r.manifest
      /\ q.lock = lock
  BY <1>5, <1>6
<1> HIDE DEF q
<1>8. QED
  BY <1>1, <1>2, <1>3, <1>4, <1>7, Zenon DEF q

LEMMA EvaluatedBriefly ==
  ASSUME NEW r \in Rows, NEW passed \in BOOLEAN, NEW handsOff \in BOOLEAN, NEW available \in BOOLEAN
  PROVE  /\ Evaluated(r, passed, handsOff, available) \in Rows
         /\ Evaluated(r, passed, handsOff, available).state # "CANCELLED"
         /\ Evaluated(r, passed, handsOff, available).lock = r.lock + 1
<1>1. Evaluated(r, passed, handsOff, available).state = IF passed THEN "ACTIVE" ELSE "BLOCKED"
  BY EvaluatedRow
<1>2. Evaluated(r, passed, handsOff, available) \in Rows
  BY EvaluatedRow
<1>3. Evaluated(r, passed, handsOff, available).lock = r.lock + 1
  BY EvaluatedRow
<1>4. QED
  BY <1>1, <1>2, <1>3

LEMMA RevisedRow ==
  ASSUME NEW r \in Rows, NEW m \in Manifests, NEW pairs \in Requests, NEW lock \in Nat
  PROVE  LET q == [r EXCEPT !.state = "IN_REVIEW", !.manifest = m, !.revised = pairs, !.lock = lock]
         IN  /\ q \in Rows
             /\ q.state = "IN_REVIEW"
             /\ q.held = r.held
             /\ q.handed = r.handed
             /\ q.manifest = m
             /\ q.lock = lock
BY DEF Rows

LEMMA CancelledRow ==
  ASSUME NEW r \in Rows, NEW lock \in Nat
  PROVE  LET q == [r EXCEPT !.state = "CANCELLED", !.held = FALSE, !.lock = lock]
         IN  /\ q \in Rows
             /\ q.state = "CANCELLED"
             /\ ~q.held
             /\ q.handed = r.handed
             /\ q.manifest = r.manifest
             /\ q.lock = lock
BY DEF Rows

LEMMA RowFields ==
  ASSUME NEW r \in Rows
  PROVE  /\ r.lock \in Nat /\ r.lock + 1 \in Nat /\ r.lock + 1 > r.lock
         /\ r.held \in BOOLEAN /\ r.handed \in BOOLEAN
         /\ r.manifest \in Manifests
         /\ r.revised \in Requests
         /\ r.state \in {"IN_REVIEW", "BLOCKED", "ACTIVE", "CANCELLED"}
BY DEF Rows

LEMMA ExistsIsRow == TypeOK => \A j \in Jobs : Exists(j) <=> job[j] \in Rows
BY RowExists DEF TypeOK, Exists

LEMMA CleanSound ==
  ASSUME NEW t \in [revoked : BOOLEAN, expired : BOOLEAN], NEW r \in Rows, NEW c \in Component
  PROVE  /\ CleanJob(r) \in Rows
         /\ CleanComponent(c) \in Component
         /\ Sound(t, r, c) => Sound(t, CleanJob(r), CleanComponent(c))
         /\ CleanJob(r).lock >= r.lock
         /\ CleanJob(r).handed = r.handed
         /\ r.handed => CleanJob(r) = r
         /\ ~r.handed => CleanJob(r).state = "CANCELLED"
         /\ CleanComponent(c).revision = c.revision
<1>1. CleanJob(r) \in Rows
  BY CancelledRow, RowFields DEF CleanJob
<1>2. CleanComponent(c) \in Component
  BY DEF CleanComponent, Component, Revoked
<1>3. Sound(t, r, c) => Sound(t, CleanJob(r), CleanComponent(c))
  <2> SUFFICES ASSUME Sound(t, r, c)
               PROVE  Sound(t, CleanJob(r), CleanComponent(c))
    OBVIOUS
  <2> DEFINE d == CleanComponent(c)
  <2>1. /\ ~d.enabled
        /\ d.principal = "REVOKED"
        /\ d.revision = c.revision
        /\ d.access # "valid"
        /\ d.access = "none" <=> c.access = "none"
    BY DEF CleanComponent, Component, Revoked
  <2> HIDE DEF d
  <2>2. CASE r.handed
    <3>1. CleanJob(r) = r
      BY <2>2 DEF CleanJob
    <3>2. QED
      BY <2>1, <2>2, <3>1 DEF Sound, d
  <2>3. CASE ~r.handed
    <3> DEFINE s == CleanJob(r)
    <3>1. s.state = "CANCELLED" /\ ~s.held /\ ~s.handed /\ s.manifest = r.manifest
      BY <2>3 DEF CleanJob, Rows
    <3> HIDE DEF s
    <3>2. Sound(t, s, d)
      BY <2>1, <3>1 DEF Sound
    <3>3. QED
      BY <3>2 DEF s, d
  <2>4. QED
    BY <2>2, <2>3
<1>4. /\ CleanJob(r).lock >= r.lock
      /\ CleanJob(r).handed = r.handed
      /\ r.handed => CleanJob(r) = r
      /\ ~r.handed => CleanJob(r).state = "CANCELLED"
  BY DEF CleanJob, Rows
<1>5. CleanComponent(c).revision = c.revision
  BY DEF CleanComponent, Component
<1>6. QED
  BY <1>1, <1>2, <1>3, <1>4, <1>5

LEMMA NewSound ==
  ASSUME NEW t \in [revoked : BOOLEAN, expired : BOOLEAN], NEW key \in Keys, NEW m \in Manifests
  PROVE  /\ NewJob(key, m) \in Rows
         /\ NewComponent(m) \in Component
         /\ Sound(t, NewJob(key, m), NewComponent(m))
<1>1. NewJob(key, m) \in Rows
  BY DEF NewJob, Rows, Requests
<1>2. NewComponent(m) \in Component
  BY DEF NewComponent, Unborn, Component, RevisionOf
<1>3. Sound(t, NewJob(key, m), NewComponent(m))
  BY DEF NewJob, NewComponent, Unborn, Sound
<1>4. QED
  BY <1>1, <1>2, <1>3

LEMMA EvaluateSound ==
  ASSUME NEW t \in [revoked : BOOLEAN, expired : BOOLEAN], NEW r \in Rows, NEW c \in Component,
         NEW passed \in BOOLEAN, NEW available \in BOOLEAN, NEW handsOff \in BOOLEAN
  PROVE  /\ Judged(c, passed) \in Component
         /\ /\ available = (c.access = "none" \/ r.held)
            /\ handsOff = (passed /\ ~r.handed /\ available)
            /\ Sound(t, r, c)
            /\ r.state # "CANCELLED"
            /\ c.revision # None
            => Sound([t EXCEPT !.revoked = @ \/ handsOff],
                     Evaluated(r, passed, handsOff, available), Judged(c, passed))
<1> DEFINE r2 == Evaluated(r, passed, handsOff, available)
           c2 == Judged(c, passed)
           t2 == [t EXCEPT !.revoked = @ \/ handsOff]
<1>1. /\ r2.state = IF passed THEN "ACTIVE" ELSE "BLOCKED"
      /\ r2.held = (available /\ ~handsOff)
      /\ r2.handed = (r.handed \/ handsOff)
      /\ r2.manifest = r.manifest
  BY EvaluatedRow
<1>2. /\ c2 \in Component
      /\ c2.enabled = passed
      /\ c2.revision = c.revision
      /\ c2.access # "none"
  BY DEF Judged, Component
<1>3. t2.revoked = (t.revoked \/ handsOff)
  OBVIOUS
<1> HIDE DEF r2, c2, t2
<1>4. ASSUME available = (c.access = "none" \/ r.held), handsOff = (passed /\ ~r.handed /\ available),
             Sound(t, r, c), r.state # "CANCELLED", c.revision # None
      PROVE  Sound(t2, r2, c2)
  <2>1. r.manifest \notin Sources
    BY <1>4 DEF Sound, RevisionOf
  <2>2. (r.handed => ~available) /\ (~r.handed => available)
    BY <1>4 DEF Sound, Component
  <2>3. c2.revision = RevisionOf(r2.manifest)
    BY <1>1, <1>2, <1>4 DEF Sound
  <2>4. QED
    BY <1>1, <1>2, <1>3, <1>4, <2>1, <2>2, <2>3 DEF Sound
<1>5. QED
  BY <1>2, <1>4 DEF r2, c2, t2

LEMMA ReviseSound ==
  ASSUME NEW t \in [revoked : BOOLEAN, expired : BOOLEAN], NEW r \in Rows, NEW c \in Component,
         NEW key \in Keys, NEW m \in Manifests \ Sources,
         Sound(t, r, c), ~r.handed, r.state # "CANCELLED"
  PROVE  /\ Revised(r, key, m) \in Rows
         /\ Revised(r, key, m).lock = r.lock + 1
         /\ Reopened(c, m) \in Component
         /\ Sound(t, Revised(r, key, m), Reopened(c, m))
<1>1. Revised(r, key, m) \in Rows /\ Revised(r, key, m).lock = r.lock + 1
  <2>1. r.revised \cup {<<key, m>>} \in Requests
    BY RowFields DEF Requests
  <2>2. r.lock + 1 \in Nat /\ m \in Manifests
    BY RowFields
  <2>3. \A pairs \in Requests, lock \in Nat :
          LET q == [r EXCEPT !.state = "IN_REVIEW", !.manifest = m, !.revised = pairs, !.lock = lock]
          IN  q \in Rows /\ q.lock = lock
    BY <2>2 DEF Rows
  <2>4. QED
    BY <2>1, <2>2, <2>3 DEF Revised
<1>2. Reopened(c, m) \in Component
  BY DEF Reopened, Component
<1>3. Sound(t, Revised(r, key, m), Reopened(c, m))
  BY DEF Revised, Reopened, Rows, Component, Sound, RevisionOf
<1>4. QED
  BY <1>1, <1>2, <1>3

-----------------------------------------------------------------------------
(* The two shapes of step: a handler rewrites rows that exist and keeps     *)
(* them, or a job begins.                                                   *)
LEMMA RowsKept ==
  ASSUME IInv, TypeOK', token.revoked => token'.revoked,
         \A j \in Jobs : Exists(j)' <=> Exists(j),
         \A j \in Jobs : Exists(j) => Sound(token', job'[j], component'[j]),
         \A j \in Jobs : Exists(j) => /\ job'[j].state = "CANCELLED" \/ job[j].state # "CANCELLED"
                                      /\ job'[j].lock >= job[j].lock
                                      /\ job'[j].handed => job[j].handed \/ job'[j].lock > job[j].lock,
         \A k \in Callers : call'[k] = call[k] \/ call'[k] = Quiet
  PROVE  IInv'
<1>1. AllSound'
  BY DEF AllSound
<1>2. OneLive'
  BY DEF IInv, OneLive, Live
<1>3. Behind'
  <2> SUFFICES ASSUME NEW k \in Callers, call'[k] = call[k]
               PROVE  /\ call[k].op \in {"evaluate", "cancel", "revise"} => Exists(call[k].job)'
                      /\ call[k].op = "revise"
                           => /\ call[k].seen <= job'[call[k].job].lock
                              /\ job'[call[k].job].handed => call[k].seen < job'[call[k].job].lock
    BY DEF Behind, Quiet
  <2>1. CASE call[k].op \notin {"evaluate", "cancel", "revise"}
    BY <2>1
  <2>2. CASE call[k].op \in {"evaluate", "cancel", "revise"}
    <3> DEFINE j == call[k].job
    <3>1. j \in Jobs
      BY <2>2 DEF IInv, TypeOK, Calls, Quiet
    <3>2. Exists(j) /\ Exists(j)'
      BY <2>2, <3>1 DEF IInv, Behind
    <3>3. job[j].lock \in Nat /\ job'[j].lock \in Nat
      BY <3>1, <3>2, ExistsIsRow, RowFields DEF IInv, TypeOK, Exists
    <3>4. CASE call[k].op = "revise"
      <4>1. call[k].seen \in Nat
        BY <3>4 DEF IInv, TypeOK, Calls, Quiet
      <4>2. call[k].seen <= job[j].lock /\ (job[j].handed => call[k].seen < job[j].lock)
        BY <3>4 DEF IInv, Behind
      <4>3. /\ job'[j].lock >= job[j].lock
            /\ job'[j].handed => job[j].handed \/ job'[j].lock > job[j].lock
        BY <3>1, <3>2
      <4>4. QED
        BY <3>2, <3>3, <4>1, <4>2, <4>3
    <3>5. QED
      BY <2>2, <3>2, <3>4
  <2>3. QED
    BY <2>1, <2>2
<1>4. QED
  BY <1>1, <1>2, <1>3 DEF IInv

(* A clean-up of some of the jobs.                                          *)
LEMMA Cleaned ==
  ASSUME IInv, NEW S \in SUBSET Jobs, \A j \in S : Exists(j)
  PROVE  /\ CleanedJobs(S) \in [Jobs -> Rows \cup {Absent}]
         /\ CleanedComponents(S) \in [Jobs -> Component]
         /\ \A j \in Jobs : Exists(j) =>
              /\ CleanedJobs(S)[j] \in Rows
              /\ Sound(token, CleanedJobs(S)[j], CleanedComponents(S)[j])
              /\ CleanedJobs(S)[j].state = "CANCELLED" \/ job[j].state # "CANCELLED"
              /\ CleanedJobs(S)[j].lock >= job[j].lock
              /\ CleanedJobs(S)[j].handed = job[j].handed
         /\ \A j \in Jobs : ~Exists(j) => CleanedJobs(S)[j] = Absent
<1>1. \A j \in Jobs : Exists(j) => job[j] \in Rows
  BY ExistsIsRow DEF IInv
<1>2. token \in [revoked : BOOLEAN, expired : BOOLEAN] /\ component \in [Jobs -> Component]
  BY DEF IInv, TypeOK
<1>3. ASSUME NEW j \in Jobs, Exists(j)
      PROVE  /\ CleanedJobs(S)[j] \in Rows
             /\ CleanedComponents(S)[j] \in Component
             /\ Sound(token, CleanedJobs(S)[j], CleanedComponents(S)[j])
             /\ CleanedJobs(S)[j].state = "CANCELLED" \/ job[j].state # "CANCELLED"
             /\ CleanedJobs(S)[j].lock >= job[j].lock
             /\ CleanedJobs(S)[j].handed = job[j].handed
  <2>1. job[j] \in Rows /\ component[j] \in Component /\ Sound(token, job[j], component[j])
    BY <1>1, <1>2, <1>3 DEF IInv, AllSound
  <2>2. CASE j \in S
    <3>1. CleanedJobs(S)[j] = CleanJob(job[j]) /\ CleanedComponents(S)[j] = CleanComponent(component[j])
      BY <2>2 DEF CleanedJobs, CleanedComponents
    <3>2. job[j].state = "CANCELLED" => ~job[j].handed
      BY <2>1 DEF Sound
    <3>3. job[j].handed \in BOOLEAN
      BY <2>1, RowFields
    <3>4. QED
      BY <1>2, <2>1, <3>1, <3>2, <3>3, CleanSound
  <2>3. CASE j \notin S
    <3>1. CleanedJobs(S)[j] = job[j] /\ CleanedComponents(S)[j] = component[j]
      BY <2>3 DEF CleanedJobs, CleanedComponents
    <3>2. job[j].lock \in Nat
      BY <2>1, RowFields
    <3>3. QED
      BY <2>1, <3>1, <3>2
  <2>4. QED
    BY <2>2, <2>3
<1>4. ASSUME NEW j \in Jobs, ~Exists(j)
      PROVE  CleanedJobs(S)[j] = Absent /\ CleanedComponents(S)[j] = component[j]
  BY <1>4 DEF CleanedJobs, CleanedComponents, Exists
<1>5. CleanedJobs(S) \in [Jobs -> Rows \cup {Absent}]
  BY <1>3, <1>4 DEF CleanedJobs
<1>6. CleanedComponents(S) \in [Jobs -> Component]
  BY <1>2, <1>3, <1>4 DEF CleanedComponents
<1>7. QED
  BY <1>3, <1>4, <1>5, <1>6

-----------------------------------------------------------------------------
LEMMA Initial == Init => IInv
<1> SUFFICES ASSUME Init PROVE IInv
  OBVIOUS
<1>1. TypeOK
  <2>1. Unborn \in Component
    BY DEF Unborn, Component
  <2>2. QED
    BY <2>1 DEF Init, TypeOK, Calls
<1>2. AllSound /\ OneLive
  BY DEF Init, AllSound, OneLive, Live, Exists
<1>3. Behind
  BY DEF Init, Behind, Quiet
<1>4. QED
  BY <1>1, <1>2, <1>3 DEF IInv

(* What a step that leaves the rows alone has to show.                      *)
LEMMA NothingKept ==
  ASSUME IInv, UNCHANGED job, component' \in [Jobs -> Component],
         token' \in [revoked : BOOLEAN, expired : BOOLEAN], token.revoked => token'.revoked,
         \A j \in Jobs : Exists(j) => Sound(token', job[j], component'[j]),
         call' \in [Callers -> Calls],
         \A k \in Callers : call'[k] = call[k] \/ call'[k] = Quiet
  PROVE  IInv'
<1>1. TypeOK'
  BY DEF IInv, TypeOK
<1>2. \A j \in Jobs : Exists(j)' <=> Exists(j)
  BY DEF Exists
<1>3. \A j \in Jobs : Exists(j) => /\ job'[j].state = "CANCELLED" \/ job[j].state # "CANCELLED"
                                   /\ job'[j].lock >= job[j].lock
                                   /\ job'[j].handed => job[j].handed \/ job'[j].lock > job[j].lock
  <2> SUFFICES ASSUME NEW j \in Jobs, Exists(j) PROVE job[j].lock >= job[j].lock
    OBVIOUS
  <2>1. job[j].lock \in Nat
    BY ExistsIsRow, RowFields DEF IInv
  <2>2. QED
    BY <2>1
<1>4. QED
  BY <1>1, <1>2, <1>3, RowsKept

LEMMA DoneCalls ==
  ASSUME TypeOK, NEW k \in Callers, Done(k)
  PROVE  /\ call' \in [Callers -> Calls]
         /\ \A l \in Callers : call'[l] = call[l] \/ call'[l] = Quiet
BY DEF TypeOK, Done, Calls

LEMMA AuthenticateStep == ASSUME IInv, NEW k \in Callers, Authenticate(k) PROVE IInv'
<1>1. UNCHANGED <<token, job, component>>
  BY DEF Authenticate, Arrive
<1>2. PICK request \in Calls :
        /\ call' = [call EXCEPT ![k] = request]
        /\ request.op \in {"evaluate", "cancel", "revise"} => Exists(request.job)
        /\ request.op = "revise" => request.seen <= job[request.job].lock
        /\ ~token.revoked
  <2>1. CASE \E key \in Keys, m \in Manifests :
               Arrive(k, [op |-> "create", key |-> key, manifest |-> m])
    <3>1. PICK key \in Keys, m \in Manifests :
                 Arrive(k, [op |-> "create", key |-> key, manifest |-> m])
      BY <2>1
    <3>2. [op |-> "create", key |-> key, manifest |-> m] \in Calls
      BY DEF Calls
    <3>3. QED
      BY <3>1, <3>2 DEF Arrive, Usable
  <2>2. CASE \E j \in Jobs : Exists(j) /\ \E op \in {"evaluate", "cancel"} : Arrive(k, [op |-> op, job |-> j])
    <3>1. PICK j \in Jobs, op \in {"evaluate", "cancel"} : Exists(j) /\ Arrive(k, [op |-> op, job |-> j])
      BY <2>2
    <3>2. [op |-> op, job |-> j] \in Calls
      BY DEF Calls
    <3>3. QED
      BY <3>1, <3>2 DEF Arrive, Usable
  <2>3. CASE \E j \in Jobs : Exists(j) /\ \E key \in Keys, m \in Manifests \ Sources, seen \in 0..job[j].lock :
               Arrive(k, [op |-> "revise", job |-> j, key |-> key, manifest |-> m, seen |-> seen])
    <3>1. PICK j \in Jobs : Exists(j) /\ \E key \in Keys, m \in Manifests \ Sources, seen \in 0..job[j].lock :
            Arrive(k, [op |-> "revise", job |-> j, key |-> key, manifest |-> m, seen |-> seen])
      BY <2>3
    <3>2. PICK key \in Keys, m \in Manifests \ Sources, seen \in 0..job[j].lock :
            Arrive(k, [op |-> "revise", job |-> j, key |-> key, manifest |-> m, seen |-> seen])
      BY <3>1
    <3>3. job[j].lock \in Nat
      BY <3>1, ExistsIsRow, RowFields DEF IInv
    <3>4. seen \in Nat /\ seen <= job[j].lock
      BY <3>3
    <3>5. [op |-> "revise", job |-> j, key |-> key, manifest |-> m, seen |-> seen] \in Calls
      BY <3>4 DEF Calls
    <3>6. QED
      BY <3>1, <3>2, <3>4, <3>5 DEF Arrive, Usable
  <2>4. QED
    BY <2>1, <2>2, <2>3 DEF Authenticate
<1>3. TypeOK'
  BY <1>1, <1>2 DEF IInv, TypeOK
<1>4. AllSound' /\ OneLive'
  BY <1>1 DEF IInv, AllSound, OneLive, Live, Exists
<1>5. Behind'
  <2>1. request.op = "revise" => ~job[request.job].handed
    <3> SUFFICES ASSUME request.op = "revise" PROVE ~job[request.job].handed
      OBVIOUS
    <3>1. request.job \in Jobs
      BY DEF Calls, Quiet
    <3>2. QED
      BY <1>2, <3>1 DEF IInv, AllSound, Sound
  <2>2. call'[k] = request /\ \A l \in Callers : l # k => call'[l] = call[l]
    BY <1>2 DEF IInv, TypeOK
  <2>3. QED
    BY <1>1, <1>2, <2>1, <2>2 DEF IInv, Behind, Exists
<1>6. QED
  BY <1>3, <1>4, <1>5 DEF IInv

LEMMA EndStep == ASSUME IInv, NEW k \in Callers, End(k) PROVE IInv'
BY NothingKept, DoneCalls DEF IInv, TypeOK, AllSound, End

LEMMA TokenStep == ASSUME IInv, RevokeToken \/ Expire PROVE IInv'
<1>1. UNCHANGED <<job, component, call>>
  BY DEF RevokeToken, Expire
<1>2. token' \in [revoked : BOOLEAN, expired : BOOLEAN] /\ (token.revoked => token'.revoked)
  BY DEF IInv, TypeOK, RevokeToken, Expire
<1>3. \A j \in Jobs : Exists(j) => Sound(token', job[j], component[j])
  BY <1>2 DEF IInv, AllSound, Sound
<1>4. QED
  BY <1>1, <1>2, <1>3, NothingKept DEF IInv, TypeOK

LEMMA AdministerStep == ASSUME IInv, NEW j \in Jobs, Administer(j) PROVE IInv'
<1>1. UNCHANGED <<token, job, call>>
  BY DEF Administer, Quarantine, Restore, Retire, Deregister, Lifecycle, RevokeAccess
<1>2. component \in [Jobs -> Component]
  BY DEF IInv, TypeOK
<1>3. /\ component'[j] \in Component
      /\ component'[j].enabled => component[j].enabled
      /\ component'[j].revision = component[j].revision
      /\ component'[j].principal = "ACTIVE" => component[j].principal = "ACTIVE"
      /\ component'[j].access = "none" <=> component[j].access = "none"
      /\ component'[j].access = "valid" => component[j].access = "valid"
  <2>1. CASE RevokeAccess(j)
    BY <1>2, <2>1 DEF RevokeAccess, Component
  <2>2. ASSUME NEW lifecycle \in {"QUARANTINED", "APPROVED", "RETIRED", "DEREGISTERED"},
               NEW principal \in {"QUARANTINED", "SUSPENDED", "REVOKED"},
               Lifecycle(j, lifecycle, principal)
        PROVE  /\ component'[j] \in Component
               /\ component'[j].enabled => component[j].enabled
               /\ component'[j].revision = component[j].revision
               /\ component'[j].principal = "ACTIVE" => component[j].principal = "ACTIVE"
               /\ component'[j].access = "none" <=> component[j].access = "none"
               /\ component'[j].access = "valid" => component[j].access = "valid"
    <3>1. component[j] \in Component
      BY <1>2
    <3> DEFINE access == IF principal = "REVOKED" THEN Revoked(component[j].access)
                                                  ELSE component[j].access
    <3>2. component'[j] = [component[j] EXCEPT !.lifecycle = lifecycle, !.enabled = FALSE,
                                               !.principal = principal, !.access = access]
      BY <1>2, <2>2 DEF Lifecycle
    <3>3. /\ access \in {"none", "valid", "revoked"}
          /\ access = "none" <=> component[j].access = "none"
          /\ access = "valid" => component[j].access = "valid"
      BY <3>1 DEF Revoked, Component
    <3> HIDE DEF access
    <3>4. QED
      BY <2>2, <3>1, <3>2, <3>3 DEF Component
  <2>3. QED
    BY <2>1, <2>2 DEF Administer, Quarantine, Restore, Retire, Deregister
<1>4. \A i \in Jobs : i # j => component'[i] = component[i]
  BY <1>2 DEF Administer, Quarantine, Restore, Retire, Deregister, Lifecycle, RevokeAccess
<1>5. component' \in [Jobs -> Component]
  BY <1>2, <1>3 DEF Administer, Quarantine, Restore, Retire, Deregister, Lifecycle, RevokeAccess
<1>6. \A i \in Jobs : Exists(i) => Sound(token', job[i], component'[i])
  <2>1. Exists(j) => Sound(token', job[j], component'[j])
    BY <1>1, <1>3 DEF IInv, AllSound, Sound
  <2>2. QED
    BY <1>1, <1>4, <2>1 DEF IInv, AllSound
<1>7. QED
  BY <1>1, <1>5, <1>6, NothingKept DEF IInv, TypeOK

(* Any step that only cleans up.                                            *)
LEMMA CleanStep ==
  ASSUME IInv, NEW S \in SUBSET Jobs, \A j \in S : Exists(j),
         job' = CleanedJobs(S), component' = CleanedComponents(S), UNCHANGED token,
         call' \in [Callers -> Calls],
         \A k \in Callers : call'[k] = call[k] \/ call'[k] = Quiet
  PROVE  IInv'
<1>1. TypeOK'
  BY Cleaned DEF IInv, TypeOK
<1>2. \A j \in Jobs : Exists(j)' <=> Exists(j)
  BY Cleaned, RowExists DEF Exists
<1>3. \A j \in Jobs : Exists(j) => Sound(token', job'[j], component'[j])
  BY Cleaned
<1>4. \A j \in Jobs : Exists(j) => /\ job'[j].state = "CANCELLED" \/ job[j].state # "CANCELLED"
                                   /\ job'[j].lock >= job[j].lock
                                   /\ job'[j].handed => job[j].handed \/ job'[j].lock > job[j].lock
  BY Cleaned
<1>5. QED
  BY <1>1, <1>2, <1>3, <1>4, RowsKept

LEMMA CreateStartsStep ==
  ASSUME IInv, NEW k \in Callers, call[k].op = "create", NEW j \in Jobs, CreateStarts(k, j),
         Done(k), UNCHANGED token
  PROVE  IInv'
<1> DEFINE rows == CleanedJobs(Retryable)
           components == CleanedComponents(Retryable)
           new == NewJob(call[k].key, call[k].manifest)
           component_new == NewComponent(call[k].manifest)
<1>1. Retryable \in SUBSET Jobs /\ \A i \in Retryable : Exists(i)
  BY DEF Retryable
<1>2. /\ rows \in [Jobs -> Rows \cup {Absent}]
      /\ components \in [Jobs -> Component]
      /\ \A i \in Jobs : Exists(i) => /\ rows[i] \in Rows
                                      /\ Sound(token, rows[i], components[i])
                                      /\ rows[i].lock >= job[i].lock
                                      /\ rows[i].handed = job[i].handed
      /\ \A i \in Jobs : ~Exists(i) => rows[i] = Absent
  BY <1>1, Cleaned
<1>3. call[k].key \in Keys /\ call[k].manifest \in Manifests
  BY DEF IInv, TypeOK, Calls, Quiet
<1>4. new \in Rows /\ component_new \in Component /\ Sound(token, new, component_new)
  BY <1>3, NewSound DEF IInv, TypeOK
<1>5. \A i \in Jobs : Exists(i) => rows[i].state = "CANCELLED"
  <2> SUFFICES ASSUME NEW i \in Jobs, Exists(i) PROVE rows[i].state = "CANCELLED"
    OBVIOUS
  <2>1. ~job[i].handed /\ (job[i].state = "CANCELLED" \/ i \in Retryable)
    BY DEF CreateStarts, Successful, Bound
  <2>2. i \in Retryable
    BY <2>1 DEF Retryable
  <2>3. rows[i] = CleanJob(job[i])
    BY <2>2 DEF CleanedJobs
  <2>4. job[i] \in Rows
    BY ExistsIsRow DEF IInv
  <2>5. QED
    BY <2>1, <2>3, <2>4, CleanSound DEF IInv, TypeOK
<1>6. /\ job' = [rows EXCEPT ![j] = new]
      /\ component' = [components EXCEPT ![j] = component_new]
      /\ ~Exists(j)
  BY DEF CreateStarts, Exists
<1>7. call' \in [Callers -> Calls] /\ \A l \in Callers : call'[l] = call[l] \/ call'[l] = Quiet
  BY DoneCalls DEF IInv
<1> HIDE DEF rows, components, new, component_new
<1>8. TypeOK'
  BY <1>2, <1>4, <1>6, <1>7 DEF IInv, TypeOK
<1>9. /\ job'[j] = new /\ component'[j] = component_new
      /\ \A i \in Jobs : i # j => job'[i] = rows[i] /\ component'[i] = components[i]
  BY <1>2, <1>6
<1>10. \A i \in Jobs : Exists(i)' <=> i = j \/ Exists(i)
  BY <1>2, <1>4, <1>9, RowExists DEF Exists
<1>11. AllSound'
  BY <1>2, <1>4, <1>6, <1>9, <1>10 DEF AllSound
<1>12. OneLive'
  BY <1>5, <1>6, <1>9, <1>10 DEF OneLive, Live
<1>13. Behind'
  <2> SUFFICES ASSUME NEW l \in Callers, call'[l] = call[l]
               PROVE  /\ call[l].op \in {"evaluate", "cancel", "revise"} => Exists(call[l].job)'
                      /\ call[l].op = "revise"
                           => /\ call[l].seen <= job'[call[l].job].lock
                              /\ job'[call[l].job].handed => call[l].seen < job'[call[l].job].lock
    BY <1>7 DEF Behind, Quiet
  <2>1. call[l].op \in {"evaluate", "cancel", "revise"}
          => call[l].job \in Jobs /\ Exists(call[l].job) /\ call[l].job # j
    BY <1>6 DEF IInv, Behind, TypeOK, Calls, Quiet
  <2>2. ASSUME call[l].op = "revise"
        PROVE  /\ call[l].seen <= job'[call[l].job].lock
               /\ job'[call[l].job].handed => call[l].seen < job'[call[l].job].lock
    <3> DEFINE i == call[l].job
    <3>1. i \in Jobs /\ Exists(i) /\ job'[i] = rows[i]
      BY <1>9, <2>1, <2>2
    <3>2. job[i].lock \in Nat /\ rows[i].lock \in Nat
      BY <1>2, <3>1, ExistsIsRow, RowFields DEF IInv
    <3>3. call[l].seen \in Nat
      BY <2>2 DEF IInv, TypeOK, Calls, Quiet
    <3>4. call[l].seen <= job[i].lock /\ (job[i].handed => call[l].seen < job[i].lock)
      BY <2>2 DEF IInv, Behind
    <3>5. rows[i].lock >= job[i].lock /\ rows[i].handed = job[i].handed
      BY <1>2, <3>1
    <3>6. QED
      BY <3>1, <3>2, <3>3, <3>4, <3>5
  <2>3. QED
    BY <1>10, <2>1, <2>2
<1>14. QED
  BY <1>8, <1>11, <1>12, <1>13 DEF IInv

LEMMA CreateStep == ASSUME IInv, NEW k \in Callers, Create(k) PROVE IInv'
<1>1. CASE CreateFinds(k)
  <2>1. Retryable \in SUBSET Jobs /\ \A i \in Retryable : Exists(i)
    BY DEF Retryable
  <2>2. call' \in [Callers -> Calls] /\ \A l \in Callers : call'[l] = call[l] \/ call'[l] = Quiet
    BY DoneCalls DEF IInv, Create
  <2>3. QED
    BY <1>1, <2>1, <2>2, CleanStep DEF CreateFinds, Create
<1>2. CASE \E j \in Jobs : CreateStarts(k, j)
  BY <1>2, CreateStartsStep DEF Create
<1>3. QED
  BY <1>1, <1>2 DEF Create

LEMMA CancelStep == ASSUME IInv, NEW k \in Callers, NEW j \in Jobs, Cancel(k, j) PROVE IInv'
<1>1. Exists(j)
  BY DEF IInv, Behind, Cancel
<1>2. call' \in [Callers -> Calls] /\ \A l \in Callers : call'[l] = call[l] \/ call'[l] = Quiet
  BY DoneCalls DEF IInv, Cancel
<1>3. QED
  BY <1>1, <1>2, CleanStep DEF Cancel

LEMMA ExpiredStep == ASSUME IInv, CleanupExpired PROVE IInv'
<1>1. Overdue \in SUBSET Jobs /\ \A j \in Overdue : Exists(j)
  BY DEF Overdue
<1>2. QED
  BY <1>1, CleanStep DEF CleanupExpired, IInv, TypeOK

(* A handler that rewrites the row of one job.                              *)
LEMMA OneRowStep ==
  ASSUME IInv, NEW j \in Jobs, Exists(j), NEW r \in Rows, NEW c \in Component,
         job' = [job EXCEPT ![j] = r], component' = [component EXCEPT ![j] = c],
         token' \in [revoked : BOOLEAN, expired : BOOLEAN], token.revoked => token'.revoked,
         Sound(token', r, c),
         r.state = "CANCELLED" \/ job[j].state # "CANCELLED",
         r.lock > job[j].lock,
         NEW k \in Callers, Done(k)
  PROVE  IInv'
<1>1. call' \in [Callers -> Calls] /\ \A l \in Callers : call'[l] = call[l] \/ call'[l] = Quiet
  BY DoneCalls DEF IInv
<1>2. TypeOK'
  BY <1>1 DEF IInv, TypeOK
<1>3. /\ job'[j] = r /\ component'[j] = c
      /\ \A i \in Jobs : i # j => job'[i] = job[i] /\ component'[i] = component[i]
  BY DEF IInv, TypeOK
<1>4. \A i \in Jobs : Exists(i)' <=> Exists(i)
  BY <1>3, RowExists DEF Exists
<1>5. \A i \in Jobs : Exists(i) => Sound(token', job'[i], component'[i])
  BY <1>3 DEF IInv, AllSound, Sound
<1>6. \A i \in Jobs : Exists(i) => /\ job'[i].state = "CANCELLED" \/ job[i].state # "CANCELLED"
                                   /\ job'[i].lock >= job[i].lock
                                   /\ job'[i].handed => job[i].handed \/ job'[i].lock > job[i].lock
  <2> SUFFICES ASSUME NEW i \in Jobs, Exists(i)
               PROVE  /\ job'[i].state = "CANCELLED" \/ job[i].state # "CANCELLED"
                      /\ job'[i].lock >= job[i].lock
                      /\ job'[i].handed => job[i].handed \/ job'[i].lock > job[i].lock
    OBVIOUS
  <2>1. job[i].lock \in Nat /\ r.lock \in Nat
    BY ExistsIsRow, RowFields DEF IInv
  <2>2. QED
    BY <1>3, <2>1
<1>7. QED
  BY <1>1, <1>2, <1>4, <1>5, <1>6, RowsKept

LEMMA EvaluateStep ==
  ASSUME IInv, NEW k \in Callers, NEW j \in Jobs, NEW passed \in BOOLEAN, Evaluate(k, j, passed)
  PROVE  IInv'
<1>1. Exists(j)
  BY DEF IInv, Behind, Evaluate
<1>2. /\ job[j] \in Rows /\ component[j] \in Component
      /\ token \in [revoked : BOOLEAN, expired : BOOLEAN]
      /\ Sound(token, job[j], component[j])
  BY <1>1, ExistsIsRow DEF IInv, AllSound, TypeOK
<1>3. job[j].held \in BOOLEAN /\ job[j].handed \in BOOLEAN
  BY <1>2, RowFields
<1>4. PICK available \in BOOLEAN : available = (component[j].access = "none" \/ job[j].held)
  BY <1>3
<1>5. PICK handsOff \in BOOLEAN : handsOff = (passed /\ ~job[j].handed /\ available)
  BY <1>3
<1>6. available = Available(j)
  BY <1>4 DEF Available
<1>7. /\ job' = [job EXCEPT ![j] = Evaluated(job[j], passed, handsOff, available)]
      /\ token' = [token EXCEPT !.revoked = @ \/ handsOff]
  BY <1>5, <1>6, Zenon DEF Evaluate
<1>8. /\ job[j].state # "CANCELLED" /\ component[j].revision # None
      /\ component' = [component EXCEPT ![j] = Judged(component[j], passed)]
      /\ Done(k)
  BY DEF Evaluate, Evaluable
<1> DEFINE r2 == Evaluated(job[j], passed, handsOff, available)
           c2 == Judged(component[j], passed)
<1>9. r2 \in Rows /\ r2.state # "CANCELLED" /\ r2.lock = job[j].lock + 1
  <2>1. available \in BOOLEAN /\ handsOff \in BOOLEAN
    BY <1>4, <1>5
  <2>2. QED
    BY <1>2, <2>1, EvaluatedBriefly
<1>10. c2 \in Component /\ Sound(token', r2, c2)
  BY <1>2, <1>4, <1>5, <1>7, <1>8, EvaluateSound
<1>11. r2.lock > job[j].lock
  BY <1>2, <1>9, RowFields
<1>12. token' \in [revoked : BOOLEAN, expired : BOOLEAN] /\ (token.revoked => token'.revoked)
  BY <1>2, <1>7
<1> HIDE DEF r2, c2
<1>13. job' = [job EXCEPT ![j] = r2] /\ component' = [component EXCEPT ![j] = c2]
  BY <1>7, <1>8 DEF r2, c2
<1>14. QED
  BY <1>1, <1>8, <1>9, <1>10, <1>11, <1>12, <1>13, OneRowStep

LEMMA ReviseStep == ASSUME IInv, NEW k \in Callers, NEW j \in Jobs, Revise(k, j) PROVE IInv'
<1>1. Exists(j) /\ (job[j].handed => call[k].seen < job[j].lock)
  BY DEF IInv, Behind, Revise
<1>2. /\ job[j] \in Rows /\ component[j] \in Component
      /\ token \in [revoked : BOOLEAN, expired : BOOLEAN]
      /\ Sound(token, job[j], component[j])
  BY <1>1, ExistsIsRow DEF IInv, AllSound, TypeOK
<1>3. call[k].key \in Keys /\ call[k].manifest \in Manifests \ Sources /\ call[k].seen \in Nat
  BY DEF Revise, IInv, TypeOK, Calls, Quiet
<1>4. ~job[j].handed
  BY <1>1, <1>2, <1>3, RowFields DEF Revise, Current
<1> DEFINE r2 == Revised(job[j], call[k].key, call[k].manifest)
           c2 == Reopened(component[j], call[k].manifest)
<1>5. /\ r2 \in Rows /\ r2.lock = job[j].lock + 1
      /\ c2 \in Component /\ Sound(token, r2, c2)
  BY <1>2, <1>3, <1>4, ReviseSound DEF Revise
<1>6. r2.lock > job[j].lock
  BY <1>2, <1>5, RowFields
<1>7. job[j].state # "CANCELLED" /\ Done(k) /\ UNCHANGED token
  BY DEF Revise
<1>8. job' = [job EXCEPT ![j] = r2] /\ component' = [component EXCEPT ![j] = c2]
  BY DEF Revise
<1> HIDE DEF r2, c2
<1>9. QED
  BY <1>1, <1>2, <1>5, <1>6, <1>7, <1>8, OneRowStep

-----------------------------------------------------------------------------
(* The invariant holds in every reachable state.                            *)
LEMMA Preserved == IInv /\ [Next]_vars => IInv'
<1> SUFFICES ASSUME IInv, [Next]_vars PROVE IInv'
  OBVIOUS
<1>1. CASE UNCHANGED vars
  BY <1>1, NothingKept DEF vars, IInv, TypeOK, AllSound
<1>2. ASSUME NEW k \in Callers, Request(k) PROVE IInv'
  BY <1>2, AuthenticateStep, EndStep, CreateStep, EvaluateStep, ReviseStep, CancelStep DEF Request
<1>3. CASE RevokeToken \/ Expire \/ CleanupExpired
  BY <1>3, TokenStep, ExpiredStep
<1>4. ASSUME NEW j \in Jobs, Administer(j) PROVE IInv'
  BY <1>4, AdministerStep
<1>5. QED
  BY <1>1, <1>2, <1>3, <1>4 DEF Next

(* In every reachable state the rows are as the tables allow, and the rows  *)
(* of a job, its component and the token agree.                             *)
THEOREM Invariance == Spec => []IInv
BY Initial, Preserved, PTL DEF Spec

(* Token, jobs, components and requests keep their types.                  *)
THEOREM TypeCorrect == Spec => []TypeOK
<1>1. IInv => TypeOK
  BY DEF IInv
<1>2. QED
  BY <1>1, Invariance, PTL

(* An integration token yields at most one access token: only one of its    *)
(* jobs is ever not cancelled, and a job that handed off is not cancelled.  *)
THEOREM HandsOffOnce == Spec => []OneHandOff
<1>1. IInv => OneHandOff
  BY DEF IInv, OneHandOff, OneLive, Live, Successful, AllSound, Sound
<1>2. QED
  BY <1>1, Invariance, PTL

(* Whatever is in operation has been handed off, as it was evaluated.       *)
THEOREM ActiveMeansHandedOff == Spec => []ActiveIsHandedOff
<1>1. IInv => ActiveIsHandedOff
  BY DEF IInv, ActiveIsHandedOff, AllSound, Sound, RevisionOf
<1>2. QED
  BY <1>1, Invariance, PTL

(* An issued access token is recoverable until its hand-off or the end of   *)
(* its job, and not longer.                                                 *)
THEOREM HeldMeansPending == Spec => []HeldUntilHandOff
<1>1. IInv => HeldUntilHandOff
  BY DEF IInv, HeldUntilHandOff, AllSound, Sound
<1>2. QED
  BY <1>1, Invariance, PTL

(* The component of a cancelled job is out of use for good.                 *)
THEOREM CancelledForGood == Spec => []CancelledIsUnusable
<1>1. IInv => CancelledIsUnusable
  BY DEF IInv, CancelledIsUnusable, AllSound, Sound
<1>2. QED
  BY <1>1, Invariance, PTL

(* A clean-up leaves the revision alone, and the job if it handed off.      *)
LEMMA CleanKeeps ==
  ASSUME IInv, NEW S \in SUBSET Jobs, NEW j \in Jobs, Successful(j)
  PROVE  CleanedJobs(S)[j] = job[j] /\ CleanedComponents(S)[j].revision = component[j].revision
<1>1. job[j] \in Rows /\ component[j] \in Component
  BY ExistsIsRow DEF IInv, TypeOK, Successful
<1>2. CleanJob(job[j]) = job[j] /\ CleanComponent(component[j]).revision = component[j].revision
  BY <1>1, CleanSound DEF Successful, IInv, TypeOK
<1>3. QED
  BY <1>1, <1>2 DEF CleanedJobs, CleanedComponents

LEMMA RequestKeeps ==
  ASSUME IInv, NEW k \in Callers, Request(k), NEW j \in Jobs, Successful(j)
  PROVE  Unrevised(j)
<1>1. job[j] \in Rows /\ component[j] \in Component
  BY ExistsIsRow DEF IInv, TypeOK, Successful
<1>2. CASE Authenticate(k) \/ End(k)
  BY <1>2 DEF Authenticate, Arrive, End, Unrevised
<1>3. CASE Create(k)
  <2>1. Retryable \in SUBSET Jobs
    BY DEF Retryable
  <2>2. CASE CreateFinds(k)
    BY <2>1, <2>2, CleanKeeps DEF CreateFinds, Unrevised
  <2>3. CASE \E i \in Jobs : CreateStarts(k, i)
    BY <2>3, <1>1, <2>1, CleanKeeps DEF CreateStarts, Successful, Exists, Unrevised
  <2>4. QED
    BY <1>3, <2>2, <2>3 DEF Create
<1>4. ASSUME NEW i \in Jobs, NEW passed \in BOOLEAN, Evaluate(k, i, passed)
      PROVE  Unrevised(j)
  <2>1. CASE i # j
    BY <1>4, <2>1 DEF Evaluate, IInv, TypeOK, Unrevised
  <2>2. CASE i = j
    <3> DEFINE handsOff == passed /\ ~job[j].handed /\ Available(j)
    <3>1. /\ job'[j] = Evaluated(job[j], passed, handsOff, Available(j))
          /\ component'[j] = Judged(component[j], passed)
      BY <1>4, <2>2 DEF Evaluate, IInv, TypeOK
    <3> HIDE DEF handsOff
    <3>2. /\ Evaluated(job[j], passed, handsOff, Available(j)).manifest = job[j].manifest
          /\ Evaluated(job[j], passed, handsOff, Available(j)).revised = job[j].revised
      BY <1>1 DEF Evaluated, Rows
    <3>3. Judged(component[j], passed).revision = component[j].revision
      BY <1>1 DEF Judged, Component
    <3>4. QED
      BY <3>1, <3>2, <3>3 DEF Unrevised
  <2>3. QED
    BY <2>1, <2>2
<1>5. ASSUME NEW i \in Jobs, Revise(k, i)
      PROVE  Unrevised(j)
  <2>1. i # j
    <3> SUFFICES ASSUME i = j PROVE FALSE
      OBVIOUS
    <3>1. call[k].seen < job[j].lock /\ job[j].lock = call[k].seen
      BY <1>5 DEF Revise, Current, IInv, Behind, Successful
    <3>2. job[j].lock \in Nat
      BY <1>1, RowFields
    <3>3. QED
      BY <3>1, <3>2
  <2>2. QED
    BY <1>5, <2>1 DEF Revise, IInv, TypeOK, Unrevised
<1>6. ASSUME NEW i \in Jobs, Cancel(k, i)
      PROVE  Unrevised(j)
  BY <1>6, CleanKeeps DEF Cancel, Unrevised
<1>7. QED
  BY <1>2, <1>3, <1>4, <1>5, <1>6 DEF Request

(* Once handed off, a job's manifest and its component's revision are never *)
(* replaced and no revision is accepted: a revision request that is still on its way names an older     *)
(* lock version, and the consumed token admits no other.                    *)
THEOREM NeverReplaced == Spec => HandedOffIsFinal
<1>1. IInv /\ [Next]_vars
        => [\A j \in Jobs : Successful(j) => Unrevised(j)]_vars
  <2> SUFFICES ASSUME IInv, Next, NEW j \in Jobs, Successful(j)
               PROVE  Unrevised(j)
    OBVIOUS
  <2>1. job[j] \in Rows /\ component \in [Jobs -> Component]
    BY ExistsIsRow DEF IInv, TypeOK, Successful
  <2>2. CASE \E k \in Callers : Request(k)
    BY <2>2, RequestKeeps
  <2>3. CASE RevokeToken \/ Expire
    BY <2>3 DEF RevokeToken, Expire, Unrevised
  <2>4. CASE CleanupExpired
    <3>1. Overdue \in SUBSET Jobs
      BY DEF Overdue
    <3>2. QED
      BY <2>4, <3>1, CleanKeeps DEF CleanupExpired, Unrevised
  <2>5. ASSUME NEW i \in Jobs, Administer(i)
        PROVE  job' = job /\ component'[j].revision = component[j].revision
    BY <2>1, <2>5 DEF Administer, Quarantine, Restore, Retire, Deregister, Lifecycle, RevokeAccess, Component
  <2>6. QED
    BY <2>2, <2>3, <2>4, <2>5 DEF Next, Unrevised
<1>2. QED
  BY <1>1, Invariance, PTL DEF Spec, HandedOffIsFinal

=============================================================================
