--------------------- MODULE ComponentAuditStream_proofs ---------------------
(* Proofs about ComponentAuditStream, for any number of sequence numbers,   *)
(* contents, revisions and requests in flight.                              *)
EXTENDS ComponentAuditStream, SequenceTheorems, TLAPS

(* A hash is a hash, and equal hashes over one predecessor have one content. *)
LEMMA HashIs ==
  ASSUME NEW p \in Hashes, NEW n \in Numbers, NEW c \in Contents, NEW r \in Revisions
  PROVE  HashOf(p, n, c, r) \in Hashes
<1>1. [number |-> n, content |-> c, revision |-> r] \in Links
  BY DEF Links
<1> QED
  BY <1>1 DEF HashOf, Hashes

LEMMA HashTells ==
  ASSUME NEW p \in Hashes, NEW n \in Numbers, NEW c \in Contents, NEW d \in Contents,
         NEW r \in Revisions, HashOf(p, n, c, r) = HashOf(p, n, d, r)
  PROVE  c = d
<1> DEFINE x == [number |-> n, content |-> c, revision |-> r]
           y == [number |-> n, content |-> d, revision |-> r]
<1>1. x \in Links /\ y \in Links
  BY DEF Links
<1>2. p \in Seq(Links)
  BY DEF Hashes
<1>3. x.content = c /\ y.content = d
  OBVIOUS
<1>4. Append(p, x) = Append(p, y)
  BY DEF HashOf
<1> HIDE DEF x, y
<1>5. Append(p, x)[Len(p) + 1] = x /\ Append(p, y)[Len(p) + 1] = y
  BY <1>1, <1>2
<1> QED
  BY <1>3, <1>4, <1>5

(* A stored row is an event once it is below the expected number.           *)
LEMMA StoredEvent ==
  ASSUME TypeOK, ChainIntact, NEW n \in Numbers, n < expected
  PROVE  stored[n] \in Events
BY DEF TypeOK, ChainIntact

LEMMA Initial == Init => IInv
<1> SUFFICES ASSUME Init PROVE IInv
  OBVIOUS
<1>1. LastSequence \in Nat /\ LastSequence >= 1
  BY StreamAssumption
<1>2. TypeOK
  <2>1. <<>> \in Hashes
    BY DEF Hashes
  <2>2. NoGap \in [from : 0 .. LastSequence - 1, to : 0 .. LastSequence - 1]
    BY <1>1 DEF NoGap
  <2>3. call \in [Callers -> Calls]
    BY DEF Init, Calls
  <2>4. stored \in [Numbers -> Events \cup {NoEvent}]
    BY DEF Init
  <2>5. expected \in 1 .. LastSequence + 1 /\ highestReceived \in 0 .. LastSequence
    BY <1>1 DEF Init
  <2> QED
    BY <2>1, <2>2, <2>3, <2>4, <2>5 DEF Init, TypeOK
<1>3. ChainIntact
  BY <1>1 DEF Init, ChainIntact, Numbers
<1>4. NoFalseConflict
  BY DEF Init, NoFalseConflict
<1>5. GapReported
  BY DEF Init, GapReported
<1>6. OperationBehindEvent
  BY DEF Init, OperationBehindEvent
<1>7. AcceptedIsStored /\ CallsRecorded
  BY DEF Init, AcceptedIsStored, CallsRecorded, Quiet
<1> QED
  BY <1>2, <1>3, <1>4, <1>5, <1>6, <1>7 DEF IInv

-----------------------------------------------------------------------------
(* A step that leaves the stream alone: the request of a caller moves on to *)
(* something that is recorded, or stored, if it says so.                    *)
LEMMA StreamKept ==
  ASSUME IInv, UNCHANGED stream,
         operations' \subseteq Numbers \X Contents, operations \subseteq operations',
         receipts' \subseteq Numbers \X Contents,
         revision' \in Revisions, handedOff' \in BOOLEAN, admitted' \in BOOLEAN,
         call' \in [Callers -> Calls],
         \A k \in Callers : \/ call'[k] = call[k]
                            \/ call'[k].at \notin {"recorded", "accepted"}
                            \/ call'[k].at = "recorded" /\ Pair(k)' \in operations'
                            \/ /\ call'[k].at = "accepted" /\ call'[k].number < expected
                               /\ stored[call'[k].number].content = call'[k].content
  PROVE  IInv'
<1>0. /\ expected' = expected /\ highestReceived' = highestReceived /\ gap' = gap
      /\ integrity' = integrity /\ currentHash' = currentHash /\ stored' = stored
  BY DEF stream
<1>1. TypeOK'
  BY <1>0 DEF IInv, TypeOK
<1>2. ChainIntact'
  BY <1>0 DEF IInv, ChainIntact, Predecessor
<1>3. NoFalseConflict'
  BY <1>0 DEF IInv, NoFalseConflict
<1>4. GapReported'
  BY <1>0 DEF IInv, GapReported
<1>5. OperationBehindEvent'
  BY <1>0 DEF IInv, OperationBehindEvent
<1>6. AcceptedIsStored'
  BY <1>0 DEF IInv, AcceptedIsStored
<1>7. CallsRecorded'
  BY <1>0 DEF IInv, CallsRecorded, Pair
<1> QED
  BY <1>1, <1>2, <1>3, <1>4, <1>5, <1>6, <1>7 DEF IInv

(* A call that is not quiet names a number and a content.                   *)
LEMMA CallNames ==
  ASSUME TypeOK, NEW k \in Callers, call[k].at \in {"authorized", "recorded", "accepted"}
  PROVE  /\ call[k].number \in Numbers
         /\ call[k].content \in Contents
         /\ call[k] = [at |-> call[k].at, number |-> call[k].number, content |-> call[k].content]
BY DEF TypeOK, Calls, Quiet

(* The calls after one of them has come to an end or moved to step "at".    *)
LEMMA ReturnIs ==
  ASSUME TypeOK, NEW k \in Callers, Return(k)
  PROVE  /\ call' \in [Callers -> Calls]
         /\ \A j \in Callers : call'[j] = call[j] \/ call'[j].at = "quiet"
BY DEF TypeOK, Return, Calls, Quiet

LEMMA MovesIs ==
  ASSUME TypeOK, NEW k \in Callers, call[k].at \in {"authorized", "recorded", "accepted"},
         NEW at \in {"recorded", "accepted"}, call' = [call EXCEPT ![k].at = at]
  PROVE  /\ call' \in [Callers -> Calls]
         /\ call'[k] = [at |-> at, number |-> call[k].number, content |-> call[k].content]
         /\ \A j \in Callers \ {k} : call'[j] = call[j]
<1>1. call[k] = [at |-> call[k].at, number |-> call[k].number, content |-> call[k].content]
  BY CallNames
<1>2. call[k].number \in Numbers /\ call[k].content \in Contents
  BY CallNames
<1>3. call \in [Callers -> Calls]
  BY DEF TypeOK
<1>4. call'[k] = [call[k] EXCEPT !.at = at]
  BY <1>3
<1>5. call'[k] = [at |-> at, number |-> call[k].number, content |-> call[k].content]
  BY <1>1, <1>4
<1>6. call'[k] \in Calls
  BY <1>2, <1>5 DEF Calls
<1>7. \A j \in Callers \ {k} : call'[j] = call[j]
  BY <1>3
<1>8. call' \in [Callers -> Calls]
  BY <1>3, <1>6, <1>7
<1> QED
  BY <1>5, <1>7, <1>8

-----------------------------------------------------------------------------
(* One lemma per outcome of ingestComponentAuditEvent.                      *)
LEMMA DuplicateStep ==
  ASSUME IInv, NEW k \in Callers, Duplicate(k)
  PROVE  IInv'
<1> DEFINE n == call[k].number
           c == call[k].content
<1>1. TypeOK /\ ChainIntact
  BY DEF IInv
<1>2. call[k].at = "recorded" /\ n < expected
  BY DEF Duplicate, Known, AtStream
<1>3. n \in Numbers /\ c \in Contents
  BY <1>1, <1>2, CallNames
<1>4. stored[n] \in Events
  BY <1>1, <1>2, <1>3, StoredEvent
<1>5. /\ call' \in [Callers -> Calls]
      /\ call'[k] = [at |-> "accepted", number |-> n, content |-> c]
      /\ \A j \in Callers \ {k} : call'[j] = call[j]
  BY <1>1, <1>2, MovesIs DEF Duplicate, Accepted
<1>6. stored[n].content = c
  <2>1. stored[n].hash = HashOf(stored[n].previous, n, stored[n].content, stored[n].revision)
    BY <1>1, <1>2, <1>3 DEF ChainIntact
  <2>2. stored[n].hash = HashOf(stored[n].previous, n, c, stored[n].revision)
    BY DEF Duplicate, Repeats, SameEvent
  <2>3. /\ stored[n].previous \in Hashes /\ stored[n].content \in Contents
        /\ stored[n].revision \in Revisions
    BY <1>4 DEF Events
  <2> QED
    BY <1>3, <2>1, <2>2, <2>3, HashTells
<1>7. UNCHANGED <<stream, operations, receipts, component>>
  BY DEF Duplicate
<1>8. call'[k].at = "accepted" /\ call'[k].number = n /\ call'[k].content = c
  BY <1>5
<1>9. /\ UNCHANGED <<stored, expected, operations, receipts, revision, handedOff, admitted>>
      /\ UNCHANGED stream
  BY <1>7 DEF stream, component
<1> HIDE DEF n, c
<1> QED
  BY <1>1, <1>2, <1>5, <1>6, <1>8, <1>9, StreamKept DEF TypeOK

LEMMA ConflictStep ==
  ASSUME IInv, NEW k \in Callers, Conflict(k)
  PROVE  IInv'
<1> DEFINE n == call[k].number
           c == call[k].content
<1>1. TypeOK /\ ChainIntact
  BY DEF IInv
<1>2. call[k].at = "recorded" /\ n < expected
  BY DEF Conflict, Known, AtStream
<1>3. n \in Numbers /\ c \in Contents
  BY <1>1, <1>2, CallNames
<1>4. /\ expected' = expected /\ highestReceived' = highestReceived /\ gap' = gap
      /\ currentHash' = currentHash /\ stored' = stored /\ operations' = operations
      /\ receipts' = receipts /\ revision' = revision /\ handedOff' = handedOff
      /\ integrity' = "CONFLICT" /\ admitted' = FALSE
  BY DEF Conflict
<1>5. /\ call' \in [Callers -> Calls]
      /\ \A j \in Callers : call'[j] = call[j] \/ call'[j].at = "quiet"
  BY <1>1, ReturnIs DEF Conflict
<1>6. TypeOK'
  BY <1>1, <1>4, <1>5 DEF TypeOK
<1>7. ChainIntact'
  BY <1>1, <1>4 DEF ChainIntact, Predecessor
<1>8. NoFalseConflict'
  <2>1. stored[n] # NoEvent /\ stored[n] \in Events
    BY <1>1, <1>2, <1>3, StoredEvent DEF ChainIntact
  <2>2. <<n, stored[n].content>> \in operations
    BY <1>3, <2>1 DEF IInv, OperationBehindEvent
  <2>3. <<n, c>> \in operations
    BY <1>2 DEF IInv, CallsRecorded, Pair
  <2>4. stored[n].content # c
    <3>1. stored[n].hash = HashOf(stored[n].previous, n, stored[n].content, stored[n].revision)
      BY <1>1, <1>2, <1>3 DEF ChainIntact
    <3>2. ~(HashOf(stored[n].previous, n, c, stored[n].revision) = stored[n].hash)
      BY DEF Conflict, Repeats, SameEvent
    <3> QED
      BY <3>1, <3>2
  <2>5. stored[n].content \in Contents
    BY <2>1 DEF Events
  <2> HIDE DEF n, c
  <2> QED
    BY <1>3, <1>4, <2>2, <2>3, <2>4, <2>5 DEF NoFalseConflict
<1>9. GapReported' /\ OperationBehindEvent'
  BY <1>4 DEF IInv, GapReported, OperationBehindEvent
<1>10. AcceptedIsStored' /\ CallsRecorded'
  BY <1>4, <1>5 DEF IInv, AcceptedIsStored, CallsRecorded, Pair
<1> QED
  BY <1>6, <1>7, <1>8, <1>9, <1>10 DEF IInv

LEMMA GapStep ==
  ASSUME IInv, NEW k \in Callers, Gap(k)
  PROVE  IInv'
<1> DEFINE n == call[k].number
<1>0. LastSequence \in Nat /\ LastSequence >= 1
  BY StreamAssumption
<1>1. TypeOK /\ ChainIntact
  BY DEF IInv
<1>2. call[k].at = "recorded" /\ n > expected
  BY DEF Gap, AtStream
<1>3. n \in Numbers
  BY <1>1, <1>2, CallNames
<1>4. /\ expected' = expected /\ integrity' = integrity /\ currentHash' = currentHash
      /\ stored' = stored /\ operations' = operations /\ receipts' = receipts
      /\ revision' = revision /\ handedOff' = handedOff /\ admitted' = admitted
      /\ gap' = [from |-> expected, to |-> n - 1] /\ highestReceived' = Higher(n)
  BY DEF Gap, Missing, component
<1>5. /\ call' \in [Callers -> Calls]
      /\ \A j \in Callers : call'[j] = call[j] \/ call'[j].at = "quiet"
  BY <1>1, ReturnIs DEF Gap
<1>6. /\ expected \in 1 .. LastSequence + 1 /\ highestReceived \in 0 .. LastSequence
      /\ n \in 1 .. LastSequence
  BY <1>1, <1>3 DEF TypeOK, Numbers
<1>7. /\ highestReceived' \in 0 .. LastSequence /\ highestReceived' >= n
      /\ highestReceived' >= highestReceived
  BY <1>0, <1>4, <1>6 DEF Higher
<1>8. gap' \in [from : 0 .. LastSequence - 1, to : 0 .. LastSequence - 1]
  BY <1>0, <1>2, <1>4, <1>6
<1>9. gap'.from = expected /\ gap'.to = n - 1
  BY <1>4
<1> HIDE DEF n
<1>10. TypeOK'
  BY <1>1, <1>4, <1>5, <1>7, <1>8 DEF TypeOK
<1>11. ChainIntact'
  BY <1>1, <1>4 DEF ChainIntact, Predecessor
<1>12. NoFalseConflict' /\ OperationBehindEvent'
  BY <1>4 DEF IInv, NoFalseConflict, OperationBehindEvent
<1>13. GapReported'
  BY <1>0, <1>2, <1>4, <1>6, <1>7, <1>9 DEF IInv, GapReported
<1>14. AcceptedIsStored' /\ CallsRecorded'
  BY <1>4, <1>5 DEF IInv, AcceptedIsStored, CallsRecorded, Pair
<1> QED
  BY <1>10, <1>11, <1>12, <1>13, <1>14 DEF IInv

(* The one step that writes an event, in terms of the event.                *)
LEMMA StoreIs ==
  ASSUME TypeOK, NEW k \in Callers, Store(k)
  PROVE  \E n \in Numbers, c \in Contents, e \in Events :
           /\ n = expected /\ call[k].at = "recorded" /\ Pair(k) = <<n, c>>
           /\ e.content = c /\ e.previous = currentHash
           /\ e.hash = HashOf(currentHash, n, c, e.revision)
           /\ stored' = [stored EXCEPT ![n] = e]
           /\ currentHash' = e.hash
           /\ expected' = n + 1
           /\ call' \in [Callers -> Calls]
           /\ call'[k] = [at |-> "accepted", number |-> n, content |-> c]
           /\ \A j \in Callers \ {k} : call'[j] = call[j]
<1> DEFINE n == call[k].number
           c == call[k].content
           h == HashOf(currentHash, n, c, revision)
           e == [content |-> c, revision |-> revision, previous |-> currentHash, hash |-> h]
<1>1. call[k].at = "recorded" /\ n = expected
  BY DEF Store, AtStream
<1>2. n \in Numbers /\ c \in Contents
  BY <1>1, CallNames
<1>3. currentHash \in Hashes /\ revision \in Revisions
  BY DEF TypeOK
<1>4. h \in Hashes
  BY <1>2, <1>3, HashIs
<1>5. stored' = [stored EXCEPT ![n] = e] /\ expected' = n + 1 /\ currentHash' = e.hash
  BY DEF Store, HashAfter
<1>6. /\ call' \in [Callers -> Calls]
      /\ call'[k] = [at |-> "accepted", number |-> n, content |-> c]
      /\ \A j \in Callers \ {k} : call'[j] = call[j]
  BY <1>1, MovesIs DEF Store, Accepted
<1>7. Pair(k) = <<n, c>>
  BY DEF Pair
<1> HIDE DEF n, c
<1>8. e.content = c /\ e.revision = revision /\ e.previous = currentHash /\ e.hash = h
  OBVIOUS
<1>9. e \in Events
  BY <1>2, <1>3, <1>4 DEF Events
<1>10. e.hash = HashOf(currentHash, n, c, e.revision)
  BY <1>8
<1> HIDE DEF e, h
<1> QED
  BY <1>1, <1>2, <1>5, <1>6, <1>7, <1>8, <1>9, <1>10

LEMMA StoreStep ==
  ASSUME IInv, NEW k \in Callers, Store(k)
  PROVE  IInv'
<1>0. LastSequence \in Nat /\ LastSequence >= 1
  BY StreamAssumption
<1>1. TypeOK /\ ChainIntact
  BY DEF IInv
<1>2. PICK n \in Numbers, c \in Contents, e \in Events :
           /\ n = expected /\ call[k].at = "recorded" /\ Pair(k) = <<n, c>>
           /\ e.content = c /\ e.previous = currentHash
           /\ e.hash = HashOf(currentHash, n, c, e.revision)
           /\ stored' = [stored EXCEPT ![n] = e]
           /\ currentHash' = e.hash
           /\ expected' = n + 1
           /\ call' \in [Callers -> Calls]
           /\ call'[k] = [at |-> "accepted", number |-> n, content |-> c]
           /\ \A j \in Callers \ {k} : call'[j] = call[j]
  BY <1>1, StoreIs
<1>3. call[k].number = n
  <2>1. Pair(k) = <<call[k].number, call[k].content>>
    BY DEF Pair
  <2> QED
    BY <1>2, <2>1
<1>4. /\ highestReceived' = Higher(n) /\ gap' = StillMissing(n) /\ integrity' = "VALID"
      /\ operations' = operations /\ receipts' = receipts
      /\ revision' = revision /\ handedOff' = handedOff /\ admitted' = admitted
  BY <1>3 DEF Store, component
<1>5. /\ expected \in 1 .. LastSequence + 1 /\ highestReceived \in 0 .. LastSequence
      /\ n \in 1 .. LastSequence
  BY <1>1, <1>2 DEF TypeOK, Numbers
<1>6. /\ highestReceived' \in 0 .. LastSequence /\ highestReceived' >= n
      /\ highestReceived' >= highestReceived
  BY <1>0, <1>4, <1>5 DEF Higher
<1>7. stored \in [Numbers -> Events \cup {NoEvent}]
  BY <1>1 DEF TypeOK
<1>8. /\ stored' \in [Numbers -> Events \cup {NoEvent}]
      /\ stored'[n] = e
      /\ \A m \in Numbers \ {n} : stored'[m] = stored[m]
  BY <1>2, <1>7
<1>9. e # NoEvent
  <2>1. e.hash \in Hashes /\ DOMAIN e = {"content", "revision", "previous", "hash"}
    BY DEF Events
  <2>2. DOMAIN NoEvent = {"content"}
    BY DEF NoEvent
  <2> QED
    BY <2>1, <2>2
<1>10. \/ gap' = NoGap
       \/ /\ gap # NoGap /\ n < gap.to
          /\ gap'.from = n + 1 /\ gap'.to = gap.to
          /\ gap' \in [from : 0 .. LastSequence - 1, to : 0 .. LastSequence - 1]
  <2>1. gap \in [from : 0 .. LastSequence - 1, to : 0 .. LastSequence - 1]
    BY <1>1 DEF TypeOK
  <2>2. CASE gap = NoGap \/ n >= gap.to
    BY <1>4, <2>2 DEF StillMissing
  <2>3. CASE ~(gap = NoGap \/ n >= gap.to)
    <3>1. gap' = [gap EXCEPT !.from = n + 1]
      BY <1>4, <2>3 DEF StillMissing
    <3>2. gap.to \in 0 .. LastSequence - 1 /\ n < gap.to
      BY <1>0, <1>5, <2>1, <2>3
    <3>3. n + 1 \in 0 .. LastSequence - 1
      BY <1>0, <1>5, <3>2
    <3> QED
      BY <2>1, <2>3, <3>1, <3>2, <3>3
  <2> QED
    BY <2>2, <2>3
<1>11. TypeOK'
  <2>1. NoGap \in [from : 0 .. LastSequence - 1, to : 0 .. LastSequence - 1]
    BY <1>0 DEF NoGap
  <2>2. currentHash' \in Hashes
    BY <1>2 DEF Events
  <2>3. expected' \in 1 .. LastSequence + 1
    BY <1>0, <1>2, <1>5
  <2>4. gap' \in [from : 0 .. LastSequence - 1, to : 0 .. LastSequence - 1]
    BY <1>10, <2>1
  <2> QED
    BY <1>1, <1>2, <1>4, <1>6, <1>8, <2>2, <2>3, <2>4 DEF TypeOK
<1>12. ChainIntact'
  <2>1. \A m \in Numbers : stored'[m] # NoEvent <=> m < expected'
    BY <1>0, <1>1, <1>2, <1>5, <1>8, <1>9 DEF ChainIntact, Numbers
  <2>2. currentHash' = IF expected' = 1 THEN <<>> ELSE stored'[expected' - 1].hash
    <3>1. expected' # 1 /\ expected' - 1 = n
      BY <1>2, <1>5
    <3> QED
      BY <1>2, <1>8, <3>1
  <2>3. ASSUME NEW m \in Numbers, m < expected'
        PROVE  /\ stored'[m].previous = Predecessor(m)'
               /\ stored'[m].hash
                    = HashOf(stored'[m].previous, m, stored'[m].content, stored'[m].revision)
    <3>0. m \in 1 .. LastSequence
      BY DEF Numbers
    <3>1. Predecessor(m)' = Predecessor(m)
      <4>1. CASE m = 1
        BY <4>1 DEF Predecessor
      <4>2. CASE m # 1
        <5>1. m - 1 \in Numbers /\ m - 1 # n
          BY <1>0, <1>2, <1>5, <2>3, <3>0, <4>2 DEF Numbers
        <5> QED
          BY <1>8, <4>2, <5>1 DEF Predecessor
      <4> QED
        BY <4>1, <4>2
    <3>2. CASE m = n
      <4>1. Predecessor(n) = currentHash
        BY <1>1, <1>2 DEF ChainIntact, Predecessor
      <4> QED
        BY <1>2, <1>8, <3>1, <3>2, <4>1
    <3>3. CASE m # n
      <4>1. m < expected
        BY <1>2, <1>5, <2>3, <3>0, <3>3
      <4>2. stored'[m] = stored[m]
        BY <1>8, <3>3
      <4> QED
        BY <1>1, <3>1, <4>1, <4>2 DEF ChainIntact
    <3> QED
      BY <3>2, <3>3
  <2> QED
    BY <2>1, <2>2, <2>3 DEF ChainIntact
<1>13. NoFalseConflict'
  BY <1>4 DEF NoFalseConflict
<1>14. GapReported'
  <2>1. expected' <= highestReceived' + 1
    BY <1>2, <1>5, <1>6
  <2>2. ASSUME gap' # NoGap
        PROVE  gap'.from = expected' /\ gap'.from <= gap'.to /\ gap'.to < highestReceived'
    <3>1. gap # NoGap /\ n < gap.to /\ gap'.from = n + 1 /\ gap'.to = gap.to
      BY <1>10, <2>2
    <3>2. gap.to < highestReceived /\ gap.to \in 0 .. LastSequence - 1
      BY <1>1, <3>1 DEF IInv, GapReported, TypeOK
    <3> QED
      BY <1>0, <1>2, <1>5, <1>6, <3>1, <3>2
  <2> QED
    BY <2>1, <2>2 DEF GapReported
<1>15. OperationBehindEvent'
  <2>1. <<n, c>> \in operations
    BY <1>2 DEF IInv, CallsRecorded
  <2> QED
    BY <1>2, <1>4, <1>8, <2>1 DEF IInv, OperationBehindEvent
<1>16. AcceptedIsStored'
  <2> SUFFICES ASSUME NEW j \in Callers, call'[j].at = "accepted"
               PROVE  /\ call'[j].number < expected'
                      /\ stored'[call'[j].number].content = call'[j].content
    BY DEF AcceptedIsStored
  <2>1. CASE j = k
    BY <1>2, <1>5, <1>8, <2>1
  <2>2. CASE j # k
    <3>1. call'[j] = call[j]
      BY <1>2, <2>2
    <3>2. call[j].number < expected /\ stored[call[j].number].content = call[j].content
      BY <3>1 DEF IInv, AcceptedIsStored
    <3>3. call[j].number \in Numbers
      BY <1>1, <3>1, CallNames
    <3>4. call[j].number # n /\ call[j].number < expected'
      BY <1>2, <1>5, <3>2, <3>3 DEF Numbers
    <3> QED
      BY <1>8, <3>1, <3>2, <3>3, <3>4
  <2> QED
    BY <2>1, <2>2
<1>17. CallsRecorded'
  BY <1>2, <1>4 DEF IInv, CallsRecorded, Pair
<1> QED
  BY <1>11, <1>12, <1>13, <1>14, <1>15, <1>16, <1>17 DEF IInv

-----------------------------------------------------------------------------
(* The remaining steps of a request leave the stream alone.                 *)
LEMMA RequestStep ==
  ASSUME IInv, NEW k \in Callers, Request(k)
  PROVE  IInv'
<1>1. TypeOK
  BY DEF IInv
<1>2. ASSUME NEW n \in Numbers, NEW c \in Contents, Authorize(k, n, c)
      PROVE  IInv'
  <2>1. [at |-> "authorized", number |-> n, content |-> c] \in Calls
    BY DEF Calls
  <2>2. /\ call' \in [Callers -> Calls]
        /\ \A j \in Callers : call'[j] = call[j] \/ call'[j].at = "authorized"
    BY <1>1, <1>2, <2>1 DEF Authorize, TypeOK
  <2> QED
    BY <1>1, <1>2, <2>2, StreamKept DEF Authorize, TypeOK, stream, component
<1>3. CASE RecordOperation(k)
  <2>1. call[k].at = "authorized"
    BY <1>3 DEF RecordOperation
  <2>2. /\ call' \in [Callers -> Calls]
        /\ call'[k] = [at |-> "recorded", number |-> call[k].number, content |-> call[k].content]
        /\ \A j \in Callers \ {k} : call'[j] = call[j]
    BY <1>1, <1>3, <2>1, MovesIs DEF RecordOperation
  <2>3. call[k].number \in Numbers /\ call[k].content \in Contents
    BY <1>1, <2>1, CallNames
  <2>4. call'[k].at = "recorded" /\ Pair(k)' = Pair(k) /\ Pair(k) \in Numbers \X Contents
    BY <2>2, <2>3 DEF Pair
  <2>5. operations' = operations \cup {Pair(k)} /\ UNCHANGED <<stream, receipts, component>>
    BY <1>3 DEF RecordOperation
  <2>6. operations \subseteq operations' /\ operations' \subseteq Numbers \X Contents
    BY <1>1, <2>4, <2>5 DEF TypeOK
  <2>7. \A j \in Callers : \/ call'[j] = call[j]
                           \/ call'[j].at = "recorded" /\ Pair(j)' \in operations'
    BY <2>2, <2>4, <2>5
  <2> QED
    BY <1>1, <2>2, <2>5, <2>6, <2>7, StreamKept DEF TypeOK, stream, component
<1>4. CASE Receive(k)
  <2>1. /\ call' \in [Callers -> Calls]
        /\ \A j \in Callers : call'[j] = call[j] \/ call'[j].at = "quiet"
    BY <1>1, <1>4, ReturnIs DEF Receive
  <2>2. Pair(k) \in Numbers \X Contents
    BY <1>1, <1>4, CallNames DEF Receive, Pair
  <2>3. receipts' = receipts \cup {Pair(k)} /\ UNCHANGED <<stream, operations, component>>
    BY <1>4 DEF Receive
  <2> QED
    BY <1>1, <2>1, <2>2, <2>3, StreamKept DEF TypeOK, stream, component
<1>5. CASE Drop(k)
  <2>1. /\ call' \in [Callers -> Calls]
        /\ \A j \in Callers : call'[j] = call[j] \/ call'[j].at = "quiet"
    BY <1>1, <1>5, ReturnIs DEF Drop
  <2> QED
    BY <1>1, <1>5, <2>1, StreamKept DEF Drop, TypeOK, stream, component
<1> QED
  BY <1>2, <1>3, <1>4, <1>5, DuplicateStep, ConflictStep, GapStep, StoreStep DEF Request, Ingest

LEMMA Step == IInv /\ [Next]_vars => IInv'
<1> SUFFICES ASSUME IInv, [Next]_vars PROVE IInv'
  OBVIOUS
<1>1. TypeOK
  BY DEF IInv
<1>2. ASSUME NEW k \in Callers, Request(k) PROVE IInv'
  BY <1>2, RequestStep
<1>3. ASSUME NEW r \in Revisions, Revise(r) PROVE IInv'
  BY <1>1, <1>3, StreamKept DEF Revise, TypeOK, stream
<1>4. CASE HandOff
  BY <1>1, <1>4, StreamKept DEF HandOff, TypeOK, stream
<1>5. CASE Close
  BY <1>1, <1>5, StreamKept DEF Close, TypeOK, stream
<1>6. CASE Open
  BY <1>1, <1>6, StreamKept DEF Open, TypeOK, stream
<1>7. CASE UNCHANGED vars
  BY <1>1, <1>7, StreamKept DEF vars, TypeOK, stream, component
<1> QED
  BY <1>2, <1>3, <1>4, <1>5, <1>6, <1>7 DEF Next

(* The inductive invariant holds in every reachable state.                  *)
THEOREM Invariance == Spec => []IInv
<1>1. Init => IInv
  BY Initial
<1>2. IInv /\ [Next]_vars => IInv'
  BY Step
<1> QED
  BY <1>1, <1>2, PTL DEF Spec

(* The stream, its events and the requests in flight keep their types.     *)
THEOREM TypeCorrect == Spec => []TypeOK
<1>1. IInv => TypeOK
  BY DEF IInv
<1> QED
  BY <1>1, Invariance, PTL

(* ingestComponentAuditEvent keeps a gapless hash chain below the expected  *)
(* number.                                                                  *)
THEOREM Chained == Spec => []ChainIntact
<1>1. IInv => ChainIntact
  BY DEF IInv
<1> QED
  BY <1>1, Invariance, PTL

(* A component is quarantined for a conflict only if it sent two contents   *)
(* under one number.                                                        *)
THEOREM ConflictsAreReal == Spec => []NoFalseConflict
<1>1. IInv => NoFalseConflict
  BY DEF IInv
<1> QED
  BY <1>1, Invariance, PTL

(* A reported gap begins at the awaited number, is not empty and lies below *)
(* an event that was received.                                              *)
THEOREM GapsAreReal == Spec => []GapReported
<1>1. IInv => GapReported
  BY DEF IInv
<1> QED
  BY <1>1, Invariance, PTL

(* Every stored event has its operation event.                              *)
THEOREM OperationsFirst == Spec => []OperationBehindEvent
<1>1. IInv => OperationBehindEvent
  BY DEF IInv
<1> QED
  BY <1>1, Invariance, PTL

-----------------------------------------------------------------------------
(* The refinement: the log is the contents of the stored events.            *)
Recorded == [n \in 1 .. expected - 1 |-> stored[n].content]

RecordedTyped == /\ expected - 1 \in Nat
                 /\ Recorded \in Seq(Contents)
                 /\ Len(Recorded) = expected - 1

LEMMA RecordedIs == IInv => RecordedTyped
<1> SUFFICES ASSUME IInv PROVE RecordedTyped
  OBVIOUS
<1>1. TypeOK /\ ChainIntact /\ LastSequence \in Nat
  BY StreamAssumption DEF IInv
<1>2. expected \in 1 .. LastSequence + 1
  BY <1>1 DEF TypeOK
<1>3. expected - 1 \in Nat
  BY <1>1, <1>2
<1>4. \A n \in 1 .. expected - 1 : stored[n].content \in Contents
  <2> SUFFICES ASSUME NEW n \in 1 .. expected - 1 PROVE stored[n].content \in Contents
    OBVIOUS
  <2>1. n \in Numbers /\ n < expected
    BY <1>1, <1>2 DEF Numbers
  <2>2. stored[n] \in Events
    BY <1>1, <2>1, StoredEvent
  <2> QED
    BY <2>2 DEF Events
<1>5. Recorded \in [1 .. expected - 1 -> Contents]
  BY <1>4 DEF Recorded
<1> QED
  BY <1>3, <1>5 DEF RecordedTyped

LEMMA StoreRecords ==
  ASSUME IInv, IInv', NEW k \in Callers, Store(k)
  PROVE  \E c \in Contents : Recorded' = Append(Recorded, c)
<1>1. TypeOK /\ LastSequence \in Nat
  BY StreamAssumption DEF IInv
<1>2. PICK n \in Numbers, c \in Contents, e \in Events :
           /\ n = expected /\ e.content = c
           /\ stored' = [stored EXCEPT ![n] = e]
           /\ expected' = n + 1
  BY <1>1, StoreIs
<1>3. n \in 1 .. LastSequence /\ expected = n /\ expected' - 1 = n
  BY <1>1, <1>2 DEF Numbers
<1>4. stored'[n] = e /\ \A m \in Numbers \ {n} : stored'[m] = stored[m]
  BY <1>1, <1>2 DEF TypeOK
<1>5. Recorded \in Seq(Contents) /\ Len(Recorded) = n - 1
  BY <1>3, RecordedIs DEF RecordedTyped
<1>6. /\ Recorded' \in Seq(Contents) /\ Len(Recorded') = n
      /\ \A m \in 1 .. n : Recorded'[m] = stored'[m].content
  <2>1. RecordedTyped'
    BY RecordedIs, PTL
  <2> QED
    BY <1>3, <2>1 DEF RecordedTyped, Recorded
<1>7. /\ Append(Recorded, c) \in Seq(Contents) /\ Len(Append(Recorded, c)) = n
      /\ Append(Recorded, c)[n] = c
      /\ \A m \in 1 .. n - 1 : Append(Recorded, c)[m] = Recorded[m]
  BY <1>3, <1>5
<1>8. \A m \in 1 .. n : Recorded'[m] = Append(Recorded, c)[m]
  <2> SUFFICES ASSUME NEW m \in 1 .. n
               PROVE  stored'[m].content = Append(Recorded, c)[m]
    BY <1>6
  <2>1. CASE m = n
    BY <1>2, <1>4, <1>7, <2>1
  <2>2. CASE m # n
    <3>1. m \in Numbers \ {n} /\ m \in 1 .. n - 1 /\ n - 1 = expected - 1
      BY <1>1, <1>3, <2>2 DEF Numbers
    <3>2. Recorded[m] = stored[m].content
      BY <3>1 DEF Recorded
    <3> QED
      BY <1>4, <1>7, <3>1, <3>2
  <2> QED
    BY <2>1, <2>2
<1>9. Recorded' = Append(Recorded, c)
  BY <1>6, <1>7, <1>8, SeqEqual
<1> QED
  BY <1>9

(* Every behaviour of the stream is one of the append-only log: duplicates, *)
(* gaps, conflicts and revisions are invisible there.                       *)
THEOREM Refinement == Spec => ImplementsLog
<1>1. Init => Log!Init
  <2> SUFFICES ASSUME Init PROVE Log!Init
    OBVIOUS
  <2>1. expected = 1 /\ receipts = {}
    BY DEF Init
  <2>2. IInv
    BY Initial
  <2>3. Recorded = <<>>
    BY <2>1, <2>2, RecordedIs DEF RecordedTyped
  <2> QED
    BY <2>1, <2>3 DEF Log!Init, Recorded
<1>2. IInv /\ IInv' /\ [Next]_vars => [Log!Next]_Log!vars
  <2> SUFFICES ASSUME IInv, IInv', [Next]_vars PROVE [Log!Next]_Log!vars
    OBVIOUS
  <2>1. ASSUME UNCHANGED stored, UNCHANGED expected, UNCHANGED receipts
        PROVE  UNCHANGED Log!vars
    <3>1. Recorded' = Recorded
      BY <2>1 DEF Recorded
    <3> QED
      BY <2>1, <3>1 DEF Log!vars, Recorded
  <2>2. ASSUME NEW k \in Callers, Store(k) PROVE Log!Next
    <3>1. PICK c \in Contents : Recorded' = Append(Recorded, c)
      BY <2>2, StoreRecords
    <3>2. UNCHANGED receipts
      BY <2>2 DEF Store
    <3> QED
      BY <3>1, <3>2 DEF Log!Next, Log!Record, Recorded
  <2>3. ASSUME NEW k \in Callers, Receive(k) PROVE Log!Next
    <3> DEFINE n == call[k].number
    <3>1. call[k].at = "accepted" /\ n < expected /\ stored[n].content = call[k].content
      BY <2>3 DEF Receive, IInv, AcceptedIsStored
    <3>2. n \in 1 .. LastSequence /\ expected \in 1 .. LastSequence + 1 /\ LastSequence \in Nat
      BY <3>1, CallNames, StreamAssumption DEF IInv, TypeOK, Numbers
    <3>3. n \in 1 .. expected - 1
      BY <3>1, <3>2
    <3>4. n \in DOMAIN Recorded /\ Recorded[n] = call[k].content
      BY <3>1, <3>3 DEF Recorded
    <3>5. receipts' = receipts \cup {<<n, Recorded[n]>>}
      BY <2>3, <3>4 DEF Receive, Pair
    <3>6. Recorded' = Recorded
      BY <2>3 DEF Receive, stream, Recorded
    <3> HIDE DEF n
    <3> QED
      BY <3>4, <3>5, <3>6 DEF Log!Next, Log!Acknowledge, Recorded
  <2>4. ASSUME NEW k \in Callers, Request(k), ~Store(k), ~Receive(k)
        PROVE  UNCHANGED Log!vars
    <3>1. UNCHANGED <<stored, expected, receipts>>
      BY <2>4 DEF Request, Ingest, Authorize, RecordOperation, Duplicate, Conflict, Gap, Drop,
                  stream
    <3> QED
      BY <2>1, <3>1
  <2>5. ASSUME \/ \E r \in Revisions : Revise(r)
               \/ HandOff \/ Close \/ Open \/ UNCHANGED vars
        PROVE  UNCHANGED Log!vars
    <3>1. UNCHANGED <<stored, expected, receipts>>
      BY <2>5 DEF Revise, HandOff, Close, Open, vars, stream
    <3> QED
      BY <2>1, <3>1
  <2> QED
    BY <2>2, <2>3, <2>4, <2>5 DEF Next
<1> QED
  BY <1>1, <1>2, Invariance, PTL DEF Spec, ImplementsLog, Log!Spec
=============================================================================
