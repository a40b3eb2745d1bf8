------------------------ MODULE ComponentAuditStream ------------------------
(* The audit stream of one component (apps/server/src/domain/               *)
(* component-audit.ts): numbered events that arrive in any order and more   *)
(* than once, from requests that are in flight together, while the active   *)
(* revision changes and the component is closed and opened.                 *)
(*                                                                          *)
(* A request is three transactions: the authorization, the operation event, *)
(* the stream.  The last locks the stream and the component first and is    *)
(* one action.                                                              *)
(*                                                                          *)
(* Abstractions: a content is everything canonicalAuditPayload covers (also *)
(* the retry count and the correlation id); a hash is the sequence of what  *)
(* went into it, so two hashes are equal only for equal input; "admitted"   *)
(* is the decision authorizeComponentCall makes for component.audit.write,  *)
(* which ComponentControl takes apart.                                      *)
EXTENDS Naturals, Sequences

CONSTANTS LastSequence,   \* sequence numbers in use
          Contents,       \* what an event can say
          Revisions,      \* revisions of the component
          Callers         \* requests that are in flight together

ASSUME StreamAssumption == LastSequence \in Nat /\ LastSequence >= 1

VARIABLES expected,          \* expected_next_sequence; highest_acknowledged is one less
          highestReceived,   \* highest_received_sequence
          gap,               \* gap_from_sequence and gap_to_sequence, 0 for null
          integrity,         \* integrity_state
          currentHash,       \* current_event_hash, <<>> for null
          stored,            \* component_audit_event, by sequence number
          operations,        \* component_operation_event: <<number, content>>
          receipts,          \* <<number, content>> the component was told are accepted
          revision,          \* the component's active_revision_id
          handedOff,         \* its access token was handed off
          admitted,          \* whether an audit event is let in
          call               \* [Callers -> Calls], the requests in flight

stream == <<expected, highestReceived, gap, integrity, currentHash, stored>>
component == <<revision, handedOff, admitted>>
vars == <<stream, operations, receipts, component, call>>

Numbers == 1 .. LastSequence
NoGap == [from |-> 0, to |-> 0]   \* gap_state CONTIGUOUS

Links == [number : Numbers, content : Contents, revision : Revisions]
Hashes == Seq(Links)
Events == [content : Contents, revision : Revisions, previous : Hashes, hash : Hashes]
NoEvent == [content |-> "none"]

Quiet == [at |-> "quiet"]
Calls == {Quiet} \cup [at : {"authorized", "recorded", "accepted"},
                       number : Numbers, content : Contents]

TypeOK == /\ expected \in 1 .. LastSequence + 1
          /\ highestReceived \in 0 .. LastSequence
          /\ gap \in [from : 0 .. LastSequence - 1, to : 0 .. LastSequence - 1]
          /\ integrity \in {"VALID", "CONFLICT"}
          /\ currentHash \in Hashes
          /\ stored \in [Numbers -> Events \cup {NoEvent}]
          /\ operations \subseteq Numbers \X Contents
          /\ receipts \subseteq Numbers \X Contents
          /\ revision \in Revisions
          /\ handedOff \in BOOLEAN
          /\ admitted \in BOOLEAN
          /\ call \in [Callers -> Calls]

(* A component in onboarding: its probes are let in.                        *)
Init == /\ expected = 1
        /\ highestReceived = 0
        /\ gap = NoGap
        /\ integrity = "VALID"
        /\ currentHash = <<>>
        /\ stored = [n \in Numbers |-> NoEvent]
        /\ operations = {}
        /\ receipts = {}
        /\ revision \in Revisions
        /\ handedOff = FALSE
        /\ admitted = TRUE
        /\ call = [k \in Callers |-> Quiet]

-----------------------------------------------------------------------------
(* POST /v2/component-audit-events, up to the stream.  A component chooses  *)
(* number and content as it likes: first tries, retries, replays, errors.   *)
Authorize(k, n, c) ==
  /\ call[k] = Quiet
  /\ admitted
  /\ call' = [call EXCEPT ![k] = [at |-> "authorized", number |-> n, content |-> c]]
  /\ UNCHANGED <<stream, operations, receipts, component>>

Pair(k) == <<call[k].number, call[k].content>>

RecordOperation(k) ==
  /\ call[k].at = "authorized"
  /\ operations' = operations \cup {Pair(k)}
  /\ call' = [call EXCEPT ![k].at = "recorded"]
  /\ UNCHANGED <<stream, receipts, component>>

-----------------------------------------------------------------------------
(* ingestComponentAuditEvent for request k, one action per outcome.         *)
AtStream(k) == call[k].at = "recorded"

HashOf(previous, n, c, r) ==
  Append(previous, [number |-> n, content |-> c, revision |-> r])

(* A known number: the event is hashed again with the revision and the      *)
(* predecessor it was stored under.                                         *)
SameEvent_active(e, n, c) == HashOf(e.previous, n, c, revision) = e.hash   \* mutant
SameEvent_numbered(e, n, c) == e # NoEvent                                 \* mutant
SameEvent(e, n, c) == HashOf(e.previous, n, c, e.revision) = e.hash
Known(k) == AtStream(k) /\ call[k].number < expected
Repeats(k) == SameEvent(stored[call[k].number], call[k].number, call[k].content)

Accepted(k) == call' = [call EXCEPT ![k].at = "accepted"]
Return(k) == call' = [call EXCEPT ![k] = Quiet]

Duplicate(k) == /\ Known(k) /\ Repeats(k)
                /\ Accepted(k)
                /\ UNCHANGED <<stream, operations, receipts, component>>

(* Another event under a known number: the component is quarantined.        *)
Conflict(k) == /\ Known(k) /\ ~Repeats(k)
               /\ integrity' = "CONFLICT"
               /\ admitted' = FALSE
               /\ Return(k)
               /\ UNCHANGED <<expected, highestReceived, gap, currentHash, stored,
                              operations, receipts, revision, handedOff>>

Higher(n) == IF n > highestReceived THEN n ELSE highestReceived

(* An event from ahead is refused; the gap reaches up to it, whatever was   *)
(* refused before.                                                          *)
Missing(n) == [from |-> expected, to |-> n - 1]
Gap(k) == LET n == call[k].number IN
          /\ AtStream(k)
          /\ n > expected
          /\ gap' = Missing(n)
          /\ highestReceived' = Higher(n)
          /\ Return(k)
          /\ UNCHANGED <<expected, integrity, currentHash, stored, operations, receipts, component>>

(* The expected event is appended, the gap shrinks or closes, and whatever  *)
(* conflict there was is forgotten.                                         *)
StillMissing_late(n) == IF gap = NoGap \/ n > gap.to THEN NoGap ELSE [gap EXCEPT !.from = n + 1]   \* mutant
StillMissing(n) == IF gap = NoGap \/ n >= gap.to THEN NoGap ELSE [gap EXCEPT !.from = n + 1]
HashAfter_kept(e) == currentHash   \* mutant
HashAfter(e) == e.hash
Store(k) ==
  LET n == call[k].number
      e == [content |-> call[k].content, revision |-> revision, previous |-> currentHash,
            hash |-> HashOf(currentHash, n, call[k].content, revision)]
  IN  /\ AtStream(k)
      /\ n = expected
      /\ stored' = [stored EXCEPT ![n] = e]
      /\ expected' = n + 1
      /\ highestReceived' = Higher(n)
      /\ gap' = StillMissing(n)
      /\ currentHash' = HashAfter(e)
      /\ integrity' = "VALID"
      /\ Accepted(k)
      /\ UNCHANGED <<operations, receipts, component>>

(* The receipt arrives, or the request ends without one: refused, failed,   *)
(* answered into a lost connection, or its process died.                    *)
Receive(k) == /\ call[k].at = "accepted"
              /\ receipts' = receipts \cup {Pair(k)}
              /\ Return(k)
              /\ UNCHANGED <<stream, operations, component>>

Drop(k) == /\ call[k] # Quiet
           /\ Return(k)
           /\ UNCHANGED <<stream, operations, receipts, component>>

-----------------------------------------------------------------------------
(* The component meanwhile: a revision during onboarding, the hand-off after *)
(* the gates AUDIT_CONTINUITY and AUDIT_PAYLOAD_INTEGRITY, and, as           *)
(* ComponentControl has it, traffic closed by anyone and opened by a         *)
(* confirmed activation (which looked at the gap when it was requested).     *)
Revise(r) == /\ ~handedOff
             /\ revision' = r
             /\ UNCHANGED <<stream, operations, receipts, handedOff, admitted, call>>

HandOff == /\ ~handedOff
           /\ gap = NoGap
           /\ integrity = "VALID"
           /\ handedOff' = TRUE
           /\ admitted' = TRUE
           /\ UNCHANGED <<stream, operations, receipts, revision, call>>

Close == /\ admitted' = FALSE
         /\ UNCHANGED <<stream, operations, receipts, revision, handedOff, call>>

Open == /\ handedOff
        /\ admitted' = TRUE
        /\ UNCHANGED <<stream, operations, receipts, revision, handedOff, call>>

-----------------------------------------------------------------------------
Ingest(k) == Duplicate(k) \/ Conflict(k) \/ Gap(k) \/ Store(k)

Request(k) == \/ \E n \in Numbers, c \in Contents : Authorize(k, n, c)
              \/ RecordOperation(k) \/ Ingest(k) \/ Receive(k) \/ Drop(k)

Next == \/ \E k \in Callers : Request(k)
        \/ \E r \in Revisions : Revise(r)
        \/ HandOff \/ Close \/ Open

Spec == Init /\ [][Next]_vars

-----------------------------------------------------------------------------
(* The stored events are exactly those below the expected number, each      *)
(* hashed over its own fields and the hash of its predecessor, and the      *)
(* current hash is the last one, whatever order requests, revisions and     *)
(* conflicts came in.  (A number below the expected one is therefore always *)
(* found, and the code's audit_sequence_rewind is never thrown.)            *)
Predecessor(n) == IF n = 1 THEN <<>> ELSE stored[n - 1].hash
ChainIntact ==
  /\ \A n \in Numbers : stored[n] # NoEvent <=> n < expected
  /\ \A n \in Numbers : n < expected =>
       /\ stored[n].previous = Predecessor(n)
       /\ stored[n].hash = HashOf(stored[n].previous, n, stored[n].content, stored[n].revision)
  /\ currentHash = IF expected = 1 THEN <<>> ELSE stored[expected - 1].hash

(* A component is impounded for a conflict only if it did send two contents *)
(* under one number: a retry or a replay, also one that crosses a change of *)
(* revision, never looks like a conflict.                                   *)
NoFalseConflict ==
  integrity = "CONFLICT" =>
    \E n \in Numbers, c, d \in Contents :
      c # d /\ <<n, c>> \in operations /\ <<n, d>> \in operations

(* The gap a component is asked to replay begins at the event that is       *)
(* awaited, is not empty (the table's constraint), and lies below an event  *)
(* that has been received.                                                  *)
GapReported ==
  /\ gap # NoGap => /\ gap.from = expected
                    /\ gap.from <= gap.to
                    /\ gap.to < highestReceived
  /\ expected <= highestReceived + 1

(* Whatever stands in the stream has its operation event, although the two  *)
(* are written by two transactions and either may be the last.              *)
OperationBehindEvent ==
  \A n \in Numbers : stored[n] # NoEvent => <<n, stored[n].content>> \in operations

(* What is about to be acknowledged is stored as it was sent.               *)
AcceptedIsStored ==
  \A k \in Callers : call[k].at = "accepted" =>
    /\ call[k].number < expected
    /\ stored[call[k].number].content = call[k].content

CallsRecorded ==
  \A k \in Callers : call[k].at = "recorded" => Pair(k) \in operations

IInv == /\ TypeOK /\ ChainIntact /\ NoFalseConflict /\ GapReported /\ OperationBehindEvent
        /\ AcceptedIsStored /\ CallsRecorded

(* The stream is an append-only log, and whatever was acknowledged is in it *)
(* as it was sent, through duplicates, lost receipts and conflicts.         *)
Log == INSTANCE AuditLog WITH
         log <- [n \in 1 .. expected - 1 |-> stored[n].content],
         acknowledged <- receipts
ImplementsLog == Log!Spec

=============================================================================
