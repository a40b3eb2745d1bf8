---------------------------- MODULE Secrets_proofs ----------------------------
(* Theorems about Secrets: the types, and the three properties of its run,   *)
(* for every number of secrets, grants, versions, access tokens and resolves *)
(* in flight.                                                                *)
EXTENDS Secrets, TLAPS

\* What the actions leave alone when they change one part of the state.
GrantsAtRest == UNCHANGED <<secret, direct, request>>

LEMMA Counted ==
  ASSUME NEW max \in Nat, NEW n \in 0..max, n < max
  PROVE  n + 1 \in 0..max
OBVIOUS

LEMMA SecretFields ==
  ASSUME TypeOK, NEW s \in Secrets
  PROVE  /\ secret[s] \in Secret
         /\ secret[s].status \in Status
         /\ secret[s].version \in 0..MaxVersion
         /\ secret[s].life \in 0..MaxLife
BY DEF TypeOK, Secret

\* Initially.
LEMMA InitSafe == Init => IInv
<1> SUFFICES ASSUME Init PROVE IInv
  OBVIOUS
<1>1. TypeOK
  <2>1. Idle \in Request
    BY BoundAssumption DEF Idle, Request
  <2>2. secret \in [Secrets -> Secret]
    BY BoundAssumption DEF Init, Secret, Status
  <2>3. component \in Component
    BY BoundAssumption DEF Init, Component
  <2>4. access \in Access
    BY BoundAssumption DEF Init, Access
  <2>5. QED
    BY <2>1, <2>2, <2>3, <2>4 DEF Init, TypeOK
<1>2. EndedAreRevoked
  BY DEF Init, EndedAreRevoked
<1>3. QED
  BY <1>1, <1>2 DEF Init, IInv, HeldIsCurrent, GrantsOfThisLife, OldTokensAdmitNothing,
                    LateIsEnded, Named, Idle

\* An administrator's change of an unlocked secret: a held value is of another one.
LEMMA ChangeSafe ==
  ASSUME IInv, NEW s \in Secrets, NEW row \in Secret, ChangeSecret(s, row),
         direct' \subseteq direct,
         \A g \in direct' : g.secret = s => g.life = row.life /\ row.status # "DELETED"
  PROVE  IInv'
<1> USE DEF IInv
<1>1. secret' = [secret EXCEPT ![s] = row]
  BY DEF ChangeSecret
<1>2. TypeOK'
  BY <1>1 DEF TypeOK, ChangeSecret
<1>3. HeldIsCurrent'
  <2> SUFFICES ASSUME NEW r \in Requests, request[r].at = "LOCKED"
               PROVE  /\ secret'[request[r].secret].status = "ACTIVE"
                      /\ secret'[request[r].secret].version = request[r].version
    BY DEF HeldIsCurrent, ChangeSecret
  <2>1. request[r].secret # s
    BY DEF ChangeSecret, Unlocked
  <2>2. secret'[request[r].secret] = secret[request[r].secret]
    BY <1>1, <2>1 DEF TypeOK
  <2>3. QED
    BY <2>2 DEF HeldIsCurrent
<1>4. GrantsOfThisLife'
  <2> SUFFICES ASSUME NEW g \in direct'
               PROVE  g.life = secret'[g.secret].life /\ secret'[g.secret].status # "DELETED"
    BY DEF GrantsOfThisLife
  <2>1. g \in direct /\ g.secret \in Secrets
    BY DEF TypeOK, Grant
  <2>2. CASE g.secret = s
    BY <1>1, <2>2 DEF TypeOK
  <2>3. CASE g.secret # s
    BY <1>1, <2>1, <2>3 DEF TypeOK, GrantsOfThisLife
  <2>4. QED
    BY <2>2, <2>3
<1>5. QED
  BY <1>2, <1>3, <1>4
     DEF ChangeSecret, OldTokensAdmitNothing, EndedAreRevoked, LateIsEnded, Named

LEMMA SecretSafe ==
  ASSUME IInv, NEW s \in Secrets,
         \/ CreateSecret(s) \/ RotateSecret(s) \/ DeleteSecret(s) \/ RestoreSecret(s)
         \/ \E status \in {"ACTIVE", "DISABLED"} : SetSecretStatus(s, status)
  PROVE  IInv'
<1> DEFINE old == secret[s]
<1>1. TypeOK /\ GrantsOfThisLife
  BY DEF IInv
<1>2. /\ old \in Secret /\ old.status \in Status
      /\ old.version \in 0..MaxVersion /\ old.life \in 0..MaxLife
  BY <1>1, SecretFields
<1>3. \A g \in direct : g.secret = s => g.life = old.life /\ old.status # "DELETED"
  BY <1>1 DEF GrantsOfThisLife
<1>4. CASE CreateSecret(s)
  <2>1. 1 \in 0..MaxVersion
    BY <1>4, BoundAssumption DEF CreateSecret
  <2> DEFINE new == [old EXCEPT !.status = "ACTIVE", !.version = 1]
  <2>2. new \in Secret /\ new.life = old.life /\ new.status # "DELETED"
    BY <1>2, <2>1 DEF Secret, Status
  <2>3. direct' = direct /\ ChangeSecret(s, new)
    BY <1>4 DEF CreateSecret
  <2>4. \A g \in direct' : g.secret = s => g.life = new.life /\ new.status # "DELETED"
    BY <1>3, <2>2, <2>3
  <2> HIDE DEF new
  <2>5. QED
    BY <2>2, <2>3, <2>4, ChangeSafe
<1>5. CASE RotateSecret(s)
  <2>1. old.version + 1 \in 0..MaxVersion
    BY <1>2, <1>5, Counted, BoundAssumption DEF RotateSecret
  <2> DEFINE new == [old EXCEPT !.version = @ + 1]
  <2>2. new \in Secret /\ new.life = old.life /\ new.status = old.status
    BY <1>2, <2>1 DEF Secret
  <2>3. direct' = direct /\ ChangeSecret(s, new)
    BY <1>5 DEF RotateSecret
  <2>4. \A g \in direct' : g.secret = s => g.life = new.life /\ new.status # "DELETED"
    BY <1>3, <2>2, <2>3
  <2> HIDE DEF new
  <2>5. QED
    BY <2>2, <2>3, <2>4, ChangeSafe
<1>6. CASE DeleteSecret(s)
  <2> DEFINE new == [old EXCEPT !.status = "DELETED", !.life = @ + 1]
  <2>1. old.life + 1 \in 0..MaxLife
    BY <1>2, <1>6, Counted, BoundAssumption DEF DeleteSecret
  <2>2. new \in Secret
    BY <1>2, <2>1 DEF Secret, Status
  <2>3. direct' \subseteq direct /\ \A g \in direct' : g.secret # s
    BY <1>6 DEF DeleteSecret, Revocable
  <2>4. QED
    BY <1>6, <2>2, <2>3, ChangeSafe DEF DeleteSecret
<1>7. CASE RestoreSecret(s)
  <2>1. [old EXCEPT !.status = "DISABLED"] \in Secret
    BY <1>2 DEF Secret, Status
  <2>2. direct' = direct /\ \A g \in direct : g.secret # s
    BY <1>3, <1>7 DEF RestoreSecret
  <2>3. QED
    BY <1>7, <2>1, <2>2, ChangeSafe DEF RestoreSecret
<1>8. ASSUME NEW status \in {"ACTIVE", "DISABLED"}, SetSecretStatus(s, status)
      PROVE  IInv'
  <2> DEFINE new == [old EXCEPT !.status = status]
  <2>1. new \in Secret /\ new.life = old.life /\ new.status # "DELETED"
    BY <1>2 DEF Secret, Status
  <2>2. direct' = direct /\ ChangeSecret(s, new)
    BY <1>8 DEF SetSecretStatus
  <2>3. \A g \in direct' : g.secret = s => g.life = new.life /\ new.status # "DELETED"
    BY <1>3, <2>1, <2>2
  <2> HIDE DEF new
  <2>4. QED
    BY <2>1, <2>2, <2>3, ChangeSafe
<1>9. QED
  BY <1>4, <1>5, <1>6, <1>7, <1>8

\* A direct grant hangs on a secret that is there, as it is.
LEMMA GrantSafe ==
  ASSUME IInv,
         \/ \E s \in Secrets, all \in BOOLEAN : GrantSecret(s, all)
         \/ \E g \in direct : RevokeSecretGrant(g)
  PROVE  IInv'
<1> USE DEF IInv
<1>1. ASSUME NEW s \in Secrets, NEW all \in BOOLEAN, GrantSecret(s, all)
      PROVE  IInv'
  <2> DEFINE given == [secret |-> s, all |-> all, life |-> secret[s].life]
  <2>1. direct' = direct \cup {given}
    BY <1>1 DEF GrantSecret
  <2>2. given \in Grant
    BY SecretFields DEF Grant
  <2>3. given.secret = s /\ given.life = secret[s].life /\ secret[s].status # "DELETED"
    BY <1>1 DEF GrantSecret
  <2> HIDE DEF given
  <2>4. TypeOK'
    BY <1>1, <2>1, <2>2 DEF GrantSecret, TypeOK
  <2>5. GrantsOfThisLife'
    BY <1>1, <2>1, <2>3 DEF GrantSecret, GrantsOfThisLife
  <2>6. QED
    BY <1>1, <2>4, <2>5
       DEF GrantSecret, HeldIsCurrent, OldTokensAdmitNothing, EndedAreRevoked, LateIsEnded, Named
<1>2. ASSUME NEW g \in direct, RevokeSecretGrant(g)
      PROVE  IInv'
  <2>1. direct' \subseteq direct
    BY <1>2 DEF RevokeSecretGrant
  <2>2. TypeOK'
    BY <1>2, <2>1 DEF RevokeSecretGrant, TypeOK
  <2>3. GrantsOfThisLife'
    BY <1>2, <2>1 DEF RevokeSecretGrant, GrantsOfThisLife
  <2>4. QED
    BY <1>2, <2>2, <2>3
       DEF RevokeSecretGrant, HeldIsCurrent, OldTokensAdmitNothing, EndedAreRevoked, LateIsEnded, Named
<1>3. QED
  BY <1>1, <1>2

\* A token of this audience takes the next number and is the live one from then on.
LEMMA IssueCounts ==
  ASSUME access \in Access, access.issued < MaxDigest, NEW a \in Audience
  PROVE  /\ Issue(a) \in Access
         /\ Issue(a).issued = access.issued + 1
         /\ \A b \in Audience :
              Issue(a).live[b] = IF b = a THEN access.issued + 1 ELSE access.live[b]
<1>1. access.issued \in 0..MaxDigest /\ access.live \in [Audience -> 0..MaxDigest]
  BY DEF Access
<1>2. access.issued + 1 \in 0..MaxDigest
  BY <1>1, Counted, BoundAssumption
<1>3. QED
  BY <1>1, <1>2 DEF Issue, Access

\* A step of the component's onboarding or life: what has ended stays ended.
LEMMA ComponentSafe ==
  ASSUME IInv, GrantsAtRest,
         token' \in [revoked: BOOLEAN, expired: BOOLEAN],
         job' \in {"NONE", "OPEN", "DONE", "CANCELLED"},
         component' \in Component, access' \in Access,
         component.ended <= component'.ended,
         EndedAreRevoked'
  PROVE  IInv'
<1>1. TypeOK'
  BY DEF IInv, TypeOK, GrantsAtRest
<1>2. HeldIsCurrent' /\ GrantsOfThisLife' /\ OldTokensAdmitNothing' /\ Named'
  BY DEF IInv, GrantsAtRest, HeldIsCurrent, GrantsOfThisLife, OldTokensAdmitNothing, Named
<1>3. LateIsEnded'
  <2>1. component.ended \in Nat /\ component'.ended \in Nat
    BY BoundAssumption DEF IInv, TypeOK, Component
  <2>2. 1..component.ended \subseteq 1..component'.ended
    BY <2>1
  <2>3. QED
    BY <2>2 DEF IInv, LateIsEnded, GrantsAtRest
<1>4. QED
  BY <1>1, <1>2, <1>3 DEF IInv

\* A step that keeps the access tokens and the component's "ended".
LEMMA KeptSafe ==
  ASSUME IInv, GrantsAtRest, NEW row \in Component, component' = row,
         row.ended = component.ended, UNCHANGED <<token, job, access>>
  PROVE  IInv'
<1>1. EndedAreRevoked'
  BY DEF IInv, EndedAreRevoked
<1>2. component.ended <= component'.ended
  BY BoundAssumption DEF IInv, TypeOK, Component
<1>3. QED
  BY <1>1, <1>2, ComponentSafe DEF IInv, TypeOK

\* A step that issues a token, or that revokes some: one issued after the
\* component ended has a number beyond those that ended with it.
LEMMA AccessSafe ==
  ASSUME IInv, GrantsAtRest, access' \in Access,
         component'.ended = component.ended, component' \in Component,
         access.issued <= access'.issued,
         \A a \in Audience : \/ access'.live[a] \in {0, access.live[a]}
                             \/ access'.live[a] = access.issued + 1,
         token' \in [revoked: BOOLEAN, expired: BOOLEAN],
         job' \in {"NONE", "OPEN", "DONE", "CANCELLED"}
  PROVE  IInv'
<1>1. /\ component.ended \in Nat /\ access.issued \in Nat /\ access'.issued \in Nat
      /\ component.ended <= access.issued
  BY BoundAssumption DEF IInv, TypeOK, Component, Access, EndedAreRevoked
<1>2. component'.ended <= access'.issued
  BY <1>1
<1>3. ASSUME NEW a \in Audience
      PROVE  access'.live[a] = 0 \/ access'.live[a] > component'.ended
  <2>1. access.live[a] = 0 \/ access.live[a] > component.ended
    BY DEF IInv, EndedAreRevoked
  <2>2. access.issued + 1 > component.ended
    BY <1>1
  <2>3. QED
    BY <2>1, <2>2
<1>4. EndedAreRevoked'
  BY <1>2, <1>3 DEF EndedAreRevoked
<1>5. component.ended <= component'.ended
  BY <1>1
<1>6. QED
  BY <1>4, <1>5, ComponentSafe

\* A step that ends the access tokens issued so far.
LEMMA EndedSafe ==
  ASSUME IInv, GrantsAtRest, NEW row \in Component, component' = row,
         row.ended = access.issued, access' = Withdrawn,
         token' = token, job' \in {"NONE", "OPEN", "DONE", "CANCELLED"}
  PROVE  IInv'
<1>1. access \in Access /\ access.issued \in Nat /\ component.ended <= access.issued
  BY BoundAssumption DEF IInv, TypeOK, Access, EndedAreRevoked
<1>2. /\ access' \in Access /\ access'.issued = access.issued
      /\ \A a \in Audience : access'.live[a] = 0
  BY <1>1, BoundAssumption DEF Withdrawn, Access
<1>3. EndedAreRevoked'
  BY <1>1, <1>2 DEF EndedAreRevoked
<1>4. QED
  BY <1>1, <1>2, <1>3, ComponentSafe DEF IInv, TypeOK

LEMMA LifeSafe ==
  ASSUME IInv,
         \/ RequestEnable \/ RequestDisable \/ Quarantine \/ Restore \/ ReportFailure \/ GoStale
         \/ \E command \in component.pending : Confirm(command) \/ GiveUp(command)
  PROVE  IInv'
<1>1. component \in Component
  BY DEF IInv, TypeOK
<1>2. CASE RequestEnable
  <2> DEFINE row == [component EXCEPT !.open = FALSE, !.barred = FALSE, !.pending = @ \cup {"enable"}]
  <2>1. row \in Component /\ row.ended = component.ended
    BY <1>1 DEF Component
  <2>2. component' = row /\ GrantsAtRest /\ UNCHANGED <<token, job, access>>
    BY <1>2 DEF RequestEnable, ChangeComponent, GrantsAtRest
  <2> HIDE DEF row
  <2>3. QED
    BY <2>1, <2>2, KeptSafe
<1>3. CASE RequestDisable
  <2> DEFINE row == [component EXCEPT !.open = FALSE, !.barred = FALSE,
                             !.lifecycle = IF @ = "ACTIVE" THEN "APPROVED" ELSE @,
                             !.pending = @ \cup {"disable"}]
  <2>1. row \in Component /\ row.ended = component.ended
    BY <1>1 DEF Component
  <2>2. component' = row /\ GrantsAtRest /\ UNCHANGED <<token, job, access>>
    BY <1>3 DEF RequestDisable, ChangeComponent, GrantsAtRest
  <2> HIDE DEF row
  <2>3. QED
    BY <2>1, <2>2, KeptSafe
<1>4. CASE Restore
  <2> DEFINE row == [component EXCEPT !.lifecycle = "APPROVED", !.open = FALSE,
                             !.barred = FALSE, !.principal = "SUSPENDED"]
  <2>1. row \in Component /\ row.ended = component.ended
    BY <1>1 DEF Component
  <2>2. component' = row /\ GrantsAtRest /\ UNCHANGED <<token, job, access>>
    BY <1>4 DEF Restore, ChangeComponent, GrantsAtRest
  <2> HIDE DEF row
  <2>3. QED
    BY <2>1, <2>2, KeptSafe
<1>5. CASE ReportFailure
  <2> DEFINE row == [component EXCEPT !.barred = FALSE]
  <2>1. row \in Component /\ row.ended = component.ended
    BY <1>1 DEF Component
  <2>2. component' = row /\ GrantsAtRest /\ UNCHANGED <<token, job, access>>
    BY <1>5 DEF ReportFailure, ChangeComponent, GrantsAtRest
  <2> HIDE DEF row
  <2>3. QED
    BY <2>1, <2>2, KeptSafe
<1>6. CASE GoStale
  <2> DEFINE row == [component EXCEPT !.open = FALSE, !.barred = FALSE]
  <2>1. row \in Component /\ row.ended = component.ended
    BY <1>1 DEF Component
  <2>2. component' = row /\ GrantsAtRest /\ UNCHANGED <<token, job, access>>
    BY <1>6 DEF GoStale, ChangeComponent, GrantsAtRest
  <2> HIDE DEF row
  <2>3. QED
    BY <2>1, <2>2, KeptSafe
<1>7. CASE Quarantine
  <2>1. PICK principal \in {"QUARANTINED", component.principal} :
          ChangeComponent([component EXCEPT !.lifecycle = "QUARANTINED", !.open = FALSE,
                                            !.barred = TRUE, !.principal = principal])
    BY <1>7 DEF Quarantine
  <2> DEFINE row == [component EXCEPT !.lifecycle = "QUARANTINED", !.open = FALSE,
                             !.barred = TRUE, !.principal = principal]
  <2>2. row \in Component /\ row.ended = component.ended
    BY <1>1 DEF Component
  <2>3. component' = row /\ GrantsAtRest /\ UNCHANGED <<token, job, access>>
    BY <1>7, <2>1 DEF Quarantine, ChangeComponent, GrantsAtRest
  <2> HIDE DEF row
  <2>4. QED
    BY <2>2, <2>3, KeptSafe
<1>8. ASSUME NEW command \in component.pending, Confirm(command)
      PROVE  IInv'
  <2> DEFINE row == [component EXCEPT
                    !.open = command = "enable",
                    !.barred = FALSE,
                    !.lifecycle = IF command = "enable" THEN "ACTIVE"
                                  ELSE IF @ = "ACTIVE" THEN "APPROVED" ELSE @,
                    !.principal = IF command = "enable" THEN "ACTIVE" ELSE "SUSPENDED",
                    !.pending = @ \ {command}]
  <2>1. row \in Component /\ row.ended = component.ended
    BY <1>1 DEF Component
  <2>2. component' = row /\ GrantsAtRest /\ UNCHANGED <<token, job, access>>
    BY <1>8 DEF Confirm, ChangeComponent, GrantsAtRest
  <2> HIDE DEF row
  <2>3. QED
    BY <2>1, <2>2, KeptSafe
<1>9. ASSUME NEW command \in component.pending, GiveUp(command)
      PROVE  IInv'
  <2> DEFINE row == [component EXCEPT !.open = FALSE, !.barred = FALSE,
                             !.pending = @ \ {command}]
  <2>1. row \in Component /\ row.ended = component.ended
    BY <1>1 DEF Component
  <2>2. component' = row /\ GrantsAtRest /\ UNCHANGED <<token, job, access>>
    BY <1>9 DEF GiveUp, ChangeComponent, GrantsAtRest
  <2> HIDE DEF row
  <2>3. QED
    BY <2>1, <2>2, KeptSafe
<1>10. QED
  BY <1>2, <1>3, <1>4, <1>5, <1>6, <1>7, <1>8, <1>9

\* The end of the component, and of its access tokens.
LEMMA EndSafe ==
  ASSUME IInv, CleanUp \/ Retire \/ Deregister
  PROVE  IInv'
<1>1. component \in Component /\ access.issued \in 0..MaxDigest
  BY DEF IInv, TypeOK, Access
<1> DEFINE row(lifecycle, gone) ==
      [component EXCEPT !.lifecycle = lifecycle, !.open = FALSE, !.barred = TRUE,
                        !.gone = gone, !.principal = "REVOKED", !.ended = access.issued]
<1>2. /\ row("RETIRED", component.gone) \in Component
      /\ row("DEREGISTERED", TRUE) \in Component
  BY <1>1 DEF Component
<1>3. \A lifecycle, gone : row(lifecycle, gone).ended = access.issued
  BY <1>1 DEF Component
<1>4. component' \in {row("RETIRED", component.gone), row("DEREGISTERED", TRUE)}
  BY <1>1 DEF CleanUp, Retire, Deregister, ChangeComponent, Component
<1>5. /\ access' = Withdrawn
      /\ GrantsAtRest /\ token' = token
      /\ job' \in {"NONE", "OPEN", "DONE", "CANCELLED"}
  BY DEF CleanUp, Retire, Deregister, ChangeComponent, GrantsAtRest, IInv, TypeOK
<1> HIDE DEF row
<1>6. QED
  BY <1>2, <1>3, <1>4, <1>5, EndedSafe

\* Its onboarding, and what becomes of its tokens.
LEMMA TokenSafe ==
  ASSUME IInv,
         \/ CreateOnboarding \/ TokenEnds \/ IssueRuntimeToken
         \/ \E a \in Audience : RotateAccess(a) \/ RevokeAccess(a)
         \/ \E passed \in BOOLEAN : Evaluate(passed)
  PROVE  IInv'
<1>1. /\ component \in Component /\ access \in Access
      /\ access.issued \in Nat /\ access.live \in [Audience -> 0..MaxDigest]
      /\ token \in [revoked: BOOLEAN, expired: BOOLEAN]
      /\ job \in {"NONE", "OPEN", "DONE", "CANCELLED"}
  BY BoundAssumption DEF IInv, TypeOK, Access
<1>2. CASE CreateOnboarding
  <2>1. /\ GrantsAtRest /\ access' = access /\ component' = component
        /\ token' = token /\ job' = "OPEN"
    BY <1>2 DEF CreateOnboarding, GrantsAtRest
  <2>2. QED
    BY <1>1, <2>1, AccessSafe
<1>3. CASE TokenEnds
  <2>1. token' \in [revoked: BOOLEAN, expired: BOOLEAN]
    BY <1>1, <1>3 DEF TokenEnds
  <2>2. GrantsAtRest /\ access' = access /\ component' = component /\ job' = job
    BY <1>3 DEF TokenEnds, GrantsAtRest
  <2>3. QED
    BY <1>1, <2>1, <2>2, AccessSafe
<1>4. ASSUME NEW a \in Audience, RotateAccess(a) \/ IssueRuntimeToken
      PROVE  IInv'
  <2>1. PICK b \in Audience : access' = Issue(b)
    BY <1>4 DEF RotateAccess, IssueRuntimeToken, Audience
  <2>2. /\ access.issued < MaxDigest /\ GrantsAtRest /\ component' = component
        /\ token' = token /\ job' = job
    BY <1>4 DEF RotateAccess, IssueRuntimeToken, GrantsAtRest
  <2>3. /\ access' \in Access /\ access.issued <= access'.issued
        /\ \A c \in Audience : access'.live[c] \in {0, access.live[c]}
                               \/ access'.live[c] = access.issued + 1
    BY <1>1, <2>1, <2>2, IssueCounts
  <2>4. QED
    BY <1>1, <2>2, <2>3, AccessSafe
<1>5. ASSUME NEW a \in Audience, RevokeAccess(a)
      PROVE  IInv'
  <2>1. access' = [access EXCEPT !.live[a] = 0]
    BY <1>5 DEF RevokeAccess
  <2>2. /\ access' \in Access /\ access'.issued = access.issued
        /\ \A c \in Audience : access'.live[c] \in {0, access.live[c]}
    BY <1>1, <2>1, BoundAssumption DEF Access
  <2>3. GrantsAtRest /\ component' = component /\ token' = token /\ job' = job
    BY <1>5 DEF RevokeAccess, GrantsAtRest
  <2>4. QED
    BY <1>1, <2>2, <2>3, AccessSafe
<1>6. ASSUME NEW passed \in BOOLEAN, Evaluate(passed)
      PROVE  IInv'
  <2> DEFINE row == [component EXCEPT
                       !.lifecycle = IF passed THEN "ACTIVE" ELSE "REVIEW",
                       !.open = passed,
                       !.barred = @ /\ ~passed,
                       !.principal = IF passed \/ access.own = 0 THEN "ACTIVE" ELSE @]
  <2>1. row \in Component /\ row.ended = component.ended
    BY <1>1 DEF Component
  <2>2. component' = row
    BY <1>6 DEF Evaluate
  <2> HIDE DEF row
  <2>3. /\ access' \in Access /\ access.issued <= access'.issued
        /\ \A c \in Audience : access'.live[c] \in {0, access.live[c]}
                               \/ access'.live[c] = access.issued + 1
    <3>1. CASE access.own = 0
      <4> DEFINE new == Issue("*")
      <4>1. access' = [new EXCEPT !.own = access.issued + 1] /\ access.issued < MaxDigest
        BY <1>6, <3>1 DEF Evaluate
      <4>2. /\ new \in Access /\ new.issued = access.issued + 1
            /\ \A c \in Audience : new.live[c] = IF c = "*" THEN access.issued + 1
                                                 ELSE access.live[c]
        BY <1>1, <4>1, IssueCounts DEF Audience
      <4> HIDE DEF new
      <4>3. access.issued + 1 \in 0..MaxDigest
        BY <1>1, <4>1, BoundAssumption
      <4>4. access' \in Access /\ access'.issued = new.issued /\ access'.live = new.live
        BY <4>1, <4>2, <4>3 DEF Access
      <4>5. QED
        BY <1>1, <4>2, <4>4
    <3>2. CASE access.own # 0
      <4>1. access' = access
        BY <1>6, <3>2 DEF Evaluate
      <4>2. QED
        BY <1>1, <4>1
    <3>3. QED
      BY <3>1, <3>2
  <2>4. token' \in [revoked: BOOLEAN, expired: BOOLEAN]
    BY <1>1, <1>6 DEF Evaluate
  <2>5. job' \in {"NONE", "OPEN", "DONE", "CANCELLED"} /\ GrantsAtRest
    BY <1>1, <1>6 DEF Evaluate, GrantsAtRest
  <2>6. QED
    BY <2>1, <2>2, <2>3, <2>4, <2>5, AccessSafe
<1>7. QED
  BY <1>2, <1>3, <1>4, <1>5, <1>6 DEF Audience

\* A step of a resolve, which writes nothing but where it stands.
LEMMA GoSafe ==
  ASSUME IInv, NEW r \in Requests, NEW row \in Request, Go(r, row),
         row.at = "LOCKED" => /\ secret[row.secret].status = "ACTIVE"
                              /\ secret[row.secret].version = row.version,
         row.late => /\ row.at = "ARRIVED"
                     /\ row.digest \in 1..component.ended /\ row.kind = "COMPONENT",
         row.at = "IDLE" \/ row.secret \in Secrets
  PROVE  IInv'
<1> USE DEF IInv
<1>1. request' = [request EXCEPT ![r] = row]
  BY DEF Go
<1>2. TypeOK'
  BY <1>1 DEF Go, TypeOK
<1>3. \A q \in Requests : request'[q] = IF q = r THEN row ELSE request[q]
  BY <1>1 DEF TypeOK
<1>4. HeldIsCurrent'
  BY <1>3 DEF Go, HeldIsCurrent
<1>5. OldTokensAdmitNothing' /\ LateIsEnded' /\ Named'
  BY <1>3 DEF Go, OldTokensAdmitNothing, LateIsEnded, Named
<1>6. QED
  BY <1>2, <1>4, <1>5 DEF Go, GrantsOfThisLife, EndedAreRevoked

LEMMA ArriveSafe ==
  ASSUME IInv, NEW r \in Requests, NEW kind \in {"COMPONENT", "INTEGRATION_TOKEN"},
         NEW digest \in 0..MaxDigest, NEW s \in Secrets, Arrive(r, kind, digest, s),
         digest # 0 => kind = "COMPONENT"
  PROVE  IInv'
<1> DEFINE late == digest \in 1..component.ended
           row == [Idle EXCEPT !.at = "ARRIVED", !.kind = kind, !.digest = digest, !.secret = s,
                               !.late = late]
<1>1. component.ended \in 0..MaxDigest
  BY DEF IInv, TypeOK, Component
<1>2. late \in BOOLEAN /\ (late => digest \in 1..component.ended /\ kind = "COMPONENT")
  BY <1>1, BoundAssumption
<1>3. Go(r, row)
  BY DEF Arrive
<1> HIDE DEF late
<1>4. /\ row.at = "ARRIVED" /\ row.kind = kind /\ row.digest = digest /\ row.secret = s
      /\ row.late = late /\ row \in Request
  <2>1. 0 \in 0..MaxVersion
    BY BoundAssumption
  <2>2. QED
    BY <1>2, <2>1 DEF Idle, Request
<1> HIDE DEF row
<1>5. QED
  BY <1>2, <1>3, <1>4, GoSafe

\* A late request is not read, since its token is revoked, and gets no further.
LEMMA AdmissionSafe ==
  ASSUME IInv, NEW r \in Requests, AdmitToken(r) \/ Read(r) \/ Admit(r)
  PROVE  IInv'
<1>1. /\ request[r] \in Request
      /\ request[r].late => /\ request[r].at = "ARRIVED" /\ request[r].kind = "COMPONENT"
                            /\ request[r].digest \in 1..component.ended
  BY DEF IInv, TypeOK, OldTokensAdmitNothing, LateIsEnded
<1>2. ~request[r].late
  <2>1. component.ended \in Nat /\ access.live \in [Audience -> 0..MaxDigest]
    BY BoundAssumption DEF IInv, TypeOK, Component, Access
  <2>2. \A a \in Audience : access.live[a] \notin 1..component.ended
    BY <2>1, BoundAssumption DEF IInv, EndedAreRevoked
  <2>3. QED
    BY <1>1, <2>2 DEF AdmitToken, Read, Admit
<1>3. ASSUME NEW row \in Request, row.at \in {"READ", "ADMITTED"}, row.late = request[r].late,
             row.secret = request[r].secret, request[r].at # "IDLE", Go(r, row)
      PROVE  IInv'
  BY <1>2, <1>3, GoSafe DEF IInv, Named
<1>4. CASE Read(r)
  <2> DEFINE row == [request[r] EXCEPT !.at = "READ", !.read = Standing]
  <2>1. Standing \in {"UNREAD", "ACTIVE", "CLOSED"}
    BY DEF Standing
  <2>2. row \in Request /\ row.at = "READ" /\ row.late = request[r].late
        /\ row.secret = request[r].secret
    BY <1>1, <2>1 DEF Request
  <2>3. Go(r, row) /\ request[r].at # "IDLE"
    BY <1>4 DEF Read
  <2> HIDE DEF row
  <2>4. QED
    BY <1>3, <2>2, <2>3
<1>5. CASE AdmitToken(r) \/ Admit(r)
  <2> DEFINE row == [request[r] EXCEPT !.at = "ADMITTED"]
  <2>1. row \in Request /\ row.at = "ADMITTED" /\ row.late = request[r].late
        /\ row.secret = request[r].secret
    BY <1>1 DEF Request
  <2>2. Go(r, row) /\ request[r].at # "IDLE"
    BY <1>5 DEF AdmitToken, Admit
  <2> HIDE DEF row
  <2>3. QED
    BY <1>3, <2>1, <2>2
<1>6. QED
  BY <1>4, <1>5

\* A resolve holds the lock only of a row that matched what it had selected.
LEMMA ServiceSafe ==
  ASSUME IInv, NEW r \in Requests, Select(r) \/ Lock(r) \/ Serve(r) \/ End(r)
  PROVE  IInv'
<1>1. request[r] \in Request /\ (request[r].late => request[r].at = "ARRIVED")
  BY DEF IInv, TypeOK, OldTokensAdmitNothing
<1>2. request[r].at = "IDLE" \/ request[r].secret \in Secrets
  BY DEF IInv, Named
<1>3. CASE Select(r)
  <2> DEFINE row == [request[r] EXCEPT !.at = "SELECTED",
                                       !.version = secret[request[r].secret].version]
  <2>1. request[r].secret \in Secrets /\ Go(r, row) /\ ~request[r].late
    BY <1>1, <1>2, <1>3 DEF Select
  <2>2. secret[request[r].secret].version \in 0..MaxVersion
    BY <2>1, SecretFields DEF IInv
  <2>3. /\ row \in Request /\ row.at = "SELECTED" /\ row.late = request[r].late
        /\ row.secret = request[r].secret
    BY <1>1, <2>2 DEF Request
  <2> HIDE DEF row
  <2>4. QED
    BY <2>1, <2>3, GoSafe
<1>4. CASE Lock(r)
  <2> DEFINE row == [request[r] EXCEPT !.at = "LOCKED"]
  <2>1. /\ row \in Request /\ row.at = "LOCKED" /\ row.late = request[r].late
        /\ row.secret = request[r].secret /\ row.version = request[r].version
    BY <1>1 DEF Request
  <2>2. Go(r, row) /\ ~request[r].late /\ StillMatches(r)
        /\ request[r].secret \in Secrets
    BY <1>1, <1>2, <1>4 DEF Lock
  <2> HIDE DEF row
  <2>3. QED
    BY <2>1, <2>2, GoSafe DEF StillMatches
<1>5. CASE Serve(r)
  <2> DEFINE row == [request[r] EXCEPT !.at = "SERVED"]
  <2>1. row \in Request /\ row.at = "SERVED" /\ row.late = request[r].late
        /\ row.secret = request[r].secret
    BY <1>1 DEF Request
  <2>2. Go(r, row) /\ ~request[r].late /\ request[r].secret \in Secrets
    BY <1>1, <1>2, <1>5 DEF Serve
  <2> HIDE DEF row
  <2>3. QED
    BY <2>1, <2>2, GoSafe
<1>6. CASE End(r)
  <2>1. Idle \in Request /\ ~Idle.late /\ Idle.at = "IDLE"
    BY BoundAssumption DEF Idle, Request
  <2>2. QED
    BY <1>6, <2>1, GoSafe DEF End
<1>7. QED
  BY <1>3, <1>4, <1>5, <1>6

LEMMA StepSafe == IInv /\ [Next]_vars => IInv'
<1> SUFFICES ASSUME IInv, [Next]_vars
             PROVE  IInv'
  OBVIOUS
<1>1. CASE Administrator
  BY <1>1, SecretSafe, GrantSafe, LifeSafe, EndSafe, TokenSafe DEF Administrator
<1>2. CASE Onboarding
  BY <1>2, EndSafe, TokenSafe DEF Onboarding
<1>3. CASE Control
  BY <1>3, LifeSafe DEF Control
<1>4. CASE Resolve
  <2>1. ASSUME NEW r \in Requests, NEW s \in Secrets, Arrive(r, "INTEGRATION_TOKEN", 0, s)
        PROVE  IInv'
    BY <2>1, ArriveSafe, BoundAssumption
  <2>2. ASSUME NEW r \in Requests, NEW s \in Secrets, NEW digest \in 1..access.issued,
               Arrive(r, "COMPONENT", digest, s)
        PROVE  IInv'
    <3>1. access.issued \in 0..MaxDigest
      BY DEF IInv, TypeOK, Access
    <3>2. digest \in 0..MaxDigest
      BY <3>1, BoundAssumption
    <3>3. QED
      BY <2>2, <3>2, ArriveSafe
  <2>3. QED
    BY <1>4, <2>1, <2>2, AdmissionSafe, ServiceSafe DEF Resolve
<1>5. CASE UNCHANGED vars
  BY <1>5 DEF vars, IInv, TypeOK, HeldIsCurrent, GrantsOfThisLife, OldTokensAdmitNothing,
              EndedAreRevoked, LateIsEnded, Named
<1>6. CASE IssueRuntimeToken
  BY <1>6, TokenSafe
<1>7. QED
  BY <1>1, <1>2, <1>3, <1>4, <1>5, <1>6 DEF Next

\* A resolve that holds its lock is answered by one step, under its grant.
LEMMA OnlyServeServes ==
  ASSUME IInv, Next, NEW r \in Requests,
         request[r].at = "LOCKED", request'[r].at = "SERVED"
  PROVE  Granted(r)
<1>1. request' # request
  OBVIOUS
<1>2. PICK q \in Requests :
        \/ \E s, kind, digest : Arrive(q, kind, digest, s)
        \/ AdmitToken(q) \/ Read(q) \/ Admit(q) \/ Select(q) \/ Lock(q) \/ Serve(q) \/ End(q)
  <2>1. Resolve
    BY <1>1 DEF Next, Administrator, Onboarding, Control, IssueRuntimeToken, ChangeSecret,
       CreateSecret, RotateSecret, SetSecretStatus, DeleteSecret, RestoreSecret, GrantSecret,
       RevokeSecretGrant, CreateOnboarding, Evaluate, CleanUp, TokenEnds, ChangeComponent,
       RequestEnable, RequestDisable, Confirm, GiveUp, ReportFailure, GoStale, Quarantine,
       Restore, Retire, Deregister, RotateAccess, RevokeAccess
  <2>2. QED
    BY <2>1 DEF Resolve
<1>3. /\ request[q] \in Request /\ request \in [Requests -> Request]
  BY DEF IInv, TypeOK
<1>4. ASSUME NEW row, row.at # "SERVED", Go(q, row)
      PROVE  FALSE
  <2>1. \A p \in Requests : request'[p].at = "SERVED" => request[p].at = "SERVED"
    BY <1>3, <1>4 DEF Go
  <2>2. QED
    BY <2>1
<1>5. Serve(q)
  <2>1. ASSUME NEW s, NEW kind, NEW digest, Arrive(q, kind, digest, s)
        PROVE  FALSE
    BY <2>1, <1>4 DEF Arrive, Idle
  <2>2. ~(AdmitToken(q) \/ Read(q) \/ Admit(q) \/ Select(q) \/ Lock(q))
    BY <1>3, <1>4 DEF AdmitToken, Read, Admit, Select, Lock, Request
  <2>3. ~End(q)
    BY <1>4 DEF End, Idle
  <2>4. QED
    BY <1>2, <2>1, <2>2, <2>3
<1>6. q = r
  BY <1>3, <1>5 DEF Serve, Go
<1>7. QED
  BY <1>5, <1>6 DEF Serve

THEOREM Invariance == Spec => []IInv
BY InitSafe, StepSafe, PTL DEF Spec

-----------------------------------------------------------------------------
\* The types of all rows.
THEOREM TypeCorrect == Spec => []TypeOK
<1>1. IInv => TypeOK
  BY DEF IInv
<1>2. QED
  BY <1>1, Invariance, PTL

\* The value a resolve holds is current until its transaction ends.
THEOREM HeldIsCurrentAlways == Spec => []HeldIsCurrent
<1>1. IInv => HeldIsCurrent
  BY DEF IInv
<1>2. QED
  BY <1>1, Invariance, PTL

\* A component is served on its token's grant, or on a direct one given since the
\* secret it hangs on was last deleted.
THEOREM ServedOnPresentGrantAlways == Spec => ServedOnPresentGrant
<1>1. ASSUME IInv, Next, NEW r \in Requests, request[r].kind = "COMPONENT",
             request[r].at = "LOCKED", request'[r].at = "SERVED",
             request[r].secret \notin TokenGrants
      PROVE  \E g \in direct : /\ g.all \/ g.secret = request[r].secret
                              /\ g.life = secret[g.secret].life
                              /\ secret[g.secret].status # "DELETED"
  <2>1. Granted(r)
    BY <1>1, OnlyServeServes
  <2>2. QED
    BY <1>1, <2>1 DEF Granted, IInv, GrantsOfThisLife
<1>2. IInv /\ [Next]_vars =>
        [\A r \in Requests :
           request[r].kind = "COMPONENT" /\ request[r].at = "LOCKED" /\ request'[r].at = "SERVED" =>
             \/ request[r].secret \in TokenGrants
             \/ \E g \in direct : /\ g.all \/ g.secret = request[r].secret
                                  /\ g.life = secret[g.secret].life
                                  /\ secret[g.secret].status # "DELETED"]_vars
  BY <1>1
<1>3. QED
  BY <1>2, Invariance, PTL DEF Spec, ServedOnPresentGrant

\* The access tokens a component had when it was retired or deregistered admit no
\* request that arrives later.
THEOREM OldTokensAdmitNothingAlways == Spec => []OldTokensAdmitNothing
<1>1. IInv => OldTokensAdmitNothing
  BY DEF IInv
<1>2. QED
  BY <1>1, Invariance, PTL
=============================================================================
