---------------------------- MODULE Access_proofs ----------------------------
(***************************************************************************)
(* Theorems about the two halves of domain/auth.ts and what asks them.     *)
(*                                                                         *)
(* ManagedAccess: its type invariant, the three invariants the run checks, *)
(* and that an invalidated token stays invalidated.  None of these is      *)
(* inductive.  What carries them is that epochs only grow past those the   *)
(* tokens hold (Behind), and that a call whose token is current has loaded *)
(* the revision that is active (InFlight).                                 *)
(*                                                                         *)
(* AdminIdentity: the types, what an honoured session proves, and the      *)
(* reach of a revocation, for every number of accounts, sessions, logins   *)
(* and epochs.                                                             *)
(***************************************************************************)
EXTENDS ManagedAccess, AdminIdentity, TLAPS

-----------------------------------------------------------------------------
(* ManagedAccess *)

\* No token holds an epoch the service has not had, and an issued token has a
\* credential that was created.
Behind ==
  \A t \in Tokens : token[t].state # "NONE" =>
    /\ token[t].credential \in Credentials
    /\ credential[token[t].credential] # "NONE"
    /\ token[t].permission <= service.permission
    /\ token[t].revision <= service.revision

\* A call has an issued token, and has loaded a manifest: the active one, if
\* the token was issued under the active revision.
InFlight ==
  \A k \in Calls : call[k].at # "IDLE" =>
    /\ call[k].token \in Tokens
    /\ token[call[k].token].state # "NONE"
    /\ call[k].loaded \in Manifests
    /\ token[call[k].token].revision = service.revision =>
         call[k].loaded = service.manifest

\* A registered service has a manifest, and only such a one is enabled.
Registered ==
  /\ service.lifecycle # "NONE" => service.manifest \in Manifests
  /\ service.api = "ENABLED" => service.lifecycle # "NONE"

IInv ==
  /\ TypeOK
  /\ Registered
  /\ Behind
  /\ InFlight
  /\ SameRevision
  /\ IssuedWithScopes
  /\ OverlapOnly

-----------------------------------------------------------------------------

LEMMA InitInv == Init => IInv
  BY NoneAssumption
     DEF Init, IInv, TypeOK, Service, Conditions, Holding, ScopeSet, CredentialState, Token,
         TokenState,
         Call, CallState, NoToken, NoCall, Registered, Behind, InFlight,
         SameRevision, IssuedWithScopes, OverlapOnly

\* The integration client: a new revision leaves every token behind.
LEMMA ActivatedType ==
  ASSUME TypeOK, NEW m \in Manifests, NEW holds \in Holding
  PROVE  /\ Activated(m, holds) \in Service
         /\ Activated(m, holds).manifest = m
         /\ Activated(m, holds).revision = service.revision + 1
         /\ Activated(m, holds).permission = service.permission
         /\ Activated(m, holds).api = service.api
         /\ Activated(m, holds).lifecycle = service.lifecycle
<1>1. service \in Service
  BY DEF TypeOK
<1>2. service.revision + 1 \in Nat
  BY <1>1 DEF Service
<1>3. Activated(m, holds) \in Service
  BY <1>1, <1>2 DEF Service, Activated
<1>4. /\ Activated(m, holds).manifest = m
      /\ Activated(m, holds).revision = service.revision + 1
      /\ Activated(m, holds).permission = service.permission
      /\ Activated(m, holds).api = service.api
      /\ Activated(m, holds).lifecycle = service.lifecycle
  BY <1>1 DEF Service, Activated
<1> QED
  BY <1>3, <1>4

LEMMA RevisionInv ==
  ASSUME IInv, service' \in Service, service'.manifest \in Manifests,
         service'.revision = service.revision + 1,
         service'.permission = service.permission, Registered',
         NEW m \in Manifests, Seed(m),
         UNCHANGED <<credential, granted, token, call>>
  PROVE  IInv'
<1>1. TypeOK'
  BY RequiresAssumption DEF IInv, TypeOK, Seed, ScopeSet
<1>3. Behind'
  <2> SUFFICES ASSUME NEW t \in Tokens, token[t].state # "NONE"
               PROVE  /\ token[t].credential \in Credentials
                      /\ credential[token[t].credential] # "NONE"
                      /\ token[t].permission <= service.permission
                      /\ token[t].revision <= service.revision + 1
    BY DEF Behind
  <2>1. token[t] \in Token /\ service \in Service
    BY DEF IInv, TypeOK
  <2> QED
    BY <2>1 DEF IInv, Behind, Token, Service
<1>4. InFlight'
  <2> SUFFICES ASSUME NEW k \in Calls, call[k].at # "IDLE"
               PROVE  /\ call[k].token \in Tokens
                      /\ token[call[k].token].state # "NONE"
                      /\ call[k].loaded \in Manifests
                      /\ token[call[k].token].revision # service.revision + 1
    BY DEF InFlight
  <2>1. /\ call[k].token \in Tokens
        /\ token[call[k].token].state # "NONE"
        /\ call[k].loaded \in Manifests
    BY DEF IInv, InFlight
  <2>2. token[call[k].token] \in Token /\ service \in Service
    BY <2>1 DEF IInv, TypeOK
  <2>3. token[call[k].token].revision <= service.revision
    BY <2>1 DEF IInv, Behind
  <2> QED
    BY <2>1, <2>2, <2>3 DEF Token, Service
<1>5. SameRevision' /\ IssuedWithScopes' /\ OverlapOnly'
  BY DEF IInv, SameRevision, IssuedWithScopes, OverlapOnly
<1> QED
  BY <1>1, <1>3, <1>4, <1>5 DEF IInv

LEMMA ClientInv == ASSUME IInv, Client PROVE IInv'
<1> PICK m \in Manifests, answers \in Answers, holds \in Holding :
      Register(m, answers, holds) \/ Revise(m, answers, holds)
  BY DEF Client
<1>0. service \in Service
  BY DEF IInv, TypeOK
<1>1. /\ Activated(m, holds) \in Service
      /\ Activated(m, holds).manifest = m
      /\ Activated(m, holds).revision = service.revision + 1
      /\ Activated(m, holds).permission = service.permission
      /\ Activated(m, holds).api = service.api
      /\ Activated(m, holds).lifecycle = service.lifecycle
  BY ActivatedType DEF IInv
<1>2. /\ service' \in Service
      /\ service'.manifest = m
      /\ service'.revision = service.revision + 1
      /\ service'.permission = service.permission
      /\ service'.lifecycle # "NONE"
  BY <1>1 DEF Register, Inserted, Revise, Service
<1>3. Registered'
  BY <1>2 DEF Registered
<1>4. Seed(m) /\ UNCHANGED <<credential, granted, token, call>>
  BY DEF Register, Revise
<1> QED
  BY <1>2, <1>3, <1>4, RevisionInv

\* Steps that write the service row and leave manifest and epochs alone.
LEMMA ServiceInv ==
  ASSUME IInv, service' \in Service, service'.manifest = service.manifest,
         service'.revision = service.revision,
         service'.permission = service.permission,
         Registered',
         UNCHANGED <<catalog, credential, granted, token, call>>
  PROVE  IInv'
<1>1. TypeOK'
  BY DEF IInv, TypeOK
<1>2. Behind' /\ InFlight'
  BY DEF IInv, Behind, InFlight
<1>3. SameRevision' /\ IssuedWithScopes' /\ OverlapOnly'
  BY DEF IInv, SameRevision, IssuedWithScopes, OverlapOnly
<1> QED
  BY <1>1, <1>2, <1>3 DEF IInv

LEMMA EnableInv == ASSUME IInv, Enable PROVE IInv'
<1>1. /\ service' \in Service
      /\ service'.manifest = service.manifest
      /\ service'.revision = service.revision
      /\ service'.permission = service.permission
      /\ service'.lifecycle = "TRIAL"
  BY DEF IInv, TypeOK, Service, Enable, Opened
<1>2. Registered'
  BY <1>1 DEF IInv, Registered, Enable
<1> QED
  BY <1>1, <1>2, ServiceInv DEF Enable

LEMMA DisableInv == ASSUME IInv, Disable PROVE IInv'
<1>1. /\ service' \in Service
      /\ service'.manifest = service.manifest
      /\ service'.revision = service.revision
      /\ service'.permission = service.permission
      /\ service'.lifecycle = "REGISTERED_DISABLED"
  BY DEF IInv, TypeOK, Service, Disable, Closed
<1>2. Registered'
  BY <1>1 DEF IInv, Registered, Disable
<1> QED
  BY <1>1, <1>2, ServiceInv DEF Disable

\* Monitor and passing time: they change what holds of the service.
LEMMA HoldsInv ==
  ASSUME IInv, NEW holds \in Holding, service' = [service EXCEPT !.holds = holds],
         UNCHANGED <<catalog, credential, granted, token, call>>
  PROVE  IInv'
<1>1. /\ service' \in Service
      /\ service'.manifest = service.manifest
      /\ service'.revision = service.revision
      /\ service'.permission = service.permission
      /\ service'.lifecycle = service.lifecycle
      /\ service'.api = service.api
  BY DEF IInv, TypeOK, Service
<1>2. Registered'
  BY <1>1 DEF IInv, Registered
<1> QED
  BY <1>1, <1>2, ServiceInv

LEMMA MonitorInv == ASSUME IInv, Monitor PROVE IInv'
<1>1. ASSUME NEW evidence \in SUBSET {"PROBED", "ACCEPTED"}, Probe(evidence) PROVE IInv'
  <2>1. (service.holds \cap {"REVIEWED"}) \cup evidence \in Holding
    BY DEF Holding, Conditions
  <2> QED
    BY <1>1, <2>1, HoldsInv DEF Probe
<1>2. CASE InternalError
  <2>1. service.holds \ {"ACCEPTED"} \in Holding
    BY DEF IInv, TypeOK, Service, Holding, Conditions
  <2> QED
    BY <1>2, <2>1, HoldsInv DEF InternalError
<1> QED
  BY <1>1, <1>2 DEF Monitor

LEMMA EvidenceLapsesInv == ASSUME IInv, EvidenceLapses PROVE IInv'
<1>1. service.holds \ {"PROBED", "ACCEPTED"} \in Holding
  BY DEF IInv, TypeOK, Service, Holding, Conditions
<1> QED
  BY <1>1, HoldsInv DEF EvidenceLapses

LEMMA ReviewLapsesInv == ASSUME IInv, ReviewLapses PROVE IInv'
<1>1. service.holds \ {"REVIEWED"} \in Holding
  BY DEF IInv, TypeOK, Service, Holding, Conditions
<1> QED
  BY <1>1, HoldsInv DEF ReviewLapses

-----------------------------------------------------------------------------
(* Steps on credentials *)

LEMMA CreateCredentialInv ==
  ASSUME IInv, NEW c \in Credentials, CreateCredential(c) PROVE IInv'
<1>1. TypeOK'
  BY DEF IInv, TypeOK, CreateCredential, CredentialState
<1>2. Registered'
  BY DEF IInv, Registered, CreateCredential
<1>3. Behind' /\ InFlight'
  BY DEF IInv, TypeOK, Behind, InFlight, CreateCredential
<1>4. SameRevision' /\ IssuedWithScopes' /\ OverlapOnly'
  BY DEF IInv, SameRevision, IssuedWithScopes, OverlapOnly, CreateCredential
<1> QED
  BY <1>1, <1>2, <1>3, <1>4 DEF IInv

LEMMA CredentialExpiresInv ==
  ASSUME IInv, NEW c \in Credentials, CredentialExpires(c) PROVE IInv'
<1>1. TypeOK'
  BY DEF IInv, TypeOK, CredentialExpires, CredentialState
<1>2. Registered'
  BY DEF IInv, Registered, CredentialExpires
<1>3. Behind' /\ InFlight'
  BY DEF IInv, TypeOK, Behind, InFlight, CredentialExpires
<1>4. SameRevision' /\ IssuedWithScopes' /\ OverlapOnly'
  BY DEF IInv, SameRevision, IssuedWithScopes, OverlapOnly, CredentialExpires
<1> QED
  BY <1>1, <1>2, <1>3, <1>4 DEF IInv

\* What a withdrawal does to a token: it may be revoked, and nothing else.
LEMMA WithdrawnToken ==
  ASSUME TypeOK, NEW c \in Credentials, NEW t \in Tokens
  PROVE  /\ Withdrawn(c)[t] \in Token
         /\ Withdrawn(c)[t].state = "LIVE" =>
              token[t].state = "LIVE" /\ token[t].credential # c
         /\ Withdrawn(c)[t].state = "NONE" <=> token[t].state = "NONE"
         /\ Withdrawn(c)[t].credential = token[t].credential
         /\ Withdrawn(c)[t].scopes = token[t].scopes
         /\ Withdrawn(c)[t].permission = token[t].permission
         /\ Withdrawn(c)[t].revision = token[t].revision
<1>1. token[t] \in Token
  BY DEF TypeOK
<1>2. Withdrawn(c)[t] = IF token[t].credential = c /\ token[t].state # "NONE"
                          THEN [token[t] EXCEPT !.state = "REVOKED"] ELSE token[t]
  BY DEF Withdrawn
<1>3. CASE token[t].credential = c /\ token[t].state # "NONE"
  BY <1>1, <1>2, <1>3 DEF Token, TokenState
<1>4. CASE ~(token[t].credential = c /\ token[t].state # "NONE")
  BY <1>1, <1>2, <1>4 DEF Token, TokenState
<1> QED
  BY <1>3, <1>4

LEMMA WithdrawInv ==
  ASSUME IInv, NEW c \in Credentials, NEW to \in {"REVOKED", "DELETED"}, Withdraw(c, to)
  PROVE  IInv'
<1>0. \A t \in Tokens :
        /\ token'[t] \in Token
        /\ token'[t].state = "LIVE" => token[t].state = "LIVE" /\ token[t].credential # c
        /\ token'[t].state = "NONE" <=> token[t].state = "NONE"
        /\ token'[t].credential = token[t].credential
        /\ token'[t].scopes = token[t].scopes
        /\ token'[t].permission = token[t].permission
        /\ token'[t].revision = token[t].revision
  BY WithdrawnToken DEF IInv, Withdraw
<1>1. TypeOK'
  <2>1. credential' \in [Credentials -> CredentialState]
    BY DEF IInv, TypeOK, Withdraw, CredentialState
  <2>2. granted' \in [Credentials -> ScopeSet]
    BY DEF IInv, TypeOK, Withdraw, ScopeSet
  <2>3. token' \in [Tokens -> Token]
    <3>1. token' = [t \in Tokens |-> token'[t]]
      BY DEF Withdraw, Withdrawn
    <3> QED
      BY <1>0, <3>1
  <2> QED
    BY <2>1, <2>2, <2>3 DEF IInv, TypeOK, Withdraw
<1>2. Registered'
  BY DEF IInv, Registered, Withdraw
<1>3. Behind'
  BY <1>0 DEF IInv, TypeOK, Behind, Withdraw
<1>4. InFlight'
  BY <1>0 DEF IInv, InFlight, Withdraw
<1>5. SameRevision'
  BY DEF IInv, SameRevision, Withdraw
<1>6. IssuedWithScopes'
  <2>1. granted \in [Credentials -> ScopeSet]
    BY DEF IInv, TypeOK
  <2>2. \A d \in Credentials : granted'[d] \subseteq granted[d]
    BY <2>1 DEF Withdraw
  <2>3. service' = service
    BY DEF Withdraw
  <2> QED
    BY <1>0, <2>2, <2>3 DEF IInv, IssuedWithScopes, Behind
<1>7. OverlapOnly'
  <2>1. call' = call /\ service' = service
    BY DEF Withdraw
  <2> QED
    BY <1>0, <2>1 DEF IInv, InFlight, OverlapOnly
<1> QED
  BY <1>1, <1>2, <1>3, <1>4, <1>5, <1>6, <1>7 DEF IInv

\* New permissions leave every token behind.
LEMMA ReplacePermissionsInv ==
  ASSUME IInv, NEW c \in Credentials, NEW scopes \in ScopeSet, ReplacePermissions(c, scopes)
  PROVE  IInv'
<1>1. /\ service \in Service
      /\ service' \in Service
      /\ service'.manifest = service.manifest
      /\ service'.lifecycle = service.lifecycle
      /\ service'.api = service.api
      /\ service'.revision = service.revision
      /\ service'.permission = service.permission + 1
  BY DEF IInv, TypeOK, Service, ReplacePermissions, Bumped
<1>2. TypeOK'
  BY <1>1 DEF IInv, TypeOK, ReplacePermissions
<1>3. Registered'
  BY <1>1 DEF IInv, Registered
<1>4. \A t \in Tokens : token[t].state # "NONE" => token[t].permission < service'.permission
  <2> SUFFICES ASSUME NEW t \in Tokens, token[t].state # "NONE"
               PROVE  token[t].permission < service'.permission
    OBVIOUS
  <2>1. token[t] \in Token /\ token[t].permission <= service.permission
    BY DEF IInv, TypeOK, Behind
  <2> QED
    BY <1>1, <2>1 DEF Token, Service
<1>5. Behind'
  <2> SUFFICES ASSUME NEW t \in Tokens, token[t].state # "NONE"
               PROVE  /\ token[t].credential \in Credentials
                      /\ credential[token[t].credential] # "NONE"
                      /\ token[t].permission <= service'.permission
                      /\ token[t].revision <= service'.revision
    BY DEF Behind, ReplacePermissions
  <2>1. token[t] \in Token /\ token[t].permission < service'.permission
    BY <1>4 DEF IInv, TypeOK
  <2> QED
    BY <1>1, <2>1 DEF IInv, Behind, Token, Service
<1>6. InFlight' /\ SameRevision'
  BY <1>1 DEF IInv, InFlight, SameRevision, ReplacePermissions
<1>7. \A t \in Tokens : token[t].state # "NONE" => token[t].permission # service'.permission
  <2> SUFFICES ASSUME NEW t \in Tokens, token[t].state # "NONE"
               PROVE  token[t].permission # service'.permission
    OBVIOUS
  <2>1. token[t] \in Token /\ token[t].permission < service'.permission
    BY <1>4 DEF IInv, TypeOK
  <2> QED
    BY <1>1, <2>1 DEF Token, Service
<1>8. IssuedWithScopes'
  BY <1>7 DEF IssuedWithScopes, ReplacePermissions
<1>9. OverlapOnly'
  BY <1>7 DEF IInv, InFlight, OverlapOnly, ReplacePermissions
<1> QED
  BY <1>2, <1>3, <1>5, <1>6, <1>8, <1>9 DEF IInv

-----------------------------------------------------------------------------
(* Steps on tokens *)

LEMMA IssueInv ==
  ASSUME IInv, NEW c \in Credentials, NEW t \in Tokens, Issue(c, t)
  PROVE  IInv'
<1> DEFINE new == [state |-> "LIVE", credential |-> c, scopes |-> granted[c],
                   permission |-> service.permission, revision |-> service.revision]
<1>0. /\ service \in Service
      /\ service.permission \in Nat /\ service.revision \in Nat
      /\ granted[c] \in ScopeSet
      /\ token \in [Tokens -> Token]
  BY DEF IInv, TypeOK, Service
<1>1. new \in Token
  BY <1>0 DEF Token, TokenState
<1>2. token' = [token EXCEPT ![t] = new]
  BY DEF Issue, NewToken, CurrentScopes
<1>3. /\ token'[t].state = "LIVE" /\ token'[t].credential = c
      /\ token'[t].scopes = granted[c]
      /\ token'[t].permission = service.permission
      /\ token'[t].revision = service.revision
  BY <1>0, <1>2
<1>4. \A u \in Tokens : u # t => token'[u] = token[u]
  BY <1>0, <1>2
<1>4b. token[t].state = "NONE" /\ credential[c] = "ACTIVE"
  BY DEF Issue, Issuable
<1>5. TypeOK'
  <2>1. token' \in [Tokens -> Token]
    BY <1>0, <1>1, <1>2
  <2> QED
    BY <2>1 DEF IInv, TypeOK, Issue
<1> HIDE DEF new
<1>5b. UNCHANGED <<service, catalog, credential, granted, call>>
  BY DEF Issue
<1>6. Registered'
  BY <1>5b DEF IInv, Registered
<1>7. Behind'
  <2> SUFFICES ASSUME NEW u \in Tokens, token'[u].state # "NONE"
               PROVE  /\ token'[u].credential \in Credentials
                      /\ credential[token'[u].credential] # "NONE"
                      /\ token'[u].permission <= service.permission
                      /\ token'[u].revision <= service.revision
    BY <1>5b DEF Behind
  <2>1. CASE u = t
    BY <1>0, <1>3, <1>4b, <2>1
  <2>2. CASE u # t
    BY <1>4, <2>2 DEF IInv, Behind
  <2> QED
    BY <2>1, <2>2
<1>8. \A k \in Calls : call[k].at # "IDLE" =>
        call[k].token \in Tokens /\ token'[call[k].token] = token[call[k].token]
  BY <1>4, <1>4b DEF IInv, InFlight
<1>9. InFlight'
  BY <1>5b, <1>8 DEF IInv, InFlight
<1>10. SameRevision'
  BY <1>5b DEF IInv, SameRevision
<1>11. IssuedWithScopes'
  BY <1>3, <1>4, <1>5b DEF IInv, IssuedWithScopes
<1>12. OverlapOnly'
  BY <1>5b, <1>8 DEF IInv, OverlapOnly
<1> QED
  BY <1>5, <1>6, <1>7, <1>9, <1>10, <1>11, <1>12 DEF IInv

LEMMA TokenExpiresInv ==
  ASSUME IInv, NEW t \in Tokens, TokenExpires(t) PROVE IInv'
<1>0. /\ token[t].state = "LIVE"
      /\ token' = [token EXCEPT ![t].state = "EXPIRED"]
      /\ token \in [Tokens -> Token]
      /\ UNCHANGED <<service, catalog, credential, granted, call>>
  BY DEF TokenExpires, IInv, TypeOK
<1>1. /\ token'[t] = [token[t] EXCEPT !.state = "EXPIRED"]
      /\ \A u \in Tokens : u # t => token'[u] = token[u]
  BY <1>0
<1>2. \A u \in Tokens :
        /\ token'[u] \in Token
        /\ token'[u].state = "LIVE" => token[u].state = "LIVE"
        /\ token'[u].state = "NONE" <=> token[u].state = "NONE"
        /\ token'[u].credential = token[u].credential
        /\ token'[u].scopes = token[u].scopes
        /\ token'[u].permission = token[u].permission
        /\ token'[u].revision = token[u].revision
  BY <1>0, <1>1 DEF Token, TokenState
<1>3. TypeOK'
  <2>1. token' \in [Tokens -> Token]
    BY <1>0, <1>2
  <2> QED
    BY <1>0, <2>1 DEF IInv, TypeOK
<1>4. Registered' /\ SameRevision'
  BY <1>0 DEF IInv, Registered, SameRevision
<1>5. Behind' /\ InFlight'
  BY <1>0, <1>2 DEF IInv, Behind, InFlight
<1>6. IssuedWithScopes'
  BY <1>0, <1>2 DEF IInv, IssuedWithScopes
<1>7. OverlapOnly'
  BY <1>0, <1>2 DEF IInv, InFlight, OverlapOnly
<1> QED
  BY <1>3, <1>4, <1>5, <1>6, <1>7 DEF IInv

-----------------------------------------------------------------------------
(* Steps of the gateway *)

\* A step of one call leaves the rows and the other calls alone.
LEMMA CallStepInv ==
  ASSUME IInv, UNCHANGED <<service, catalog, credential, granted, token>>,
         NEW k \in Calls, call' \in [Calls -> Call],
         \A j \in Calls : j # k => call'[j] = call[j],
         call'[k].at # "IDLE" =>
           /\ call'[k].token \in Tokens
           /\ token[call'[k].token].state # "NONE"
           /\ call'[k].loaded \in Manifests
           /\ token[call'[k].token].revision = service.revision =>
                call'[k].loaded = service.manifest,
         call'[k].at \in {"TOKEN_OK", "PROBES_OK", "ALLOWED"} =>
           call'[k].checked = call'[k].loaded,
         call'[k].at = "ALLOWED" =>
           \/ Requires[call'[k].loaded] \in token[call'[k].token].scopes
           \/ token[call'[k].token].permission # service.permission
  PROVE  IInv'
<1>1. TypeOK' /\ Registered' /\ Behind' /\ IssuedWithScopes'
  BY DEF IInv, TypeOK, Registered, Behind, IssuedWithScopes
<1>2. InFlight'
  BY DEF IInv, InFlight
<1>3. SameRevision'
  BY DEF IInv, SameRevision
<1>4. OverlapOnly'
  BY DEF IInv, OverlapOnly
<1> QED
  BY <1>1, <1>2, <1>3, <1>4 DEF IInv

LEMMA LoadInv ==
  ASSUME IInv, NEW k \in Calls, NEW t \in Tokens, Load(k, t) PROVE IInv'
<1> DEFINE new == [at |-> "LOADED", token |-> t, loaded |-> service.manifest, checked |-> None]
<1>0. call \in [Calls -> Call] /\ service.manifest \in Manifests
  BY DEF IInv, TypeOK, Registered, Load
<1>1. new \in Call
  BY <1>0 DEF Call, CallState
<1>2. /\ call' = [call EXCEPT ![k] = new]
      /\ UNCHANGED <<service, catalog, credential, granted, token>>
      /\ token[t].state # "NONE"
  BY DEF Load
<1>3. /\ call' \in [Calls -> Call]
      /\ \A j \in Calls : j # k => call'[j] = call[j]
      /\ call'[k].at = "LOADED" /\ call'[k].token = t /\ call'[k].loaded = service.manifest
  BY <1>0, <1>1, <1>2
<1> HIDE DEF new
<1> QED
  BY <1>0, <1>2, <1>3, CallStepInv

LEMMA CheckTokenInv == ASSUME IInv, NEW k \in Calls, CheckToken(k) PROVE IInv'
<1>0. call \in [Calls -> Call] /\ service \in Service
  BY DEF IInv, TypeOK
<1>1. /\ call' = [call EXCEPT ![k].at = "TOKEN_OK", ![k].checked = service.manifest]
      /\ UNCHANGED <<service, catalog, credential, granted, token>>
      /\ token[call[k].token].revision = service.revision
      /\ call[k].at = "LOADED"
  BY DEF CheckToken, TokenAccepted
<1>2. /\ call[k].token \in Tokens
      /\ token[call[k].token].state # "NONE"
      /\ call[k].loaded \in Manifests
      /\ call[k].loaded = service.manifest
  BY <1>1 DEF IInv, InFlight
<1>3. /\ call' \in [Calls -> Call]
      /\ \A j \in Calls : j # k => call'[j] = call[j]
      /\ call'[k].at = "TOKEN_OK" /\ call'[k].checked = service.manifest
      /\ call'[k].token = call[k].token /\ call'[k].loaded = call[k].loaded
  BY <1>0, <1>1 DEF Call, CallState, Service
<1> QED
  BY <1>1, <1>2, <1>3, CallStepInv

LEMMA CheckProbesInv == ASSUME IInv, NEW k \in Calls, CheckProbes(k) PROVE IInv'
<1>0. call \in [Calls -> Call]
  BY DEF IInv, TypeOK
<1>1. /\ call' = [call EXCEPT ![k].at = "PROBES_OK"]
      /\ UNCHANGED <<service, catalog, credential, granted, token>>
      /\ call[k].at = "TOKEN_OK"
  BY DEF CheckProbes
<1>2. /\ call[k].token \in Tokens
      /\ token[call[k].token].state # "NONE"
      /\ call[k].loaded \in Manifests
      /\ token[call[k].token].revision = service.revision => call[k].loaded = service.manifest
      /\ call[k].checked = call[k].loaded
  BY <1>1 DEF IInv, InFlight, SameRevision
<1>3. /\ call' \in [Calls -> Call]
      /\ \A j \in Calls : j # k => call'[j] = call[j]
      /\ call'[k].at = "PROBES_OK" /\ call'[k].checked = call[k].checked
      /\ call'[k].token = call[k].token /\ call'[k].loaded = call[k].loaded
  BY <1>0, <1>1 DEF Call, CallState
<1> QED
  BY <1>1, <1>2, <1>3, CallStepInv

\* Where the overlap is decided: a credential has no scope that a token with
\* the current permission epoch lacks, in whatever state the token is by now.
LEMMA CheckScopesInv == ASSUME IInv, NEW k \in Calls, CheckScopes(k) PROVE IInv'
<1>0. call \in [Calls -> Call]
  BY DEF IInv, TypeOK
<1>1. /\ call' = [call EXCEPT ![k].at = "ALLOWED"]
      /\ UNCHANGED <<service, catalog, credential, granted, token>>
      /\ call[k].at = "PROBES_OK"
      /\ Requires[call[k].loaded] \in granted[token[call[k].token].credential]
  BY DEF CheckScopes, ScopeSuffices, CurrentScopes
<1>2. /\ call[k].token \in Tokens
      /\ token[call[k].token].state # "NONE"
      /\ call[k].loaded \in Manifests
      /\ token[call[k].token].revision = service.revision => call[k].loaded = service.manifest
      /\ call[k].checked = call[k].loaded
  BY <1>1 DEF IInv, InFlight, SameRevision
<1>3. /\ call' \in [Calls -> Call]
      /\ \A j \in Calls : j # k => call'[j] = call[j]
      /\ call'[k].at = "ALLOWED" /\ call'[k].checked = call[k].checked
      /\ call'[k].token = call[k].token /\ call'[k].loaded = call[k].loaded
  BY <1>0, <1>1 DEF Call, CallState
<1>4. \/ Requires[call[k].loaded] \in token[call[k].token].scopes
      \/ token[call[k].token].permission # service.permission
  BY <1>1, <1>2 DEF IInv, IssuedWithScopes
<1> QED
  BY <1>1, <1>2, <1>3, <1>4, CallStepInv

LEMMA EndInv == ASSUME IInv, NEW k \in Calls, Deny(k) \/ Proxy(k) PROVE IInv'
<1>0. call \in [Calls -> Call] /\ NoCall \in Call
  BY DEF IInv, TypeOK, NoCall, Call, CallState
<1>1. /\ call' = [call EXCEPT ![k] = NoCall]
      /\ UNCHANGED <<service, catalog, credential, granted, token>>
  BY DEF Deny, Proxy
<1>2. /\ call' \in [Calls -> Call]
      /\ \A j \in Calls : j # k => call'[j] = call[j]
      /\ call'[k].at = "IDLE"
  BY <1>0, <1>1 DEF NoCall
<1> QED
  BY <1>1, <1>2, CallStepInv
-----------------------------------------------------------------------------
(* Theorems *)

LEMMA NextInv == IInv /\ [Next]_vars => IInv'
<1> SUFFICES ASSUME IInv, [Next]_vars PROVE IInv'
  OBVIOUS
<1>1. CASE Client
  BY <1>1, ClientInv
<1>2. CASE ServiceAdministrator
  BY <1>2, EnableInv, DisableInv DEF ServiceAdministrator
<1>2b. CASE CredentialAdministrator
  BY <1>2b, CreateCredentialInv, WithdrawInv, ReplacePermissionsInv DEF CredentialAdministrator
<1>2c. CASE Monitor
  BY <1>2c, MonitorInv
<1>3. CASE Gateway
  BY <1>3, LoadInv, CheckTokenInv, CheckProbesInv, CheckScopesInv, EndInv DEF Gateway
<1>4. CASE Environment
  BY <1>4, TokenExpiresInv, CredentialExpiresInv, ReviewLapsesInv, EvidenceLapsesInv DEF Environment
<1>5. CASE TokenEndpoint
  BY <1>5, IssueInv DEF TokenEndpoint
<1>6. CASE UNCHANGED vars
  BY <1>6 DEF vars, IInv, TypeOK, Registered, Behind, InFlight, SameRevision,
              IssuedWithScopes, OverlapOnly
<1> QED
  BY <1>1, <1>2, <1>2b, <1>2c, <1>3, <1>4, <1>5, <1>6 DEF Next

LEMMA Invariant == Spec => []IInv
  BY InitInv, NextInv, PTL DEF Spec

\* Every variable keeps its type; in particular a disabled service leaves
\* TRIAL, the one state that is served.
THEOREM TypeCorrect == Spec => []TypeOK
<1>1. IInv => TypeOK
  BY DEF IInv
<1> QED
  BY <1>1, Invariant, PTL

\* A call is authorized for the revision whose upstream it goes to, for any
\* number of calls and revisions.
THEOREM SameRevisionAlways == Spec => []SameRevision
<1>1. IInv => SameRevision
  BY DEF IInv
<1> QED
  BY <1>1, Invariant, PTL

\* A token whose permission epoch is current was issued with every scope that
\* its credential has now.
THEOREM IssuedWithScopesAlways == Spec => []IssuedWithScopes
<1>1. IInv => IssuedWithScopes
  BY DEF IInv
<1> QED
  BY <1>1, Invariant, PTL

\* A call let through on a scope its token was issued without has overlapped a
\* change of permissions.
THEOREM OverlapOnlyAlways == Spec => []OverlapOnly
<1>1. IInv => OverlapOnly
  BY DEF IInv
<1> QED
  BY <1>1, Invariant, PTL

\* A step of the system leaves an invalidated token invalidated: what it lacks,
\* it lacks for good, for the epochs only grow past those it holds.
LEMMA StaysInvalidated ==
  ASSUME IInv, [Next]_vars, NEW t \in Tokens, Invalidated(t)
  PROVE  Invalidated(t)'
<1>0. /\ token[t].state # "NONE" /\ token[t] \in Token
      /\ token[t].credential \in Credentials
      /\ credential[token[t].credential] # "NONE"
      /\ token[t].permission <= service.permission
      /\ token[t].revision <= service.revision
      /\ service \in Service
      /\ credential \in [Credentials -> CredentialState]
  BY DEF IInv, Behind, TypeOK, Invalidated
<1> USE DEF Invalidated
<1>1. CASE Client
  <2> PICK m \in Manifests, answers \in Answers, holds \in Holding :
        Register(m, answers, holds) \/ Revise(m, answers, holds)
    BY <1>1 DEF Client
  <2>1. UNCHANGED <<token, credential>> /\ service'.revision = service.revision + 1
    BY <1>0 DEF Register, Inserted, Revise, Activated, Service
  <2>2. token[t].revision # service.revision + 1
    BY <1>0 DEF Token, Service
  <2> QED
    BY <1>0, <2>1, <2>2
<1>2. CASE ServiceAdministrator
  BY <1>0, <1>2 DEF ServiceAdministrator, Enable, Disable, Opened, Closed, Service
<1>2b. CASE CredentialAdministrator
  <2>2. CASE \E c \in Credentials : CreateCredential(c)
    BY <1>0, <2>2 DEF CreateCredential
  <2>3. CASE \E c \in Credentials, to \in {"REVOKED", "DELETED"} : Withdraw(c, to)
    <3> PICK c \in Credentials, to \in {"REVOKED", "DELETED"} : Withdraw(c, to)
      BY <2>3
    <3>1. /\ token'[t].state = "LIVE" => token[t].state = "LIVE"
          /\ token'[t].state # "NONE"
          /\ token'[t].credential = token[t].credential
          /\ token'[t].permission = token[t].permission
          /\ token'[t].revision = token[t].revision
      BY <1>0, WithdrawnToken DEF IInv, Withdraw
    <3>2. service' = service /\ credential' = [credential EXCEPT ![c] = to]
      BY DEF Withdraw
    <3>3. credential'[token[t].credential] = "ACTIVE" => credential[token[t].credential] = "ACTIVE"
      BY <1>0, <3>2
    <3> QED
      BY <3>1, <3>2, <3>3
  <2>4. CASE \E c \in Credentials, scopes \in ScopeSet : ReplacePermissions(c, scopes)
    <3>1. UNCHANGED <<token, credential>> /\ service'.permission = service.permission + 1
      BY <1>0, <2>4 DEF ReplacePermissions, Bumped, Service
    <3>2. token[t].permission # service.permission + 1
      BY <1>0 DEF Token, Service
    <3> QED
      BY <1>0, <3>1, <3>2
  <2> QED
    BY <1>2b, <2>2, <2>3, <2>4 DEF CredentialAdministrator
<1>2c. CASE Monitor
  BY <1>0, <1>2c DEF Monitor, Probe, InternalError, Service
<1>3. CASE Gateway
  BY <1>0, <1>3 DEF Gateway, Load, CheckToken, CheckProbes, CheckScopes, Deny, Proxy
<1>4. CASE Environment
  <2>1. CASE EvidenceLapses
    BY <1>0, <2>1 DEF EvidenceLapses, Service
  <2>2. CASE \E u \in Tokens : TokenExpires(u)
    <3> PICK u \in Tokens : TokenExpires(u)
      BY <2>2
    <3>1. token \in [Tokens -> Token]
      BY DEF IInv, TypeOK
    <3>2. /\ token'[t].state = "LIVE" => token[t].state = "LIVE"
          /\ token'[t].state # "NONE"
          /\ token'[t].credential = token[t].credential
          /\ token'[t].permission = token[t].permission
          /\ token'[t].revision = token[t].revision
      BY <1>0, <3>1 DEF TokenExpires, Token
    <3> QED
      BY <3>2 DEF TokenExpires
  <2>3. CASE \E c \in Credentials : CredentialExpires(c)
    BY <1>0, <2>3 DEF CredentialExpires
  <2>4. CASE ReviewLapses
    BY <1>0, <2>4 DEF ReviewLapses, Service
  <2> QED
    BY <1>4, <2>1, <2>2, <2>3, <2>4 DEF Environment
<1>5. CASE TokenEndpoint
  <2> PICK c \in Credentials, u \in Tokens : Issue(c, u)
    BY <1>5 DEF TokenEndpoint
  <2>1. u # t
    BY <1>0 DEF Issue
  <2>2. token'[t] = token[t] /\ UNCHANGED <<service, credential>>
    BY <2>1 DEF Issue, IInv, TypeOK
  <2> QED
    BY <2>2
<1>6. CASE UNCHANGED vars
  BY <1>6 DEF vars
<1> QED
  BY <1>1, <1>2, <1>2b, <1>2c, <1>3, <1>4, <1>5, <1>6 DEF Next

\* An invalidated token is never accepted again, whatever is granted, revised
\* or enabled afterwards.
THEOREM NoResurrectionAlways == Spec => NoResurrection
<1>1. IInv /\ [Next]_vars => [\A t \in Tokens : Invalidated(t) => Invalidated(t)']_vars
  BY StaysInvalidated
<1> QED
  BY <1>1, Invariant, PTL DEF Spec, NoResurrection

-----------------------------------------------------------------------------
(* AdminIdentity *)

Roles == {"OWNER", "ADMIN"}
SessionRow == [state: {"NONE", "LIVE", "REVOKED"}, proof: Proof]
LoginRow == [at: {"IDLE", "CHALLENGED", "VERIFIED", "SWEPT"}, proof: Proof,
             trust: BOOLEAN, sweeps: SUBSET Sessions]
Cookie == [account: Accounts, epoch: Epochs, mfa: Epochs]
ChangeRow == [what: {"NONE", "PASSWORD", "MFA"}, epoch: Epochs]

\* The epochs are numbers, and one more is one of them below the bound.
LEMMA EpochFacts ==
  /\ 0 \in Epochs /\ Epochs \subseteq Nat
  /\ \A n \in Epochs : n < MaxEpoch => n + 1 \in Epochs
BY EpochAssumption DEF Epochs

LEMMA Typed ==
  ASSUME AdminTypeOK
  PROVE  /\ account \in [Accounts -> Account]
         /\ session \in [Sessions -> SessionRow]
         /\ login \in [Logins -> LoginRow]
         /\ change \in [Sessions -> ChangeRow]
         /\ trusted \subseteq Cookie
BY DEF AdminTypeOK, SessionRow, LoginRow, ChangeRow, Cookie

LEMMA RowFields ==
  ASSUME NEW row \in Account
  PROVE  /\ row.epoch \in Epochs /\ row.password \in Epochs
         /\ row.mfa \in Epochs /\ row.cuts \in Epochs
BY DEF Account

LEMMA ProofFields ==
  ASSUME NEW p \in Proof
  PROVE  /\ p.account \in Accounts \cup {Nobody} /\ p.epoch \in Epochs
         /\ p.password \in Epochs /\ p.mfa \in Epochs /\ p.cuts \in Epochs
BY DEF Proof

LEMMA InitSafe == AdminInit => AdminIInv
<1> SUFFICES ASSUME AdminInit PROVE AdminIInv
  OBVIOUS
<1>1. 0 \in Epochs
  BY EpochFacts
<1>2. Absent \in Account /\ NoProof \in Proof
  BY <1>1 DEF Absent, Account, NoProof, Proof
<1>3. NoChange \in ChangeRow
  BY <1>1 DEF NoChange, ChangeRow
<1>4. Idle \in LoginRow
  BY <1>2 DEF Idle, LoginRow
<1>5. AdminTypeOK
  BY <1>2, <1>3, <1>4 DEF AdminInit, AdminTypeOK, SessionRow, LoginRow, ChangeRow
<1>6. RowsSound
  <2>1. \A a \in Accounts : account[a].cuts = 0 /\ account[a].epoch = 0
    BY DEF AdminInit, Absent
  <2>2. 0 <= 0
    OBVIOUS
  <2>3. \A a \in Accounts : account[a].cuts <= account[a].epoch
    BY <2>1, <2>2
  <2>4. QED
    BY <2>1, <2>3 DEF RowsSound
<1>7. QED
  BY <1>5, <1>6 DEF AdminInit, AdminIInv, SessionsAgree, LoginsAgree, SweptExist, DevicesAgree,
                      ChangesAreCurrent, Idle

-----------------------------------------------------------------------------
\* A change of accounts keeps every agreement: what it changes of the credentials
\* of an account, it changes under a higher epoch.
Kept(a) ==
  /\ account[a].exists => account'[a].exists
  /\ \/ account'[a].epoch > account[a].epoch
     \/ /\ account'[a].epoch = account[a].epoch
        /\ account[a].exists => /\ account'[a].password = account[a].password
                                /\ account'[a].cuts = account[a].cuts
                                /\ a = Managed \/ account'[a].mfa = account[a].mfa

\* Agrees, AgreesFirst and AgreesFully after the step, of values from before it.
AgreesNext(a, epoch, mfa) ==
  /\ a \in Accounts
  /\ account'[a].exists
  /\ epoch <= account'[a].epoch
  /\ epoch = account'[a].epoch /\ a # Managed /\ account'[a].mfa # 0 => mfa = account'[a].mfa
FirstNext(p) ==
  /\ p.account \in Accounts
  /\ account'[p.account].exists
  /\ p.epoch <= account'[p.account].epoch
  /\ p.epoch = account'[p.account].epoch =>
       p.password = account'[p.account].password /\ p.cuts = account'[p.account].cuts
FullyNext(p) == FirstNext(p) /\ AgreesNext(p.account, p.epoch, p.mfa)

LEMMA AgreesStable ==
  ASSUME account \in [Accounts -> Account], account' \in [Accounts -> Account],
         \A a \in Accounts : Kept(a)
  PROVE  \A a, mfa : \A epoch \in Epochs : Agrees(a, epoch, mfa) => AgreesNext(a, epoch, mfa)
<1> SUFFICES ASSUME NEW a, NEW mfa, NEW epoch \in Epochs, Agrees(a, epoch, mfa)
             PROVE  AgreesNext(a, epoch, mfa)
  OBVIOUS
<1>1. a \in Accounts /\ account[a] \in Account /\ account'[a] \in Account
  BY DEF Agrees
<1>2. epoch \in Nat /\ account[a].epoch \in Nat /\ account'[a].epoch \in Nat
  BY <1>1, RowFields, EpochFacts
<1>3. Kept(a)
  BY <1>1
<1>4. epoch <= account'[a].epoch
  BY <1>2, <1>3 DEF Kept, Agrees
<1>5. epoch = account'[a].epoch => account'[a].epoch = account[a].epoch
  BY <1>2, <1>3 DEF Kept, Agrees
<1>6. QED
  BY <1>1, <1>2, <1>3, <1>4, <1>5 DEF Kept, Agrees, AgreesNext

LEMMA FirstStable ==
  ASSUME account \in [Accounts -> Account], account' \in [Accounts -> Account],
         \A a \in Accounts : Kept(a)
  PROVE  \A p \in Proof : AgreesFirst(p) => FirstNext(p)
<1> SUFFICES ASSUME NEW p \in Proof, AgreesFirst(p)
             PROVE  FirstNext(p)
  OBVIOUS
<1> DEFINE a == p.account
<1>1. a \in Accounts /\ account[a] \in Account /\ account'[a] \in Account
  BY DEF AgreesFirst
<1>2. p.epoch \in Nat /\ account[a].epoch \in Nat /\ account'[a].epoch \in Nat
  BY <1>1, RowFields, ProofFields, EpochFacts
<1>3. Kept(a)
  BY <1>1
<1>4. p.epoch <= account'[a].epoch
  BY <1>2, <1>3 DEF Kept, AgreesFirst
<1>5. p.epoch = account'[a].epoch => account'[a].epoch = account[a].epoch
  BY <1>2, <1>3 DEF Kept, AgreesFirst
<1>6. QED
  BY <1>1, <1>2, <1>3, <1>4, <1>5 DEF Kept, AgreesFirst, FirstNext

LEMMA FullyStable ==
  ASSUME account \in [Accounts -> Account], account' \in [Accounts -> Account],
         \A a \in Accounts : Kept(a)
  PROVE  \A p \in Proof : AgreesFully(p) => FullyNext(p)
BY FirstStable, AgreesStable, ProofFields DEF AgreesFully, FullyNext

\* The accounts at rest.
LEMMA SameKept ==
  ASSUME AdminTypeOK, account' = account
  PROVE  account' \in [Accounts -> Account] /\ \A a \in Accounts : Kept(a)
BY DEF AdminTypeOK, Kept

\* The invariant after the step, from the agreements just defined.
LEMMA NextSafe ==
  ASSUME AdminTypeOK', RowsSound', ChangesAreCurrent', SweptExist',
         \A s \in Sessions : session'[s].state # "NONE" => FullyNext(session'[s].proof),
         \A l \in Logins :
           /\ login'[l].at # "IDLE" => FirstNext(login'[l].proof)
           /\ login'[l].at \in {"VERIFIED", "SWEPT"} => FullyNext(login'[l].proof),
         \A cookie \in trusted' : AgreesNext(cookie.account, cookie.epoch, cookie.mfa)
  PROVE  AdminIInv'
<1>1. SessionsAgree' /\ LoginsAgree' /\ DevicesAgree'
  BY DEF SessionsAgree, LoginsAgree, DevicesAgree, AgreesFully, AgreesFirst, Agrees,
         FullyNext, FirstNext, AgreesNext
<1>2. QED
  BY <1>1 DEF AdminIInv

\* What was there and agreed agrees after a step that keeps the accounts.
LEMMA Carried ==
  ASSUME AdminIInv, account' \in [Accounts -> Account], \A a \in Accounts : Kept(a)
  PROVE  /\ \A s \in Sessions : session[s].state # "NONE" => FullyNext(session[s].proof)
         /\ \A l \in Logins :
              /\ login[l].at # "IDLE" => FirstNext(login[l].proof)
              /\ login[l].at \in {"VERIFIED", "SWEPT"} => FullyNext(login[l].proof)
         /\ \A cookie \in trusted : AgreesNext(cookie.account, cookie.epoch, cookie.mfa)
<1>1. account \in [Accounts -> Account]
  BY DEF AdminIInv, AdminTypeOK
<1>2. /\ \A s \in Sessions : session[s].proof \in Proof
      /\ \A l \in Logins : login[l].proof \in Proof
      /\ \A cookie \in trusted : cookie.epoch \in Epochs
  BY Typed DEF AdminIInv, SessionRow, LoginRow, Cookie
<1>3. QED
  BY <1>1, <1>2, FirstStable, FullyStable, AgreesStable
     DEF AdminIInv, SessionsAgree, LoginsAgree, DevicesAgree

\* Revoking sessions.
LEMMA WithoutFacts ==
  ASSUME AdminTypeOK, NEW S \in SUBSET {s \in Sessions : session[s].state = "LIVE"}
  PROVE  /\ Without(S) \in [Sessions -> SessionRow]
         /\ \A s \in Sessions :
              /\ Without(S)[s].proof = session[s].proof
              /\ Without(S)[s].state = "NONE" <=> session[s].state = "NONE"
              /\ Without(S)[s].state = "LIVE" <=> session[s].state = "LIVE" /\ s \notin S
BY Typed DEF Without, SessionRow

-----------------------------------------------------------------------------
\* A step of the accounts' administration: it may revoke sessions, and a session
\* that is changing credentials and is not revoked keeps its account's epoch.
LEMMA AccountSafe ==
  ASSUME AdminIInv, account' \in [Accounts -> Account], \A a \in Accounts : Kept(a),
         RowsSound', bootstrap' \in BOOLEAN, update' \subseteq Update,
         UNCHANGED <<change, login, trusted>>,
         NEW S \in SUBSET {s \in Sessions : session[s].state = "LIVE"}, session' = Without(S),
         \A s \in Sessions : change[s] # NoChange /\ session[s].state = "LIVE" /\ s \notin S
           => account'[Of(s)].epoch = account[Of(s)].epoch
  PROVE  AdminIInv'
<1>1. /\ session' \in [Sessions -> SessionRow]
      /\ \A s \in Sessions :
           /\ session'[s].proof = session[s].proof
           /\ session'[s].state = "NONE" <=> session[s].state = "NONE"
           /\ session'[s].state = "LIVE" <=> session[s].state = "LIVE" /\ s \notin S
  BY WithoutFacts DEF AdminIInv
<1>2. AdminTypeOK'
  BY <1>1 DEF AdminIInv, AdminTypeOK, SessionRow
<1>3. ChangesAreCurrent'
  BY <1>1 DEF AdminIInv, ChangesAreCurrent, Of
<1>4. SweptExist'
  BY <1>1, Typed DEF AdminIInv, SweptExist, LoginRow
<1>5. QED
  BY <1>1, <1>2, <1>3, <1>4, Carried, NextSafe

\* One account gets a new row.
LEMMA RowSafe ==
  ASSUME AdminTypeOK, RowsSound, NEW a \in Accounts, NEW row \in Account,
         account' = [account EXCEPT ![a] = row],
         row.cuts <= row.epoch, account[a].exists => row.exists, row.exists \/ row.epoch = 0,
         \/ row.epoch > account[a].epoch
         \/ /\ row.epoch = account[a].epoch
            /\ account[a].exists => /\ row.password = account[a].password
                                    /\ row.cuts = account[a].cuts
                                    /\ a = Managed \/ row.mfa = account[a].mfa
  PROVE  /\ account' \in [Accounts -> Account]
         /\ \A b \in Accounts : Kept(b) /\ (b # a => account'[b] = account[b])
         /\ account'[a] = row
         /\ RowsSound'
<1>1. /\ account' \in [Accounts -> Account]
      /\ \A b \in Accounts : account'[b] = IF b = a THEN row ELSE account[b]
  BY DEF AdminTypeOK
<1>2. \A b \in Accounts : Kept(b)
  BY <1>1 DEF Kept
<1>3. RowsSound'
  BY <1>1 DEF RowsSound
<1>4. QED
  BY <1>1, <1>2, <1>3

LEMMA CreationSafe ==
  ASSUME AdminIInv, NEW a \in Accounts, NEW role \in Roles, Bootstrap(a) \/ CreateAccount(a, role)
  PROVE  AdminIInv'
<1> USE DEF AdminIInv
<1> DEFINE row(r) == [Absent EXCEPT !.exists = TRUE, !.role = r, !.active = TRUE]
<1>1. \A r \in Roles : /\ row(r) \in Account /\ row(r).exists
                       /\ row(r).epoch = 0 /\ row(r).cuts = 0
  BY EpochFacts DEF Absent, Account, Roles
<1>2. /\ ~account[a].exists
      /\ account[a].epoch \in Nat
  BY RowFields, EpochFacts DEF Bootstrap, CreateAccount, AdminTypeOK
<1>3. PICK r \in Roles : account' = [account EXCEPT ![a] = row(r)]
  BY DEF Bootstrap, CreateAccount, Roles
<1>4. bootstrap' \in BOOLEAN /\ UNCHANGED <<update, session, change, login, trusted>>
  BY DEF Bootstrap, CreateAccount, AdminTypeOK
<1>5. account[a].epoch = 0
  <2>1. RowsSound
    OBVIOUS
  <2>2. QED
    BY <1>2, <2>1 DEF RowsSound
<1> HIDE DEF row
<1>6. row(r) \in Account /\ row(r).exists /\ row(r).epoch = 0 /\ row(r).cuts = 0
  BY <1>1
<1>7. /\ account' \in [Accounts -> Account]
      /\ \A b \in Accounts : Kept(b)
      /\ RowsSound'
  <2>1. row(r).cuts <= row(r).epoch
    BY <1>6
  <2>2. QED
    BY <1>2, <1>3, <1>5, <1>6, <2>1, RowSafe
<1>8. \A s \in Sessions : change[s] # NoChange => account[Of(s)].exists /\ Of(s) \in Accounts
  BY DEF ChangesAreCurrent, SessionsAgree, AgreesFully, AgreesFirst, Of
<1>9. \A s \in Sessions : change[s] # NoChange => account'[Of(s)] = account[Of(s)]
  BY <1>2, <1>3, <1>8 DEF AdminTypeOK
<1>10. session' = Without({})
  BY <1>4, Typed DEF Without, SessionRow
<1>11. QED
  BY <1>4, <1>7, <1>9, <1>10, AccountSafe DEF AdminTypeOK

\* updateAdminAccount and its commit leave the credentials alone.
LEMMA UpdateSafe ==
  ASSUME AdminIInv,
         \/ \E a \in Accounts, role \in Roles, active \in BOOLEAN : UpdateAccount(a, role, active)
         \/ \E u \in update : CommitUpdate(u)
  PROVE  AdminIInv'
<1> USE DEF AdminIInv
<1>1. ASSUME NEW a \in Accounts, NEW role \in Roles, NEW active \in BOOLEAN,
             UpdateAccount(a, role, active)
      PROVE  AdminIInv'
  <2>1. [account |-> a, role |-> role, active |-> active] \in Update
    BY DEF Update, Roles
  <2>2. update' \subseteq Update
    BY <1>1, <2>1 DEF UpdateAccount, AdminTypeOK
  <2>3. AdminTypeOK'
    BY <1>1, <2>2 DEF UpdateAccount, AdminTypeOK
  <2>4. QED
    BY <1>1, <2>3 DEF UpdateAccount, SessionsAgree, LoginsAgree, SweptExist, DevicesAgree,
                      ChangesAreCurrent, RowsSound, AgreesFully, AgreesFirst, Agrees, Of
<1>2. ASSUME NEW u \in update, CommitUpdate(u)
      PROVE  AdminIInv'
  <2> DEFINE a == u.account
             row == [account[a] EXCEPT !.role = u.role, !.active = u.active]
  <2>1. a \in Accounts /\ u.role \in Roles /\ u.active \in BOOLEAN
    BY DEF AdminTypeOK, Update, Roles
  <2>2. account[a] \in Account
    BY <2>1 DEF AdminTypeOK
  <2>3. /\ row \in Account
        /\ row.exists = account[a].exists /\ row.epoch = account[a].epoch
        /\ row.password = account[a].password /\ row.cuts = account[a].cuts
        /\ row.mfa = account[a].mfa
    BY <2>1, <2>2 DEF Account, Roles
  <2>4. account' = [account EXCEPT ![a] = row]
    BY <1>2 DEF CommitUpdate
  <2> HIDE DEF row
  <2>5. row.cuts <= row.epoch /\ (row.exists \/ row.epoch = 0)
    BY <2>1, <2>3 DEF RowsSound
  <2>6. /\ account' \in [Accounts -> Account]
        /\ \A b \in Accounts : Kept(b) /\ (b # a => account'[b] = account[b])
        /\ account'[a] = row
        /\ RowsSound'
    BY <2>1, <2>3, <2>4, <2>5, RowSafe
  <2>7. \A s \in Sessions : change[s] # NoChange => Of(s) \in Accounts
    BY DEF ChangesAreCurrent, SessionsAgree, AgreesFully, AgreesFirst, Of
  <2>8. \A s \in Sessions : change[s] # NoChange => account'[Of(s)].epoch = account[Of(s)].epoch
    BY <2>3, <2>6, <2>7
  <2>9. update' \subseteq Update /\ UNCHANGED <<bootstrap, change, login, trusted>>
    BY <1>2 DEF CommitUpdate, AdminTypeOK
  <2>10. CASE session' = Without(Live(a))
    <3>1. Live(a) \in SUBSET {s \in Sessions : session[s].state = "LIVE"}
      BY DEF Live
    <3>2. QED
      BY <2>6, <2>8, <2>9, <2>10, <3>1, AccountSafe DEF AdminTypeOK
  <2>11. CASE session' = session
    <3>1. session' = Without({})
      BY <2>11, Typed DEF Without, SessionRow
    <3>2. QED
      BY <2>6, <2>8, <2>9, <3>1, AccountSafe DEF AdminTypeOK
  <2>12. QED
    BY <1>2, <2>10, <2>11 DEF CommitUpdate
<1>3. QED
  BY <1>1, <1>2

\* A new epoch, with which no session of the account is left.
LEMMA CutSafe ==
  ASSUME AdminIInv, NEW a \in Accounts, NEW row \in Account,
         account' = [account EXCEPT ![a] = row], row.exists,
         row.epoch = account[a].epoch + 1, row.cuts = account[a].cuts + 1,
         session' = Without(Live(a)),
         UNCHANGED <<bootstrap, update, change, login, trusted>>
  PROVE  AdminIInv'
<1> USE DEF AdminIInv
<1>1. /\ account[a].epoch \in Nat /\ account[a].cuts \in Nat
      /\ account[a].cuts <= account[a].epoch
  BY RowFields, EpochFacts DEF AdminTypeOK, RowsSound
<1>2. row.cuts <= row.epoch /\ row.epoch > account[a].epoch
  BY <1>1
<1>3. /\ account' \in [Accounts -> Account]
      /\ \A b \in Accounts : Kept(b) /\ (b # a => account'[b] = account[b])
      /\ RowsSound'
  BY <1>2, RowSafe
<1>4. Live(a) \in SUBSET {s \in Sessions : session[s].state = "LIVE"}
  BY DEF Live
<1>5. \A s \in Sessions : change[s] # NoChange /\ session[s].state = "LIVE" /\ s \notin Live(a)
        => account'[Of(s)].epoch = account[Of(s)].epoch
  <2> SUFFICES ASSUME NEW s \in Sessions, change[s] # NoChange, session[s].state = "LIVE",
                      s \notin Live(a)
               PROVE  account'[Of(s)].epoch = account[Of(s)].epoch
    OBVIOUS
  <2>1. Of(s) \in Accounts
    BY DEF ChangesAreCurrent, SessionsAgree, AgreesFully, AgreesFirst, Of
  <2>2. Of(s) # a
    BY DEF Live
  <2>3. QED
    BY <1>3, <2>1, <2>2
<1>6. QED
  BY <1>3, <1>4, <1>5, AccountSafe DEF AdminTypeOK

LEMMA CutOffRowSafe ==
  ASSUME AdminIInv, NEW a \in Accounts, NEW row \in Account, CutOff(a, row),
         row.exists = account[a].exists, row.cuts = account[a].cuts
  PROVE  AdminIInv'
<1> DEFINE new == [row EXCEPT !.epoch = NextEpoch(a), !.cuts = @ + 1]
<1>1. /\ account[a].exists /\ account[a].epoch < MaxEpoch
      /\ account' = [account EXCEPT ![a] = new]
      /\ session' = Without(Live(a))
      /\ UNCHANGED <<bootstrap, update, change, login, trusted>>
  BY DEF CutOff
<1>2. /\ account[a].epoch \in Epochs /\ account[a].epoch \in Nat /\ account[a].cuts \in Nat
      /\ account[a].cuts <= account[a].epoch
  BY RowFields, EpochFacts DEF AdminIInv, AdminTypeOK, RowsSound
<1>3. account[a].epoch + 1 \in Epochs /\ account[a].cuts + 1 \in Epochs
  BY <1>1, <1>2, EpochAssumption DEF Epochs
<1>4. /\ new \in Account
      /\ new.exists /\ new.epoch = account[a].epoch + 1 /\ new.cuts = account[a].cuts + 1
  BY <1>1, <1>3 DEF Account, NextEpoch
<1> HIDE DEF new
<1>5. QED
  BY <1>1, <1>4, CutSafe

LEMMA CutOffSafe ==
  ASSUME AdminIInv, NEW a \in Accounts,
         \/ SetPassword(a) \/ RevokeSessions(a)
         \/ \E enabled \in BOOLEAN : SetMfa(a, enabled)
  PROVE  AdminIInv'
<1>1. account[a] \in Account /\ account[a].epoch \in Epochs
  BY RowFields DEF AdminIInv, AdminTypeOK
<1>2. account[a].epoch < MaxEpoch => NextEpoch(a) \in Epochs
  BY <1>1, EpochFacts DEF NextEpoch
<1>3. CASE SetPassword(a)
  <2> DEFINE row == [account[a] EXCEPT !.password = NextEpoch(a)]
  <2>1. CutOff(a, row) /\ account[a].epoch < MaxEpoch
    BY <1>3 DEF SetPassword, CutOff
  <2>2. /\ row \in Account /\ row.exists = account[a].exists
        /\ row.cuts = account[a].cuts
    BY <1>1, <1>2, <2>1 DEF Account
  <2> HIDE DEF row
  <2>3. QED
    BY <2>1, <2>2, CutOffRowSafe
<1>4. CASE RevokeSessions(a)
  BY <1>1, <1>4, CutOffRowSafe DEF RevokeSessions
<1>5. ASSUME NEW enabled \in BOOLEAN, SetMfa(a, enabled)
      PROVE  AdminIInv'
  <2> DEFINE row == [account[a] EXCEPT !.mfa = IF enabled THEN NextEpoch(a) ELSE 0]
  <2>1. CutOff(a, row) /\ account[a].epoch < MaxEpoch
    BY <1>5 DEF SetMfa, CutOff
  <2>2. /\ row \in Account /\ row.exists = account[a].exists
        /\ row.cuts = account[a].cuts
    BY <1>1, <1>2, <2>1, EpochFacts DEF Account
  <2> HIDE DEF row
  <2>3. QED
    BY <2>1, <2>2, CutOffRowSafe
<1>6. QED
  BY <1>3, <1>4, <1>5

\* The deployment's account, with a rotation or without.
LEMMA SyncSafe ==
  ASSUME AdminIInv, NEW rotate \in BOOLEAN, NEW mfa \in BOOLEAN, Sync(rotate, mfa)
  PROVE  AdminIInv'
<1> DEFINE row == account[Managed]
           synced == [row EXCEPT !.exists = TRUE, !.role = "OWNER", !.active = TRUE]
<1>1. Managed \in Accounts /\ row \in Account
  BY ManagedAssumption DEF Sync, AdminIInv, AdminTypeOK
<1>2. /\ row.epoch \in Epochs /\ row.epoch \in Nat /\ row.cuts \in Nat
      /\ row.cuts <= row.epoch /\ (~row.exists => row.epoch = 0) /\ row.mfa \in Epochs
  BY <1>1, RowFields, EpochFacts DEF AdminIInv, RowsSound
<1>3. UNCHANGED <<bootstrap, update, change, login, trusted>>
  BY DEF Sync
<1>4. CASE rotate \/ ~row.exists
  <2> DEFINE new == [synced EXCEPT !.epoch = @ + 1, !.password = row.epoch + 1,
                                   !.mfa = IF mfa THEN row.epoch + 1 ELSE @, !.cuts = @ + 1]
  <2>1. /\ row.epoch < MaxEpoch /\ account' = [account EXCEPT ![Managed] = new]
        /\ session' = Without(Live(Managed))
    BY <1>4 DEF Sync
  <2>2. row.epoch + 1 \in Epochs /\ row.cuts + 1 \in Epochs
    BY <1>2, <2>1, EpochAssumption DEF Epochs
  <2>3. /\ new \in Account /\ new.exists
        /\ new.epoch = row.epoch + 1 /\ new.cuts = row.cuts + 1
    BY <1>1, <1>2, <2>2 DEF Account
  <2> HIDE DEF new
  <2>4. QED
    BY <1>1, <1>3, <2>1, <2>3, CutSafe
<1>5. CASE ~(rotate \/ ~row.exists)
  <2> DEFINE new == [synced EXCEPT !.mfa = IF mfa THEN row.epoch ELSE @]
  <2>1. account' = [account EXCEPT ![Managed] = new] /\ session' = session
    BY <1>5 DEF Sync
  <2>2. /\ new \in Account /\ new.exists /\ new.epoch = row.epoch
        /\ new.password = row.password /\ new.cuts = row.cuts
    BY <1>1, <1>2 DEF Account
  <2> HIDE DEF new
  <2>3. new.cuts <= new.epoch
    BY <1>2, <2>2
  <2>4. /\ account' \in [Accounts -> Account]
        /\ \A b \in Accounts : Kept(b) /\ (b # Managed => account'[b] = account[b])
        /\ account'[Managed] = new
        /\ RowsSound'
    BY <1>1, <2>1, <2>2, <2>3, RowSafe DEF AdminIInv
  <2>5. \A s \in Sessions : change[s] # NoChange => Of(s) \in Accounts
    BY DEF AdminIInv, ChangesAreCurrent, SessionsAgree, AgreesFully, AgreesFirst, Of
  <2>6. \A s \in Sessions : change[s] # NoChange => account'[Of(s)].epoch = account[Of(s)].epoch
    BY <2>2, <2>4, <2>5
  <2>7. session' = Without({})
    BY <2>1, Typed DEF Without, SessionRow, AdminIInv
  <2>8. QED
    BY <1>3, <2>4, <2>6, <2>7, AccountSafe DEF AdminIInv, AdminTypeOK
<1>6. QED
  BY <1>4, <1>5

-----------------------------------------------------------------------------
\* A step of a login that does not make a session.
LEMMA GoSafe ==
  ASSUME AdminIInv, NEW l \in Logins, NEW row \in LoginRow, Go(l, row),
         UNCHANGED <<account, bootstrap, update, session, change, trusted>>,
         row.sweeps \subseteq {s \in Sessions : session[s].state # "NONE"},
         row.at # "IDLE" => AgreesFirst(row.proof),
         row.at \in {"VERIFIED", "SWEPT"} => AgreesFully(row.proof)
  PROVE  AdminIInv'
<1>1. /\ login' \in [Logins -> LoginRow]
      /\ \A m \in Logins : login'[m] = IF m = l THEN row ELSE login[m]
  BY Typed DEF Go, AdminIInv
<1>2. AdminTypeOK'
  BY <1>1 DEF AdminIInv, AdminTypeOK, LoginRow
<1>3. account' \in [Accounts -> Account] /\ \A a \in Accounts : Kept(a)
  BY SameKept DEF AdminIInv
<1>4. /\ row.at # "IDLE" => FirstNext(row.proof)
      /\ row.at \in {"VERIFIED", "SWEPT"} => FullyNext(row.proof)
  BY DEF FirstNext, FullyNext, AgreesNext, AgreesFirst, AgreesFully, Agrees
<1>5. RowsSound' /\ ChangesAreCurrent'
  BY DEF AdminIInv, RowsSound, ChangesAreCurrent, Of
<1>6. SweptExist'
  BY <1>1 DEF AdminIInv, SweptExist
<1>7. QED
  BY <1>1, <1>2, <1>3, <1>4, <1>5, <1>6, Carried, NextSafe

\* The password proves the account's present credentials, but for MFA; a trusted
\* device of the present epoch stands in for the code.
LEMMA PasswordSafe ==
  ASSUME AdminIInv, NEW l \in Logins, NEW a \in Accounts, Password(l, a)
  PROVE  AdminIInv'
<1> DEFINE proof(n) == [account |-> a, epoch |-> account[a].epoch,
                        password |-> account[a].password, mfa |-> n, cuts |-> account[a].cuts]
           row(at, n) == [Idle EXCEPT !.at = at, !.proof = proof(n)]
<1>1. /\ account[a] \in Account /\ account[a].exists
      /\ UNCHANGED <<account, bootstrap, update, session, change, trusted>>
  BY DEF Password, AdminIInv, AdminTypeOK
<1>2. account[a].epoch \in Epochs /\ account[a].epoch \in Nat
  BY <1>1, RowFields, EpochFacts
<1>3. \A n \in Epochs : /\ proof(n) \in Proof /\ AgreesFirst(proof(n))
                        /\ proof(n).account = a /\ proof(n).epoch = account[a].epoch
                        /\ proof(n).mfa = n
  BY <1>1, <1>2, RowFields DEF Proof, AgreesFirst
<1>4. \A n \in Epochs : (a # Managed /\ account[a].mfa # 0 => n = account[a].mfa)
        => AgreesFully(proof(n))
  BY <1>1, <1>2, <1>3 DEF AgreesFully, Agrees
<1>5. \A n \in Epochs : \A at \in {"CHALLENGED", "VERIFIED"} :
        /\ row(at, n) \in LoginRow /\ row(at, n).at = at /\ row(at, n).proof = proof(n)
        /\ row(at, n).sweeps = {}
  BY <1>3 DEF Idle, LoginRow
<1>6. 0 \in Epochs
  BY EpochFacts
<1>7. \A n : [proof(0) EXCEPT !.mfa = n] = proof(n)
  OBVIOUS
<1>8. \/ account[a].mfa = 0 /\ Go(l, row("VERIFIED", 0))
      \/ Go(l, row("CHALLENGED", 0))
      \/ \E cookie \in trusted : Trusts(cookie, a) /\ Go(l, row("VERIFIED", cookie.mfa))
  BY <1>7 DEF Password
<1> HIDE DEF proof, row
<1>9. ASSUME NEW cookie \in trusted, Trusts(cookie, a), Go(l, row("VERIFIED", cookie.mfa))
      PROVE  AdminIInv'
  <2>1. /\ cookie.mfa \in Epochs
        /\ a # Managed /\ account[a].mfa # 0 => cookie.mfa = account[a].mfa
    BY <1>9, Typed DEF Trusts, AdminIInv, DevicesAgree, Agrees, Cookie
  <2>2. AgreesFully(proof(cookie.mfa))
    BY <1>4, <2>1
  <2>3. QED
    BY <1>1, <1>3, <1>5, <1>9, <2>1, <2>2, GoSafe
<1>10. CASE account[a].mfa = 0 /\ Go(l, row("VERIFIED", 0))
  BY <1>1, <1>3, <1>4, <1>5, <1>6, <1>10, GoSafe
<1>11. CASE Go(l, row("CHALLENGED", 0))
  BY <1>1, <1>3, <1>5, <1>6, <1>11, GoSafe
<1>12. QED
  BY <1>8, <1>9, <1>10, <1>11

LEMMA ChallengeSafe ==
  ASSUME AdminIInv, NEW l \in Logins, AnswerChallenge(l)
  PROVE  AdminIInv'
<1> DEFINE p == login[l].proof
           a == p.account
           row == [login[l] EXCEPT !.at = "VERIFIED", !.trust = TRUE, !.proof.mfa = account[a].mfa]
<1>1. /\ login[l] \in LoginRow /\ p \in Proof /\ AgreesFirst(p)
      /\ p.epoch = account[a].epoch
      /\ UNCHANGED <<account, bootstrap, update, session, change, trusted>>
      /\ Go(l, row)
  BY Typed DEF AnswerChallenge, AdminIInv, LoginsAgree, LoginRow
<1>2. a \in Accounts /\ account[a] \in Account
  BY <1>1 DEF AgreesFirst, AdminIInv, AdminTypeOK
<1>3. account[a].mfa \in Epochs
  BY <1>2, RowFields
<1>4. /\ row \in LoginRow /\ row.at = "VERIFIED"
      /\ row.proof = [p EXCEPT !.mfa = account[a].mfa]
      /\ row.sweeps = login[l].sweeps
  BY <1>1, <1>3 DEF LoginRow, Proof
<1>5. /\ row.proof.account = a /\ row.proof.epoch = p.epoch /\ row.proof.password = p.password
      /\ row.proof.cuts = p.cuts /\ row.proof.mfa = account[a].mfa
  BY <1>1, <1>4 DEF Proof
<1> HIDE DEF row
<1>6. AgreesFirst(row.proof)
  BY <1>1, <1>5 DEF AgreesFirst
<1>7. AgreesFully(row.proof)
  BY <1>1, <1>5, <1>6 DEF AgreesFully, AgreesFirst, Agrees
<1>8. login[l].sweeps \subseteq {s \in Sessions : session[s].state # "NONE"}
  BY <1>1 DEF AdminIInv, SweptExist, LoginRow
<1>9. QED
  BY <1>1, <1>4, <1>6, <1>7, <1>8, GoSafe

LEMMA SweepSafe ==
  ASSUME AdminIInv, NEW l \in Logins, SweepSessions(l) \/ Abandon(l)
  PROVE  AdminIInv'
<1>1. login[l] \in LoginRow /\ UNCHANGED <<account, bootstrap, update, session, change, trusted>>
  BY Typed DEF SweepSessions, Abandon, AdminIInv
<1>2. CASE SweepSessions(l)
  <2> DEFINE S == Live(login[l].proof.account)
             row == [login[l] EXCEPT !.at = "SWEPT", !.sweeps = S]
  <2>1. S \in SUBSET Sessions /\ S \subseteq {s \in Sessions : session[s].state # "NONE"}
    BY DEF Live
  <2>2. AgreesFully(login[l].proof) /\ Go(l, row)
    BY <1>2 DEF SweepSessions, AdminIInv, LoginsAgree
  <2> HIDE DEF S
  <2>3. row \in LoginRow /\ row.at = "SWEPT" /\ row.proof = login[l].proof
        /\ row.sweeps = S
    BY <1>1, <2>1 DEF LoginRow
  <2> HIDE DEF row
  <2>4. QED
    BY <1>1, <2>1, <2>2, <2>3, GoSafe DEF AgreesFully
<1>3. CASE Abandon(l)
  <2>1. Idle \in LoginRow /\ Idle.at = "IDLE" /\ Idle.sweeps = {}
    BY EpochFacts DEF Idle, LoginRow, NoProof, Proof
  <2>2. QED
    BY <1>1, <1>3, <2>1, GoSafe DEF Abandon
<1>4. QED
  BY <1>2, <1>3

-----------------------------------------------------------------------------
\* A step that revokes sessions and leaves the accounts alone.
LEMMA RevocationSafe ==
  ASSUME AdminIInv, NEW S \in SUBSET {s \in Sessions : session[s].state = "LIVE"},
         session' = Without(S), UNCHANGED <<account, bootstrap, update, change, login, trusted>>
  PROVE  AdminIInv'
<1>1. account' \in [Accounts -> Account] /\ (\A a \in Accounts : Kept(a)) /\ RowsSound'
  BY SameKept DEF AdminIInv, RowsSound
<1>2. QED
  BY <1>1, AccountSafe DEF AdminIInv, AdminTypeOK

\* A session is inserted for a login that has proved itself.
LEMMA InsertSafe ==
  ASSUME AdminIInv, NEW l \in Logins, NEW s \in Sessions, InsertSession(l, s)
  PROVE  AdminIInv'
<1> DEFINE p == login[l].proof
           new == [state |-> "LIVE", proof |-> p]
           cookie == [account |-> p.account, epoch |-> p.epoch, mfa |-> p.mfa]
           W == Without(login[l].sweeps)
<1>1. /\ login[l] \in LoginRow /\ p \in Proof /\ AgreesFully(p)
      /\ change[s] = NoChange
      /\ session' = [W EXCEPT ![s] = new]
      /\ trusted' = trusted \/ trusted' = trusted \cup {cookie}
      /\ Go(l, Idle)
      /\ UNCHANGED <<account, bootstrap, update, change>>
  BY Typed DEF InsertSession, AdminIInv, LoginsAgree, LoginRow
<1>2. /\ W \in [Sessions -> SessionRow]
      /\ \A q \in Sessions : /\ W[q].proof = session[q].proof
                             /\ W[q].state # "NONE" => session[q].state # "NONE"
                             /\ session[q].state # "NONE" => W[q].state # "NONE"
                             /\ W[q].state = "LIVE" => session[q].state = "LIVE"
  BY <1>1, Typed DEF Without, SessionRow, AdminIInv, SweptExist
<1> HIDE DEF W
<1>3. new \in SessionRow /\ new.state = "LIVE" /\ new.proof = p
  BY <1>1 DEF SessionRow
<1> HIDE DEF new
<1>4. /\ session' \in [Sessions -> SessionRow]
      /\ \A q \in Sessions : session'[q] = IF q = s THEN new ELSE W[q]
  BY <1>1, <1>2, <1>3
<1>5. p.account \in Accounts
  BY <1>1 DEF AgreesFully, AgreesFirst
<1>6. /\ cookie \in Cookie /\ cookie.account = p.account /\ cookie.epoch = p.epoch
      /\ cookie.mfa = p.mfa
  BY <1>1, <1>5, ProofFields DEF Cookie
<1>7. Idle \in LoginRow /\ Idle.at = "IDLE" /\ Idle.sweeps = {}
  BY EpochFacts DEF Idle, LoginRow, NoProof, Proof
<1>8. /\ login' \in [Logins -> LoginRow]
      /\ \A m \in Logins : login'[m] = IF m = l THEN Idle ELSE login[m]
  BY <1>1, <1>7, Typed DEF Go, AdminIInv
<1> HIDE DEF cookie
<1>9. trusted' \subseteq Cookie
  BY <1>1, <1>6, Typed DEF AdminIInv
<1>10. AdminTypeOK'
  BY <1>1, <1>4, <1>8, <1>9 DEF AdminIInv, AdminTypeOK, SessionRow, LoginRow, Cookie
<1>11. SweptExist'
  <2>1. \A q \in Sessions : session[q].state # "NONE" => session'[q].state # "NONE"
    BY <1>2, <1>3, <1>4
  <2>2. \A m \in Logins : login'[m].sweeps \subseteq login[m].sweeps
    BY <1>7, <1>8
  <2>3. \A m \in Logins : login[m].sweeps \subseteq Sessions
    BY Typed DEF AdminIInv, LoginRow
  <2>4. QED
    BY <2>1, <2>2, <2>3 DEF AdminIInv, SweptExist
<1>12. ChangesAreCurrent' /\ RowsSound'
  BY <1>1, <1>2, <1>4 DEF AdminIInv, ChangesAreCurrent, RowsSound, Of
<1>13. account' \in [Accounts -> Account] /\ \A a \in Accounts : Kept(a)
  BY <1>1, SameKept DEF AdminIInv
<1>14. FullyNext(p)
  BY <1>1, <1>13, FullyStable DEF AdminIInv, AdminTypeOK
<1>15. \A q \in Sessions : session'[q].state # "NONE" => FullyNext(session'[q].proof)
  BY <1>2, <1>3, <1>4, <1>13, <1>14, Carried
<1>16. \A m \in Logins :
         /\ login'[m].at # "IDLE" => FirstNext(login'[m].proof)
         /\ login'[m].at \in {"VERIFIED", "SWEPT"} => FullyNext(login'[m].proof)
  BY <1>7, <1>8, <1>13, Carried
<1>17. \A c \in trusted' : AgreesNext(c.account, c.epoch, c.mfa)
  BY <1>1, <1>6, <1>13, <1>14, Carried DEF FullyNext
<1>18. QED
  BY <1>10, <1>11, <1>12, <1>15, <1>16, <1>17, NextSafe

LEMMA EndSafe ==
  ASSUME AdminIInv, NEW s \in Sessions, EndSession(s) \/ RevokeOthers(s)
  PROVE  AdminIInv'
<1>1. CASE EndSession(s)
  <2>1. {s} \in SUBSET {q \in Sessions : session[q].state = "LIVE"}
    BY <1>1 DEF EndSession
  <2>2. QED
    BY <1>1, <2>1, RevocationSafe DEF EndSession
<1>2. CASE RevokeOthers(s)
  <2>1. Live(Of(s)) \ {s} \in SUBSET {q \in Sessions : session[q].state = "LIVE"}
    BY DEF Live
  <2>2. QED
    BY <1>2, <2>1, RevocationSafe DEF RevokeOthers
<1>3. QED
  BY <1>1, <1>2

-----------------------------------------------------------------------------
\* The start of a change of credentials, and its end without one.
LEMMA ChangeSafe ==
  ASSUME AdminIInv, NEW s \in Sessions,
         DropChange(s) \/ \E what \in {"PASSWORD", "MFA"} : BeginChange(s, what)
  PROVE  AdminIInv'
<1>1. UNCHANGED <<account, bootstrap, update, session, login, trusted>>
  BY DEF DropChange, BeginChange
<1>2. NoChange \in ChangeRow
  BY EpochFacts DEF NoChange, ChangeRow
<1>3. /\ AdminTypeOK'
      /\ \A q \in Sessions \ {s} : change'[q] = change[q]
      /\ change'[s] # NoChange =>
           Valid(s) /\ Of(s) # Managed /\ session[s].state # "NONE"
  <2>1. CASE DropChange(s)
    <3>1. change' = [change EXCEPT ![s] = NoChange]
      BY <2>1 DEF DropChange
    <3>2. QED
      BY <1>1, <1>2, <3>1, Typed DEF AdminIInv, AdminTypeOK, ChangeRow
  <2>2. ASSUME NEW what \in {"PASSWORD", "MFA"}, BeginChange(s, what)
        PROVE  <1>3
    <3> DEFINE new == [what |-> what, epoch |-> account[Of(s)].epoch]
    <3>1. Valid(s) /\ Of(s) # Managed /\ change' = [change EXCEPT ![s] = new]
      BY <2>2 DEF BeginChange
    <3>2. session[s].state = "LIVE" /\ account[Of(s)] \in Account
      BY <3>1 DEF Valid, AdminIInv, SessionsAgree, AgreesFully, AgreesFirst, Of, AdminTypeOK
    <3>3. new \in ChangeRow
      BY <3>2, RowFields DEF ChangeRow
    <3> HIDE DEF new
    <3>4. QED
      BY <1>1, <3>1, <3>2, <3>3, Typed DEF AdminIInv, AdminTypeOK, ChangeRow
  <2>3. QED
    BY <2>1, <2>2
<1>4. ChangesAreCurrent'
  BY <1>1, <1>3 DEF AdminIInv, ChangesAreCurrent, Valid, Of
<1>5. QED
  BY <1>1, <1>3, <1>4 DEF AdminIInv, SessionsAgree, LoginsAgree, SweptExist, DevicesAgree,
     RowsSound,
                          AgreesFully, AgreesFirst, Agrees

\* The session that has changed the credentials goes on with them, if it is still
\* live, for then it agreed with the account before.
LEMMA RenewalSafe ==
  ASSUME AdminIInv, NEW s \in Sessions, change[s] # NoChange, NEW row \in Account,
         account' = [account EXCEPT ![Of(s)] = row],
         row.exists = account[Of(s)].exists, row.epoch = account[Of(s)].epoch + 1,
         row.cuts = account[Of(s)].cuts,
         NEW proof \in Proof, proof.account = Of(s), proof.epoch = row.epoch,
         session[s].state = "LIVE" =>
           /\ proof.password = row.password /\ proof.cuts = row.cuts
           /\ row.mfa # 0 => proof.mfa = row.mfa,
         session' = Renewed(s, Of(s), proof),
         change' = [change EXCEPT ![s] = NoChange],
         UNCHANGED <<bootstrap, update, login>>,
         \/ trusted' = trusted
         \/ trusted' = trusted \cup {[account |-> Of(s), epoch |-> row.epoch, mfa |-> row.mfa]}
  PROVE  AdminIInv'
<1> USE DEF AdminIInv
<1> DEFINE a == Of(s)
           S == Live(a) \ {s}
           cookie == [account |-> a, epoch |-> row.epoch, mfa |-> row.mfa]
<1>1. /\ a \in Accounts /\ account[a] \in Account /\ account[a].exists
      /\ account[a].epoch \in Nat /\ account[a].cuts \in Nat
      /\ account[a].cuts <= account[a].epoch
  BY RowFields, EpochFacts
     DEF ChangesAreCurrent, SessionsAgree, AgreesFully, AgreesFirst, AdminTypeOK, RowsSound, Of
<1>2. row.cuts <= row.epoch /\ row.epoch > account[a].epoch
  BY <1>1
<1>3. /\ account' \in [Accounts -> Account]
      /\ \A b \in Accounts : Kept(b) /\ (b # a => account'[b] = account[b])
      /\ account'[a] = row
      /\ RowsSound'
  BY <1>1, <1>2, RowSafe
<1>4. S \in SUBSET {q \in Sessions : session[q].state = "LIVE"}
  BY DEF Live
<1>5. /\ Without(S) \in [Sessions -> SessionRow]
      /\ \A q \in Sessions :
           /\ Without(S)[q].proof = session[q].proof
           /\ Without(S)[q].state = "NONE" <=> session[q].state = "NONE"
           /\ Without(S)[q].state = "LIVE" <=> session[q].state = "LIVE" /\ q \notin S
  BY <1>4, WithoutFacts
<1>6. /\ session' \in [Sessions -> SessionRow]
      /\ \A q \in Sessions \ {s} : session'[q] = Without(S)[q]
      /\ session'[s].state = Without(S)[s].state
      /\ session'[s].proof = IF session[s].state = "LIVE" THEN proof ELSE session[s].proof
  BY <1>5 DEF Renewed, SessionRow
<1>7. NoChange \in ChangeRow
  BY EpochFacts DEF NoChange, ChangeRow
<1>8. /\ change' \in [Sessions -> ChangeRow]
      /\ \A q \in Sessions \ {s} : change'[q] = change[q]
      /\ change'[s] = NoChange
  BY <1>7, Typed
<1>9. /\ cookie \in Cookie /\ cookie.account = a /\ cookie.epoch = row.epoch
      /\ cookie.mfa = row.mfa
  BY <1>1, RowFields DEF Cookie
<1> HIDE DEF cookie
<1>10. trusted' \subseteq Cookie
  BY <1>9, Typed DEF cookie
<1>11. AdminTypeOK'
  BY <1>3, <1>6, <1>8, <1>10 DEF AdminTypeOK, SessionRow, ChangeRow, Cookie
<1>12. ChangesAreCurrent'
  <2> SUFFICES ASSUME NEW q \in Sessions, change'[q] # NoChange
               PROVE  /\ session'[q].state # "NONE"
                      /\ session'[q].proof.account # Managed
                      /\ session'[q].state = "LIVE" =>
                           session'[q].proof.epoch = account'[session'[q].proof.account].epoch
    BY DEF ChangesAreCurrent, Of
  <2>1. q # s /\ change[q] # NoChange
    BY <1>8
  <2>2. /\ session[q].state # "NONE" /\ Of(q) # Managed
        /\ session[q].state = "LIVE" => session[q].proof.epoch = account[Of(q)].epoch
        /\ Of(q) \in Accounts
    BY <2>1 DEF ChangesAreCurrent, SessionsAgree, AgreesFully, AgreesFirst, Of
  <2>3. session[q].state = "LIVE" /\ q \notin S => Of(q) # a
    BY <2>1 DEF Live
  <2>4. session'[q].proof = session[q].proof /\ session'[q].state # "NONE"
    BY <1>5, <1>6, <2>1, <2>2
  <2>5. session'[q].state = "LIVE" => session[q].state = "LIVE" /\ q \notin S
    BY <1>5, <1>6, <2>1
  <2>6. Of(q) # a => account'[Of(q)] = account[Of(q)]
    BY <1>3, <2>2
  <2>7. QED
    BY <2>2, <2>3, <2>4, <2>5, <2>6 DEF Of
<1>13. SweptExist'
  <2>1. \A q \in Sessions : session[q].state # "NONE" => session'[q].state # "NONE"
    BY <1>5, <1>6
  <2>2. \A m \in Logins : login[m].sweeps \subseteq Sessions
    BY Typed DEF LoginRow
  <2>3. QED
    BY <2>1, <2>2 DEF SweptExist
<1>14. row.epoch \in Nat /\ row.epoch <= row.epoch
  <2>1. row.epoch \in Nat
    BY RowFields, EpochFacts
  <2>2. QED
    BY <2>1
<1>15. session[s].state = "LIVE" => FullyNext(proof)
  BY <1>1, <1>3, <1>14 DEF FullyNext, FirstNext, AgreesNext
<1>16. \A q \in Sessions : session'[q].state # "NONE" => FullyNext(session'[q].proof)
  BY <1>3, <1>5, <1>6, <1>15, Carried
<1>17. AgreesNext(cookie.account, cookie.epoch, cookie.mfa)
  BY <1>1, <1>3, <1>9, <1>14 DEF AgreesNext
<1>18. \A c \in trusted' : AgreesNext(c.account, c.epoch, c.mfa)
  BY <1>3, <1>17, Carried DEF cookie
<1>19. \A m \in Logins :
         /\ login'[m].at # "IDLE" => FirstNext(login'[m].proof)
         /\ login'[m].at \in {"VERIFIED", "SWEPT"} => FullyNext(login'[m].proof)
  BY <1>3, Carried
<1>20. QED
  BY <1>3, <1>11, <1>12, <1>13, <1>16, <1>18, <1>19, NextSafe

LEMMA CommitSafe ==
  ASSUME AdminIInv, NEW s \in Sessions, CommitPassword(s) \/ CommitMfa(s)
  PROVE  AdminIInv'
<1> DEFINE a == Of(s)
           p == session[s].proof
<1>1. change[s] # NoChange /\ account[a].epoch < MaxEpoch
  BY DEF CommitPassword, CommitMfa, NoChange
<1>2. /\ a \in Accounts /\ account[a] \in Account /\ p \in Proof /\ p.account = a
      /\ a # Managed /\ AgreesFully(p)
      /\ session[s].state = "LIVE" => p.epoch = account[a].epoch
  BY <1>1, Typed
     DEF AdminIInv, ChangesAreCurrent, SessionsAgree, AgreesFully, AgreesFirst, AdminTypeOK, Of,
         SessionRow
<1>3. session[s].state = "LIVE" => /\ p.password = account[a].password
                                   /\ p.cuts = account[a].cuts
                                   /\ account[a].mfa # 0 => p.mfa = account[a].mfa
  BY <1>2 DEF AgreesFully, AgreesFirst, Agrees
<1>4. NextEpoch(a) = account[a].epoch + 1 /\ NextEpoch(a) \in Epochs
  BY <1>1, <1>2, RowFields, EpochFacts DEF NextEpoch
<1>5. CASE CommitPassword(s)
  <2> DEFINE row == [account[a] EXCEPT !.password = NextEpoch(a), !.epoch = NextEpoch(a)]
             proof == [p EXCEPT !.password = NextEpoch(a), !.epoch = NextEpoch(a)]
  <2>1. /\ account' = [account EXCEPT ![a] = row]
        /\ session' = Renewed(s, a, proof)
        /\ change' = [change EXCEPT ![s] = NoChange]
        /\ UNCHANGED <<bootstrap, update, login, trusted>>
    BY <1>2, <1>5 DEF CommitPassword, AdminTypeOK, AdminIInv
  <2>2. /\ row \in Account /\ row.exists = account[a].exists /\ row.epoch = NextEpoch(a)
        /\ row.password = NextEpoch(a) /\ row.mfa = account[a].mfa /\ row.cuts = account[a].cuts
    BY <1>2, <1>4 DEF Account
  <2>3. /\ proof \in Proof /\ proof.account = a /\ proof.epoch = NextEpoch(a)
        /\ proof.password = NextEpoch(a) /\ proof.mfa = p.mfa /\ proof.cuts = p.cuts
    BY <1>2, <1>4 DEF Proof
  <2> HIDE DEF row, proof
  <2>4. QED
    BY <1>1, <1>3, <1>4, <2>1, <2>2, <2>3, RenewalSafe
<1>6. CASE CommitMfa(s)
  <2> DEFINE row == [account[a] EXCEPT !.mfa = NextEpoch(a), !.epoch = NextEpoch(a)]
             proof == [p EXCEPT !.mfa = NextEpoch(a), !.epoch = NextEpoch(a)]
  <2>1. /\ account' = [account EXCEPT ![a] = row]
        /\ session' = Renewed(s, a, proof)
        /\ change' = [change EXCEPT ![s] = NoChange]
        /\ UNCHANGED <<bootstrap, update, login>>
        /\ trusted' = trusted \cup {[account |-> a, epoch |-> NextEpoch(a), mfa |-> NextEpoch(a)]}
    BY <1>2, <1>6 DEF CommitMfa, AdminTypeOK, AdminIInv
  <2>2. /\ row \in Account /\ row.exists = account[a].exists /\ row.epoch = NextEpoch(a)
        /\ row.password = account[a].password /\ row.mfa = NextEpoch(a)
        /\ row.cuts = account[a].cuts
    BY <1>2, <1>4 DEF Account
  <2>3. /\ proof \in Proof /\ proof.account = a /\ proof.epoch = NextEpoch(a)
        /\ proof.password = p.password /\ proof.mfa = NextEpoch(a) /\ proof.cuts = p.cuts
    BY <1>2, <1>4 DEF Proof
  <2> HIDE DEF row, proof
  <2>4. QED
    BY <1>1, <1>3, <1>4, <2>1, <2>2, <2>3, RenewalSafe
<1>7. QED
  BY <1>5, <1>6

-----------------------------------------------------------------------------
LEMMA StepSafe == AdminIInv /\ [AdminNext]_adminVars => AdminIInv'
<1> SUFFICES ASSUME AdminIInv, [AdminNext]_adminVars
             PROVE  AdminIInv'
  OBVIOUS
<1>1. CASE Management
  <2>1. ASSUME NEW a \in Accounts, Bootstrap(a)
        PROVE  AdminIInv'
    BY <2>1, CreationSafe DEF Roles
  <2>2. QED
    BY <1>1, <2>1, CreationSafe, CutOffSafe, UpdateSafe DEF Management, Roles
<1>2. CASE Deployment
  BY <1>2, SyncSafe DEF Deployment
<1>3. CASE Login
  BY <1>3, PasswordSafe, InsertSafe, ChallengeSafe, SweepSafe DEF Login
<1>4. CASE Own
  BY <1>4, EndSafe, CommitSafe, ChangeSafe DEF Own
<1>5. CASE UNCHANGED adminVars
  BY <1>5 DEF adminVars, AdminIInv, AdminTypeOK, SessionsAgree, LoginsAgree, SweptExist,
     DevicesAgree,
              ChangesAreCurrent, RowsSound, AgreesFully, AgreesFirst, Agrees, Of
<1>6. QED
  BY <1>1, <1>2, <1>3, <1>4, <1>5 DEF AdminNext

THEOREM AdminInvariance == AdminSpec => []AdminIInv
BY InitSafe, StepSafe, PTL DEF AdminSpec

\* The types of all rows.
THEOREM AdminTypeCorrect == AdminSpec => []AdminTypeOK
<1>1. AdminIInv => AdminTypeOK
  BY DEF AdminIInv
<1>2. QED
  BY <1>1, AdminInvariance, PTL

\* An honoured session rests on the account's present credentials.
THEOREM SessionProvesCredentialsAlways == AdminSpec => []SessionProvesCredentials
<1>1. AdminIInv => SessionProvesCredentials
  BY DEF AdminIInv, SessionsAgree, AgreesFully, AgreesFirst, Agrees, SessionProvesCredentials,
     Valid, Of
<1>2. QED
  BY <1>1, AdminInvariance, PTL

\* A revocation of all sessions reaches the logins under way.
THEOREM RevocationReachesLoginsAlways == AdminSpec => []RevocationReachesLogins
<1>1. AdminIInv => RevocationReachesLogins
  BY DEF AdminIInv, SessionsAgree, AgreesFully, AgreesFirst, RevocationReachesLogins, Valid, Of
<1>2. QED
  BY <1>1, AdminInvariance, PTL
=============================================================================
