---------------------------- MODULE ManagedAccess ----------------------------
(***************************************************************************)
(* One EXTERNAL_API managed service, the Kaja credentials that may call    *)
(* it, and the gateway that decides each call.                             *)
(*                                                                         *)
(* The service is registered and revised by its integration client         *)
(* (domain/external-api.ts), enabled and disabled by administrators        *)
(* (domain/managed-service.ts), probed by the monitor; credentials,        *)
(* permissions and access tokens are rows of domain/auth.ts.  A call is    *)
(* decided by statements of their own: the gateway loads the service,      *)
(* the authorizer reads token, credential and service, then the probes,    *)
(* then the scopes; anything may commit between them.                      *)
(*                                                                         *)
(* An epoch is a uuid in the code, drawn anew whenever it changes; here    *)
(* it is a number that grows.  The principal and the service token epoch   *)
(* are left out: nothing changes them for such a service.                  *)
(***************************************************************************)
EXTENDS Integers

CONSTANTS
  Credentials,  \* rows of kaja_credential
  Tokens,       \* rows of managed_service_access_token
  Manifests,    \* registration manifests, each with one operation
  Scopes,       \* scope names
  Requires,     \* the scope the operation of a manifest requires
  Calls,        \* requests at the gateway
  None          \* no manifest, no token

ASSUME RequiresAssumption == Requires \in [Manifests -> Scopes]
ASSUME NoneAssumption == None \notin Manifests \cup Tokens \cup Credentials

VARIABLES
  service,     \* the managed_service row with its active revision and evidence
  catalog,     \* scope names seeded in managed_service_scope
  credential,  \* state of each kaja_credential
  granted,     \* managed_service_permission: the scopes each credential has
  token,       \* the issued access tokens
  call         \* where each request at the gateway stands

vars == <<service, catalog, credential, granted, token, call>>

CredentialState == {"NONE", "ACTIVE", "EXPIRED", "REVOKED", "DELETED"}
TokenState == {"NONE", "LIVE", "EXPIRED", "REVOKED"}
CallState == {"IDLE", "LOADED", "TOKEN_OK", "PROBES_OK", "ALLOWED"}
ScopeSet == SUBSET Scopes

\* What holds of a service beside its columns.  PROBED: its latest health,
\* readiness and tls probes pass and are fresh; ACCEPTED: so does the acceptance
\* probe, and no internal error is fresh; REVIEWED: evaluateRecertification says
\* canServeExisting.
Conditions == {"PROBED", "ACCEPTED", "REVIEWED"}
Holding == SUBSET Conditions

\* The column enabled is left out: it is written with api_state, and is true
\* when that is ENABLED.
Service ==
  [lifecycle: {"NONE", "REGISTERED_DISABLED", "TRIAL"},
   api: {"ENABLED", "DISABLED"}, manifest: Manifests \cup {None},
   revision: Nat, permission: Nat, holds: Holding]

Token ==
  [state: TokenState, credential: Credentials \cup {None}, scopes: ScopeSet,
   permission: Nat, revision: Nat]

Call ==
  [at: CallState, token: Tokens \cup {None},
   loaded: Manifests \cup {None}, checked: Manifests \cup {None}]

NoToken == [state |-> "NONE", credential |-> None, scopes |-> {},
            permission |-> 0, revision |-> 0]
NoCall == [at |-> "IDLE", token |-> None, loaded |-> None, checked |-> None]

TypeOK ==
  /\ service \in Service
  /\ catalog \in ScopeSet
  /\ credential \in [Credentials -> CredentialState]
  /\ granted \in [Credentials -> ScopeSet]
  /\ token \in [Tokens -> Token]
  /\ call \in [Calls -> Call]

Init ==
  /\ service = [lifecycle |-> "NONE", api |-> "DISABLED", manifest |-> None,
                revision |-> 0, permission |-> 0, holds |-> {}]
  /\ catalog = {}
  /\ credential = [c \in Credentials |-> "NONE"]
  /\ granted = [c \in Credentials |-> {}]
  /\ token = [t \in Tokens |-> NoToken]
  /\ call = [k \in Calls |-> NoCall]

-----------------------------------------------------------------------------
(* What the code asks of the rows *)

\* canServeManagedService and assertManagedServiceRuntimeAvailable; the
\* profile is set by the registration and monitoring never switched off.
Available ==
  /\ service.lifecycle = "TRIAL"
  /\ service.api = "ENABLED"
  /\ "REVIEWED" \in service.holds

\* currentManagedServiceScopes
CurrentScopes(c) == granted[c]

\* What authorizeManagedServiceToken's first select and the comparisons after
\* it ask of a token.
TokenAccepted_anyRevision(t) ==   \* mutant
  /\ token[t].state = "LIVE"
  /\ credential[token[t].credential] = "ACTIVE"
  /\ token[t].permission = service.permission
  /\ Available
TokenAccepted(t) ==
  /\ token[t].state = "LIVE"
  /\ credential[token[t].credential] = "ACTIVE"
  /\ token[t].permission = service.permission
  /\ token[t].revision = service.revision
  /\ Available

-----------------------------------------------------------------------------
(* The integration client: domain/external-api.ts *)

\* probeExternalApiManifest asks the upstream of a manifest for its certificate,
\* for its health, readiness and operational state, and for its acceptance
\* document, which must be that of the manifest.
Answers == SUBSET {"TLS", "STATE", "ACCEPTANCE"}

\* G01 to G07; what the manifest and the token's intent decide is left out
AccessGates(answers) == {"TLS", "ACCEPTANCE"} \subseteq answers

\* G08 to G14
ContractGates(answers) == {"STATE", "ACCEPTANCE"} \subseteq answers

\* seedManagedServiceScopes
Seed(m) == catalog' = catalog \cup {Requires[m]}

\* upsertManagedServiceRevision: the active revision and its epoch.  The
\* manifest brings its own review dates, which may be over already; its probes
\* are recorded as passed, an internal error of the monitor is not taken back.
Activated(m, holds) ==
  [service EXCEPT !.manifest = m, !.revision = @ + 1, !.holds = holds]

\* the row createExternalApiManagedService inserts, with its revision
Inserted(m, holds) == [Activated(m, holds) EXCEPT !.lifecycle = "REGISTERED_DISABLED"]

\* createExternalApiManagedService; a gate that fails refuses the manifest
Register(m, answers, holds) ==
  /\ service.lifecycle = "NONE"
  /\ AccessGates(answers) /\ ContractGates(answers)
  /\ {"PROBED", "ACCEPTED"} \subseteq holds
  /\ service' = Inserted(m, holds)
  /\ Seed(m)
  /\ UNCHANGED <<credential, granted, token, call>>

\* updateExternalApiManagedService: whatever the service's state, which it
\* leaves as it is
Revise(m, answers, holds) ==
  /\ service.lifecycle # "NONE"
  /\ AccessGates(answers) /\ ContractGates(answers)
  /\ "PROBED" \in holds
  /\ service' = Activated(m, holds)
  /\ Seed(m)
  /\ UNCHANGED <<credential, granted, token, call>>

-----------------------------------------------------------------------------
(* Administrators: the service *)

\* the row as setManagedServiceApiState writes it
Opened == [service EXCEPT !.api = "ENABLED", !.lifecycle = "TRIAL"]
Closed == [service EXCEPT !.api = "DISABLED", !.lifecycle = "REGISTERED_DISABLED"]

\* setManagedServiceApiState, the lock version of If-Match being current.
\* Enabling tolerates a service that is disabled or not in TRIAL, and the
\* check raises one of these two before it comes to anything else.
Enable ==
  /\ service.lifecycle # "NONE"
  /\ service.api = "DISABLED"
  /\ "PROBED" \in service.holds
  /\ service' = Opened
  /\ UNCHANGED <<catalog, credential, granted, token, call>>

Disable ==
  /\ service.api = "ENABLED"
  /\ service' = Closed
  /\ UNCHANGED <<catalog, credential, granted, token, call>>

-----------------------------------------------------------------------------
(* Administrators: credentials and permissions, domain/auth.ts *)

\* createKajaCredential
CreateCredential_renews(c) ==   \* mutant
  /\ credential[c] \in {"NONE", "EXPIRED"}
  /\ credential' = [credential EXCEPT ![c] = "ACTIVE"]
  /\ UNCHANGED <<service, catalog, granted, token, call>>
CreateCredential(c) ==
  /\ credential[c] = "NONE"
  /\ credential' = [credential EXCEPT ![c] = "ACTIVE"]
  /\ UNCHANGED <<service, catalog, granted, token, call>>

\* the tokens of a credential after updateCredentialLifecycle
Withdrawn(c) ==
  [t \in Tokens |->
     IF token[t].credential = c /\ token[t].state # "NONE"
       THEN [token[t] EXCEPT !.state = "REVOKED"] ELSE token[t]]

\* revokeKajaCredential and deleteKajaCredential
Withdraw(c, to) ==
  /\ credential[c] \notin {"NONE", "DELETED"}
  /\ credential' = [credential EXCEPT ![c] = to]
  /\ granted' = [granted EXCEPT ![c] = {}]
  /\ token' = Withdrawn(c)
  /\ UNCHANGED <<service, catalog, call>>

\* bumpManagedServicePermissionEpoch
Bumped_none == service   \* mutant
Bumped == [service EXCEPT !.permission = @ + 1]

\* replaceManagedServicePermissions, for requests that touch the service: it
\* is named in the request, or the credential has scopes of it.  An expired
\* credential is still active to it.
ReplacePermissions(c, scopes) ==
  /\ service.lifecycle # "NONE"
  /\ credential[c] \in {"ACTIVE", "EXPIRED"}
  /\ scopes \subseteq catalog
  /\ granted' = [granted EXCEPT ![c] = scopes]
  /\ service' = Bumped
  /\ UNCHANGED <<catalog, credential, token, call>>

\* issueAccessToken reads credential and service, and locks them
Issuable(c) ==
  /\ credential[c] = "ACTIVE"
  /\ Available
  /\ CurrentScopes(c) # {}

\* the row it inserts; what the insert checks again is what was read
NewToken(c) ==
  [state |-> "LIVE", credential |-> c, scopes |-> CurrentScopes(c),
   permission |-> service.permission, revision |-> service.revision]

Issue(c, t) ==
  /\ Issuable(c)
  /\ token[t].state = "NONE"
  /\ token' = [token EXCEPT ![t] = NewToken(c)]
  /\ UNCHANGED <<service, catalog, credential, granted, call>>

-----------------------------------------------------------------------------
(* The gateway: http/external-api-routes.ts and authorizeManagedServiceToken *)

\* loadExternalApiGatewayService; the request brings its token along
Load(k, t) ==
  /\ call[k].at = "IDLE"
  /\ service.lifecycle # "NONE"
  /\ token[t].state # "NONE"
  /\ call' = [call EXCEPT ![k] =
       [at |-> "LOADED", token |-> t, loaded |-> service.manifest, checked |-> None]]
  /\ UNCHANGED <<service, catalog, credential, granted, token>>

\* The first select of the authorizer and everything decided on it
CheckToken(k) ==
  /\ call[k].at = "LOADED"
  /\ TokenAccepted(call[k].token)
  /\ call' = [call EXCEPT ![k].at = "TOKEN_OK", ![k].checked = service.manifest]
  /\ UNCHANGED <<service, catalog, credential, granted, token>>

\* The probe select, and the operation matched against the revision that the
\* first select has read
CheckProbes(k) ==
  /\ call[k].at = "TOKEN_OK"
  /\ {"PROBED", "ACCEPTED"} \subseteq service.holds
  /\ Requires[call[k].checked] = Requires[call[k].loaded]
  /\ call' = [call EXCEPT ![k].at = "PROBES_OK"]
  /\ UNCHANGED <<service, catalog, credential, granted, token>>

ScopeSuffices_any(k) == CurrentScopes(token[call[k].token].credential) # {}   \* mutant
ScopeSuffices(k) ==
  Requires[call[k].loaded] \in CurrentScopes(token[call[k].token].credential)

\* currentManagedServiceScopes, the last read; the call is proxied to the
\* upstream of the revision that was loaded
CheckScopes(k) ==
  /\ call[k].at = "PROBES_OK"
  /\ ScopeSuffices(k)
  /\ call' = [call EXCEPT ![k].at = "ALLOWED"]
  /\ UNCHANGED <<service, catalog, credential, granted, token>>

\* One of the checks denies, or the client has left
Deny(k) ==
  /\ call[k].at \notin {"IDLE", "ALLOWED"}
  /\ call' = [call EXCEPT ![k] = NoCall]
  /\ UNCHANGED <<service, catalog, credential, granted, token>>

\* proxyExternalApiOperation has answered, or failed
Proxy(k) ==
  /\ call[k].at = "ALLOWED"
  /\ call' = [call EXCEPT ![k] = NoCall]
  /\ UNCHANGED <<service, catalog, credential, granted, token>>

-----------------------------------------------------------------------------
(* The monitor and the passing of time *)

\* runExternalApiMonitoringTarget records what came of the probes that were due;
\* the others stand as they are, or are over by now
Probe(evidence) ==
  /\ service.lifecycle # "NONE"
  /\ service' = [service EXCEPT !.holds = (@ \cap {"REVIEWED"}) \cup evidence]
  /\ UNCHANGED <<catalog, credential, granted, token, call>>

\* recordExternalApiMonitoringInternalError, which the authorizer heeds and
\* enabling does not
InternalError ==
  /\ service.lifecycle # "NONE"
  /\ service' = [service EXCEPT !.holds = @ \ {"ACCEPTED"}]
  /\ UNCHANGED <<catalog, credential, granted, token, call>>

\* evidence older than staleAfterSeconds, of a monitor that does not run
EvidenceLapses ==
  /\ service' = [service EXCEPT !.holds = @ \ {"PROBED", "ACCEPTED"}]
  /\ UNCHANGED <<catalog, credential, granted, token, call>>

\* expires_at of a token, of a credential, and the end of the grace period
TokenExpires(t) ==
  /\ token[t].state = "LIVE"
  /\ token' = [token EXCEPT ![t].state = "EXPIRED"]
  /\ UNCHANGED <<service, catalog, credential, granted, call>>

CredentialExpires(c) ==
  /\ credential[c] = "ACTIVE"
  /\ credential' = [credential EXCEPT ![c] = "EXPIRED"]
  /\ UNCHANGED <<service, catalog, granted, token, call>>

ReviewLapses ==
  /\ "REVIEWED" \in service.holds
  /\ service' = [service EXCEPT !.holds = @ \ {"REVIEWED"}]
  /\ UNCHANGED <<catalog, credential, granted, token, call>>

Client ==
  \E m \in Manifests, answers \in Answers, holds \in Holding :
    Register(m, answers, holds) \/ Revise(m, answers, holds)

ServiceAdministrator == Enable \/ Disable

CredentialAdministrator ==
  \E c \in Credentials :
    \/ CreateCredential(c)
    \/ \E to \in {"REVOKED", "DELETED"} : Withdraw(c, to)
    \/ \E scopes \in ScopeSet : ReplacePermissions(c, scopes)

TokenEndpoint == \E c \in Credentials, t \in Tokens : Issue(c, t)

Gateway ==
  \E k \in Calls :
    \/ \E t \in Tokens : Load(k, t)
    \/ CheckToken(k) \/ CheckProbes(k) \/ CheckScopes(k) \/ Deny(k) \/ Proxy(k)

Monitor ==
  \/ \E evidence \in SUBSET {"PROBED", "ACCEPTED"} : Probe(evidence)
  \/ InternalError

Environment ==
  \/ \E t \in Tokens : TokenExpires(t)
  \/ \E c \in Credentials : CredentialExpires(c)
  \/ ReviewLapses \/ EvidenceLapses

Next ==
  \/ Client \/ ServiceAdministrator \/ CredentialAdministrator \/ TokenEndpoint
  \/ Gateway \/ Monitor \/ Environment

Spec == Init /\ [][Next]_vars
-----------------------------------------------------------------------------
(* Properties *)

\* The upstream a call goes to is that of the revision it was authorized for.
\* The gateway reads the service before the authorizer does, and a revision
\* may be activated in between; the revision epoch in the token refuses the
\* call then, also when the same manifest is activated again.
SameRevision ==
  \A k \in Calls : call[k].at \in {"TOKEN_OK", "PROBES_OK", "ALLOWED"} =>
                     call[k].checked = call[k].loaded

\* The authorizer looks at the scopes a credential has now and never at those
\* the token was issued with: a token whose epochs are current was issued with
\* every scope its credential has, whatever has become of the token since.
IssuedWithScopes ==
  \A t \in Tokens :
    (token[t].state # "NONE" /\ token[t].permission = service.permission) =>
      granted[token[t].credential] \subseteq token[t].scopes

\* A call that is let through with a token that was issued without the scope
\* has overlapped a change of the permissions: the next one is refused.
OverlapOnly ==
  \A k \in Calls : call[k].at = "ALLOWED" =>
    \/ Requires[call[k].loaded] \in token[call[k].token].scopes
    \/ token[call[k].token].permission # service.permission

\* A token that the withdrawal of its credential, new permissions or a new
\* revision has invalidated is never accepted again.
Invalidated(t) ==
  /\ token[t].state # "NONE"
  /\ \/ token[t].state # "LIVE"
     \/ credential[token[t].credential] # "ACTIVE"
     \/ token[t].permission # service.permission
     \/ token[t].revision # service.revision

NoResurrection == [][\A t \in Tokens : Invalidated(t) => Invalidated(t)']_vars
=============================================================================
