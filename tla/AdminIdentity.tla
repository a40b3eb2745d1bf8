---------------------------- MODULE AdminIdentity ----------------------------
(***************************************************************************)
(* The administrators' accounts, logins and sessions (http/admin-routes.ts,*)
(* domain/deployment-managed-admin.ts, the trigger                         *)
(* preserve_last_admin_owner of migrations/001).                           *)
(*                                                                         *)
(* A login reads the account in one statement and inserts its session in a *)
(* later transaction, with an MFA challenge in between where one is due;   *)
(* a change of one's own password or MFA checks the session first and      *)
(* writes later.  Whatever changes credentials draws a new session_epoch   *)
(* (a uuid in the code, a growing number here).                            *)
(*                                                                         *)
(* Abstractions: a password or a TOTP secret is the number of its setting; *)
(* who asks for an operation on another account is left open; a session    *)
(* that has expired counts as revoked; an account that is no owner is an   *)
(* ADMIN.  Login throttling, recovery codes, user agents and audit rows    *)
(* are left out.                                                           *)
(***************************************************************************)
EXTENDS Naturals

CONSTANTS
  Accounts,   \* rows of admin_account
  Managed,    \* the deployment-managed account, or Nobody
  Sessions,   \* rows of admin_session
  Logins,     \* logins under way
  MaxEpoch,   \* bound: how often an account's epoch changes
  Nobody

ASSUME NobodyAssumption == Nobody \notin Accounts \cup Sessions
ASSUME ManagedAssumption == Managed \in Accounts \cup {Nobody}
ASSUME EpochAssumption == MaxEpoch \in Nat

VARIABLES
  account,    \* each admin_account
  bootstrap,  \* admin_bootstrap_state.completed
  update,     \* the updates of updateAdminAccount that are not committed yet
  session,    \* each admin_session
  change,     \* the change of its account's credentials a session has under way
  login,      \* where each login stands
  trusted     \* the trusted-device cookies given out

adminVars == <<account, bootstrap, update, session, change, login, trusted>>

Epochs == 0..MaxEpoch

\* password, mfa: the epoch in which they were set, 0 when MFA is off; cuts: how
\* often all sessions were revoked (a record of the past).
Account == [exists: BOOLEAN, role: {"OWNER", "ADMIN"}, active: BOOLEAN, epoch: Epochs,
            password: Epochs, mfa: Epochs, cuts: Epochs]
Absent == [exists |-> FALSE, role |-> "ADMIN", active |-> FALSE, epoch |-> 0,
           password |-> 0, mfa |-> 0, cuts |-> 0]
Update == [account: Accounts, role: {"OWNER", "ADMIN"}, active: BOOLEAN]

\* What a login has proved, and of which account: password and mfa; cuts is the
\* account's when the login read it.
Proof == [account: Accounts \cup {Nobody}, epoch: Epochs, password: Epochs,
          mfa: Epochs, cuts: Epochs]
NoProof == [account |-> Nobody, epoch |-> 0, password |-> 0, mfa |-> 0, cuts |-> 0]
Idle == [at |-> "IDLE", proof |-> NoProof, trust |-> FALSE, sweeps |-> {}]
NoChange == [what |-> "NONE", epoch |-> 0]

AdminTypeOK ==
  /\ account \in [Accounts -> Account]
  /\ bootstrap \in BOOLEAN
  /\ update \subseteq Update
  /\ session \in [Sessions -> [state: {"NONE", "LIVE", "REVOKED"}, proof: Proof]]
  /\ change \in [Sessions -> [what: {"NONE", "PASSWORD", "MFA"}, epoch: Epochs]]
  /\ login \in [Logins -> [at: {"IDLE", "CHALLENGED", "VERIFIED", "SWEPT"}, proof: Proof,
                           trust: BOOLEAN, sweeps: SUBSET Sessions]]
  /\ trusted \subseteq [account: Accounts, epoch: Epochs, mfa: Epochs]

AdminInit ==
  /\ account = [a \in Accounts |-> Absent]
  /\ bootstrap = FALSE
  /\ update = {}
  /\ session = [s \in Sessions |-> [state |-> "NONE", proof |-> NoProof]]
  /\ change = [s \in Sessions |-> NoChange]
  /\ login = [l \in Logins |-> Idle]
  /\ trusted = {}

-----------------------------------------------------------------------------
(* What the code asks of the rows *)

\* findSessionAccount
Of(s) == session[s].proof.account
Valid(s) ==
  /\ session[s].state = "LIVE"
  /\ account[Of(s)].active
  /\ session[s].proof.epoch = account[Of(s)].epoch

Owners == {a \in Accounts : account[a].exists /\ account[a].active /\ account[a].role = "OWNER"}
Unlocked(a) == \A u \in update : u.account # a

Live(a) == {s \in Sessions : session[s].state = "LIVE" /\ Of(s) = a}
Without(S) == [s \in Sessions |-> IF s \in S THEN [session[s] EXCEPT !.state = "REVOKED"]
                                  ELSE session[s]]

-----------------------------------------------------------------------------
(* Accounts *)

\* bootstrapAdmin, which looks for an owner under the lock of the singleton row.
Bootstrap(a) ==
  /\ ~bootstrap
  /\ Owners = {}
  /\ ~account[a].exists
  /\ account' = [account EXCEPT ![a] = [Absent EXCEPT !.exists = TRUE, !.role = "OWNER",
                                                      !.active = TRUE]]
  /\ bootstrap' = TRUE
  /\ UNCHANGED <<update, session, change, login, trusted>>

CreateAccount(a, role) ==
  /\ Owners # {}
  /\ ~account[a].exists
  /\ account' = [account EXCEPT ![a] = [Absent EXCEPT !.exists = TRUE, !.role = role,
                                                      !.active = TRUE]]
  /\ UNCHANGED <<bootstrap, update, session, change, login, trusted>>

\* updateAdminAccount locks the row of the account; the trigger looks for another
\* owner among the rows that are committed.
LeavesOwner(a, role, active) ==
  \/ a \notin Owners
  \/ active /\ role = "OWNER"
  \/ Owners \ {a} # {}

UpdateAccount(a, role, active) ==
  /\ account[a].exists
  /\ Unlocked(a)
  /\ LeavesOwner(a, role, active)
  /\ update' = update \cup {[account |-> a, role |-> role, active |-> active]}
  /\ UNCHANGED <<account, bootstrap, session, change, login, trusted>>

CommitUpdate(u) ==
  LET a == u.account IN
  /\ account' = [account EXCEPT ![a].role = u.role, ![a].active = u.active]
  /\ session' = IF ~u.active \/ u.role # account[a].role THEN Without(Live(a)) ELSE session
  /\ update' = update \ {u}
  /\ UNCHANGED <<bootstrap, change, login, trusted>>

\* setManagedAdminPassword, setManagedAdminMfa, revokeAdminAccountSessions and
\* revokeAllAdminSessions: a new epoch, and no session is left.
NextEpoch_same(a) == account[a].epoch   \* mutant
NextEpoch(a) == account[a].epoch + 1

CutOff(a, row) ==
  /\ account[a].exists
  /\ Unlocked(a)
  /\ account[a].epoch < MaxEpoch
  /\ account' = [account EXCEPT ![a] = [row EXCEPT !.epoch = NextEpoch(a), !.cuts = @ + 1]]
  /\ session' = Without(Live(a))
  /\ UNCHANGED <<bootstrap, update, change, login, trusted>>

SetPassword(a) ==
  /\ a # Managed
  /\ CutOff(a, [account[a] EXCEPT !.password = NextEpoch(a)])

SetMfa(a, enabled) ==
  /\ a # Managed
  /\ CutOff(a, [account[a] EXCEPT !.mfa = IF enabled THEN NextEpoch(a) ELSE 0])

RevokeSessions(a) == CutOff(a, account[a])

\* syncDeploymentManagedAdmin: without a rotation the password and the epoch
\* stay, while the configured TOTP secret is taken over all the same.
Sync(rotate, mfa) ==
  /\ Managed # Nobody
  /\ Unlocked(Managed)
  /\ LET row    == account[Managed]
         synced == [row EXCEPT !.exists = TRUE, !.role = "OWNER", !.active = TRUE]
     IN IF rotate \/ ~row.exists
        THEN /\ row.epoch < MaxEpoch
             /\ account' = [account EXCEPT ![Managed] =
                  [synced EXCEPT !.epoch = @ + 1, !.password = row.epoch + 1,
                                 !.mfa = IF mfa THEN row.epoch + 1 ELSE @, !.cuts = @ + 1]]
             /\ session' = Without(Live(Managed))
        ELSE /\ account' = [account EXCEPT ![Managed] =
                  [synced EXCEPT !.mfa = IF mfa THEN row.epoch ELSE @]]
             /\ UNCHANGED session
  /\ UNCHANGED <<bootstrap, update, change, login, trusted>>

-----------------------------------------------------------------------------
(* Logins *)

Go(l, row) == login' = [login EXCEPT ![l] = row]

\* trustedDeviceMatches
Trusts_any(cookie, a) == cookie.account = a   \* mutant
Trusts(cookie, a) == cookie.account = a /\ cookie.epoch = account[a].epoch

\* /api/login, with the account's password.
Password(l, a) ==
  LET proof == [account |-> a, epoch |-> account[a].epoch, password |-> account[a].password,
                mfa |-> 0, cuts |-> account[a].cuts]
  IN
  /\ login[l].at = "IDLE"
  /\ account[a].exists /\ account[a].active
  /\ \/ /\ account[a].mfa = 0
        /\ Go(l, [Idle EXCEPT !.at = "VERIFIED", !.proof = proof])
     \/ /\ account[a].mfa # 0
        /\ Go(l, [Idle EXCEPT !.at = "CHALLENGED", !.proof = proof])
     \/ \E cookie \in trusted :
          /\ account[a].mfa # 0
          /\ Trusts(cookie, a)
          /\ Go(l, [Idle EXCEPT !.at = "VERIFIED", !.proof = [proof EXCEPT !.mfa = cookie.mfa]])
  /\ UNCHANGED <<account, bootstrap, update, session, change, trusted>>

\* /api/login/mfa, with a code of the account's present secret.
AnswerChallenge(l) ==
  LET a == login[l].proof.account IN
  /\ login[l].at = "CHALLENGED"
  /\ account[a].active /\ account[a].mfa # 0
  /\ account[a].epoch = login[l].proof.epoch
  /\ Go(l, [login[l] EXCEPT !.at = "VERIFIED", !.trust = TRUE, !.proof.mfa = account[a].mfa])
  /\ UNCHANGED <<account, bootstrap, update, session, change, trusted>>

\* createAdminSession: one statement revokes the sessions there are, the next
\* inserts this one; two logins may both be between the two.  A row that nothing
\* refers to any more stands for a new one.
SweepSessions(l) ==
  /\ login[l].at = "VERIFIED"
  /\ Go(l, [login[l] EXCEPT !.at = "SWEPT", !.sweeps = Live(login[l].proof.account)])
  /\ UNCHANGED <<account, bootstrap, update, session, change, trusted>>

InsertSession(l, s) ==
  LET proof == login[l].proof IN
  /\ login[l].at = "SWEPT"
  /\ session[s].state # "LIVE" /\ change[s] = NoChange
  /\ \A m \in Logins \ {l} : s \notin login[m].sweeps
  /\ session' = [Without(login[l].sweeps) EXCEPT ![s] = [state |-> "LIVE", proof |-> proof]]
  /\ trusted' = IF login[l].trust
                THEN trusted \cup {[account |-> proof.account, epoch |-> proof.epoch, mfa |-> proof.mfa]}
                ELSE trusted
  /\ Go(l, Idle)
  /\ UNCHANGED <<account, bootstrap, update, change>>

\* The login fails, is refused, or is given up.
Abandon(l) ==
  /\ login[l].at # "IDLE"
  /\ Go(l, Idle)
  /\ UNCHANGED <<account, bootstrap, update, session, change, trusted>>

-----------------------------------------------------------------------------
(* An administrator and the own account *)

EndSession(s) ==   \* logout, revokeOwnAdminSession, expiry
  /\ session[s].state = "LIVE"
  /\ session' = Without({s})
  /\ UNCHANGED <<account, bootstrap, update, change, login, trusted>>

RevokeOthers(s) ==
  /\ Valid(s)
  /\ session' = Without(Live(Of(s)) \ {s})
  /\ UNCHANGED <<account, bootstrap, update, change, login, trusted>>

\* changeAdminPassword has verified the current password, or the enrollment has
\* been started, which remembers the epoch.
BeginChange(s, what) ==
  /\ Valid(s)
  /\ Of(s) # Managed
  /\ change[s] = NoChange
  /\ change' = [change EXCEPT ![s] = [what |-> what, epoch |-> account[Of(s)].epoch]]
  /\ UNCHANGED <<account, bootstrap, update, session, login, trusted>>

\* The session that made the change goes on under the new epoch, if it has not
\* been revoked meanwhile; the others end.
Renewed(s, a, proof) ==
  [Without(Live(a) \ {s}) EXCEPT
     ![s].proof = IF session[s].state = "LIVE" THEN proof ELSE @]

CommitPassword(s) ==
  LET a == Of(s) IN
  /\ change[s].what = "PASSWORD"
  /\ Unlocked(a)
  /\ account[a].epoch < MaxEpoch
  /\ account' = [account EXCEPT ![a].password = NextEpoch(a), ![a].epoch = NextEpoch(a)]
  /\ session' = Renewed(s, a, [session[s].proof EXCEPT !.password = NextEpoch(a),
                                                      !.epoch = NextEpoch(a)])
  /\ change' = [change EXCEPT ![s] = NoChange]
  /\ UNCHANGED <<bootstrap, update, login, trusted>>

\* /api/admin-mfa/enrollment/verify
CommitMfa(s) ==
  LET a == Of(s) IN
  /\ change[s].what = "MFA"
  /\ Unlocked(a)
  /\ account[a].epoch = change[s].epoch
  /\ account[a].epoch < MaxEpoch
  /\ account' = [account EXCEPT ![a].mfa = NextEpoch(a), ![a].epoch = NextEpoch(a)]
  /\ session' = Renewed(s, a, [session[s].proof EXCEPT !.mfa = NextEpoch(a),
                                                      !.epoch = NextEpoch(a)])
  /\ change' = [change EXCEPT ![s] = NoChange]
  /\ trusted' = trusted \cup {[account |-> a, epoch |-> NextEpoch(a), mfa |-> NextEpoch(a)]}
  /\ UNCHANGED <<bootstrap, update, login>>

DropChange(s) ==
  /\ change[s] # NoChange
  /\ change' = [change EXCEPT ![s] = NoChange]
  /\ UNCHANGED <<account, bootstrap, update, session, login, trusted>>

-----------------------------------------------------------------------------
Management ==
  \/ \E a \in Accounts :
       \/ Bootstrap(a) \/ SetPassword(a) \/ RevokeSessions(a)
       \/ \E enabled \in BOOLEAN : SetMfa(a, enabled)
       \/ \E role \in {"OWNER", "ADMIN"} : CreateAccount(a, role)
       \/ \E role \in {"OWNER", "ADMIN"}, active \in BOOLEAN : UpdateAccount(a, role, active)
  \/ \E u \in update : CommitUpdate(u)

Deployment == \E rotate, mfa \in BOOLEAN : Sync(rotate, mfa)

Login ==
  \E l \in Logins :
    \/ \E a \in Accounts : Password(l, a)
    \/ \E s \in Sessions : InsertSession(l, s)
    \/ AnswerChallenge(l) \/ SweepSessions(l) \/ Abandon(l)

Own ==
  \E s \in Sessions :
    \/ EndSession(s) \/ RevokeOthers(s) \/ CommitPassword(s) \/ CommitMfa(s) \/ DropChange(s)
    \/ \E what \in {"PASSWORD", "MFA"} : BeginChange(s, what)

AdminNext == Management \/ Deployment \/ Login \/ Own
AdminSpec == AdminInit /\ [][AdminNext]_adminVars

-----------------------------------------------------------------------------
(* Properties *)

\* A session that is honoured rests on the credentials of its account as they
\* are: its login proved the present password and, where MFA is on, the present
\* secret, however long the login, a trusted device or a change of credentials
\* took to come through.  The deployment's own account is left out of the second
\* part: its secret is replaced without a new epoch.
SessionProvesCredentials ==
  \A s \in Sessions : Valid(s) =>
    LET row == account[Of(s)] IN
    /\ session[s].proof.password = row.password
    /\ Of(s) # Managed /\ row.mfa # 0 => session[s].proof.mfa = row.mfa

\* Revoking all sessions of an account reaches the logins that are under way: no
\* session is honoured whose login read the account before.
RevocationReachesLogins ==
  \A s \in Sessions : Valid(s) => session[s].proof.cuts = account[Of(s)].cuts

\* The inductive invariant behind the two: whatever proved itself under an epoch
\* that is still the account's agrees with the account.  It holds of sessions,
\* of logins, of trusted devices, and of a session that is changing credentials,
\* which has the present epoch as long as it is not revoked.
Agrees(a, epoch, mfa) ==
  /\ a \in Accounts
  /\ account[a].exists
  /\ epoch <= account[a].epoch
  /\ epoch = account[a].epoch /\ a # Managed /\ account[a].mfa # 0 => mfa = account[a].mfa
AgreesFirst(p) ==
  /\ p.account \in Accounts
  /\ account[p.account].exists
  /\ p.epoch <= account[p.account].epoch
  /\ p.epoch = account[p.account].epoch =>
       p.password = account[p.account].password /\ p.cuts = account[p.account].cuts
AgreesFully(p) == AgreesFirst(p) /\ Agrees(p.account, p.epoch, p.mfa)

SessionsAgree == \A s \in Sessions : session[s].state # "NONE" => AgreesFully(session[s].proof)
LoginsAgree ==
  \A l \in Logins :
    /\ login[l].at # "IDLE" => AgreesFirst(login[l].proof)
    /\ login[l].at \in {"VERIFIED", "SWEPT"} => AgreesFully(login[l].proof)
SweptExist == \A l \in Logins : \A s \in login[l].sweeps : session[s].state # "NONE"
DevicesAgree == \A cookie \in trusted : Agrees(cookie.account, cookie.epoch, cookie.mfa)
ChangesAreCurrent ==
  \A s \in Sessions : change[s] # NoChange =>
    /\ session[s].state # "NONE"
    /\ Of(s) # Managed
    /\ session[s].state = "LIVE" => session[s].proof.epoch = account[Of(s)].epoch
RowsSound ==
  \A a \in Accounts :
    /\ account[a].cuts <= account[a].epoch
    /\ ~account[a].exists => account[a].epoch = 0
AdminIInv ==
  /\ AdminTypeOK /\ SessionsAgree /\ LoginsAgree /\ SweptExist /\ DevicesAgree /\ ChangesAreCurrent
  /\ RowsSound
=============================================================================
