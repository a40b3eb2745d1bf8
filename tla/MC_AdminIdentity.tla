---------------------------- MODULE MC_AdminIdentity ----------------------------
(* Small instances of AdminIdentity for TLC. *)
EXTENDS AdminIdentity, FiniteSets, TLC

\* Sessions and logins are interchangeable.
Symmetry == Permutations(Sessions) \cup Permutations(Logins)

Quiet ==
  /\ \A s \in Sessions : session[s].state = "NONE"
  /\ \A l \in Logins : login[l].at = "IDLE"

\* One account at a time has sessions, two trusted devices are remembered, and an
\* update of an account is not left open for long.
Focused ==
  /\ (\A a \in Accounts : account[a].exists) => Quiet
  /\ Cardinality(trusted) <= 2
  /\ update # {} => \A s \in Sessions : change[s] = NoChange
=============================================================================
