------------------------------- MODULE AuditLog -------------------------------
(* What a component's audit stream promises its component: the log only     *)
(* grows at its end, and an event that was acknowledged is in the log with  *)
(* the number and the content it was acknowledged for.                      *)
EXTENDS Naturals, Sequences

CONSTANT Contents   \* what an event can say

VARIABLES log,           \* the contents recorded, in order
          acknowledged   \* <<number, content>> pairs the component was told are kept

vars == <<log, acknowledged>>

Init == log = <<>> /\ acknowledged = {}

Record(c) == /\ log' = Append(log, c)
             /\ UNCHANGED acknowledged

Acknowledge(n) == /\ acknowledged' = acknowledged \cup {<<n, log[n]>>}
                  /\ UNCHANGED log

Next == \/ \E c \in Contents : Record(c)
        \/ \E n \in DOMAIN log : Acknowledge(n)

Spec == Init /\ [][Next]_vars
=============================================================================
