----------------------------- MODULE TrustLedger -----------------------------
(***************************************************************************)
(* What the storage promises about local trust policy, with no             *)
(* transactions and no failures: trust snapshots are accepted whole, with  *)
(* their anchors, in increasing sequence, and never change; each stream of *)
(* status records is accepted one record after the other, without a gap, a *)
(* fork or a step back.                                                    *)
(*                                                                         *)
(* The promise is data-architecture.md, "Trust, status, and key lifecycle  *)
(* integrity".  TrustStore implements it.                                  *)
(***************************************************************************)
EXTENDS Naturals

CONSTANTS
    Policy,     \* [id, hash, sequence, anchors]: snapshots with their anchors
    Status      \* [snapshot, publisher, target, sequence, digest]: status marks

VARIABLES
    policies,   \* the accepted snapshots
    statuses    \* the accepted marks

ledgerVars == <<policies, statuses>>

SameStream(m, n) ==
    /\ m.snapshot = n.snapshot
    /\ m.publisher = n.publisher
    /\ m.target = n.target

Init ==
    /\ policies = {}
    /\ statuses = {}

AcceptPolicy(s) ==
    /\ \A t \in policies : t.id # s.id /\ t.sequence < s.sequence
    /\ policies' = policies \cup {s}
    /\ UNCHANGED statuses

AcceptStatus(m) ==
    /\ \E s \in policies : s.id = m.snapshot
    /\ {n.sequence : n \in {k \in statuses : SameStream(k, m)}} = 1 .. (m.sequence - 1)
    /\ statuses' = statuses \cup {m}
    /\ UNCHANGED policies

Next ==
    \/ \E s \in Policy : AcceptPolicy(s)
    \/ \E m \in Status : AcceptStatus(m)

Spec == Init /\ [][Next]_ledgerVars
=============================================================================
