---------------------------- MODULE SignalRecords ----------------------------
(***************************************************************************)
(* The vocabulary shared by the abstract lifecycle of an agent signal      *)
(* (SignalLifecycle) and the inbox that implements it (SignalInbox): the   *)
(* stored record, its statuses and how each transition rewrites it         *)
(* (app/agent_signals.py).  A record is reduced to the fields the          *)
(* transitions read or write; the payload is opaque.                       *)
(***************************************************************************)
EXTENDS Integers

CONSTANTS
    Signals,     \* signal ids: each names one object of the bucket
    Principals,  \* the authenticated callers a claim can belong to
    NoOne,       \* claimed_by = None
    Lease,       \* claim_lease_seconds
    Retention,   \* completed_retention_days
    Skew,        \* how far an instance's clock may be from real time
    MaxTime      \* bound on the clock

ASSUME RecordsAssumption ==
    /\ Signals # {}
    /\ NoOne \notin Principals
    /\ Lease \in Nat
    /\ Retention \in Nat
    /\ Skew \in Nat
    /\ MaxTime \in Nat

\* SignalStatus, and "absent" for a name under which no object is stored.
SignalStatus == {"absent", "pending", "claimed", "completed", "dismissed"}

\* claimed_by, claim_expires_at, and completed_at or dismissed_at.
SignalRecord == [status  : SignalStatus,
                 owner   : Principals \cup {NoOne},
                 expires : Int,
                 ended   : Int]

Blank(st) == [status |-> st, owner |-> NoOne, expires |-> 0, ended |-> 0]
Absent    == Blank("absent")
Pending   == Blank("pending")

\* The record a claim writes: claim_expires_at = now + claim_lease.
ClaimedBy(p, now) ==
    [status |-> "claimed", owner |-> p, expires |-> now + Lease, ended |-> 0]

\* The record a completion or a dismissal writes; the claim fields stay.
EndedAs(r, st, now) == [r EXCEPT !.status = st, !.ended = now]

\* Readings of the clock a request may hold: an instance reads a clock at most
\* Skew away from real time, and a request keeps using the one it read first.
ReadingsSoFar(clock) == (-Skew)..(clock + Skew)
=============================================================================
