--------------------------- MODULE SignalLifecycle ---------------------------
(***************************************************************************)
(* What the Agent Signal Inbox promises, as one atomic register per        *)
(* signal: the lifecycle diagram of README.md ("Agent Signal Inbox v1")    *)
(* with the claim lease and the retention of terminal signals.  There are  *)
(* no requests, generations, retries or deliveries here: SignalInbox has   *)
(* them, and implements this specification.                                *)
(***************************************************************************)
EXTENDS SignalRecords

VARIABLES clock, rec

vars == <<clock, rec>>

Become(s, r) == /\ rec' = [rec EXCEPT ![s] = r]
                /\ UNCHANGED clock

\* By some clock within Skew of real time, the claim on s has run out.
MayHaveExpired(s) == /\ rec[s].status = "claimed"
                     /\ rec[s].expires <= clock + Skew

OwnedBy(s, p) == rec[s].status = "claimed" /\ rec[s].owner = p

Init == /\ clock = 0
        /\ rec = [s \in Signals |-> Absent]

Tick == /\ clock < MaxTime
        /\ clock' = clock + 1
        /\ UNCHANGED rec

Receive(s) == rec[s].status = "absent" /\ Become(s, Pending)

Claim(s, p, t) == /\ rec[s].status = "pending" \/ MayHaveExpired(s)
                  /\ Become(s, ClaimedBy(p, t))

Expire(s) == MayHaveExpired(s) /\ Become(s, Pending)

Release(s, p) == OwnedBy(s, p) /\ Become(s, Pending)

Complete(s, p, t) == /\ OwnedBy(s, p)
                     /\ t < rec[s].expires
                     /\ Become(s, EndedAs(rec[s], "completed", t))

Dismiss(s, p, t) == /\ rec[s].status = "pending" \/ OwnedBy(s, p)
                    /\ Become(s, EndedAs(rec[s], "dismissed", t))

Purge(s) == /\ rec[s].status \in {"completed", "dismissed"}
            /\ rec[s].ended + Retention < clock + Skew
            /\ Become(s, Absent)

Next == \/ Tick
        \/ \E s \in Signals :
              \/ Receive(s)
              \/ Expire(s)
              \/ Purge(s)
              \/ \E p \in Principals :
                    \/ Release(s, p)
                    \/ \E t \in ReadingsSoFar(clock) :
                          \/ Claim(s, p, t)
                          \/ Complete(s, p, t)
                          \/ Dismiss(s, p, t)

Spec == Init /\ [][Next]_vars
=============================================================================
