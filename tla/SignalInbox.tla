----------------------------- MODULE SignalInbox -----------------------------
(***************************************************************************)
(* The Agent Signal Inbox (app/agent_signals.py) with the two doors to it: *)
(* the Pub/Sub push endpoint (app/main.py) and the lifecycle tools of the  *)
(* MCP server (app/mcp_server.py).                                         *)
(*                                                                         *)
(* One signal is one object of a bucket.  Every write is conditional on    *)
(* the generation its request read; nothing else serialises the callers,   *)
(* which run on any number of instances.  A request is therefore a         *)
(* sequence of steps - read, decide, conditional write - and other         *)
(* requests, deliveries, the clock and failures come between them.         *)
(***************************************************************************)
EXTENDS SignalRecords

CONSTANTS
    Sessions,     \* MCP clients; each has at most one tool call in flight
    PrincipalOf,  \* the principal a session authenticates as
    SignalTypes,  \* the values of signal_type
    Visible,      \* the signal types that a principal may touch
    Listers,      \* callers of list_agent_signals and agent_signal_status
    Messages,     \* Pub/Sub messages
    SignalOf,     \* the signal_id in a message's payload
    TypeOf,       \* the signal_type in it
    Malformed,    \* the messages whose envelope or payload does not validate
    Pushers,      \* concurrent push requests of the subscription
    MaxAttempts,  \* MAX_WRITE_ATTEMPTS
    MaxGen,       \* bound: no call starts on a signal written this many times
    MaxDups       \* bound on deliveries of messages already acknowledged

ASSUME InboxAssumption ==
    /\ PrincipalOf \in [Sessions -> Principals]
    /\ Visible \in [Principals -> SUBSET SignalTypes]
    /\ Messages # {}
    /\ SignalOf \in [Messages -> Signals]
    /\ TypeOf \in [Messages -> SignalTypes]
    /\ Malformed \subseteq Messages
    /\ MaxAttempts \in Nat \ {0}
    /\ MaxGen \in Nat
    /\ MaxDups \in Nat

VARIABLES
    clock,   \* real time
    obj,     \* obj[s]: the live object of signal s
    gen,     \* gen[s]: the generation of the last write to s
    type,    \* type[s]: the signal_type of the last object that was signal s
    call,    \* call[x]: the tool call session x has in flight
    scan,    \* scan[l]: the list or status call lister l has in flight
    sent,    \* messages published
    acked,   \* messages acknowledged with a 2xx
    push,    \* push[h]: the push request h is handling
    dups,    \* deliveries of acknowledged messages so far
    settled  \* history: signals some call has completed or dismissed

store    == <<obj, gen, type>>
delivery == <<sent, acked, push, dups>>
vars     == <<clock, obj, gen, type, call, scan, sent, acked, push, dups, settled>>

-----------------------------------------------------------------------------
(* Clock readings, expiry and conditional writes.                          *)

\* What an instance's clock may show now.
Readings == (clock - Skew)..(clock + Skew)

Terminal == {"completed", "dismissed"}

\* Mutant of IsExpired: the lease is measured from its start.
IsExpiredAtOnce(r, now) == r.status = "claimed" /\ r.expires - Lease <= now

IsExpired(r, now) == r.status = "claimed" /\ r.expires <= now

\* Mutant of Matches: a write without its generation precondition.
MatchesAnyGeneration(s, g) == obj[s].status # "absent"

\* if_generation_match = g finds the live object at generation g.
Matches(s, g) == obj[s].status # "absent" /\ gen[s] = g

Put(s, r) == /\ obj' = [obj EXCEPT ![s] = r]
             /\ gen' = [gen EXCEPT ![s] = gen[s] + 1]

\* Every transition copies the signal_type of the record.
Rewrite(s, r) == Put(s, r) /\ UNCHANGED type

\* A conditional write of r over generation g: applied or refused.
Replace(s, g, r) == \/ Matches(s, g) /\ Rewrite(s, r)
                    \/ ~Matches(s, g) /\ UNCHANGED store

-----------------------------------------------------------------------------
(* Tool calls.  claim, complete, dismiss and release first run             *)
(* _authorized_signal (a get, which reopens an expired claim, and the      *)
(* signal type check) and then a read-transition-replace loop.             *)

Ops == {"get", "claim", "complete", "dismiss", "release"}

AnySignal == CHOOSE s \in Signals : TRUE
AnyType   == CHOOSE t \in SignalTypes : TRUE

CallPhase == {"idle", "get", "check", "reget", "call", "read", "write"}

Call == [phase : CallPhase, op : Ops, sig : Signals,
         type : SignalTypes,  \* the type that is checked
         now : Int, seen : SignalRecord, at : Nat, tries : 0..(MaxAttempts - 1)]

Idle == [phase |-> "idle", op |-> "get", sig |-> AnySignal, type |-> AnyType,
         now |-> 0, seen |-> Absent, at |-> 0, tries |-> 0]

\* Mutant of Allowed: complete forgets whose claim it is.
AllowedAnyOwner(op, r, p, now) ==
    CASE op = "claim"    -> r.status = "pending" \/ IsExpired(r, now)
      [] op = "complete" -> r.status = "claimed" /\ ~IsExpired(r, now)
      [] op = "dismiss"  -> \/ r.status = "pending"
                            \/ r.status = "claimed" /\ r.owner = p
      [] op = "release"  -> r.status = "claimed" /\ r.owner = p
      [] OTHER           -> FALSE

\* The transition's guard on record r for principal p; its failure is a 409.
Allowed(op, r, p, now) ==
    CASE op = "claim"    -> r.status = "pending" \/ IsExpired(r, now)
      [] op = "complete" -> /\ r.status = "claimed" /\ ~IsExpired(r, now)
                            /\ r.owner = p
      [] op = "dismiss"  -> \/ r.status = "pending"
                            \/ r.status = "claimed" /\ r.owner = p
      [] op = "release"  -> r.status = "claimed" /\ r.owner = p
      [] OTHER           -> FALSE

Updated(op, r, p, now) ==
    CASE op = "claim"    -> ClaimedBy(p, now)
      [] op = "complete" -> EndedAs(r, "completed", now)
      [] op = "dismiss"  -> EndedAs(r, "dismissed", now)
      [] OTHER           -> Pending

\* The call of x returns or raises.
Finish(x)      == call' = [call EXCEPT ![x] = Idle]
Goto(x, phase) == call' = [call EXCEPT ![x].phase = phase]

Snapshot(x, phase) ==
    LET s == call[x].sig
    IN  call' = [call EXCEPT ![x].phase = phase,
                             ![x].seen = obj[s],
                             ![x].at = gen[s]]

\* The call goes on, having checked type t.
Passed(x, t) == call' = [call EXCEPT ![x].phase = "call", ![x].type = t]

\* Mutant of Authorized: the signal type is not looked at.
AuthorizedAnyType(x, t) == IF call[x].op # "get" THEN Passed(x, t) ELSE Finish(x)

\* A get ends here, and so does a call on a signal type the principal lacks.
Authorized(x, t) ==
    IF call[x].op # "get" /\ t \in Visible[PrincipalOf[x]]
    THEN Passed(x, t) ELSE Finish(x)

StartCall(x, op, s) ==
    /\ call[x].phase = "idle"
    /\ gen[s] < MaxGen
    /\ call' = [call EXCEPT ![x] = [Idle EXCEPT !.phase = "get",
                                                !.op = op, !.sig = s]]
    /\ UNCHANGED <<clock, store, scan, delivery, settled>>

\* backend.read of get; a missing object is a 404.
Get(x) ==
    /\ call[x].phase = "get"
    /\ LET s == call[x].sig IN
       IF obj[s].status = "absent" THEN Finish(x)
       ELSE call' = [call EXCEPT ![x].phase = "check", ![x].type = type[s],
                                 ![x].seen = obj[s], ![x].at = gen[s]]
    /\ UNCHANGED <<clock, store, scan, delivery, settled>>

\* _normalize_expired.  A refused replace is ignored: another caller changed
\* the record, and it is read again either way.
Check(x) ==
    /\ call[x].phase = "check"
    /\ \E now \in Readings :
          \/ /\ ~IsExpired(call[x].seen, now)
             /\ Authorized(x, call[x].type)
             /\ UNCHANGED store
          \/ /\ IsExpired(call[x].seen, now)
             /\ Replace(call[x].sig, call[x].at, Pending)
             /\ Goto(x, "reget")
    /\ UNCHANGED <<clock, scan, delivery, settled>>

Reget(x) ==
    /\ call[x].phase = "reget"
    /\ IF obj[call[x].sig].status = "absent" THEN Finish(x)
       ELSE Authorized(x, type[call[x].sig])
    /\ UNCHANGED <<clock, store, scan, delivery, settled>>

\* The operation reads the clock once, before its first read of the object.
\* Bound: no claim is made that would outlast MaxTime.
Begin(x) ==
    /\ call[x].phase = "call"
    /\ \E now \in Readings :
          /\ call[x].op = "claim" => now + Lease + Skew <= MaxTime
          /\ call' = [call EXCEPT ![x].phase = "read", ![x].now = now]
    /\ UNCHANGED <<clock, store, scan, delivery, settled>>

\* _update: backend.read and the transition's guard.
Read(x) ==
    LET c == call[x]
        r == obj[c.sig]
    IN  /\ c.phase = "read"
        /\ IF Allowed(c.op, r, PrincipalOf[x], c.now)
           THEN Snapshot(x, "write")
           ELSE Finish(x)
        /\ UNCHANGED <<clock, store, scan, delivery, settled>>

\* Mutant of Retry: one attempt too many.
RetryOnceMore(x) ==
    IF call[x].tries < MaxAttempts
    THEN call' = [call EXCEPT ![x].phase = "read",
                              ![x].tries = call[x].tries + 1]
    ELSE Finish(x)

\* The loop goes round again, or gives up with agent_signal_conflict.
Retry(x) ==
    IF call[x].tries + 1 < MaxAttempts
    THEN call' = [call EXCEPT ![x].phase = "read",
                              ![x].tries = call[x].tries + 1]
    ELSE Finish(x)

\* _update: backend.replace.  A write whose response was lost is sent again by
\* the storage client and then refused, so the code sees a conflict although
\* its own write went through.
Write(x) ==
    LET c == call[x]
        r == Updated(c.op, c.seen, PrincipalOf[x], c.now)
    IN  /\ c.phase = "write"
        /\ \/ /\ Matches(c.sig, c.at)
              /\ Rewrite(c.sig, r)
              /\ settled' = IF r.status \in Terminal THEN settled \cup {c.sig}
                                                   ELSE settled
              /\ Finish(x) \/ Retry(x)
           \/ /\ ~Matches(c.sig, c.at)
              /\ Retry(x)
              /\ UNCHANGED <<store, settled>>
        /\ UNCHANGED <<clock, scan, delivery>>

\* Storage unavailable, client gone, or the instance is stopped.
Abort(x) ==
    /\ call[x].phase # "idle"
    /\ Finish(x)
    /\ UNCHANGED <<clock, store, scan, delivery, settled>>

-----------------------------------------------------------------------------
(* list and status: cleanup of old terminal signals, then a listing whose  *)
(* expired claims are reopened one by one.                                 *)

ScanPhase == {"idle", "sweep", "purge", "normalize"}

Scan == [phase  : ScanPhase,
         cutoff : Int,
         todo   : SUBSET Signals,
         snap   : [Signals -> SignalRecord],
         at     : [Signals -> Nat]]

NoScan == [phase  |-> "idle",
           cutoff |-> 0,
           todo   |-> {},
           snap   |-> [s \in Signals |-> Absent],
           at     |-> [s \in Signals |-> 0]]

Listing(l, phase, todo) ==
    scan' = [scan EXCEPT ![l].phase = phase, ![l].todo = todo,
                         ![l].snap = obj, ![l].at = gen]

Handled(l, s) == scan' = [scan EXCEPT ![l].todo = scan[l].todo \ {s}]

ListStart(l) ==
    /\ scan[l].phase = "idle"
    /\ \E now \in Readings :
          scan' = [scan EXCEPT ![l] = [NoScan EXCEPT !.phase = "sweep",
                                                     !.cutoff = now - Retention]]
    /\ UNCHANGED <<clock, store, call, delivery, settled>>

\* cleanup: the signals that ended before the cutoff.
ListSweep(l) ==
    /\ scan[l].phase = "sweep"
    /\ Listing(l, "purge", {s \in Signals :
                               /\ obj[s].status \in Terminal
                               /\ obj[s].ended < scan[l].cutoff})
    /\ UNCHANGED <<clock, store, call, delivery, settled>>

\* A delete conditional on the generation listed; a refusal is ignored.
ListPurge(l, s) ==
    /\ scan[l].phase = "purge"
    /\ s \in scan[l].todo
    /\ \/ /\ Matches(s, scan[l].at[s])
          /\ obj' = [obj EXCEPT ![s] = Absent]
          /\ UNCHANGED <<gen, type>>
       \/ /\ ~Matches(s, scan[l].at[s])
          /\ UNCHANGED store
    /\ Handled(l, s)
    /\ UNCHANGED <<clock, call, delivery, settled>>

ListScan(l) ==
    /\ scan[l].phase = "purge"
    /\ scan[l].todo = {}
    /\ Listing(l, "normalize", {s \in Signals : obj[s].status = "claimed"})
    /\ UNCHANGED <<clock, store, call, delivery, settled>>

ListNormalize(l, s) ==
    /\ scan[l].phase = "normalize"
    /\ s \in scan[l].todo
    /\ \E now \in Readings :
          \/ ~IsExpired(scan[l].snap[s], now) /\ UNCHANGED store
          \/ /\ IsExpired(scan[l].snap[s], now)
             /\ Replace(s, scan[l].at[s], Pending)
    /\ Handled(l, s)
    /\ UNCHANGED <<clock, call, delivery, settled>>

ListDone(l) ==
    /\ scan[l].phase = "normalize"
    /\ scan[l].todo = {}
    /\ scan' = [scan EXCEPT ![l] = NoScan]
    /\ UNCHANGED <<clock, store, call, delivery, settled>>

\* One failing read, delete or replace fails the whole call.
ListFail(l) ==
    /\ scan[l].phase # "idle"
    /\ scan' = [scan EXCEPT ![l] = NoScan]
    /\ UNCHANGED <<clock, store, call, delivery, settled>>

-----------------------------------------------------------------------------
(* Pub/Sub push: at least once, in any order, until acknowledged.          *)

PushPhase == {"idle", "create", "read", "respond"}

Push == [phase : PushPhase, msg : Messages]

AnyMessage == CHOOSE m \in Messages : TRUE
NoPush     == [phase |-> "idle", msg |-> AnyMessage]

PushGoto(h, phase) == push' = [push EXCEPT ![h].phase = phase]
PushEnd(h)         == push' = [push EXCEPT ![h] = NoPush]

Publish(m) ==
    /\ m \notin sent
    /\ sent' = sent \cup {m}
    /\ UNCHANGED <<clock, store, call, scan, acked, push, dups, settled>>

\* A malformed message is answered 204, so that it is never sent again.
Deliver(h, m) ==
    /\ push[h].phase = "idle"
    /\ m \in sent
    /\ \/ m \notin acked /\ UNCHANGED dups
       \/ m \in acked /\ dups < MaxDups /\ dups' = dups + 1
    /\ push' = [push EXCEPT
                  ![h] = [phase |-> IF m \in Malformed THEN "respond"
                                                       ELSE "create",
                          msg |-> m]]
    /\ UNCHANGED <<clock, store, call, scan, sent, acked, settled>>

\* backend.create: if_generation_match = 0.  As in Write, a create that went
\* through may be reported as refused.
Create(h) ==
    LET s == SignalOf[push[h].msg]
    IN  /\ push[h].phase = "create"
        /\ \/ /\ obj[s].status = "absent"
              /\ Put(s, Pending)
              /\ type' = [type EXCEPT ![s] = TypeOf[push[h].msg]]
              /\ PushGoto(h, "respond") \/ PushGoto(h, "read")
           \/ /\ obj[s].status # "absent"
              /\ PushGoto(h, "read")
              /\ UNCHANGED store
        /\ UNCHANGED <<clock, call, scan, sent, acked, dups, settled>>

\* Mutant of ReadExisting: a duplicate is answered with a conflict.
ReadExistingRejected(h) ==
    /\ push[h].phase = "read"
    /\ PushEnd(h)
    /\ UNCHANGED <<clock, store, call, scan, sent, acked, dups, settled>>

\* A duplicate answers with the record already there; if cleanup has just
\* deleted it the answer is a 404 and Pub/Sub delivers again.
ReadExisting(h) ==
    /\ push[h].phase = "read"
    /\ IF obj[SignalOf[push[h].msg]].status = "absent"
       THEN PushEnd(h) ELSE PushGoto(h, "respond")
    /\ UNCHANGED <<clock, store, call, scan, sent, acked, dups, settled>>

Respond(h) ==
    /\ push[h].phase = "respond"
    /\ acked' = acked \cup {push[h].msg}
    /\ PushEnd(h)
    /\ UNCHANGED <<clock, store, call, scan, sent, dups, settled>>

\* Mutant of PushFail: a delivery that was not persisted is answered 2xx.
PushFailAcknowledged(h) ==
    /\ push[h].phase # "idle"
    /\ acked' = acked \cup {push[h].msg}
    /\ PushEnd(h)
    /\ UNCHANGED <<clock, store, call, scan, sent, dups, settled>>

\* 401, 403 or 503, an instance that stops, or a response that is lost.
PushFail(h) ==
    /\ push[h].phase # "idle"
    /\ PushEnd(h)
    /\ UNCHANGED <<clock, store, call, scan, sent, acked, dups, settled>>

-----------------------------------------------------------------------------
Tick ==
    /\ clock < MaxTime
    /\ clock' = clock + 1
    /\ UNCHANGED <<store, call, scan, delivery, settled>>

Init ==
    /\ clock = 0
    /\ obj = [s \in Signals |-> Absent]
    /\ gen = [s \in Signals |-> 0]
    /\ type = [s \in Signals |-> AnyType]
    /\ call = [x \in Sessions |-> Idle]
    /\ scan = [l \in Listers |-> NoScan]
    /\ sent = {}
    /\ acked = {}
    /\ push = [h \in Pushers |-> NoPush]
    /\ dups = 0
    /\ settled = {}

SessionStep(x) ==
    \/ \E op \in Ops, s \in Signals : StartCall(x, op, s)
    \/ Get(x) \/ Check(x) \/ Reget(x) \/ Begin(x) \/ Read(x) \/ Write(x)
    \/ Abort(x)

ListerStep(l) ==
    \/ ListStart(l) \/ ListSweep(l) \/ ListScan(l) \/ ListDone(l)
    \/ \E s \in Signals : ListPurge(l, s) \/ ListNormalize(l, s)
    \/ ListFail(l)

PusherStep(h) ==
    \/ \E m \in Messages : Deliver(h, m)
    \/ Create(h) \/ ReadExisting(h) \/ Respond(h) \/ PushFail(h)

Next ==
    \/ Tick
    \/ \E x \in Sessions : SessionStep(x)
    \/ \E l \in Listers : ListerStep(l)
    \/ \E m \in Messages : Publish(m)
    \/ \E h \in Pushers : PusherStep(h)

Spec == Init /\ [][Next]_vars

\* Pub/Sub redelivers until it is acknowledged, and neither storage nor the
\* network fails the deliveries at the same step for ever.
DeliveryFairness ==
    /\ \A m \in Messages :
          SF_vars(m \notin acked /\ \E h \in Pushers : Deliver(h, m))
    /\ \A h \in Pushers :
          SF_vars(Create(h)) /\ SF_vars(ReadExisting(h)) /\ SF_vars(Respond(h))

DeliverySpec == Spec /\ DeliveryFairness

-----------------------------------------------------------------------------
(* Properties.                                                             *)

\* The values every variable can take.
TypeOK ==
    /\ clock \in 0..MaxTime
    /\ obj \in [Signals -> SignalRecord]
    /\ gen \in [Signals -> Nat]
    /\ type \in [Signals -> SignalTypes]
    /\ call \in [Sessions -> Call]
    /\ scan \in [Listers -> Scan]
    /\ sent \subseteq Messages
    /\ acked \subseteq Messages
    /\ push \in [Pushers -> Push]
    /\ dups \in 0..MaxDups
    /\ settled \subseteq Signals

\* By every instance's clock, the claim on s is still running.
Held(s) == obj[s].status = "claimed" /\ clock + Skew < obj[s].expires

\* The step is the write of a call of session x.
WrittenBy(x, s) == /\ call[x].phase = "write"
                   /\ call[x].sig = s
                   /\ call'[x] # call[x]

\* While a claim runs, nobody but its owner changes the record: not another
\* claim, not a list or get that reopens expired claims with a clock it read
\* before, not cleanup and not a delivery (_update, _normalize_expired).
LeaseRespected ==
    [][\A s \in Signals :
          Held(s) /\ obj'[s] # obj[s] =>
              \E x \in Sessions : PrincipalOf[x] = obj[s].owner /\ WrittenBy(x, s)
      ]_vars

\* A signal is stored, or somebody has completed or dismissed it.
Kept(s) == obj[s].status # "absent" \/ s \in settled

\* A valid message that was acknowledged is never lost: its signal is stored
\* until somebody has completed or dismissed it, whatever retries, duplicate
\* deliveries and cleanups happen around it (receive, cleanup).
NoSilentLoss == \A m \in acked \ Malformed : Kept(SignalOf[m])

\* With one session per principal, a completion falls inside the very claim
\* it completes, up to the skew of two clocks: a complete call that read its
\* clock during an earlier claim never completes a later one (complete).
CompletedInLease ==
    \A s \in Signals : obj[s].status = "completed" =>
        /\ obj[s].ended < obj[s].expires
        /\ obj[s].expires - Lease <= obj[s].ended + 2 * Skew

\* The step is one of session x's call on s, and changes s.
ChangedBy(x, s) == call[x].sig = s /\ call'[x] # call[x] /\ obj'[s] # obj[s]

\* A principal without a signal's type changes nothing of it, except that
\* looking at it may reopen an expired claim, and that the signal whose type its
\* call has checked may have ended, been cleaned up and been delivered again with
\* another type before the operation reads it (_authorized_signal, _update).
ConfinedToVisible ==
    [][\A x \in Sessions, s \in Signals :
          ChangedBy(x, s) /\ type[s] \notin Visible[PrincipalOf[x]] =>
              \/ IsExpired(obj[s], clock + Skew) /\ obj'[s] = Pending
              \/ call[x].type \in Visible[PrincipalOf[x]] /\ s \in settled
      ]_vars

\* What a request remembers stays true until it uses it.  A record read at a
\* generation is the live record as long as that generation is live ...
Remembers(s, g, r) == g <= gen[s] /\ (Matches(s, g) => obj[s] = r)

CallConsistent(x) ==
    LET c == call[x] IN
        /\ c.phase \in {"check", "write"} => Remembers(c.sig, c.at, c.seen)
        /\ c.phase \in {"read", "write"} => c.now \in ReadingsSoFar(clock)
        /\ c.phase = "write" => Allowed(c.op, c.seen, PrincipalOf[x], c.now)
        /\ c.phase \in {"call", "read", "write"} =>
               c.type \in Visible[PrincipalOf[x]]

\* ... the signal it has read is kept, and of the type it has read until it ends ...
TypeConsistent(x) ==
    call[x].phase \notin {"idle", "get"} =>
        /\ Kept(call[x].sig)
        /\ type[call[x].sig] = call[x].type \/ call[x].sig \in settled

\* ... what a list call has decided to delete is old enough to be deleted ...
ScanConsistent(l) ==
    /\ scan[l].phase = "sweep" => scan[l].cutoff + Retention <= clock + Skew
    /\ scan[l].phase \in {"purge", "normalize"} =>
           \A s \in Signals : Remembers(s, scan[l].at[s], scan[l].snap[s])
    /\ scan[l].phase = "purge" =>
           \A s \in scan[l].todo :
               /\ scan[l].snap[s].status \in Terminal
               /\ scan[l].snap[s].ended + Retention < clock + Skew

\* ... and what a push request is about to acknowledge is kept.
PushesConsistent ==
    /\ \A s \in Signals : obj[s].status \in Terminal => s \in settled
    /\ \A h \in Pushers : push[h].phase = "respond" /\ push[h].msg \notin Malformed
                              => Kept(SignalOf[push[h].msg])

\* The inductive invariant behind the theorems of SignalInboxProofs: no
\* interleaving makes a request act on something that is no longer so
\* without its conditional write being refused (_update, cleanup, receive).
Inv == /\ \A x \in Sessions : CallConsistent(x) /\ TypeConsistent(x)
       /\ \A l \in Listers : ScanConsistent(l)
       /\ PushesConsistent
       /\ NoSilentLoss

\* A published message is acknowledged in the end: a malformed one is not
\* redelivered for ever, and neither is a duplicate of a stored signal or one
\* that raced a cleanup (receive_agent_signal).
EventuallyAcked == \A m \in Messages : m \in sent ~> m \in acked

\* The inbox implements the lifecycle of README.md: every step of every
\* request is one atomic transition of the diagram or changes no record.
Lifecycle == INSTANCE SignalLifecycle WITH rec <- obj
ImplementsLifecycle == Lifecycle!Spec
=============================================================================
