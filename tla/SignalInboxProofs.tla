-------------------------- MODULE SignalInboxProofs --------------------------
(***************************************************************************)
(* Theorems about SignalInbox, for every set of signals, principals,       *)
(* sessions, listers, messages and pushers, every lease, retention, skew   *)
(* and number of attempts.                                                 *)
(***************************************************************************)
EXTENDS SignalInbox, TLAPS

-----------------------------------------------------------------------------
(* The values the actions write are well formed.                           *)

\* The constant records are records, and a transition of a record is one.
LEMMA RecordTypes ==
    /\ Absent \in SignalRecord
    /\ Pending \in SignalRecord
    /\ \A p \in Principals, t \in Int : ClaimedBy(p, t) \in SignalRecord
    /\ \A r \in SignalRecord, t \in Int, st \in Terminal :
          EndedAs(r, st, t) \in SignalRecord
<1>1. Absent \in SignalRecord /\ Pending \in SignalRecord
  BY DEF Absent, Pending, Blank, SignalRecord, SignalStatus
<1>2. ASSUME NEW p \in Principals, NEW t \in Int
      PROVE  ClaimedBy(p, t) \in SignalRecord
  BY RecordsAssumption DEF ClaimedBy, SignalRecord, SignalStatus
<1>3. ASSUME NEW r \in SignalRecord, NEW t \in Int, NEW st \in Terminal
      PROVE  EndedAs(r, st, t) \in SignalRecord
  BY DEF EndedAs, SignalRecord, SignalStatus, Terminal
<1>4. QED
  BY <1>1, <1>2, <1>3

\* What an operation writes over a record is a record.
LEMMA UpdatedType ==
    ASSUME NEW op \in Ops, NEW r \in SignalRecord, NEW p \in Principals,
           NEW t \in Int
    PROVE  Updated(op, r, p, t) \in SignalRecord
BY RecordTypes DEF Updated, Ops, Terminal

\* The resting states of calls, scans and pushes are well formed.
LEMMA RestTypes == Idle \in Call /\ NoScan \in Scan /\ NoPush \in Push
<1>1. AnySignal \in Signals
  BY RecordsAssumption DEF AnySignal
<1>2. Idle \in Call
  <2>1. AnyType \in SignalTypes
    BY InboxAssumption DEF AnyType
  <2>2. QED
    BY <1>1, <2>1, RecordTypes, InboxAssumption DEF Idle, Call, CallPhase, Ops
<1>3. NoScan \in Scan
  BY RecordTypes DEF NoScan, Scan, ScanPhase
<1>4. AnyMessage \in Messages
  BY InboxAssumption DEF AnyMessage
<1>5. NoPush \in Push
  BY <1>4 DEF NoPush, Push, PushPhase
<1>6. QED
  BY <1>2, <1>3, <1>5

-----------------------------------------------------------------------------
(* Typing.                                                                 *)

\* The steps a call can end its action with keep the calls well formed.
LEMMA CallSteps ==
    ASSUME TypeOK, NEW x \in Sessions, NEW ph \in CallPhase
    PROVE  /\ Finish(x) => call' \in [Sessions -> Call]
           /\ Goto(x, ph) => call' \in [Sessions -> Call]
           /\ Snapshot(x, ph) => call' \in [Sessions -> Call]
           /\ \A t \in SignalTypes :
                 Authorized(x, t) => call' \in [Sessions -> Call]
           /\ Retry(x) => call' \in [Sessions -> Call]
<1>1. /\ call \in [Sessions -> Call] /\ call[x] \in Call
      /\ call[x].sig \in Signals
      /\ obj[call[x].sig] \in SignalRecord
      /\ gen[call[x].sig] \in Nat
  BY DEF TypeOK, Call
<1>2. Finish(x) => call' \in [Sessions -> Call]
  BY <1>1, RestTypes DEF Finish
<1>3. ASSUME NEW q \in CallPhase, Goto(x, q)
      PROVE  call' \in [Sessions -> Call]
  BY <1>1, <1>3 DEF Goto, Call
<1>4. Snapshot(x, ph) => call' \in [Sessions -> Call]
  <2>1. [call[x] EXCEPT !.phase = ph, !.seen = obj[call[x].sig],
                        !.at = gen[call[x].sig]] \in Call
    BY <1>1 DEF Call
  <2>2. QED
    BY <1>1, <2>1 DEF Snapshot
<1>5. ASSUME NEW t \in SignalTypes, Authorized(x, t)
      PROVE  call' \in [Sessions -> Call]
  <2>1. [call[x] EXCEPT !.phase = "call", !.type = t] \in Call
    BY <1>1 DEF Call, CallPhase
  <2>2. QED
    BY <1>1, <1>2, <1>5, <2>1 DEF Authorized, Passed
<1>6. ASSUME Retry(x)
      PROVE  call' \in [Sessions -> Call]
  <2>1. CASE call[x].tries + 1 < MaxAttempts
    <3>1. call[x].tries + 1 \in 0..(MaxAttempts - 1)
      BY <1>1, <2>1, InboxAssumption DEF Call
    <3>2. QED
      BY <1>1, <1>6, <2>1, <3>1 DEF Retry, Call, CallPhase
  <2>2. CASE ~(call[x].tries + 1 < MaxAttempts)
    BY <1>2, <1>6, <2>2 DEF Retry
  <2>3. QED
    BY <2>1, <2>2
<1>7. QED
  BY <1>2, <1>3, <1>4, <1>5, <1>6

\* The three parts of the bucket are well formed.
StoreOK == /\ obj \in [Signals -> SignalRecord]
           /\ gen \in [Signals -> Nat]
           /\ type \in [Signals -> SignalTypes]

\* A write keeps the bucket well formed.
LEMMA PutType ==
    ASSUME TypeOK, NEW s \in Signals, NEW r \in SignalRecord, Put(s, r)
    PROVE  /\ obj' \in [Signals -> SignalRecord]
           /\ gen' \in [Signals -> Nat]
           /\ UNCHANGED type => StoreOK'
BY DEF TypeOK, Put, StoreOK

\* A conditional write does, whether it is applied or refused.
LEMMA ReplaceType ==
    ASSUME TypeOK, NEW s \in Signals, NEW g, NEW r \in SignalRecord,
           Replace(s, g, r)
    PROVE  StoreOK'
BY PutType DEF TypeOK, Replace, Rewrite, store, StoreOK

\* A step of a session keeps every variable well formed.
LEMMA SessionType ==
    ASSUME TypeOK, NEW x \in Sessions, SessionStep(x)
    PROVE  TypeOK'
<1> USE DEF store, delivery
<1>0. /\ call[x] \in Call /\ call[x].sig \in Signals
      /\ call[x].seen \in SignalRecord
      /\ PrincipalOf[x] \in Principals
  BY InboxAssumption DEF TypeOK, Call
<1>1. ASSUME NEW op \in Ops, NEW s \in Signals, StartCall(x, op, s)
      PROVE  TypeOK'
  <2>1. call' \in [Sessions -> Call]
    BY <1>1, RestTypes DEF TypeOK, StartCall, Call, CallPhase
  <2>2. QED
    BY <1>1, <2>1 DEF TypeOK, StartCall
<1>t. /\ type[call[x].sig] \in SignalTypes /\ call[x].type \in SignalTypes
      /\ obj[call[x].sig] \in SignalRecord /\ gen[call[x].sig] \in Nat
  BY <1>0 DEF TypeOK, Call
<1>2. ASSUME Get(x) PROVE TypeOK'
  <2>1. [call[x] EXCEPT !.phase = "check", !.type = type[call[x].sig],
                        !.seen = obj[call[x].sig],
                        !.at = gen[call[x].sig]] \in Call
    BY <1>0, <1>t DEF Call, CallPhase
  <2>2. call' \in [Sessions -> Call]
    <3>1. CASE Finish(x)
      BY <3>1, CallSteps DEF CallPhase
    <3>2. CASE ~Finish(x)
      BY <1>2, <2>1, <3>2 DEF Get, TypeOK
    <3>3. QED
      BY <3>1, <3>2
  <2>3. QED
    BY <1>2, <2>2 DEF TypeOK, Get
<1>3. ASSUME Check(x) PROVE TypeOK'
  <2>1. PICK now \in Readings :
          \/ /\ ~IsExpired(call[x].seen, now)
             /\ Authorized(x, call[x].type)
             /\ UNCHANGED store
          \/ /\ IsExpired(call[x].seen, now)
             /\ Replace(call[x].sig, call[x].at, Pending)
             /\ Goto(x, "reget")
    BY <1>3 DEF Check
  <2>2. call' \in [Sessions -> Call]
    BY <1>t, <2>1, CallSteps DEF CallPhase
  <2>3. StoreOK'
    BY <1>0, <2>1, RecordTypes, ReplaceType DEF TypeOK, StoreOK
  <2>4. QED
    BY <1>3, <2>2, <2>3 DEF TypeOK, Check, StoreOK
<1>4. ASSUME Reget(x) PROVE TypeOK'
  BY <1>t, <1>4, CallSteps DEF TypeOK, Reget, CallPhase
<1>5. ASSUME Begin(x) PROVE TypeOK'
  <2>1. PICK now \in Readings :
          call' = [call EXCEPT ![x].phase = "read", ![x].now = now]
    BY <1>5 DEF Begin
  <2>2. now \in Int
    BY RecordsAssumption DEF Readings, TypeOK
  <2>3. call' \in [Sessions -> Call]
    BY <1>0, <2>1, <2>2 DEF TypeOK, Call, CallPhase
  <2>4. QED
    BY <1>5, <2>3 DEF TypeOK, Begin
<1>6. ASSUME Read(x) PROVE TypeOK'
  BY <1>6, CallSteps DEF TypeOK, Read, CallPhase
<1>7. ASSUME Write(x) PROVE TypeOK'
  <2> DEFINE r == Updated(call[x].op, call[x].seen, PrincipalOf[x], call[x].now)
  <2>1. r \in SignalRecord
    BY <1>0, UpdatedType DEF Call
  <2>2. call' \in [Sessions -> Call]
    BY <1>7, CallSteps DEF Write, CallPhase
  <2>3. \/ Rewrite(call[x].sig, r)
        \/ UNCHANGED store
    BY <1>7 DEF Write
  <2>4. StoreOK'
    BY <1>0, <2>1, <2>3, PutType DEF TypeOK, Rewrite, StoreOK
  <2>5. settled' \subseteq Signals
    BY <1>0, <1>7 DEF TypeOK, Write
  <2>6. QED
    BY <1>7, <2>2, <2>4, <2>5 DEF TypeOK, Write, StoreOK
<1>8. ASSUME Abort(x) PROVE TypeOK'
  BY <1>8, CallSteps DEF TypeOK, Abort, CallPhase
<1>9. QED
  BY <1>1, <1>2, <1>3, <1>4, <1>5, <1>6, <1>7, <1>8 DEF SessionStep

\* A step of a lister keeps every variable well formed.
LEMMA ListerType ==
    ASSUME TypeOK, NEW l \in Listers, ListerStep(l)
    PROVE  TypeOK'
<1> USE DEF store, delivery
<1>0. /\ scan \in [Listers -> Scan] /\ scan[l] \in Scan
      /\ obj \in [Signals -> SignalRecord] /\ gen \in [Signals -> Nat]
  BY DEF TypeOK
<1>1. ASSUME NEW ph \in ScanPhase, NEW todo \in SUBSET Signals,
             Listing(l, ph, todo)
      PROVE  scan' \in [Listers -> Scan]
  <2>1. [scan[l] EXCEPT !.phase = ph, !.todo = todo,
                        !.snap = obj, !.at = gen] \in Scan
    BY <1>0 DEF Scan
  <2>2. QED
    BY <1>0, <1>1, <2>1 DEF Listing
<1>2. ASSUME NEW s \in Signals, Handled(l, s)
      PROVE  scan' \in [Listers -> Scan]
  BY <1>0, <1>2 DEF Handled, Scan
<1>3. CASE ListStart(l)
  <2>1. PICK now \in Readings :
          scan' = [scan EXCEPT ![l] = [NoScan EXCEPT !.phase = "sweep",
                                                     !.cutoff = now - Retention]]
    BY <1>3 DEF ListStart
  <2>2. now - Retention \in Int
    BY RecordsAssumption DEF Readings, TypeOK
  <2>3. scan' \in [Listers -> Scan]
    BY <1>0, <2>1, <2>2, RestTypes DEF Scan, ScanPhase
  <2>4. QED
    BY <1>3, <2>3 DEF TypeOK, ListStart
<1>4. CASE ListSweep(l)
  <2>1. scan' \in [Listers -> Scan]
    BY <1>1, <1>4 DEF ListSweep, ScanPhase
  <2>2. QED
    BY <1>4, <2>1 DEF TypeOK, ListSweep
<1>5. ASSUME NEW s \in Signals, ListPurge(l, s)
      PROVE  TypeOK'
  <2>1. scan' \in [Listers -> Scan]
    BY <1>2, <1>5 DEF ListPurge
  <2>2. obj' \in [Signals -> SignalRecord] /\ gen' \in [Signals -> Nat]
    BY <1>0, <1>5, RecordTypes DEF ListPurge
  <2>3. QED
    BY <1>5, <2>1, <2>2 DEF TypeOK, ListPurge
<1>6. CASE ListScan(l)
  <2>1. scan' \in [Listers -> Scan]
    BY <1>1, <1>6 DEF ListScan, ScanPhase
  <2>2. QED
    BY <1>6, <2>1 DEF TypeOK, ListScan
<1>7. ASSUME NEW s \in Signals, ListNormalize(l, s)
      PROVE  TypeOK'
  <2>1. scan' \in [Listers -> Scan]
    BY <1>2, <1>7 DEF ListNormalize
  <2>2. UNCHANGED store \/ Replace(s, scan[l].at[s], Pending)
    BY <1>7 DEF ListNormalize
  <2>3. StoreOK'
    BY <1>0, <2>2, RecordTypes, ReplaceType DEF TypeOK, StoreOK
  <2>4. QED
    BY <1>7, <2>1, <2>3 DEF TypeOK, ListNormalize, StoreOK
<1>8. CASE ListDone(l)
  BY <1>0, <1>8, RestTypes DEF TypeOK, ListDone
<1>9. CASE ListFail(l)
  BY <1>0, <1>9, RestTypes DEF TypeOK, ListFail
<1>10. QED
  BY <1>3, <1>4, <1>5, <1>6, <1>7, <1>8, <1>9 DEF ListerStep

\* A step of a push request keeps every variable well formed.
LEMMA PusherType ==
    ASSUME TypeOK, NEW h \in Pushers, PusherStep(h)
    PROVE  TypeOK'
<1> USE DEF store, delivery
<1>0. /\ push \in [Pushers -> Push] /\ push[h] \in Push
      /\ push[h].msg \in Messages /\ SignalOf[push[h].msg] \in Signals
  BY InboxAssumption DEF TypeOK, Push
<1>1. ASSUME NEW ph \in PushPhase
      PROVE  PushGoto(h, ph) => push' \in [Pushers -> Push]
  BY <1>0, <1>1 DEF PushGoto, Push
<1>2. PushEnd(h) => push' \in [Pushers -> Push]
  BY <1>0, RestTypes DEF PushEnd
<1>3. ASSUME NEW m \in Messages, Deliver(h, m)
      PROVE  TypeOK'
  <2>1. push' \in [Pushers -> Push]
    BY <1>0, <1>3 DEF Deliver, Push, PushPhase
  <2>2. dups' \in 0..MaxDups
    BY <1>3, InboxAssumption DEF Deliver, TypeOK
  <2>3. QED
    BY <1>3, <2>1, <2>2 DEF TypeOK, Deliver
<1>4. CASE Create(h)
  <2>1. push' \in [Pushers -> Push]
    BY <1>1, <1>4 DEF Create, PushPhase
  <2>2. UNCHANGED store \/ Put(SignalOf[push[h].msg], Pending)
    BY <1>4 DEF Create
  <2>3. obj' \in [Signals -> SignalRecord] /\ gen' \in [Signals -> Nat]
    BY <1>0, <2>2, PutType, RecordTypes DEF TypeOK
  <2>4. type' \in [Signals -> SignalTypes]
    BY <1>0, <1>4, InboxAssumption DEF TypeOK, Create
  <2>5. QED
    BY <1>4, <2>1, <2>3, <2>4 DEF TypeOK, Create
<1>5. CASE ReadExisting(h)
  BY <1>1, <1>2, <1>5 DEF TypeOK, ReadExisting, PushPhase
<1>6. CASE Respond(h)
  BY <1>0, <1>2, <1>6 DEF TypeOK, Respond
<1>7. CASE PushFail(h)
  BY <1>2, <1>7 DEF TypeOK, PushFail
<1>8. QED
  BY <1>3, <1>4, <1>5, <1>6, <1>7 DEF PusherStep

\* Every step does.
LEMMA TypeStep == TypeOK /\ [Next]_vars => TypeOK'
<1> SUFFICES ASSUME TypeOK, [Next]_vars
             PROVE  TypeOK'
  OBVIOUS
<1>1. CASE Tick
  BY <1>1, RecordsAssumption DEF TypeOK, Tick, store, delivery
<1>2. ASSUME NEW m \in Messages, Publish(m)
      PROVE  TypeOK'
  BY <1>2 DEF TypeOK, Publish, store
<1>3. CASE UNCHANGED vars
  BY <1>3 DEF TypeOK, vars
<1>4. QED
  BY <1>1, <1>2, <1>3, SessionType, ListerType, PusherType DEF Next

\* The variables of the inbox keep their types in every behaviour: a call
\* never outlives its write attempts, and no counter leaves its bound.
THEOREM TypeCorrect == Spec => []TypeOK
<1>1. Init => TypeOK
  <2>1. AnyType \in SignalTypes
    BY InboxAssumption DEF AnyType
  <2>2. QED
    BY <2>1, RestTypes, RecordTypes, RecordsAssumption, InboxAssumption
       DEF Init, TypeOK
<1>2. QED
  BY <1>1, TypeStep, PTL DEF Spec

-----------------------------------------------------------------------------
(* What a step can do to one object, whoever takes it.                     *)

\* The object is unchanged, written (and its generation moves on) or deleted.
StoreStep(s) == \/ obj'[s] = obj[s] /\ gen'[s] = gen[s]
                \/ gen'[s] = gen[s] + 1
                \/ obj'[s] = Absent /\ gen'[s] = gen[s]

\* A write changes one object and moves its generation on.
LEMMA PutStep ==
    ASSUME TypeOK, NEW s \in Signals, NEW r, Put(s, r)
    PROVE  /\ obj'[s] = r /\ gen'[s] = gen[s] + 1
           /\ \A q \in Signals \ {s} : obj'[q] = obj[q] /\ gen'[q] = gen[q]
           /\ \A q \in Signals : StoreStep(q)
BY DEF TypeOK, Put, StoreStep

\* A conditional write is a write or changes nothing.
LEMMA ReplaceStep ==
    ASSUME TypeOK, NEW s \in Signals, NEW g, NEW r, Replace(s, g, r)
    PROVE  \A q \in Signals : StoreStep(q)
BY PutStep DEF Replace, Rewrite, store, StoreStep

\* Every step of the system is such a step for every object.
LEMMA EveryStoreStep ==
    ASSUME TypeOK, [Next]_vars
    PROVE  \A s \in Signals : StoreStep(s)
<1>0. UNCHANGED store => \A s \in Signals : StoreStep(s)
  BY DEF store, StoreStep
<1>1. ASSUME NEW x \in Sessions, SessionStep(x)
      PROVE  \A s \in Signals : StoreStep(s)
  <2>1. call[x].sig \in Signals
    BY DEF TypeOK, Call
  <2>2. CASE Check(x)
    BY <1>0, <2>1, <2>2, ReplaceStep DEF Check
  <2>3. CASE Write(x)
    BY <1>0, <2>1, <2>3, PutStep DEF Write, Rewrite, store
  <2>4. CASE UNCHANGED store
    BY <1>0, <2>4
  <2>5. QED
    BY <1>1, <2>2, <2>3, <2>4
       DEF SessionStep, StartCall, Get, Reget, Begin, Read, Abort, store
<1>2. ASSUME NEW l \in Listers, ListerStep(l)
      PROVE  \A s \in Signals : StoreStep(s)
  <2>1. ASSUME NEW q \in Signals, ListPurge(l, q)
        PROVE  \A s \in Signals : StoreStep(s)
    BY <1>0, <2>1 DEF ListPurge, TypeOK, StoreStep
  <2>2. ASSUME NEW q \in Signals, ListNormalize(l, q)
        PROVE  \A s \in Signals : StoreStep(s)
    BY <1>0, <2>2, ReplaceStep DEF ListNormalize
  <2>3. CASE UNCHANGED store
    BY <1>0, <2>3
  <2>4. QED
    BY <1>2, <2>1, <2>2, <2>3
       DEF ListerStep, ListStart, ListSweep, ListScan, ListDone, ListFail, store
<1>3. ASSUME NEW h \in Pushers, PusherStep(h)
      PROVE  \A s \in Signals : StoreStep(s)
  <2>1. SignalOf[push[h].msg] \in Signals
    BY InboxAssumption DEF TypeOK, Push
  <2>2. CASE Create(h)
    BY <1>0, <2>1, <2>2, PutStep DEF Create, store
  <2>3. CASE UNCHANGED store
    BY <1>0, <2>3
  <2>4. QED
    BY <1>3, <2>2, <2>3
       DEF PusherStep, Deliver, ReadExisting, Respond, PushFail, store
<1>4. CASE Tick \/ (\E m \in Messages : Publish(m)) \/ UNCHANGED vars
  BY <1>0, <1>4 DEF Tick, Publish, vars, store
<1>5. QED
  BY <1>1, <1>2, <1>3, <1>4 DEF Next

\* Nor does any step take time back.
LEMMA TimeStep ==
    ASSUME TypeOK, [Next]_vars
    PROVE  clock' \in Nat /\ clock <= clock'
<1>1. clock' = clock \/ clock' = clock + 1
  BY DEF Next, SessionStep, ListerStep, PusherStep, Tick, Publish,
         StartCall, Get, Check, Reget, Begin, Read, Write, Abort,
         ListStart, ListSweep, ListPurge, ListScan, ListNormalize, ListDone,
         ListFail, Deliver, Create, ReadExisting, Respond, PushFail, vars
<1>2. QED
  BY <1>1, RecordsAssumption DEF TypeOK

\* Hence what a request remembers of an object stays true: if the generation
\* it read is still the live one, so is the record it read.
LEMMA RemembersStep ==
    ASSUME TypeOK, TypeOK', [Next]_vars, NEW s \in Signals, NEW g \in Nat,
           NEW r, Remembers(s, g, r)
    PROVE  Remembers(s, g, r)'
<1>1. StoreStep(s)
  BY EveryStoreStep
<1>2. gen[s] \in Nat /\ gen'[s] \in Nat
  BY DEF TypeOK
<1>3. QED
  BY <1>1, <1>2 DEF Remembers, Matches, StoreStep, Absent, Blank

-----------------------------------------------------------------------------
(* The invariant.                                                          *)

\* A reading of the clock is one of the readings taken so far, now and later.
LEMMA ReadingsStep ==
    ASSUME TypeOK, [Next]_vars
    PROVE  /\ Readings \subseteq ReadingsSoFar(clock)
           /\ ReadingsSoFar(clock) \subseteq ReadingsSoFar(clock')
BY TimeStep, RecordsAssumption DEF TypeOK, Readings, ReadingsSoFar

\* A call another party's step leaves alone stays consistent.
LEMMA OtherCall ==
    ASSUME TypeOK, TypeOK', [Next]_vars, NEW x \in Sessions,
           CallConsistent(x), call'[x] = call[x]
    PROVE  CallConsistent(x)'
<1>1. call[x].sig \in Signals /\ call[x].at \in Nat
  BY DEF TypeOK, Call
<1>2. Remembers(call[x].sig, call[x].at, call[x].seen) =>
          Remembers(call[x].sig, call[x].at, call[x].seen)'
  BY <1>1, RemembersStep
<1>3. QED
  BY <1>2, ReadingsStep DEF CallConsistent

\* A call that takes a step stays consistent.
LEMMA OwnCall ==
    ASSUME TypeOK, TypeOK', NEW x \in Sessions, SessionStep(x),
           CallConsistent(x)
    PROVE  CallConsistent(x)'
<1> DEFINE c == call[x]
<1>0. /\ call \in [Sessions -> Call] /\ c \in Call /\ c.sig \in Signals
      /\ gen[c.sig] \in Nat
  BY DEF TypeOK, Call
<1>n. [Next]_vars
  BY DEF Next
<1>f. ASSUME Finish(x) PROVE CallConsistent(x)'
  BY <1>0, <1>f DEF Finish, CallConsistent, Idle
<1>a. ASSUME NEW t \in SignalTypes, Authorized(x, t) PROVE CallConsistent(x)'
  <2>1. CASE Finish(x)
    BY <1>f, <2>1
  <2>2. CASE Passed(x, t) /\ t \in Visible[PrincipalOf[x]]
    BY <1>0, <2>2 DEF Passed, CallConsistent, Call
  <2>3. QED
    BY <1>a, <2>1, <2>2 DEF Authorized
<1>t. c.type \in SignalTypes /\ type[c.sig] \in SignalTypes
  BY <1>0 DEF TypeOK, Call
<1>r. ASSUME Retry(x), c.phase = "write" PROVE CallConsistent(x)'
  <2>1. CASE Finish(x)
    BY <1>f, <2>1
  <2>2. CASE call' = [call EXCEPT ![x].phase = "read", ![x].tries = c.tries + 1]
    <3>1. c.now \in ReadingsSoFar(clock)'
      BY <1>n, <1>r, ReadingsStep DEF CallConsistent
    <3>2. c.type \in Visible[PrincipalOf[x]]
      BY <1>r DEF CallConsistent
    <3>3. /\ call'[x].phase = "read" /\ call'[x].type = c.type
          /\ call'[x].now = c.now
      BY <1>0, <2>2 DEF Call
    <3>4. QED
      BY <3>1, <3>2, <3>3 DEF CallConsistent
  <2>3. QED
    BY <1>r, <2>1, <2>2 DEF Retry
<1>1. ASSUME NEW op \in Ops, NEW s \in Signals, StartCall(x, op, s)
      PROVE  CallConsistent(x)'
  BY <1>0, <1>1 DEF StartCall, CallConsistent, Idle
<1>2. CASE Get(x)
  <2>1. CASE Finish(x)
    BY <1>f, <2>1
  <2>2. CASE ~Finish(x)
    <3>1. /\ call'[x].phase = "check" /\ call'[x].sig = c.sig
          /\ call'[x].seen = obj[c.sig] /\ call'[x].at = gen[c.sig]
      BY <1>0, <1>2, <2>2 DEF Get, Call
    <3>2. UNCHANGED store
      BY <1>2 DEF Get
    <3>3. QED
      BY <1>0, <3>1, <3>2 DEF CallConsistent, Remembers, Matches, store
  <2>3. QED
    BY <2>1, <2>2
<1>3. CASE Check(x)
  <2>1. CASE Goto(x, "reget")
    BY <1>0, <2>1 DEF Goto, CallConsistent
  <2>2. QED
    BY <1>a, <1>t, <1>3, <2>1 DEF Check
<1>4. CASE Reget(x)
  BY <1>a, <1>t, <1>f, <1>4 DEF Reget
<1>5. CASE Begin(x)
  <2>1. PICK now \in Readings :
          call' = [call EXCEPT ![x].phase = "read", ![x].now = now]
    BY <1>5 DEF Begin
  <2>2. now \in ReadingsSoFar(clock)'
    BY <1>n, ReadingsStep
  <2>3. QED
    BY <1>0, <1>5, <2>1, <2>2 DEF Begin, CallConsistent, Call
<1>6. CASE Read(x)
  <2>1. CASE Finish(x)
    BY <1>f, <2>1
  <2>2. CASE /\ Snapshot(x, "write") /\ UNCHANGED <<clock, store>>
             /\ Allowed(c.op, obj[c.sig], PrincipalOf[x], c.now)
             /\ c.phase = "read"
    <3>1. c.now \in ReadingsSoFar(clock)'
      BY <1>n, <2>2, ReadingsStep DEF CallConsistent
    <3>2. c.type \in Visible[PrincipalOf[x]]
      BY <2>2 DEF CallConsistent
    <3>3. /\ call'[x].phase = "write" /\ call'[x].sig = c.sig
          /\ call'[x].op = c.op /\ call'[x].now = c.now
          /\ call'[x].type = c.type
          /\ call'[x].seen = obj[c.sig] /\ call'[x].at = gen[c.sig]
      BY <1>0, <2>2 DEF Snapshot, Call
    <3>4. QED
      BY <1>0, <2>2, <3>1, <3>2, <3>3
         DEF CallConsistent, Remembers, Matches, store
  <2>3. QED
    BY <1>6, <2>1, <2>2 DEF Read
<1>7. CASE Write(x)
  BY <1>f, <1>r, <1>7 DEF Write
<1>8. CASE Abort(x)
  BY <1>f, <1>8 DEF Abort
<1>9. QED
  BY <1>1, <1>2, <1>3, <1>4, <1>5, <1>6, <1>7, <1>8 DEF SessionStep

\* A session's step touches no other call, and no other step touches a call.
LEMMA CallFrame ==
    ASSUME TypeOK, [Next]_vars, NEW x \in Sessions
    PROVE  SessionStep(x) \/ call'[x] = call[x]
<1>1. ASSUME NEW y \in Sessions, SessionStep(y), y # x
      PROVE  call'[x] = call[x]
  BY <1>1 DEF SessionStep, StartCall, Get, Check, Reget, Begin, Read, Write,
              Abort, Finish, Goto, Snapshot, Authorized, Passed, Retry, TypeOK
<1>2. CASE Tick \/ (\E l \in Listers : ListerStep(l)) \/ UNCHANGED vars
           \/ (\E m \in Messages : Publish(m)) \/ (\E h \in Pushers : PusherStep(h))
  BY <1>2 DEF Tick, Publish, vars, ListerStep, PusherStep,
              ListStart, ListSweep, ListPurge, ListScan, ListNormalize, ListDone,
              ListFail, Deliver, Create, ReadExisting, Respond, PushFail
<1>3. QED
  BY <1>1, <1>2 DEF Next

\* So every call stays consistent in every step.
LEMMA CallsStep ==
    ASSUME TypeOK, TypeOK', [Next]_vars,
           \A x \in Sessions : CallConsistent(x)
    PROVE  \A x \in Sessions : CallConsistent(x)'
BY CallFrame, OwnCall, OtherCall

\* A scan another party's step leaves alone stays consistent.
LEMMA OtherScan ==
    ASSUME TypeOK, TypeOK', [Next]_vars, NEW l \in Listers,
           ScanConsistent(l), scan'[l] = scan[l]
    PROVE  ScanConsistent(l)'
<1>1. /\ \A s \in Signals : scan[l].at[s] \in Nat
      /\ \A s \in Signals : scan[l].snap[s].ended \in Int
      /\ scan[l].todo \subseteq Signals /\ scan[l].cutoff \in Int
  BY DEF TypeOK, Scan, SignalRecord
<1>2. \A s \in Signals : Remembers(s, scan[l].at[s], scan[l].snap[s]) =>
          Remembers(s, scan[l].at[s], scan[l].snap[s])'
  BY <1>1, RemembersStep
<1>3. clock \in Nat /\ clock' \in Nat /\ clock <= clock' /\ Skew \in Nat
      /\ Retention \in Nat
  BY TimeStep, RecordsAssumption DEF TypeOK
<1>4. scan[l].phase = "sweep" => scan[l].cutoff + Retention <= clock' + Skew
  BY <1>1, <1>3 DEF ScanConsistent
<1>5. scan[l].phase = "purge" => \A s \in scan[l].todo :
          /\ scan[l].snap[s].status \in Terminal
          /\ scan[l].snap[s].ended + Retention < clock' + Skew
  BY <1>1, <1>3 DEF ScanConsistent
<1>6. scan[l].phase \in {"purge", "normalize"} =>
          \A s \in Signals : Remembers(s, scan[l].at[s], scan[l].snap[s])'
  BY <1>2 DEF ScanConsistent
<1>7. QED
  BY <1>4, <1>5, <1>6 DEF ScanConsistent

\* A scan that takes a step stays consistent.
LEMMA OwnScan ==
    ASSUME TypeOK, TypeOK', NEW l \in Listers, ListerStep(l),
           ScanConsistent(l)
    PROVE  ScanConsistent(l)'
<1>0. /\ scan \in [Listers -> Scan] /\ scan[l] \in Scan
      /\ scan[l].todo \subseteq Signals
      /\ \A s \in Signals : scan[l].at[s] \in Nat
      /\ \A s \in Signals : obj[s] \in SignalRecord /\ obj[s].ended \in Int
  BY DEF TypeOK, Scan, SignalRecord
<1>n. [Next]_vars
  BY DEF Next
<1>t. /\ clock \in Nat /\ clock' \in Nat /\ clock <= clock'
      /\ Skew \in Nat /\ Retention \in Nat
  BY <1>n, TimeStep, RecordsAssumption DEF TypeOK
<1>e. ASSUME scan' = [scan EXCEPT ![l] = NoScan]
      PROVE  ScanConsistent(l)'
  BY <1>0, <1>e DEF ScanConsistent, NoScan
<1>l. ASSUME NEW ph \in ScanPhase, NEW td \in SUBSET Signals,
             Listing(l, ph, td)
      PROVE  /\ scan'[l].phase = ph /\ scan'[l].todo = td
             /\ scan'[l].snap = obj /\ scan'[l].at = gen
  BY <1>0, <1>l DEF Listing, Scan
<1>h. ASSUME NEW s \in Signals, Handled(l, s)
      PROVE  /\ scan'[l].phase = scan[l].phase
             /\ scan'[l].todo \subseteq scan[l].todo
             /\ scan'[l].snap = scan[l].snap /\ scan'[l].at = scan[l].at
  BY <1>0, <1>h DEF Handled, Scan
<1>r. ASSUME UNCHANGED store
      PROVE  \A s \in Signals :
                 gen[s] <= gen'[s] /\ obj'[s] = obj[s]
  BY <1>r DEF TypeOK, store
<1>m. ASSUME NEW s \in Signals, Handled(l, s),
             scan[l].phase \in {"purge", "normalize"}
      PROVE  ScanConsistent(l)'
  <2>0. \A q \in Signals : Remembers(q, scan[l].at[q], scan[l].snap[q])
    BY <1>m DEF ScanConsistent
  <2>1. \A q \in Signals : Remembers(q, scan[l].at[q], scan[l].snap[q])'
    <3>1. SUFFICES ASSUME NEW q \in Signals
                   PROVE  Remembers(q, scan[l].at[q], scan[l].snap[q])'
      OBVIOUS
    <3>2. scan[l].at[q] \in Nat /\ Remembers(q, scan[l].at[q], scan[l].snap[q])
      BY <1>0, <2>0
    <3>3. scan'[l].at = scan[l].at /\ scan'[l].snap = scan[l].snap
      BY <1>h, <1>m
    <3>4. QED
      BY <1>n, <3>2, <3>3, RemembersStep
  <2>2. \A q \in Signals : scan[l].snap[q].ended \in Int
    BY <1>0 DEF Scan, SignalRecord
  <2>3. QED
    BY <1>0, <1>h, <1>m, <1>t, <2>1, <2>2 DEF ScanConsistent
<1>1. CASE ListStart(l)
  <2>1. PICK now \in Readings :
          scan' = [scan EXCEPT ![l] = [NoScan EXCEPT !.phase = "sweep",
                                                     !.cutoff = now - Retention]]
    BY <1>1 DEF ListStart
  <2>2. scan'[l].phase = "sweep" /\ scan'[l].cutoff = now - Retention
    BY <1>0, <2>1 DEF NoScan
  <2>3. now \in Int /\ now <= clock' + Skew
    BY <1>1, <1>t DEF ListStart, Readings
  <2>4. scan'[l].cutoff + Retention <= clock' + Skew
    <3>1. (now - Retention) + Retention = now
      BY <1>t, <2>3
    <3>2. QED
      BY <2>2, <2>3, <3>1
  <2>5. QED
    BY <2>2, <2>4 DEF ScanConsistent
<1>2. CASE ListSweep(l)
  <2> DEFINE old == {s \in Signals : /\ obj[s].status \in Terminal
                                     /\ obj[s].ended < scan[l].cutoff}
  <2>1. /\ scan'[l].phase = "purge" /\ scan'[l].todo = old
        /\ scan'[l].snap = obj /\ scan'[l].at = gen
    BY <1>2, <1>l DEF ListSweep, ScanPhase
  <2>2. scan[l].cutoff + Retention <= clock + Skew /\ scan[l].cutoff \in Int
    BY <1>0, <1>2 DEF ListSweep, ScanConsistent, Scan
  <2>3. \A s \in old : /\ obj[s].status \in Terminal
                       /\ obj[s].ended + Retention < clock' + Skew
    BY <1>0, <1>t, <2>2
  <2>4. \A s \in Signals : gen[s] <= gen'[s] /\ obj'[s] = obj[s]
    BY <1>2, <1>r DEF ListSweep
  <2>5. \A s \in Signals : Remembers(s, scan[l].at[s], scan[l].snap[s])'
    BY <2>1, <2>4 DEF Remembers, Matches
  <2>6. QED
    BY <2>1, <2>3, <2>5 DEF ScanConsistent
<1>3. CASE ListScan(l)
  <2>1. /\ scan'[l].phase = "normalize"
        /\ scan'[l].snap = obj /\ scan'[l].at = gen
    BY <1>3, <1>l DEF ListScan, ScanPhase
  <2>2. \A s \in Signals : gen[s] <= gen'[s] /\ obj'[s] = obj[s]
    BY <1>3, <1>r DEF ListScan
  <2>3. QED
    BY <2>1, <2>2 DEF ScanConsistent, Remembers, Matches
<1>4. ASSUME NEW s \in Signals, ListPurge(l, s)
      PROVE  ScanConsistent(l)'
  BY <1>4, <1>m DEF ListPurge
<1>5. ASSUME NEW s \in Signals, ListNormalize(l, s)
      PROVE  ScanConsistent(l)'
  BY <1>5, <1>m DEF ListNormalize
<1>6. CASE ListDone(l) \/ ListFail(l)
  BY <1>e, <1>6 DEF ListDone, ListFail
<1>7. QED
  BY <1>1, <1>2, <1>3, <1>4, <1>5, <1>6 DEF ListerStep

\* A lister's step touches no other scan, and no other step touches a scan.
LEMMA ScanFrame ==
    ASSUME TypeOK, [Next]_vars, NEW l \in Listers
    PROVE  ListerStep(l) \/ scan'[l] = scan[l]
<1>1. ASSUME NEW k \in Listers, ListerStep(k), k # l
      PROVE  scan'[l] = scan[l]
  BY <1>1 DEF ListerStep, ListStart, ListSweep, ListPurge, ListScan,
              ListNormalize, ListDone, ListFail, Listing, Handled, TypeOK
<1>2. CASE Tick \/ (\E x \in Sessions : SessionStep(x)) \/ UNCHANGED vars
           \/ (\E m \in Messages : Publish(m)) \/ (\E h \in Pushers : PusherStep(h))
  BY <1>2 DEF Tick, Publish, vars, SessionStep, PusherStep,
              StartCall, Get, Check, Reget, Begin, Read, Write, Abort,
              Deliver, Create, ReadExisting, Respond, PushFail
<1>3. QED
  BY <1>1, <1>2 DEF Next

\* So every scan stays consistent in every step.
LEMMA ScansStep ==
    ASSUME TypeOK, TypeOK', [Next]_vars,
           \A l \in Listers : ScanConsistent(l)
    PROVE  \A l \in Listers : ScanConsistent(l)'
BY ScanFrame, OwnScan, OtherScan

\* What a step may do to the history of a signal: nothing is forgotten, a
\* signal becomes terminal only by being settled, and only a terminal signal
\* disappears.
HistoryStep(s) == /\ settled \subseteq settled'
                  /\ obj'[s].status \in Terminal =>
                         obj[s].status \in Terminal \/ s \in settled'
                  /\ obj'[s].status = "absent" =>
                         obj[s].status \in Terminal \cup {"absent"}

\* The status each operation writes.
LEMMA UpdatedStatus ==
    ASSUME NEW op \in Ops, NEW r \in SignalRecord, NEW p, NEW t
    PROVE  Updated(op, r, p, t).status \in SignalStatus \ {"absent"}
BY DEF Updated, Ops, ClaimedBy, EndedAs, Pending, Blank, SignalRecord,
       SignalStatus

\* Every step of the system is such a step for every signal.
LEMMA EveryHistoryStep ==
    ASSUME TypeOK, [Next]_vars, \A l \in Listers : ScanConsistent(l)
    PROVE  \A s \in Signals : HistoryStep(s)
<1>0. UNCHANGED <<obj, settled>> => \A s \in Signals : HistoryStep(s)
  BY DEF HistoryStep
<1>p. ASSUME NEW s \in Signals, Put(s, Pending), UNCHANGED settled
      PROVE  \A q \in Signals : HistoryStep(q)
  BY <1>p, PutStep DEF HistoryStep, Pending, Blank, Terminal
<1>r. ASSUME NEW s \in Signals, NEW g, Replace(s, g, Pending), UNCHANGED settled
      PROVE  \A q \in Signals : HistoryStep(q)
  BY <1>0, <1>p, <1>r DEF Replace, Rewrite, store
<1>1. ASSUME NEW x \in Sessions, SessionStep(x)
      PROVE  \A s \in Signals : HistoryStep(s)
  <2> DEFINE c == call[x]
             r == Updated(c.op, c.seen, PrincipalOf[x], c.now)
  <2>1. c.sig \in Signals /\ c.op \in Ops /\ c.seen \in SignalRecord
    BY DEF TypeOK, Call
  <2>2. CASE Check(x)
    BY <1>0, <1>r, <2>1, <2>2 DEF Check, store
  <2>3. CASE Write(x)
    <3>1. CASE UNCHANGED <<store, settled>>
      BY <1>0, <3>1 DEF store
    <3>2. CASE /\ Put(c.sig, r)
               /\ settled' = IF r.status \in Terminal THEN settled \cup {c.sig}
                                                    ELSE settled
      <4>1. r.status # "absent"
        BY <2>1, UpdatedStatus
      <4>2. /\ obj'[c.sig] = r
            /\ \A q \in Signals \ {c.sig} : obj'[q] = obj[q]
        BY <2>1, <3>2, PutStep
      <4>3. QED
        BY <3>2, <4>1, <4>2 DEF HistoryStep
    <3>3. QED
      BY <2>3, <3>1, <3>2 DEF Write, Rewrite
  <2>4. CASE UNCHANGED <<store, settled>>
    BY <1>0, <2>4 DEF store
  <2>5. QED
    BY <1>1, <2>2, <2>3, <2>4
       DEF SessionStep, StartCall, Get, Reget, Begin, Read, Abort
<1>2. ASSUME NEW l \in Listers, ListerStep(l)
      PROVE  \A s \in Signals : HistoryStep(s)
  <2>1. ASSUME NEW q \in Signals, ListPurge(l, q)
        PROVE  \A s \in Signals : HistoryStep(s)
    <3>1. CASE UNCHANGED <<store, settled>>
      BY <1>0, <3>1 DEF store
    <3>2. CASE Matches(q, scan[l].at[q]) /\ obj' = [obj EXCEPT ![q] = Absent]
      <4>1. obj[q].status \in Terminal
        BY <2>1, <3>2 DEF ListPurge, ScanConsistent, Remembers
      <4>2. QED
        BY <2>1, <3>2, <4>1
           DEF ListPurge, HistoryStep, TypeOK, Absent, Blank, Terminal
    <3>3. QED
      BY <2>1, <3>1, <3>2 DEF ListPurge, store
  <2>2. ASSUME NEW q \in Signals, ListNormalize(l, q)
        PROVE  \A s \in Signals : HistoryStep(s)
    BY <1>0, <1>r, <2>2 DEF ListNormalize, store
  <2>3. CASE UNCHANGED <<store, settled>>
    BY <1>0, <2>3 DEF store
  <2>4. QED
    BY <1>2, <2>1, <2>2, <2>3
       DEF ListerStep, ListStart, ListSweep, ListScan, ListDone, ListFail
<1>3. ASSUME NEW h \in Pushers, PusherStep(h)
      PROVE  \A s \in Signals : HistoryStep(s)
  <2>1. SignalOf[push[h].msg] \in Signals
    BY InboxAssumption DEF TypeOK, Push
  <2>2. CASE Create(h)
    BY <1>0, <1>p, <2>1, <2>2 DEF Create, store
  <2>3. CASE UNCHANGED <<store, settled>>
    BY <1>0, <2>3 DEF store
  <2>4. QED
    BY <1>3, <2>2, <2>3
       DEF PusherStep, Deliver, ReadExisting, Respond, PushFail
<1>4. CASE Tick \/ (\E m \in Messages : Publish(m)) \/ UNCHANGED vars
  BY <1>0, <1>4 DEF Tick, Publish, vars, store
<1>5. QED
  BY <1>1, <1>2, <1>3, <1>4 DEF Next

\* Hence a signal that is kept stays kept.
LEMMA KeptStep ==
    ASSUME TypeOK, [Next]_vars, PushesConsistent,
           \A l \in Listers : ScanConsistent(l)
    PROVE  /\ \A s \in Signals : Kept(s) => Kept(s)'
           /\ \A s \in Signals : obj'[s].status \in Terminal => s \in settled'
BY EveryHistoryStep DEF HistoryStep, Kept, PushesConsistent, Terminal

\* The type of a signal is set by the delivery that stores it, when no object
\* is stored for it.
LEMMA TypeFrame ==
    ASSUME TypeOK, [Next]_vars, NEW s \in Signals
    PROVE  type'[s] = type[s] \/ obj[s].status = "absent"
<1>1. ASSUME NEW h \in Pushers, Create(h)
      PROVE  type'[s] = type[s] \/ obj[s].status = "absent"
  BY <1>1 DEF Create, TypeOK, store
<1>2. CASE UNCHANGED type
  BY <1>2
<1>3. UNCHANGED type \/ \E h \in Pushers : Create(h)
  BY DEF Next, Tick, Publish, vars, store, SessionStep, ListerStep, PusherStep,
         StartCall, Get, Check, Reget, Begin, Read, Write, Abort, Replace,
         Rewrite, ListStart, ListSweep, ListPurge, ListScan, ListNormalize,
         ListDone, ListFail, Deliver, ReadExisting, Respond, PushFail
<1>4. QED
  BY <1>1, <1>2, <1>3

\* What a call that goes on after its step has checked: what it had, or what
\* it has just read.
LEMMA TypeRead ==
    ASSUME TypeOK, NEW x \in Sessions, SessionStep(x)
    PROVE  \/ call'[x].phase \in {"idle", "get"}
           \/ /\ call[x].phase \notin {"idle", "get"}
              /\ call'[x].sig = call[x].sig /\ call'[x].type = call[x].type
           \/ /\ call'[x].sig = call[x].sig
              /\ call'[x].type = type[call[x].sig]
              /\ obj[call[x].sig].status # "absent" /\ UNCHANGED store
<1>0. call \in [Sessions -> Call] /\ call[x] \in Call
  BY DEF TypeOK
<1>f. Finish(x) => call'[x].phase = "idle"
  BY <1>0 DEF Finish, Idle
<1>1. CASE \E op \in Ops, s \in Signals : StartCall(x, op, s)
  BY <1>0, <1>1 DEF StartCall, Idle
<1>2. CASE Get(x)
  BY <1>0, <1>f, <1>2 DEF Get, Call
<1>3. CASE Check(x)
  BY <1>0, <1>f, <1>3 DEF Check, Authorized, Passed, Goto, Call
<1>4. CASE Reget(x)
  BY <1>0, <1>f, <1>4 DEF Reget, Authorized, Passed, Call
<1>5. CASE Begin(x)
  BY <1>0, <1>5 DEF Begin, Call
<1>6. CASE Read(x)
  BY <1>0, <1>f, <1>6 DEF Read, Snapshot, Call
<1>7. CASE Write(x)
  BY <1>0, <1>f, <1>7 DEF Write, Retry, Call
<1>8. CASE Abort(x)
  BY <1>f, <1>8 DEF Abort
<1>9. QED
  BY <1>1, <1>2, <1>3, <1>4, <1>5, <1>6, <1>7, <1>8 DEF SessionStep

\* So the type a call has checked is the signal's until the signal has ended.
LEMMA TypesStep ==
    ASSUME TypeOK, [Next]_vars, PushesConsistent,
           \A l \in Listers : ScanConsistent(l),
           \A x \in Sessions : TypeConsistent(x)
    PROVE  \A x \in Sessions : TypeConsistent(x)'
<1> SUFFICES ASSUME NEW x \in Sessions PROVE TypeConsistent(x)'
  OBVIOUS
<1> DEFINE s == call[x].sig
<1>0. s \in Signals /\ TypeConsistent(x)
  BY DEF TypeOK, Call
<1>h. \A q \in Signals : Kept(q) => Kept(q)'
  BY KeptStep
<1>k. ASSUME NEW q \in Signals, Kept(q)
      PROVE  /\ obj'[q].status # "absent" \/ q \in settled'
             /\ type'[q] = type[q] \/ q \in settled'
  <2>1. obj'[q].status # "absent" \/ q \in settled'
    BY <1>h, <1>k DEF Kept
  <2>2. settled \subseteq settled'
    BY EveryHistoryStep DEF HistoryStep
  <2>3. type'[q] = type[q] \/ obj[q].status = "absent"
    BY TypeFrame
  <2>4. QED
    BY <1>k, <2>1, <2>2, <2>3 DEF Kept
<1>1. Kept(s) => /\ obj'[s].status # "absent" \/ s \in settled'
                 /\ type'[s] = type[s] \/ s \in settled'
  BY <1>0, <1>k
<1>2. s \in settled => s \in settled'
  BY <1>0, EveryHistoryStep DEF HistoryStep
<1>3. CASE /\ call[x].phase \notin {"idle", "get"}
           /\ call'[x].sig = s /\ call'[x].type = call[x].type
  <2>1. Kept(s) /\ (type[s] = call[x].type \/ s \in settled)
    BY <1>0, <1>3 DEF TypeConsistent
  <2>2. /\ obj'[s].status # "absent" \/ s \in settled'
        /\ type'[s] = call[x].type \/ s \in settled'
    BY <1>1, <1>2, <2>1
  <2>3. QED
    BY <1>3, <2>2 DEF TypeConsistent, Kept
<1>4. CASE /\ call'[x].sig = s /\ call'[x].type = type[s]
           /\ obj[s].status # "absent" /\ UNCHANGED store
  BY <1>4 DEF TypeConsistent, Kept, store
<1>5. CASE call'[x].phase \in {"idle", "get"}
  BY <1>5 DEF TypeConsistent
<1>6. CASE call'[x] = call[x]
  BY <1>3, <1>5, <1>6
<1>7. QED
  BY <1>3, <1>4, <1>5, <1>6, CallFrame, TypeRead

\* A push request answers only for a signal that is kept.
LEMMA PushStep ==
    ASSUME TypeOK, [Next]_vars, PushesConsistent,
           \A l \in Listers : ScanConsistent(l),
           NEW h \in Pushers
    PROVE  push'[h].phase = "respond" /\ push'[h].msg \notin Malformed =>
               Kept(SignalOf[push[h].msg])'
<1>0. /\ push \in [Pushers -> Push] /\ push[h].msg \in Messages
      /\ SignalOf[push[h].msg] \in Signals
  BY InboxAssumption DEF TypeOK, Push
<1>1. CASE push'[h] = push[h]
  BY <1>0, <1>1, KeptStep DEF PushesConsistent
<1>2. CASE Create(h)
  <2>1. CASE PushGoto(h, "respond") /\ Put(SignalOf[push[h].msg], Pending)
    <3>1. obj'[SignalOf[push[h].msg]] = Pending
      BY <1>0, <2>1, PutStep
    <3>2. push'[h].msg = push[h].msg
      BY <1>0, <2>1 DEF PushGoto, Push
    <3>3. QED
      BY <3>1, <3>2 DEF Kept, Pending, Blank
  <2>2. CASE PushGoto(h, "read")
    BY <1>0, <2>2 DEF PushGoto
  <2>3. QED
    BY <1>2, <2>1, <2>2 DEF Create
<1>3. CASE ReadExisting(h)
  <2>1. CASE PushEnd(h)
    BY <1>0, <2>1 DEF PushEnd, NoPush
  <2>2. CASE /\ obj[SignalOf[push[h].msg]].status # "absent"
             /\ PushGoto(h, "respond") /\ UNCHANGED store
    <3>1. push'[h].msg = push[h].msg
      BY <1>0, <2>2 DEF PushGoto, Push
    <3>2. QED
      BY <2>2, <3>1 DEF Kept, store
  <2>3. QED
    BY <1>3, <2>1, <2>2 DEF ReadExisting
<1>4. CASE Respond(h) \/ PushFail(h)
  BY <1>0, <1>4 DEF Respond, PushFail, PushEnd, NoPush
<1>5. ASSUME NEW m \in Messages, Deliver(h, m)
      PROVE  push'[h].phase = "respond" => push'[h].msg \in Malformed
  BY <1>0, <1>5 DEF Deliver
<1>6. ASSUME NEW k \in Pushers, PusherStep(k), k # h
      PROVE  push'[h] = push[h]
  BY <1>0, <1>6 DEF PusherStep, Deliver, Create, ReadExisting, Respond,
                    PushFail, PushGoto, PushEnd
<1>7. CASE UNCHANGED push
  BY <1>1, <1>7
<1>8. PusherStep(h) \/ (\E k \in Pushers : k # h /\ PusherStep(k)) \/ UNCHANGED push
  BY DEF Next, Tick, Publish, vars, delivery, SessionStep, ListerStep,
         StartCall, Get, Check, Reget, Begin, Read, Write, Abort,
         ListStart, ListSweep, ListPurge, ListScan, ListNormalize, ListDone,
         ListFail
<1>9. QED
  BY <1>1, <1>2, <1>3, <1>4, <1>5, <1>6, <1>7, <1>8 DEF PusherStep

\* An acknowledgement is sent only by a push request that is answering.
LEMMA AckStep ==
    ASSUME TypeOK, [Next]_vars, NEW m \in acked'
    PROVE  m \in acked \/ \E h \in Pushers :
                             push[h].phase = "respond" /\ push[h].msg = m
                             /\ UNCHANGED store /\ UNCHANGED settled
BY DEF Next, Tick, Publish, vars, delivery, SessionStep, ListerStep, PusherStep,
       StartCall, Get, Check, Reget, Begin, Read, Write, Abort,
       ListStart, ListSweep, ListPurge, ListScan, ListNormalize, ListDone,
       ListFail, Deliver, Create, ReadExisting, Respond, PushFail, TypeOK

\* What is about to be acknowledged, and what has been, stays kept.
LEMMA DeliveryStep ==
    ASSUME TypeOK, TypeOK', [Next]_vars, PushesConsistent, NoSilentLoss,
           \A l \in Listers : ScanConsistent(l)
    PROVE  PushesConsistent' /\ NoSilentLoss'
<1>1. PushesConsistent'
  BY KeptStep, PushStep DEF PushesConsistent
<1>2. ASSUME NEW m \in acked' \ Malformed
      PROVE  Kept(SignalOf[m])'
  <2>1. m \in Messages /\ SignalOf[m] \in Signals
    BY <1>2, InboxAssumption DEF TypeOK
  <2>2. CASE m \in acked
    BY <1>2, <2>1, <2>2, KeptStep DEF NoSilentLoss
  <2>3. CASE \E h \in Pushers : push[h].phase = "respond" /\ push[h].msg = m
    BY <1>2, <2>1, <2>3, KeptStep DEF PushesConsistent
  <2>4. QED
    BY <1>2, <2>2, <2>3, AckStep
<1>3. QED
  BY <1>1, <1>2 DEF NoSilentLoss

\* The invariant holds initially ...
LEMMA InvInit == Init => Inv
<1> SUFFICES ASSUME Init PROVE Inv
  OBVIOUS
<1>1. \A x \in Sessions : CallConsistent(x)
  BY DEF Init, CallConsistent, Idle
<1>t. \A x \in Sessions : TypeConsistent(x)
  BY DEF Init, TypeConsistent, Idle
<1>2. \A l \in Listers : ScanConsistent(l)
  BY DEF Init, ScanConsistent, NoScan
<1>3. PushesConsistent /\ NoSilentLoss
  BY DEF Init, PushesConsistent, NoSilentLoss, NoPush, Absent, Blank, Terminal
<1>4. QED
  BY <1>1, <1>t, <1>2, <1>3 DEF Inv

\* ... and every step preserves it.
LEMMA InvStep == TypeOK /\ TypeOK' /\ Inv /\ [Next]_vars => Inv'
BY CallsStep, TypesStep, ScansStep, DeliveryStep DEF Inv

\* No request acts on what is no longer so: what calls, scans and deliveries
\* remember between their steps stays true until their conditional write, in
\* every interleaving (_update, _normalize_expired, cleanup, receive).
THEOREM Invariance == Spec => []Inv
<1>1. Spec => []TypeOK
  BY TypeCorrect
<1>2. QED
  BY <1>1, InvInit, InvStep, PTL DEF Spec

\* A valid message that was acknowledged is never lost: its signal is stored
\* until somebody has completed or dismissed it (receive, cleanup).
THEOREM NothingLost == Spec => []NoSilentLoss
<1>1. Inv => NoSilentLoss
  BY DEF Inv
<1>2. QED
  BY <1>1, Invariance, PTL

-----------------------------------------------------------------------------
(* Every step is one atomic transition.                                    *)

\* The ways the store can change in one step: a delivery stores a new signal,
\* a get or a list reopens an expired claim, a cleanup deletes an old terminal
\* signal, or a call writes a transition that the live record allows.
Stores(s)  == /\ obj[s].status = "absent"
              /\ obj' = [obj EXCEPT ![s] = Pending]
Reopens(s) == /\ IsExpired(obj[s], clock + Skew)
              /\ obj' = [obj EXCEPT ![s] = Pending]
Deletes(s) == /\ obj[s].status \in Terminal
              /\ obj[s].ended + Retention < clock + Skew
              /\ obj' = [obj EXCEPT ![s] = Absent]
Writes(x)  == /\ call[x].phase = "write" /\ call'[x] # call[x]
              /\ call[x].now \in ReadingsSoFar(clock)
              /\ Allowed(call[x].op, obj[call[x].sig], PrincipalOf[x],
                         call[x].now)
              /\ obj' = [obj EXCEPT ![call[x].sig] =
                             Updated(call[x].op, obj[call[x].sig],
                                     PrincipalOf[x], call[x].now)]

\* Reopening with a remembered record and a clock reading of now.
LEMMA ReopenStep ==
    ASSUME TypeOK, NEW s \in Signals, NEW g \in Nat, NEW r \in SignalRecord,
           Remembers(s, g, r), NEW now \in Readings, IsExpired(r, now),
           Replace(s, g, Pending)
    PROVE  UNCHANGED obj \/ Reopens(s)
<1>1. CASE UNCHANGED store
  BY <1>1 DEF store
<1>2. CASE Matches(s, g) /\ Put(s, Pending)
  <2>1. obj[s] = r
    BY <1>2 DEF Remembers
  <2>2. now <= clock + Skew /\ now \in Int
    BY RecordsAssumption DEF TypeOK, Readings
  <2>3. r.expires \in Int /\ clock + Skew \in Int
    BY RecordsAssumption DEF SignalRecord, TypeOK
  <2>4. IsExpired(obj[s], clock + Skew)
    BY <2>1, <2>2, <2>3 DEF IsExpired
  <2>5. QED
    BY <1>2, <2>4 DEF Reopens, Put
<1>3. QED
  BY <1>1, <1>2 DEF Replace, Rewrite

\* The write of a call that has reached it.
LEMMA WriteStep ==
    ASSUME TypeOK, NEW x \in Sessions, CallConsistent(x), Write(x)
    PROVE  UNCHANGED obj \/ Writes(x)
<1> DEFINE c == call[x]
<1>0. call \in [Sessions -> Call] /\ c \in Call
  BY DEF TypeOK
<1>1. c.phase = "write"
  BY DEF Write
<1>2. CASE UNCHANGED store
  BY <1>2 DEF store
<1>3. CASE /\ Matches(c.sig, c.at)
           /\ Finish(x) \/ Retry(x)
           /\ Put(c.sig, Updated(c.op, c.seen, PrincipalOf[x], c.now))
  <2>1. obj[c.sig] = c.seen
    BY <1>1, <1>3 DEF CallConsistent, Remembers
  <2>2. call'[x].phase \in {"idle", "read"}
    BY <1>0, <1>3 DEF Finish, Retry, Idle, Call
  <2>3. QED
    BY <1>1, <1>3, <2>1, <2>2 DEF Writes, Put, CallConsistent
<1>4. QED
  BY <1>2, <1>3 DEF Write, Rewrite

\* Every step but a tick of the clock is one of them or changes no record.
LEMMA OneTransition ==
    ASSUME TypeOK, Inv, [Next]_vars
    PROVE  \/ UNCHANGED obj /\ (Tick \/ UNCHANGED clock)
           \/ /\ UNCHANGED clock
              /\ \/ \E s \in Signals : Stores(s) \/ Reopens(s) \/ Deletes(s)
                 \/ \E x \in Sessions : SessionStep(x) /\ Writes(x)
<1>1. ASSUME NEW x \in Sessions, SessionStep(x)
      PROVE  UNCHANGED obj \/ (\E s \in Signals : Reopens(s)) \/ Writes(x)
  <2> DEFINE c == call[x]
  <2>0. /\ c.sig \in Signals /\ c.at \in Nat /\ c.seen \in SignalRecord
        /\ CallConsistent(x)
    BY DEF TypeOK, Call, Inv
  <2>1. CASE Check(x)
    <3>1. Remembers(c.sig, c.at, c.seen)
      BY <2>0, <2>1 DEF Check, CallConsistent
    <3>2. QED
      BY <2>0, <2>1, <3>1, ReopenStep DEF Check, store
  <2>2. CASE Write(x)
    BY <2>0, <2>2, WriteStep
  <2>3. CASE UNCHANGED store
    BY <2>3 DEF store
  <2>4. QED
    BY <1>1, <2>1, <2>2, <2>3
       DEF SessionStep, StartCall, Get, Reget, Begin, Read, Abort
<1>2. ASSUME NEW l \in Listers, ListerStep(l)
      PROVE  UNCHANGED obj \/ \E s \in Signals : Reopens(s) \/ Deletes(s)
  <2>0. /\ ScanConsistent(l)
        /\ \A s \in Signals : scan[l].at[s] \in Nat
        /\ \A s \in Signals : scan[l].snap[s] \in SignalRecord
    BY DEF TypeOK, Scan, Inv
  <2>1. ASSUME NEW s \in Signals, ListPurge(l, s)
        PROVE  UNCHANGED obj \/ Deletes(s)
    BY <2>0, <2>1
       DEF ListPurge, ScanConsistent, Remembers, Deletes, store
  <2>2. ASSUME NEW s \in Signals, ListNormalize(l, s)
        PROVE  UNCHANGED obj \/ Reopens(s)
    <3>1. Remembers(s, scan[l].at[s], scan[l].snap[s])
      BY <2>0, <2>2 DEF ListNormalize, ScanConsistent
    <3>2. QED
      BY <2>0, <2>2, <3>1, ReopenStep DEF ListNormalize, store
  <2>3. CASE UNCHANGED store
    BY <2>3 DEF store
  <2>4. QED
    BY <1>2, <2>1, <2>2, <2>3
       DEF ListerStep, ListStart, ListSweep, ListScan, ListDone, ListFail
<1>3. ASSUME NEW h \in Pushers, PusherStep(h)
      PROVE  UNCHANGED obj \/ \E s \in Signals : Stores(s)
  <2>1. SignalOf[push[h].msg] \in Signals
    BY InboxAssumption DEF TypeOK, Push
  <2>2. QED
    BY <1>3, <2>1
       DEF PusherStep, Deliver, Create, ReadExisting, Respond, PushFail,
           store, Stores, Put
<1>4. CASE Tick \/ (\E m \in Messages : Publish(m)) \/ UNCHANGED vars
  BY <1>4 DEF Tick, Publish, vars, store
<1>5. ~Tick => UNCHANGED clock
  BY DEF Next, SessionStep, ListerStep, PusherStep, Publish, vars,
         StartCall, Get, Check, Reget, Begin, Read, Write, Abort,
         ListStart, ListSweep, ListPurge, ListScan, ListNormalize, ListDone,
         ListFail, Deliver, Create, ReadExisting, Respond, PushFail
<1>6. Tick => UNCHANGED obj
  BY DEF Tick, store
<1>7. QED
  BY <1>1, <1>2, <1>3, <1>4, <1>5, <1>6 DEF Next

-----------------------------------------------------------------------------
(* The lease, and the lifecycle of README.md.                              *)

\* The action of LeaseRespected, for one signal.
LEMMA LeaseStep ==
    ASSUME TypeOK, Inv, [Next]_vars, NEW s \in Signals,
           Held(s), obj'[s] # obj[s]
    PROVE  \E x \in Sessions : PrincipalOf[x] = obj[s].owner /\ WrittenBy(x, s)
<1>0. /\ obj \in [Signals -> SignalRecord] /\ obj[s].expires \in Int
      /\ clock \in Int /\ Skew \in Int /\ 0 <= Skew
  BY RecordsAssumption DEF TypeOK, SignalRecord
<1>1. obj[s].status = "claimed" /\ clock + Skew < obj[s].expires
  BY DEF Held
<1>2. ASSUME NEW q \in Signals, Stores(q) \/ Reopens(q) \/ Deletes(q)
      PROVE  FALSE
  BY <1>0, <1>1, <1>2 DEF Stores, Reopens, Deletes, IsExpired, Terminal
<1>3. ASSUME NEW x \in Sessions, Writes(x)
      PROVE  PrincipalOf[x] = obj[s].owner /\ WrittenBy(x, s)
  <2> DEFINE c == call[x]
  <2>1. c.sig = s
    BY <1>0, <1>3 DEF Writes
  <2>2. c.op \in Ops /\ c.now \in Int /\ c.now <= clock + Skew
    BY <1>0, <1>3 DEF Writes, ReadingsSoFar, TypeOK, Call
  <2>3. ~IsExpired(obj[s], c.now)
    BY <1>0, <1>1, <2>2 DEF IsExpired
  <2>4. Allowed(c.op, obj[s], PrincipalOf[x], c.now)
    BY <1>3, <2>1 DEF Writes
  <2>5. PrincipalOf[x] = obj[s].owner
    BY <1>1, <2>2, <2>3, <2>4 DEF Allowed, Ops
  <2>6. QED
    BY <1>3, <2>1, <2>5 DEF Writes, WrittenBy
<1>4. QED
  BY <1>2, <1>3, OneTransition

\* While a claim runs by every clock, nobody but its owner changes the record
\* (_update, _normalize_expired, cleanup).
THEOREM LeaseIsRespected == Spec => LeaseRespected
<1>1. TypeOK /\ Inv /\ [Next]_vars =>
          [\A s \in Signals :
              Held(s) /\ obj'[s] # obj[s] =>
                  \E x \in Sessions :
                      PrincipalOf[x] = obj[s].owner /\ WrittenBy(x, s)]_vars
  BY LeaseStep
<1>2. QED
  BY <1>1, TypeCorrect, Invariance, PTL DEF Spec, LeaseRespected

\* A principal without a signal's type changes nothing of it but an expired
\* claim, although the type is checked on an earlier read - except that a signal
\* ended, cleaned up and delivered again under the call may have another type
\* than the one that was checked (_authorized_signal, _update).
THEOREM PrincipalsAreConfined == Spec => ConfinedToVisible
<1> DEFINE Reopening(s) == IsExpired(obj[s], clock + Skew) /\ obj'[s] = Pending
           Redelivered(x, s) ==
               call[x].type \in Visible[PrincipalOf[x]] /\ s \in settled
<1>1. ASSUME TypeOK, Inv, [Next]_vars, NEW x \in Sessions, NEW s \in Signals,
             ChangedBy(x, s), type[s] \notin Visible[PrincipalOf[x]]
      PROVE  Reopening(s) \/ Redelivered(x, s)
  <2>0. /\ obj \in [Signals -> SignalRecord]
        /\ CallConsistent(x) /\ TypeConsistent(x)
        /\ call[x].sig = s /\ obj'[s] # obj[s]
    BY <1>1 DEF TypeOK, Inv, ChangedBy
  <2>1. SessionStep(x)
    BY <1>1, CallFrame DEF ChangedBy
  <2>2. CASE Write(x)
    <3>1. call[x].phase = "write"
      BY <2>2 DEF Write
    <3>2. QED
      BY <1>1, <2>0, <3>1 DEF CallConsistent, TypeConsistent
  <2>3. CASE Check(x)
    <3>1. call[x].at \in Nat /\ call[x].seen \in SignalRecord
      BY <1>1 DEF TypeOK, Call
    <3>2. Remembers(s, call[x].at, call[x].seen)
      BY <1>1, <2>0, <2>3 DEF Check, CallConsistent
    <3>3. Reopens(s)
      BY <1>1, <2>0, <2>3, <3>1, <3>2, ReopenStep DEF Check, store
    <3>4. QED
      BY <2>0, <3>3 DEF Reopens
  <2>4. QED
    BY <1>1, <2>0, <2>1, <2>2, <2>3
       DEF SessionStep, StartCall, Get, Reget, Begin, Read, Abort, store
<1>2. TypeOK /\ Inv /\ [Next]_vars =>
          [\A x \in Sessions, s \in Signals :
              ChangedBy(x, s) /\ type[s] \notin Visible[PrincipalOf[x]] =>
                  \/ IsExpired(obj[s], clock + Skew) /\ obj'[s] = Pending
                  \/ call[x].type \in Visible[PrincipalOf[x]] /\ s \in settled]_vars
  BY <1>1
<1>3. QED
  BY <1>2, TypeCorrect, Invariance, PTL DEF Spec, ConfinedToVisible

\* The lifecycle and the inbox speak of the same records and readings.
LEMMA SameVocabulary ==
    /\ Lifecycle!Pending = Pending
    /\ Lifecycle!Absent = Absent
    /\ \A p, t : Lifecycle!ClaimedBy(p, t) = ClaimedBy(p, t)
    /\ \A r, st, t : Lifecycle!EndedAs(r, st, t) = EndedAs(r, st, t)
    /\ Lifecycle!ReadingsSoFar(clock) = ReadingsSoFar(clock)
BY DEF Lifecycle!Pending, Pending, Lifecycle!Absent, Absent, Lifecycle!Blank,
       Blank, Lifecycle!ClaimedBy, ClaimedBy, Lifecycle!EndedAs, EndedAs,
       Lifecycle!ReadingsSoFar, ReadingsSoFar

\* A step of the inbox is a step of the lifecycle or changes neither the
\* clock nor a record.
LEMMA LifecycleStep ==
    ASSUME TypeOK, Inv, [Next]_vars
    PROVE  [Lifecycle!Next]_(Lifecycle!vars)
<1>0. UNCHANGED <<clock, obj>> => UNCHANGED Lifecycle!vars
  BY DEF Lifecycle!vars
<1>1. CASE UNCHANGED obj /\ (Tick \/ UNCHANGED clock)
  BY <1>0, <1>1 DEF Tick, Lifecycle!Next, Lifecycle!Tick
<1>2. ASSUME NEW s \in Signals, UNCHANGED clock, Stores(s)
      PROVE  Lifecycle!Next
  BY <1>2, SameVocabulary
     DEF Stores, Lifecycle!Next, Lifecycle!Receive, Lifecycle!Become
<1>3. ASSUME NEW s \in Signals, UNCHANGED clock, Reopens(s)
      PROVE  Lifecycle!Next
  BY <1>3, SameVocabulary
     DEF Reopens, IsExpired, Lifecycle!Next, Lifecycle!Expire,
         Lifecycle!MayHaveExpired, Lifecycle!Become
<1>4. ASSUME NEW s \in Signals, UNCHANGED clock, Deletes(s)
      PROVE  Lifecycle!Next
  BY <1>4, SameVocabulary
     DEF Deletes, Terminal, Lifecycle!Next, Lifecycle!Purge,
         Lifecycle!Become
<1>5. ASSUME NEW x \in Sessions, UNCHANGED clock, Writes(x)
      PROVE  Lifecycle!Next
  <2> DEFINE c == call[x]
             s == c.sig
             p == PrincipalOf[x]
             t == c.now
  <2>1. /\ s \in Signals /\ p \in Principals /\ c.op \in Ops
        /\ t \in ReadingsSoFar(clock)
    BY <1>5, InboxAssumption DEF TypeOK, Call, Writes
  <2>2. /\ Allowed(c.op, obj[s], p, t)
        /\ obj' = [obj EXCEPT ![s] = Updated(c.op, obj[s], p, t)]
    BY <1>5 DEF Writes
  <2>t. /\ t \in Int /\ t <= clock + Skew /\ obj[s].expires \in Int
        /\ clock + Skew \in Int
    BY <2>1, RecordsAssumption DEF TypeOK, ReadingsSoFar, SignalRecord
  <2>3. CASE c.op = "claim"
    <3>1. obj[s].status = "pending" \/ Lifecycle!MayHaveExpired(s)
      BY <2>2, <2>3, <2>t DEF Allowed, IsExpired, Lifecycle!MayHaveExpired
    <3>2. obj' = [obj EXCEPT ![s] = ClaimedBy(p, t)]
      BY <2>2, <2>3 DEF Updated
    <3>3. Lifecycle!Claim(s, p, t)
      BY <1>5, <3>1, <3>2, SameVocabulary
         DEF Lifecycle!Claim, Lifecycle!Become
    <3>4. QED
      BY <2>1, <3>3, SameVocabulary DEF Lifecycle!Next
  <2>4. CASE c.op = "complete"
    <3>1. /\ Lifecycle!OwnedBy(s, p)
          /\ t < obj[s].expires
      BY <2>2, <2>4, <2>t DEF Allowed, IsExpired, Lifecycle!OwnedBy
    <3>2. obj' = [obj EXCEPT ![s] = EndedAs(obj[s], "completed", t)]
      BY <2>2, <2>4 DEF Updated
    <3>3. Lifecycle!Complete(s, p, t)
      BY <1>5, <3>1, <3>2, SameVocabulary
         DEF Lifecycle!Complete, Lifecycle!Become
    <3>4. QED
      BY <2>1, <3>3, SameVocabulary DEF Lifecycle!Next
  <2>5. CASE c.op = "dismiss"
    <3>1. obj[s].status = "pending" \/ Lifecycle!OwnedBy(s, p)
      BY <2>2, <2>5 DEF Allowed, Lifecycle!OwnedBy
    <3>2. obj' = [obj EXCEPT ![s] = EndedAs(obj[s], "dismissed", t)]
      BY <2>2, <2>5 DEF Updated
    <3>3. Lifecycle!Dismiss(s, p, t)
      BY <1>5, <3>1, <3>2, SameVocabulary
         DEF Lifecycle!Dismiss, Lifecycle!Become
    <3>4. QED
      BY <2>1, <3>3, SameVocabulary DEF Lifecycle!Next
  <2>6. CASE c.op = "release"
    <3>1. Lifecycle!OwnedBy(s, p)
      BY <2>2, <2>6 DEF Allowed, Lifecycle!OwnedBy
    <3>2. obj' = [obj EXCEPT ![s] = Pending]
      BY <2>2, <2>6 DEF Updated
    <3>3. Lifecycle!Release(s, p)
      BY <1>5, <3>1, <3>2, SameVocabulary
         DEF Lifecycle!Release, Lifecycle!Become
    <3>4. QED
      BY <2>1, <3>3, SameVocabulary DEF Lifecycle!Next
  <2>7. c.op # "get"
    BY <2>2 DEF Allowed
  <2>8. QED
    BY <2>1, <2>3, <2>4, <2>5, <2>6, <2>7 DEF Ops
<1>6. QED
  BY <1>1, <1>2, <1>3, <1>4, <1>5, OneTransition

\* Every interleaving of requests, retries, deliveries, cleanups and crashes
\* is a behaviour of the lifecycle diagram of README.md.
THEOREM Implementation == Spec => ImplementsLifecycle
<1>1. Init => Lifecycle!Init
  BY SameVocabulary DEF Init, Lifecycle!Init
<1>2. TypeOK /\ Inv /\ [Next]_vars => [Lifecycle!Next]_(Lifecycle!vars)
  BY LifecycleStep
<1>3. QED
  BY <1>1, <1>2, TypeCorrect, Invariance, PTL
     DEF Spec, ImplementsLifecycle, Lifecycle!Spec

-----------------------------------------------------------------------------
(* Completions.                                                            *)

\* Principals that are one owner each: no two sessions share one.
OwnPrincipals == \A x, y \in Sessions : PrincipalOf[x] = PrincipalOf[y] => x = y

\* A claim was made with a clock reading of the past ...
MadeBefore(s) ==
    obj[s].status = "claimed" => obj[s].expires - Lease <= clock + Skew

\* ... and before the complete call of its owner has read the clock.
MadeBeforeCall(x, s) ==
    /\ call[x].phase \in {"read", "write"} /\ call[x].op = "complete"
    /\ obj[s].status = "claimed" /\ obj[s].owner = PrincipalOf[x]
    => obj[s].expires - Lease <= call[x].now + 2 * Skew

ClaimInv == /\ \A s \in Signals : MadeBefore(s)
            /\ \A x \in Sessions, s \in Signals : MadeBeforeCall(x, s)
            /\ CompletedInLease

\* The write of a claim, which reads the clock before.
ClaimWrite(y, s) ==
    /\ call[y].phase = "write" /\ call[y].op = "claim"
    /\ call[y].now \in Int /\ call[y].now <= clock + Skew
    /\ obj'[s] = ClaimedBy(PrincipalOf[y], call[y].now)

\* The write of a completion.
CompleteWrite(y, s) ==
    /\ call[y].phase = "write" /\ call[y].op = "complete"
    /\ obj[s].status = "claimed" /\ obj[s].owner = PrincipalOf[y]
    /\ call[y].now < obj[s].expires
    /\ obj'[s] = EndedAs(obj[s], "completed", call[y].now)

\* A record is claimed or completed by nothing else.
LEMMA NewRecords ==
    ASSUME TypeOK, Inv, [Next]_vars, NEW s \in Signals, obj'[s] # obj[s]
    PROVE  \/ obj'[s].status \notin {"claimed", "completed"}
           \/ \E y \in Sessions :
                 SessionStep(y) /\ (ClaimWrite(y, s) \/ CompleteWrite(y, s))
<1>0. obj \in [Signals -> SignalRecord] /\ obj[s] \in SignalRecord
  BY DEF TypeOK
<1>1. ASSUME NEW q \in Signals, Stores(q) \/ Reopens(q) \/ Deletes(q)
      PROVE  obj'[s].status \notin {"claimed", "completed"}
  BY <1>0, <1>1 DEF Stores, Reopens, Deletes, Pending, Absent, Blank
<1>2. ASSUME NEW y \in Sessions, SessionStep(y), Writes(y)
      PROVE  \/ obj'[s].status \notin {"claimed", "completed"}
             \/ ClaimWrite(y, s) \/ CompleteWrite(y, s)
  <2> DEFINE c == call[y]
  <2>1. c.sig = s /\ c.phase = "write"
    BY <1>0, <1>2 DEF Writes
  <2>2. c.op \in Ops /\ c.now \in Int /\ c.now <= clock + Skew
    BY <1>2, RecordsAssumption DEF Writes, ReadingsSoFar, TypeOK, Call
  <2>3. /\ Allowed(c.op, obj[s], PrincipalOf[y], c.now)
        /\ obj'[s] = Updated(c.op, obj[s], PrincipalOf[y], c.now)
    BY <1>0, <1>2, <2>1 DEF Writes
  <2>4. CASE c.op = "claim"
    BY <2>1, <2>2, <2>3, <2>4 DEF ClaimWrite, Updated
  <2>5. CASE c.op = "complete"
    <3>1. obj[s].expires \in Int
      BY <1>0 DEF SignalRecord
    <3>2. QED
      BY <2>1, <2>2, <2>3, <2>5, <3>1
         DEF CompleteWrite, Updated, Allowed, IsExpired
  <2>6. CASE c.op \in {"dismiss", "release", "get"}
    BY <1>0, <2>3, <2>6
       DEF Updated, Allowed, EndedAs, Pending, Blank, SignalRecord
  <2>7. QED
    BY <2>2, <2>4, <2>5, <2>6 DEF Ops
<1>3. QED
  BY <1>1, <1>2, OneTransition

\* A call that is completing has just read the clock, or was before with the
\* same reading.
LEMMA Completing ==
    ASSUME TypeOK, TypeOK', [Next]_vars, NEW x \in Sessions,
           call'[x].phase \in {"read", "write"}, call'[x].op = "complete"
    PROVE  \/ /\ call[x].phase \in {"read", "write"} /\ call[x].op = "complete"
              /\ call[x].now = call'[x].now
           \/ /\ call'[x].now \in Readings /\ UNCHANGED <<clock, obj>>
<1>0. call \in [Sessions -> Call] /\ call[x] \in Call
  BY DEF TypeOK
<1>1. CASE call'[x] = call[x]
  BY <1>1
<1>2. CASE SessionStep(x)
  <2>1. ASSUME Finish(x) PROVE FALSE
    BY <1>0, <2>1 DEF Finish, Idle
  <2>2. ASSUME NEW t, Authorized(x, t) PROVE FALSE
    BY <1>0, <2>1, <2>2 DEF Authorized, Passed, Call
  <2>3. CASE Begin(x)
    BY <1>0, <2>3 DEF Begin, Call, store
  <2>4. CASE Read(x)
    BY <1>0, <2>1, <2>4 DEF Read, Snapshot, Call
  <2>5. CASE Write(x)
    BY <1>0, <2>1, <2>5 DEF Write, Retry, Call
  <2>6. CASE Check(x) \/ Reget(x) \/ Get(x)
    BY <1>0, <2>1, <2>2, <2>6 DEF Check, Reget, Get, Snapshot, Goto, Call
  <2>7. CASE \E op \in Ops, s \in Signals : StartCall(x, op, s)
    BY <1>0, <2>7 DEF StartCall, Call, Idle
  <2>8. QED
    BY <1>2, <2>1, <2>3, <2>4, <2>5, <2>6, <2>7 DEF SessionStep, Abort
<1>3. QED
  BY <1>1, <1>2, CallFrame

\* Every step keeps claims before the completions of their owners.
LEMMA ClaimInvStep ==
    ASSUME OwnPrincipals, TypeOK, TypeOK', Inv, ClaimInv, [Next]_vars
    PROVE  ClaimInv'
<1>0. /\ clock \in Int /\ clock' \in Int /\ clock <= clock'
      /\ Skew \in Int /\ 0 <= Skew /\ Lease \in Int
      /\ \A s \in Signals : /\ obj[s].expires \in Int /\ obj'[s].expires \in Int
                            /\ obj[s].ended \in Int /\ obj[s] \in SignalRecord
      /\ \A x \in Sessions : call[x].now \in Int /\ call'[x].now \in Int
  BY RecordsAssumption, TimeStep DEF TypeOK, SignalRecord, Call
<1>1. ASSUME NEW s \in Signals PROVE MadeBefore(s)'
  <2>1. CASE obj'[s] = obj[s]
    BY <1>0, <2>1 DEF ClaimInv, MadeBefore
  <2>2. ASSUME NEW y \in Sessions, ClaimWrite(y, s) PROVE MadeBefore(s)'
    BY <1>0, <2>2 DEF ClaimWrite, ClaimedBy, MadeBefore
  <2>3. ASSUME NEW y \in Sessions, CompleteWrite(y, s) PROVE MadeBefore(s)'
    BY <1>0, <2>3 DEF CompleteWrite, EndedAs, MadeBefore, SignalRecord
  <2>4. QED
    BY <2>1, <2>2, <2>3, NewRecords DEF MadeBefore
<1>2. ASSUME NEW x \in Sessions, NEW s \in Signals PROVE MadeBeforeCall(x, s)'
  <2> SUFFICES ASSUME call'[x].phase \in {"read", "write"},
                      call'[x].op = "complete",
                      obj'[s].status = "claimed", obj'[s].owner = PrincipalOf[x]
               PROVE  obj'[s].expires - Lease <= call'[x].now + 2 * Skew
    BY DEF MadeBeforeCall
  <2>1. CASE obj'[s] = obj[s]
    <3>1. CASE call'[x].now \in Readings
      BY <1>0, <2>1, <3>1 DEF ClaimInv, MadeBefore, Readings
    <3>2. CASE /\ call[x].phase \in {"read", "write"} /\ call[x].op = "complete"
               /\ call[x].now = call'[x].now
      BY <1>0, <2>1, <3>2 DEF ClaimInv, MadeBeforeCall
    <3>3. QED
      BY <3>1, <3>2, Completing
  <2>2. ASSUME NEW y \in Sessions, SessionStep(y), ClaimWrite(y, s),
               obj'[s] # obj[s]
        PROVE  FALSE
    <3>1. y = x
      BY <2>2 DEF ClaimWrite, ClaimedBy, OwnPrincipals
    <3>2. QED
      BY <2>2, <3>1, Completing DEF ClaimWrite
  <2>3. ASSUME NEW y \in Sessions, CompleteWrite(y, s) PROVE FALSE
    BY <1>0, <2>3 DEF CompleteWrite, EndedAs, SignalRecord
  <2>4. QED
    BY <2>1, <2>2, <2>3, NewRecords
<1>3. CompletedInLease'
  <2>1. SUFFICES ASSUME NEW s \in Signals, obj'[s].status = "completed"
                 PROVE  /\ obj'[s].ended < obj'[s].expires
                        /\ obj'[s].expires - Lease <= obj'[s].ended + 2 * Skew
    BY DEF CompletedInLease
  <2>2. CASE obj'[s] = obj[s]
    BY <2>1, <2>2 DEF ClaimInv, CompletedInLease
  <2>3. ASSUME NEW y \in Sessions, ClaimWrite(y, s) PROVE FALSE
    BY <2>1, <2>3 DEF ClaimWrite, ClaimedBy
  <2>4. ASSUME NEW y \in Sessions, CompleteWrite(y, s)
        PROVE  /\ obj'[s].ended < obj'[s].expires
               /\ obj'[s].expires - Lease <= obj'[s].ended + 2 * Skew
    <3>1. obj[s].expires - Lease <= call[y].now + 2 * Skew
      BY <2>4 DEF CompleteWrite, ClaimInv, MadeBeforeCall
    <3>2. obj'[s].ended = call[y].now /\ obj'[s].expires = obj[s].expires
      BY <1>0, <2>4 DEF CompleteWrite, EndedAs, SignalRecord
    <3>3. QED
      BY <2>4, <3>1, <3>2 DEF CompleteWrite
  <2>5. QED
    BY <2>1, <2>2, <2>3, <2>4, NewRecords
<1>4. QED
  BY <1>1, <1>2, <1>3 DEF ClaimInv

\* If no two sessions share a principal, a completion falls inside the claim it
\* completes, up to the skew of two clocks, however often a slow call is tried
\* again and whatever others claim meanwhile (complete, _update).
THEOREM CompletionsAreInTheirLease ==
    ASSUME OwnPrincipals
    PROVE  Spec => []CompletedInLease
<1>1. Init => ClaimInv
  BY DEF Init, ClaimInv, MadeBefore, MadeBeforeCall, CompletedInLease,
         Idle, Absent, Blank
<1>2. TypeOK /\ TypeOK' /\ Inv /\ ClaimInv /\ [Next]_vars => ClaimInv'
  BY ClaimInvStep
<1>3. ClaimInv => CompletedInLease
  BY DEF ClaimInv
<1>4. QED
  BY <1>1, <1>2, <1>3, TypeCorrect, Invariance, PTL DEF Spec

===============================================================================
