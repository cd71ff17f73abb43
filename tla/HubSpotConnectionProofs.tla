----------------------- MODULE HubSpotConnectionProofs -----------------------
(***************************************************************************)
(* Theorems about HubSpotConnection, for any number of instances, callers  *)
(* and callbacks.  The argument for the lease is in the invariant          *)
(* LeaseInv: whoever writes the document writes what it last read, a token *)
(* on its way to the document is nowhere else; and in UseInv: while an     *)
(* instance has the document's token at HubSpot, the document says so or   *)
(* the instance's lease has run out.                                       *)
(***************************************************************************)
EXTENDS HubSpotConnection, TLAPS

-----------------------------------------------------------------------------
(* The invariants.                                                         *)

\* A state that can still be consumed was never exchanged, and at most one
\* callback at a time is about to exchange a consumed one.
Exchanging(c, s) == callback[c].phase = "exchange" /\ callback[c].state = s

StateInv ==
    \A s \in States :
        /\ granted[s] \in {0, 1}
        /\ pending[s].status # "gone" =>
               granted[s] = 0 /\ \A c \in Callbacks : ~Exchanging(c, s)
        /\ \A c \in Callbacks : Exchanging(c, s) => granted[s] = 0
        /\ \A c, d \in Callbacks : Exchanging(c, s) /\ Exchanging(d, s) => c = d

\* The phases of a refresh that has the lease.
Leased(r) ==
    refresh[r].phase \in {"exchange", "complete", "store", "fail", "unlock"}

\* An instance whose conditional write would succeed knows the document.
Reads ==
    /\ \A r \in Refreshers :
           refresh[r].phase \in {"lock", "store", "unlock"} =>
               /\ refresh[r].at <= gen
               /\ refresh[r].at = gen => refresh[r].seen = conn
    /\ \A a \in Accounts :
           account[a].phase = "write" =>
               /\ account[a].at <= gen
               /\ account[a].at = gen => account[a].seen = conn
    /\ \A c \in Callbacks : callback[c].phase = "write" => callback[c].at <= gen

\* A lease is taken on a document that no running lease holds: by the clock
\* its taker read, every exchange of the document's token has outlived its own.
Overdue(q, now) == refresh[q].now + Ttl <= now

Clocks ==
    \A r \in Refreshers :
        /\ refresh[r].phase \in {"lock", "exchange"} => refresh[r].now <= clock
        /\ refresh[r].phase = "lock" /\ refresh[r].at = gen =>
               \A q \in Refreshers :
                   refresh[q].phase = "exchange" /\ refresh[q].token = conn.token =>
                       Overdue(q, refresh[r].now)

\* The document a lease's own generation names is the one the lease wrote.
\* No two leases have the same id.
Holders ==
    /\ \A r \in Refreshers :
           Leased(r) =>
               /\ refresh[r].at <= gen
               /\ refresh[r].lock <= gen
               /\ refresh[r].at = gen => /\ conn.lock = refresh[r].lock
                                         /\ conn.token = refresh[r].token
    /\ \A r, q \in Refreshers :
           Leased(r) /\ Leased(q) /\ refresh[r].lock = refresh[q].lock => r = q

\* While HubSpot is asked to exchange the token of the document, the
\* document carries the lease it is asked under, or that lease has run out.
Carried(q) == /\ conn.status = "refreshing"
              /\ conn.lock = refresh[q].lock
              /\ conn.until = refresh[q].now + Ttl

InUse ==
    \A r \in Refreshers :
        refresh[r].phase = "exchange" /\ conn.token = refresh[r].token =>
            Carried(r) \/ Overdue(r, clock)

\* A token that HubSpot issued and that is not in the document yet.
Rotated(r) == /\ refresh[r].phase \in {"complete", "store"}
              /\ refresh[r].fresh # refresh[r].token
Received(c) == callback[c].phase \in {"save", "write"}

Elsewhere(t) ==
    \/ conn.token = t
    \/ \E q \in Refreshers : Leased(q) /\ refresh[q].token = t

Known ==
    /\ conn.token <= issued
    /\ \A r \in Refreshers :
           /\ Leased(r) => refresh[r].token <= issued
           /\ refresh[r].phase \in {"complete", "store"} => refresh[r].fresh <= issued
    /\ \A c \in Callbacks : Received(c) => callback[c].token <= issued
    /\ \A t \in valid : t <= issued

Private ==
    /\ \A r \in Refreshers : Rotated(r) => ~Elsewhere(refresh[r].fresh)
    /\ \A c \in Callbacks : Received(c) => ~Elsewhere(callback[c].token)
    /\ \A r, q \in Refreshers :
           Rotated(r) /\ Rotated(q) /\ refresh[r].fresh = refresh[q].fresh => r = q
    /\ \A c, d \in Callbacks :
           Received(c) /\ Received(d) /\ callback[c].token = callback[d].token => c = d
    /\ \A r \in Refreshers, c \in Callbacks :
           Rotated(r) /\ Received(c) => refresh[r].fresh # callback[c].token

\* A refresh that ended with a rejection had a token HubSpot rejects for good.
Rejections ==
    \A r \in Refreshers :
        refresh[r].phase \in {"fail", "unlock"} /\ refresh[r].invalid =>
            refresh[r].token \notin valid

LeaseInv == Reads /\ Holders /\ Known /\ Private /\ Rejections
UseInv   == Clocks /\ InUse /\ ExclusiveUse

-----------------------------------------------------------------------------
(* Typing.                                                                 *)

\* The resting states, and what the writes put in the document.
LEMMA Values ==
    /\ NoConnection \in Connection
    /\ NoRefresh \in Refresh
    /\ NoAccount \in AccountCall
    /\ NoCallback \in CallbackCall
    /\ \A t \in Token, st \in {"active", "reauthorization_required"} :
           Unlocked(st, t) \in Connection
<1>1. NoConnection \in Connection
  BY ConnectionAssumption DEF NoConnection, Unlocked, Connection, Token
<1>2. NoRefresh \in Refresh
  BY <1>1, ConnectionAssumption DEF NoRefresh, Refresh, RefreshPhase, Token
<1>3. NoAccount \in AccountCall
  BY <1>1 DEF NoAccount, AccountCall
<1>4. AnyState \in States
  BY ConnectionAssumption DEF AnyState
<1>5. NoCallback \in CallbackCall
  BY <1>4, ConnectionAssumption DEF NoCallback, CallbackCall, CallbackPhase, Token
<1>6. ASSUME NEW t \in Token, NEW st \in {"active", "reauthorization_required"}
      PROVE  Unlocked(st, t) \in Connection
  BY DEF Unlocked, Connection
<1>7. QED
  BY <1>1, <1>2, <1>3, <1>5, <1>6

\* The ways a step of a refresh can leave it.
LEMMA RefreshTypes ==
    ASSUME TypeOK, NEW r \in Refreshers
    PROVE  /\ Finish(r) => refresh' \in [Refreshers -> Refresh]
           /\ \A ph \in RefreshPhase :
                  Goto(r, ph) => refresh' \in [Refreshers -> Refresh]
           /\ \A b \in BOOLEAN :
                  Failing(r, b) => refresh' \in [Refreshers -> Refresh]
           /\ InProgress(r) => refresh' \in [Refreshers -> Refresh]
<1>1. refresh \in [Refreshers -> Refresh] /\ refresh[r] \in Refresh
  BY DEF TypeOK
<1>2. Finish(r) => refresh' \in [Refreshers -> Refresh]
  BY <1>1, Values DEF Finish
<1>3. ASSUME NEW ph \in RefreshPhase, Goto(r, ph)
      PROVE  refresh' \in [Refreshers -> Refresh]
  BY <1>1, <1>3 DEF Goto, Refresh
<1>4. ASSUME NEW b \in BOOLEAN, Failing(r, b)
      PROVE  refresh' \in [Refreshers -> Refresh]
  <2>1. [refresh[r] EXCEPT !.phase = "fail", !.invalid = b] \in Refresh
    BY <1>1 DEF Refresh, RefreshPhase
  <2>2. QED
    BY <1>1, <1>4, <2>1 DEF Failing
<1>5. ASSUME InProgress(r)
      PROVE  refresh' \in [Refreshers -> Refresh]
  <2>1. CASE refresh[r].tries + 1 < MaxTries
    <3>1. refresh[r].tries + 1 \in 0..(MaxTries - 1)
      BY <1>1, <2>1, ConnectionAssumption DEF Refresh
    <3>2. [refresh[r] EXCEPT !.phase = "acquire", !.tries = refresh[r].tries + 1]
            \in Refresh
      BY <1>1, <3>1 DEF Refresh, RefreshPhase
    <3>3. QED
      BY <1>1, <1>5, <2>1, <3>2 DEF InProgress
  <2>2. CASE ~(refresh[r].tries + 1 < MaxTries)
    BY <1>2, <1>5, <2>2 DEF InProgress
  <2>3. QED
    BY <2>1, <2>2
<1>6. QED
  BY <1>2, <1>3, <1>4, <1>5

\* What taking the lease puts in the call is well formed.
LEMMA LeaseTypes ==
    /\ \A x \in Refresh, n \in Int, d \in Connection, g \in Nat :
           [x EXCEPT !.phase = "lock", !.now = n, !.seen = d, !.at = g] \in Refresh
    /\ \A x \in Refresh, g \in Nat, t \in Token :
           [x EXCEPT !.phase = "exchange", !.at = g, !.lock = g, !.token = t]
               \in Refresh
    /\ \A d \in Connection, g \in Nat, n \in Int :
           [d EXCEPT !.status = "refreshing", !.lock = g, !.until = n]
               \in Connection
<1>1. ASSUME NEW x \in Refresh, NEW n \in Int, NEW d \in Connection, NEW g \in Nat
      PROVE  [x EXCEPT !.phase = "lock", !.now = n, !.seen = d, !.at = g] \in Refresh
  <2>1. [x EXCEPT !.phase = "lock", !.now = n] \in Refresh
    BY DEF Refresh, RefreshPhase
  <2>2. ASSUME NEW y \in Refresh PROVE [y EXCEPT !.seen = d, !.at = g] \in Refresh
    BY DEF Refresh
  <2>3. [[x EXCEPT !.phase = "lock", !.now = n] EXCEPT !.seen = d, !.at = g]
          \in Refresh
    BY <2>1, <2>2
  <2>4. QED
    BY <2>3
<1>2. ASSUME NEW x \in Refresh, NEW g \in Nat, NEW t \in Token
      PROVE  [x EXCEPT !.phase = "exchange", !.at = g, !.lock = g, !.token = t]
                 \in Refresh
  <2>1. [x EXCEPT !.phase = "exchange", !.at = g] \in Refresh
    BY DEF Refresh, RefreshPhase
  <2>2. ASSUME NEW y \in Refresh PROVE [y EXCEPT !.lock = g, !.token = t] \in Refresh
    BY DEF Refresh
  <2>3. [[x EXCEPT !.phase = "exchange", !.at = g] EXCEPT !.lock = g, !.token = t]
          \in Refresh
    BY <2>1, <2>2
  <2>4. QED
    BY <2>3
<1>3. ASSUME NEW d \in Connection, NEW g \in Nat, NEW n \in Int
      PROVE  [d EXCEPT !.status = "refreshing", !.lock = g, !.until = n] \in Connection
  BY DEF Connection
<1>4. QED
  BY <1>1, <1>2, <1>3

\* Conditional writes keep the document well formed.
LEMMA StoreTypes ==
    ASSUME TypeOK, NEW g, NEW d \in Connection
    PROVE  /\ Written(g, d) => conn' \in Connection /\ gen' \in Nat
           /\ Refused(g) => conn' \in Connection /\ gen' \in Nat
           /\ Unavailable => conn' \in Connection /\ gen' \in Nat
BY DEF TypeOK, Written, Refused, Unavailable, store

\* A token HubSpot issues is a token.
LEMMA IssueTypes ==
    ASSUME TypeOK, NEW old, Issue(old)
    PROVE  issued' \in Token /\ issued + 1 \in Token /\ valid' \subseteq Token
<1>1. issued + 1 \in Token
  BY ConnectionAssumption DEF TypeOK, Issue, Token
<1>2. QED
  BY <1>1 DEF TypeOK, Issue

\* A step of an instance keeps every variable well formed.
LEMMA RefreshStepType ==
    ASSUME TypeOK, NEW r \in Refreshers, RefreshStep(r)
    PROVE  TypeOK'
<1> USE DEF store, hub, oauth
<1>0. refresh[r] \in Refresh /\ refresh \in [Refreshers -> Refresh]
  BY DEF TypeOK
<1>1. ASSUME Start(r) PROVE TypeOK'
  BY <1>1, RefreshTypes DEF TypeOK, Start, RefreshPhase
<1>2. ASSUME Acquire(r) PROVE TypeOK'
  <2>0. clock \in Int /\ conn \in Connection /\ gen \in Nat
    BY DEF TypeOK
  <2>1. [refresh[r] EXCEPT !.phase = "lock", !.now = clock, !.seen = conn,
                           !.at = gen] \in Refresh
    BY <1>0, <2>0, LeaseTypes
  <2>2. refresh' \in [Refreshers -> Refresh]
    BY <1>0, <1>2, <2>1, RefreshTypes DEF Acquire, RefreshPhase
  <2>3. QED
    BY <1>2, <2>2 DEF TypeOK, Acquire
<1>3. ASSUME Lock(r) PROVE TypeOK'
  <2> DEFINE d == [refresh[r].seen EXCEPT !.status = "refreshing", !.lock = gen + 1,
                                          !.until = refresh[r].now + Ttl]
  <2>0. /\ refresh[r].seen \in Connection /\ gen + 1 \in Nat
        /\ refresh[r].now + Ttl \in Int
    BY <1>0, ConnectionAssumption DEF TypeOK, Refresh
  <2>1. d \in Connection /\ d.token \in Token
    <3>1. d \in Connection
      BY <1>0, <2>0, LeaseTypes
    <3>2. QED
      BY <3>1 DEF Connection
  <2>2. [refresh[r] EXCEPT !.phase = "exchange", !.at = gen + 1, !.lock = gen + 1,
                           !.token = d.token] \in Refresh
    BY <1>0, <2>0, <2>1, LeaseTypes
  <2>3. conn' \in Connection /\ gen' \in Nat
    BY <1>3, <2>1, StoreTypes DEF Lock
  <2>4. refresh' \in [Refreshers -> Refresh]
    BY <1>0, <1>3, <2>2, RefreshTypes DEF Lock, RefreshPhase
  <2>5. QED
    BY <1>3, <2>3, <2>4 DEF TypeOK, Lock
<1>4. ASSUME Exchange(r) PROVE TypeOK'
  <2>1. valid' \subseteq Token /\ issued' \in Token
    BY <1>4, IssueTypes DEF TypeOK, Exchange
  <2>2. ASSUME NEW t \in Token
        PROVE  [refresh[r] EXCEPT !.phase = "complete", !.fresh = t] \in Refresh
    BY <1>0 DEF Refresh, RefreshPhase
  <2>3. refresh[r].token \in Token
    BY <1>0 DEF Refresh
  <2>4. refresh' \in [Refreshers -> Refresh]
    BY <1>0, <1>4, <2>2, <2>3, IssueTypes, RefreshTypes DEF Exchange, RefreshPhase
  <2>5. QED
    BY <1>4, <2>1, <2>4 DEF TypeOK, Exchange
<1>5. ASSUME Complete(r) PROVE TypeOK'
  <2>1. [refresh[r] EXCEPT !.phase = "store", !.seen = conn, !.at = gen] \in Refresh
    BY <1>0 DEF TypeOK, Refresh, RefreshPhase
  <2>2. refresh' \in [Refreshers -> Refresh]
    BY <1>0, <1>5, <2>1, RefreshTypes DEF Complete, RefreshPhase
  <2>3. QED
    BY <1>5, <2>2 DEF TypeOK, Complete
<1>6. ASSUME Store(r) PROVE TypeOK'
  <2>1. Unlocked("active", refresh[r].fresh) \in Connection
    BY <1>0, Values DEF Refresh
  <2>2. conn' \in Connection /\ gen' \in Nat
    BY <1>6, <2>1, StoreTypes DEF Store
  <2>3. refresh' \in [Refreshers -> Refresh]
    BY <1>6, RefreshTypes DEF Store, RefreshPhase
  <2>4. QED
    BY <1>6, <2>2, <2>3 DEF TypeOK, Store
<1>7. ASSUME Fail(r) PROVE TypeOK'
  <2>1. [refresh[r] EXCEPT !.phase = "unlock", !.seen = conn, !.at = gen] \in Refresh
    BY <1>0 DEF TypeOK, Refresh, RefreshPhase
  <2>2. refresh' \in [Refreshers -> Refresh]
    BY <1>0, <1>7, <2>1, RefreshTypes DEF Fail, RefreshPhase
  <2>3. QED
    BY <1>7, <2>2 DEF TypeOK, Fail
<1>8. ASSUME Unlock(r) PROVE TypeOK'
  <2> DEFINE st == IF refresh[r].invalid THEN "reauthorization_required" ELSE "active"
             d  == Unlocked(st, refresh[r].seen.token)
  <2>1. refresh[r].seen \in Connection /\ refresh[r].seen.token \in Token
    BY <1>0 DEF Refresh, Connection
  <2>2. st \in {"active", "reauthorization_required"}
    OBVIOUS
  <2> HIDE DEF st
  <2>3. d \in Connection
    BY <2>1, <2>2, Values
  <2> HIDE DEF d
  <2>4. Written(refresh[r].at, d) \/ Refused(refresh[r].at) \/ Unavailable
    BY <1>8 DEF Unlock, d, st
  <2>5. conn' \in Connection /\ gen' \in Nat
    BY <2>3, <2>4, StoreTypes
  <2>6. refresh' \in [Refreshers -> Refresh]
    BY <1>8, RefreshTypes DEF Unlock, RefreshPhase
  <2>7. QED
    BY <1>8, <2>5, <2>6 DEF TypeOK, Unlock
<1>9. ASSUME Crash(r) PROVE TypeOK'
  BY <1>9, RefreshTypes DEF TypeOK, Crash
<1>10. QED
  BY <1>1, <1>2, <1>3, <1>4, <1>5, <1>6, <1>7, <1>8, <1>9 DEF RefreshStep

\* A step of a caller of update_account keeps every variable well formed.
LEMMA AccountStepType ==
    ASSUME TypeOK, NEW a \in Accounts, AccountStep(a)
    PROVE  TypeOK'
<1> USE DEF store, hub, oauth
<1>0. account[a] \in AccountCall /\ account[a].seen \in Connection
  BY DEF TypeOK, AccountCall
<1>1. ASSUME ReadAccount(a) PROVE TypeOK'
  <2>1. [phase |-> "write", seen |-> conn, at |-> gen] \in AccountCall
    BY DEF TypeOK, AccountCall
  <2>2. QED
    BY <1>1, <2>1 DEF TypeOK, ReadAccount
<1>2. ASSUME WriteAccount(a) PROVE TypeOK'
  <2>1. conn' \in Connection /\ gen' \in Nat
    BY <1>0, <1>2, StoreTypes DEF WriteAccount
  <2>2. QED
    BY <1>2, <2>1, Values DEF TypeOK, WriteAccount
<1>3. QED
  BY <1>1, <1>2 DEF AccountStep

\* A step of a callback keeps every variable well formed.
LEMMA CallbackStepType ==
    ASSUME TypeOK, NEW c \in Callbacks, CallbackStep(c)
    PROVE  TypeOK'
<1> USE DEF store, hub, oauth
<1>0. /\ callback \in [Callbacks -> CallbackCall] /\ callback[c] \in CallbackCall
      /\ callback[c].state \in States /\ callback[c].token \in Token
  BY DEF TypeOK, CallbackCall
<1>a. ASSUME NEW ph \in CallbackPhase, CallbackGoto(c, ph)
      PROVE  callback' \in [Callbacks -> CallbackCall]
  BY <1>0, <1>a DEF CallbackGoto, CallbackCall
<1>b. ASSUME CallbackEnd(c)
      PROVE  callback' \in [Callbacks -> CallbackCall]
  BY <1>0, <1>b, Values DEF CallbackEnd
<1>1. ASSUME NEW s \in States, NEW code \in BOOLEAN, CallBack(c, s, code)
      PROVE  TypeOK'
  <2>1. [NoCallback EXCEPT !.phase = "read", !.state = s, !.code = code]
          \in CallbackCall
    BY Values DEF CallbackCall, CallbackPhase
  <2>2. callback' \in [Callbacks -> CallbackCall]
    BY <1>0, <1>1, <2>1 DEF CallBack
  <2>3. QED
    BY <1>1, <2>2 DEF TypeOK, CallBack
<1>2. ASSUME ReadPending(c) PROVE TypeOK'
  <2>1. callback' \in [Callbacks -> CallbackCall]
    BY <1>2, <1>a, <1>b DEF ReadPending, CallbackPhase
  <2>2. QED
    BY <1>2, <2>1 DEF TypeOK, ReadPending
<1>3. ASSUME DeletePending(c) PROVE TypeOK'
  <2>1. callback' \in [Callbacks -> CallbackCall]
    BY <1>3, <1>a, <1>b DEF DeletePending, CallbackPhase
  <2>2. pending' \in [States -> PendingState]
    BY <1>0, <1>3 DEF TypeOK, DeletePending, PendingState
  <2>3. QED
    BY <1>3, <2>1, <2>2 DEF TypeOK, DeletePending
<1>4. ASSUME Grant(c) PROVE TypeOK'
  <2>1. CASE CallbackEnd(c) /\ UNCHANGED <<hub, granted>>
    BY <1>4, <1>b, <2>1 DEF TypeOK, Grant
  <2>2. CASE /\ Issue({})
             /\ granted' = [granted EXCEPT ![callback[c].state] = @ + 1]
             /\ callback' = [callback EXCEPT ![c].phase = "save",
                                             ![c].token = issued + 1]
    <3>1. issued' \in Token /\ issued + 1 \in Token /\ valid' \subseteq Token
      BY <2>2, IssueTypes
    <3>2. [callback[c] EXCEPT !.phase = "save", !.token = issued + 1] \in CallbackCall
      BY <1>0, <3>1 DEF CallbackCall, CallbackPhase
    <3>3. callback' \in [Callbacks -> CallbackCall]
      BY <1>0, <2>2, <3>2
    <3>4. granted' \in [States -> Nat]
      BY <1>0, <2>2 DEF TypeOK
    <3>5. QED
      BY <1>4, <3>1, <3>3, <3>4 DEF TypeOK, Grant
  <2>3. QED
    BY <1>4, <2>1, <2>2 DEF Grant
<1>5. ASSUME ReadConnection(c) PROVE TypeOK'
  <2>1. gen \in Nat
    BY DEF TypeOK
  <2>2. [callback[c] EXCEPT !.phase = "write", !.at = gen] \in CallbackCall
    BY <1>0, <2>1 DEF CallbackCall, CallbackPhase
  <2>3. callback' \in [Callbacks -> CallbackCall]
    BY <1>0, <1>5, <2>2 DEF ReadConnection
  <2>4. QED
    BY <1>5, <2>3 DEF TypeOK, ReadConnection
<1>6. ASSUME SaveConnection(c) PROVE TypeOK'
  <2>1. Unlocked("active", callback[c].token) \in Connection
    BY <1>0, Values
  <2>2. conn' \in Connection /\ gen' \in Nat
    BY <1>6, <2>1, StoreTypes DEF SaveConnection
  <2>3. QED
    BY <1>6, <1>b, <2>2 DEF TypeOK, SaveConnection
<1>7. QED
  BY <1>1, <1>2, <1>3, <1>4, <1>5, <1>6 DEF CallbackStep

\* Every step keeps every variable well formed.
LEMMA TypeStep ==
    ASSUME TypeOK, [Next]_vars
    PROVE  TypeOK'
<1> USE DEF store, hub, oauth
<1>1. ASSUME Tick PROVE TypeOK'
  <2>1. clock + 1 \in 0..MaxTime
    BY <1>1, ConnectionAssumption DEF TypeOK, Tick
  <2>2. QED
    BY <1>1, <2>1 DEF TypeOK, Tick
<1>2. ASSUME NEW s \in States, Connect(s) PROVE TypeOK'
  <2>1. clock + StateTtl \in Int
    BY ConnectionAssumption DEF TypeOK
  <2>2. pending' \in [States -> PendingState]
    BY <1>2, <2>1 DEF TypeOK, Connect, PendingState
  <2>3. QED
    BY <1>2, <2>2 DEF TypeOK, Connect
<1>3. CASE UNCHANGED vars
  BY <1>3 DEF TypeOK, vars
<1>4. QED
  BY <1>1, <1>2, <1>3, RefreshStepType, AccountStepType, CallbackStepType DEF Next

LEMMA TypeInit == Init => TypeOK
BY Values, ConnectionAssumption DEF Init, TypeOK, PendingState, Token

\* Every variable keeps its type.
THEOREM TypeCorrect == Spec => []TypeOK
BY TypeInit, TypeStep, PTL DEF Spec

-----------------------------------------------------------------------------
(* A state is used once.                                                   *)

\* Steps that touch neither states nor callbacks keep StateInv.
LEMMA StateUnchanged ==
    ASSUME StateInv, UNCHANGED oauth
    PROVE  StateInv'
BY DEF StateInv, Exchanging, oauth

\* A callback that ends, or moves on to a phase that is no exchange, keeps it.
LEMMA StateCallback ==
    ASSUME TypeOK, StateInv, NEW c \in Callbacks,
           callback'[c].phase # "exchange",
           \A d \in Callbacks \ {c} : callback'[d] = callback[d],
           UNCHANGED <<pending, granted>>
    PROVE  StateInv'
BY DEF StateInv, Exchanging

\* A callback that ends is in no phase.
LEMMA CallbackEnds ==
    ASSUME TypeOK, NEW c \in Callbacks, CallbackEnd(c)
    PROVE  /\ callback'[c].phase = "idle"
           /\ \A d \in Callbacks \ {c} : callback'[d] = callback[d]
BY DEF TypeOK, CallbackEnd, NoCallback

\* Moving a callback on changes its phase only.
LEMMA CallbackMoves ==
    ASSUME TypeOK, NEW c \in Callbacks, NEW ph, CallbackGoto(c, ph)
    PROVE  /\ callback'[c].phase = ph
           /\ callback'[c].state = callback[c].state
           /\ callback'[c].token = callback[c].token
           /\ \A d \in Callbacks \ {c} : callback'[d] = callback[d]
BY DEF TypeOK, CallbackGoto, CallbackCall

\* A step of a callback keeps StateInv.
LEMMA StateCallbackStep ==
    ASSUME TypeOK, StateInv, NEW c \in Callbacks, CallbackStep(c)
    PROVE  StateInv'
<1>0. /\ callback \in [Callbacks -> CallbackCall] /\ callback[c] \in CallbackCall
      /\ callback[c].state \in States
      /\ pending \in [States -> PendingState] /\ granted \in [States -> Nat]
  BY DEF TypeOK, CallbackCall
<1>1. ASSUME NEW s \in States, NEW code \in BOOLEAN, CallBack(c, s, code)
      PROVE  StateInv'
  <2>1. callback'[c].phase = "read"
    BY <1>0, <1>1, Values DEF CallBack, CallbackCall
  <2>2. \A d \in Callbacks \ {c} : callback'[d] = callback[d]
    BY <1>0, <1>1 DEF CallBack
  <2>3. QED
    BY <1>1, <2>1, <2>2, StateCallback DEF CallBack
<1>2. ASSUME ReadPending(c) PROVE StateInv'
  <2>1. CASE CallbackGoto(c, "delete")
    BY <1>2, <2>1, CallbackMoves, StateCallback DEF ReadPending
  <2>2. CASE CallbackEnd(c)
    BY <1>2, <2>2, CallbackEnds, StateCallback DEF ReadPending
  <2>3. QED
    BY <1>2, <2>1, <2>2 DEF ReadPending
<1>3. ASSUME DeletePending(c) PROVE StateInv'
  <2> DEFINE s == callback[c].state
  <2>1. CASE /\ pending[s].status = "open"
             /\ pending' = [pending EXCEPT ![s].status = "gone"]
             /\ CallbackGoto(c, "exchange")
    <3>1. /\ pending'[s].status = "gone" /\ granted' = granted
          /\ \A t \in States \ {s} : pending'[t] = pending[t]
      BY <1>0, <1>3, <2>1 DEF DeletePending, PendingState
    <3>2. /\ callback'[c].state = s
          /\ \A d \in Callbacks \ {c} : callback'[d] = callback[d]
      BY <2>1, CallbackMoves
    <3>3. granted[s] = 0 /\ \A d \in Callbacks : ~Exchanging(d, s)
      BY <1>0, <2>1 DEF StateInv
    <3>4. QED
      BY <3>1, <3>2, <3>3 DEF StateInv, Exchanging
  <2>2. CASE /\ CallbackEnd(c)
             /\ \/ pending' = [pending EXCEPT ![s].status = "gone"]
                \/ UNCHANGED pending
    <3>1. /\ granted' = granted
          /\ \A t \in States : pending'[t].status # "gone" => pending[t].status # "gone"
      BY <1>0, <1>3, <2>2 DEF DeletePending, PendingState
    <3>2. /\ callback'[c].phase = "idle"
          /\ \A d \in Callbacks \ {c} : callback'[d] = callback[d]
      BY <2>2, CallbackEnds
    <3>3. QED
      BY <3>1, <3>2 DEF StateInv, Exchanging
  <2>3. QED
    BY <1>3, <2>1, <2>2 DEF DeletePending
<1>4. ASSUME Grant(c) PROVE StateInv'
  <2>1. CASE CallbackEnd(c) /\ UNCHANGED <<hub, granted>>
    BY <1>4, <2>1, CallbackEnds, StateCallback DEF Grant
  <2>2. CASE /\ granted' = [granted EXCEPT ![callback[c].state] = @ + 1]
             /\ callback' = [callback EXCEPT ![c].phase = "save",
                                             ![c].token = issued + 1]
    <3> DEFINE s == callback[c].state
    <3>1. Exchanging(c, s)
      BY <1>4 DEF Grant, Exchanging
    <3>2. granted[s] = 0 /\ pending[s].status = "gone"
      BY <1>0, <3>1 DEF StateInv
    <3>3. /\ granted'[s] = 1
          /\ \A t \in States \ {s} : granted'[t] = granted[t]
          /\ pending' = pending
      BY <1>0, <1>4, <2>2, <3>2 DEF Grant
    <3>4. /\ callback'[c].phase = "save"
          /\ \A d \in Callbacks \ {c} : callback'[d] = callback[d]
      BY <1>0, <2>2 DEF CallbackCall
    <3>5. \A d \in Callbacks :
             ~(callback'[d].phase = "exchange" /\ callback'[d].state = s)
      BY <1>0, <3>1, <3>4 DEF StateInv, Exchanging
    <3>6. QED
      BY <3>2, <3>3, <3>4, <3>5 DEF StateInv, Exchanging
  <2>3. QED
    BY <1>4, <2>1, <2>2 DEF Grant
<1>5. ASSUME ReadConnection(c) PROVE StateInv'
  <2>1. /\ callback'[c].phase = "write"
        /\ \A d \in Callbacks \ {c} : callback'[d] = callback[d]
    BY <1>0, <1>5 DEF ReadConnection, CallbackCall
  <2>2. QED
    BY <1>5, <2>1, StateCallback DEF ReadConnection
<1>6. ASSUME SaveConnection(c) PROVE StateInv'
  BY <1>6, CallbackEnds, StateCallback DEF SaveConnection
<1>7. QED
  BY <1>1, <1>2, <1>3, <1>4, <1>5, <1>6 DEF CallbackStep

\* Every step keeps StateInv.
LEMMA StateStep ==
    ASSUME TypeOK, StateInv, [Next]_vars
    PROVE  StateInv'
<1>1. ASSUME NEW s \in States, Connect(s) PROVE StateInv'
  <2>1. pending[s].status # "gone" /\ callback' = callback /\ granted' = granted
    BY <1>1 DEF Connect
  <2>2. \A t \in States \ {s} : pending'[t] = pending[t]
    BY <1>1 DEF TypeOK, Connect
  <2>3. QED
    BY <2>1, <2>2 DEF StateInv, Exchanging
<1>2. CASE UNCHANGED oauth
  BY <1>2, StateUnchanged
<1>3. Tick => UNCHANGED oauth
  BY DEF Tick
<1>4. \A r \in Refreshers : RefreshStep(r) => UNCHANGED oauth
  BY DEF RefreshStep, Start, Acquire, Lock, Exchange, Complete, Store, Fail, Unlock,
         Crash
<1>5. \A a \in Accounts : AccountStep(a) => UNCHANGED oauth
  BY DEF AccountStep, ReadAccount, WriteAccount
<1>6. UNCHANGED vars => UNCHANGED oauth
  BY DEF vars, oauth
<1>7. QED
  BY <1>1, <1>2, <1>3, <1>4, <1>5, <1>6, StateCallbackStep DEF Next

\* An OAuth state is exchanged at HubSpot at most once.
THEOREM StatesAreUsedOnce == Spec => []StateUsedOnce
<1>1. Init => StateInv
  BY DEF Init, StateInv, Exchanging, NoCallback
<1>2. StateInv => StateUsedOnce
  BY DEF StateInv, StateUsedOnce
<1>3. QED
  BY <1>1, <1>2, StateStep, TypeInit, TypeStep, PTL DEF Spec

-----------------------------------------------------------------------------
(* The lease: shapes of steps.                                             *)

\* Only instance r, or callback c, moves.
OnlyRefresh(r)  == /\ \A q \in Refreshers \ {r} : refresh'[q] = refresh[q]
                   /\ UNCHANGED <<account, callback>>
OnlyCallback(c) == /\ \A d \in Callbacks \ {c} : callback'[d] = callback[d]
                   /\ UNCHANGED <<account, refresh>>

\* The document is written, or is not; its token stays, or instance r
\* replaces it with the one HubSpot issued for it.
Rewrites(r) ==
    \/ UNCHANGED store
    \/ gen' = gen + 1 /\ conn'.token = conn.token
    \/ gen' = gen + 1 /\ Rotated(r) /\ conn'.token = refresh[r].fresh

\* HubSpot issues a token, or does not.
Issues == \/ UNCHANGED hub
          \/ issued' = issued + 1 /\ valid' \subseteq valid \cup {issued + 1}

\* Instance r gives up, or goes on to fail_refresh with the lease it has.
Drops(r) == refresh'[r].phase \in {"idle", "acquire"}
Fails(r) == /\ Leased(r)
            /\ refresh'[r].phase = "fail"
            /\ refresh'[r].token = refresh[r].token
            /\ refresh'[r].lock = refresh[r].lock
            /\ refresh'[r].at = refresh[r].at
            /\ refresh'[r].invalid => refresh[r].token \notin valid'

\* The tokens and generations are numbers.
LEMMA Numbers ==
    ASSUME TypeOK
    PROVE  /\ gen \in Nat /\ issued \in Int /\ conn.token \in Int
           /\ \A r \in Refreshers : /\ refresh[r].at \in Nat
                                    /\ refresh[r].lock \in Nat
                                    /\ refresh[r].token \in Int
                                    /\ refresh[r].fresh \in Int
           /\ \A a \in Accounts : account[a].at \in Nat
           /\ \A c \in Callbacks : callback[c].at \in Nat /\ callback[c].token \in Int
           /\ \A t \in valid : t \in Int
<1>1. \A t \in Token : t \in Int
  BY ConnectionAssumption DEF Token
<1>2. QED
  BY <1>1 DEF TypeOK, Connection, Refresh, AccountCall, CallbackCall

\* What the ways to leave a step say of the refresh.
LEMMA RefreshFacts ==
    ASSUME TypeOK, NEW r \in Refreshers
    PROVE  /\ Finish(r) => refresh'[r].phase = "idle"
           /\ InProgress(r) => Drops(r)
           /\ \A b \in BOOLEAN :
                  Failing(r, b) => /\ refresh'[r].phase = "fail"
                                   /\ refresh'[r].token = refresh[r].token
                                   /\ refresh'[r].lock = refresh[r].lock
                                   /\ refresh'[r].at = refresh[r].at
                                   /\ refresh'[r].invalid = b
           /\ \A q \in Refreshers \ {r} :
                  (\/ Finish(r) \/ InProgress(r)
                   \/ \E b \in BOOLEAN : Failing(r, b)) => refresh'[q] = refresh[q]
<1>1. refresh \in [Refreshers -> Refresh] /\ refresh[r] \in Refresh
  BY DEF TypeOK
<1>2. Finish(r) => refresh'[r].phase = "idle"
  BY <1>1 DEF Finish, NoRefresh
<1>3. InProgress(r) => Drops(r)
  BY <1>1, <1>2 DEF InProgress, Drops, Refresh
<1>4. ASSUME NEW b \in BOOLEAN, Failing(r, b)
      PROVE  /\ refresh'[r].phase = "fail"
             /\ refresh'[r].token = refresh[r].token
             /\ refresh'[r].lock = refresh[r].lock
             /\ refresh'[r].at = refresh[r].at
             /\ refresh'[r].invalid = b
  BY <1>1, <1>4 DEF Failing, Refresh
<1>5. ASSUME NEW q \in Refreshers \ {r},
             Finish(r) \/ InProgress(r) \/ \E b \in BOOLEAN : Failing(r, b)
      PROVE  refresh'[q] = refresh[q]
  BY <1>1, <1>5 DEF Finish, InProgress, Failing
<1>6. QED
  BY <1>2, <1>3, <1>4, <1>5

\* A refresh that gives up or fails keeps LeaseInv, whatever it wrote before.
LEMMA Ending ==
    ASSUME TypeOK, LeaseInv, NEW r \in Refreshers, OnlyRefresh(r), Rewrites(r),
           Issues, Drops(r) \/ Fails(r)
    PROVE  LeaseInv'
<1> USE Numbers
<1>1. /\ gen' \in Nat /\ gen <= gen'
      /\ issued' \in Int /\ issued <= issued'
      /\ gen' = gen => conn' = conn
      /\ \A t \in valid' : t \in valid \/ t = issued'
      /\ \A t \in valid' : t <= issued => t \in valid
  BY DEF Rewrites, Issues, store, hub, LeaseInv, Known
<1>2. conn'.token = conn.token \/ (Rotated(r) /\ conn'.token = refresh[r].fresh)
  BY DEF Rewrites, store
<1>3. \A q \in Refreshers :
          /\ Leased(q)' => /\ Leased(q)
                           /\ refresh'[q].token = refresh[q].token
                           /\ refresh'[q].lock = refresh[q].lock
                           /\ refresh'[q].at = refresh[q].at
          /\ Rotated(q)' => /\ q # r /\ Rotated(q) /\ refresh'[q] = refresh[q]
          /\ refresh'[q].phase \in {"lock", "complete", "store", "unlock"} =>
                 q # r /\ refresh'[q] = refresh[q]
  BY DEF OnlyRefresh, Drops, Fails, Leased, Rotated
<1>4. Reads'
  <2>1. \A q \in Refreshers :
            refresh'[q].phase \in {"lock", "store", "unlock"} =>
                /\ refresh'[q].at <= gen'
                /\ refresh'[q].at = gen' => refresh'[q].seen = conn'
    BY <1>1, <1>3 DEF LeaseInv, Reads, Rewrites, store
  <2>2. QED
    BY <1>1, <2>1 DEF LeaseInv, Reads, Rewrites, store, OnlyRefresh
<1>5. Holders'
  BY <1>1, <1>3 DEF LeaseInv, Holders, Rewrites, store
<1>6. Known'
  <2>1. conn'.token <= issued'
    BY <1>1, <1>2 DEF LeaseInv, Known, Rotated
  <2>2. \A q \in Refreshers :
            /\ Leased(q)' => refresh'[q].token <= issued'
            /\ refresh'[q].phase \in {"complete", "store"} => refresh'[q].fresh <= issued'
    BY <1>1, <1>3 DEF LeaseInv, Known
  <2>3. \A t \in valid' : t <= issued'
    BY <1>1 DEF LeaseInv, Known
  <2>4. QED
    BY <1>1, <2>1, <2>2, <2>3 DEF LeaseInv, Known, Received, OnlyRefresh
<1>7. Private'
  <2>1. ASSUME NEW t, ~Elsewhere(t), conn'.token # t
        PROVE  ~Elsewhere(t)'
    BY <1>3, <2>1 DEF Elsewhere
  <2>2. ASSUME NEW q \in Refreshers, Rotated(q)'
        PROVE  ~Elsewhere(refresh[q].fresh)'
    <3>1. Rotated(q) /\ refresh'[q] = refresh[q] /\ q # r
      BY <1>3, <2>2
    <3>2. ~Elsewhere(refresh[q].fresh) /\ conn'.token # refresh[q].fresh
      BY <1>2, <3>1 DEF LeaseInv, Private, Elsewhere
    <3>3. PICK t : t = refresh[q].fresh
      OBVIOUS
    <3>4. ~Elsewhere(t)'
      BY <2>1, <3>2, <3>3
    <3>5. QED
      BY <3>1, <3>3, <3>4 DEF Elsewhere
  <2>3. ASSUME NEW c \in Callbacks, Received(c)'
        PROVE  ~Elsewhere(callback[c].token)'
    <3>1. Received(c) /\ callback'[c] = callback[c]
      BY <2>3 DEF Received, OnlyRefresh
    <3>2. ~Elsewhere(callback[c].token) /\ conn'.token # callback[c].token
      BY <1>2, <3>1 DEF LeaseInv, Private, Elsewhere
    <3>3. QED
      BY <2>1, <3>1, <3>2
  <2>4. QED
    BY <1>3, <2>2, <2>3 DEF LeaseInv, Private, Received, OnlyRefresh
<1>8. Rejections'
  <2>1. ASSUME NEW q \in Refreshers \ {r}, refresh'[q].phase \in {"fail", "unlock"},
               refresh'[q].invalid
        PROVE  refresh'[q].token \notin valid'
    BY <1>1, <2>1 DEF LeaseInv, Rejections, Known, OnlyRefresh, Leased
  <2>2. ASSUME refresh'[r].phase \in {"fail", "unlock"}, refresh'[r].invalid
        PROVE  refresh'[r].token \notin valid'
    BY <2>2 DEF Drops, Fails
  <2>3. QED
    BY <2>1, <2>2 DEF Rejections
<1>9. QED
  BY <1>4, <1>5, <1>6, <1>7, <1>8 DEF LeaseInv

-----------------------------------------------------------------------------
(* The lease: the steps of a refresh.                                      *)

\* Reading the document before a write keeps LeaseInv: before the lease, or
\* with a lease that still names the document's generation.
LEMMA Reading ==
    ASSUME TypeOK, LeaseInv, NEW r \in Refreshers, OnlyRefresh(r),
           UNCHANGED <<store, hub>>,
           refresh'[r].seen = conn, refresh'[r].at = gen,
           \/ refresh'[r].phase = "lock"
           \/ /\ \/ refresh[r].phase = "complete" /\ refresh'[r].phase = "store"
                 \/ refresh[r].phase = "fail" /\ refresh'[r].phase = "unlock"
              /\ refresh[r].at = gen
              /\ refresh'[r].token = refresh[r].token
              /\ refresh'[r].lock = refresh[r].lock
              /\ refresh'[r].fresh = refresh[r].fresh
              /\ refresh'[r].invalid = refresh[r].invalid
    PROVE  LeaseInv'
<1> USE Numbers
<1>1. /\ gen' = gen /\ conn' = conn /\ valid' = valid /\ issued' = issued
      /\ account' = account /\ callback' = callback
  BY DEF store, hub, OnlyRefresh
<1>2. \A q \in Refreshers :
          /\ Leased(q)' => /\ Leased(q)
                           /\ refresh'[q].token = refresh[q].token
                           /\ refresh'[q].lock = refresh[q].lock
                           /\ refresh'[q].at = refresh[q].at
          /\ Rotated(q)' => Rotated(q) /\ refresh'[q].fresh = refresh[q].fresh
          /\ refresh'[q].phase \in {"complete", "store"} =>
                 /\ refresh[q].phase \in {"complete", "store"}
                 /\ refresh'[q].fresh = refresh[q].fresh
          /\ refresh'[q].phase \in {"fail", "unlock"} =>
                 /\ refresh[q].phase \in {"fail", "unlock"}
                 /\ refresh'[q].invalid = refresh[q].invalid
  BY DEF OnlyRefresh, Leased, Rotated
<1>3. Reads'
  BY <1>1 DEF LeaseInv, Reads, OnlyRefresh
<1>4. Holders'
  BY <1>1, <1>2 DEF LeaseInv, Holders
<1>5. Known'
  BY <1>1, <1>2 DEF LeaseInv, Known, Received
<1>6. Private'
  <2>1. ASSUME NEW t, ~Elsewhere(t)
        PROVE  ~Elsewhere(t)'
    BY <1>1, <1>2, <2>1 DEF Elsewhere
  <2>2. \A q \in Refreshers : Rotated(q)' => ~Elsewhere(refresh[q].fresh)'
    <3>1. SUFFICES ASSUME NEW q \in Refreshers, Rotated(q)'
                   PROVE  ~Elsewhere(refresh[q].fresh)'
      OBVIOUS
    <3>2. PICK t : t = refresh[q].fresh
      OBVIOUS
    <3>3. ~Elsewhere(t)'
      BY <1>2, <2>1, <3>1, <3>2 DEF LeaseInv, Private
    <3>4. QED
      BY <1>2, <3>1, <3>2, <3>3 DEF Elsewhere
  <2>3. \A c \in Callbacks : Received(c)' => ~Elsewhere(callback[c].token)'
    <3>1. SUFFICES ASSUME NEW c \in Callbacks, Received(c)'
                   PROVE  ~Elsewhere(callback[c].token)'
      OBVIOUS
    <3>2. PICK t : t = callback[c].token
      OBVIOUS
    <3>3. ~Elsewhere(t)'
      BY <1>1, <2>1, <3>1, <3>2 DEF LeaseInv, Private, Received
    <3>4. QED
      BY <1>1, <3>2, <3>3 DEF Elsewhere
  <2>4. QED
    BY <1>1, <1>2, <2>2, <2>3 DEF LeaseInv, Private, Received
<1>7. Rejections'
  BY <1>1, <1>2 DEF LeaseInv, Rejections, Leased
<1>8. QED
  BY <1>3, <1>4, <1>5, <1>6, <1>7 DEF LeaseInv

\* Taking the lease keeps LeaseInv: its id is new, and its token the document's.
LEMMA Taking ==
    ASSUME TypeOK, LeaseInv, NEW r \in Refreshers, OnlyRefresh(r), UNCHANGED hub,
           gen' = gen + 1, conn'.token = conn.token, conn'.lock = gen + 1,
           refresh'[r].phase = "exchange", refresh'[r].token = conn.token,
           refresh'[r].at = gen + 1, refresh'[r].lock = gen + 1
    PROVE  LeaseInv'
<1> USE Numbers
<1>1. /\ valid' = valid /\ issued' = issued
      /\ account' = account /\ callback' = callback
      /\ \A q \in Refreshers \ {r} : refresh'[q] = refresh[q]
  BY DEF hub, OnlyRefresh
<1>2. Reads'
  BY <1>1 DEF LeaseInv, Reads
<1>3. Holders'
  BY <1>1 DEF LeaseInv, Holders, Leased
<1>4. Known'
  BY <1>1 DEF LeaseInv, Known, Leased, Received
<1>5. Private'
  <2>1. ASSUME NEW t, ~Elsewhere(t)
        PROVE  ~Elsewhere(t)'
    BY <1>1, <2>1 DEF Elsewhere, Leased
  <2>2. \A q \in Refreshers : Rotated(q)' => q # r /\ Rotated(q)
    BY <1>1 DEF Rotated
  <2>3. \A q \in Refreshers : Rotated(q)' => ~Elsewhere(refresh[q].fresh)'
    <3>1. SUFFICES ASSUME NEW q \in Refreshers, Rotated(q)'
                   PROVE  ~Elsewhere(refresh[q].fresh)'
      OBVIOUS
    <3>2. PICK t : t = refresh[q].fresh
      OBVIOUS
    <3>3. ~Elsewhere(t)'
      BY <2>1, <2>2, <3>1, <3>2 DEF LeaseInv, Private
    <3>4. QED
      BY <1>1, <2>2, <3>1, <3>2, <3>3 DEF Elsewhere
  <2>4. \A c \in Callbacks : Received(c)' => ~Elsewhere(callback[c].token)'
    <3>1. SUFFICES ASSUME NEW c \in Callbacks, Received(c)'
                   PROVE  ~Elsewhere(callback[c].token)'
      OBVIOUS
    <3>2. PICK t : t = callback[c].token
      OBVIOUS
    <3>3. ~Elsewhere(t)'
      BY <1>1, <2>1, <3>1, <3>2 DEF LeaseInv, Private, Received
    <3>4. QED
      BY <1>1, <3>2, <3>3 DEF Elsewhere
  <2>5. QED
    BY <1>1, <2>2, <2>3, <2>4 DEF LeaseInv, Private, Received
<1>6. Rejections'
  BY <1>1 DEF LeaseInv, Rejections
<1>7. QED
  BY <1>2, <1>3, <1>4, <1>5, <1>6 DEF LeaseInv

\* HubSpot's answer keeps LeaseInv: the token in it is the one that was sent,
\* or one that nobody has seen.
LEMMA Answering ==
    ASSUME TypeOK, LeaseInv, NEW r \in Refreshers, OnlyRefresh(r), UNCHANGED store,
           refresh[r].phase = "exchange", refresh'[r].phase = "complete",
           refresh'[r].token = refresh[r].token, refresh'[r].at = refresh[r].at,
           refresh'[r].lock = refresh[r].lock,
           \/ UNCHANGED hub /\ refresh'[r].fresh = refresh[r].token
           \/ /\ issued' = issued + 1 /\ valid' \subseteq valid \cup {issued + 1}
              /\ refresh'[r].fresh = issued + 1
    PROVE  LeaseInv'
<1> USE Numbers
<1>1. /\ gen' = gen /\ conn' = conn
      /\ account' = account /\ callback' = callback
      /\ \A q \in Refreshers \ {r} : refresh'[q] = refresh[q]
  BY DEF store, OnlyRefresh
<1>2. /\ issued' \in Int /\ issued <= issued'
      /\ \A t \in valid' : t <= issued'
      /\ \A t \in valid' : t <= issued => t \in valid
  BY DEF hub, LeaseInv, Known
<1>3. \A q \in Refreshers :
          Leased(q)' => /\ Leased(q)
                        /\ refresh'[q].token = refresh[q].token
                        /\ refresh'[q].lock = refresh[q].lock
                        /\ refresh'[q].at = refresh[q].at
  BY <1>1 DEF Leased
<1>4. Reads'
  BY <1>1 DEF LeaseInv, Reads
<1>5. Holders'
  BY <1>1, <1>3 DEF LeaseInv, Holders
<1>6. Known'
  <2>1. refresh[r].token <= issued
    BY DEF LeaseInv, Known, Leased
  <2>2. refresh'[r].fresh <= issued'
    BY <2>1 DEF hub
  <2>3. QED
    BY <1>1, <1>2, <1>3, <2>2 DEF LeaseInv, Known, Received
<1>7. Private'
  <2>1. ASSUME NEW t, ~Elsewhere(t)
        PROVE  ~Elsewhere(t)'
    BY <1>1, <1>3, <2>1 DEF Elsewhere
  <2>2. ASSUME NEW t, t = issued + 1
        PROVE  ~Elsewhere(t)'
    <3>1. ~Elsewhere(t)
      BY <2>2 DEF LeaseInv, Known, Elsewhere
    <3>2. QED
      BY <2>1, <3>1
  <2>3. \A q \in Refreshers \ {r} : Rotated(q)' => ~Elsewhere(refresh[q].fresh)'
    <3>1. SUFFICES ASSUME NEW q \in Refreshers \ {r}, Rotated(q)'
                   PROVE  ~Elsewhere(refresh[q].fresh)'
      OBVIOUS
    <3>2. PICK t : t = refresh[q].fresh
      OBVIOUS
    <3>3. ~Elsewhere(t)'
      BY <1>1, <2>1, <3>1, <3>2 DEF LeaseInv, Private, Rotated
    <3>4. QED
      BY <1>1, <3>1, <3>2, <3>3 DEF Elsewhere
  <2>4. Rotated(r)' => refresh'[r].fresh = issued + 1 /\ ~Elsewhere(refresh[r].fresh)'
    <3>1. SUFFICES ASSUME Rotated(r)'
                   PROVE  refresh'[r].fresh = issued + 1 /\ ~Elsewhere(refresh[r].fresh)'
      OBVIOUS
    <3>2. refresh'[r].fresh = issued + 1
      BY <3>1 DEF Rotated
    <3>3. PICK t : t = issued + 1
      OBVIOUS
    <3>4. ~Elsewhere(t)'
      BY <2>2, <3>3
    <3>5. QED
      BY <3>2, <3>3, <3>4 DEF Elsewhere
  <2>5. \A c \in Callbacks : Received(c)' => ~Elsewhere(callback[c].token)'
    <3>1. SUFFICES ASSUME NEW c \in Callbacks, Received(c)'
                   PROVE  ~Elsewhere(callback[c].token)'
      OBVIOUS
    <3>2. PICK t : t = callback[c].token
      OBVIOUS
    <3>3. ~Elsewhere(t)'
      BY <1>1, <2>1, <3>1, <3>2 DEF LeaseInv, Private, Received
    <3>4. QED
      BY <1>1, <3>2, <3>3 DEF Elsewhere
  <2>6. \A q \in Refreshers \ {r} : Rotated(q)' => Rotated(q) /\ refresh[q].fresh <= issued
    BY <1>1 DEF LeaseInv, Known, Rotated
  <2>7. \A c \in Callbacks : Received(c)' => Received(c) /\ callback[c].token <= issued
    BY <1>1 DEF LeaseInv, Known, Received
  <2>8. /\ \A q, p \in Refreshers :
               Rotated(q)' /\ Rotated(p)' /\ refresh'[q].fresh = refresh'[p].fresh => q = p
        /\ \A q \in Refreshers, c \in Callbacks :
               Rotated(q)' /\ Received(c)' => refresh'[q].fresh # callback'[c].token
    BY <1>1, <2>4, <2>6, <2>7 DEF LeaseInv, Private
  <2>9. QED
    BY <1>1, <2>3, <2>4, <2>5, <2>7, <2>8 DEF LeaseInv, Private
<1>8. Rejections'
  BY <1>1, <1>2 DEF LeaseInv, Rejections, Known, Leased
<1>9. QED
  BY <1>4, <1>5, <1>6, <1>7, <1>8 DEF LeaseInv

\* Every step of an instance keeps LeaseInv.
LEMMA RefreshStepLease ==
    ASSUME TypeOK, LeaseInv, NEW r \in Refreshers, RefreshStep(r)
    PROVE  LeaseInv'
<1> USE DEF oauth, hub, store
<1>0. /\ refresh \in [Refreshers -> Refresh] /\ refresh[r] \in Refresh
      /\ refresh[r].invalid \in BOOLEAN
  BY DEF TypeOK, Refresh
<1>1. ASSUME Start(r) PROVE LeaseInv'
  <2>1. OnlyRefresh(r) /\ Drops(r)
    BY <1>0, <1>1 DEF Start, Goto, OnlyRefresh, Drops, Refresh
  <2>2. Rewrites(r) /\ Issues
    BY <1>1 DEF Start, Rewrites, Issues
  <2>3. QED
    BY <2>1, <2>2, Ending
<1>2. ASSUME Acquire(r) PROVE LeaseInv'
  <2>1. CASE Finish(r) \/ InProgress(r)
    <3>1. OnlyRefresh(r) /\ Drops(r)
      BY <1>2, <2>1, RefreshFacts DEF Acquire, OnlyRefresh, Drops
    <3>2. Rewrites(r) /\ Issues
      BY <1>2 DEF Acquire, Rewrites, Issues
    <3>3. QED
      BY <3>1, <3>2, Ending
  <2>2. CASE refresh' = [refresh EXCEPT ![r].phase = "lock", ![r].now = clock,
                                        ![r].seen = conn, ![r].at = gen]
    <3>1. OnlyRefresh(r)
      BY <1>0, <1>2, <2>2 DEF Acquire, OnlyRefresh
    <3>2. /\ refresh'[r].phase = "lock"
          /\ refresh'[r].seen = conn /\ refresh'[r].at = gen
      BY <1>0, <2>2 DEF Refresh
    <3>3. QED
      BY <1>2, <3>1, <3>2, Reading DEF Acquire
  <2>3. QED
    BY <1>2, <2>1, <2>2 DEF Acquire
<1>3. ASSUME Lock(r) PROVE LeaseInv'
  <2> DEFINE d == [refresh[r].seen EXCEPT !.status = "refreshing", !.lock = gen + 1,
                                          !.until = refresh[r].now + Ttl]
  <2>1. refresh[r].at = gen => d.token = conn.token /\ d.lock = gen + 1
    <3>1. refresh[r].seen \in Connection
      BY <1>0 DEF Refresh
    <3>2. d.token = refresh[r].seen.token /\ d.lock = gen + 1
      BY <3>1 DEF Connection
    <3>3. QED
      BY <1>3, <3>2 DEF Lock, LeaseInv, Reads
  <2> HIDE DEF d
  <2>2. CASE /\ Written(refresh[r].at, d)
             /\ refresh' = [refresh EXCEPT ![r].phase = "exchange",
                                           ![r].at = gen + 1,
                                           ![r].lock = gen + 1,
                                           ![r].token = d.token]
    <3>1. OnlyRefresh(r)
      BY <1>0, <1>3, <2>2 DEF Lock, OnlyRefresh
    <3>2. /\ refresh'[r].phase = "exchange" /\ refresh'[r].token = d.token
          /\ refresh'[r].at = gen + 1 /\ refresh'[r].lock = gen + 1
      BY <1>0, <2>2 DEF Refresh
    <3>3. gen' = gen + 1 /\ conn'.token = conn.token /\ conn'.lock = gen + 1
      BY <2>1, <2>2 DEF Written
    <3>4. d.token = conn.token
      BY <2>1, <2>2 DEF Written
    <3>5. QED
      BY <1>3, <3>1, <3>2, <3>3, <3>4, Taking DEF Lock
  <2>3. CASE Finish(r) \/ InProgress(r)
    <3>1. OnlyRefresh(r) /\ Drops(r)
      BY <1>3, <2>3, RefreshFacts DEF Lock, OnlyRefresh, Drops
    <3>2. Written(refresh[r].at, d) \/ UNCHANGED store
      BY <1>3 DEF Lock, Refused, Unavailable, d
    <3>3. Rewrites(r) /\ Issues
      BY <1>3, <2>1, <3>2 DEF Lock, Rewrites, Issues, Written
    <3>4. QED
      BY <3>1, <3>3, Ending
  <2>4. QED
    BY <1>3, <2>2, <2>3 DEF Lock, d
<1>4. ASSUME Exchange(r) PROVE LeaseInv'
  <2>1. UNCHANGED store /\ refresh[r].phase = "exchange" /\ Issues
    BY <1>4 DEF Exchange, Issue, Issues
  <2>2. CASE /\ Issue({refresh[r].token})
             /\ refresh' = [refresh EXCEPT ![r].phase = "complete",
                                           ![r].fresh = issued + 1]
    <3>1. OnlyRefresh(r)
      BY <1>0, <1>4, <2>2 DEF Exchange, OnlyRefresh
    <3>2. /\ refresh'[r].phase = "complete" /\ refresh'[r].fresh = issued + 1
          /\ refresh'[r].token = refresh[r].token /\ refresh'[r].at = refresh[r].at
          /\ refresh'[r].lock = refresh[r].lock
      BY <1>0, <2>2 DEF Refresh
    <3>3. issued' = issued + 1 /\ valid' \subseteq valid \cup {issued + 1}
      BY <2>2 DEF Issue
    <3>4. QED
      BY <2>1, <3>1, <3>2, <3>3, Answering
  <2>3. CASE /\ UNCHANGED hub
             /\ refresh' = [refresh EXCEPT ![r].phase = "complete",
                                           ![r].fresh = refresh[r].token]
    <3>1. OnlyRefresh(r)
      BY <1>0, <1>4, <2>3 DEF Exchange, OnlyRefresh
    <3>2. /\ refresh'[r].phase = "complete" /\ refresh'[r].fresh = refresh[r].token
          /\ refresh'[r].token = refresh[r].token /\ refresh'[r].at = refresh[r].at
          /\ refresh'[r].lock = refresh[r].lock
      BY <1>0, <2>3 DEF Refresh
    <3>3. QED
      BY <2>1, <2>3, <3>1, <3>2, Answering
  <2>4. CASE \/ refresh[r].token \notin valid /\ Failing(r, TRUE) /\ UNCHANGED hub
             \/ Failing(r, FALSE)
    <3>1. OnlyRefresh(r)
      BY <1>4, <2>4, RefreshFacts DEF Exchange, OnlyRefresh
    <3>2. Fails(r)
      BY <2>1, <2>4, RefreshFacts DEF Fails, Leased
    <3>3. QED
      BY <2>1, <3>1, <3>2, Ending DEF Rewrites
  <2>5. QED
    BY <1>4, <2>2, <2>3, <2>4 DEF Exchange
<1>5. ASSUME Complete(r) PROVE LeaseInv'
  <2>1. refresh[r].phase = "complete" /\ UNCHANGED <<store, hub>>
    BY <1>5 DEF Complete
  <2>2. CASE /\ Holds(r)
             /\ refresh' = [refresh EXCEPT ![r].phase = "store", ![r].seen = conn,
                                           ![r].at = gen]
    <3>1. OnlyRefresh(r)
      BY <1>0, <1>5, <2>2 DEF Complete, OnlyRefresh
    <3>2. /\ refresh'[r].phase = "store" /\ refresh'[r].seen = conn
          /\ refresh'[r].at = gen /\ refresh[r].at = gen
          /\ refresh'[r].token = refresh[r].token
          /\ refresh'[r].lock = refresh[r].lock
          /\ refresh'[r].fresh = refresh[r].fresh
          /\ refresh'[r].invalid = refresh[r].invalid
      BY <1>0, <2>2 DEF Refresh, Holds
    <3>3. QED
      BY <2>1, <3>1, <3>2, Reading
  <2>3. CASE Failing(r, FALSE)
    <3>1. OnlyRefresh(r) /\ Fails(r)
      BY <1>5, <2>1, <2>3, RefreshFacts DEF Complete, OnlyRefresh, Fails, Leased
    <3>2. QED
      BY <2>1, <3>1, Ending DEF Rewrites, Issues
  <2>4. QED
    BY <1>5, <2>2, <2>3 DEF Complete
<1>6. ASSUME Store(r) PROVE LeaseInv'
  <2> DEFINE d == Unlocked("active", refresh[r].fresh)
  <2>1. refresh[r].phase = "store" /\ UNCHANGED hub
    BY <1>6 DEF Store
  <2>2. Written(refresh[r].at, d) \/ UNCHANGED store
    BY <1>6 DEF Store, Refused, Unavailable
  <2>3. d.token = refresh[r].fresh
    BY DEF Unlocked
  <2>4. Rewrites(r)
    <3>1. refresh[r].at = gen => conn.token = refresh[r].token
      BY <2>1 DEF LeaseInv, Holders, Leased
    <3>2. QED
      BY <2>1, <2>2, <2>3, <3>1 DEF Rewrites, Written, Rotated
  <2>5. OnlyRefresh(r) /\ (Drops(r) \/ Fails(r))
    BY <1>6, <2>1, RefreshFacts DEF Store, OnlyRefresh, Drops, Fails, Leased
  <2>6. QED
    BY <2>1, <2>4, <2>5, Ending DEF Issues
<1>7. ASSUME Fail(r) PROVE LeaseInv'
  <2>1. refresh[r].phase = "fail" /\ UNCHANGED <<store, hub>>
    BY <1>7 DEF Fail
  <2>2. CASE /\ Holds(r)
             /\ refresh' = [refresh EXCEPT ![r].phase = "unlock", ![r].seen = conn,
                                           ![r].at = gen]
    <3>1. OnlyRefresh(r)
      BY <1>0, <1>7, <2>2 DEF Fail, OnlyRefresh
    <3>2. /\ refresh'[r].phase = "unlock" /\ refresh'[r].seen = conn
          /\ refresh'[r].at = gen /\ refresh[r].at = gen
          /\ refresh'[r].token = refresh[r].token
          /\ refresh'[r].lock = refresh[r].lock
          /\ refresh'[r].fresh = refresh[r].fresh
          /\ refresh'[r].invalid = refresh[r].invalid
      BY <1>0, <2>2 DEF Refresh, Holds
    <3>3. QED
      BY <2>1, <3>1, <3>2, Reading
  <2>3. CASE Finish(r)
    <3>1. OnlyRefresh(r) /\ Drops(r)
      BY <1>7, <2>3, RefreshFacts DEF Fail, OnlyRefresh, Drops
    <3>2. QED
      BY <2>1, <3>1, Ending DEF Rewrites, Issues
  <2>4. QED
    BY <1>7, <2>2, <2>3 DEF Fail
<1>8. ASSUME Unlock(r) PROVE LeaseInv'
  <2> DEFINE st == IF refresh[r].invalid THEN "reauthorization_required" ELSE "active"
             d  == Unlocked(st, refresh[r].seen.token)
  <2>1. refresh[r].phase = "unlock" /\ UNCHANGED hub /\ Finish(r)
    BY <1>8 DEF Unlock
  <2>2. d.token = refresh[r].seen.token
    BY DEF Unlocked
  <2> HIDE DEF d
  <2>3. Written(refresh[r].at, d) \/ UNCHANGED store
    BY <1>8 DEF Unlock, Refused, Unavailable, d
  <2>4. Rewrites(r)
    BY <2>1, <2>2, <2>3 DEF Rewrites, Written, LeaseInv, Reads
  <2>5. OnlyRefresh(r) /\ Drops(r)
    BY <1>8, <2>1, RefreshFacts DEF Unlock, OnlyRefresh, Drops
  <2>6. QED
    BY <2>1, <2>4, <2>5, Ending DEF Issues
<1>9. ASSUME Crash(r) PROVE LeaseInv'
  <2>1. OnlyRefresh(r) /\ Drops(r)
    BY <1>9, RefreshFacts DEF Crash, OnlyRefresh, Drops
  <2>2. QED
    BY <1>9, <2>1, Ending DEF Crash, Rewrites, Issues
<1>10. QED
  BY <1>1, <1>2, <1>3, <1>4, <1>5, <1>6, <1>7, <1>8, <1>9 DEF RefreshStep

-----------------------------------------------------------------------------
(* The lease: everybody else's steps.                                      *)

\* A caller of update_account writes the document it read.
LEMMA AccountStepLease ==
    ASSUME TypeOK, LeaseInv, NEW a \in Accounts, AccountStep(a)
    PROVE  LeaseInv'
<1> USE Numbers
<1>0. account \in [Accounts -> AccountCall]
  BY DEF TypeOK
<1>1. /\ refresh' = refresh /\ callback' = callback
      /\ valid' = valid /\ issued' = issued
  BY DEF AccountStep, ReadAccount, WriteAccount, oauth, hub
<1>2. /\ \A b \in Accounts \ {a} : account'[b] = account[b]
      /\ account'[a].phase = "write" =>
             /\ account'[a].seen = conn /\ account'[a].at = gen /\ UNCHANGED store
  BY <1>0 DEF AccountStep, ReadAccount, WriteAccount, NoAccount
<1>3. UNCHANGED store \/ (gen' = gen + 1 /\ conn' = conn)
  <2>1. CASE ReadAccount(a)
    BY <2>1 DEF ReadAccount
  <2>2. CASE WriteAccount(a)
    BY <2>2 DEF WriteAccount, Written, Refused, Unavailable, LeaseInv, Reads
  <2>3. QED
    BY <2>1, <2>2 DEF AccountStep
<1>4. conn' = conn
  BY <1>3 DEF store
<1>5. Reads'
  BY <1>1, <1>2, <1>3 DEF LeaseInv, Reads, store
<1>6. Holders'
  BY <1>1, <1>3 DEF LeaseInv, Holders, Leased, store
<1>7. Known' /\ Private' /\ Rejections'
  BY <1>1, <1>4 DEF LeaseInv, Known, Private, Rejections, Leased, Rotated, Received,
                    Elsewhere
<1>8. QED
  BY <1>5, <1>6, <1>7 DEF LeaseInv

\* A callback that neither has nor gets a token keeps LeaseInv, and so does one
\* that drops its token.
LEMMA CallbackQuiet ==
    ASSUME TypeOK, LeaseInv, NEW c \in Callbacks, OnlyCallback(c),
           callback'[c].phase \notin {"save", "write"}, UNCHANGED <<store, hub>>
    PROVE  LeaseInv'
<1>1. /\ gen' = gen /\ conn' = conn /\ valid' = valid /\ issued' = issued
      /\ account' = account /\ refresh' = refresh
  BY DEF store, hub, OnlyCallback
<1>2. \A d \in Callbacks : Received(d)' => Received(d) /\ callback'[d] = callback[d]
  BY DEF OnlyCallback, Received
<1>3. Reads'
  BY <1>1 DEF LeaseInv, Reads, OnlyCallback
<1>4. Holders' /\ Rejections'
  BY <1>1 DEF LeaseInv, Holders, Rejections, Leased
<1>5. Known'
  BY <1>1, <1>2 DEF LeaseInv, Known, Leased
<1>6. Private'
  BY <1>1, <1>2 DEF LeaseInv, Private, Rotated, Elsewhere, Leased
<1>7. QED
  BY <1>3, <1>4, <1>5, <1>6 DEF LeaseInv

\* Every step of a callback keeps LeaseInv.
LEMMA CallbackStepLease ==
    ASSUME TypeOK, LeaseInv, NEW c \in Callbacks, CallbackStep(c)
    PROVE  LeaseInv'
<1> USE Numbers
<1>0. /\ callback \in [Callbacks -> CallbackCall] /\ callback[c] \in CallbackCall
  BY DEF TypeOK
<1>1. ASSUME NEW s \in States, NEW code \in BOOLEAN, CallBack(c, s, code)
      PROVE  LeaseInv'
  <2>1. callback'[c].phase = "read"
    BY <1>0, <1>1, Values DEF CallBack, CallbackCall
  <2>2. OnlyCallback(c)
    BY <1>0, <1>1 DEF CallBack, OnlyCallback
  <2>3. QED
    BY <1>1, <2>1, <2>2, CallbackQuiet DEF CallBack
<1>2. ASSUME ReadPending(c) \/ DeletePending(c) PROVE LeaseInv'
  <2>1. CallbackEnd(c) \/ \E ph \in {"delete", "exchange"} : CallbackGoto(c, ph)
    BY <1>2 DEF ReadPending, DeletePending
  <2>2. UNCHANGED <<store, hub, account, refresh>>
    BY <1>2 DEF ReadPending, DeletePending
  <2>3. OnlyCallback(c) /\ callback'[c].phase \notin {"save", "write"}
    BY <2>1, <2>2, CallbackEnds, CallbackMoves DEF OnlyCallback
  <2>4. QED
    BY <2>2, <2>3, CallbackQuiet
<1>3. ASSUME Grant(c) PROVE LeaseInv'
  <2>1. CASE CallbackEnd(c) /\ UNCHANGED <<hub, granted>>
    <3>1. OnlyCallback(c) /\ callback'[c].phase \notin {"save", "write"}
      BY <1>3, <2>1, CallbackEnds DEF OnlyCallback, Grant
    <3>2. QED
      BY <1>3, <2>1, <3>1, CallbackQuiet DEF Grant
  <2>2. CASE /\ Issue({})
             /\ callback' = [callback EXCEPT ![c].phase = "save",
                                             ![c].token = issued + 1]
    <3>1. /\ gen' = gen /\ conn' = conn /\ account' = account /\ refresh' = refresh
          /\ issued' = issued + 1 /\ valid' = valid \cup {issued + 1}
      BY <1>3, <2>2 DEF Grant, Issue, store
    <3>2. /\ callback'[c].phase = "save" /\ callback'[c].token = issued + 1
          /\ \A d \in Callbacks \ {c} : callback'[d] = callback[d]
      BY <1>0, <2>2 DEF CallbackCall
    <3>3. Reads'
      BY <3>1, <3>2 DEF LeaseInv, Reads
    <3>4. Holders'
      BY <3>1 DEF LeaseInv, Holders, Leased
    <3>5. Known'
      BY <3>1, <3>2 DEF LeaseInv, Known, Leased, Received
    <3>6. Private'
      <4>1. /\ \A q \in Refreshers : Rotated(q) => refresh[q].fresh <= issued
            /\ \A d \in Callbacks : Received(d) => callback[d].token <= issued
        BY DEF LeaseInv, Known, Rotated
      <4>2. /\ conn.token # issued + 1
            /\ \A q \in Refreshers : Leased(q) => refresh[q].token # issued + 1
        BY DEF LeaseInv, Known
      <4>3. QED
        BY <3>1, <3>2, <4>1, <4>2
           DEF LeaseInv, Private, Rotated, Received, Elsewhere, Leased
    <3>7. Rejections'
      BY <3>1 DEF LeaseInv, Rejections, Known, Leased
    <3>8. QED
      BY <3>3, <3>4, <3>5, <3>6, <3>7 DEF LeaseInv
  <2>3. QED
    BY <1>3, <2>1, <2>2 DEF Grant
<1>4. ASSUME ReadConnection(c) PROVE LeaseInv'
  <2>1. /\ gen' = gen /\ conn' = conn /\ account' = account /\ refresh' = refresh
        /\ issued' = issued /\ valid' = valid
    BY <1>4 DEF ReadConnection, store, hub
  <2>2. /\ callback'[c].phase = "write" /\ callback'[c].at = gen
        /\ callback[c].phase = "save"
        /\ \A d \in Callbacks : callback'[d].token = callback[d].token
        /\ \A d \in Callbacks \ {c} : callback'[d] = callback[d]
    BY <1>0, <1>4 DEF ReadConnection, CallbackCall
  <2>3. \A d \in Callbacks : Received(d)' = Received(d)
    BY <2>2 DEF Received
  <2>4. Reads'
    BY <2>1, <2>2 DEF LeaseInv, Reads
  <2>5. Holders' /\ Rejections'
    BY <2>1 DEF LeaseInv, Holders, Rejections, Leased
  <2>6. Known'
    BY <2>1, <2>2, <2>3 DEF LeaseInv, Known, Leased
  <2>7. Private'
    BY <2>1, <2>2, <2>3 DEF LeaseInv, Private, Rotated, Elsewhere, Leased
  <2>8. QED
    BY <2>4, <2>5, <2>6, <2>7 DEF LeaseInv
<1>5. ASSUME SaveConnection(c) PROVE LeaseInv'
  <2> DEFINE d == Unlocked("active", callback[c].token)
  <2>1. /\ callback[c].phase = "write" /\ account' = account /\ refresh' = refresh
        /\ issued' = issued /\ valid' = valid
    BY <1>5 DEF SaveConnection, hub
  <2>2. OnlyCallback(c) /\ callback'[c].phase = "idle"
    BY <1>5, CallbackEnds DEF SaveConnection, OnlyCallback
  <2>3. d.token = callback[c].token
    BY DEF Unlocked
  <2> HIDE DEF d
  <2>4. CASE UNCHANGED store
    BY <2>1, <2>2, <2>4, CallbackQuiet DEF hub
  <2>5. CASE gen' = gen + 1 /\ conn' = d
    <3>1. \A e \in Callbacks : Received(e)' => /\ e # c /\ Received(e)
                                               /\ callback'[e] = callback[e]
      BY <2>2 DEF Received, OnlyCallback
    <3>2. Received(c)
      BY <2>1 DEF Received
    <3>3. Reads'
      BY <2>1, <2>2, <2>5 DEF LeaseInv, Reads, OnlyCallback
    <3>4. Holders' /\ Rejections'
      BY <2>1, <2>5 DEF LeaseInv, Holders, Rejections, Leased
    <3>5. Known'
      BY <2>1, <2>3, <2>5, <3>1, <3>2 DEF LeaseInv, Known, Leased
    <3>6. Private'
      BY <2>1, <2>3, <2>5, <3>1, <3>2
         DEF LeaseInv, Private, Rotated, Elsewhere, Leased
    <3>7. QED
      BY <3>3, <3>4, <3>5, <3>6 DEF LeaseInv
  <2>6. QED
    BY <1>5, <2>4, <2>5 DEF SaveConnection, Written, Refused, Unavailable, d
<1>6. QED
  BY <1>1, <1>2, <1>3, <1>4, <1>5 DEF CallbackStep

\* Steps that touch none of the variables of LeaseInv keep it.
LEMMA LeaseUnchanged ==
    ASSUME LeaseInv, UNCHANGED <<store, hub, refresh, account, callback>>
    PROVE  LeaseInv'
<1>1. /\ gen' = gen /\ conn' = conn /\ valid' = valid /\ issued' = issued
      /\ refresh' = refresh /\ account' = account /\ callback' = callback
  BY DEF store, hub
<1>2. QED
  BY <1>1 DEF LeaseInv, Reads, Holders, Known, Private, Rejections, Leased, Rotated,
              Received, Elsewhere

\* Every step keeps LeaseInv.
LEMMA LeaseStep ==
    ASSUME TypeOK, LeaseInv, [Next]_vars
    PROVE  LeaseInv'
<1>1. Tick => UNCHANGED <<store, hub, refresh, account, callback>>
  BY DEF Tick, oauth
<1>2. \A s \in States :
          Connect(s) => UNCHANGED <<store, hub, refresh, account, callback>>
  BY DEF Connect
<1>3. UNCHANGED vars => UNCHANGED <<store, hub, refresh, account, callback>>
  BY DEF vars, store, hub
<1>4. QED
  BY <1>1, <1>2, <1>3, LeaseUnchanged, RefreshStepLease, AccountStepLease,
     CallbackStepLease DEF Next

\* LeaseInv holds at the start, when nobody has a token.
LEMMA LeaseInit == Init => LeaseInv
<1> SUFFICES ASSUME Init PROVE LeaseInv
  OBVIOUS
<1>1. /\ \A r \in Refreshers : refresh[r].phase = "idle"
      /\ \A a \in Accounts : account[a].phase = "idle"
      /\ \A c \in Callbacks : callback[c].phase = "idle"
  BY DEF Init, NoRefresh, NoAccount, NoCallback
<1>2. conn.token = 0 /\ issued = 0 /\ valid = {}
  BY DEF Init, NoConnection, Unlocked
<1>3. QED
  BY <1>1, <1>2 DEF LeaseInv, Reads, Holders, Known, Private, Rejections, Leased,
                    Rotated, Received

-----------------------------------------------------------------------------
(* What the lease is for.                                                  *)

\* A connection is disabled only by an instance whose lease is still the last
\* write, and that instance was refused the very token the document holds.
LEMMA DisablingStep ==
    ASSUME TypeOK, LeaseInv, [Next]_vars,
           conn'.status = "reauthorization_required", conn' # conn
    PROVE  conn.token \notin valid
<1>0. \A t : Unlocked("active", t).status = "active"
  BY DEF Unlocked
<1>1. ASSUME NEW r \in Refreshers, RefreshStep(r) PROVE conn.token \notin valid
  <2>1. CASE Unlock(r)
    <3>1. refresh[r].phase = "unlock" /\ refresh[r].at = gen /\ refresh[r].invalid
      <4>1. refresh[r].phase = "unlock" /\ refresh[r].at = gen
        BY <2>1 DEF Unlock, Written, Refused, Unavailable, store
      <4>2. ~refresh[r].invalid => conn'.status = "active"
        BY <2>1 DEF Unlock, Written, Refused, Unavailable, store, Unlocked
      <4>3. QED
        BY <4>1, <4>2
    <3>2. conn.token = refresh[r].token
      BY <3>1 DEF LeaseInv, Holders, Leased
    <3>3. QED
      BY <3>1, <3>2 DEF LeaseInv, Rejections
  <2>2. CASE Store(r)
    BY <1>0, <2>2 DEF Store, Written, Refused, Unavailable, store
  <2>3. CASE Lock(r)
    <3>1. refresh[r].seen \in Connection
      BY DEF TypeOK, Refresh
    <3>2. QED
      BY <2>3, <3>1 DEF Lock, Written, Refused, Unavailable, store, Connection
  <2>4. CASE ~(Unlock(r) \/ Store(r) \/ Lock(r))
    BY <1>1, <2>4 DEF RefreshStep, Start, Acquire, Exchange, Complete, Fail, Crash, store
  <2>5. QED
    BY <2>1, <2>2, <2>3, <2>4
<1>2. ASSUME NEW a \in Accounts, AccountStep(a) PROVE conn' = conn
  BY <1>2 DEF AccountStep, ReadAccount, WriteAccount, Written, Refused, Unavailable,
              store, LeaseInv, Reads
<1>3. ASSUME NEW c \in Callbacks, CallbackStep(c)
      PROVE  conn' = conn \/ conn'.status = "active"
  <2>1. CASE SaveConnection(c)
    BY <1>0, <2>1 DEF SaveConnection, Written, Refused, Unavailable, store
  <2>2. CASE ~SaveConnection(c)
    BY <1>3, <2>2 DEF CallbackStep, CallBack, ReadPending, DeletePending, Grant,
                      ReadConnection, store
  <2>3. QED
    BY <2>1, <2>2
<1>4. Tick \/ (\E s \in States : Connect(s)) \/ UNCHANGED vars => conn' = conn
  BY DEF Tick, Connect, vars, store
<1>5. QED
  BY <1>1, <1>2, <1>3, <1>4 DEF Next

\* LeaseInv is an invariant.
LEMMA LeaseInvariance == Spec => [](TypeOK /\ LeaseInv)
BY TypeInit, TypeStep, LeaseInit, LeaseStep, PTL DEF Spec

\* The connection is marked for reauthorization only when HubSpot would reject
\* the token in it, whatever fails and however long a refresh takes.
THEOREM DisablingIsJustified == Spec => DisabledOnlyIfRejected
<1>1. TypeOK /\ LeaseInv /\ [Next]_vars =>
          [conn'.status = "reauthorization_required" /\ conn' # conn =>
               conn.token \notin valid]_vars
  BY DisablingStep
<1>2. QED
  BY <1>1, LeaseInvariance, PTL DEF Spec, DisabledOnlyIfRejected

-----------------------------------------------------------------------------
(* A single-use token is at HubSpot once while the lease on it runs.        *)

\* The document is left as it is, or written with a token that nobody
\* exchanges under a lease that still runs; nobody enters an exchange or reads
\* the clock for one.
LEMMA UseQuiet ==
    ASSUME TypeOK, LeaseInv, UseInv, clock' = clock,
           \A q \in Refreshers : refresh'[q].phase \in {"lock", "exchange"} =>
                                     refresh'[q] = refresh[q],
           \/ UNCHANGED store
           \/ /\ gen' = gen + 1
              /\ \A q \in Refreshers : refresh'[q].phase = "exchange" =>
                     \/ conn' = conn
                     \/ conn'.token # refresh[q].token
                     \/ Overdue(q, clock)
    PROVE  UseInv'
<1> USE DEF store
<1>1. Clocks'
  <2>1. ASSUME NEW r \in Refreshers, refresh'[r].phase \in {"lock", "exchange"}
        PROVE  refresh'[r].now <= clock'
    BY <2>1 DEF UseInv, Clocks
  <2>2. ASSUME NEW r \in Refreshers, refresh'[r].phase = "lock", refresh'[r].at = gen',
               NEW q \in Refreshers, refresh'[q].phase = "exchange",
               refresh'[q].token = conn'.token
        PROVE  Overdue(q, refresh[r].now)
    <3>1. refresh'[r] = refresh[r] /\ refresh'[q] = refresh[q]
      BY <2>2
    <3>2. gen \in Nat /\ refresh[r].at <= gen
      BY <2>2, <3>1 DEF TypeOK, LeaseInv, Reads
    <3>3. UNCHANGED store
      BY <2>2, <3>1, <3>2
    <3>4. QED
      BY <2>2, <3>1, <3>3 DEF UseInv, Clocks
  <2>3. \A r, q \in Refreshers :
           refresh'[r].phase = "lock" /\ refresh'[q].phase = "exchange" =>
               refresh'[r] = refresh[r] /\ refresh'[q] = refresh[q]
    OBVIOUS
  <2>4. QED
    BY <2>1, <2>2, <2>3 DEF Clocks, Overdue
<1>2. InUse'
  <2>1. SUFFICES ASSUME NEW q \in Refreshers, refresh'[q].phase = "exchange",
                        conn'.token = refresh'[q].token
                 PROVE  Carried(q)' \/ Overdue(q, clock)'
    BY DEF InUse
  <2>2. refresh'[q] = refresh[q]
    BY <2>1
  <2>3. CASE conn' = conn
    BY <2>1, <2>2, <2>3 DEF UseInv, InUse, Carried, Overdue
  <2>4. CASE Overdue(q, clock)
    BY <2>2, <2>4 DEF Overdue
  <2>5. QED
    BY <2>1, <2>2, <2>3, <2>4
<1>3. ExclusiveUse'
  BY DEF UseInv, ExclusiveUse, OutlivedBy
<1>4. QED
  BY <1>1, <1>2, <1>3 DEF UseInv

\* An instance that is not in an exchange and whose write would succeed holds
\* a document whose token nobody exchanges under a running lease.
LEMMA HolderAlone ==
    ASSUME TypeOK, LeaseInv, UseInv, NEW r \in Refreshers,
           refresh[r].phase \in {"store", "unlock"}, refresh[r].at = gen,
           NEW q \in Refreshers, refresh[q].phase = "exchange"
    PROVE  /\ refresh[q].token = conn.token => Overdue(q, clock)
           /\ refresh[r].phase = "store" /\ refresh[q].token = refresh[r].fresh =>
                  Overdue(q, clock)
<1>1. Leased(r) /\ Leased(q) /\ r # q
  BY DEF Leased
<1>2. conn.lock = refresh[r].lock /\ conn.token = refresh[r].token
  BY <1>1 DEF LeaseInv, Holders
<1>3. refresh[q].token = conn.token => Overdue(q, clock)
  BY <1>1, <1>2 DEF LeaseInv, Holders, UseInv, InUse, Carried
<1>4. ASSUME refresh[r].phase = "store", refresh[q].token = refresh[r].fresh
      PROVE  Overdue(q, clock)
  <2>1. CASE refresh[r].fresh = refresh[r].token
    BY <1>2, <1>3, <1>4, <2>1
  <2>2. CASE refresh[r].fresh # refresh[r].token
    BY <1>1, <1>4, <2>2 DEF LeaseInv, Private, Rotated, Elsewhere
  <2>3. QED
    BY <2>1, <2>2
<1>5. QED
  BY <1>3, <1>4

\* An instance whose lease would be written read its clock when every exchange
\* of the document's token had outlived its lease.
LEMMA TakerAlone ==
    ASSUME TypeOK, LeaseInv, UseInv, NEW r \in Refreshers,
           refresh[r].phase = "lock", refresh[r].at = gen,
           NEW q \in Refreshers, refresh[q].phase = "exchange",
           refresh[q].token = conn.token
    PROVE  Overdue(q, refresh[r].now) /\ Overdue(q, clock)
<1>1. /\ clock \in Int /\ Ttl \in Int /\ refresh[q].now \in Int /\ refresh[r].now \in Int
  BY ConnectionAssumption DEF TypeOK, Refresh
<1>2. Overdue(q, refresh[r].now) /\ refresh[r].now <= clock
  BY DEF UseInv, Clocks
<1>3. QED
  BY <1>1, <1>2 DEF Overdue

\* Every step of an instance keeps UseInv.
LEMMA RefreshStepUse ==
    ASSUME TypeOK, LeaseInv, UseInv, NEW r \in Refreshers, RefreshStep(r)
    PROVE  UseInv'
<1>0. /\ refresh \in [Refreshers -> Refresh] /\ refresh[r] \in Refresh
      /\ clock \in Int /\ conn \in Connection /\ gen \in Nat
      /\ \A q \in Refreshers : refresh[q].now \in Int
      /\ Ttl \in Nat
  BY ConnectionAssumption DEF TypeOK, Refresh
<1>1. clock' = clock
  BY DEF RefreshStep, Start, Acquire, Lock, Exchange, Complete, Store, Fail, Unlock, Crash
<1>2. \A q \in Refreshers \ {r} : refresh'[q] = refresh[q]
  BY <1>0, RefreshFacts
     DEF RefreshStep, Start, Acquire, Lock, Exchange, Complete, Store, Fail, Unlock, Crash,
         Goto
<1>3. CASE Acquire(r) /\ refresh'[r].phase = "lock"
  <2>1. /\ ~Locked(conn) /\ UNCHANGED store
        /\ refresh' = [refresh EXCEPT ![r].phase = "lock", ![r].now = clock,
                                      ![r].seen = conn, ![r].at = gen]
    BY <1>3, RefreshFacts DEF Acquire, Drops
  <2>2. /\ refresh'[r].phase = "lock" /\ refresh'[r].now = clock
        /\ refresh'[r].at = gen
    BY <1>0, <2>1 DEF Refresh
  <2>3. ASSUME NEW q \in Refreshers, refresh[q].phase = "exchange",
               refresh[q].token = conn.token
        PROVE  Overdue(q, clock)
    BY <1>0, <2>1, <2>3 DEF Locked, Connection, UseInv, InUse, Carried, Overdue
  <2>4. Clocks'
    <3>1. ASSUME NEW s \in Refreshers, refresh'[s].phase \in {"lock", "exchange"}
          PROVE  refresh'[s].now <= clock
      BY <1>0, <1>2, <2>2, <3>1 DEF UseInv, Clocks
    <3>2. ASSUME NEW s \in Refreshers, refresh'[s].phase = "lock", refresh'[s].at = gen,
                 NEW q \in Refreshers, refresh'[q].phase = "exchange",
                 refresh'[q].token = conn.token
          PROVE  refresh'[q].now + Ttl <= refresh'[s].now
      <4>1. q # r /\ refresh'[q] = refresh[q]
        BY <1>2, <2>2, <3>2
      <4>2. CASE s = r
        BY <2>2, <2>3, <3>2, <4>1, <4>2 DEF Overdue
      <4>3. CASE s # r
        BY <1>2, <3>2, <4>1, <4>3 DEF UseInv, Clocks, Overdue
      <4>4. QED
        BY <4>2, <4>3
    <3>3. QED
      BY <1>1, <2>1, <3>1, <3>2 DEF Clocks, Overdue, store
  <2>5. InUse'
    BY <1>1, <1>2, <2>1, <2>2 DEF UseInv, InUse, Carried, Overdue, store
  <2>6. ExclusiveUse'
    BY <1>2, <2>2 DEF UseInv, ExclusiveUse, OutlivedBy
  <2>7. QED
    BY <2>4, <2>5, <2>6 DEF UseInv
<1>4. CASE Lock(r)
  <2> DEFINE d == [refresh[r].seen EXCEPT !.status = "refreshing", !.lock = gen + 1,
                                          !.until = refresh[r].now + Ttl]
  <2>1. /\ d.status = "refreshing" /\ d.lock = gen + 1
        /\ d.until = refresh[r].now + Ttl
        /\ refresh[r].at = gen => d.token = conn.token
    <3>1. refresh[r].seen \in Connection
      BY <1>0 DEF Refresh
    <3>2. /\ d.status = "refreshing" /\ d.lock = gen + 1
          /\ d.until = refresh[r].now + Ttl /\ d.token = refresh[r].seen.token
      BY <3>1 DEF Connection
    <3>3. QED
      BY <1>4, <3>2 DEF Lock, LeaseInv, Reads
  <2> HIDE DEF d
  <2>2. CASE /\ Written(refresh[r].at, d)
             /\ refresh' = [refresh EXCEPT ![r].phase = "exchange",
                                           ![r].at = gen + 1,
                                           ![r].lock = gen + 1,
                                           ![r].token = d.token]
    <3>1. /\ refresh[r].phase = "lock" /\ refresh[r].at = gen /\ conn' = d
          /\ gen' = gen + 1 /\ d.token = conn.token
      BY <1>4, <2>1, <2>2 DEF Lock, Written
    <3>2. /\ refresh'[r].phase = "exchange" /\ refresh'[r].token = d.token
          /\ refresh'[r].lock = gen + 1 /\ refresh'[r].now = refresh[r].now
      BY <1>0, <2>2 DEF Refresh
    <3>3. \A q \in Refreshers :
             refresh[q].phase = "exchange" /\ refresh[q].token = d.token =>
                 Overdue(q, refresh[r].now) /\ Overdue(q, clock)
      BY <3>1, TakerAlone
    <3>4. Clocks'
      <4>1. \A s \in Refreshers :
               refresh'[s].phase \in {"lock", "exchange"} => refresh'[s].now <= clock
        BY <1>2, <3>1, <3>2 DEF UseInv, Clocks
      <4>2. \A s \in Refreshers : refresh'[s].phase = "lock" => refresh'[s].at # gen + 1
        BY <1>0, <1>2, <3>2 DEF TypeOK, LeaseInv, Reads
      <4>3. QED
        BY <1>1, <3>1, <4>1, <4>2 DEF Clocks
    <3>5. InUse'
      <4>1. SUFFICES ASSUME NEW q \in Refreshers, refresh'[q].phase = "exchange",
                            conn'.token = refresh'[q].token
                     PROVE  Carried(q)' \/ Overdue(q, clock)'
        BY DEF InUse
      <4>2. CASE q = r
        BY <2>1, <3>1, <3>2, <4>2 DEF Carried
      <4>3. CASE q # r
        BY <1>1, <1>2, <3>1, <3>3, <4>1, <4>3 DEF Overdue
      <4>4. QED
        BY <4>2, <4>3
    <3>6. ExclusiveUse'
      <4>1. SUFFICES ASSUME NEW s \in Refreshers, NEW q \in Refreshers, s # q,
                            refresh'[s].phase = "exchange",
                            refresh'[q].phase = "exchange",
                            refresh'[s].token = refresh'[q].token
                     PROVE  \/ refresh'[s].now + Ttl <= refresh'[q].now
                            \/ refresh'[q].now + Ttl <= refresh'[s].now
        BY DEF ExclusiveUse, OutlivedBy
      <4>2. CASE s = r
        BY <1>2, <3>2, <3>3, <4>1, <4>2 DEF Overdue
      <4>3. CASE q = r
        BY <1>2, <3>2, <3>3, <4>1, <4>3 DEF Overdue
      <4>4. CASE s # r /\ q # r
        BY <1>2, <4>1, <4>4 DEF UseInv, ExclusiveUse, OutlivedBy
      <4>5. QED
        BY <4>2, <4>3, <4>4
    <3>7. QED
      BY <3>4, <3>5, <3>6 DEF UseInv
  <2>3. CASE (Finish(r) \/ InProgress(r)) /\ (Written(refresh[r].at, d) \/ UNCHANGED store)
    <3>1. refresh'[r].phase \in {"idle", "acquire"}
      BY <2>3, RefreshFacts DEF Drops
    <3>2. \/ UNCHANGED store
          \/ /\ gen' = gen + 1
             /\ \A q \in Refreshers : refresh[q].phase = "exchange" =>
                    conn'.token # refresh[q].token \/ Overdue(q, clock)
      <4>1. CASE Written(refresh[r].at, d)
        BY <1>4, <2>1, <4>1, TakerAlone DEF Lock, Written
      <4>2. QED
        BY <2>3, <4>1
    <3>3. QED
      BY <1>1, <1>2, <3>1, <3>2, UseQuiet
  <2>4. QED
    BY <1>4, <2>2, <2>3 DEF Lock, Refused, Unavailable, d
<1>5. CASE ~Lock(r) /\ refresh'[r].phase # "lock"
  <2>1. refresh'[r].phase # "exchange"
    <3>1. /\ Finish(r) => refresh'[r].phase # "exchange"
          /\ InProgress(r) => refresh'[r].phase # "exchange"
          /\ \A b \in BOOLEAN : Failing(r, b) => refresh'[r].phase # "exchange"
      BY RefreshFacts DEF Drops
    <3>2. CASE Start(r) \/ Fail(r) \/ Unlock(r) \/ Crash(r)
      BY <1>0, <3>1, <3>2 DEF Start, Goto, Fail, Unlock, Crash, Refresh
    <3>3. CASE Acquire(r)
      <4>1. refresh' = [refresh EXCEPT ![r].phase = "lock", ![r].now = clock,
                                       ![r].seen = conn, ![r].at = gen]
                => refresh'[r].phase = "lock"
        BY <1>0 DEF Refresh
      <4>2. QED
        BY <3>1, <3>3, <4>1 DEF Acquire
    <3>4. CASE Exchange(r)
      <4>1. ASSUME NEW t,
                   refresh' = [refresh EXCEPT ![r].phase = "complete", ![r].fresh = t]
            PROVE  refresh'[r].phase = "complete"
        BY <1>0, <4>1 DEF Refresh
      <4>2. QED
        BY <3>1, <3>4, <4>1 DEF Exchange
    <3>5. CASE Complete(r) \/ Store(r)
      BY <1>0, <3>1, <3>5 DEF Complete, Store, Refresh
    <3>6. QED
      BY <1>5, <3>2, <3>3, <3>4, <3>5 DEF RefreshStep
  <2>2. \/ UNCHANGED store
        \/ /\ gen' = gen + 1
           /\ \A q \in Refreshers : refresh[q].phase = "exchange" =>
                  conn'.token # refresh[q].token \/ Overdue(q, clock)
    <3>1. CASE Store(r)
      <4>1. Unlocked("active", refresh[r].fresh).token = refresh[r].fresh
        BY DEF Unlocked
      <4>2. QED
        BY <3>1, <4>1, HolderAlone DEF Store, Written, Refused, Unavailable, store
    <3>2. CASE Unlock(r)
      <4>1. refresh[r].at = gen => refresh[r].seen.token = conn.token
        BY <3>2 DEF Unlock, LeaseInv, Reads
      <4>2. QED
        BY <3>2, <4>1, HolderAlone
           DEF Unlock, Written, Refused, Unavailable, store, Unlocked
    <3>3. CASE ~(Store(r) \/ Unlock(r))
      BY <1>5, <3>3 DEF RefreshStep, Start, Acquire, Exchange, Complete, Fail, Crash, store
    <3>4. QED
      BY <3>1, <3>2, <3>3
  <2>3. \A q \in Refreshers : refresh'[q].phase \in {"lock", "exchange"} =>
                                  refresh'[q] = refresh[q]
    BY <1>2, <1>5, <2>1
  <2>4. QED
    BY <1>1, <2>2, <2>3, UseQuiet
<1>6. CASE ~Lock(r) /\ refresh'[r].phase = "lock"
  <2>1. /\ Finish(r) => refresh'[r].phase # "lock"
        /\ InProgress(r) => refresh'[r].phase # "lock"
        /\ \A b \in BOOLEAN : Failing(r, b) => refresh'[r].phase # "lock"
    BY RefreshFacts DEF Drops
  <2>2. Acquire(r)
    <3>1. ~Start(r) /\ ~Fail(r) /\ ~Unlock(r) /\ ~Crash(r)
      BY <1>0, <1>6, <2>1 DEF Start, Goto, Fail, Unlock, Crash, Refresh
    <3>2. ~Complete(r) /\ ~Store(r)
      <4>1. refresh' = [refresh EXCEPT ![r].phase = "store", ![r].seen = conn,
                                       ![r].at = gen]
                => refresh'[r].phase = "store"
        BY <1>0 DEF Refresh
      <4>2. QED
        BY <1>6, <2>1, <4>1 DEF Complete, Store
    <3>3. ~Exchange(r)
      <4>1. ASSUME NEW t,
                   refresh' = [refresh EXCEPT ![r].phase = "complete", ![r].fresh = t]
            PROVE  refresh'[r].phase = "complete"
        BY <1>0, <4>1 DEF Refresh
      <4>2. QED
        BY <1>6, <2>1, <4>1 DEF Exchange
    <3>4. QED
      BY <1>6, <3>1, <3>2, <3>3 DEF RefreshStep
  <2>3. QED
    BY <1>3, <1>6, <2>2
<1>7. QED
  BY <1>4, <1>5, <1>6

\* Every step keeps UseInv.
LEMMA UseStep ==
    ASSUME TypeOK, LeaseInv, UseInv, [Next]_vars
    PROVE  UseInv'
<1>1. ASSUME Tick PROVE UseInv'
  <2>1. /\ clock' = clock + 1 /\ refresh' = refresh /\ conn' = conn /\ gen' = gen
        /\ clock \in Int /\ Ttl \in Nat
        /\ \A r \in Refreshers : refresh[r].now \in Int
    BY <1>1, ConnectionAssumption DEF Tick, TypeOK, store, Refresh
  <2>2. Clocks'
    BY <2>1 DEF UseInv, Clocks, Overdue
  <2>3. InUse'
    BY <2>1 DEF UseInv, InUse, Carried, Overdue
  <2>4. ExclusiveUse'
    BY <2>1 DEF UseInv, ExclusiveUse, OutlivedBy
  <2>5. QED
    BY <2>2, <2>3, <2>4 DEF UseInv
<1>2. ASSUME NEW a \in Accounts, AccountStep(a) PROVE UseInv'
  <2>1. /\ clock' = clock /\ refresh' = refresh /\ conn' = conn
        /\ UNCHANGED store \/ gen' = gen + 1
    BY <1>2 DEF AccountStep, ReadAccount, WriteAccount, Written, Refused, Unavailable,
                store, LeaseInv, Reads
  <2>2. QED
    BY <2>1, UseQuiet
<1>3. ASSUME NEW c \in Callbacks, CallbackStep(c) PROVE UseInv'
  <2>1. clock' = clock /\ refresh' = refresh
    BY <1>3 DEF CallbackStep, CallBack, ReadPending, DeletePending, Grant,
                ReadConnection, SaveConnection
  <2>2. \/ UNCHANGED store
        \/ /\ gen' = gen + 1
           /\ \A q \in Refreshers : refresh[q].phase = "exchange" =>
                  conn'.token # refresh[q].token
    <3>1. CASE SaveConnection(c)
      <4>1. ~Elsewhere(callback[c].token)
        BY <3>1 DEF SaveConnection, LeaseInv, Private, Received
      <4>2. \A q \in Refreshers : refresh[q].phase = "exchange" =>
                refresh[q].token # callback[c].token
        BY <4>1 DEF Elsewhere, Leased
      <4>3. QED
        BY <3>1, <4>2
           DEF SaveConnection, Written, Refused, Unavailable, store, Unlocked
    <3>2. CASE ~SaveConnection(c)
      BY <1>3, <3>2 DEF CallbackStep, CallBack, ReadPending, DeletePending, Grant,
                        ReadConnection, store
    <3>3. QED
      BY <3>1, <3>2
  <2>3. QED
    BY <2>1, <2>2, UseQuiet
<1>4. (\E s \in States : Connect(s)) \/ UNCHANGED vars =>
          clock' = clock /\ refresh' = refresh /\ UNCHANGED store
  BY DEF Connect, vars, store
<1>5. QED
  BY <1>1, <1>2, <1>3, <1>4, UseQuiet, RefreshStepUse DEF Next

\* While the lease on a token runs nobody else exchanges it: two instances
\* have one single-use token at HubSpot only if the exchange of one has
\* outlived its lease before the other took its own.
THEOREM TokensAreExchangedAlone == Spec => []ExclusiveUse
<1>1. Init => UseInv
  BY DEF Init, UseInv, Clocks, InUse, ExclusiveUse, NoRefresh
<1>2. TypeOK /\ LeaseInv /\ UseInv /\ [Next]_vars => UseInv'
  BY UseStep
<1>3. UseInv => ExclusiveUse
  BY DEF UseInv
<1>4. QED
  BY <1>1, <1>2, <1>3, LeaseInvariance, PTL DEF Spec
=============================================================================
