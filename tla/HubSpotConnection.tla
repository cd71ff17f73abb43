-------------------------- MODULE HubSpotConnection --------------------------
(***************************************************************************)
(* The HubSpot connection of the Gateway: the refresh token kept in one    *)
(* object of a bucket (app/adapters/hubspot/token_store.py), the refresh   *)
(* of access tokens by every instance (mcp_client.py), and the OAuth       *)
(* callback that replaces the connection (oauth.py, app/main.py).          *)
(*                                                                         *)
(* HubSpot's refresh tokens are single-use: a refresh may answer with a    *)
(* new one, and the old one is then void.  Instances share nothing but the *)
(* object, so a refresh is a lease taken with a conditional write, a slow  *)
(* exchange with HubSpot, and a second conditional write of its result.    *)
(***************************************************************************)
EXTENDS Integers, FiniteSets

CONSTANTS
    Refreshers,  \* one per instance: its lock admits one refresh at a time
    Accounts,    \* callers of update_account
    Callbacks,   \* callback requests
    States,      \* OAuth states handed out by begin_authorization
    Ttl,         \* ttl_seconds of acquire_refresh_lease
    StateTtl,    \* state_ttl_seconds
    MaxTries,    \* attempts of get_access_token to take the lease
    Faulty,      \* whether storage, network and instances may fail
    MaxTime,     \* bound on the clock
    MaxGen,      \* bound: no request starts once the object has this many writes
    MaxToken     \* bound on the tokens HubSpot issues

ASSUME ConnectionAssumption ==
    /\ Ttl \in Nat /\ StateTtl \in Nat
    /\ MaxTries \in Nat \ {0}
    /\ Faulty \in BOOLEAN
    /\ States # {}
    /\ MaxTime \in Nat /\ MaxGen \in Nat /\ MaxToken \in Nat

VARIABLES
    clock,     \* real time
    conn,      \* the connection document
    gen,       \* its generation; 0 when there is none
    refresh,   \* refresh[r]: the refresh instance r has in flight
    account,   \* account[a]: the update_account call in flight
    callback,  \* callback[c]: the callback request in flight
    pending,   \* pending[s]: the pending-authorization object of state s
    valid,     \* HubSpot: the refresh tokens it would accept
    issued,    \* HubSpot: the tokens issued so far
    granted    \* history: the exchanges HubSpot granted for each state

store == <<conn, gen>>
hub   == <<valid, issued>>
oauth == <<callback, pending, granted>>
vars  == <<clock, conn, gen, refresh, account, callback, pending, valid, issued,
           granted>>

-----------------------------------------------------------------------------
(* The connection document and conditional writes.                         *)

Token == 0..MaxToken

\* HubSpotConnectionDocument; "none" is a bucket without the object.  Lock
\* stands for refresh_lock_id: an id that is new each time, 0 for None.
Connection == [status : {"none", "active", "refreshing", "reauthorization_required"},
               token : Token, lock : Nat, until : Int]

Unlocked(status, token) ==
    [status |-> status, token |-> token, lock |-> 0, until |-> 0]

NoConnection == Unlocked("none", 0)

\* A write of d conditional on generation g; the document is never deleted.
Written(g, d) == /\ gen = g
                 /\ conn' = d
                 /\ gen' = gen + 1

Refused(g) == gen # g /\ UNCHANGED store

\* Storage is unavailable, and nothing was written.
Unavailable == Faulty /\ UNCHANGED store

-----------------------------------------------------------------------------
(* HubSpotTokenManager.get_access_token, called without a valid access     *)
(* token.  A refresh goes through: acquire (read), lock (write), exchange, *)
(* complete (read), store (write), and on an error fail (read), unlock     *)
(* (write).                                                                *)

RefreshPhase ==
    {"idle", "acquire", "lock", "exchange", "complete", "store", "fail", "unlock"}

Refresh == [phase : RefreshPhase, tries : 0..(MaxTries - 1), now : Int,
            seen : Connection, at : Nat, token : Token, lock : Nat,
            fresh : Token, invalid : BOOLEAN]

NoRefresh == [phase |-> "idle", tries |-> 0, now |-> 0, seen |-> NoConnection,
              at |-> 0, token |-> 0, lock |-> 0, fresh |-> 0, invalid |-> FALSE]

Goto(r, phase) == refresh' = [refresh EXCEPT ![r].phase = phase]
Finish(r)      == refresh' = [refresh EXCEPT ![r] = NoRefresh]
Failing(r, invalid) ==
    refresh' = [refresh EXCEPT ![r].phase = "fail", ![r].invalid = invalid]

\* Mutant of InProgress: one attempt more than the loop has.
OneTryTooMany(r) ==
    refresh' = [refresh EXCEPT ![r].phase = "acquire",
                               ![r].tries = refresh[r].tries + 1]

\* hubspot_refresh_in_progress: sleep and try again, or give up.
InProgress(r) ==
    IF refresh[r].tries + 1 < MaxTries
    THEN refresh' = [refresh EXCEPT ![r].phase = "acquire",
                                    ![r].tries = refresh[r].tries + 1]
    ELSE Finish(r)

Start(r) ==
    /\ refresh[r].phase = "idle"
    /\ gen < MaxGen
    /\ Goto(r, "acquire")
    /\ UNCHANGED <<clock, store, account, oauth, hub>>

\* Mutant of Locked: a running lease is taken over.
LockedNever(d) == FALSE

\* A lease on the connection is running.
Locked(d) == d.status = "refreshing" /\ d.until > clock

\* acquire_refresh_lease, up to its write.  The document is read and the clock
\* after it; reading both at once is enough, because the write that follows is
\* conditional on the document not having changed.
Acquire(r) ==
    /\ refresh[r].phase = "acquire"
    /\ \/ /\ conn.status \in {"none", "reauthorization_required"}
          /\ Finish(r)
       \/ Locked(conn) /\ InProgress(r)
       \/ /\ conn.status \in {"active", "refreshing"} /\ ~Locked(conn)
          /\ refresh' = [refresh EXCEPT ![r].phase = "lock", ![r].now = clock,
                                        ![r].seen = conn, ![r].at = gen]
       \/ Faulty /\ Finish(r)
    /\ UNCHANGED <<clock, store, account, oauth, hub>>

\* The write of the lease.  Its answer may be lost and the storage client's
\* second attempt refused: the caller then sees a lease it does not know is
\* its own.
Lock(r) ==
    LET c == refresh[r]
        d == [c.seen EXCEPT !.status = "refreshing", !.lock = gen + 1,
                            !.until = c.now + Ttl]
    IN  /\ c.phase = "lock"
        /\ \/ /\ Written(c.at, d)
              /\ refresh' = [refresh EXCEPT ![r].phase = "exchange",
                                            ![r].at = gen + 1,
                                            ![r].lock = gen + 1,
                                            ![r].token = d.token]
           \/ Faulty /\ Written(c.at, d) /\ InProgress(r)
           \/ Refused(c.at) /\ InProgress(r)
           \/ Unavailable /\ Finish(r)
        /\ UNCHANGED <<clock, account, oauth, hub>>

\* HubSpot issues a new token and voids the old ones given.
Issue(old) == /\ issued < MaxToken
              /\ issued' = issued + 1
              /\ valid' = (valid \ old) \cup {issued + 1}

\* oauth.refresh: HubSpot rotates the token, answers without a new one, or
\* rejects it (400 or 401).  The request or its answer may also be lost, and
\* HubSpot has then rotated the token or has not.
Exchange(r) ==
    LET c == refresh[r]
    IN  /\ c.phase = "exchange"
        /\ \/ /\ c.token \in valid
              /\ Issue({c.token})
              /\ refresh' = [refresh EXCEPT ![r].phase = "complete",
                                            ![r].fresh = issued + 1]
           \/ /\ c.token \in valid
              /\ refresh' = [refresh EXCEPT ![r].phase = "complete",
                                            ![r].fresh = c.token]
              /\ UNCHANGED hub
           \/ c.token \notin valid /\ Failing(r, TRUE) /\ UNCHANGED hub
           \/ Faulty /\ c.token \in valid /\ Issue({c.token}) /\ Failing(r, FALSE)
           \/ Faulty /\ Failing(r, FALSE) /\ UNCHANGED hub
        /\ UNCHANGED <<clock, store, account, oauth>>

\* Mutant of Holds: only the lease's existence is checked.
HoldsAnyLease(r) == conn.status = "refreshing"

\* The lease of r is the last thing written to the document.
Holds(r) == gen = refresh[r].at /\ conn.lock = refresh[r].lock

\* complete_refresh up to its write; a document that changed is a conflict.
Complete(r) ==
    /\ refresh[r].phase = "complete"
    /\ \/ /\ Holds(r)
          /\ refresh' = [refresh EXCEPT ![r].phase = "store", ![r].seen = conn,
                                        ![r].at = gen]
       \/ ~Holds(r) /\ Failing(r, FALSE)
       \/ Faulty /\ Failing(r, FALSE)
    /\ UNCHANGED <<clock, store, account, oauth, hub>>

\* The write of the rotated token; on success the access token is remembered.
Store(r) ==
    LET c == refresh[r]
        d == Unlocked("active", c.fresh)
    IN  /\ c.phase = "store"
        /\ \/ Written(c.at, d) /\ Finish(r)
           \/ Faulty /\ Written(c.at, d) /\ Failing(r, FALSE)
           \/ Refused(c.at) /\ Failing(r, FALSE)
           \/ Unavailable /\ Failing(r, FALSE)
        /\ UNCHANGED <<clock, account, oauth, hub>>

\* fail_refresh up to its write: nothing to do if the document has changed.
Fail(r) ==
    /\ refresh[r].phase = "fail"
    /\ \/ /\ Holds(r)
          /\ refresh' = [refresh EXCEPT ![r].phase = "unlock", ![r].seen = conn,
                                        ![r].at = gen]
       \/ ~Holds(r) /\ Finish(r)
       \/ Faulty /\ Finish(r)
    /\ UNCHANGED <<clock, store, account, oauth, hub>>

\* The write that gives the lease back; a conflict is ignored.
Unlock(r) ==
    LET c == refresh[r]
        status == IF c.invalid THEN "reauthorization_required" ELSE "active"
    IN  /\ c.phase = "unlock"
        /\ \/ Written(c.at, Unlocked(status, c.seen.token))
           \/ Refused(c.at)
           \/ Unavailable
        /\ Finish(r)
        /\ UNCHANGED <<clock, account, oauth, hub>>

\* The instance stops, or the request is cancelled between two awaits.
Crash(r) ==
    /\ Faulty
    /\ refresh[r].phase # "idle"
    /\ Finish(r)
    /\ UNCHANGED <<clock, store, account, oauth, hub>>

-----------------------------------------------------------------------------
(* update_account, by the callback and by hubspot_get_user_details: a read *)
(* and a conditional write of the whole document, whose conflict is        *)
(* ignored.  Only the account metadata changes, which is not modelled.     *)

AccountCall == [phase : {"idle", "write"}, seen : Connection, at : Nat]
NoAccount   == [phase |-> "idle", seen |-> NoConnection, at |-> 0]

ReadAccount(a) ==
    /\ account[a].phase = "idle"
    /\ gen < MaxGen
    /\ conn.status # "none"
    /\ account' = [account EXCEPT ![a] = [phase |-> "write", seen |-> conn,
                                          at |-> gen]]
    /\ UNCHANGED <<clock, store, refresh, oauth, hub>>

WriteAccount(a) ==
    /\ account[a].phase = "write"
    /\ \/ Written(account[a].at, account[a].seen)
       \/ Refused(account[a].at)
       \/ Unavailable
    /\ account' = [account EXCEPT ![a] = NoAccount]
    /\ UNCHANGED <<clock, refresh, oauth, hub>>

-----------------------------------------------------------------------------
(* Authorization: a state handed out once, and callbacks that consume it.  *)

PendingState == [status : {"unused", "open", "gone"}, expires : Int]

CallbackPhase == {"idle", "read", "delete", "exchange", "save", "write"}

CallbackCall == [phase : CallbackPhase, state : States, code : BOOLEAN,
                 token : Token, at : Nat]

AnyState   == CHOOSE s \in States : TRUE
NoCallback == [phase |-> "idle", state |-> AnyState, code |-> FALSE,
               token |-> 0, at |-> 0]

CallbackGoto(c, phase) == callback' = [callback EXCEPT ![c].phase = phase]
CallbackEnd(c)         == callback' = [callback EXCEPT ![c] = NoCallback]

\* begin_authorization: create_pending under a fresh random state.
Connect(s) ==
    /\ pending[s].status = "unused"
    /\ pending' = [pending EXCEPT ![s] = [status |-> "open",
                                          expires |-> clock + StateTtl]]
    /\ UNCHANGED <<clock, store, refresh, account, callback, hub, granted>>

\* The browser comes back, perhaps more than once, with a code or an error.
CallBack(c, s, code) ==
    /\ callback[c].phase = "idle"
    /\ pending[s].status # "unused"
    /\ gen < MaxGen
    /\ callback' = [callback EXCEPT ![c] = [NoCallback EXCEPT !.phase = "read",
                                                !.state = s, !.code = code]]
    /\ UNCHANGED <<clock, store, refresh, account, pending, hub, granted>>

\* consume_pending: the read.
ReadPending(c) ==
    /\ callback[c].phase = "read"
    /\ IF pending[callback[c].state].status = "open"
       THEN CallbackGoto(c, "delete") ELSE CallbackEnd(c)
    /\ UNCHANGED <<clock, store, refresh, account, pending, hub, granted>>

\* consume_pending: the delete conditional on the generation read, and then
\* the expiry check.  A pending object is written once, so the condition is
\* that it is still there.  A delete may go through and be reported refused.
DeletePending(c) ==
    LET s == callback[c].state
    IN  /\ callback[c].phase = "delete"
        /\ \/ /\ pending[s].status = "open"
              /\ pending' = [pending EXCEPT ![s].status = "gone"]
              /\ \/ IF callback[c].code /\ clock < pending[s].expires
                    THEN CallbackGoto(c, "exchange") ELSE CallbackEnd(c)
                 \/ Faulty /\ CallbackEnd(c)
           \/ /\ pending[s].status # "open" \/ Faulty
              /\ CallbackEnd(c)
              /\ UNCHANGED pending
        /\ UNCHANGED <<clock, store, refresh, account, hub, granted>>

\* exchange_code: HubSpot grants a token of its own to each authorization.
Grant(c) ==
    /\ callback[c].phase = "exchange"
    /\ \/ /\ Issue({})
          /\ granted' = [granted EXCEPT ![callback[c].state] = @ + 1]
          /\ callback' = [callback EXCEPT ![c].phase = "save",
                                          ![c].token = issued + 1]
       \/ CallbackEnd(c) /\ UNCHANGED <<hub, granted>>
    /\ UNCHANGED <<clock, store, refresh, account, pending>>

\* save_connection: the read of the generation ...
ReadConnection(c) ==
    /\ callback[c].phase = "save"
    /\ callback' = [callback EXCEPT ![c].phase = "write", ![c].at = gen]
    /\ UNCHANGED <<clock, store, refresh, account, pending, hub, granted>>

\* ... and the write of a new document; a conflict is a 409.
SaveConnection(c) ==
    /\ callback[c].phase = "write"
    /\ \/ Written(callback[c].at, Unlocked("active", callback[c].token))
       \/ Refused(callback[c].at)
       \/ Unavailable
    /\ CallbackEnd(c)
    /\ UNCHANGED <<clock, refresh, account, pending, hub, granted>>

-----------------------------------------------------------------------------
\* Time passes.  The client's timeouts are for each phase of one request, so a
\* refresh may take longer than its lease lasts, and the lease is not renewed.
Tick ==
    /\ clock < MaxTime
    /\ clock' = clock + 1
    /\ UNCHANGED <<store, refresh, account, oauth, hub>>

Init ==
    /\ clock = 0
    /\ conn = NoConnection
    /\ gen = 0
    /\ refresh = [r \in Refreshers |-> NoRefresh]
    /\ account = [a \in Accounts |-> NoAccount]
    /\ callback = [c \in Callbacks |-> NoCallback]
    /\ pending = [s \in States |-> [status |-> "unused", expires |-> 0]]
    /\ valid = {}
    /\ issued = 0
    /\ granted = [s \in States |-> 0]

RefreshStep(r) ==
    \/ Start(r) \/ Acquire(r) \/ Lock(r) \/ Exchange(r) \/ Complete(r)
    \/ Store(r) \/ Fail(r) \/ Unlock(r) \/ Crash(r)

AccountStep(a) == ReadAccount(a) \/ WriteAccount(a)

CallbackStep(c) ==
    \/ \E s \in States, code \in BOOLEAN : CallBack(c, s, code)
    \/ ReadPending(c) \/ DeletePending(c) \/ Grant(c)
    \/ ReadConnection(c) \/ SaveConnection(c)

Next ==
    \/ Tick
    \/ \E r \in Refreshers : RefreshStep(r)
    \/ \E a \in Accounts : AccountStep(a)
    \/ \E s \in States : Connect(s)
    \/ \E c \in Callbacks : CallbackStep(c)

Spec == Init /\ [][Next]_vars

-----------------------------------------------------------------------------
(* Properties.                                                             *)

\* The values every variable can take.
TypeOK ==
    /\ clock \in 0..MaxTime
    /\ conn \in Connection
    /\ gen \in Nat
    /\ refresh \in [Refreshers -> Refresh]
    /\ account \in [Accounts -> AccountCall]
    /\ callback \in [Callbacks -> CallbackCall]
    /\ pending \in [States -> PendingState]
    /\ valid \subseteq Token
    /\ issued \in Token
    /\ granted \in [States -> Nat]

\* The lease of r had run out when q read its clock for a lease of its own.
OutlivedBy(r, q) == refresh[r].now + Ttl <= refresh[q].now

\* Two instances have the same single-use token at HubSpot at the same time
\* only if the exchange of one outlived its lease before the other took its
\* own: no failure, lost answer, account update or new authorisation makes a
\* running lease be passed over, or lets two instances write one
\* (acquire_refresh_lease, complete_refresh, fail_refresh).
ExclusiveUse ==
    \A r, q \in Refreshers :
        /\ refresh[r].phase = "exchange"
        /\ refresh[q].phase = "exchange"
        /\ refresh[r].token = refresh[q].token
        => r = q \/ OutlivedBy(r, q) \/ OutlivedBy(q, r)

\* The connection is marked for reauthorization only when HubSpot would reject
\* the token it holds: a late or failed refresh never disables a connection
\* that was renewed behind its back (fail_refresh).
DisabledOnlyIfRejected ==
    [][conn'.status = "reauthorization_required" /\ conn' # conn =>
           conn.token \notin valid]_vars

\* The token that replaces the stored one is on its way to the document.
Replacing(r) == /\ refresh[r].phase \in {"complete", "store"}
                /\ Holds(r)
                /\ refresh[r].fresh \in valid

\* Without failures a connection is never lost: HubSpot accepts the token it
\* holds, or the refresh that consumed that token is about to replace it
\* (get_access_token, update_account).
NeverLost ==
    conn.status # "none" => /\ conn.status # "reauthorization_required"
                            /\ \/ conn.token \in valid
                               \/ \E r \in Refreshers : Replacing(r)

\* An OAuth state is good for one exchange, however many callbacks race with
\* it (consume_pending).
StateUsedOnce == \A s \in States : granted[s] <= 1
=============================================================================
