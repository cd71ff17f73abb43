-------------------------- MODULE DownstreamCatalog --------------------------
(***************************************************************************)
(* The live catalogues of the downstream MCP servers, n8n and OpenWA, and  *)
(* the calls that go through them.  Each provider has one client with a    *)
(* catalogue that expires; calls of many clients share it, discover it     *)
(* again page by page under a lock, and empty it without the lock after an *)
(* error.  Meanwhile the downstream server adds, withdraws and reclassifies*)
(* its tools.  An OpenWA tool that is not read-only needs an approval of   *)
(* the very operation.                                                     *)
(***************************************************************************)
EXTENDS Naturals, Sequences, FiniteSets, TLC

CONSTANTS
    Calls,        \* requests of management clients
    Order,        \* the names of downstream tools, in the order they are listed
    PageSize,     \* tools on one page of a discovery
    Arguments,    \* arguments of a tool
    Humans,       \* provenance of an approval: conversation and request
    NoReference,  \* no approval reference was given
    Submissions,  \* what calls bring as approval
    Deployments,  \* the sets of providers that may be configured
    Ttl,          \* discovery_ttl_seconds
    MaxTime,      \* bound: clock
    MaxChanges    \* bound: changes of a downstream server

Providers == {"n8n", "openwa"}
Names     == {Order[i] : i \in 1..Len(Order)}
Nobody    == "nobody"

\* OpenWA's annotations tell reads from writes; n8n's tools have none.
Tiers(p)  == IF p = "openwa" THEN {"read", "write"} ELSE {"write"}

\* A catalogue: the tier of every tool in it.
Tools   == [Names -> {"read", "write", "absent"}]
Nothing == [n \in Names |-> "absent"]

Reference  == [by : Humans, tool : Names, args : Arguments]
Submission == [meta     : Reference \cup {NoReference},
               argument : Reference \cup {NoReference},
               evidence : Humans \cup {"none", "invalid"}]

ASSUME CatalogAssumption ==
    /\ Order \in Seq(Seq(STRING)) /\ Order # <<>> /\ Nobody \notin Calls
    /\ Submissions \subseteq Submission
    /\ NoReference \notin Reference /\ Deployments \subseteq SUBSET Providers
    /\ PageSize \in Nat \ {0} /\ Ttl \in Nat /\ MaxTime \in Nat /\ MaxChanges \in Nat

VARIABLES
    clock,      \* time.monotonic
    configured, \* the providers whose client can be made
    server,     \* what each downstream server exposes
    version,    \* history: how often that changed
    changed,    \* history: the tools whose entry ever changed
    cache,      \* the client's catalogue: _tools, _initialized, _expires_at
    lock,       \* the call that holds the client's lock
    call,       \* the calls
    took,       \* history: how often the invocation of a call took effect
    known       \* history: the latest change that a call which failed has seen

vars == <<clock, configured, server, version, changed, cache, lock, call, took,
          known>>
environment == <<clock, configured, server, version, changed>>

-----------------------------------------------------------------------------
(* Names of downstream tools in the Gateway, without their n8n_ or openwa_. *)

\* Native tools with the provider's prefix, and the ones a call knows of.
Native(p) == {<<"status">>, <<"list_tools">>}
             \cup IF p = "openwa" THEN {<<"prepare_approval_reference">>} ELSE {}

Routed(p) == {<<"status">>, <<"list_tools">>}

\* Mutant of Exposed: names that collide are numbered.
ExposedNumbered(n, occupied) ==
    IF n \in occupied THEN <<"downstream", ToString(Cardinality(occupied))>> ELSE n

Exposed(n, occupied) == IF n \in occupied THEN <<"downstream">> \o n ELSE n

\* The names a tool can have in the Gateway.
GatewayNames == Names \cup {<<"downstream">> \o n : n \in Names}

\* One more tool, with the name that is left for it.
Named(before, n) ==
    LET exposed == Exposed(n, before.occupied) IN
    [occupied |-> before.occupied \cup {exposed},
     names    |-> [e \in DOMAIN before.names \cup {exposed} |->
                      IF e = exposed THEN n ELSE before.names[e]]]

\* The downstream tool of each exposed name, tool after tool.
Mapping(tools, reserved) ==
    LET upto[i \in 0..Len(Order)] ==
            IF i = 0 THEN [occupied |-> reserved, names |-> <<>>]
            ELSE IF tools[Order[i]] = "absent" THEN upto[i - 1]
            ELSE Named(upto[i - 1], Order[i])
    IN  upto[Len(Order)].names

\* The downstream tool that a call of name reaches, if there is one.
Behind(name, tools, p) ==
    LET names == Mapping(tools, Routed(p))
    IN  {n \in Names : name \in DOMAIN names /\ names[name] = n}

-----------------------------------------------------------------------------
(* Approvals. *)

\* Mutant of Covers: any operation of the tool is covered.
CoversTool(r, tool, args) == r.tool = tool

\* validate_reference: the scope of r is this tool with these arguments.
Covers(r, tool, args) == r.tool = tool /\ r.args = args

\* The references a call brings; evidence makes one for this very operation.
Brought(b, tool, args) ==
    ({b.meta, b.argument} \ {NoReference})
        \cup {[by |-> h, tool |-> tool, args |-> args] : h \in Humans \cap {b.evidence}}

\* They agree, and cover the operation.
Approved(b, tool, args) ==
    /\ b.evidence # "invalid"
    /\ \E r \in Reference : Brought(b, tool, args) = {r} /\ Covers(r, tool, args)

\* (history) A reference to a human's consent to exactly this is among them.
Consents(b, tool, args) ==
    \/ b.evidence \in Humans
    \/ \E h \in Humans :
          [by |-> h, tool |-> tool, args |-> args] \in {b.meta, b.argument}

-----------------------------------------------------------------------------
(* Calls. *)

Ops      == {"show", "status", "catalog", "prepare", "call"}
Lookup   == {"survey", "route", "check", "recheck"}  \* stages that list tools
Outcomes == {"none", "done", "success", "error", "rejected", "unavailable",
             "raised", "cancelled"}

Call == [stage    : Lookup \cup {"idle", "invoke", "ended"},
         op       : Ops,
         of       : Providers,
         meant    : Names,                \* the tool the client has in mind
         name     : GatewayNames \cup {<<>>}, \* the exposed name it was shown for it
         target   : Names,                \* the downstream tool the name led to
         consent  : BOOLEAN,              \* history: it brought consent to the operation
         listing  : {"ask", "wait", "read"},  \* the list_tools of the stage
         found    : Tools,                \* the pages read so far
         page     : 0..Len(Order),
         began    : Nat,                  \* history: version at the first page
         erred    : Nat,                  \* history: version at the failure
         blind    : BOOLEAN,              \* history: the discovery after it failed
         outcome  : Outcomes]

AnyName == Order[1]
NoCall  == [stage |-> "idle", op |-> "show", of |-> "n8n", meant |-> AnyName,
            name |-> <<>>, target |-> AnyName, consent |-> FALSE, listing |-> "ask",
            found |-> Nothing, page |-> 0, began |-> 0, erred |-> 0, blind |-> FALSE, outcome |-> "none"]

Ended(q, outcome) ==
    [NoCall EXCEPT !.stage = "ended", !.of = q.of, !.meant = q.meant,
                   !.target = q.target, !.blind = q.blind, !.outcome = outcome]

\* On to a stage; what the discovery before it found is forgotten.
Onto(q, stage) ==
    [q EXCEPT !.stage = stage, !.listing = "ask", !.found = Nothing, !.page = 0,
              !.began = 0]

Surveyed(q) ==
    IF q.op = "show" /\ q.of = "n8n" THEN [Onto(q, "survey") EXCEPT !.of = "openwa"]
    ELSE Ended(q, "done")

\* BrunovaMCPServer.call_tool for n8n.
RoutedToN8N(q, tools) ==
    LET behind == Behind(q.name, tools, "n8n") IN
    IF behind = {} THEN {Ended(q, "unavailable")}
    ELSE {[Onto(q, "check") EXCEPT !.target = n] : n \in behind}

\* With what the client has submitted.
Judged(q, n, b, args) ==
    IF Approved(b, n, args)
    THEN [Onto(q, "check") EXCEPT !.target = n, !.consent = Consents(b, n, args)]
    ELSE Ended(q, "rejected")

\* A tool that is not read-only needs an approval.  What the client sent is
\* looked at only here.
Admitted(q, n, tier) ==
    IF tier = "read" THEN {[Onto(q, "check") EXCEPT !.target = n]}
    ELSE {Judged(q, n, b, args) : b \in Submissions, args \in Arguments}

\* _call_openwa_tool.
RoutedToOpenWA(q, tools) ==
    LET behind == Behind(q.name, tools, "openwa") IN
    IF behind = {} THEN {Ended(q, "rejected")}
    ELSE UNION {Admitted(q, n, tools[n]) : n \in behind}

\* Mutant of Checked: a call that failed is sent again.
CheckedAgain(q, tools) ==
    IF tools[q.target] = "absent" THEN Ended(q, "rejected") ELSE Onto(q, "invoke")

\* Mutant of Checked: whatever fails, the tool is said to be gone.
CheckedGone(q, tools) ==
    IF tools[q.target] # "absent" /\ q.stage = "check" THEN Onto(q, "invoke")
    ELSE Ended(q, "rejected")

\* Whether the client's catalogue has the tool, before and after invoking it.
Checked(q, tools) ==
    IF tools[q.target] = "absent" THEN Ended(q, "rejected")
    ELSE IF q.stage = "check" THEN Onto(q, "invoke") ELSE Ended(q, "error")

\* How a call goes on with the tools that list_tools returned.
Got(q, tools) ==
    CASE q.stage = "survey" -> {Surveyed(q)}
      [] q.stage = "route" /\ q.of = "n8n" -> RoutedToN8N(q, tools)
      [] q.stage = "route" /\ q.of = "openwa" -> RoutedToOpenWA(q, tools)
      [] OTHER -> {Checked(q, tools)}

\* How it goes on after list_tools has raised.
Missed(q) ==
    CASE q.stage = "survey" ->
            IF q.op \in {"show", "status"} THEN Surveyed(q)
            ELSE Ended(q, IF q.op = "prepare" THEN "raised" ELSE "error")
      [] q.stage = "route" -> Ended(q, IF q.of = "n8n" THEN "raised" ELSE "error")
      [] q.stage = "check" -> Ended(q, "error")
      [] q.stage = "recheck" -> Checked([q EXCEPT !.blind = TRUE], Nothing)

Set(s, q) == call' = [call EXCEPT ![s] = q]

\* (history) When a call that failed answers, what it has seen is known.
Noted(s) == IF call[s].stage = "recheck" /\ call[s].erred > known[call[s].of]
            THEN [known EXCEPT ![call[s].of] = call[s].erred] ELSE known

\* A client asks for the tools, or calls one by a name that a listing, perhaps
\* an old one, has shown for it.
Start(s) ==
    /\ call[s].stage = "idle"
    /\ \/ \E op \in Ops \ {"call"}, p \in Providers :
             /\ op = "show" => p = "n8n"
             /\ op = "prepare" => p = "openwa"
             /\ Set(s, [NoCall EXCEPT !.stage = "survey", !.op = op, !.of = p])
       \/ \E p \in Providers, tools \in Tools, n \in Names :
             LET shown == Mapping(tools, Native(p)) IN
             \E e \in DOMAIN shown :
                /\ shown[e] = n
                /\ Set(s, [NoCall EXCEPT !.stage = "route", !.op = "call", !.of = p,
                                         !.meant = n, !.name = e])
    /\ took' = [took EXCEPT ![s] = 0]
    /\ UNCHANGED <<environment, cache, lock, known>>

\* There is no client: its configuration is missing, and get_n8n_client or
\* get_openwa_client raises.
NotConfigured(s) ==
    LET q == call[s] IN
    /\ q.stage \in {"survey", "route"} /\ q.of \notin configured
    /\ Set(s, CASE q.op \in {"show", "status"} -> Surveyed(q)
                [] q.op = "catalog" -> Ended(q, "error")
                [] OTHER -> Ended(q, "raised"))
    /\ UNCHANGED <<environment, cache, lock, took, known>>

Forced(q) == q.stage = "recheck" \/ q.op \in {"status", "catalog"}
Fresh(p)  == cache[p].ready /\ clock < cache[p].expires

\* list_tools: the fast path, or wait for the lock.
Ask(s) ==
    LET q == call[s] IN
    /\ q.stage \in Lookup /\ q.listing = "ask" /\ q.of \in configured
    /\ \/ /\ ~Forced(q) /\ Fresh(q.of)
          /\ \E next \in Got(q, cache[q.of].tools) : Set(s, next)
       \/ /\ Forced(q) \/ ~Fresh(q.of)
          /\ Set(s, [q EXCEPT !.listing = "wait"])
    /\ UNCHANGED <<environment, cache, lock, took, known>>

\* Mutant of Free: discovery without the lock.
FreeAlways(p) == TRUE

Free(p) == lock[p] = Nobody

\* With the lock, somebody else may have refreshed the catalogue.
Acquire(s) ==
    LET q == call[s] IN
    /\ q.stage \in Lookup /\ q.listing = "wait" /\ Free(q.of)
    /\ \/ /\ ~Forced(q) /\ Fresh(q.of)
          /\ \E next \in Got(q, cache[q.of].tools) : Set(s, next)
          /\ UNCHANGED lock
       \/ /\ Forced(q) \/ ~Fresh(q.of)
          /\ Set(s, [q EXCEPT !.listing = "read", !.began = version[q.of]])
          /\ lock' = [lock EXCEPT ![q.of] = s]
    /\ UNCHANGED <<environment, cache, took, known>>

Discovering(s) == call[s].stage \in Lookup /\ call[s].listing = "read"

\* Mutant of PagesRead: one page too many.
PagesReadLate(q) == q.page > 0 /\ (q.page - 1) * PageSize >= Len(Order)

PagesRead(q) == q.page * PageSize >= Len(Order)

\* One page of the catalogue as it is now.
ReadPage(s) ==
    LET q == call[s]
        onPage == {Order[i] : i \in (q.page * PageSize + 1)..((q.page + 1) * PageSize)
                                        \cap 1..Len(Order)}
    IN  /\ Discovering(s) /\ ~PagesRead(q)
        /\ Set(s, [q EXCEPT !.page = @ + 1,
                            !.found = [n \in Names |-> IF n \in onPage THEN server[q.of][n]
                                                       ELSE @[n]]])
        /\ UNCHANGED <<environment, cache, lock, took, known>>

Release(p) == lock' = [lock EXCEPT ![p] = Nobody]

\* The pages read replace the catalogue.
Store(s) ==
    LET q == call[s] IN
    /\ Discovering(s) /\ PagesRead(q)
    /\ cache' = [cache EXCEPT ![q.of] = [tools |-> q.found, ready |-> TRUE,
                                         expires |-> clock + Ttl, began |-> q.began]]
    /\ \E next \in Got(q, q.found) : Set(s, next)
    /\ known' = Noted(s)
    /\ Release(q.of)
    /\ UNCHANGED <<environment, took>>

Invalid == [tools |-> Nothing, ready |-> FALSE, expires |-> 0, began |-> 0]

Invalidate(p) == cache' = [cache EXCEPT ![p] = Invalid]

\* A page times out or cannot be had: nothing of the discovery is kept.
DiscoveryFails(s) ==
    /\ Discovering(s)
    /\ Invalidate(call[s].of)
    /\ Set(s, Missed(call[s]))
    /\ known' = Noted(s)
    /\ Release(call[s].of)
    /\ UNCHANGED <<environment, took>>

\* The tool is invoked.  It takes effect if it is there, unless it fails; the
\* answer may be an error result, may be late, or the connection breaks: then
\* the catalogue is emptied and discovered again.
Invoke(s) ==
    LET q == call[s] IN
    /\ q.stage = "invoke"
    /\ \E effect \in {n \in 0..1 : n = 1 => server[q.of][q.target] # "absent"} :
          /\ took' = [took EXCEPT ![s] = @ + effect]
          /\ \/ /\ effect = 1 /\ Set(s, Ended(q, "success"))
                /\ UNCHANGED cache
             \/ /\ Set(s, Ended(q, "error"))
                /\ UNCHANGED cache
             \/ /\ Invalidate(q.of)
                /\ Set(s, [Onto(q, "recheck") EXCEPT !.erred = version[q.of]])
    /\ UNCHANGED <<environment, lock, known>>

\* Mutant of Left: the lock stays with a call that went away.
LeftHeld(s) == lock

\* An exception leaves the lock.
Left(s) == [p \in Providers |-> IF lock[p] = s THEN Nobody ELSE lock[p]]

\* The client's connection ends.
Cancel(s) ==
    /\ call[s].stage \notin {"idle", "ended"}
    /\ Set(s, Ended(call[s], "cancelled"))
    /\ lock' = Left(s)
    /\ UNCHANGED <<environment, cache, took, known>>

\* The client's next request.
Again(s) ==
    /\ call[s].stage = "ended"
    /\ Set(s, NoCall)
    /\ took' = [took EXCEPT ![s] = 0]
    /\ UNCHANGED <<environment, cache, lock, known>>

Tick ==
    /\ clock < MaxTime /\ clock' = clock + 1
    /\ UNCHANGED <<configured, server, version, changed, cache, lock, call, took, known>>

\* A downstream server adds, withdraws or reclassifies a tool.
Change(p) ==
    /\ p \in configured /\ version[p] < MaxChanges
    /\ \E n \in Names, t \in Tiers(p) \cup {"absent"} :
          /\ t # server[p][n]
          /\ server' = [server EXCEPT ![p][n] = t]
          /\ changed' = [changed EXCEPT ![p] = @ \cup {n}]
    /\ version' = [version EXCEPT ![p] = @ + 1]
    /\ UNCHANGED <<clock, configured, cache, lock, call, took, known>>

-----------------------------------------------------------------------------

Init ==
    /\ clock = 0 /\ configured \in Deployments
    /\ server \in [Providers -> Tools]
    /\ \A p \in Providers, n \in Names :
          server[p][n] \in IF p \in configured THEN Tiers(p) ELSE {"write"}
    /\ version = [p \in Providers |-> 0]
    /\ changed = [p \in Providers |-> {}]
    /\ cache = [p \in Providers |-> Invalid]
    /\ lock = [p \in Providers |-> Nobody]
    /\ call = [s \in Calls |-> NoCall]
    /\ took = [s \in Calls |-> 0]
    /\ known = [p \in Providers |-> 0]

Step(s) ==
    \/ Start(s) \/ NotConfigured(s) \/ Ask(s) \/ Acquire(s) \/ ReadPage(s) \/ Store(s)
    \/ DiscoveryFails(s) \/ Invoke(s) \/ Cancel(s) \/ Again(s)

Next == Tick \/ (\E p \in Providers : Change(p)) \/ \E s \in Calls : Step(s)

Spec == Init /\ [][Next]_vars

-----------------------------------------------------------------------------
(* Properties. *)

\* The values every variable can take.
TypeOK ==
    /\ clock \in 0..MaxTime /\ configured \subseteq Providers
    /\ server \in [Providers -> Tools]
    /\ version \in [Providers -> 0..MaxChanges]
    /\ changed \in [Providers -> SUBSET Names]
    /\ cache \in [Providers -> [tools : Tools, ready : BOOLEAN, expires : Nat, began : Nat]]
    /\ lock \in [Providers -> Calls \cup {Nobody}]
    /\ call \in [Calls -> Call]
    /\ took \in [Calls -> Nat]
    /\ known \in [Providers -> Nat]

\* Once a call that failed has answered, no client is shown a catalogue whose
\* discovery began before that failure: not by a slower discovery of another
\* call that finishes afterwards, either ("Re-discovery makes removals visible
\* immediately after a downstream error", call_tool).
RemovalsVisible ==
    \A p \in Providers : cache[p].ready => cache[p].began >= known[p]

\* The lock is held exactly by the one call that is discovering the catalogue,
\* and never left behind by a call that failed or went away (list_tools).
OneDiscovery ==
    \A s \in Calls, p \in Providers :
        lock[p] = s <=> Discovering(s) /\ call[s].of = p

\* However a call fails, and whatever is discovered again for it, its tool
\* takes effect at most once (call_tool).
OncePerCall == \A s \in Calls : took[s] <= 1

\* A call that is answered, and recorded, as rejected although its tool took
\* effect could not discover the catalogue again, or the tool's entry did
\* change; and what leaves no record took no effect (call_tool,
\* _call_openwa_tool).
RejectionsExplained ==
    \A s \in Calls : call[s].stage = "ended" /\ took[s] = 1 =>
        /\ call[s].outcome \notin {"unavailable", "raised", "done"}
        /\ call[s].outcome = "rejected" =>
               call[s].blind \/ call[s].target \in changed[call[s].of]

\* A client that calls a tool by the name a listing showed for it, however
\* old, never sets off another tool, as long as no downstream tool has a name
\* that begins with "downstream" (_downstream_exposed_name).
NeverAnother == \A s \in Calls : took[s] > 0 => call[s].target = call[s].meant

Unapproved(s) == /\ took'[s] > took[s]
                 /\ call[s].of = "openwa" /\ ~call[s].consent

\* An OpenWA tool that writes takes effect only with consent to exactly this
\* tool with these arguments, unless it was reclassified (_call_openwa_tool).
ConsentUnlessReclassified ==
    [][\A s \in Calls :
          Unapproved(s) /\ call[s].target \notin changed["openwa"] =>
              server["openwa"][call[s].target] = "read"]_vars
=============================================================================
