----------------------- MODULE DownstreamCatalogProofs -----------------------
(***************************************************************************)
(* Theorems about DownstreamCatalog, for every number of requests, tools,  *)
(* pages and changes: the lock is held by the one call that discovers,     *)
(* nobody is shown what a failure has made obsolete, no call takes effect  *)
(* twice or on another tool than its client was shown, answers that deny   *)
(* an effect are explained, and writes of OpenWA have consent.             *)
(*                                                                         *)
(* Two inductive invariants, the second on top of the first: Inv has the   *)
(* lock and the times of discoveries, Facts what a call knows of the tool  *)
(* it is about.  Names come out of a recursive function, Mapping: that it  *)
(* is one, and of what type, is by Induction.                              *)
(***************************************************************************)
EXTENDS DownstreamCatalog, Induction, TLAPS

\* What an exposed name says of the tool behind it.
Shows(e, n) == e = n \/ e = <<"downstream">> \o n

\* Names that all do so.
NameMap == {f \in UNION {[S -> Names] : S \in SUBSET GatewayNames} :
               \A e \in DOMAIN f : Shows(e, f[e])}

Stages    == Lookup \cup {"idle", "invoke", "ended"}
Catalogue == [tools : Tools, ready : BOOLEAN, expires : Nat, began : Nat]

Reading(q) == q.stage \in Lookup /\ q.listing = "read"

\* A discovery began after all that is known, and after the failure it follows;
\* a call takes effect once, and only discovers again after that.
CallOK(q, v, k, t) ==
    /\ Reading(q) => /\ q.began <= v[q.of] /\ k[q.of] <= q.began
                     /\ q.stage = "recheck" => q.erred <= q.began
    /\ q.stage = "recheck" => q.erred <= v[q.of]
    /\ t <= 1 /\ (q.stage \notin {"recheck", "ended"} => t = 0)

Shape ==
    /\ clock \in Nat /\ server \in [Providers -> Tools] /\ version \in [Providers -> Nat]
    /\ known \in [Providers -> Nat] /\ took \in [Calls -> Nat]
    /\ cache \in [Providers -> Catalogue] /\ lock \in [Providers -> Calls \cup {Nobody}]
    /\ call \in [Calls -> Call]

\* The inductive invariant.
Inv == /\ Shape /\ OneDiscovery /\ RemovalsVisible
       /\ \A p \in Providers : known[p] <= version[p]
       /\ \A s \in Calls : CallOK(call[s], version, known, took[s])
       /\ \A s \in Calls : call[s].listing # "ask" => call[s].of \in configured

-----------------------------------------------------------------------------
(* The names of tools.                                                     *)

\* The listing's first tool is one.
LEMMA AnyNameIsOne == AnyName \in Names
<1>1. Len(Order) \in Nat /\ Len(Order) > 0
  BY CatalogAssumption
<1>2. QED
  BY <1>1 DEF AnyName, Names

\* No tool has a name yet.
LEMMA NoNames == <<>> \in NameMap
<1>1. <<>> \in [{} -> Names]
  OBVIOUS
<1>2. QED
  BY <1>1 DEF NameMap

\* One more tool has its own name, or that with the prefix.
LEMMA NamedMap ==
    ASSUME NEW b, b.names \in NameMap, NEW n \in Names
    PROVE  Named(b, n).names \in NameMap
<1> DEFINE e == Exposed(n, b.occupied)
           f == [x \in DOMAIN b.names \cup {e} |-> IF x = e THEN n ELSE b.names[x]]
<1>1. e \in GatewayNames /\ Shows(e, n)
  BY DEF Exposed, Shows, GatewayNames
<1>2. f = Named(b, n).names
  BY DEF Named
<1> HIDE DEF e
<1>3. PICK S \in SUBSET GatewayNames : b.names \in [S -> Names]
  BY DEF NameMap
<1>4. f \in [S \cup {e} -> Names]
  BY <1>3
<1>5. \A x \in DOMAIN f : Shows(x, f[x])
  BY <1>1, <1>3 DEF NameMap
<1>6. S \cup {e} \in SUBSET GatewayNames
  BY <1>1
<1> HIDE DEF f
<1>7. QED
  BY <1>2, <1>4, <1>5, <1>6 DEF NameMap

\* So do all, whatever the catalogue and the names that are taken.
LEMMA MappingEntries ==
    ASSUME NEW tools \in Tools, NEW reserved
    PROVE  Mapping(tools, reserved) \in NameMap
<1> DEFINE taken == reserved \cup GatewayNames
           D == [occupied : SUBSET taken, names : NameMap]
           start == [occupied |-> reserved, names |-> <<>>]
           step(b, i) == IF tools[Order[i]] = "absent" THEN b ELSE Named(b, Order[i])
           N == Len(Order)
           G == [i \in 1..N |-> [b \in D |-> step(b, i)]]
           IsUpTo(u) == u = [i \in 0..N |-> IF i = 0 THEN start ELSE step(u[i - 1], i)]
           upto == CHOOSE u : IsUpTo(u)
<1>1. N \in Nat /\ \A i \in 1..N : Order[i] \in Names
  BY CatalogAssumption DEF Names
<1>2. start \in D
  BY NoNames
<1>3. ASSUME NEW b \in D, NEW i \in 1..N
      PROVE  step(b, i) \in D
  <2>1. Named(b, Order[i]).names \in NameMap
    BY <1>1, NamedMap
  <2>2. Order[i] \in GatewayNames /\ Exposed(Order[i], b.occupied) \in GatewayNames
    BY <1>1 DEF GatewayNames, Exposed
  <2>3. Named(b, Order[i]) \in D
    BY <2>1, <2>2 DEF Named
  <2>4. QED
    BY <2>3
<1>4. Mapping(tools, reserved) = upto[N].names
  BY DEF Mapping
<1> HIDE DEF D, start, N
<1>5. G \in [1..N -> [D -> D]]
  BY <1>3
<1> HIDE DEF step
<1>6. PICK u \in [0..N -> D] : Recursive(u, N, start, G)
  <2> HIDE DEF G
  <2>1. QED
    BY <1>1, <1>2, <1>5, Recursion
<1>7. IsUpTo(u)
  <2>1. \A i \in 1..N : i - 1 \in 0..N
    BY <1>1
  <2>2. \A i \in 1..N : u[i - 1] \in D
    BY <2>1
  <2>3. \A i \in 1..N : u[i] = step(u[i - 1], i)
    BY <1>6, <2>2 DEF Recursive
  <2>4. QED
    BY <1>6, <2>3 DEF Recursive
<1>8. IsUpTo(upto)
  BY <1>7
<1> HIDE DEF upto, G
<1>9. upto[0] = start /\ \A i \in 1..N : upto[i] = step(upto[i - 1], i)
  <2>1. 0 \in 0..N /\ \A i \in 1..N : i \in 0..N /\ i # 0
    BY <1>1
  <2>2. QED
    BY <1>8, <2>1
<1>10. \A i \in 0..N : upto[i] \in D
  <2>1. upto[0] \in D /\ \A i \in 1..N : upto[i - 1] \in D => upto[i] \in D
    BY <1>2, <1>3, <1>9
  <2>2. QED
    BY <1>1, <2>1, RecursionStays
<1>11. upto[N] \in D
  BY <1>1, <1>10
<1>12. QED
  BY <1>4, <1>11 DEF D

-----------------------------------------------------------------------------
(* What a request becomes. *)

\* A new request.
LEMMA FirstCall == NoCall \in Call /\ NoCall.listing = "ask" /\ NoCall.stage = "idle"
<1>1. Nothing \in Tools
  BY DEF Nothing, Tools
<1>2. "n8n" \in Providers /\ "show" \in Ops /\ "idle" \in Stages /\ "none" \in Outcomes
  BY DEF Providers, Ops, Stages, Outcomes
<1>3. 0 \in 0..Len(Order) /\ AnyName \in Names
  BY AnyNameIsOne, CatalogAssumption
<1>4. QED
  BY <1>1, <1>2, <1>3 DEF NoCall, Call, Stages

\* An answered request.
LEMMA EndedShape ==
    ASSUME NEW q \in Call, NEW o \in Outcomes
    PROVE  /\ Ended(q, o) \in Call /\ Ended(q, o).stage = "ended"
           /\ Ended(q, o).listing = "ask" /\ Ended(q, o).of = q.of
<1> DEFINE a == [NoCall EXCEPT !.stage = "ended", !.of = q.of, !.meant = q.meant]
           b == [a EXCEPT !.target = q.target, !.blind = q.blind, !.outcome = o]
<1>1. a \in Call /\ a.stage = "ended" /\ a.of = q.of /\ a.listing = NoCall.listing
  BY FirstCall DEF Call, Stages
<1>2. b = Ended(q, o)
  BY DEF Ended
<1> HIDE DEF a
<1>3. b \in Call /\ b.stage = a.stage /\ b.of = a.of /\ b.listing = a.listing
  BY <1>1 DEF Call
<1>4. QED
  BY <1>1, <1>2, <1>3, FirstCall

\* A request in another stage.
LEMMA OntoShape ==
    ASSUME NEW q \in Call, NEW stage \in Stages
    PROVE  /\ Onto(q, stage) \in Call /\ Onto(q, stage).stage = stage
           /\ Onto(q, stage).listing = "ask" /\ Onto(q, stage).of = q.of
<1>1. Nothing \in Tools /\ 0 \in 0..Len(Order)
  BY CatalogAssumption DEF Nothing, Tools
<1>2. QED
  BY <1>1 DEF Onto, Call, Stages

\* A request with another provider, target, consent or failure.
LEMMA FieldShape ==
    ASSUME NEW q \in Call
    PROVE  /\ \A p \in Providers :
                 LET r == [q EXCEPT !.of = p] IN
                 r \in Call /\ r.stage = q.stage /\ r.listing = q.listing
           /\ \A n \in Names :
                 LET r == [q EXCEPT !.target = n] IN
                 r \in Call /\ r.stage = q.stage /\ r.listing = q.listing
           /\ \A c \in BOOLEAN :
                 LET r == [q EXCEPT !.consent = c] IN
                 r \in Call /\ r.stage = q.stage /\ r.listing = q.listing
           /\ \A c \in BOOLEAN :
                 LET r == [q EXCEPT !.blind = c] IN
                 r \in Call /\ r.stage = q.stage /\ r.listing = q.listing
           /\ \A k \in Nat :
                 LET r == [q EXCEPT !.erred = k] IN
                 /\ r \in Call /\ r.stage = q.stage /\ r.listing = q.listing
                 /\ r.erred = k /\ r.of = q.of
BY DEF Call

\* What follows the call of list_tools never discovers, and after a failure it
\* is the answer.
After(q, next) == /\ next \in Call /\ next.listing = "ask" /\ next.stage # "recheck"
                  /\ q.stage = "recheck" => next.stage = "ended"

\* A request that has been surveyed.
LEMMA SurveyedAfter ==
    ASSUME NEW q \in Call, q.stage = "survey"
    PROVE  After(q, Surveyed(q))
<1>1. "survey" \in Stages /\ "done" \in Outcomes /\ "openwa" \in Providers
  BY DEF Stages, Lookup, Outcomes, Providers
<1>2. CASE q.op = "show" /\ q.of = "n8n"
  <2>1. Onto(q, "survey") \in Call /\ Onto(q, "survey").stage = "survey"
        /\ Onto(q, "survey").listing = "ask"
    BY <1>1, OntoShape
  <2>2. Surveyed(q) = [Onto(q, "survey") EXCEPT !.of = "openwa"]
    BY <1>2 DEF Surveyed
  <2>3. Surveyed(q) \in Call /\ Surveyed(q).stage = "survey" /\ Surveyed(q).listing = "ask"
    BY <1>1, <2>1, <2>2, FieldShape
  <2>4. QED
    BY <2>3 DEF After
<1>3. CASE ~(q.op = "show" /\ q.of = "n8n")
  BY <1>1, <1>3, EndedShape DEF Surveyed, After
<1>4. QED
  BY <1>2, <1>3

\* A request that looked its tool up.
LEMMA CheckedAfter ==
    ASSUME NEW q \in Call, q.stage \in {"check", "recheck"}, NEW tools \in Tools
    PROVE  After(q, Checked(q, tools))
<1>1. "invoke" \in Stages /\ "rejected" \in Outcomes /\ "error" \in Outcomes
  BY DEF Stages, Outcomes
<1>2. QED
  BY <1>1, EndedShape, OntoShape DEF Checked, After

\* A request that was routed to a downstream tool.
LEMMA RoutedAfter ==
    ASSUME NEW q \in Call, q.stage = "route", NEW tools \in Tools
    PROVE  /\ \A next \in RoutedToN8N(q, tools) : After(q, next)
           /\ \A next \in RoutedToOpenWA(q, tools) : After(q, next)
<1>1. "check" \in Stages /\ "rejected" \in Outcomes /\ "unavailable" \in Outcomes
  BY DEF Stages, Outcomes, Lookup
<1>2. \A p : Behind(q.name, tools, p) \subseteq Names
  BY DEF Behind
<1>3. ASSUME NEW n \in Names
      PROVE  LET r == [Onto(q, "check") EXCEPT !.target = n] IN
             r \in Call /\ r.stage = "check" /\ r.listing = "ask"
  <2>1. Onto(q, "check") \in Call /\ Onto(q, "check").stage = "check"
        /\ Onto(q, "check").listing = "ask"
    BY <1>1, OntoShape
  <2>2. QED
    BY <2>1, FieldShape
<1>4. ASSUME NEW next \in RoutedToN8N(q, tools)
      PROVE  After(q, next)
  <2>1. CASE Behind(q.name, tools, "n8n") = {}
    BY <1>1, <1>4, <2>1, EndedShape DEF RoutedToN8N, After
  <2>2. CASE Behind(q.name, tools, "n8n") # {}
    <3>1. PICK n \in Behind(q.name, tools, "n8n") : next = [Onto(q, "check") EXCEPT !.target = n]
      BY <1>4, <2>2 DEF RoutedToN8N
    <3>2. QED
      BY <1>2, <1>3, <3>1 DEF After
  <2>3. QED
    BY <2>1, <2>2
<1>5. ASSUME NEW n \in Names, NEW tier \in {"read", "write", "absent"},
             NEW next \in Admitted(q, n, tier)
      PROVE  After(q, next)
  <2>1. CASE tier = "read"
    <3>1. next = [Onto(q, "check") EXCEPT !.target = n]
      BY <1>5, <2>1 DEF Admitted
    <3>2. QED
      BY <1>3, <3>1 DEF After
  <2>2. CASE tier # "read"
    <3>1. PICK b \in Submissions, args \in Arguments : next = Judged(q, n, b, args)
      BY <1>5, <2>2 DEF Admitted
    <3>2. CASE Approved(b, n, args)
      <4> DEFINE found == [Onto(q, "check") EXCEPT !.target = n]
      <4>1. found \in Call /\ found.stage = "check" /\ found.listing = "ask"
        BY <1>3
      <4>2. Consents(b, n, args) \in BOOLEAN
        BY DEF Consents
      <4>3. next = [found EXCEPT !.consent = Consents(b, n, args)]
        BY <3>1, <3>2 DEF Judged
      <4> HIDE DEF found
      <4>4. next \in Call /\ next.stage = "check" /\ next.listing = "ask"
        BY <4>1, <4>2, <4>3, FieldShape
      <4>5. QED
        BY <4>4 DEF After
    <3>3. CASE ~Approved(b, n, args)
      BY <1>1, <3>1, <3>3, EndedShape DEF Judged, After
    <3>4. QED
      BY <3>2, <3>3
  <2>3. QED
    BY <2>1, <2>2
<1>6. ASSUME NEW next \in RoutedToOpenWA(q, tools)
      PROVE  After(q, next)
  <2>1. CASE Behind(q.name, tools, "openwa") = {}
    BY <1>1, <1>6, <2>1, EndedShape DEF RoutedToOpenWA, After
  <2>2. CASE Behind(q.name, tools, "openwa") # {}
    <3>1. PICK n \in Behind(q.name, tools, "openwa") : next \in Admitted(q, n, tools[n])
      BY <1>6, <2>2 DEF RoutedToOpenWA
    <3>2. n \in Names /\ tools[n] \in {"read", "write", "absent"}
      BY <1>2, <3>1 DEF Tools
    <3>3. QED
      BY <1>5, <3>1, <3>2
  <2>3. QED
    BY <2>1, <2>2
<1>7. QED
  BY <1>4, <1>6

\* list_tools returned.
LEMMA GotAfter ==
    ASSUME NEW q \in Call, q.stage \in Lookup, NEW tools \in Tools,
           NEW next \in Got(q, tools)
    PROVE  After(q, next)
<1>1. q.of \in {"n8n", "openwa"}
  BY DEF Call, Providers
<1>2. CASE q.stage = "survey"
  BY <1>2, SurveyedAfter DEF Got
<1>3. CASE q.stage = "route"
  BY <1>1, <1>3, RoutedAfter DEF Got
<1>4. CASE q.stage \in {"check", "recheck"}
  BY <1>4, CheckedAfter DEF Got
<1>5. QED
  BY <1>2, <1>3, <1>4 DEF Lookup

\* list_tools raised.
LEMMA MissedAfter ==
    ASSUME NEW q \in Call, q.stage \in Lookup
    PROVE  After(q, Missed(q))
<1>1. "error" \in Outcomes /\ "raised" \in Outcomes
  BY DEF Outcomes
<1>2. CASE q.stage = "recheck"
  <2> DEFINE b == [q EXCEPT !.blind = TRUE]
  <2>1. b \in Call /\ b.stage = "recheck"
    BY <1>2, FieldShape
  <2>2. Nothing \in Tools
    BY DEF Nothing, Tools
  <2>3. After(b, Checked(b, Nothing))
    BY <2>1, <2>2, CheckedAfter
  <2>4. Missed(q) = Checked(b, Nothing)
    BY <1>2 DEF Missed
  <2> HIDE DEF b
  <2>5. QED
    BY <1>2, <2>1, <2>3, <2>4 DEF After
<1>3. CASE q.stage = "survey"
  BY <1>1, <1>3, EndedShape, SurveyedAfter DEF Missed, After
<1>4. CASE q.stage \in {"route", "check"}
  BY <1>1, <1>4, EndedShape DEF Missed, After
<1>5. QED
  BY <1>2, <1>3, <1>4 DEF Lookup

-----------------------------------------------------------------------------
(* The steps. *)

\* A step of one request that neither was nor is discovering.
LEMMA Quiet ==
    ASSUME Inv, NEW s \in Calls, NEW next \in Call, Set(s, next),
           ~Reading(call[s]), ~Reading(next), next.listing # "ask" => next.of \in configured,
           took' \in [Calls -> Nat], \A r \in Calls \ {s} : took'[r] = took[r],
           CallOK(next, version, known, took'[s]),
           cache' \in [Providers -> Catalogue],
           \A p \in Providers : cache'[p] = cache[p] \/ ~cache'[p].ready,
           UNCHANGED <<clock, configured, server, version, lock, known>>
    PROVE  Inv'
<1>1. /\ call' \in [Calls -> Call] /\ call'[s] = next
      /\ \A r \in Calls \ {s} : call'[r] = call[r]
  BY DEF Inv, Shape, Set
<1>2. Shape'
  BY <1>1 DEF Inv, Shape
<1>3. OneDiscovery'
  BY <1>1 DEF Inv, OneDiscovery, Discovering, Reading
<1>4. RemovalsVisible'
  BY DEF Inv, RemovalsVisible
<1>5. \A r \in Calls : CallOK(call'[r], version, known, took'[r])
  BY <1>1 DEF Inv
<1>6. \A r \in Calls : call'[r].listing # "ask" => call'[r].of \in configured'
  BY <1>1 DEF Inv
<1>7. QED
  BY <1>2, <1>3, <1>4, <1>5, <1>6 DEF Inv, CallOK, Reading

\* A request that does not discover is fine if it has not taken effect, or has
\* been answered.
LEMMA SettledOK ==
    ASSUME NEW q, NEW t \in Nat, q.listing # "read", q.stage # "recheck", t <= 1,
           q.stage = "ended" \/ t = 0
    PROVE  ~Reading(q) /\ CallOK(q, version, known, t)
BY DEF CallOK, Reading

\* Typing of one request and its provider.
LEMMA Typed ==
    ASSUME Inv, NEW s \in Calls
    PROVE  /\ call[s] \in Call /\ call[s].of \in Providers
           /\ took[s] \in Nat /\ took[s] <= 1
           /\ call[s].stage \notin {"recheck", "ended"} => took[s] = 0
           /\ cache[call[s].of].tools \in Tools
<1>1. call[s] \in Call /\ took[s] \in Nat
  BY DEF Inv, Shape
<1>2. call[s].of \in Providers
  BY <1>1 DEF Call
<1>3. cache[call[s].of] \in Catalogue
  BY <1>2 DEF Inv, Shape
<1>4. cache[call[s].of].tools \in Tools
  BY <1>3 DEF Catalogue
<1>5. CallOK(call[s], version, known, took[s])
  BY DEF Inv
<1>6. QED
  BY <1>1, <1>2, <1>4, <1>5 DEF CallOK

\* Start.
LEMMA StartStep ==
    ASSUME Inv, NEW s \in Calls, Start(s)
    PROVE  Inv'
<1>1. PICK next \in Call : Set(s, next) /\ next.listing = "ask"
                             /\ next.stage \in {"survey", "route"}
  <2>1. CASE \E op \in Ops \ {"call"}, p \in Providers :
                Set(s, [NoCall EXCEPT !.stage = "survey", !.op = op, !.of = p])
    <3>1. PICK op \in Ops, p \in Providers :
                Set(s, [NoCall EXCEPT !.stage = "survey", !.op = op, !.of = p])
      BY <2>1
    <3> DEFINE next == [NoCall EXCEPT !.stage = "survey", !.op = op, !.of = p]
    <3>2. next \in Call /\ next.listing = "ask" /\ next.stage = "survey"
      BY FirstCall DEF Call, Stages, Lookup
    <3>3. QED
      BY <3>1, <3>2
  <2>2. CASE \E p \in Providers, tools \in Tools, n \in Names :
                \E e \in DOMAIN Mapping(tools, Native(p)) :
                   Set(s, [NoCall EXCEPT !.stage = "route", !.op = "call", !.of = p,
                                         !.meant = n, !.name = e])
    <3>0. PICK p \in Providers, tools \in Tools, n \in Names :
                \E e \in DOMAIN Mapping(tools, Native(p)) :
                   Set(s, [NoCall EXCEPT !.stage = "route", !.op = "call", !.of = p,
                                         !.meant = n, !.name = e])
      BY <2>2
    <3>1. PICK e \in DOMAIN Mapping(tools, Native(p)) :
                Set(s, [NoCall EXCEPT !.stage = "route", !.op = "call", !.of = p,
                                      !.meant = n, !.name = e])
      BY <3>0
    <3>2. e \in GatewayNames
      BY MappingEntries DEF NameMap
    <3> DEFINE a == [NoCall EXCEPT !.stage = "route", !.op = "call", !.of = p]
               b == [a EXCEPT !.meant = n, !.name = e]
    <3>3. a \in Call /\ a.listing = "ask" /\ a.stage = "route"
      BY FirstCall DEF Call, Stages, Lookup, Ops
    <3>4. Set(s, b)
      BY <3>1
    <3> HIDE DEF a
    <3>5. b \in Call /\ b.listing = "ask" /\ b.stage = "route"
      BY <3>2, <3>3 DEF Call
    <3>6. QED
      BY <3>4, <3>5
  <2>3. QED
    BY <2>1, <2>2 DEF Start
<1>2. call[s].stage = "idle" /\ ~Reading(call[s])
  BY DEF Start, Reading, Lookup
<1>3. /\ took' \in [Calls -> Nat] /\ took'[s] = 0
      /\ \A r \in Calls \ {s} : took'[r] = took[r]
  BY DEF Start, Inv, Shape
<1>4. ~Reading(next) /\ CallOK(next, version, known, took'[s])
  BY <1>1, <1>3, SettledOK
<1>5. /\ cache' \in [Providers -> Catalogue] /\ cache' = cache
      /\ UNCHANGED <<clock, configured, server, version, lock, known>>
  BY DEF Start, Inv, Shape, environment
<1>6. QED
  BY <1>1, <1>2, <1>3, <1>4, <1>5, Quiet

\* A step that goes on after list_tools without having discovered.
LEMMA AfterStep ==
    ASSUME Inv, NEW s \in Calls, NEW next, After(call[s], next), Set(s, next),
           call[s].stage \in Lookup, ~Reading(call[s]),
           UNCHANGED <<environment, cache, lock, took, known>>
    PROVE  Inv'
<1>0. /\ took[s] \in Nat /\ took[s] <= 1
      /\ call[s].stage \notin {"recheck", "ended"} => took[s] = 0
  BY Typed
<1>1. /\ took' \in [Calls -> Nat] /\ took' = took /\ took[s] \in Nat /\ took[s] <= 1
      /\ call[s].stage # "recheck" => took[s] = 0
  BY <1>0 DEF Inv, Shape, Lookup
<1>2. ~Reading(next) /\ CallOK(next, version, known, took'[s])
  BY <1>1, SettledOK DEF After
<1>3. /\ cache' \in [Providers -> Catalogue] /\ cache' = cache
      /\ UNCHANGED <<clock, configured, server, version, lock, known>>
  BY DEF Inv, Shape, environment
<1>4. QED
  BY <1>1, <1>2, <1>3, Quiet DEF After

\* NotConfigured.
LEMMA NotConfiguredStep ==
    ASSUME Inv, NEW s \in Calls, NotConfigured(s)
    PROVE  Inv'
<1> DEFINE q == call[s]
<1>9. ~Reading(q)
  BY DEF NotConfigured, Reading, Inv
<1>0. q \in Call
  BY Typed
<1>1. q \in Call /\ "error" \in Outcomes /\ "raised" \in Outcomes
  BY <1>0 DEF Outcomes
<1>2. q.stage \in {"survey", "route"} /\ q.stage \in Lookup
  BY DEF NotConfigured, Lookup
<1>3. PICK next : Set(s, next) /\ next = CASE q.op \in {"show", "status"} -> Surveyed(q)
                                           [] q.op = "catalog" -> Ended(q, "error")
                                           [] OTHER -> Ended(q, "raised")
  BY DEF NotConfigured
<1>4. After(q, next)
  <2>1. After(q, Ended(q, "error")) /\ After(q, Ended(q, "raised"))
    BY <1>1, EndedShape DEF After
  <2>2. After(q, Surveyed(q))
    <3>1. CASE q.op = "show" /\ q.of = "n8n"
      <4>1. "survey" \in Stages /\ "openwa" \in Providers
        BY DEF Stages, Lookup, Providers
      <4>2. Onto(q, "survey") \in Call /\ Onto(q, "survey").stage = "survey"
            /\ Onto(q, "survey").listing = "ask"
        BY <1>1, <4>1, OntoShape
      <4>3. Surveyed(q) = [Onto(q, "survey") EXCEPT !.of = "openwa"]
        BY <3>1 DEF Surveyed
      <4>4. Surveyed(q) \in Call /\ Surveyed(q).stage = "survey"
            /\ Surveyed(q).listing = "ask"
        BY <4>1, <4>2, <4>3, FieldShape
      <4>5. QED
        BY <1>2, <4>4 DEF After
    <3>2. CASE ~(q.op = "show" /\ q.of = "n8n")
      <4>1. Surveyed(q) = Ended(q, "done") /\ "done" \in Outcomes
        BY <3>2 DEF Surveyed, Outcomes
      <4>2. QED
        BY <1>1, <4>1, EndedShape DEF After
    <3>3. QED
      BY <3>1, <3>2
  <2>3. QED
    BY <1>3, <2>1, <2>2
<1>5. UNCHANGED <<environment, cache, lock, took, known>>
  BY DEF NotConfigured
<1>6. QED
  BY <1>2, <1>3, <1>4, <1>5, <1>9, AfterStep

\* The catalogue that the client has is used.
LEMMA UsesStep ==
    ASSUME Inv, NEW s \in Calls, call[s].stage \in Lookup, ~Reading(call[s]),
           \E next \in Got(call[s], cache[call[s].of].tools) : Set(s, next),
           UNCHANGED <<environment, cache, lock, took, known>>
    PROVE  Inv'
<1>1. PICK next \in Got(call[s], cache[call[s].of].tools) : Set(s, next)
  OBVIOUS
<1>2. call[s] \in Call /\ cache[call[s].of].tools \in Tools
  BY Typed
<1>3. After(call[s], next)
  BY <1>1, <1>2, GotAfter
<1>4. QED
  BY <1>1, <1>3, AfterStep

\* Ask.
LEMMA AskStep ==
    ASSUME Inv, NEW s \in Calls, Ask(s)
    PROVE  Inv'
<1> DEFINE q == call[s]
           next == [q EXCEPT !.listing = "wait"]
<1>0. q \in Call
  BY Typed
<1>1. q \in Call /\ q.stage \in Lookup /\ q.listing = "ask" /\ ~Reading(q)
      /\ q.of \in configured /\ UNCHANGED <<environment, cache, lock, took, known>>
  BY <1>0 DEF Ask, Reading
<1>2. CASE \E n \in Got(q, cache[q.of].tools) : Set(s, n)
  BY <1>1, <1>2, UsesStep
<1>3. CASE Set(s, next)
  <2>1. next \in Call /\ ~Reading(next) /\ next.stage = q.stage
        /\ next.erred = q.erred /\ next.of = q.of
    BY <1>1 DEF Call, Reading
  <2>2. CallOK(q, version, known, took[s])
    BY DEF Inv
  <2>3. CallOK(next, version, known, took[s])
    BY <2>1, <2>2 DEF CallOK
  <2>4. /\ took' \in [Calls -> Nat] /\ took' = took /\ cache' \in [Providers -> Catalogue]
        /\ cache' = cache /\ UNCHANGED <<clock, configured, server, version, lock, known>>
    BY <1>1 DEF Inv, Shape, environment
  <2> HIDE DEF next
  <2>5. QED
    BY <1>1, <1>3, <2>1, <2>3, <2>4, Quiet
<1>4. QED
  BY <1>2, <1>3 DEF Ask

\* Acquire.
LEMMA AcquireStep ==
    ASSUME Inv, NEW s \in Calls, Acquire(s)
    PROVE  Inv'
<1> DEFINE q == call[s]
           next == [q EXCEPT !.listing = "read", !.began = version[q.of]]
<1>0. q \in Call /\ q.of \in Providers
  BY Typed
<1>1. /\ q \in Call /\ q.of \in Providers /\ q.stage \in Lookup
      /\ q.listing = "wait" /\ ~Reading(q) /\ lock[q.of] = Nobody
      /\ UNCHANGED <<environment, cache, took, known>>
  BY <1>0 DEF Acquire, Reading, Free
<1>2. CASE (\E n \in Got(q, cache[q.of].tools) : Set(s, n)) /\ UNCHANGED lock
  BY <1>1, <1>2, UsesStep
<1>3. CASE Set(s, next) /\ lock' = [lock EXCEPT ![q.of] = s]
  <2>1. version[q.of] \in Nat /\ known[q.of] <= version[q.of]
    BY <1>1 DEF Inv, Shape
  <2>2. /\ next \in Call /\ next.stage = q.stage /\ next.listing = "read"
        /\ next.of = q.of /\ next.erred = q.erred /\ next.began = version[q.of]
    BY <1>1, <2>1 DEF Call
  <2>3. CallOK(q, version, known, took[s])
    BY DEF Inv
  <2>4. CallOK(next, version, known, took[s])
    BY <2>1, <2>2, <2>3 DEF CallOK, Reading
  <2> HIDE DEF next
  <2>5. /\ call' \in [Calls -> Call] /\ call'[s] = next
        /\ \A r \in Calls \ {s} : call'[r] = call[r]
    BY <1>3, <2>2 DEF Inv, Shape, Set
  <2>6. lock \in [Providers -> Calls \cup {Nobody}]
    BY DEF Inv, Shape
  <2>7. Shape'
    BY <1>1, <1>3, <2>5, <2>6 DEF Inv, Shape, environment
  <2>8. OneDiscovery'
    <3>1. \A r \in Calls, p \in Providers :
             lock[p] = r <=> Reading(call[r]) /\ call[r].of = p
      BY DEF Inv, OneDiscovery, Discovering, Reading
    <3>2. \A r \in Calls, p \in Providers :
             lock'[p] = r <=> Reading(call'[r]) /\ call'[r].of = p
      BY <1>1, <1>3, <2>2, <2>5, <2>6, <3>1, CatalogAssumption DEF Reading
    <3>3. QED
      BY <3>2 DEF OneDiscovery, Discovering, Reading
  <2>9. RemovalsVisible'
    BY <1>1 DEF Inv, RemovalsVisible
  <2>10. \A r \in Calls : CallOK(call'[r], version, known, took[r])
    BY <2>4, <2>5 DEF Inv
  <2>11. UNCHANGED <<version, known, took>>
    BY <1>1 DEF environment
  <2>12. \A r \in Calls : call'[r].listing # "ask" => call'[r].of \in configured'
    <3>1. q.of \in configured /\ UNCHANGED configured
      BY <1>1 DEF Inv, environment
    <3>2. QED
      BY <2>2, <2>5, <3>1 DEF Inv
  <2>13. QED
    BY <2>7, <2>8, <2>9, <2>10, <2>11, <2>12 DEF Inv, CallOK, Reading
<1>4. QED
  BY <1>2, <1>3 DEF Acquire

\* There are at most as many pages as tools.
LEMMA PageBound ==
    ASSUME NEW q \in Call, ~PagesRead(q)
    PROVE  q.page + 1 \in 0..Len(Order)
<1>1. q.page \in Nat /\ PageSize \in Nat /\ PageSize >= 1 /\ Len(Order) \in Nat
  BY CatalogAssumption DEF Call
<1>2. q.page * PageSize < Len(Order)
  BY <1>1 DEF PagesRead
<1>3. q.page <= q.page * PageSize
  BY <1>1
<1>4. QED
  BY <1>1, <1>2, <1>3

\* ReadPage.
LEMMA ReadPageStep ==
    ASSUME Inv, NEW s \in Calls, ReadPage(s)
    PROVE  Inv'
<1> DEFINE q == call[s]
<1>0. q \in Call /\ q.of \in Providers
  BY Typed
<1>1. PICK found : Set(s, [q EXCEPT !.page = @ + 1, !.found = found]) /\ found \in Tools
  <2> DEFINE onPage == {Order[i] : i \in (q.page * PageSize + 1)..((q.page + 1) * PageSize)
                                             \cap 1..Len(Order)}
             found == [n \in Names |-> IF n \in onPage THEN server[q.of][n] ELSE q.found[n]]
  <2>1. Set(s, [q EXCEPT !.page = @ + 1, !.found = found])
    BY DEF ReadPage
  <2>2. server[q.of] \in Tools /\ q.found \in Tools
    BY <1>0 DEF Inv, Shape, Call
  <2> HIDE DEF onPage
  <2>3. found \in Tools
    BY <2>2 DEF Tools
  <2>4. QED
    BY <2>1, <2>3
<1> DEFINE next == [q EXCEPT !.page = @ + 1, !.found = found]
<1>2. /\ next \in Call /\ next.stage = q.stage /\ next.listing = q.listing
      /\ next.of = q.of /\ next.erred = q.erred /\ next.began = q.began
  <2> DEFINE page == q.page + 1
             a == [q EXCEPT !.page = page]
             b == [a EXCEPT !.found = found]
  <2>1. page \in 0..Len(Order)
    BY <1>0, PageBound DEF ReadPage
  <2>2. next = b
    OBVIOUS
  <2> HIDE DEF page, q, next
  <2>3. /\ a \in Call /\ a.stage = q.stage /\ a.listing = q.listing
        /\ a.of = q.of /\ a.erred = q.erred /\ a.began = q.began
    BY <1>0, <2>1 DEF Call
  <2> HIDE DEF a
  <2>4. /\ b \in Call /\ b.stage = a.stage /\ b.listing = a.listing
        /\ b.of = a.of /\ b.erred = a.erred /\ b.began = a.began
    BY <1>1, <2>3 DEF Call
  <2>5. QED
    BY <2>2, <2>3, <2>4
<1>3. Set(s, next)
  BY <1>1
<1> HIDE DEF next
<1>4. /\ call' \in [Calls -> Call] /\ call'[s] = next
      /\ \A r \in Calls \ {s} : call'[r] = call[r]
  BY <1>2, <1>3 DEF Inv, Shape, Set
<1>5. UNCHANGED <<clock, configured, server, version, cache, lock, took, known>>
  BY DEF ReadPage, environment
<1>6. Shape'
  BY <1>4, <1>5 DEF Inv, Shape
<1>7. OneDiscovery'
  <2>1. \A r \in Calls : Discovering(r)' <=> Discovering(r)
    BY <1>2, <1>4 DEF Discovering
  <2>2. \A r \in Calls : call'[r].of = call[r].of
    BY <1>2, <1>4
  <2>3. QED
    BY <1>5, <2>1, <2>2 DEF Inv, OneDiscovery
<1>8. RemovalsVisible' /\ \A p \in Providers : known'[p] <= version'[p]
  BY <1>5 DEF Inv, RemovalsVisible
<1>9. CallOK(next, version, known, took[s])
  <2>1. CallOK(q, version, known, took[s])
    BY DEF Inv
  <2>2. QED
    BY <1>2, <2>1 DEF CallOK, Reading
<1>10. \A r \in Calls : CallOK(call'[r], version', known', took'[r])
  BY <1>4, <1>5, <1>9 DEF Inv
<1>11. \A r \in Calls : call'[r].listing # "ask" => call'[r].of \in configured'
  BY <1>2, <1>4, <1>5 DEF Inv
<1>12. QED
  BY <1>6, <1>7, <1>8, <1>10, <1>11 DEF Inv, CallOK, Reading

\* A request that goes on, or away, and leaves the lock if it has it.
LEMMA Leaves ==
    ASSUME Inv, NEW s \in Calls, NEW next \in Call, Set(s, next),
           next.listing = "ask", next.stage # "recheck",
           next.stage = "ended" \/ took[s] = 0,
           lock' \in [Providers -> Calls \cup {Nobody}],
           \A p \in Providers : lock'[p] = IF lock[p] = s THEN Nobody ELSE lock[p],
           cache' \in [Providers -> Catalogue], known' \in [Providers -> Nat],
           \A p \in Providers : known'[p] = known[p] \/ lock[p] = s,
           \A p \in Providers : known'[p] <= version[p],
           \A p \in Providers : cache'[p].ready => cache'[p].began >= known'[p],
           UNCHANGED <<clock, configured, server, version, took>>
    PROVE  Inv'
<1>1. /\ call' \in [Calls -> Call] /\ call'[s] = next
      /\ \A r \in Calls \ {s} : call'[r] = call[r]
  BY DEF Inv, Shape, Set
<1>2. Shape'
  BY <1>1 DEF Inv, Shape
<1>3. \A r \in Calls, p \in Providers : lock[p] = r <=> Reading(call[r]) /\ call[r].of = p
  BY DEF Inv, OneDiscovery, Discovering, Reading
<1>4. OneDiscovery'
  <2>1. \A r \in Calls, p \in Providers : lock'[p] = r <=> Reading(call'[r]) /\ call'[r].of = p
    <3>1. Nobody \notin Calls
      BY CatalogAssumption
    <3>2. QED
      BY <1>1, <1>3, <3>1 DEF Reading
  <2>2. QED
    BY <2>1 DEF OneDiscovery, Discovering, Reading
<1>5. ASSUME NEW r \in Calls \ {s}
      PROVE  CallOK(call[r], version, known', took[r])
  <2>1. CallOK(call[r], version, known, took[r]) /\ call[r] \in Call
    BY DEF Inv, Shape
  <2>2. Reading(call[r]) => known'[call[r].of] = known[call[r].of]
    <3>1. call[r].of \in Providers
      BY <2>1 DEF Call
    <3>2. QED
      BY <1>3, <3>1
  <2>3. QED
    BY <2>1, <2>2 DEF CallOK
<1>6. CallOK(next, version, known', took[s])
  <2>1. took[s] \in Nat /\ took[s] <= 1
    BY Typed
  <2>2. QED
    BY <2>1 DEF CallOK, Reading
<1>7. \A r \in Calls : CallOK(call'[r], version', known', took'[r])
  BY <1>1, <1>5, <1>6
<1>8. \A r \in Calls : call'[r].listing # "ask" => call'[r].of \in configured'
  BY <1>1 DEF Inv
<1>9. RemovalsVisible' /\ \A p \in Providers : known'[p] <= version'[p]
  BY DEF RemovalsVisible
<1>10. QED
  BY <1>2, <1>4, <1>7, <1>8, <1>9 DEF Inv, CallOK, Reading

\* What a discovery that ends makes known began before it.
LEMMA NotedBegan ==
    ASSUME Inv, NEW s \in Calls, Discovering(s)
    PROVE  /\ Noted(s) \in [Providers -> Nat] /\ lock[call[s].of] = s
           /\ \A p \in Providers : Noted(s)[p] <= version[p]
           /\ \A p \in Providers : Noted(s)[p] = known[p] \/ p = call[s].of
           /\ Noted(s)[call[s].of] <= call[s].began /\ call[s].began \in Nat
<1> DEFINE q == call[s]
<1>0. q \in Call /\ q.of \in Providers
  BY Typed
<1>1. q.began \in Nat /\ q.erred \in Nat
  BY <1>0 DEF Call
<1>2. /\ q.began <= version[q.of] /\ known[q.of] <= q.began
      /\ q.stage = "recheck" => q.erred <= q.began
  BY DEF Inv, CallOK, Discovering, Reading
<1>3. /\ known \in [Providers -> Nat] /\ version \in [Providers -> Nat]
      /\ \A p \in Providers : known[p] <= version[p]
  BY DEF Inv, Shape
<1>4. lock[q.of] = s
  BY <1>0 DEF Inv, OneDiscovery
<1>5. CASE q.stage = "recheck" /\ q.erred > known[q.of]
  <2>1. Noted(s) = [known EXCEPT ![q.of] = q.erred]
    BY <1>5 DEF Noted
  <2>2. q.erred <= q.began /\ q.erred <= version[q.of]
    BY <1>0, <1>1, <1>2, <1>3, <1>5
  <2>3. QED
    BY <1>0, <1>1, <1>3, <1>4, <2>1, <2>2
<1>6. CASE ~(q.stage = "recheck" /\ q.erred > known[q.of])
  <2>1. Noted(s) = known
    BY <1>6 DEF Noted
  <2>2. QED
    BY <1>0, <1>1, <1>2, <1>3, <1>4, <2>1
<1>7. QED
  BY <1>5, <1>6

\* What follows a discovery is an answer unless the call had no effect yet.
LEMMA AfterSettled ==
    ASSUME Inv, NEW s \in Calls, call[s].stage \in Lookup, NEW next, After(call[s], next)
    PROVE  next.stage = "ended" \/ took[s] = 0
<1>1. call[s].stage \notin {"recheck", "ended"} => took[s] = 0
  BY Typed
<1>2. QED
  BY <1>1 DEF After, Lookup

\* Release.
LEMMA ReleaseLeaves ==
    ASSUME Inv, NEW s \in Calls, Discovering(s), Release(call[s].of)
    PROVE  /\ lock' \in [Providers -> Calls \cup {Nobody}]
           /\ \A p \in Providers : lock'[p] = IF lock[p] = s THEN Nobody ELSE lock[p]
<1>1. call[s].of \in Providers /\ lock \in [Providers -> Calls \cup {Nobody}]
  BY Typed DEF Inv, Shape
<1>2. \A p \in Providers : lock[p] = s <=> p = call[s].of
  BY DEF Inv, OneDiscovery
<1>3. QED
  BY <1>1, <1>2 DEF Release

\* Store.
LEMMA StoreStep ==
    ASSUME Inv, NEW s \in Calls, Store(s)
    PROVE  Inv'
<1> DEFINE q == call[s]
           new == [tools |-> q.found, ready |-> TRUE, expires |-> clock + Ttl,
                   began |-> q.began]
<1>0. q \in Call /\ q.of \in Providers
  BY Typed
<1>1. q.found \in Tools /\ q.began \in Nat /\ Discovering(s) /\ q.stage \in Lookup
  BY <1>0 DEF Call, Store, Discovering
<1>2. PICK next \in Got(q, q.found) : Set(s, next)
  BY DEF Store
<1>3. After(q, next)
  BY <1>0, <1>1, GotAfter
<1>4. next.stage = "ended" \/ took[s] = 0
  BY <1>1, <1>3, AfterSettled
<1>5. /\ Release(q.of) /\ known' = Noted(s) /\ cache' = [cache EXCEPT ![q.of] = new]
      /\ UNCHANGED <<clock, configured, server, version, took>>
  BY DEF Store, environment
<1>6. new \in Catalogue
  BY <1>1, CatalogAssumption DEF Catalogue, Inv, Shape
<1>7. /\ lock' \in [Providers -> Calls \cup {Nobody}]
      /\ \A p \in Providers : lock'[p] = IF lock[p] = s THEN Nobody ELSE lock[p]
  BY <1>1, <1>5, ReleaseLeaves
<1>8. /\ known' \in [Providers -> Nat] /\ \A p \in Providers : known'[p] <= version[p]
      /\ \A p \in Providers : known'[p] = known[p] \/ lock[p] = s
      /\ known'[q.of] <= q.began
      /\ \A p \in Providers : p # q.of => known'[p] = known[p]
  BY <1>1, <1>5, NotedBegan
<1>9. cache \in [Providers -> Catalogue] /\ \A p \in Providers : cache[p].ready => cache[p].began >= known[p]
  BY DEF Inv, Shape, RemovalsVisible
<1>10. new.began = q.began
  OBVIOUS
<1>11. known'[q.of] \in Nat
  BY <1>0, <1>8
<1> HIDE DEF new, q
<1>12. /\ cache' \in [Providers -> Catalogue]
       /\ \A p \in Providers : cache'[p].ready => cache'[p].began >= known'[p]
  <2>1. cache' \in [Providers -> Catalogue] /\ cache'[q.of] = new
        /\ \A p \in Providers : p # q.of => cache'[p] = cache[p]
    BY <1>0, <1>5, <1>6, <1>9
  <2>2. new.began >= known'[q.of]
    BY <1>1, <1>8, <1>10, <1>11
  <2>3. QED
    BY <1>8, <1>9, <2>1, <2>2
<1>13. QED
  BY <1>2, <1>3, <1>4, <1>5, <1>7, <1>8, <1>12, Leaves DEF q, After

\* The empty catalogue.
LEMMA InvalidShape == Invalid \in Catalogue /\ ~Invalid.ready
<1>1. Nothing \in Tools
  BY DEF Nothing, Tools
<1>2. QED
  BY <1>1 DEF Invalid, Catalogue

\* DiscoveryFails.
LEMMA DiscoveryFailsStep ==
    ASSUME Inv, NEW s \in Calls, DiscoveryFails(s)
    PROVE  Inv'
<1> DEFINE q == call[s]
           next == Missed(q)
<1>0. q \in Call /\ q.of \in Providers
  BY Typed
<1>1. Discovering(s) /\ q.stage \in Lookup
  BY DEF DiscoveryFails, Discovering
<1>2. Set(s, next)
  BY DEF DiscoveryFails
<1>3. After(q, next)
  BY <1>0, <1>1, MissedAfter
<1>4. next.stage = "ended" \/ took[s] = 0
  BY <1>1, <1>3, AfterSettled
<1>5. /\ Release(q.of) /\ known' = Noted(s) /\ cache' = [cache EXCEPT ![q.of] = Invalid]
      /\ UNCHANGED <<clock, configured, server, version, took>>
  BY DEF DiscoveryFails, environment, Invalidate
<1>7. /\ lock' \in [Providers -> Calls \cup {Nobody}]
      /\ \A p \in Providers : lock'[p] = IF lock[p] = s THEN Nobody ELSE lock[p]
  BY <1>1, <1>5, ReleaseLeaves
<1>8. /\ known' \in [Providers -> Nat] /\ \A p \in Providers : known'[p] <= version[p]
      /\ \A p \in Providers : known'[p] = known[p] \/ lock[p] = s
      /\ \A p \in Providers : p # q.of => known'[p] = known[p]
  BY <1>1, <1>5, NotedBegan
<1>9. cache \in [Providers -> Catalogue] /\ \A p \in Providers : cache[p].ready => cache[p].began >= known[p]
  BY DEF Inv, Shape, RemovalsVisible
<1> HIDE DEF next, q
<1>12. /\ cache' \in [Providers -> Catalogue]
       /\ \A p \in Providers : cache'[p].ready => cache'[p].began >= known'[p]
  BY <1>0, <1>5, <1>8, <1>9, InvalidShape
<1>13. QED
  BY <1>2, <1>3, <1>4, <1>5, <1>7, <1>8, <1>12, Leaves DEF After

\* Cancel.
LEMMA CancelStep ==
    ASSUME Inv, NEW s \in Calls, Cancel(s)
    PROVE  Inv'
<1> DEFINE next == Ended(call[s], "cancelled")
<1>1. call[s] \in Call /\ "cancelled" \in Outcomes
  BY Typed DEF Outcomes
<1>2. next \in Call /\ next.stage = "ended" /\ next.listing = "ask"
  BY <1>1, EndedShape
<1>3. /\ Set(s, next) /\ lock' = Left(s)
      /\ UNCHANGED <<clock, configured, server, version, cache, took, known>>
  BY DEF Cancel, environment
<1>4. /\ lock' \in [Providers -> Calls \cup {Nobody}]
      /\ \A p \in Providers : lock'[p] = IF lock[p] = s THEN Nobody ELSE lock[p]
  BY <1>3 DEF Left, Inv, Shape
<1>5. /\ cache' \in [Providers -> Catalogue] /\ known' \in [Providers -> Nat]
      /\ \A p \in Providers : known'[p] = known[p]
      /\ \A p \in Providers : known'[p] <= version[p]
      /\ \A p \in Providers : cache'[p].ready => cache'[p].began >= known'[p]
  BY <1>3 DEF Inv, Shape, RemovalsVisible
<1> HIDE DEF next
<1>6. QED
  BY <1>2, <1>3, <1>4, <1>5, Leaves

\* Again.
LEMMA AgainStep ==
    ASSUME Inv, NEW s \in Calls, Again(s)
    PROVE  Inv'
<1>1. /\ Set(s, NoCall) /\ ~Reading(call[s])
      /\ UNCHANGED <<clock, configured, server, version, cache, lock, known>>
  BY DEF Again, environment, Reading, Lookup
<1>2. /\ took' \in [Calls -> Nat] /\ took'[s] = 0
      /\ \A r \in Calls \ {s} : took'[r] = took[r]
      /\ cache' \in [Providers -> Catalogue]
  BY <1>1 DEF Again, Inv, Shape
<1>3. ~Reading(NoCall) /\ CallOK(NoCall, version, known, took'[s])
  BY <1>2, FirstCall, SettledOK
<1>4. QED
  BY <1>1, <1>2, <1>3, FirstCall, Quiet

\* Invoke.
LEMMA InvokeStep ==
    ASSUME Inv, NEW s \in Calls, Invoke(s)
    PROVE  Inv'
<1> DEFINE q == call[s]
<1>0. /\ q \in Call /\ q.of \in Providers /\ took[s] \in Nat
      /\ q.stage \notin {"recheck", "ended"} => took[s] = 0
  BY Typed
<1>1. /\ q.stage = "invoke" /\ ~Reading(q) /\ took[s] = 0
      /\ UNCHANGED <<clock, configured, server, version, lock, known>>
  BY <1>0 DEF Invoke, Reading, Lookup, environment
<1>2. PICK effect \in 0..1 :
         /\ took' = [took EXCEPT ![s] = @ + effect]
         /\ \/ Set(s, Ended(q, "success")) /\ UNCHANGED cache
            \/ Set(s, Ended(q, "error")) /\ UNCHANGED cache
            \/ /\ Invalidate(q.of)
               /\ Set(s, [Onto(q, "recheck") EXCEPT !.erred = version[q.of]])
  BY DEF Invoke
<1>3. took' \in [Calls -> Nat] /\ took'[s] \in Nat /\ took'[s] <= 1
      /\ \A r \in Calls \ {s} : took'[r] = took[r]
  BY <1>0, <1>1, <1>2 DEF Inv, Shape
<1>4. cache \in [Providers -> Catalogue]
  BY DEF Inv, Shape
<1>5. ASSUME NEW o \in Outcomes, Set(s, Ended(q, o)), UNCHANGED cache
      PROVE  Inv'
  <2>1. /\ Ended(q, o) \in Call /\ Ended(q, o).stage = "ended"
        /\ Ended(q, o).listing = "ask"
    BY <1>0, EndedShape
  <2>2. ~Reading(Ended(q, o)) /\ CallOK(Ended(q, o), version, known, took'[s])
    BY <1>3, <2>1, SettledOK
  <2>3. QED
    BY <1>1, <1>3, <1>4, <1>5, <2>1, <2>2, Quiet
<1>6. CASE /\ Invalidate(q.of)
           /\ Set(s, [Onto(q, "recheck") EXCEPT !.erred = version[q.of]])
  <2> DEFINE next == [Onto(q, "recheck") EXCEPT !.erred = version[q.of]]
  <2>1. "recheck" \in Stages /\ version[q.of] \in Nat
    BY <1>0 DEF Stages, Lookup, Inv, Shape
  <2>2. /\ Onto(q, "recheck") \in Call /\ Onto(q, "recheck").stage = "recheck"
        /\ Onto(q, "recheck").listing = "ask" /\ Onto(q, "recheck").of = q.of
    BY <1>0, <2>1, OntoShape
  <2>3. /\ next \in Call /\ next.stage = "recheck" /\ next.listing = "ask"
        /\ next.of = q.of /\ next.erred = version[q.of]
    BY <2>1, <2>2, FieldShape
  <2>4. Set(s, next)
    BY <1>6
  <2> HIDE DEF next
  <2>5. ~Reading(next) /\ CallOK(next, version, known, took'[s])
    BY <1>3, <2>1, <2>3 DEF CallOK, Reading
  <2>6. /\ cache' \in [Providers -> Catalogue]
        /\ \A p \in Providers : cache'[p] = cache[p] \/ ~cache'[p].ready
    BY <1>0, <1>4, <1>6, InvalidShape DEF Invalidate
  <2>7. QED
    BY <1>1, <1>3, <2>3, <2>4, <2>5, <2>6, Quiet
<1>7. "success" \in Outcomes /\ "error" \in Outcomes
  BY DEF Outcomes
<1>8. QED
  BY <1>2, <1>5, <1>6, <1>7

\* A step of the clock or of a downstream server.
LEMMA OthersStep ==
    ASSUME Inv, Tick \/ \E p \in Providers : Change(p)
    PROVE  Inv'
<1>1. UNCHANGED <<configured, cache, lock, call, took, known>>
  BY DEF Tick, Change
<1>2. /\ clock' \in Nat /\ server' \in [Providers -> Tools]
      /\ version' \in [Providers -> Nat]
      /\ \A p \in Providers : version'[p] >= version[p]
  <2>1. CASE Tick
    BY <2>1 DEF Tick, Inv, Shape
  <2>2. ASSUME NEW p \in Providers, Change(p)
        PROVE  /\ clock' \in Nat /\ server' \in [Providers -> Tools]
               /\ version' \in [Providers -> Nat]
               /\ \A o \in Providers : version'[o] >= version[o]
    <3>1. PICK n \in Names, t \in Tiers(p) \cup {"absent"} :
             server' = [server EXCEPT ![p][n] = t]
      BY <2>2 DEF Change
    <3>2. t \in {"read", "write", "absent"}
      BY DEF Tiers
    <3>3. server[p] \in Tools /\ server \in [Providers -> Tools]
      BY DEF Inv, Shape
    <3>4. [server[p] EXCEPT ![n] = t] \in Tools
      BY <3>2, <3>3 DEF Tools
    <3>5. server' \in [Providers -> Tools]
      BY <3>1, <3>3, <3>4
    <3>6. version \in [Providers -> Nat] /\ version' = [version EXCEPT ![p] = @ + 1]
      BY <2>2 DEF Change, Inv, Shape
    <3>7. QED
      BY <2>2, <3>5, <3>6 DEF Change, Inv, Shape
  <2>3. QED
    BY <2>1, <2>2
<1>3. Shape' /\ OneDiscovery' /\ RemovalsVisible'
  BY <1>1, <1>2 DEF Inv, Shape, OneDiscovery, Discovering, RemovalsVisible
<1>4. \A p \in Providers : known'[p] <= version'[p]
  BY <1>1, <1>2 DEF Inv, Shape
<1>5. ASSUME NEW r \in Calls
      PROVE  CallOK(call[r], version', known, took[r])
  <2>1. CallOK(call[r], version, known, took[r]) /\ call[r] \in Call
    BY DEF Inv, Shape
  <2>2. /\ call[r].of \in Providers /\ call[r].erred \in Nat /\ call[r].began \in Nat
        /\ version[call[r].of] \in Nat /\ version'[call[r].of] \in Nat
        /\ version'[call[r].of] >= version[call[r].of]
    BY <1>2, <2>1 DEF Call, Inv, Shape
  <2>3. QED
    BY <2>1, <2>2 DEF CallOK
<1>6. \A r \in Calls : call'[r].listing # "ask" => call'[r].of \in configured'
  BY <1>1 DEF Inv
<1>7. QED
  BY <1>1, <1>3, <1>4, <1>5, <1>6 DEF Inv, CallOK, Reading

\* Nothing happens.
LEMMA StutterStep ==
    ASSUME Inv, UNCHANGED vars
    PROVE  Inv'
BY DEF Inv, Shape, OneDiscovery, Discovering, RemovalsVisible, CallOK, Reading, vars

\* The first state.
LEMMA InitInv == Init => Inv
<1> SUFFICES ASSUME Init PROVE Inv
  OBVIOUS
<1>1. Shape
  BY FirstCall, InvalidShape DEF Init, Shape
<1>2. OneDiscovery /\ RemovalsVisible
  BY FirstCall, InvalidShape, CatalogAssumption
  DEF Init, OneDiscovery, RemovalsVisible, Discovering
<1>3. \A p \in Providers : known[p] <= version[p]
  BY DEF Init
<1>4. \A s \in Calls : CallOK(call[s], version, known, took[s])
  BY FirstCall DEF Init, CallOK, Reading, Lookup
<1>5. \A s \in Calls : call[s].listing # "ask" => call[s].of \in configured
  BY FirstCall DEF Init
<1>6. QED
  BY <1>1, <1>2, <1>3, <1>4, <1>5 DEF Inv

\* Every step.
LEMMA NextInv == Inv /\ [Next]_vars => Inv'
<1> SUFFICES ASSUME Inv, [Next]_vars PROVE Inv'
  OBVIOUS
<1>1. ASSUME NEW s \in Calls, Step(s)
      PROVE  Inv'
  BY <1>1, StartStep, NotConfiguredStep, AskStep, AcquireStep, ReadPageStep, StoreStep,
     DiscoveryFailsStep, InvokeStep, CancelStep, AgainStep DEF Step
<1>2. QED
  BY <1>1, OthersStep, StutterStep DEF Next

\* The inductive invariant holds of every behaviour.
LEMMA Invariance == Spec => []Inv
BY InitInv, NextInv, PTL DEF Spec

-----------------------------------------------------------------------------
(* What becomes of a call: which tool it reaches, by whose consent, and what *)
(* it is told.  Facts is inductive with Inv.                                 *)

\* No tool has the name that another one gets when its own is taken.
Undecorated == \A n, m \in Names : n # <<"downstream">> \o m

\* Of a tool whose entry never changed, a catalogue has that entry or none.
Honest(tools, p) == \A n \in Names \ changed[p] : tools[n] \in {"absent", server[p][n]}

\* A tool that has taken effect is there, and read once its page is.
StillThere(q) ==
    \/ q.target \in changed[q.of]
    \/ /\ server[q.of][q.target] # "absent"
       /\ q.listing = "read" =>
             \A i \in 1..Len(Order) :
                Order[i] = q.target /\ i <= q.page * PageSize => q.found[q.target] # "absent"

Allowed(q) ==
    \/ q.consent
    \/ q.target \in changed["openwa"]
    \/ server["openwa"][q.target] = "read"

Explained(q) == /\ q.outcome \notin {"unavailable", "raised", "done"}
                /\ q.outcome = "rejected" => q.blind \/ q.target \in changed[q.of]

CallFacts(q, t) ==
    /\ Honest(q.found, q.of) /\ (q.listing # "read" => q.page = 0)
    /\ q.stage = "route" => Shows(q.name, q.meant)
    /\ Undecorated =>
          (q.stage \in {"check", "invoke", "recheck"} \/ (q.stage = "ended" /\ t = 1) =>
              q.target = q.meant)
    /\ q.of = "openwa" /\ q.stage \in {"check", "invoke"} => Allowed(q)
    /\ q.stage = "recheck" /\ t = 1 => StillThere(q)
    /\ q.stage = "ended" /\ t = 1 => Explained(q)

Bounds ==
    /\ clock \in 0..MaxTime /\ configured \subseteq Providers
    /\ version \in [Providers -> 0..MaxChanges] /\ changed \in [Providers -> SUBSET Names]

Facts == /\ Bounds
         /\ \A p \in Providers : Honest(cache[p].tools, p)
         /\ \A s \in Calls : CallFacts(call[s], took[s])

\* Nothing is in a catalogue that is empty.
LEMMA NothingIsHonest == \A p : Honest(Nothing, p)
BY DEF Honest, Nothing

\* What an answered request keeps.
LEMMA EndedFields ==
    ASSUME NEW q \in Call, NEW o \in Outcomes
    PROVE  /\ Ended(q, o).stage = "ended" /\ Ended(q, o).of = q.of
           /\ Ended(q, o).meant = q.meant /\ Ended(q, o).target = q.target
           /\ Ended(q, o).blind = q.blind /\ Ended(q, o).outcome = o
           /\ Ended(q, o).found = Nothing /\ Ended(q, o).page = 0
BY DEF Ended, NoCall

\* A request is answered before its tool took effect.
LEMMA EndedUnused ==
    ASSUME NEW q \in Call, NEW o \in Outcomes
    PROVE  CallFacts(Ended(q, o), 0)
BY EndedFields, NothingIsHonest DEF CallFacts

\* A request is answered whether its tool took effect or not.
LEMMA EndedUsed ==
    ASSUME NEW q \in Call, NEW t, NEW o \in Outcomes \ {"unavailable", "raised", "done"},
           o = "rejected" /\ t = 1 => q.blind \/ q.target \in changed[q.of],
           Undecorated /\ t = 1 => q.target = q.meant
    PROVE  CallFacts(Ended(q, o), t)
BY EndedFields, NothingIsHonest DEF CallFacts, Explained

\* What a request keeps from stage to stage.
LEMMA OntoFields ==
    ASSUME NEW q \in Call, NEW stage \in Stages
    PROVE  /\ Onto(q, stage).stage = stage /\ Onto(q, stage).of = q.of
           /\ Onto(q, stage).meant = q.meant /\ Onto(q, stage).target = q.target
           /\ Onto(q, stage).name = q.name /\ Onto(q, stage).consent = q.consent
           /\ Onto(q, stage).blind = q.blind /\ Onto(q, stage).found = Nothing
           /\ Onto(q, stage).page = 0
BY DEF Onto, Call

\* A request that has surveyed one provider.
LEMMA SurveyedFacts ==
    ASSUME NEW q \in Call
    PROVE  CallFacts(Surveyed(q), 0)
<1>1. "survey" \in Stages /\ "done" \in Outcomes /\ "openwa" \in Providers
  BY DEF Stages, Lookup, Outcomes, Providers
<1>2. CASE q.op = "show" /\ q.of = "n8n"
  <2>1. Onto(q, "survey") \in Call /\ Onto(q, "survey").stage = "survey"
        /\ Onto(q, "survey").found = Nothing /\ Onto(q, "survey").page = 0
    BY <1>1, OntoShape, OntoFields
  <2>2. Surveyed(q) = [Onto(q, "survey") EXCEPT !.of = "openwa"]
    BY <1>2 DEF Surveyed
  <2>3. Surveyed(q).stage = "survey" /\ Surveyed(q).found = Nothing /\ Surveyed(q).page = 0
    BY <2>1, <2>2 DEF Call
  <2>4. QED
    BY <2>3, NothingIsHonest DEF CallFacts
<1>3. CASE ~(q.op = "show" /\ q.of = "n8n")
  BY <1>1, <1>3, EndedUnused DEF Surveyed
<1>4. QED
  BY <1>2, <1>3

\* Two names with the same prefix are the same.
LEMMA SamePrefix ==
    ASSUME NEW S, NEW m \in Seq(S), NEW n \in Seq(S), NEW x, <<x>> \o m = <<x>> \o n
    PROVE  m = n
<1>1. Len(m) \in Nat /\ Len(n) \in Nat /\ Len(<<x>> \o m) = Len(m) + 1
      /\ Len(<<x>> \o n) = Len(n) + 1
  OBVIOUS
<1>2. Len(m) = Len(n)
  BY <1>1
<1>3. ASSUME NEW i \in 1..Len(m)
      PROVE  m[i] = n[i]
  <2>1. i + 1 \in 1..(Len(m) + 1) /\ i \in 1..Len(n) /\ (i + 1) - 1 = i
    BY <1>2
  <2>2. (<<x>> \o m)[i + 1] = m[i] /\ (<<x>> \o n)[i + 1] = n[i]
    BY <2>1
  <2>3. QED
    BY <2>2
<1>4. QED
  BY <1>2, <1>3

\* A request goes on to look its tool up.
LEMMA ToCheckFacts ==
    ASSUME NEW q \in Call, NEW n \in Names, NEW next \in Call,
           next.stage = "check", next.of = q.of, next.meant = q.meant, next.target = n, next.found = Nothing, next.page = 0,
           Undecorated => n = q.meant, q.of = "openwa" => Allowed(next)
    PROVE  CallFacts(next, 0)
BY NothingIsHonest DEF CallFacts

\* A request that has been routed, and one that brought consent or not.
Aimed(q, n)      == [Onto(q, "check") EXCEPT !.target = n]
Decided(q, n, c) == [Onto(q, "check") EXCEPT !.target = n, !.consent = c]

\* What is known of the first.
LEMMA AimedFields ==
    ASSUME NEW q \in Call, NEW n \in Names
    PROVE  /\ Aimed(q, n) \in Call /\ Aimed(q, n).stage = "check" /\ Aimed(q, n).of = q.of
           /\ Aimed(q, n).meant = q.meant /\ Aimed(q, n).target = n
           /\ Aimed(q, n).found = Nothing /\ Aimed(q, n).page = 0
<1> DEFINE o == Onto(q, "check")
<1>1. "check" \in Stages
  BY DEF Stages, Lookup
<1>2. /\ o \in Call /\ o.stage = "check" /\ o.of = q.of /\ o.meant = q.meant
      /\ o.found = Nothing /\ o.page = 0
  BY <1>1, OntoShape, OntoFields
<1>3. Aimed(q, n) = [o EXCEPT !.target = n]
  BY DEF Aimed
<1> HIDE DEF o
<1>4. QED
  BY <1>2, <1>3 DEF Call

\* What is known of the second.
LEMMA DecidedFields ==
    ASSUME NEW q \in Call, NEW n \in Names, NEW c \in BOOLEAN
    PROVE  /\ Decided(q, n, c) \in Call /\ Decided(q, n, c).stage = "check"
           /\ Decided(q, n, c).of = q.of /\ Decided(q, n, c).meant = q.meant
           /\ Decided(q, n, c).target = n /\ Decided(q, n, c).found = Nothing
           /\ Decided(q, n, c).consent = c /\ Decided(q, n, c).page = 0
<1>1. Decided(q, n, c) = [Aimed(q, n) EXCEPT !.consent = c]
  BY DEF Aimed, Decided
<1>2. QED
  BY <1>1, AimedFields DEF Call

\* An exposed name leads back to the tool that it was shown for.
LEMMA BehindMeant ==
    ASSUME NEW name, NEW meant \in Names, Shows(name, meant),
           NEW tools \in Tools, NEW p, NEW n \in Behind(name, tools, p)
    PROVE  n \in Names /\ (Undecorated => n = meant)
<1> DEFINE names == Mapping(tools, Routed(p))
<1>1. n \in Names /\ name \in DOMAIN names /\ names[name] = n
  BY DEF Behind
<1>2. names \in NameMap
  BY MappingEntries
<1> HIDE DEF names
<1>3. Shows(name, n)
  BY <1>1, <1>2 DEF NameMap
<1>4. ASSUME Undecorated
      PROVE  n = meant
  <2>1. CASE name = meant
    BY <1>1, <1>3, <1>4, <2>1 DEF Shows, Undecorated
  <2>2. CASE name = <<"downstream">> \o meant /\ name = <<"downstream">> \o n
    <3>1. n \in Seq(STRING) /\ meant \in Seq(STRING)
      BY <1>1, CatalogAssumption DEF Names
    <3>2. QED
      BY <2>2, <3>1, SamePrefix
  <2>3. CASE name = <<"downstream">> \o meant /\ name = n
    BY <1>1, <1>4, <2>3 DEF Undecorated
  <2>4. QED
    BY <1>3, <2>1, <2>2, <2>3 DEF Shows
<1>5. QED
  BY <1>1, <1>4

\* An approval that covers the operation is somebody's consent to it.
LEMMA ApprovedConsents ==
    ASSUME NEW b \in Submissions, NEW n \in Names, NEW args \in Arguments,
           Approved(b, n, args)
    PROVE  Consents(b, n, args)
<1>1. PICK r \in Reference : Brought(b, n, args) = {r} /\ Covers(r, n, args)
  BY DEF Approved
<1>2. CASE r \in {b.meta, b.argument}
  <2>1. r = [by |-> r.by, tool |-> n, args |-> args] /\ r.by \in Humans
    BY <1>1 DEF Covers, Reference
  <2>2. QED
    BY <1>2, <2>1 DEF Consents
<1>3. CASE b.evidence \in Humans
  BY <1>3 DEF Consents
<1>4. QED
  BY <1>1, <1>2, <1>3 DEF Brought

\* A request that is routed to a downstream tool: what a listing has shown
\* leads there, and a write brings consent to it.
LEMMA RoutedFacts ==
    ASSUME NEW q \in Call, q.stage = "route", CallFacts(q, 0),
           NEW tools \in Tools, Honest(tools, q.of)
    PROVE  /\ q.of = "n8n" => \A next \in RoutedToN8N(q, tools) : CallFacts(next, 0)
           /\ q.of = "openwa" => \A next \in RoutedToOpenWA(q, tools) : CallFacts(next, 0)
<1>1. Shows(q.name, q.meant) /\ q.meant \in Names
  BY DEF CallFacts, Call
<1>2. "rejected" \in Outcomes /\ "unavailable" \in Outcomes
  BY DEF Outcomes
<1>3. ASSUME NEW p, NEW n \in Behind(q.name, tools, p)
      PROVE  n \in Names /\ (Undecorated => n = q.meant)
  BY <1>1, BehindMeant
<1>4. ASSUME q.of = "n8n", NEW next \in RoutedToN8N(q, tools)
      PROVE  CallFacts(next, 0)
  <2>1. CASE Behind(q.name, tools, "n8n") = {}
    BY <1>2, <1>4, <2>1, EndedUnused DEF RoutedToN8N
  <2>2. CASE Behind(q.name, tools, "n8n") # {}
    <3>1. PICK n \in Behind(q.name, tools, "n8n") : next = [Onto(q, "check") EXCEPT !.target = n]
      BY <1>4, <2>2 DEF RoutedToN8N
    <3>2. n \in Names /\ (Undecorated => n = q.meant) /\ q.of # "openwa"
      BY <1>3, <1>4
    <3>3. /\ next \in Call /\ next.stage = "check" /\ next.of = q.of
          /\ next.meant = q.meant /\ next.target = n /\ next.found = Nothing /\ next.page = 0
      BY <3>1, <3>2, AimedFields DEF Aimed
    <3>4. QED
      BY <3>2, <3>3, ToCheckFacts
  <2>3. QED
    BY <2>1, <2>2
<1>5. ASSUME q.of = "openwa", NEW next \in RoutedToOpenWA(q, tools)
      PROVE  CallFacts(next, 0)
  <2>1. CASE Behind(q.name, tools, "openwa") = {}
    BY <1>2, <1>5, <2>1, EndedUnused DEF RoutedToOpenWA
  <2>2. CASE Behind(q.name, tools, "openwa") # {}
    <3>1. PICK n \in Behind(q.name, tools, "openwa") : next \in Admitted(q, n, tools[n])
      BY <1>5, <2>2 DEF RoutedToOpenWA
    <3>2. n \in Names /\ (Undecorated => n = q.meant)
      BY <1>3
    <3>3. CASE tools[n] = "read"
      <4>1. next = [Onto(q, "check") EXCEPT !.target = n]
        BY <3>1, <3>3 DEF Admitted
      <4>2. /\ next \in Call /\ next.stage = "check" /\ next.of = q.of
            /\ next.meant = q.meant /\ next.target = n /\ next.found = Nothing /\ next.page = 0
        BY <3>2, <4>1, AimedFields DEF Aimed
      <4>3. Allowed(next)
        BY <1>5, <3>2, <3>3, <4>2 DEF Allowed, Honest
      <4>4. QED
        BY <3>2, <4>2, <4>3, ToCheckFacts
    <3>4. CASE tools[n] # "read"
      <4>1. PICK b \in Submissions, args \in Arguments : next = Judged(q, n, b, args)
        BY <3>1, <3>4 DEF Admitted
      <4>2. CASE Approved(b, n, args)
        <5>1. Consents(b, n, args) /\ Consents(b, n, args) \in BOOLEAN
          BY <3>2, <4>2, ApprovedConsents DEF Consents
        <5>2. next = Decided(q, n, Consents(b, n, args))
          BY <4>1, <4>2 DEF Judged, Decided
        <5>3. /\ next \in Call /\ next.stage = "check" /\ next.of = q.of
              /\ next.meant = q.meant /\ next.target = n /\ next.found = Nothing /\ next.page = 0
              /\ next.consent = Consents(b, n, args)
          BY <3>2, <5>1, <5>2, DecidedFields
        <5>4. Allowed(next)
          BY <5>1, <5>3 DEF Allowed
        <5>5. QED
          BY <3>2, <5>3, <5>4, ToCheckFacts
      <4>3. CASE ~Approved(b, n, args)
        BY <1>2, <4>1, <4>3, EndedUnused DEF Judged
      <4>4. QED
        BY <4>2, <4>3
    <3>5. QED
      BY <3>3, <3>4
  <2>3. QED
    BY <2>1, <2>2
<1>6. QED
  BY <1>4, <1>5

\* A request that looked its tool up, before invoking it or after a failure.
LEMMA CheckedFacts ==
    ASSUME NEW q \in Call, q.stage \in {"check", "recheck"}, NEW t \in {0, 1},
           q.stage = "check" => t = 0, CallFacts(q, t), NEW tools \in Tools,
           t = 1 => tools[q.target] # "absent" \/ q.blind \/ q.target \in changed[q.of]
    PROVE  CallFacts(Checked(q, tools), t)
<1>1. "invoke" \in Stages /\ "rejected" \in Outcomes /\ "error" \in Outcomes
  BY DEF Stages, Outcomes
<1>2. Undecorated => q.target = q.meant
  BY DEF CallFacts
<1>3. CASE tools[q.target] = "absent"
  <2>1. Checked(q, tools) = Ended(q, "rejected")
    BY <1>3 DEF Checked
  <2>2. "rejected" \in Outcomes \ {"unavailable", "raised", "done"}
    BY <1>1
  <2>3. QED
    BY <1>2, <1>3, <2>1, <2>2, EndedUsed
<1>4. CASE tools[q.target] # "absent" /\ q.stage = "check"
  <2>1. Checked(q, tools) = Onto(q, "invoke")
    BY <1>4 DEF Checked
  <2>2. q.of = "openwa" => Allowed(q)
    BY <1>4 DEF CallFacts
  <2>3. q.of = "openwa" => Allowed(Onto(q, "invoke"))
    BY <1>1, <2>2, OntoFields DEF Allowed
  <2>4. QED
    BY <1>1, <1>2, <1>4, <2>1, <2>3, OntoFields, NothingIsHonest DEF CallFacts
<1>5. CASE tools[q.target] # "absent" /\ q.stage # "check"
  <2>1. Checked(q, tools) = Ended(q, "error")
    BY <1>5 DEF Checked
  <2>2. "error" \in Outcomes \ {"unavailable", "raised", "done"} /\ "error" # "rejected"
    BY <1>1
  <2>3. QED
    BY <1>2, <2>1, <2>2, EndedUsed
<1>6. QED
  BY <1>3, <1>4, <1>5

\* list_tools returned.
LEMMA GotFacts ==
    ASSUME NEW q \in Call, q.stage \in Lookup, NEW t \in {0, 1}, q.stage # "recheck" => t = 0,
           CallFacts(q, t), NEW tools \in Tools, Honest(tools, q.of),
           t = 1 => tools[q.target] # "absent" \/ q.target \in changed[q.of],
           NEW next \in Got(q, tools)
    PROVE  CallFacts(next, t)
<1>1. q.of \in {"n8n", "openwa"}
  BY DEF Call, Providers
<1>2. CASE q.stage = "survey"
  BY <1>2, SurveyedFacts DEF Got
<1>3. CASE q.stage = "route"
  <2>1. t = 0 /\ CallFacts(q, 0)
    BY <1>3
  <2>2. /\ q.of = "n8n" => next \in RoutedToN8N(q, tools)
        /\ q.of = "openwa" => next \in RoutedToOpenWA(q, tools)
    BY <1>1, <1>3 DEF Got
  <2>3. QED
    BY <1>1, <1>3, <2>1, <2>2, RoutedFacts
<1>4. CASE q.stage \in {"check", "recheck"}
  <2>1. next = Checked(q, tools)
    BY <1>4 DEF Got
  <2>2. q.stage = "check" => t = 0
    OBVIOUS
  <2>3. QED
    BY <1>4, <2>1, <2>2, CheckedFacts
<1>5. QED
  BY <1>2, <1>3, <1>4 DEF Lookup

\* list_tools raised.
LEMMA MissedFacts ==
    ASSUME NEW q \in Call, q.stage \in Lookup, NEW t \in {0, 1}, q.stage # "recheck" => t = 0,
           CallFacts(q, t)
    PROVE  CallFacts(Missed(q), t)
<1>1. "error" \in Outcomes /\ "raised" \in Outcomes
  BY DEF Outcomes
<1>2. CASE q.stage = "recheck"
  <2> DEFINE b == [q EXCEPT !.blind = TRUE]
  <2>1. /\ b \in Call /\ b.stage = "recheck" /\ b.blind /\ b.found = q.found /\ b.of = q.of
        /\ b.target = q.target /\ b.meant = q.meant /\ b.listing = q.listing
        /\ b.page = q.page
    BY <1>2 DEF Call
  <2>2. Nothing \in Tools
    BY DEF Nothing, Tools
  <2>3. Missed(q) = Checked(b, Nothing)
    BY <1>2 DEF Missed
  <2> HIDE DEF b
  <2>4. CallFacts(b, t)
    BY <1>2, <2>1 DEF CallFacts, StillThere
  <2>5. QED
    BY <2>1, <2>2, <2>3, <2>4, CheckedFacts
<1>3. CASE q.stage = "survey"
  BY <1>1, <1>3, EndedUnused, SurveyedFacts DEF Missed
<1>4. CASE q.stage \in {"route", "check"}
  BY <1>1, <1>4, EndedUnused DEF Missed
<1>5. QED
  BY <1>2, <1>3, <1>4 DEF Lookup

\* A step of one request, which says nothing new of the others.
LEMMA Goes ==
    ASSUME Inv, Facts, NEW s \in Calls, NEW next, Set(s, next), CallFacts(next, took'[s]),
           \A r \in Calls \ {s} : took'[r] = took[r],
           \A p \in Providers : Honest(cache'[p].tools, p), UNCHANGED environment
    PROVE  Facts'
<1>1. call'[s] = next /\ \A r \in Calls \ {s} : call'[r] = call[r]
  BY DEF Inv, Shape, Set
<1>2. UNCHANGED <<clock, configured, version, changed, server>>
  BY DEF environment
<1>3. \A r \in Calls : CallFacts(call'[r], took'[r])
  BY <1>1 DEF Facts
<1>4. \A r \in Calls : CallFacts(call[r], took[r])'
  BY <1>2, <1>3
     DEF CallFacts, Honest, Allowed, StillThere, Explained
<1>5. \A p \in Providers : Honest(cache[p].tools, p)'
  BY <1>2 DEF Honest
<1>6. QED
  BY <1>2, <1>4, <1>5 DEF Facts, Bounds

\* A request, what it knows and whether its tool has taken effect.
LEMMA KnownOf ==
    ASSUME Inv, Facts, NEW s \in Calls
    PROVE  /\ call[s] \in Call /\ call[s].of \in Providers /\ took[s] \in {0, 1}
           /\ call[s].stage \notin {"recheck", "ended"} => took[s] = 0
           /\ CallFacts(call[s], took[s])
           /\ cache[call[s].of].tools \in Tools
           /\ Honest(cache[call[s].of].tools, call[s].of)
<1>1. took[s] \in Nat /\ took[s] <= 1
  BY Typed
<1>2. took[s] \in {0, 1}
  BY <1>1
<1>3. QED
  BY <1>2, Typed DEF Facts

\* Start.
LEMMA StartFacts ==
    ASSUME Inv, Facts, NEW s \in Calls, Start(s)
    PROVE  Facts'
<1>0. /\ UNCHANGED <<environment, cache>> /\ took' = [took EXCEPT ![s] = 0]
      /\ took \in [Calls -> Nat]
  BY DEF Start, Inv, Shape
<1>1. took'[s] = 0 /\ \A r \in Calls \ {s} : took'[r] = took[r]
  BY <1>0
<1>2. \A p \in Providers : Honest(cache'[p].tools, p)
  BY <1>0 DEF Facts
<1>3. CASE \E op \in Ops \ {"call"}, p \in Providers :
                Set(s, [NoCall EXCEPT !.stage = "survey", !.op = op, !.of = p])
  <2>1. PICK op \in Ops, p \in Providers :
                Set(s, [NoCall EXCEPT !.stage = "survey", !.op = op, !.of = p])
    BY <1>3
  <2> DEFINE next == [NoCall EXCEPT !.stage = "survey", !.op = op, !.of = p]
  <2>2. next.stage = "survey" /\ next.found = Nothing /\ next.page = 0
    BY DEF NoCall
  <2>3. Set(s, next)
    BY <2>1
  <2> HIDE DEF next
  <2>4. CallFacts(next, took'[s])
    BY <1>1, <2>2, NothingIsHonest DEF CallFacts
  <2>5. QED
    BY <1>0, <1>1, <1>2, <2>3, <2>4, Goes
<1>4. CASE \E p \in Providers, tools \in Tools, n \in Names :
              LET shown == Mapping(tools, Native(p)) IN
              \E e \in DOMAIN shown :
                 /\ shown[e] = n
                 /\ Set(s, [NoCall EXCEPT !.stage = "route", !.op = "call", !.of = p,
                                          !.meant = n, !.name = e])
  <2>1. PICK p \in Providers, tools \in Tools, n \in Names :
              \E e \in DOMAIN Mapping(tools, Native(p)) :
                 /\ Mapping(tools, Native(p))[e] = n
                 /\ Set(s, [NoCall EXCEPT !.stage = "route", !.op = "call", !.of = p,
                                          !.meant = n, !.name = e])
    BY <1>4
  <2>2. PICK e \in DOMAIN Mapping(tools, Native(p)) :
                 /\ Mapping(tools, Native(p))[e] = n
                 /\ Set(s, [NoCall EXCEPT !.stage = "route", !.op = "call", !.of = p,
                                          !.meant = n, !.name = e])
    BY <2>1
  <2>3. Mapping(tools, Native(p)) \in NameMap
    BY MappingEntries
  <2>4. Shows(e, n)
    BY <2>2, <2>3 DEF NameMap
  <2> DEFINE next == [NoCall EXCEPT !.stage = "route", !.op = "call", !.of = p,
                                    !.meant = n, !.name = e]
  <2>5. /\ next.stage = "route" /\ next.found = Nothing /\ next.name = e
        /\ next.meant = n /\ next.page = 0
    BY DEF NoCall
  <2>6. Set(s, next)
    BY <2>2
  <2> HIDE DEF next
  <2>7. CallFacts(next, took'[s])
    BY <1>1, <2>4, <2>5, NothingIsHonest DEF CallFacts
  <2>8. QED
    BY <1>0, <1>1, <1>2, <2>6, <2>7, Goes
<1>5. QED
  BY <1>3, <1>4 DEF Start

\* A step that neither changes the catalogue nor takes effect.
LEMMA GoesOn ==
    ASSUME Inv, Facts, NEW s \in Calls, NEW next, Set(s, next), CallFacts(next, took[s]),
           UNCHANGED <<environment, cache, took>>
    PROVE  Facts'
<1>1. \A p \in Providers : Honest(cache'[p].tools, p)
  BY DEF Facts
<1>2. QED
  BY <1>1, Goes

\* NotConfigured.
LEMMA NotConfiguredFacts ==
    ASSUME Inv, Facts, NEW s \in Calls, NotConfigured(s)
    PROVE  Facts'
<1> DEFINE q == call[s]
<1>1. /\ q.stage \in {"survey", "route"} /\ UNCHANGED <<environment, cache, took>>
  BY DEF NotConfigured
<1>2. q \in Call /\ took[s] = 0
  BY <1>1, KnownOf
<1>3. "error" \in Outcomes /\ "raised" \in Outcomes
  BY DEF Outcomes
<1>4. PICK next : Set(s, next) /\ next = CASE q.op \in {"show", "status"} -> Surveyed(q)
                                           [] q.op = "catalog" -> Ended(q, "error")
                                           [] OTHER -> Ended(q, "raised")
  BY DEF NotConfigured
<1>5. CallFacts(next, 0)
  BY <1>2, <1>3, <1>4, SurveyedFacts, EndedUnused
<1>6. QED
  BY <1>1, <1>2, <1>4, <1>5, GoesOn

\* The catalogue that the client has is used, though never after a failure.
LEMMA UsesFacts ==
    ASSUME Inv, Facts, NEW s \in Calls, call[s].stage \in Lookup, ~Forced(call[s]),
           \E next \in Got(call[s], cache[call[s].of].tools) : Set(s, next),
           UNCHANGED <<environment, cache, took>>
    PROVE  Facts'
<1>1. PICK next \in Got(call[s], cache[call[s].of].tools) : Set(s, next)
  OBVIOUS
<1>2. call[s].stage # "recheck" /\ took[s] = 0 /\ took[s] \in {0, 1}
  BY KnownOf DEF Forced, Lookup
<1>3. CallFacts(next, took[s])
  BY <1>1, <1>2, KnownOf, GotFacts
<1>4. QED
  BY <1>1, <1>3, GoesOn

\* Before the first page nothing has been read.
LEMMA NoneRead == \A i \in 1..Len(Order) : ~(i <= 0 * PageSize)
<1>1. PageSize \in Nat /\ Len(Order) \in Nat
  BY CatalogAssumption
<1>2. 0 * PageSize = 0
  BY <1>1
<1>3. QED
  BY <1>1, <1>2

\* A request that waits for the lock, or has it, knows what it knew.
LEMMA ListingFacts ==
    ASSUME NEW q \in Call, NEW t, CallFacts(q, t), q.listing # "read", NEW next,
           next = [q EXCEPT !.listing = "wait"]
             \/ \E k \in Nat : next = [q EXCEPT !.listing = "read", !.began = k]
    PROVE  CallFacts(next, t)
<1>0. q.page = 0
  BY DEF CallFacts
<1>1. /\ next.stage = q.stage /\ next.of = q.of /\ next.found = q.found
      /\ next.name = q.name /\ next.meant = q.meant /\ next.target = q.target
      /\ next.consent = q.consent /\ next.blind = q.blind /\ next.outcome = q.outcome
      /\ next.page = 0
  BY <1>0 DEF Call
<1>2. StillThere(q) => StillThere(next)
  <2>1. \A i \in 1..Len(Order) : ~(i <= next.page * PageSize)
    BY <1>1, NoneRead
  <2>2. QED
    BY <1>1, <2>1 DEF StillThere
<1>3. QED
  BY <1>1, <1>2 DEF CallFacts, Allowed, Explained

\* Ask.
LEMMA AskFacts ==
    ASSUME Inv, Facts, NEW s \in Calls, Ask(s)
    PROVE  Facts'
<1> DEFINE q == call[s]
<1>1. q.stage \in Lookup /\ UNCHANGED <<environment, cache, took>>
  BY DEF Ask
<1>2. CASE ~Forced(q) /\ \E next \in Got(q, cache[q.of].tools) : Set(s, next)
  BY <1>1, <1>2, UsesFacts
<1>3. CASE Set(s, [q EXCEPT !.listing = "wait"])
  <2>1. CallFacts([q EXCEPT !.listing = "wait"], took[s])
    BY KnownOf, ListingFacts DEF Ask
  <2>2. QED
    BY <1>1, <1>3, <2>1, GoesOn
<1>4. QED
  BY <1>2, <1>3 DEF Ask

\* Acquire.
LEMMA AcquireFacts ==
    ASSUME Inv, Facts, NEW s \in Calls, Acquire(s)
    PROVE  Facts'
<1> DEFINE q == call[s]
           next == [q EXCEPT !.listing = "read", !.began = version[q.of]]
<1>1. q.stage \in Lookup /\ q.listing # "read" /\ UNCHANGED <<environment, cache, took>>
  BY DEF Acquire
<1>2. CASE ~Forced(q) /\ \E n \in Got(q, cache[q.of].tools) : Set(s, n)
  BY <1>1, <1>2, UsesFacts
<1>3. CASE Set(s, next)
  <2>1. version[q.of] \in Nat
    BY KnownOf DEF Inv, Shape
  <2>2. q \in Call /\ CallFacts(q, took[s])
    BY KnownOf
  <2> HIDE DEF q
  <2>3. \E k \in Nat : next = [q EXCEPT !.listing = "read", !.began = k]
    BY <2>1
  <2> HIDE DEF next
  <2>4. CallFacts(next, took[s])
    BY <1>1, <2>2, <2>3, ListingFacts
  <2>5. QED
    BY <1>1, <1>3, <2>4, GoesOn
<1>4. QED
  BY <1>2, <1>3 DEF Acquire

\* A page has the tools that are on it, and is the next one.
LEMMA OnPage ==
    ASSUME NEW q \in Call, NEW i \in 1..Len(Order), i <= (q.page + 1) * PageSize
    PROVE  \/ i <= q.page * PageSize
           \/ i \in (q.page * PageSize + 1)..((q.page + 1) * PageSize) \cap 1..Len(Order)
<1>1. /\ q.page \in Nat /\ PageSize \in Nat /\ Len(Order) \in Nat
  BY CatalogAssumption DEF Call
<1>2. q.page * PageSize \in Nat /\ (q.page + 1) * PageSize \in Nat
  BY <1>1
<1>3. QED
  BY <1>1, <1>2

\* ReadPage.
LEMMA ReadPageFacts ==
    ASSUME Inv, Facts, NEW s \in Calls, ReadPage(s)
    PROVE  Facts'
<1> DEFINE q == call[s]
           onPage == {Order[i] : i \in (q.page * PageSize + 1)..((q.page + 1) * PageSize)
                                           \cap 1..Len(Order)}
           found == [n \in Names |-> IF n \in onPage THEN server[q.of][n] ELSE q.found[n]]
           a == [q EXCEPT !.page = q.page + 1]
           next == [a EXCEPT !.found = found]
<1>1. Set(s, next) /\ Discovering(s) /\ UNCHANGED <<environment, cache, took>>
  BY DEF ReadPage
<1>2. /\ q \in Call /\ q.of \in Providers /\ q.target \in Names /\ CallFacts(q, took[s])
      /\ q.listing = "read" /\ q.found \in Tools /\ q.stage \in Lookup /\ q.page \in Nat
  BY <1>1, KnownOf DEF Discovering, Call
<1>3. server[q.of] \in Tools
  BY <1>2 DEF Inv, Shape
<1> HIDE DEF q, onPage
<1>4. \A n \in Names : found[n] = IF n \in onPage THEN server[q.of][n] ELSE q.found[n]
  OBVIOUS
<1> HIDE DEF found
<1>5. /\ a.stage = q.stage /\ a.of = q.of /\ a.name = q.name /\ a.meant = q.meant
      /\ a.target = q.target /\ a.listing = q.listing
      /\ a.consent = q.consent /\ a.page = q.page + 1
  BY <1>2 DEF Call
<1> HIDE DEF a
<1>6. /\ next.stage = q.stage /\ next.of = q.of /\ next.found = found
      /\ next.name = q.name /\ next.meant = q.meant /\ next.target = q.target
      /\ next.listing = "read" /\ next.page = q.page + 1 /\ next.consent = q.consent
  BY <1>2, <1>5 DEF Call
<1> HIDE DEF next
<1>7. Honest(found, q.of)
  BY <1>2, <1>3, <1>4 DEF CallFacts, Honest
<1>8. StillThere(q) => StillThere(next)
  <2> SUFFICES ASSUME q.target \notin changed[q.of], server[q.of][q.target] # "absent", StillThere(q)
               PROVE  StillThere(next)
    BY <1>6 DEF StillThere
  <2>1. ASSUME NEW i \in 1..Len(Order), Order[i] = q.target, i <= (q.page + 1) * PageSize
        PROVE  found[q.target] # "absent"
    <3>1. CASE i <= q.page * PageSize
      <4>1. q.found[q.target] # "absent"
        BY <1>2, <2>1, <3>1 DEF StillThere
      <4>2. QED
        BY <1>2, <1>4, <4>1
    <3>2. CASE i \in (q.page * PageSize + 1)..((q.page + 1) * PageSize) \cap 1..Len(Order)
      <4>1. q.target \in onPage
        BY <2>1, <3>2 DEF onPage
      <4>2. QED
        BY <1>2, <1>4, <4>1
    <3>3. QED
      BY <1>2, <2>1, <3>1, <3>2, OnPage
  <2>2. QED
    BY <1>6, <2>1 DEF StillThere
<1>9. CallFacts(next, took[s])
  BY <1>2, <1>6, <1>7, <1>8 DEF CallFacts, Lookup, Allowed
<1>10. QED
  BY <1>1, <1>9, GoesOn

\* Store.
LEMMA StoreFacts ==
    ASSUME Inv, Facts, NEW s \in Calls, Store(s)
    PROVE  Facts'
<1> DEFINE q == call[s]
           new == [tools |-> q.found, ready |-> TRUE, expires |-> clock + Ttl,
                   began |-> q.began]
<1>1. /\ Discovering(s) /\ PagesRead(q) /\ UNCHANGED <<environment, took>>
      /\ cache' = [cache EXCEPT ![q.of] = new]
  BY DEF Store
<1>2. /\ q \in Call /\ q.of \in Providers /\ q.target \in Names /\ q.found \in Tools
      /\ q.listing = "read" /\ q.stage \in Lookup /\ q.page \in Nat
      /\ took[s] \in {0, 1} /\ CallFacts(q, took[s]) /\ (q.stage # "recheck" => took[s] = 0)
  BY <1>1, KnownOf DEF Discovering, Call, Lookup
<1>3. PICK next \in Got(q, q.found) : Set(s, next)
  BY DEF Store
<1>4. took[s] = 1 => q.found[q.target] # "absent" \/ q.target \in changed[q.of]
  <2>1. PICK i \in 1..Len(Order) : Order[i] = q.target
    BY <1>2 DEF Names
  <2>2. Len(Order) \in Nat /\ q.page * PageSize \in Nat
    BY <1>2, CatalogAssumption
  <2>3. i <= q.page * PageSize
    BY <1>1, <2>2 DEF PagesRead
  <2>4. took[s] = 1 => StillThere(q)
    BY <1>2 DEF CallFacts
  <2>5. QED
    BY <1>2, <2>1, <2>3, <2>4 DEF StillThere
<1>5. Honest(q.found, q.of)
  BY <1>2 DEF CallFacts
<1>6. CallFacts(next, took[s])
  BY <1>2, <1>3, <1>4, <1>5, GotFacts
<1>7. \A p \in Providers : Honest(cache'[p].tools, p)
  <2>1. new.tools = q.found
    OBVIOUS
  <2> HIDE DEF new, q
  <2>2. cache'[q.of] = new /\ \A p \in Providers : p # q.of => cache'[p] = cache[p]
    BY <1>1, <1>2 DEF Inv, Shape
  <2>3. QED
    BY <1>5, <2>1, <2>2 DEF Facts
<1>8. CallFacts(next, took'[s]) /\ UNCHANGED took
  BY <1>1, <1>6
<1>9. QED
  BY <1>1, <1>3, <1>7, <1>8, Goes

\* An emptied catalogue.
LEMMA InvalidateHonest ==
    ASSUME Inv, Facts, NEW o \in Providers, Invalidate(o)
    PROVE  \A p \in Providers : Honest(cache'[p].tools, p)
<1>1. cache'[o] = Invalid /\ \A p \in Providers : p # o => cache'[p] = cache[p]
  BY DEF Inv, Shape, Invalidate
<1>2. Invalid.tools = Nothing
  BY DEF Invalid
<1>3. QED
  BY <1>1, <1>2, NothingIsHonest DEF Facts

\* DiscoveryFails.
LEMMA DiscoveryFailsFacts ==
    ASSUME Inv, Facts, NEW s \in Calls, DiscoveryFails(s)
    PROVE  Facts'
<1> DEFINE q == call[s]
<1>1. /\ Discovering(s) /\ Invalidate(q.of) /\ Set(s, Missed(q))
      /\ UNCHANGED <<environment, took>>
  BY DEF DiscoveryFails
<1>2. /\ q \in Call /\ q.of \in Providers /\ q.stage \in Lookup /\ took[s] \in {0, 1}
      /\ CallFacts(q, took[s]) /\ (q.stage # "recheck" => took[s] = 0)
  BY <1>1, KnownOf DEF Discovering, Lookup
<1>3. CallFacts(Missed(q), took[s])
  BY <1>2, MissedFacts
<1>4. CallFacts(Missed(q), took'[s]) /\ UNCHANGED took
  BY <1>1, <1>3
<1>5. \A p \in Providers : Honest(cache'[p].tools, p)
  BY <1>1, <1>2, InvalidateHonest
<1>6. QED
  BY <1>1, <1>4, <1>5, Goes

\* Cancel.
LEMMA CancelFacts ==
    ASSUME Inv, Facts, NEW s \in Calls, Cancel(s)
    PROVE  Facts'
<1> DEFINE q == call[s]
<1>1. /\ q.stage \notin {"idle", "ended"} /\ Set(s, Ended(q, "cancelled"))
      /\ UNCHANGED <<environment, cache, took>>
  BY DEF Cancel
<1>2. /\ q \in Call /\ took[s] \in {0, 1} /\ CallFacts(q, took[s])
      /\ (q.stage # "recheck" => took[s] = 0)
  BY <1>1, KnownOf
<1>3. "cancelled" \in Outcomes \ {"unavailable", "raised", "done"}
  BY DEF Outcomes
<1>4. Undecorated /\ took[s] = 1 => q.target = q.meant
  BY <1>2 DEF CallFacts
<1>5. CallFacts(Ended(q, "cancelled"), took[s])
  BY <1>2, <1>3, <1>4, EndedUsed
<1>6. QED
  BY <1>1, <1>5, GoesOn

\* Again.
LEMMA AgainFacts ==
    ASSUME Inv, Facts, NEW s \in Calls, Again(s)
    PROVE  Facts'
<1>1. /\ Set(s, NoCall) /\ took' = [took EXCEPT ![s] = 0] /\ took \in [Calls -> Nat]
      /\ UNCHANGED <<environment, cache>>
  BY DEF Again, Inv, Shape
<1>2. took'[s] = 0 /\ \A r \in Calls \ {s} : took'[r] = took[r]
  BY <1>1
<1>3. NoCall.stage = "idle" /\ NoCall.found = Nothing /\ NoCall.page = 0
  BY DEF NoCall
<1>4. CallFacts(NoCall, took'[s])
  BY <1>3, NothingIsHonest DEF CallFacts
<1>5. \A p \in Providers : Honest(cache'[p].tools, p)
  BY <1>1 DEF Facts
<1>6. QED
  BY <1>1, <1>2, <1>4, <1>5, Goes

\* Invoke.
LEMMA InvokeFacts ==
    ASSUME Inv, Facts, NEW s \in Calls, Invoke(s)
    PROVE  Facts'
<1> DEFINE q == call[s]
           next == [Onto(q, "recheck") EXCEPT !.erred = version[q.of]]
<1>1. q.stage = "invoke" /\ UNCHANGED environment
  BY DEF Invoke
<1>2. /\ q \in Call /\ q.of \in Providers /\ took[s] = 0 /\ CallFacts(q, 0)
  BY <1>1, KnownOf
<1>3. Undecorated => q.target = q.meant
  BY <1>1, <1>2 DEF CallFacts
<1>4. PICK effect \in 0..1 :
         /\ effect = 1 => server[q.of][q.target] # "absent"
         /\ took' = [took EXCEPT ![s] = @ + effect]
         /\ \/ Set(s, Ended(q, "success")) /\ UNCHANGED cache
            \/ Set(s, Ended(q, "error")) /\ UNCHANGED cache
            \/ Invalidate(q.of) /\ Set(s, next)
  BY DEF Invoke
<1>5. took'[s] \in {0, 1} /\ took'[s] = effect /\ \A r \in Calls \ {s} : took'[r] = took[r]
  BY <1>2, <1>4 DEF Inv, Shape
<1>6. UNCHANGED cache => \A p \in Providers : Honest(cache'[p].tools, p)
  BY DEF Facts
<1>7. ASSUME NEW o \in {"success", "error"}, Set(s, Ended(q, o)), UNCHANGED cache
      PROVE  Facts'
  <2>1. o \in Outcomes \ {"unavailable", "raised", "done"} /\ o # "rejected"
    BY <1>7 DEF Outcomes
  <2>2. CallFacts(Ended(q, o), took'[s])
    BY <1>2, <1>3, <2>1, EndedUsed
  <2>3. QED
    BY <1>1, <1>5, <1>6, <1>7, <2>2, Goes
<1>8. CASE Invalidate(q.of) /\ Set(s, next)
  <2>1. "recheck" \in Stages
    BY DEF Stages, Lookup
  <2>2. /\ Onto(q, "recheck") \in Call /\ Onto(q, "recheck").stage = "recheck"
        /\ Onto(q, "recheck").listing = "ask" /\ Onto(q, "recheck").of = q.of
        /\ Onto(q, "recheck").target = q.target /\ Onto(q, "recheck").meant = q.meant
        /\ Onto(q, "recheck").found = Nothing /\ Onto(q, "recheck").page = 0
    BY <1>2, <2>1, OntoShape, OntoFields
  <2>3. /\ next.stage = "recheck" /\ next.listing = "ask" /\ next.of = q.of
        /\ next.target = q.target /\ next.meant = q.meant
        /\ next.found = Nothing /\ next.page = 0
    BY <2>2 DEF Call
  <2> HIDE DEF next
  <2>4. took'[s] = 1 => StillThere(next)
    BY <1>4, <1>5, <2>3 DEF StillThere
  <2>5. CallFacts(next, took'[s])
    BY <1>3, <2>3, <2>4, NothingIsHonest DEF CallFacts
  <2>6. \A p \in Providers : Honest(cache'[p].tools, p)
    BY <1>2, <1>8, InvalidateHonest
  <2>7. QED
    BY <1>1, <1>5, <1>8, <2>5, <2>6, Goes
<1>9. QED
  BY <1>4, <1>7, <1>8

\* What is known of a tool whose entry has not changed stays true.
LEMMA Monotone ==
    ASSUME \A p \in Providers : changed[p] \subseteq changed'[p],
           \A p \in Providers : \A n \in Names \ changed'[p] : server'[p][n] = server[p][n]
    PROVE  /\ \A p \in Providers : \A tools : Honest(tools, p) => Honest(tools, p)'
           /\ \A q \in Call : \A t : CallFacts(q, t) => CallFacts(q, t)'
<1>1. ASSUME NEW p \in Providers, NEW tools, Honest(tools, p)
      PROVE  \A n \in Names \ changed'[p] : tools[n] \in {"absent", server'[p][n]}
  BY <1>1 DEF Honest
<1>2. \A p \in Providers : \A tools :
         Honest(tools, p) => \A n \in Names \ changed'[p] : tools[n] \in {"absent", server'[p][n]}
  BY <1>1
<1>3. ASSUME NEW q \in Call, NEW t, CallFacts(q, t)
      PROVE  CallFacts(q, t)'
  <2>1. q.of \in Providers /\ q.target \in Names /\ "openwa" \in Providers
    BY DEF Call, Providers
  <2>2. Honest(q.found, q.of)'
    BY <1>2, <1>3, <2>1 DEF Honest, CallFacts
  <2>3. Allowed(q) => Allowed(q)'
    BY <2>1 DEF Allowed
  <2>4. StillThere(q) => StillThere(q)'
    BY <2>1 DEF StillThere
  <2>5. Explained(q) => Explained(q)'
    BY <2>1 DEF Explained
  <2>6. QED
    BY <1>3, <2>2, <2>3, <2>4, <2>5 DEF CallFacts
<1>4. QED
  BY <1>2, <1>3 DEF Honest

\* A step of the clock or of a downstream server.
LEMMA OthersFacts ==
    ASSUME Inv, Facts, Tick \/ \E p \in Providers : Change(p)
    PROVE  Facts'
<1>1. UNCHANGED <<configured, cache, call, took>>
  BY DEF Tick, Change
<1>2. /\ clock' \in 0..MaxTime /\ version' \in [Providers -> 0..MaxChanges]
      /\ changed' \in [Providers -> SUBSET Names]
      /\ \A p \in Providers : changed[p] \subseteq changed'[p]
      /\ \A p \in Providers : \A n \in Names \ changed'[p] : server'[p][n] = server[p][n]
  <2>1. /\ clock \in 0..MaxTime /\ version \in [Providers -> 0..MaxChanges]
        /\ changed \in [Providers -> SUBSET Names] /\ server \in [Providers -> Tools]
    BY DEF Facts, Bounds, Inv, Shape
  <2>2. MaxTime \in Nat /\ MaxChanges \in Nat
    BY CatalogAssumption
  <2>3. CASE Tick
    BY <2>1, <2>2, <2>3 DEF Tick
  <2>4. ASSUME NEW p \in Providers, Change(p)
        PROVE  /\ clock' \in 0..MaxTime /\ version' \in [Providers -> 0..MaxChanges]
               /\ changed' \in [Providers -> SUBSET Names]
               /\ \A o \in Providers : changed[o] \subseteq changed'[o]
               /\ \A o \in Providers : \A n \in Names \ changed'[o] : server'[o][n] = server[o][n]
    <3>1. PICK n \in Names, t \in Tiers(p) \cup {"absent"} :
             /\ server' = [server EXCEPT ![p][n] = t]
             /\ changed' = [changed EXCEPT ![p] = @ \cup {n}]
      BY <2>4 DEF Change
    <3>2. version[p] < MaxChanges /\ version' = [version EXCEPT ![p] = @ + 1] /\ clock' = clock
      BY <2>4 DEF Change
    <3>3. version' \in [Providers -> 0..MaxChanges]
      BY <2>1, <2>2, <3>2
    <3>4. \A o \in Providers : \A m \in Names \ changed'[o] : server'[o][m] = server[o][m]
      BY <2>1, <3>1 DEF Tools
    <3>5. QED
      BY <2>1, <3>1, <3>2, <3>3, <3>4
  <2>5. QED
    BY <2>3, <2>4
<1>3. /\ \A p \in Providers : \A tools : Honest(tools, p) => Honest(tools, p)'
      /\ \A q \in Call : \A t : CallFacts(q, t) => CallFacts(q, t)'
  BY <1>2, Monotone
<1>4. Bounds'
  BY <1>1, <1>2 DEF Facts, Bounds
<1>5. \A p \in Providers : Honest(cache[p].tools, p)'
  BY <1>1, <1>3 DEF Facts
<1>6. \A s \in Calls : CallFacts(call[s], took[s])'
  <2>1. \A s \in Calls : call[s] \in Call /\ CallFacts(call[s], took[s])
    BY DEF Inv, Shape, Facts
  <2>2. QED
    BY <1>1, <1>3, <2>1
<1>7. QED
  BY <1>4, <1>5, <1>6 DEF Facts

\* Nothing happens.
LEMMA StutterFacts ==
    ASSUME Facts, UNCHANGED vars
    PROVE  Facts'
BY DEF Facts, Bounds, CallFacts, Honest, Allowed, StillThere, Explained, vars

\* The first state.
LEMMA InitFacts == Init => Facts
<1> SUFFICES ASSUME Init PROVE Facts
  OBVIOUS
<1>1. Bounds
  BY CatalogAssumption DEF Init, Bounds
<1>2. \A p \in Providers : Honest(cache[p].tools, p)
  BY NothingIsHonest DEF Init, Invalid
<1>3. NoCall.stage = "idle" /\ NoCall.found = Nothing /\ NoCall.page = 0
  BY DEF NoCall
<1>4. \A s \in Calls : CallFacts(call[s], took[s])
  BY <1>3, NothingIsHonest DEF Init, CallFacts
<1>5. QED
  BY <1>1, <1>2, <1>4 DEF Facts

\* Every step.
LEMMA NextFacts == Inv /\ Facts /\ [Next]_vars => Facts'
<1> SUFFICES ASSUME Inv, Facts, [Next]_vars PROVE Facts'
  OBVIOUS
<1>1. ASSUME NEW s \in Calls, Step(s)
      PROVE  Facts'
  BY <1>1, StartFacts, NotConfiguredFacts, AskFacts, AcquireFacts, ReadPageFacts, StoreFacts,
     DiscoveryFailsFacts, InvokeFacts, CancelFacts, AgainFacts DEF Step
<1>2. QED
  BY <1>1, OthersFacts, StutterFacts DEF Next

\* Facts holds of every behaviour, too.
LEMMA FactsInvariance == Spec => [](Inv /\ Facts)
<1>1. Inv /\ Facts /\ [Next]_vars => (Inv /\ Facts)'
  BY NextInv, NextFacts
<1>2. QED
  BY <1>1, InitInv, InitFacts, PTL DEF Spec

-----------------------------------------------------------------------------

\* At every moment the lock of a catalogue is held by exactly the call that is
\* discovering it, however calls fail or go away (list_tools).
THEOREM LockFollowsDiscovery == Spec => []OneDiscovery
<1>1. Inv => OneDiscovery
  BY DEF Inv
<1>2. QED
  BY <1>1, Invariance, PTL

\* No discovery, however slow, brings back what a call that failed and has
\* answered knew to be obsolete (call_tool).
THEOREM FailuresStayKnown == Spec => []RemovalsVisible
<1>1. Inv => RemovalsVisible
  BY DEF Inv
<1>2. QED
  BY <1>1, Invariance, PTL

\* No call takes effect twice, whatever it discovers again (call_tool).
THEOREM NoSecondEffect == Spec => []OncePerCall
<1>1. Inv => OncePerCall
  BY DEF Inv, CallOK, OncePerCall
<1>2. QED
  BY <1>1, Invariance, PTL

\* Every variable keeps to its values, the names of tools to those a tool can
\* have in the Gateway (_downstream_exposed_name) and pages to the catalogue's.
THEOREM TypeCorrect == Spec => []TypeOK
<1>1. Inv /\ Facts => TypeOK
  BY DEF Inv, Shape, Facts, Bounds, TypeOK, Catalogue
<1>2. QED
  BY <1>1, FactsInvariance, PTL

\* However the catalogue changes under a call, and with the names of its tools,
\* the call sets off the tool that its client was shown (call_tool,
\* _downstream_exposed_name).
THEOREM ReachesWhatWasShown ==
    ASSUME Undecorated
    PROVE  Spec => []NeverAnother
<1>1. Inv /\ Facts => NeverAnother
  <2> SUFFICES ASSUME Inv, Facts, NEW s \in Calls, took[s] > 0
               PROVE  call[s].target = call[s].meant
    BY DEF NeverAnother
  <2>1. took[s] \in {0, 1} /\ took[s] = 1 /\ call[s].stage \in {"recheck", "ended"}
    BY KnownOf
  <2>2. CallFacts(call[s], took[s])
    BY KnownOf
  <2>3. QED
    BY <2>1, <2>2, Undecorated DEF CallFacts
<1>2. QED
  BY <1>1, FactsInvariance, PTL

\* What is answered as rejected but took effect could not be looked up again,
\* or its entry did change, and what leaves no record took none (call_tool,
\* _call_openwa_tool).
THEOREM AnswersExplained == Spec => []RejectionsExplained
<1>1. Inv /\ Facts => RejectionsExplained
  BY DEF Facts, CallFacts, Explained, RejectionsExplained
<1>2. QED
  BY <1>1, FactsInvariance, PTL

\* An OpenWA tool that writes takes effect only with consent to exactly this
\* tool and these arguments, however old the catalogue that classified it, as
\* long as it never was reclassified (_call_openwa_tool).
THEOREM WritesHaveConsent == Spec => ConsentUnlessReclassified
<1> DEFINE Kept == \A s \in Calls :
                      Unapproved(s) /\ call[s].target \notin changed["openwa"] =>
                         server["openwa"][call[s].target] = "read"
<1>1. Inv /\ Facts /\ [Next]_vars => [Kept]_vars
  <2> SUFFICES ASSUME Inv, Facts, Next, NEW s \in Calls, Unapproved(s),
                      call[s].target \notin changed["openwa"]
               PROVE  server["openwa"][call[s].target] = "read"
    OBVIOUS
  <2>1. took[s] \in Nat /\ took'[s] > took[s]
    BY KnownOf DEF Unapproved
  <2>2. Invoke(s)
    <3>1. ASSUME NEW r \in Calls, Step(r)
          PROVE  Invoke(s)
      <4>1. took \in [Calls -> Nat]
        BY DEF Inv, Shape
      <4>2. CASE Start(r) \/ Again(r)
        <5>1. took' = [took EXCEPT ![r] = 0]
          BY <4>2 DEF Start, Again
        <5>2. took'[s] = 0 \/ took'[s] = took[s]
          BY <4>1, <5>1
        <5>3. QED
          BY <2>1, <5>2
      <4>3. CASE Invoke(r)
        <5>1. r # s => took'[s] = took[s]
          BY <4>1, <4>3 DEF Invoke
        <5>2. QED
          BY <2>1, <4>3, <5>1
      <4>4. CASE NotConfigured(r) \/ Ask(r) \/ Acquire(r) \/ ReadPage(r) \/ Store(r)
                 \/ DiscoveryFails(r) \/ Cancel(r)
        <5>1. took' = took
          BY <4>4 DEF NotConfigured, Ask, Acquire, ReadPage, Store, DiscoveryFails, Cancel
        <5>2. QED
          BY <2>1, <5>1
      <4>5. QED
        BY <3>1, <4>2, <4>3, <4>4 DEF Step
    <3>2. CASE Tick \/ \E p \in Providers : Change(p)
      <4>1. took' = took
        BY <3>2 DEF Tick, Change
      <4>2. QED
        BY <2>1, <4>1
    <3>3. QED
      BY <3>1, <3>2 DEF Next
  <2>3. call[s].stage = "invoke" /\ call[s].of = "openwa" /\ ~call[s].consent
    BY <2>2 DEF Invoke, Unapproved
  <2>4. Allowed(call[s])
    BY <2>3, KnownOf DEF CallFacts
  <2>5. QED
    BY <2>3, <2>4 DEF Allowed
<1>2. QED
  BY <1>1, FactsInvariance, PTL DEF Spec, ConsentUnlessReclassified

===============================================================================
