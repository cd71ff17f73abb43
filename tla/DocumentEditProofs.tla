-------------------------- MODULE DocumentEditProofs --------------------------
(***************************************************************************)
(* Proofs about DocumentEdit, for every value of its constants: lemmas on  *)
(* the document, on one request, one per action, then the theorems.        *)
(***************************************************************************)
EXTENDS DocumentEdit, TLAPS

-----------------------------------------------------------------------------
(* The document. *)

\* Each kind of call has its fields.
LEMMA CallFields ==
  ASSUME NEW c \in Call
  PROVE /\ c.kind \in {"create", "rename", "delete", "edit", "images", "append"}
        /\ c.kind = "create" => c.title \in Titles /\ c.parent \in Tabs \cup {Root}
        /\ c.kind = "rename" => c.title \in Titles /\ c.tab \in Tabs
        /\ c.kind = "delete" => c.tab \in Tabs
        /\ c.kind = "images" => /\ c.assets \in 1..MaxAssets
                                /\ c.inserted \in 0..MaxAssets
  BY DEF Call

\* A batch that Google accepts makes a document with the next revision.
LEMMA AppliedIsDocument ==
  ASSUME NEW d \in Document, NEW c \in Call, Accepts(d, c)
  PROVE Applied(d, c) \in Document /\ Applied(d, c).rev = d.rev + 1
  <1>0. /\ d.rev \in Nat /\ d.images \in Nat
        /\ d.title \in [Tabs -> Titles \cup {"unused", "deleted"}]
        /\ d.parent \in [Tabs -> Tabs \cup {Root}]
    BY DEF Document
  <1>1. CASE c.kind = "create"
    <2>1. PICK t \in Tabs : d.title[t] = "unused"
      BY <1>1 DEF Accepts
    <2>2. NewTab(d) \in Tabs
      BY <2>1 DEF NewTab
    <2>3. /\ [d.title EXCEPT ![NewTab(d)] = c.title]
                 \in [Tabs -> Titles \cup {"unused", "deleted"}]
          /\ [d.parent EXCEPT ![NewTab(d)] = c.parent] \in [Tabs -> Tabs \cup {Root}]
      BY <1>0, <1>1, <2>2, CallFields
    <2>4. Applied(d, c) = [rev |-> d.rev + 1, images |-> d.images,
                           title |-> [d.title EXCEPT ![NewTab(d)] = c.title],
                           parent |-> [d.parent EXCEPT ![NewTab(d)] = c.parent]]
      BY <1>1 DEF Applied, Document
    <2> QED
      BY <1>0, <2>3, <2>4 DEF Document
  <1>2. CASE c.kind = "rename"
    <2>1. [d.title EXCEPT ![c.tab] = c.title] \in [Tabs -> Titles \cup {"unused", "deleted"}]
      BY <1>0, <1>2, CallFields
    <2>2. Applied(d, c) = [rev |-> d.rev + 1, images |-> d.images, parent |-> d.parent,
                           title |-> [d.title EXCEPT ![c.tab] = c.title]]
      BY <1>2 DEF Applied, Document
    <2> QED
      BY <1>0, <2>1, <2>2 DEF Document
  <1>3. CASE c.kind = "delete"
    <2> DEFINE title == [t \in Tabs |-> IF t \in Subtree(d, c.tab) THEN "deleted"
                                        ELSE d.title[t]]
    <2>1. title \in [Tabs -> Titles \cup {"unused", "deleted"}]
      BY <1>0
    <2>2. Applied(d, c) = [rev |-> d.rev + 1, images |-> d.images, parent |-> d.parent,
                           title |-> title]
      BY <1>3 DEF Applied, Document
    <2> HIDE DEF title
    <2> QED
      BY <1>0, <2>1, <2>2 DEF Document
  <1>4. CASE c.kind = "images"
    <2>1. Applied(d, c) = [rev |-> d.rev + 1, images |-> d.images + c.inserted,
                           parent |-> d.parent, title |-> d.title]
      BY <1>4 DEF Applied, Document
    <2>2. d.images + c.inserted \in Nat
      BY <1>0, <1>4, CallFields, EditAssumption
    <2> QED
      BY <1>0, <2>1, <2>2 DEF Document
  <1>5. CASE c.kind \in {"edit", "append"}
    <2>1. Applied(d, c) = [rev |-> d.rev + 1, images |-> d.images,
                           parent |-> d.parent, title |-> d.title]
      BY <1>5 DEF Applied, Document
    <2> QED
      BY <1>0, <2>1 DEF Document
  <1> QED
    BY <1>1, <1>2, <1>3, <1>4, <1>5, CallFields

\* A batch that was validated against the document it meets makes no title shared.
LEMMA AppliedKeepsDistinct ==
  ASSUME NEW d \in Document, NEW c \in Call, Accepts(d, c), Valid(d, c)
  PROVE Shared(Applied(d, c)) \subseteq Shared(d)
  <1> DEFINE e == Applied(d, c)
  <1>0. /\ e \in Document
        /\ "unused" \notin Titles /\ "deleted" \notin Titles
        /\ NoTab \notin Tabs
    BY AppliedIsDocument, EditAssumption DEF NoTab
  <1> SUFFICES ASSUME NEW t \in TabsOf(e), NEW u \in TabsOf(e), u # t,
                      e.title[t] = e.title[u]
               PROVE e.title[t] \in Shared(d)
    BY DEF Shared, TitlesBut
  <1>1. ASSUME t \in TabsOf(d), u \in TabsOf(d),
               d.title[t] = e.title[t], d.title[u] = e.title[u]
        PROVE e.title[t] \in Shared(d)
    BY <1>1 DEF Shared, TitlesBut
  <1>2. CASE c.kind = "create"
    <2>1. PICK n \in Tabs : d.title[n] = "unused"
      BY <1>2 DEF Accepts
    <2>2. NewTab(d) \in Tabs /\ d.title[NewTab(d)] = "unused"
      BY <2>1 DEF NewTab
    <2>3. /\ e.title[NewTab(d)] = c.title
          /\ \A v \in Tabs \ {NewTab(d)} : e.title[v] = d.title[v]
      BY <1>2, <2>2 DEF Applied, Document
    <2>4. \A v \in TabsOf(e) \ {NewTab(d)} : v \in TabsOf(d) /\ e.title[v] # c.title
      BY <1>0, <1>2, <2>3 DEF Valid, TabsOf, TitlesBut
    <2> QED
      BY <1>1, <2>3, <2>4 DEF TabsOf
  <1>3. CASE c.kind = "rename"
    <2>1. /\ c.tab \in Tabs
          /\ e.title[c.tab] = c.title
          /\ \A v \in Tabs \ {c.tab} : e.title[v] = d.title[v]
      BY <1>3, CallFields DEF Applied, Document
    <2>2. \A v \in TabsOf(e) \ {c.tab} : v \in TabsOf(d) /\ e.title[v] # c.title
      BY <1>0, <1>3, <2>1 DEF Valid, TabsOf, TitlesBut
    <2> QED
      BY <1>1, <2>1, <2>2 DEF TabsOf
  <1>4. CASE c.kind = "delete"
    <2>1. \A v \in Tabs : e.title[v] = d.title[v] \/ e.title[v] = "deleted"
      BY <1>4, CallFields DEF Applied, Document
    <2>2. \A v \in TabsOf(e) : v \in TabsOf(d) /\ e.title[v] = d.title[v]
      BY <1>0, <2>1 DEF TabsOf
    <2> QED
      BY <1>1, <2>2
  <1>5. CASE c.kind \in {"edit", "images", "append"}
    <2>1. e.title = d.title
      BY <1>5, CallFields DEF Applied, Document
    <2> QED
      BY <1>1, <2>1 DEF TabsOf
  <1> QED
    BY <1>2, <1>3, <1>4, <1>5, CallFields

\* A deletion that was validated against the document it meets takes one tab of
\* several.
LEMMA AppliedDeletesOne ==
  ASSUME NEW d \in Document, NEW c \in Call, c.kind = "delete", Valid(d, c)
  PROVE /\ TabsOf(Applied(d, c)) = TabsOf(d) \ {c.tab}
        /\ TabsOf(Applied(d, c)) # {}
  <1>1. c.tab \in TabsOf(d) /\ TabsOf(d) # {c.tab} /\ Children(d, c.tab) = {}
    BY DEF Valid
  <1>2. Subtree(d, c.tab) = {c.tab}
    BY <1>1 DEF Subtree
  <1>3. \A t \in Tabs : Applied(d, c).title[t]
                            = IF t \in Subtree(d, c.tab) THEN "deleted" ELSE d.title[t]
    BY DEF Applied, Document
  <1>4. TabsOf(Applied(d, c)) = TabsOf(d) \ {c.tab}
    BY <1>2, <1>3, EditAssumption DEF TabsOf
  <1> QED
    BY <1>1, <1>4

-----------------------------------------------------------------------------
(* Requests. *)

\* A call that has ended keeps nothing but what it named and how it ended.
LEMMA EndedFields ==
  ASSUME NEW q \in Request, NEW o \in {"done", "failed", "conflict", "crashed"}
  PROVE /\ Ended(q, o) \in Request
        /\ Ended(q, o).phase = "ended" /\ Ended(q, o).outcome = o
        /\ Ended(q, o).required = q.required /\ Ended(q, o).entered = 0
        /\ Ended(q, o).named = FALSE /\ Ended(q, o).call = [kind |-> "append"]
  <1>1. Blank \in Document
    BY DEF Blank, Document
  <1>2. [kind |-> "append"] \in Call
    BY DEF Call
  <1>3. NoCall \in Request
    BY <1>1, <1>2 DEF NoCall, Request, Phase
  <1>4. NoCall.call = [kind |-> "append"] /\ NoCall.entered = 0 /\ NoCall.named = FALSE
    BY DEF NoCall
  <1>5. q.required \in Nat
    BY DEF Request
  <1>6. Ended(q, o) \in Request
    BY <1>3, <1>5 DEF Ended, Request, Phase
  <1> QED
    BY <1>3, <1>4, <1>6 DEF Ended, Request

\* An error ends a call, or has it clean up first.
LEMMA RaisedFields ==
  ASSUME NEW q \in Request, NEW o \in {"done", "failed", "conflict"}
  PROVE /\ Raised(q, o) \in Request
        /\ q.entered = 0 => Raised(q, o) = Ended(q, o)
        /\ q.entered # 0 => Raised(q, o) = [q EXCEPT !.phase = "cleanup", !.outcome = o]
  <1>1. q.entered \in Nat
    BY DEF Request
  <1>2. [q EXCEPT !.phase = "cleanup", !.outcome = o] \in Request
    BY DEF Request, Phase
  <1>3. Ended(q, o) \in Request
    BY EndedFields
  <1>4. CASE q.entered = 0
    BY <1>3, <1>4 DEF Raised, LeftStaged
  <1>5. CASE q.entered # 0
    BY <1>1, <1>2, <1>5 DEF Raised, LeftStaged
  <1> QED
    BY <1>4, <1>5

\* What follows a batch that was applied, by the kind of the call.
LEMMA OnwardFields ==
  ASSUME NEW q \in Request
  PROVE /\ Onward(q) \in Request
        /\ q.call.kind = "images" => Onward(q) = [q EXCEPT !.phase = "cleanup"]
        /\ q.call.kind \in {"create", "rename", "delete"} =>
               Onward(q) = [q EXCEPT !.phase = "readback"]
        /\ q.call.kind \in {"edit", "append"} => Onward(q) = Ended(q, "done")
  <1>1. /\ [q EXCEPT !.phase = "cleanup"] \in Request
        /\ [q EXCEPT !.phase = "readback"] \in Request
        /\ q.call \in Call
    BY DEF Request, Phase
  <1> QED
    BY <1>1, EndedFields, CallFields DEF Onward

\* Changing one request.
LEMMA OneRequest ==
  ASSUME TypeOK, NEW r \in Requests, NEW p \in Request,
         request' = [request EXCEPT ![r] = p]
  PROVE /\ request' \in [Requests -> Request]
        /\ request'[r] = p
        /\ \A s \in Requests \ {r} : request'[s] = request[s]
  BY DEF TypeOK

\* What one request remembers outlives the steps of others: the revision only
\* grows, blobs and histories are their own.
LEMMA OthersKeepLocal ==
  ASSUME Inv, TypeOK', NEW s \in Requests, request'[s] = request[s],
         doc' = doc \/ doc'.rev = doc.rev + 1,
         s \in applied' <=> s \in applied,
         s \in resent' <=> s \in resent,
         \A blob \in Requests \X (1..MaxAssets) : blob[1] = s =>
             /\ blob \in staged' <=> blob \in staged
             /\ blob \in stuck' <=> blob \in stuck
  PROVE Local(s)'
  <1>1. Local(s) /\ request[s] \in Request /\ request[s].seen.rev \in Nat
        /\ request[s].required \in Nat /\ request[s].revision \in Nat
        /\ doc.rev \in Nat /\ doc'.rev \in Nat
    BY DEF Inv, TypeOK, Request, Document
  <1>2. Versions(s)'
    BY <1>1 DEF Local, Versions
  <1>3. AppliedBefore(s)'
    BY <1>1 DEF Local, AppliedBefore
  <1>4. Outcomes(s)' /\ Entered(s)' /\ Reported(s)'
    BY <1>1 DEF Local, Outcomes, Entered, Reported
  <1>5. Staging(s)'
    <2>1. ASSUME NEW blob \in staged', blob[1] = s, request'[s].phase # "ended"
          PROVE blob[2] <= request'[s].entered \/ blob \in stuck'
      <3>1. blob \in Requests \X (1..MaxAssets)
        BY DEF TypeOK
      <3>2. blob \in staged /\ (blob \in stuck => blob \in stuck')
        BY <2>1, <3>1
      <3> QED
        BY <1>1, <2>1, <3>2 DEF Local, Staging
    <2>2. ASSUME NEW blob \in stuck', blob[1] = s
          PROVE request'[s].outcome \notin {"none", "done"}
      <3>1. blob \in Requests \X (1..MaxAssets)
        BY DEF TypeOK
      <3>2. blob \in stuck
        BY <2>2, <3>1
      <3> QED
        BY <1>1, <2>2, <3>2 DEF Local, Staging
    <2> QED
      BY <2>1, <2>2 DEF Staging
  <1>6. OwnRevision(s)'
    BY <1>1 DEF Local, OwnRevision
  <1>7. LeftClean(s)'
    <2>1. ASSUME NEW blob \in staged', blob[1] = s,
                 request'[s].phase = "ended", request'[s].outcome # "crashed"
          PROVE blob \in stuck' /\ request'[s].outcome # "done"
      <3>1. blob \in Requests \X (1..MaxAssets)
        BY DEF TypeOK
      <3>2. blob \in staged /\ (blob \in stuck => blob \in stuck')
        BY <2>1, <3>1
      <3> QED
        BY <1>1, <2>1, <3>2 DEF Local, LeftClean
    <2> QED
      BY <2>1 DEF LeftClean
  <1> QED
    BY <1>2, <1>3, <1>4, <1>5, <1>6, <1>7 DEF Local

\* A step of one request keeps the invariant if it keeps what that request
\* remembers, and applies its batch to the revision that it names.
LEMMA StepKeepsInv ==
  ASSUME Inv, NEW r \in Requests, NEW p \in Request,
         request' = [request EXCEPT ![r] = p],
         p.call.kind = "images" => p.entered <= p.call.assets,
         doc' \in Document, doc' = doc \/ doc'.rev = doc.rev + 1,
         staged' \subseteq Requests \X (1..MaxAssets),
         stuck' \subseteq Requests \X (1..MaxAssets),
         \A blob \in Requests \X (1..MaxAssets) : blob[1] # r =>
             /\ blob \in staged' <=> blob \in staged
             /\ blob \in stuck' <=> blob \in stuck,
         applied' = applied \/ applied' = applied \cup {r},
         resent' = resent \/ resent' = resent \cup {r},
         r \in applied => p.required = request[r].required,
         r \in applied' \ applied => p.required \in {0, doc.rev},
         edits' \in Nat,
         Local(r)'
  PROVE Inv'
  <1>1. TypeOK /\ OncePerRevision /\ doc.rev > 0 /\ doc.rev \in Nat /\ doc'.rev \in Nat
    BY DEF Inv, TypeOK, Document
  <1>2. /\ request' \in [Requests -> Request]
        /\ request'[r] = p
        /\ \A s \in Requests \ {r} : request'[s] = request[s]
    BY <1>1, OneRequest
  <1>3. TypeOK'
    BY <1>1, <1>2 DEF TypeOK
  <1>4. ASSUME NEW s \in Requests \ {r}
        PROVE Local(s)'
    BY <1>2, <1>3, OthersKeepLocal
  <1>5. OncePerRevision'
    <2> SUFFICES ASSUME NEW s \in applied', NEW t \in applied', s # t,
                        request'[s].required = request'[t].required,
                        request'[s].required # 0
                 PROVE FALSE
      BY DEF OncePerRevision
    <2>1. applied' \subseteq Requests
      BY <1>3 DEF TypeOK
    <2>2. \A u \in applied : /\ request'[u].required = request[u].required
                             /\ request[u].required < doc.rev
      BY <1>1, <1>2 DEF Inv, Local, AppliedBefore, TypeOK
    <2>3. CASE s \in applied /\ t \in applied
      BY <1>1, <2>2, <2>3 DEF OncePerRevision
    <2>4. CASE r \in applied' \ applied /\ (s = r \/ t = r)
      <3>1. request'[r].required \in {0, doc.rev}
        BY <1>2, <2>4
      <3>2. PICK u \in {s, t} : u # r /\ u \in applied
        BY <2>4
      <3>3. request'[u].required < doc.rev
        BY <2>2, <3>2
      <3> QED
        BY <1>1, <2>4, <3>1, <3>2, <3>3
    <2> QED
      BY <2>3, <2>4
  <1>6. doc'.rev > 0
    BY <1>1
  <1> QED
    BY <1>3, <1>4, <1>5, <1>6 DEF Inv

-----------------------------------------------------------------------------
(* The steps. *)

\* What the invariant says of one request.
LEMMA RequestParts ==
  ASSUME Inv, NEW r \in Requests
  PROVE /\ TypeOK /\ Local(r) /\ doc \in Document /\ doc.rev \in Nat /\ doc.rev > 0
        /\ request[r] \in Request /\ request[r].call \in Call
        /\ request[r].required \in Nat /\ request[r].entered \in Nat
        /\ request[r].revision \in Nat /\ request[r].named \in BOOLEAN
        /\ request[r].seen \in Document /\ request[r].seen.rev \in Nat
        /\ request[r].required <= doc.rev
        /\ r \in applied => request[r].required < doc.rev
        /\ r \in resent => r \in applied
  <1>1. TypeOK /\ Local(r) /\ doc.rev > 0 /\ request[r] \in Request /\ doc \in Document
    BY DEF Inv, TypeOK
  <1>2. /\ request[r].call \in Call /\ request[r].required \in Nat
        /\ request[r].entered \in Nat /\ request[r].revision \in Nat
        /\ request[r].named \in BOOLEAN /\ request[r].seen \in Document
    BY <1>1 DEF Request
  <1> QED
    BY <1>1, <1>2 DEF Document, Local, Versions, AppliedBefore

\* A call that has not ended and has nothing to clean up has nothing staged but
\* what could not be deleted.
LEMMA NothingStaged ==
  ASSUME Inv, NEW r \in Requests, request[r].entered = 0, request[r].phase # "ended"
  PROVE /\ \A blob \in staged : blob[1] = r => blob \in stuck
        /\ request[r].outcome = "none" => \A blob \in staged \cup stuck : blob[1] # r
  <1>1. Staging(r) /\ TypeOK
    BY RequestParts DEF Local
  <1>2. \A blob \in staged : blob[2] \in 1..MaxAssets
    BY <1>1 DEF TypeOK
  <1>3. \A blob \in staged : blob[1] = r => blob \in stuck
    BY <1>1, <1>2 DEF Staging
  <1> QED
    BY <1>1, <1>3 DEF Staging

\* The end of a call, whatever it ends with.
LEMMA EndedLocal ==
  ASSUME NEW r \in Requests, NEW q \in Request,
         NEW o \in {"done", "failed", "conflict", "crashed"},
         request'[r] = Ended(q, o), q.required <= doc'.rev,
         r \in applied' => q.required < doc'.rev,
         r \in resent' => r \in applied',
         o = "done" => r \in applied',
         o = "conflict" => r \notin applied' \/ r \in resent',
         \A blob \in stuck' : blob[1] = r => o # "done",
         o # "crashed" => \A blob \in staged' : blob[1] = r => blob \in stuck' /\ o # "done"
  PROVE Local(r)'
  <1>1. /\ request'[r].phase = "ended" /\ request'[r].outcome = o
        /\ request'[r].required = q.required /\ request'[r].entered = 0
        /\ request'[r].named = FALSE
    <2>1. /\ Ended(q, o).phase = "ended" /\ Ended(q, o).outcome = o
          /\ Ended(q, o).required = q.required /\ Ended(q, o).entered = 0
          /\ Ended(q, o).named = FALSE
      BY EndedFields
    <2> QED
      BY <2>1
  <1>2. Versions(r)' /\ AppliedBefore(r)' /\ Outcomes(r)' /\ Entered(r)'
    BY <1>1 DEF Versions, AppliedBefore, Outcomes, Entered
  <1>3. Staging(r)'
    BY <1>1 DEF Staging
  <1>4. OwnRevision(r)' /\ Reported(r)' /\ LeftClean(r)'
    BY <1>1 DEF OwnRevision, Reported, LeftClean
  <1> QED
    BY <1>2, <1>3, <1>4 DEF Local

\* A step of a request that at most applies its batch.
AtMostApplies(r) ==
    /\ doc' \in Document /\ (doc' = doc \/ doc'.rev = doc.rev + 1)
    /\ applied' = applied \/ applied' = applied \cup {r}
    /\ r \in applied' \ applied => /\ request[r].required \in {0, doc.rev}
                                   /\ doc'.rev = doc.rev + 1
    /\ UNCHANGED <<staged, resent, stuck, edits>>

\* A step that changes nothing but the request.
LEMMA AppliesNothing ==
  ASSUME Inv, NEW r \in Requests, UNCHANGED <<doc, staged, applied, resent, stuck, edits>>
  PROVE AtMostApplies(r)
  BY RequestParts DEF AtMostApplies

\* A call ends.
LEMMA EndKeepsInv ==
  ASSUME Inv, NEW r \in Requests, NEW o \in {"done", "failed", "conflict", "crashed"},
         request' = [request EXCEPT ![r] = Ended(request[r], o)],
         AtMostApplies(r),
         request[r].phase # "ended",
         request[r].entered = 0 \/ o = "crashed",
         o = "done" => r \in applied' /\ request[r].outcome = "none",
         o = "conflict" => r \notin applied' \/ r \in resent'
  PROVE Inv'
  <1> DEFINE p == Ended(request[r], o)
  <1>1. p \in Request /\ p.required = request[r].required /\ p.call.kind # "images"
    <2>1. request[r] \in Request
      BY RequestParts
    <2>2. p \in Request /\ p.required = request[r].required /\ p.call = [kind |-> "append"]
      BY <2>1, EndedFields
    <2> QED
      BY <2>2
  <1>2. request'[r] = p
    BY <1>1, RequestParts DEF TypeOK
  <1>3. /\ \A blob \in stuck' : blob[1] = r => o # "done"
        /\ o # "crashed" => \A blob \in staged' : blob[1] = r => blob \in stuck' /\ o # "done"
    BY NothingStaged DEF AtMostApplies
  <1>4. /\ request[r].required <= doc'.rev
        /\ r \in applied' => request[r].required < doc'.rev
    <2>1. /\ doc'.rev = doc.rev \/ doc'.rev = doc.rev + 1
          /\ r \in applied' \ applied => doc'.rev = doc.rev + 1
      BY DEF AtMostApplies
    <2> QED
      BY <2>1, RequestParts
  <1>5. r \in resent' => r \in applied'
    BY RequestParts DEF AtMostApplies
  <1>6. Local(r)'
    BY <1>2, <1>3, <1>4, <1>5, EndedLocal, RequestParts
  <1> HIDE DEF p
  <1>7. request' = [request EXCEPT ![r] = p]
    BY DEF p
  <1> QED
    BY <1>1, <1>6, <1>7, StepKeepsInv, RequestParts DEF TypeOK, AtMostApplies

\* A call goes on to its next phase, with what it has read and staged.
LEMMA MoveKeepsInv ==
  ASSUME Inv, NEW r \in Requests, NEW p \in Request,
         request' = [request EXCEPT ![r] = p],
         AtMostApplies(r),
         request[r].phase \in {"stage", "update", "reread", "readback"},
         p.call = request[r].call, p.required = request[r].required,
         p.seen = request[r].seen, p.entered = request[r].entered,
         p.phase \in {"reread", "cleanup", "readback"},
         p.outcome \in {"none", "failed", "conflict"},
         p.phase = "cleanup" \/ p.outcome = "none",
         p.phase = "cleanup" <=> p.entered > 0 /\ p.phase # "reread",
         p.phase = "reread" => request[r].phase = "update",
         p.outcome = "none" => r \in applied',
         p.outcome = "conflict" => r \notin applied' \/ r \in resent',
         p.named => p.phase # "reread",
         p.named /\ p.call.kind = "images" =>
             /\ p.revision <= doc'.rev
             /\ doc'.rev = p.revision => doc' = Applied(p.seen, p.call)
  PROVE Inv'
  <1>1. request'[r] = p
    BY RequestParts DEF TypeOK
  <1>2. /\ doc'.rev \in Nat /\ (doc' = doc \/ doc'.rev = doc.rev + 1)
        /\ r \in applied' => r \in applied \/ doc'.rev = doc.rev + 1
        /\ applied \subseteq applied' /\ resent' = resent
        /\ staged' = staged /\ stuck' = stuck
    BY DEF AtMostApplies, Document
  <1>3. Versions(r)'
    BY <1>1, <1>2, RequestParts DEF Local, Versions
  <1>4. AppliedBefore(r)' /\ Outcomes(r)'
    BY <1>1, <1>2, RequestParts DEF AppliedBefore, Outcomes
  <1>5. Entered(r)'
    BY <1>1, RequestParts DEF Local, Entered
  <1>6. Staging(r)'
    BY <1>1, <1>2, RequestParts DEF Local, Staging, Outcomes
  <1>7. OwnRevision(r)' /\ Reported(r)' /\ LeftClean(r)'
    BY <1>1 DEF OwnRevision, Reported, LeftClean
  <1>8. Local(r)'
    BY <1>3, <1>4, <1>5, <1>6, <1>7 DEF Local
  <1>9. p.call.kind = "images" => p.entered <= p.call.assets
    BY RequestParts DEF TypeOK
  <1> QED
    BY <1>8, <1>9, StepKeepsInv, RequestParts DEF TypeOK, AtMostApplies

\* An error, with or without images to clean up.
LEMMA RaiseKeepsInv ==
  ASSUME Inv, NEW r \in Requests, NEW o \in {"failed", "conflict"}, Raise(r, o),
         AtMostApplies(r),
         request[r].phase \in {"stage", "update", "reread", "readback"},
         o = "conflict" => r \notin applied' \/ r \in resent'
  PROVE Inv'
  <1>1. CASE request[r].entered = 0
    <2>1. request' = [request EXCEPT ![r] = Ended(request[r], o)]
      BY <1>1, RaisedFields, RequestParts DEF Raise
    <2> QED
      BY <1>1, <2>1, EndKeepsInv
  <1>2. CASE request[r].entered # 0
    <2> DEFINE p == Raised(request[r], o)
    <2>1. /\ p \in Request
          /\ p = [request[r] EXCEPT !.phase = "cleanup", !.outcome = o]
      BY <1>2, RaisedFields, RequestParts
    <2>2. request' = [request EXCEPT ![r] = p]
      BY DEF Raise
    <2> HIDE DEF p
    <2>3. /\ p.phase = "cleanup" /\ p.outcome = o
          /\ p.call = request[r].call /\ p.required = request[r].required
          /\ p.seen = request[r].seen /\ p.entered = request[r].entered
          /\ p.revision = request[r].revision /\ p.named = request[r].named
      BY <2>1, RequestParts DEF Request
    <2>4. p.entered > 0
      BY <1>2, <2>3, RequestParts
    <2>5. p.named = FALSE
      BY <2>3, <2>4, RequestParts DEF Local, OwnRevision, Entered
    <2> QED
      BY <2>1, <2>2, <2>3, <2>4, <2>5, MoveKeepsInv
  <1> QED
    BY <1>1, <1>2

\* A call that starts has neither staged nor applied anything.
LEMMA StartKeepsInv ==
  ASSUME Inv, NEW r \in Requests, Start(r)
  PROVE Inv'
  <1>1. request[r].phase = "idle" /\ UNCHANGED <<doc, staged, applied, resent, stuck, edits>>
    BY DEF Start
  <1>2. /\ request[r].outcome = "none" /\ request[r].entered = 0
        /\ request[r].named = FALSE /\ request[r].required = 0
        /\ request[r].call.kind = "append" /\ r \notin applied /\ r \notin resent
    BY <1>1, RequestParts DEF Local, Versions, AppliedBefore, NoCall
  <1>3. \A blob \in staged \cup stuck : blob[1] # r
    BY <1>1, <1>2, NothingStaged
  <1>4. PICK p \in Request :
            /\ request' = [request EXCEPT ![r] = p]
            /\ p.required <= doc.rev
            /\ p.call.kind = "append" => p.required = 0
            /\ p.outcome = "none" /\ p.entered = 0 /\ p.named = FALSE
            /\ p.phase = "inspect" \/ (p.phase = "update" /\ p.call.kind = "append")
    <2>1. CASE Goto(r, "update")
      <3> DEFINE p == [request[r] EXCEPT !.phase = "update"]
      <3>1. p \in Request
        BY RequestParts DEF Request, Phase
      <3>2. request' = [request EXCEPT ![r] = p]
        BY <2>1, RequestParts DEF Goto, TypeOK
      <3>3. /\ p.phase = "update" /\ p.call.kind = "append" /\ p.required = 0
            /\ p.outcome = "none" /\ p.entered = 0 /\ p.named = FALSE
        BY <1>2, RequestParts DEF Request
      <3>4. p.required <= doc.rev
        BY <3>3, RequestParts
      <3> HIDE DEF p
      <3> WITNESS p \in Request
      <3> QED
        BY <3>2, <3>3, <3>4
    <2>2. CASE \E c \in {d \in Call : d.kind # "append"}, rev \in 1..doc.rev :
                 request' = [request EXCEPT ![r].phase = "inspect",
                                            ![r].call = c, ![r].required = rev]
      <3>1. PICK c \in {d \in Call : d.kind # "append"}, rev \in 1..doc.rev :
                 request' = [request EXCEPT ![r].phase = "inspect",
                                            ![r].call = c, ![r].required = rev]
        BY <2>2
      <3> DEFINE p == [request[r] EXCEPT !.phase = "inspect", !.call = c, !.required = rev]
      <3>2. rev \in Nat /\ rev <= doc.rev
        BY RequestParts
      <3>3. p \in Request
        BY <3>2, RequestParts DEF Request, Phase
      <3>4. request' = [request EXCEPT ![r] = p]
        BY <3>1, RequestParts DEF TypeOK, Request
      <3>5. /\ p.phase = "inspect" /\ p.required = rev /\ p.call.kind # "append"
            /\ p.outcome = "none" /\ p.entered = 0 /\ p.named = FALSE
        BY <1>2, RequestParts DEF Request
      <3> HIDE DEF p
      <3> WITNESS p \in Request
      <3> QED
        BY <3>2, <3>4, <3>5
    <2> QED
      BY <2>1, <2>2 DEF Start
  <1>5. request'[r] = p
    BY <1>4, RequestParts DEF TypeOK
  <1>6. Local(r)'
    BY <1>1, <1>2, <1>3, <1>4, <1>5
       DEF Local, Versions, AppliedBefore, Outcomes, Entered, Staging, OwnRevision,
           Reported, LeftClean
  <1>7. p.call.kind = "images" => p.entered <= p.call.assets
    <2>1. p.call.kind = "images" => p.call.assets \in 1..MaxAssets
      BY <1>4, CallFields DEF Request
    <2> QED
      BY <1>4, <2>1, EditAssumption
  <1> QED
    BY <1>1, <1>2, <1>4, <1>6, <1>7, StepKeepsInv, RequestParts DEF TypeOK

\* The call has read what its batch is validated against.
LEMMA InspectKeepsInv ==
  ASSUME Inv, NEW r \in Requests, Inspect(r)
  PROVE Inv'
  <1>1. /\ request[r].phase = "inspect"
        /\ UNCHANGED <<doc, staged, applied, resent, stuck, edits>>
    BY DEF Inspect
  <1>2. request[r].entered = 0 /\ request[r].outcome = "none" /\ request[r].named = FALSE
    BY <1>1, RequestParts DEF Local, Entered, Outcomes, OwnRevision
  <1>3. r \notin applied
    BY <1>1, RequestParts DEF Local, AppliedBefore
  <1>4. CASE ~Valid(doc, request[r].call)
    <2>1. request' = [request EXCEPT ![r] = Ended(request[r], "failed")]
      BY <1>4 DEF Inspect
    <2> QED
      BY <1>1, <1>2, <2>1, EndKeepsInv, AppliesNothing
  <1>5. CASE Valid(doc, request[r].call)
    <2> DEFINE phase == IF request[r].call.kind = "images" THEN "stage" ELSE "update"
               p == [request[r] EXCEPT !.seen = doc, !.phase = phase]
    <2>1. request' = [request EXCEPT ![r] = p]
      BY <1>5 DEF Inspect
    <2>2. p \in Request
      BY RequestParts DEF Request, Phase
    <2>3. /\ p.phase = phase /\ p.seen = doc /\ p.call = request[r].call
          /\ p.required = request[r].required /\ p.entered = 0
          /\ p.outcome = "none" /\ p.named = FALSE
      BY <1>2, RequestParts DEF Request
    <2> HIDE DEF p
    <2>4. request'[r] = p
      BY <2>1, RequestParts DEF TypeOK
    <2>5. Versions(r)' /\ AppliedBefore(r)' /\ Outcomes(r)'
      BY <1>1, <1>3, <1>5, <2>3, <2>4, RequestParts
         DEF Local, Versions, AppliedBefore, Outcomes
    <2>6. Entered(r)'
      <3>1. request[r].entered < request[r].call.assets \/ request[r].call.kind # "images"
        BY <1>2, RequestParts, CallFields
      <3>2. request[r].call.kind = "images" =>
                request[r].call.assets \in Nat /\ request[r].call.assets > 0
        BY RequestParts, CallFields, EditAssumption
      <3> QED
        BY <2>3, <2>4, <3>2 DEF Entered
    <2>7. Staging(r)' /\ LeftClean(r)'
      BY <1>1, <1>2, <2>3, <2>4, NothingStaged DEF Staging, LeftClean
    <2>8. OwnRevision(r)' /\ Reported(r)'
      BY <2>3, <2>4 DEF OwnRevision, Reported
    <2>9. Local(r)'
      BY <2>5, <2>6, <2>7, <2>8 DEF Local
    <2>10. p.call.kind = "images" => p.entered <= p.call.assets
      BY <2>3, RequestParts, CallFields, EditAssumption
    <2> QED
      BY <1>1, <2>1, <2>2, <2>3, <2>9, <2>10, StepKeepsInv, RequestParts DEF TypeOK
  <1> QED
    BY <1>4, <1>5

\* What is known while images are staged.
LEMMA StagePhase ==
  ASSUME Inv, NEW r \in Requests, request[r].phase = "stage"
  PROVE /\ r \notin applied /\ request[r].outcome = "none" /\ request[r].named = FALSE
        /\ request[r].call.kind = "images" /\ request[r].call.assets \in 1..MaxAssets
        /\ request[r].entered + 1 \in 1..MaxAssets
        /\ request[r].entered + 1 <= request[r].call.assets
        /\ \A blob \in stuck : blob[1] # r
        /\ \A blob \in staged : blob[1] = r => blob[2] <= request[r].entered
  <1>1. Local(r)
    BY RequestParts
  <1>2. r \notin applied /\ request[r].outcome = "none" /\ request[r].named = FALSE
    BY <1>1, RequestParts DEF Local, AppliedBefore, Outcomes, OwnRevision
  <1>3. request[r].call.kind = "images" /\ request[r].entered < request[r].call.assets
    BY <1>1 DEF Local, Entered
  <1>4. request[r].call.assets \in 1..MaxAssets
    BY <1>3, RequestParts, CallFields
  <1>5. \A blob \in stuck : blob[1] # r
    BY <1>1, <1>2 DEF Local, Staging
  <1>6. \A blob \in staged : blob[1] = r => blob[2] <= request[r].entered
    BY <1>1, <1>2, <1>5 DEF Local, Staging
  <1> QED
    BY <1>2, <1>3, <1>4, <1>5, <1>6, RequestParts, EditAssumption

\* One blob more, and the request that will clean it up.
LEMMA OneMoreBlob ==
  ASSUME Inv, NEW r \in Requests, request[r].phase = "stage", NEW p \in Request,
         request' = [request EXCEPT ![r] = p],
         staged \subseteq staged',
         staged' \subseteq staged \cup {<<r, request[r].entered + 1>>},
         UNCHANGED <<doc, applied, resent, stuck, edits>>,
         p.entered = request[r].entered + 1,
         p.call = request[r].call, p.seen = request[r].seen, p.named = FALSE,
         p.required = request[r].required,
         \/ p.phase = "stage" /\ p.outcome = "none" /\ p.entered < p.call.assets
         \/ p.phase = "update" /\ p.outcome = "none"
         \/ p.phase = "cleanup" /\ p.outcome = "failed"
  PROVE Inv'
  <1>1. request'[r] = p
    BY RequestParts DEF TypeOK
  <1>2. \A blob \in staged' : blob[1] = r => blob[2] <= p.entered
    <2> SUFFICES ASSUME NEW blob \in staged', blob[1] = r
                 PROVE blob[2] <= p.entered
      OBVIOUS
    <2>1. request[r].entered \in Nat
      BY RequestParts
    <2>2. CASE blob = <<r, request[r].entered + 1>>
      BY <2>1, <2>2
    <2>3. CASE blob \in staged
      <3>1. blob[2] \in Nat
        BY <2>3, RequestParts, EditAssumption DEF TypeOK
      <3>2. blob[2] <= request[r].entered
        BY <2>3, StagePhase
      <3> QED
        BY <2>1, <3>1, <3>2
    <2> QED
      BY <2>2, <2>3
  <1>3. Versions(r)' /\ AppliedBefore(r)' /\ Outcomes(r)'
    BY <1>1, StagePhase, RequestParts DEF Local, Versions, AppliedBefore, Outcomes
  <1>4. Entered(r)'
    <2>1. request[r].entered \in Nat /\ p.entered = request[r].entered + 1
      BY RequestParts
    <2>2. p.call.kind = "images"
      BY StagePhase
    <2>3. p.entered > 0
      BY <2>1
    <2> QED
      BY <1>1, <2>2, <2>3 DEF Entered
  <1>5. Staging(r)' /\ LeftClean(r)'
    BY <1>1, <1>2, StagePhase DEF Staging, LeftClean
  <1>6. OwnRevision(r)' /\ Reported(r)'
    BY <1>1 DEF OwnRevision, Reported
  <1>7. Local(r)'
    BY <1>3, <1>4, <1>5, <1>6 DEF Local
  <1>8. <<r, request[r].entered + 1>> \in Requests \X (1..MaxAssets)
    BY StagePhase
  <1>9. p.call.kind = "images" => p.entered <= p.call.assets
    BY StagePhase
  <1> QED
    BY <1>7, <1>8, <1>9, StepKeepsInv, RequestParts DEF TypeOK

\* One image more is staged.
LEMMA StageKeepsInv ==
  ASSUME Inv, NEW r \in Requests, Stage(r)
  PROVE Inv'
  <1> DEFINE next == request[r].entered + 1
             phase == IF next = request[r].call.assets THEN "update" ELSE "stage"
             p == [request[r] EXCEPT !.entered = next, !.phase = phase]
  <1>1. /\ request[r].phase = "stage"
        /\ staged' = staged \cup {<<r, next>>}
        /\ UNCHANGED <<doc, applied, resent, stuck, edits>>
    BY DEF Stage
  <1>2. next \in Nat
    BY RequestParts
  <1>3. p \in Request
    BY <1>2, RequestParts DEF Request, Phase
  <1>4. request' = [request EXCEPT ![r] = p]
    BY <1>1, <1>2, RequestParts DEF Stage, TypeOK, Request
  <1>5. /\ p.phase = phase /\ p.entered = next /\ p.call = request[r].call
        /\ p.seen = request[r].seen /\ p.named = request[r].named
        /\ p.required = request[r].required /\ p.outcome = request[r].outcome
    BY RequestParts DEF Request
  <1> HIDE DEF p
  <1>6. p.outcome = "none" /\ p.named = FALSE
    BY <1>1, <1>5, StagePhase
  <1>7. \/ p.phase = "stage" /\ p.entered < p.call.assets
        \/ p.phase = "update"
    <2>1. request[r].call.assets \in 1..MaxAssets /\ next <= request[r].call.assets
      BY <1>1, StagePhase
    <2>2. request[r].call.assets \in Nat
      BY <2>1, EditAssumption
    <2> QED
      BY <1>2, <1>5, <2>1, <2>2
  <1> QED
    BY <1>1, <1>3, <1>4, <1>5, <1>6, <1>7, OneMoreBlob

\* An image that cannot be staged fails the call.
LEMMA StageFailsKeepsInv ==
  ASSUME Inv, NEW r \in Requests, StageFails(r)
  PROVE Inv'
  <1> DEFINE next == request[r].entered + 1
             q == [request[r] EXCEPT !.entered = next]
             p == [q EXCEPT !.phase = "cleanup", !.outcome = "failed"]
  <1>1. /\ request[r].phase = "stage"
        /\ UNCHANGED <<doc, applied, resent, stuck, edits>>
    BY DEF StageFails
  <1>2. CASE Raise(r, "failed") /\ UNCHANGED staged
    BY <1>1, <1>2, RaiseKeepsInv, AppliesNothing
  <1>3. CASE /\ \E uploaded \in SUBSET {<<r, next>>} : staged' = staged \cup uploaded
             /\ request' = [request EXCEPT ![r] = Raised(q, "failed")]
    <2>1. next \in Nat /\ next # 0
      BY RequestParts
    <2>2. q \in Request /\ q.entered = next
      BY <2>1, RequestParts DEF Request
    <2>3. /\ q.call = request[r].call /\ q.seen = request[r].seen
          /\ q.named = request[r].named /\ q.required = request[r].required
      BY RequestParts DEF Request
    <2> HIDE DEF q
    <2>4. Raised(q, "failed") = p /\ p \in Request
      BY <2>1, <2>2, RaisedFields
    <2>5. /\ p.phase = "cleanup" /\ p.outcome = "failed" /\ p.entered = next
          /\ p.call = request[r].call /\ p.seen = request[r].seen
          /\ p.named = request[r].named /\ p.required = request[r].required
      BY <2>2, <2>3 DEF Request
    <2>6. request' = [request EXCEPT ![r] = p]
      BY <1>3, <2>4
    <2> HIDE DEF p
    <2>7. p.named = FALSE
      BY <1>1, <2>5, StagePhase
    <2> QED
      BY <1>1, <1>3, <2>4, <2>5, <2>6, <2>7, OneMoreBlob
  <1> QED
    BY <1>2, <1>3 DEF StageFails

\* What is known when a batch is sent.
LEMMA UpdatePhase ==
  ASSUME Inv, NEW r \in Requests, request[r].phase = "update"
  PROVE /\ r \in applied => r \in resent
        /\ request[r].outcome = "none" /\ request[r].named = FALSE
        /\ request[r].call.kind = "images" <=> request[r].entered > 0
        /\ request[r].call.kind = "append" => request[r].required = 0
        /\ (request[r].call.kind # "append" /\ request[r].required = doc.rev) =>
               request[r].seen = doc /\ Valid(doc, request[r].call)
  <1>1. /\ r \in applied => r \in resent
        /\ request[r].outcome = "none" /\ request[r].named = FALSE
    BY RequestParts DEF Local, AppliedBefore, Outcomes, OwnRevision
  <1>2. request[r].call.kind = "images" <=> request[r].entered > 0
    BY RequestParts DEF Local, Entered
  <1>3. /\ request[r].call.kind = "append" => request[r].required = 0
        /\ request[r].call.kind # "append" =>
               /\ Valid(request[r].seen, request[r].call)
               /\ request[r].required <= request[r].seen.rev
               /\ request[r].seen.rev <= doc.rev
               /\ request[r].seen.rev = doc.rev => request[r].seen = doc
    BY RequestParts DEF Local, Versions
  <1> QED
    BY <1>1, <1>2, <1>3, RequestParts

\* A batch that is refused changes nothing.
LEMMA UpdateRefusedKeepsInv ==
  ASSUME Inv, NEW r \in Requests, UpdateRefused(r)
  PROVE Inv'
  <1>1. /\ request[r].phase = "update"
        /\ UNCHANGED <<doc, staged, applied, resent, stuck, edits>>
        /\ Raise(r, "conflict") \/ Raise(r, "failed")
    BY DEF UpdateRefused
  <1>2. r \in applied => r \in resent
    BY <1>1, UpdatePhase
  <1> QED
    BY <1>1, <1>2, RaiseKeepsInv, AppliesNothing

\* The batch of a call was answered, or the document was read for its revision.
LEMMA OnwardKeepsInv ==
  ASSUME Inv, NEW r \in Requests, NEW q \in Request,
         request[r].phase \in {"update", "reread"},
         request' = [request EXCEPT ![r] = Onward(q)],
         AtMostApplies(r), r \in applied',
         q.call = request[r].call, q.required = request[r].required,
         q.seen = request[r].seen, q.entered = request[r].entered,
         q.outcome = request[r].outcome,
         q.named /\ q.call.kind = "images" =>
             /\ q.revision <= doc'.rev
             /\ doc'.rev = q.revision => doc' = Applied(q.seen, q.call)
  PROVE Inv'
  <1>1. /\ request[r].outcome = "none"
        /\ request[r].call.kind = "images" <=> request[r].entered > 0
    BY RequestParts DEF Local, Outcomes, Entered
  <1>2. CASE q.call.kind \in {"edit", "append"}
    <2>1. Onward(q) = Ended(q, "done")
      BY <1>2, OnwardFields
    <2>2. Ended(q, "done") = Ended(request[r], "done")
      BY DEF Ended
    <2>3. request[r].entered = 0
      BY <1>1, <1>2, RequestParts
    <2> QED
      BY <1>1, <2>1, <2>2, <2>3, EndKeepsInv
  <1>3. CASE q.call.kind \in {"images", "create", "rename", "delete"}
    <2> DEFINE phase == IF q.call.kind = "images" THEN "cleanup" ELSE "readback"
               p == [q EXCEPT !.phase = phase]
    <2>1. Onward(q) = p /\ Onward(q) \in Request
      BY <1>3, OnwardFields
    <2>2. /\ p.phase = phase /\ p.outcome = "none"
          /\ p.call = request[r].call /\ p.required = request[r].required
          /\ p.seen = request[r].seen /\ p.entered = request[r].entered
          /\ p.revision = q.revision /\ p.named = q.named
      BY <1>1 DEF Request
    <2> HIDE DEF p
    <2>3. p \in Request /\ request' = [request EXCEPT ![r] = p]
      BY <2>1
    <2>4. p.phase \in {"cleanup", "readback"} /\ (p.phase = "cleanup" <=> p.entered > 0)
      BY <1>1, <2>2
    <2>5. /\ p.named /\ p.call.kind = "images" =>
                 /\ p.revision <= doc'.rev
                 /\ doc'.rev = p.revision => doc' = Applied(p.seen, p.call)
          /\ p.phase # "reread"
      BY <2>2
    <2> HIDE DEF phase
    <2> QED
      BY <2>2, <2>3, <2>4, <2>5, MoveKeepsInv
  <1> QED
    BY <1>2, <1>3, RequestParts, CallFields

\* What Google does with a batch that it takes.
LEMMA TakenApplies ==
  ASSUME Inv, NEW r \in Requests, Taken(r)
  PROVE /\ request[r].phase = "update" /\ r \in applied'
        /\ applied' = applied \/ applied' = applied \cup {r}
        /\ request[r].required \in {0, doc.rev}
        /\ doc' = Applied(doc, request[r].call) /\ doc' \in Document
        /\ doc'.rev = doc.rev + 1
        /\ Accepts(doc, request[r].call)
        /\ request[r].call.kind # "append" =>
               request[r].seen = doc /\ Valid(doc, request[r].call)
  <1>1. /\ request[r].phase = "update" /\ Fresh(r) /\ Accepts(doc, request[r].call)
        /\ doc' = Applied(doc, request[r].call)
        /\ applied' = applied \cup {r}
    BY DEF Taken
  <1>2. doc' \in Document /\ doc'.rev = doc.rev + 1
    BY <1>1, RequestParts, AppliedIsDocument
  <1>3. request[r].required \in {0, doc.rev}
    BY <1>1, UpdatePhase DEF Fresh
  <1>4. request[r].call.kind # "append" =>
               request[r].seen = doc /\ Valid(doc, request[r].call)
    BY <1>1, UpdatePhase DEF Fresh
  <1> QED
    BY <1>1, <1>2, <1>3, <1>4

\* The connection closes before the answer: the call is as it was, and what it has
\* applied is in the past of the document.
LEMMA UpdateResentKeepsInv ==
  ASSUME Inv, NEW r \in Requests, UpdateResent(r)
  PROVE Inv'
  <1>1. /\ Taken(r) /\ resent' = resent \cup {r}
        /\ UNCHANGED <<staged, request, stuck, edits>>
    BY DEF UpdateResent
  <1>2. /\ request[r].phase = "update" /\ r \in applied' /\ doc' \in Document
        /\ applied' = applied \/ applied' = applied \cup {r}
        /\ request[r].required \in {0, doc.rev} /\ doc'.rev = doc.rev + 1
    BY <1>1, TakenApplies
  <1>3. request[r].outcome = "none" /\ request[r].named = FALSE
    BY <1>2, UpdatePhase
  <1>4. Versions(r)'
    BY <1>1, <1>2, RequestParts DEF Local, Versions
  <1>5. AppliedBefore(r)'
    <2>1. request[r].required < doc'.rev
      BY <1>2, RequestParts
    <2> QED
      BY <1>1, <1>2, <2>1 DEF AppliedBefore
  <1>6. Outcomes(r)' /\ Entered(r)' /\ Staging(r)'
    BY <1>1, <1>2, <1>3, RequestParts DEF Local, Outcomes, Entered, Staging
  <1>7. OwnRevision(r)' /\ Reported(r)' /\ LeftClean(r)'
    BY <1>1, <1>2, <1>3 DEF OwnRevision, Reported, LeftClean
  <1>8. Local(r)'
    BY <1>4, <1>5, <1>6, <1>7 DEF Local
  <1>9. request' = [request EXCEPT ![r] = request[r]]
    BY <1>1, RequestParts DEF TypeOK
  <1>10. request[r].call.kind = "images" => request[r].entered <= request[r].call.assets
    BY RequestParts DEF TypeOK
  <1> QED
    BY <1>1, <1>2, <1>8, <1>9, <1>10, StepKeepsInv, RequestParts DEF TypeOK

\* A batch is applied, with or without an answer.
LEMMA UpdateKeepsInv ==
  ASSUME Inv, NEW r \in Requests, Update(r)
  PROVE Inv'
  <1>1. /\ request[r].phase = "update" /\ r \in applied' /\ AtMostApplies(r)
        /\ doc' = Applied(doc, request[r].call) /\ doc'.rev = doc.rev + 1
        /\ request[r].call.kind # "append" => request[r].seen = doc
    <2>1. Taken(r) /\ UNCHANGED <<staged, resent, stuck, edits>>
      BY DEF Update
    <2> QED
      BY <2>1, TakenApplies DEF AtMostApplies
  <1>2. /\ request[r].outcome = "none" /\ request[r].named = FALSE
        /\ request[r].call.kind = "images" <=> request[r].entered > 0
    BY <1>1, UpdatePhase
  <1>3. CASE request' = [request EXCEPT
                ![r] = Onward([@ EXCEPT !.revision = doc.rev + 1, !.named = TRUE])]
    <2> DEFINE q == [request[r] EXCEPT !.revision = doc.rev + 1, !.named = TRUE]
    <2>1. q \in Request
      <3>1. doc.rev + 1 \in Nat
        BY RequestParts
      <3> QED
        BY <3>1, RequestParts DEF Request
    <2>2. /\ q.call = request[r].call /\ q.required = request[r].required
          /\ q.seen = request[r].seen /\ q.entered = request[r].entered
          /\ q.outcome = request[r].outcome /\ q.revision = doc.rev + 1
      BY RequestParts DEF Request
    <2>3. request' = [request EXCEPT ![r] = Onward(q)]
      BY <1>3
    <2> HIDE DEF q
    <2>4. q.call.kind = "images" =>
              /\ q.revision <= doc'.rev
              /\ doc' = Applied(q.seen, q.call)
      BY <1>1, <2>2, RequestParts
    <2> QED
      BY <1>1, <2>1, <2>2, <2>3, <2>4, OnwardKeepsInv
  <1>4. CASE Goto(r, "reread")
    <2> DEFINE p == [request[r] EXCEPT !.phase = "reread"]
    <2>1. p \in Request
      BY RequestParts DEF Request, Phase
    <2>2. /\ p.phase = "reread" /\ p.outcome = "none" /\ p.named = FALSE
          /\ p.call = request[r].call /\ p.required = request[r].required
          /\ p.seen = request[r].seen /\ p.entered = request[r].entered
      BY <1>2, RequestParts DEF Request
    <2>3. request' = [request EXCEPT ![r] = p]
      BY <1>4, RequestParts DEF Goto, TypeOK
    <2> HIDE DEF p
    <2> QED
      BY <1>1, <2>1, <2>2, <2>3, MoveKeepsInv
  <1>5. CASE request' = [request EXCEPT ![r] = Unanswered(@)]
    <2>1. Raise(r, "failed")
      BY <1>5 DEF Raise, Unanswered
    <2> QED
      BY <1>1, <2>1, RaiseKeepsInv
  <1> QED
    BY <1>3, <1>4, <1>5 DEF Update

\* The revision is read when the answer did not name it.
LEMMA RereadKeepsInv ==
  ASSUME Inv, NEW r \in Requests, Reread(r)
  PROVE Inv'
  <1>1. /\ request[r].phase = "reread" /\ UNCHANGED <<doc, staged, applied, resent, stuck, edits>>
    BY DEF Reread
  <1>2. r \in applied /\ request[r].named = FALSE /\ AtMostApplies(r)
    BY <1>1, RequestParts, AppliesNothing DEF Local, AppliedBefore, OwnRevision
  <1>3. CASE Raise(r, "failed")
    BY <1>1, <1>2, <1>3, RaiseKeepsInv
  <1>4. CASE request' = [request EXCEPT ![r] = Onward([@ EXCEPT !.revision = doc.rev])]
    <2> DEFINE q == [request[r] EXCEPT !.revision = doc.rev]
    <2>1. q \in Request
      BY RequestParts DEF Request
    <2>2. /\ q.call = request[r].call /\ q.required = request[r].required
          /\ q.seen = request[r].seen /\ q.entered = request[r].entered
          /\ q.outcome = request[r].outcome /\ q.named = FALSE
      BY <1>2, RequestParts DEF Request
    <2>3. request' = [request EXCEPT ![r] = Onward(q)]
      BY <1>4
    <2> HIDE DEF q
    <2> QED
      BY <1>1, <1>2, <2>1, <2>2, <2>3, OnwardKeepsInv
  <1> QED
    BY <1>3, <1>4 DEF Reread

\* The call reports what it has read back.
LEMMA ReadbackKeepsInv ==
  ASSUME Inv, NEW r \in Requests, Readback(r)
  PROVE Inv'
  <1>1. /\ request[r].phase = "readback" /\ UNCHANGED <<doc, staged, applied, resent, stuck, edits>>
    BY DEF Readback
  <1>2. r \in applied /\ request[r].entered = 0 /\ request[r].outcome = "none"
    BY <1>1, RequestParts DEF Local, AppliedBefore, Entered, Outcomes
  <1>3. CASE Raise(r, "failed")
    BY <1>1, <1>3, RaiseKeepsInv, AppliesNothing
  <1>4. CASE Raise(r, "done")
    <2>1. request' = [request EXCEPT ![r] = Ended(request[r], "done")]
      BY <1>2, <1>4, RaisedFields, RequestParts DEF Raise
    <2> QED
      BY <1>1, <1>2, <2>1, EndKeepsInv, AppliesNothing
  <1> QED
    BY <1>3, <1>4 DEF Readback

\* The call is cut short; its blobs stay.
LEMMA CrashKeepsInv ==
  ASSUME Inv, NEW r \in Requests, Crash(r)
  PROVE Inv'
  <1>1. /\ request[r].phase # "ended" /\ UNCHANGED <<doc, staged, applied, resent, stuck, edits>>
        /\ request' = [request EXCEPT ![r] = Ended(request[r], "crashed")]
    BY DEF Crash
  <1> QED
    BY <1>1, EndKeepsInv, AppliesNothing

\* The next image of a request is left, and whatever failed is remembered.
LEMMA CleanupKeepsInv ==
  ASSUME Inv, NEW r \in Requests, Cleanup(r)
  PROVE Inv'
  <1> DEFINE e == request[r].entered
             blob == <<r, e>>
  <1>1. request[r].phase = "cleanup" /\ UNCHANGED <<doc, applied, resent, edits>>
    BY DEF Cleanup
  <1>2. PICK removed \in BOOLEAN, error \in BOOLEAN :
            /\ ~removed => error
            /\ staged' = IF removed THEN staged \ {blob} ELSE staged
            /\ stuck' = IF removed THEN stuck ELSE stuck \cup {blob}
            /\ request' = [request EXCEPT ![r] = CleanedUp(request[r], error)]
    BY DEF Cleanup
  <1>3. /\ e \in 1..MaxAssets /\ e - 1 \in Nat /\ request[r].call.kind = "images"
        /\ request[r].outcome \in {"none", "failed", "conflict"}
        /\ request[r].outcome = "none" => r \in applied
        /\ request[r].outcome = "conflict" => r \notin applied \/ r \in resent
    <2>1. e > 0 /\ request[r].call.kind = "images"
      BY <1>1, RequestParts DEF Local, Entered
    <2>2. e <= request[r].call.assets
      BY <2>1, RequestParts DEF TypeOK
    <2>3. request[r].call.assets \in 1..MaxAssets
      BY <2>1, RequestParts, CallFields
    <2>4. /\ request[r].outcome \in {"none", "failed", "conflict"}
          /\ request[r].outcome = "none" => r \in applied
          /\ request[r].outcome = "conflict" => r \notin applied \/ r \in resent
      BY <1>1, RequestParts DEF Local, Outcomes, AppliedBefore, Reported, Request
    <2> QED
      BY <2>1, <2>2, <2>3, <2>4, RequestParts, EditAssumption
  <1> DEFINE o == CleanupOutcome(request[r], error)
             rest == [request[r] EXCEPT !.entered = e - 1, !.outcome = o]
  <1>4. /\ o \in {"none", "failed", "conflict"}
        /\ o = "none" => request[r].outcome = "none" /\ removed
        /\ o = "conflict" => request[r].outcome = "conflict"
    BY <1>2, <1>3 DEF CleanupOutcome
  <1> HIDE DEF o
  <1>5. /\ rest \in Request /\ rest.phase = "cleanup"
        /\ rest.call = request[r].call /\ rest.required = request[r].required
        /\ rest.seen = request[r].seen /\ rest.entered = e - 1
        /\ rest.revision = request[r].revision /\ rest.named = request[r].named
        /\ rest.outcome = o
    BY <1>1, <1>3, <1>4, RequestParts DEF Request
  <1>6. CleanedUp(request[r], error) =
            IF LeftStaged(rest) THEN rest
            ELSE IF rest.outcome = "none" THEN [rest EXCEPT !.phase = "readback"]
            ELSE Ended(rest, rest.outcome)
    BY DEF CleanedUp, o
  <1> HIDE DEF rest
  <1>7. /\ blob \in Requests \X (1..MaxAssets)
        /\ staged' \subseteq Requests \X (1..MaxAssets)
        /\ stuck' \subseteq Requests \X (1..MaxAssets)
        /\ \A b \in Requests \X (1..MaxAssets) : b[1] # r =>
               /\ b \in staged' <=> b \in staged
               /\ b \in stuck' <=> b \in stuck
    BY <1>2, <1>3, RequestParts DEF TypeOK
  \* What is staged after the step, and what is stuck.
  <1>8. /\ \A b \in staged' : b[1] = r => b[2] <= e - 1 \/ b \in stuck'
        /\ \A b \in stuck' : b[1] = r => o # "none"
    <2>1. ASSUME NEW b \in staged', b[1] = r, b \notin stuck'
          PROVE b[2] <= e - 1
      <3>1. b \in staged /\ b \notin stuck /\ b # blob /\ b \in Requests \X (1..MaxAssets)
        BY <1>2, <1>7, <2>1
      <3>2. b[2] <= e
        BY <1>1, <2>1, <3>1, RequestParts DEF Local, Staging
      <3>3. b[2] # e /\ b[2] \in Nat
        BY <2>1, <3>1, EditAssumption
      <3> QED
        BY <1>3, <3>2, <3>3, EditAssumption
    <2>2. ASSUME NEW b \in stuck', b[1] = r, o = "none"
          PROVE FALSE
      <3>1. b \in stuck /\ request[r].outcome = "none"
        BY <1>2, <1>4, <2>2
      <3> QED
        BY <2>2, <3>1, RequestParts DEF Local, Staging
    <2> QED
      BY <2>1, <2>2
  <1>9. \A b \in staged' : b[1] = r => b[2] \in 1..MaxAssets
    BY <1>7
  \* The request after the step.
  <1>10. ASSUME NEW p \in Request, request' = [request EXCEPT ![r] = p],
                p.required = request[r].required,
                p.call.kind = "images" => p.entered <= p.call.assets,
                Local(r)'
         PROVE Inv'
    <2> HIDE DEF blob, e
    <2> QED
      BY <1>1, <1>7, <1>10, StepKeepsInv, RequestParts DEF TypeOK
  <1>11. request[r].entered <= request[r].call.assets /\ request[r].call.assets \in Nat
    BY <1>3, RequestParts, CallFields, EditAssumption DEF TypeOK
  <1>12. CASE e - 1 > 0
    <2>1. request' = [request EXCEPT ![r] = rest]
      BY <1>2, <1>5, <1>6, <1>12 DEF LeftStaged
    <2>2. request'[r] = rest
      BY <2>1, RequestParts DEF TypeOK
    <2>3. Versions(r)' /\ AppliedBefore(r)' /\ Outcomes(r)'
      BY <1>1, <1>3, <1>4, <1>5, <2>2, RequestParts
         DEF Local, Versions, AppliedBefore, Outcomes
    <2>4. Entered(r)'
      BY <1>3, <1>5, <1>12, <2>2 DEF Entered
    <2>5. Staging(r)' /\ LeftClean(r)'
      BY <1>4, <1>5, <1>8, <2>2 DEF Staging, LeftClean
    <2>6. OwnRevision(r)' /\ Reported(r)'
      BY <1>1, <1>3, <1>4, <1>5, <2>2, RequestParts DEF Local, OwnRevision, Reported
    <2>7. Local(r)'
      BY <2>3, <2>4, <2>5, <2>6 DEF Local
    <2>8. rest.entered <= rest.call.assets
      BY <1>3, <1>5, <1>11
    <2>9. rest \in Request /\ rest.required = request[r].required
      BY <1>5
    <2> QED
      BY <1>10, <2>1, <2>7, <2>8, <2>9
  <1>13. CASE e - 1 = 0 /\ o = "none"
    <2> DEFINE p == [rest EXCEPT !.phase = "readback"]
    <2>0. rest.entered = 0 /\ rest.outcome = "none" /\ ~LeftStaged(rest)
      BY <1>5, <1>13 DEF LeftStaged
    <2>1. request' = [request EXCEPT ![r] = p]
      BY <1>2, <1>6, <2>0
    <2>2. /\ p \in Request /\ p.phase = "readback"
          /\ p.call = request[r].call /\ p.required = request[r].required
          /\ p.seen = request[r].seen /\ p.entered = 0
          /\ p.revision = request[r].revision /\ p.named = request[r].named
          /\ p.outcome = "none"
      BY <1>5, <1>13 DEF Request, Phase
    <2> HIDE DEF p
    <2>3. request'[r] = p
      BY <2>1, RequestParts DEF TypeOK
    <2>4. Versions(r)' /\ AppliedBefore(r)' /\ Outcomes(r)'
      BY <1>1, <1>3, <1>4, <1>13, <2>2, <2>3, RequestParts
         DEF Local, Versions, AppliedBefore, Outcomes
    <2>5. Entered(r)'
      BY <2>2, <2>3 DEF Entered
    <2>6. Staging(r)' /\ LeftClean(r)'
      BY <1>8, <1>9, <1>13, <2>2, <2>3 DEF Staging, LeftClean
    <2>7. OwnRevision(r)' /\ Reported(r)'
      BY <1>1, <2>2, <2>3, RequestParts DEF Local, OwnRevision, Reported
    <2>8. Local(r)'
      BY <2>4, <2>5, <2>6, <2>7 DEF Local
    <2>9. p.call.kind = "images" => p.entered <= p.call.assets
      BY <1>3, <1>11, <2>2
    <2> QED
      BY <1>10, <2>1, <2>2, <2>8, <2>9
  <1>14. CASE e - 1 = 0 /\ o # "none"
    <2>0. rest.entered = 0 /\ rest.outcome = o /\ ~LeftStaged(rest)
      BY <1>5, <1>14 DEF LeftStaged
    <2>1. request' = [request EXCEPT ![r] = Ended(rest, o)]
      BY <1>2, <1>6, <1>14, <2>0
    <2>2. o \in {"failed", "conflict"}
      BY <1>4, <1>14
    <2>3. /\ Ended(rest, o) \in Request /\ Ended(rest, o).required = request[r].required
          /\ Ended(rest, o).call.kind # "images"
      <3>1. rest \in Request /\ o \in {"done", "failed", "conflict", "crashed"}
        BY <1>5, <2>2
      <3>2. /\ Ended(rest, o) \in Request /\ Ended(rest, o).required = rest.required
            /\ Ended(rest, o).call = [kind |-> "append"]
        BY <3>1, EndedFields
      <3> QED
        BY <1>5, <3>2
    <2>4. request'[r] = Ended(rest, o)
      BY <2>1, RequestParts DEF TypeOK
    <2>5. \A b \in staged' : b[1] = r => b \in stuck'
      BY <1>8, <1>9, <1>14
    <2>6. Local(r)'
      BY <1>1, <1>3, <1>4, <1>5, <2>2, <2>4, <2>5, EndedLocal, RequestParts
    <2> QED
      BY <1>10, <2>1, <2>3, <2>6
  <1> QED
    BY <1>3, <1>4, <1>12, <1>13, <1>14

\* Other users only make the document newer.
LEMMA OtherEditKeepsInv ==
  ASSUME Inv, OtherEdit
  PROVE Inv'
  <1>1. TypeOK /\ OncePerRevision /\ doc \in Document /\ doc.rev \in Nat /\ doc.rev > 0
    BY DEF Inv, TypeOK, Document
  <1>2. UNCHANGED <<staged, request, applied, resent, stuck>> /\ edits' = edits + 1
    BY DEF OtherEdit
  <1>3. doc' \in Document /\ doc'.rev = doc.rev + 1
    <2>1. CASE \E c \in Call : Accepts(doc, c) /\ doc' = Applied(doc, c)
      BY <1>1, <2>1, AppliedIsDocument
    <2>2. CASE doc.images > 0 /\ doc' = [doc EXCEPT !.rev = @ + 1, !.images = @ - 1]
      <3>1. doc.images - 1 \in Nat /\ doc.rev + 1 \in Nat
        BY <1>1, <2>2 DEF Document
      <3> QED
        BY <1>1, <2>2, <3>1 DEF Document
    <2> QED
      BY <2>1, <2>2 DEF OtherEdit
  <1>4. TypeOK'
    BY <1>1, <1>2, <1>3 DEF TypeOK
  <1>5. ASSUME NEW s \in Requests
        PROVE Local(s)'
    BY <1>2, <1>3, <1>4, OthersKeepLocal
  <1>6. OncePerRevision'
    BY <1>1, <1>2 DEF OncePerRevision
  <1>7. doc'.rev > 0
    BY <1>1, <1>3
  <1> QED
    BY <1>4, <1>5, <1>6, <1>7 DEF Inv

\* A stuttering step.
LEMMA StutterKeepsInv ==
  ASSUME Inv, UNCHANGED vars
  PROVE Inv'
  <1>1. UNCHANGED <<doc, staged, request, applied, resent, stuck, edits>>
    BY DEF vars
  <1>2. TypeOK /\ OncePerRevision /\ doc.rev > 0
    BY DEF Inv
  <1>3. TypeOK'
    BY <1>1, <1>2 DEF TypeOK
  <1>4. ASSUME NEW s \in Requests
        PROVE Local(s)'
    BY <1>1, <1>3, OthersKeepLocal
  <1> QED
    BY <1>1, <1>2, <1>3, <1>4 DEF Inv, OncePerRevision

\* Every step keeps the invariant.
LEMMA NextKeepsInv ==
  ASSUME Inv, [Next]_vars
  PROVE Inv'
  <1>1. CASE OtherEdit
    BY <1>1, OtherEditKeepsInv
  <1>2. ASSUME NEW r \in Requests, Step(r)
        PROVE Inv'
    BY <1>2, StartKeepsInv, InspectKeepsInv, StageKeepsInv, StageFailsKeepsInv,
       UpdateKeepsInv, UpdateResentKeepsInv, UpdateRefusedKeepsInv, RereadKeepsInv, CleanupKeepsInv,
       ReadbackKeepsInv, CrashKeepsInv DEF Step
  <1>3. CASE UNCHANGED vars
    BY <1>3, StutterKeepsInv
  <1> QED
    BY <1>1, <1>2, <1>3 DEF Next

\* A document of one tab that no call has met yet.
LEMMA InitInv ==
  ASSUME Init
  PROVE Inv
  <1>1. PICK title \in Titles : doc = [Blank EXCEPT !.rev = 1, !.title[1] = title]
    BY DEF Init
  <1>2. /\ request = [r \in Requests |-> NoCall]
        /\ staged = {} /\ applied = {} /\ resent = {} /\ stuck = {} /\ edits = 0
    BY DEF Init
  <1>3. doc \in Document /\ doc.rev = 1
    BY <1>1, EditAssumption DEF Blank, Document
  <1>4. NoCall \in Request
    <2>1. Blank \in Document
      BY DEF Blank, Document
    <2>2. [kind |-> "append"] \in Call
      BY DEF Call
    <2> QED
      BY <2>1, <2>2 DEF NoCall, Request, Phase
  <1>5. /\ NoCall.phase = "idle" /\ NoCall.required = 0 /\ NoCall.entered = 0
        /\ NoCall.outcome = "none" /\ NoCall.named = FALSE
        /\ NoCall.call.kind = "append"
    BY DEF NoCall
  <1>6. TypeOK
    BY <1>2, <1>3, <1>4, <1>5 DEF TypeOK
  <1>7. ASSUME NEW r \in Requests
        PROVE Local(r)
    <2>1. request[r] = NoCall
      BY <1>2
    <2> QED
      BY <1>2, <1>3, <1>5, <2>1
         DEF Local, Versions, AppliedBefore, Outcomes, Entered, Staging, OwnRevision,
             Reported, LeftClean
  <1> QED
    BY <1>2, <1>3, <1>6, <1>7 DEF Inv, OncePerRevision

\* A batch is applied only when Google takes it.
LEMMA AppliesIsTaken ==
  ASSUME [Next]_vars, NEW r \in Requests, Applies(r)
  PROVE Taken(r)
  <1>1. applied' # applied
    BY DEF Applies
  <1>2. PICK s \in Requests : Step(s)
    BY <1>1 DEF Next, OtherEdit, vars
  <1>3. Taken(s)
    BY <1>1, <1>2 DEF Step, Update, UpdateResent, Start, Inspect, Stage, StageFails, UpdateRefused, Reread,
                      Cleanup, Readback, Crash
  <1>4. applied' = applied \cup {s}
    BY <1>3 DEF Taken
  <1> QED
    BY <1>3, <1>4 DEF Applies

\* A step of one request leaves the others alone.
LEMMA OthersUnchanged ==
  ASSUME TypeOK, NEW r \in Requests, NEW s \in Requests \ {r}, Step(s)
  PROVE request'[r] = request[r]
  <1>1. request \in [Requests -> Request]
    BY DEF TypeOK
  <1>2. CASE Start(s)
    BY <1>1, <1>2 DEF Start, Goto
  <1>3. CASE Inspect(s)
    BY <1>1, <1>3 DEF Inspect
  <1>4. CASE Stage(s)
    BY <1>1, <1>4 DEF Stage
  <1>5. CASE StageFails(s)
    BY <1>1, <1>5 DEF StageFails, Raise
  <1>6. CASE Update(s)
    BY <1>1, <1>6 DEF Update, Goto
  <1>7. CASE UpdateRefused(s)
    BY <1>1, <1>7 DEF UpdateRefused, Raise
  <1>8. CASE Reread(s)
    BY <1>1, <1>8 DEF Reread, Raise
  <1>9. CASE Cleanup(s)
    BY <1>1, <1>9 DEF Cleanup
  <1>10. CASE Readback(s)
    BY <1>1, <1>10 DEF Readback, Raise
  <1>11. CASE Crash(s)
    BY <1>1, <1>11 DEF Crash
  <1>12. CASE UpdateResent(s)
    BY <1>1, <1>12 DEF UpdateResent
  <1> QED
    BY <1>2, <1>3, <1>4, <1>5, <1>6, <1>7, <1>8, <1>9, <1>10, <1>11, <1>12 DEF Step

\* Only a read-back that confirms the mutation lets a call report success then.
LEMMA DoneIsConfirmed ==
  ASSUME Inv, [Next]_vars, NEW r \in Requests,
         request[r].phase = "readback", request'[r].outcome = "done"
  PROVE Confirmed(request[r]) /\ UNCHANGED doc
  <1>1. request[r].outcome = "none"
    BY RequestParts DEF Local, Outcomes
  <1>2. request' # request
    BY <1>1
  <1>3. PICK s \in Requests : Step(s)
    BY <1>2 DEF Next, OtherEdit, vars
  <1>4. Step(r)
    BY <1>1, <1>3, OthersUnchanged, RequestParts
  <1>5. CASE Readback(r)
    <2>1. CASE Raise(r, "failed")
      <3>1. request'[r] = Raised(request[r], "failed")
        BY <2>1, RequestParts DEF Raise, TypeOK
      <3>2. request[r].entered = 0
        BY RequestParts DEF Local, Entered
      <3>3. Raised(request[r], "failed") = Ended(request[r], "failed")
        BY <3>2, RaisedFields, RequestParts
      <3>4. Ended(request[r], "failed").outcome = "failed"
        BY EndedFields, RequestParts
      <3> QED
        BY <3>1, <3>3, <3>4
    <2>2. CASE Confirmed(request[r])
      BY <1>5, <2>2 DEF Readback
    <2> QED
      BY <1>5, <2>1, <2>2 DEF Readback
  <1>6. CASE Crash(r)
    <2>1. request'[r] = Ended(request[r], "crashed")
      BY <1>6, RequestParts DEF Crash, TypeOK
    <2>2. Ended(request[r], "crashed").outcome = "crashed"
      BY EndedFields, RequestParts
    <2> QED
      BY <2>1, <2>2
  <1> QED
    BY <1>4, <1>5, <1>6
       DEF Step, Start, Inspect, Stage, StageFails, Update, UpdateResent, Taken,
           UpdateRefused, Reread, Cleanup

-----------------------------------------------------------------------------
(* Theorems. *)

\* The inductive invariant: what a request read is the past of the document, what
\* it applied is there, and what it staged is still to be cleaned up.
THEOREM Invariance == Spec => []Inv
  BY InitInv, NextKeepsInv, PTL DEF Spec

\* The document, the requests and the staging bucket have their types.
THEOREM TypeCorrect == Spec => []TypeOK
  <1>1. Inv => TypeOK
    BY DEF Inv
  <1> QED
    BY <1>1, Invariance, PTL

\* However often a caller sends a call again after a lost answer, a document takes
\* one batch for each of its revisions.
THEOREM RetryIsSafe == Spec => []OncePerRevision
  <1>1. Inv => OncePerRevision
    BY DEF Inv
  <1> QED
    BY <1>1, Invariance, PTL

\* A reported conflict changed nothing, unless the HTTP library sent the batch twice,
\* and a reported success was applied.
THEOREM Honest == Spec => []ReportsAreTrue
  <1>1. Inv => ReportsAreTrue
    BY DEF Inv, Local, ReportsAreTrue
  <1> QED
    BY <1>1, Invariance, PTL

\* Whatever fails, in whatever order, a call that is not cut short leaves no staged
\* image but those whose deletion failed, and that it reports.
THEOREM Staged == Spec => []StagingCleanedUp
  <1>1. Inv => StagingCleanedUp
    BY DEF Inv, Local, StagingCleanedUp
  <1> QED
    BY <1>1, Invariance, PTL

\* Titles that were compared before the batch are distinct when it is applied.
THEOREM Distinct == Spec => TitlesStayDistinct
  <1>1. ASSUME Inv, [Next]_vars, NEW r \in Requests, Applies(r)
        PROVE Shared(doc') \subseteq Shared(doc)
    <2>1. /\ doc' = Applied(doc, request[r].call)
          /\ Accepts(doc, request[r].call)
          /\ request[r].call.kind # "append" => Valid(doc, request[r].call)
      BY <1>1, AppliesIsTaken, TakenApplies
    <2>2. Valid(doc, request[r].call)
      BY <2>1 DEF Valid
    <2> QED
      BY <1>1, <2>1, <2>2, AppliedKeepsDistinct, RequestParts
  <1>2. Inv /\ [Next]_vars =>
            [\A r \in Requests : Applies(r) => Shared(doc') \subseteq Shared(doc)]_vars
    BY <1>1
  <1> QED
    BY <1>2, Invariance, PTL DEF Spec, TitlesStayDistinct

\* A deletion that was checked before the batch takes one tab of several.
THEOREM OneLeaf == Spec => DeletesOneLeaf
  <1>1. ASSUME Inv, [Next]_vars, NEW r \in Requests, Applies(r),
               request[r].call.kind = "delete"
        PROVE /\ TabsOf(doc') = TabsOf(doc) \ {request[r].call.tab}
              /\ TabsOf(doc') # {}
    <2>1. doc' = Applied(doc, request[r].call) /\ Valid(doc, request[r].call)
      BY <1>1, AppliesIsTaken, TakenApplies
    <2> QED
      BY <1>1, <2>1, AppliedDeletesOne, RequestParts
  <1>2. Inv /\ [Next]_vars =>
            [\A r \in Requests : Applies(r) /\ request[r].call.kind = "delete" =>
               /\ TabsOf(doc') = TabsOf(doc) \ {request[r].call.tab}
               /\ TabsOf(doc') # {}]_vars
    BY <1>1
  <1> QED
    BY <1>2, Invariance, PTL DEF Spec, DeletesOneLeaf

\* An image edit is confirmed only if nobody else has edited the document since
\* its caller inspected it.
THEOREM Verified == Spec => VerifiedAlone
  <1>1. ASSUME Inv, [Next]_vars, NEW r \in Requests,
               request[r].phase = "readback", request'[r].outcome = "done",
               request[r].call.kind = "images", request[r].named
        PROVE doc = Applied(request[r].seen, request[r].call)
    <2>1. Confirmed(request[r])
      BY <1>1, DoneIsConfirmed
    <2>2. doc.rev = request[r].revision
      BY <1>1, <2>1 DEF Confirmed
    <2> QED
      BY <1>1, <2>2, RequestParts DEF Local, OwnRevision
  <1>2. Inv /\ [Next]_vars =>
            [\A r \in Requests :
               (/\ request[r].phase = "readback" /\ request'[r].outcome = "done"
                /\ request[r].call.kind = "images" /\ request[r].named)
               => doc = Applied(request[r].seen, request[r].call)]_vars
    BY <1>1
  <1> QED
    BY <1>2, Invariance, PTL DEF Spec, VerifiedAlone
===============================================================================
