----------------------------- MODULE DocumentEdit -----------------------------
(***************************************************************************)
(* Mutations of one Google Doc by governed tool calls: tabs are created,   *)
(* renamed and deleted, content is edited, images are inserted from blobs  *)
(* that are staged for the occasion.  A call inspects the document itself, *)
(* validates against what it read, and sends one batch that names the      *)
(* revision its caller had inspected.  Other calls and other users edit    *)
(* the document in between, and any call to Google may fail or take effect *)
(* without an answer.  The HTTP library sends a batch a second time if the *)
(* connection closes before its answer begins.                             *)
(***************************************************************************)
EXTENDS Naturals

CONSTANTS
    Requests,   \* tool calls
    Tabs,       \* the ids that Google gives to tabs
    Titles,     \* titles of tabs, case folded
    MaxAssets,  \* the most images one request brings
    MaxEdits,   \* bound: edits of other users
    Faulty      \* whether calls may fail

Root  == 0      \* the parent of a tab at the top
NoTab == 0      \* no tab_ref was given

ASSUME EditAssumption ==
    /\ Tabs \subseteq Nat \ {0} /\ 1 \in Tabs
    /\ Titles \cap {"unused", "deleted"} = {} /\ Titles # {}
    /\ MaxAssets \in Nat \ {0} /\ MaxEdits \in Nat /\ Faulty \in BOOLEAN

VARIABLES
    doc,      \* the document, with its revision
    staged,   \* the blobs in the staging bucket
    request,  \* the tool calls
    applied,  \* history: the calls whose batch was applied
    resent,   \* the calls whose batch was applied and is sent a second time
    stuck,    \* history: the blobs whose deletion failed
    edits     \* the edits of other users so far

vars == <<doc, staged, request, applied, resent, stuck, edits>>

-----------------------------------------------------------------------------
(* The document and the mutations of it. *)

Document == [rev    : Nat,
             title  : [Tabs -> Titles \cup {"unused", "deleted"}],
             parent : [Tabs -> Tabs \cup {Root}],
             images : Nat]

TabsOf(d)       == {t \in Tabs : d.title[t] \in Titles}
TitlesBut(d, t) == {d.title[u] : u \in TabsOf(d) \ {t}}
Children(d, t)  == {u \in TabsOf(d) : d.parent[u] = t}
NewTab(d)       == CHOOSE t \in Tabs : d.title[t] = "unused"

\* Google nests tabs at most three deep.
Subtree(d, t) ==
    {u \in TabsOf(d) : u = t \/ u \in Children(d, t)
                       \/ \E v \in Children(d, t) : u \in Children(d, v)}

Call ==
    [kind : {"create"}, title : Titles, parent : Tabs \cup {Root}]
    \cup [kind : {"rename"}, tab : Tabs, title : Titles]
    \cup [kind : {"delete"}, tab : Tabs]
    \cup [kind : {"edit"}, scope : Tabs \cup {NoTab}, tab : Tabs \cup {NoTab}]
    \cup {c \in [kind : {"images"}, assets : 1..MaxAssets, inserted : 0..MaxAssets] :
              c.inserted <= c.assets}
    \cup [kind : {"append"}]

\* Opaque references name tabs that Google has shown at some time.
Known(d) == {t \in Tabs : d.title[t] # "unused"} \cup {NoTab}

Shown(d, c) ==
    CASE c.kind = "create" -> c.parent \in Known(d)
      [] c.kind \in {"rename", "delete"} -> c.tab \in Known(d)
      [] c.kind = "edit" -> {c.scope, c.tab} \subseteq Known(d)
      [] OTHER -> TRUE

\* The tab an operation of an edit falls back to, and the one it is about.
Default(s, c) ==
    CASE c.scope # NoTab -> c.scope
      [] c.scope = NoTab /\ \E t \in Tabs : TabsOf(s) = {t} ->
             CHOOSE t \in Tabs : TabsOf(s) = {t}
      [] OTHER -> NoTab

Target(s, c) == IF c.tab # NoTab THEN c.tab ELSE Default(s, c)

InScope(s, c) ==
    /\ Target(s, c) # NoTab
    /\ Default(s, c) # NoTab => /\ Default(s, c) \in TabsOf(s)
                                /\ Target(s, c) = Default(s, c)

\* What a call asks of the structure s it has inspected.
Valid(s, c) ==
    CASE c.kind = "create" -> /\ c.title \notin TitlesBut(s, NoTab)
                              /\ c.parent \in TabsOf(s) \cup {Root}
      [] c.kind = "rename" -> /\ c.tab \in TabsOf(s)
                              /\ c.title \notin TitlesBut(s, c.tab)
      [] c.kind = "delete" -> /\ c.tab \in TabsOf(s)
                              /\ TabsOf(s) # {c.tab}
                              /\ Children(s, c.tab) = {}
      [] c.kind = "edit"   -> InScope(s, c)
      [] OTHER -> TRUE

\* Whether Google carries a batch out; the Gateway's own checks are not
\* counted on to be repeated there.
Accepts(d, c) ==
    CASE c.kind = "create" ->
             /\ \E t \in Tabs : d.title[t] = "unused"
             /\ \/ c.parent = Root
                \/ /\ c.parent \in TabsOf(d)
                   /\ ~\E u, v \in TabsOf(d) : c.parent \in Children(d, u)
                                              /\ u \in Children(d, v)
      [] c.kind \in {"rename", "delete"} -> c.tab \in TabsOf(d)
      [] c.kind = "edit" -> Target(d, c) \in TabsOf(d)
      [] OTHER -> TRUE

Applied(d, c) ==
    CASE c.kind = "create" -> [d EXCEPT !.rev = @ + 1,
                                        !.title[NewTab(d)] = c.title,
                                        !.parent[NewTab(d)] = c.parent]
      [] c.kind = "rename" -> [d EXCEPT !.rev = @ + 1, !.title[c.tab] = c.title]
      [] c.kind = "delete" ->
             [d EXCEPT !.rev = @ + 1,
                       !.title = [t \in Tabs |-> IF t \in Subtree(d, c.tab)
                                                 THEN "deleted" ELSE @[t]]]
      [] c.kind = "images" -> [d EXCEPT !.rev = @ + 1, !.images = @ + c.inserted]
      [] OTHER -> [d EXCEPT !.rev = @ + 1]

-----------------------------------------------------------------------------
(* Requests. *)

Phase == {"idle", "inspect", "stage", "update", "reread", "cleanup", "readback", "ended"}

Request == [phase    : Phase,
            call     : Call,
            required : Nat,       \* required_revision_id
            seen     : Document,  \* the structure inspected before the batch
            entered  : Nat,       \* the staged images that are still to be cleaned up
            revision : Nat,       \* the revision that the batch reported
            named    : BOOLEAN,   \* whether the answer to the batch had that revision
            outcome  : {"none", "done", "failed", "conflict", "crashed"}]

Goto(r, phase) == request' = [request EXCEPT ![r].phase = phase]

Blank == [rev |-> 0, images |-> 0, title  |-> [t \in Tabs |-> "unused"],
          parent |-> [t \in Tabs |-> Root]]

NoCall == [phase |-> "idle", call |-> [kind |-> "append"], required |-> 0, seen |-> Blank,
           entered |-> 0, revision |-> 0, named |-> FALSE, outcome |-> "none"]

\* A call returns or raises; its locals are gone.
Ended(q, outcome) ==
    [NoCall EXCEPT !.phase = "ended", !.required = q.required, !.outcome = outcome]

\* Mutant of LeftStaged: one blob too many is removed.
LeftStagedAlways(q) == q.entered >= 0

\* Whether images of the call are still staged.
LeftStaged(q) == q.entered > 0

\* An error unwinds the staged images first.
Raised(q, outcome) ==
    IF LeftStaged(q) THEN [q EXCEPT !.phase = "cleanup", !.outcome = outcome]
    ELSE Ended(q, outcome)

Raise(r, outcome) == request' = [request EXCEPT ![r] = Raised(@, outcome)]

\* The legacy append neither inspects nor names a revision.
Start(r) ==
    /\ request[r].phase = "idle"
    /\ \/ \E c \in {d \in Call : d.kind # "append"}, rev \in 1..doc.rev :
             /\ Shown(doc, c)
             /\ request' = [request EXCEPT ![r].phase = "inspect",
                                           ![r].call = c, ![r].required = rev]
       \/ Goto(r, "update")
    /\ UNCHANGED <<doc, staged, applied, resent, stuck, edits>>

Inspect(r) ==
    /\ request[r].phase = "inspect"
    /\ request' = [request EXCEPT
            ![r] = IF ~Valid(doc, request[r].call) THEN Ended(@, "failed")
                   ELSE [@ EXCEPT !.seen = doc,
                                  !.phase = IF request[r].call.kind = "images"
                                            THEN "stage" ELSE "update"]]
    /\ UNCHANGED <<doc, staged, applied, resent, stuck, edits>>

\* The next asset is fetched, rendered and uploaded under a name of its own.
Stage(r) ==
    LET next == request[r].entered + 1 IN
    /\ request[r].phase = "stage"
    /\ staged' = staged \cup {<<r, next>>}
    /\ request' = [request EXCEPT ![r].entered = next,
                                  ![r].phase = IF next = request[r].call.assets
                                               THEN "update" ELSE @]
    /\ UNCHANGED <<doc, applied, resent, stuck, edits>>

\* The asset cannot be had, or its upload fails, which may have stored it: the
\* failing blob is then cleaned up with the others.
StageFails(r) ==
    LET next == request[r].entered + 1 IN
    /\ Faulty /\ request[r].phase = "stage"
    /\ \/ /\ Raise(r, "failed")
          /\ UNCHANGED staged
       \/ /\ \E uploaded \in SUBSET {<<r, next>>} : staged' = staged \cup uploaded
          /\ request' = [request EXCEPT
                 ![r] = Raised([@ EXCEPT !.entered = next], "failed")]
    /\ UNCHANGED <<doc, applied, resent, stuck, edits>>

\* Mutant of Fresh: the batch is sent without the required revision.
FreshAlways(r) == TRUE

\* Google compares the required revision with the live one.
Fresh(r) == request[r].call.kind = "append" \/ request[r].required = doc.rev

\* After the batch: images are cleaned up, tabs are read back, an edit is done.
Onward(q) ==
    CASE q.call.kind = "images" -> [q EXCEPT !.phase = "cleanup"]
      [] q.call.kind \in {"create", "rename", "delete"} -> [q EXCEPT !.phase = "readback"]
      [] OTHER -> Ended(q, "done")

\* Google takes the batch.
Taken(r) ==
    /\ request[r].phase = "update" /\ Fresh(r) /\ Accepts(doc, request[r].call)
    /\ doc' = Applied(doc, request[r].call)
    /\ applied' = applied \cup {r}

\* Mutant of Unanswered: the call itself sends the batch again.
UnansweredRetried(q) == q

\* A call whose batch stays without an answer fails.
Unanswered(q) == Raised(q, "failed")

Update(r) ==
    /\ Taken(r)
    /\ \/ request' = [request EXCEPT
              ![r] = Onward([@ EXCEPT !.revision = doc.rev + 1, !.named = TRUE])]
       \/ request[r].call.kind # "append" /\ Goto(r, "reread")
       \/ Faulty /\ request' = [request EXCEPT ![r] = Unanswered(@)]
    /\ UNCHANGED <<staged, resent, stuck, edits>>

\* The connection closes before the answer: the batch is sent again, once.
UpdateResent(r) ==
    /\ Taken(r)
    /\ Faulty /\ r \notin resent
    /\ resent' = resent \cup {r}
    /\ UNCHANGED <<staged, request, stuck, edits>>

UpdateRefused(r) ==
    /\ request[r].phase = "update"
    /\ \/ ~Fresh(r) /\ Raise(r, "conflict")
       \/ (Faulty \/ (Fresh(r) /\ ~Accepts(doc, request[r].call))) /\ Raise(r, "failed")
    /\ UNCHANGED <<doc, staged, applied, resent, stuck, edits>>

\* The answer named no revision: the document is read for it.
Reread(r) ==
    /\ request[r].phase = "reread"
    /\ \/ request' = [request EXCEPT ![r] = Onward([@ EXCEPT !.revision = doc.rev])]
       \/ Faulty /\ Raise(r, "failed")
    /\ UNCHANGED <<doc, staged, applied, resent, stuck, edits>>

\* Mutant of CleanupOutcome: an error of a deletion is only logged.
CleanupSwallowed(q, error) == q.outcome

\* An error of a deletion counts if there was none before.
CleanupOutcome(q, error) ==
    IF error /\ q.outcome = "none" THEN "failed" ELSE q.outcome

CleanedUp(q, error) ==
    LET rest == [q EXCEPT !.entered = @ - 1, !.outcome = CleanupOutcome(q, error)] IN
    IF LeftStaged(rest) THEN rest
    ELSE IF rest.outcome = "none" THEN [rest EXCEPT !.phase = "readback"]
    ELSE Ended(rest, rest.outcome)

\* The images are left in the reverse order.
Cleanup(r) ==
    LET blob == <<r, request[r].entered>> IN
    /\ request[r].phase = "cleanup"
    /\ \E removed, error \in BOOLEAN :
         /\ ~removed => error
         /\ error => Faulty
         /\ staged' = IF removed THEN staged \ {blob} ELSE staged
         /\ stuck' = IF removed THEN stuck ELSE stuck \cup {blob}
         /\ request' = [request EXCEPT ![r] = CleanedUp(@, error)]
    /\ UNCHANGED <<doc, applied, resent, edits>>

\* Mutant of Confirmed: only the images are counted.
ConfirmedByCount(q) ==
    q.call.kind = "images" => doc.images = q.seen.images + q.call.inserted

\* Whether the document, inspected again, shows the mutation.
Confirmed(q) ==
    CASE q.call.kind = "create" -> q.call.title \in TitlesBut(doc, NoTab)
      [] q.call.kind = "rename" -> q.call.tab \in TabsOf(doc)
      [] q.call.kind = "images" -> /\ doc.rev = q.revision
                                   /\ doc.images = q.seen.images + q.call.inserted
      [] OTHER -> TRUE

Readback(r) ==
    /\ request[r].phase = "readback"
    /\ \/ Confirmed(request[r]) /\ Raise(r, "done")
       \/ (Faulty \/ ~Confirmed(request[r])) /\ Raise(r, "failed")
    /\ UNCHANGED <<doc, staged, applied, resent, stuck, edits>>

\* The instance stops; what is staged is left to the bucket's lifecycle rule.
Crash(r) ==
    /\ Faulty /\ request[r].phase \notin {"idle", "ended"}
    /\ request' = [request EXCEPT ![r] = Ended(@, "crashed")]
    /\ UNCHANGED <<doc, staged, applied, resent, stuck, edits>>

\* Another user edits the document by hand.
OtherEdit ==
    /\ edits < MaxEdits
    /\ \/ \E c \in Call : /\ Accepts(doc, c)
                          /\ c.kind = "delete" => TabsOf(doc) # Subtree(doc, c.tab)
                          /\ doc' = Applied(doc, c)
       \/ doc.images > 0 /\ doc' = [doc EXCEPT !.rev = @ + 1, !.images = @ - 1]
    /\ edits' = edits + 1
    /\ UNCHANGED <<staged, request, applied, resent, stuck>>

-----------------------------------------------------------------------------

\* One tab, no image, nothing staged; revisions start at 1.
Init ==
    /\ \E title \in Titles :
         doc = [Blank EXCEPT !.rev = 1, !.title[1] = title]
    /\ request = [r \in Requests |-> NoCall]
    /\ staged = {} /\ applied = {} /\ resent = {} /\ stuck = {} /\ edits = 0

Step(r) ==
    \/ Start(r) \/ Inspect(r) \/ Stage(r) \/ StageFails(r)
    \/ Update(r) \/ UpdateResent(r) \/ UpdateRefused(r) \/ Reread(r)
    \/ Cleanup(r) \/ Readback(r) \/ Crash(r)

Next == OtherEdit \/ \E r \in Requests : Step(r)

Spec == Init /\ [][Next]_vars

-----------------------------------------------------------------------------
(* Properties. *)

TypeOK ==
    /\ doc \in Document
    /\ request \in [Requests -> Request]
    /\ staged \subseteq Requests \X (1..MaxAssets)
    /\ stuck \subseteq Requests \X (1..MaxAssets)
    /\ applied \subseteq Requests /\ resent \subseteq Requests
    /\ edits \in Nat
    /\ \A r \in Requests : request[r].call.kind = "images" =>
                               request[r].entered <= request[r].call.assets

\* The call whose batch is applied in this step.
Applies(r) == r \in applied' /\ r \notin applied

\* A title that two tabs share.
Shared(d) == {d.title[t] : t \in {u \in TabsOf(d) : d.title[u] \in TitlesBut(d, u)}}

\* No call makes two tabs share a title, although the titles are compared in a
\* structure that was read before the batch: the revision that the caller
\* names is older than that structure or the same.
TitlesStayDistinct ==
    [][\A r \in Requests : Applies(r) => Shared(doc') \subseteq Shared(doc)]_vars

\* A deletion takes one tab, never the last and never one with children, which
\* Google would take along.
DeletesOneLeaf ==
    [][\A r \in Requests : Applies(r) /\ request[r].call.kind = "delete" =>
         /\ TabsOf(doc') = TabsOf(doc) \ {request[r].call.tab}
         /\ TabsOf(doc') # {}]_vars

\* A batch whose answer was lost can be sent again for the same revision, in a
\* call of its own, without being applied twice.
OncePerRevision ==
    \A r, s \in applied :
        request[r].required = request[s].required /\ request[r].required # 0 => r = s

Reported(r) == /\ request[r].outcome = "conflict" => r \notin applied \/ r \in resent
               /\ request[r].outcome = "done" => r \in applied

\* A call that reports a revision conflict changed nothing, unless the HTTP library
\* sent its batch twice; then the conflict may be with the call's own batch.  One
\* that reports success was applied.
ReportsAreTrue == \A r \in Requests : Reported(r)

LeftClean(r) ==
    request[r].phase = "ended" /\ request[r].outcome # "crashed" =>
        \A blob \in staged : blob[1] = r => blob \in stuck /\ request[r].outcome # "done"

\* A call that returns or raises leaves a blob staged only if its deletion failed,
\* and then it does not report success.
StagingCleanedUp == \A r \in Requests : LeftClean(r)

\* An image edit that reports success, its answer having named the revision, is
\* the only change since the revision its caller inspected.
VerifiedAlone ==
    [][\A r \in Requests :
         (/\ request[r].phase = "readback" /\ request'[r].outcome = "done"
          /\ request[r].call.kind = "images" /\ request[r].named)
         => doc = Applied(request[r].seen, request[r].call)]_vars

\* What a call read is older than the document or the document itself, and the
\* revision it names is not newer than what it read.
Versions(r) ==
    /\ request[r].phase = "idle" => request[r] = NoCall
    /\ request[r].phase # "ended" /\ request[r].call.kind = "append" =>
          request[r].required = 0
    /\ request[r].required <= doc.rev
    /\ (/\ request[r].phase \in {"stage", "update", "reread", "cleanup", "readback"}
        /\ request[r].call.kind # "append") =>
          /\ Valid(request[r].seen, request[r].call)
          /\ request[r].required <= request[r].seen.rev
          /\ request[r].seen.rev <= doc.rev
          /\ request[r].seen.rev = doc.rev => request[r].seen = doc

\* What a call has applied is in the past of the document.
AppliedBefore(r) ==
    /\ r \in applied =>
          /\ request[r].required < doc.rev
          /\ request[r].phase \notin {"idle", "inspect", "stage"}
          /\ request[r].phase = "update" => r \in resent
    /\ r \in resent => r \in applied
    /\ request[r].phase \in {"reread", "readback"} => r \in applied
    /\ request[r].phase = "cleanup" /\ request[r].outcome = "none" => r \in applied

Outcomes(r) ==
    /\ request[r].outcome # "none" => request[r].phase \in {"cleanup", "ended"}
    /\ request[r].outcome \in {"done", "crashed"} => request[r].phase = "ended"
    /\ request[r].phase = "ended" => request[r].outcome # "none"

\* The images that are still to be cleaned up, by phase.
Entered(r) ==
    /\ request[r].entered > 0 =>
          /\ request[r].call.kind = "images"
          /\ request[r].phase \in {"stage", "update", "reread", "cleanup"}
    /\ request[r].phase = "stage" =>
          /\ request[r].call.kind = "images"
          /\ request[r].entered < request[r].call.assets
    /\ request[r].phase = "cleanup" => request[r].entered > 0
    /\ request[r].phase \in {"update", "reread"} /\ request[r].call.kind = "images"
          => request[r].entered > 0

\* Every staged blob is still to be cleaned up, or stuck with an error reported.
Staging(r) ==
    /\ \A blob \in staged : blob[1] = r /\ request[r].phase # "ended" =>
          blob[2] <= request[r].entered \/ blob \in stuck
    /\ \A blob \in stuck : blob[1] = r => request[r].outcome \notin {"none", "done"}

\* Once its batch was answered, an image edit knows the revision it made.
OwnRevision(r) ==
    request[r].named =>
        /\ request[r].phase \in {"cleanup", "readback"}
        /\ request[r].call.kind = "images" =>
               /\ request[r].revision <= doc.rev
               /\ doc.rev = request[r].revision =>
                      doc = Applied(request[r].seen, request[r].call)

Local(r) == /\ Versions(r) /\ AppliedBefore(r) /\ Outcomes(r) /\ Entered(r)
            /\ Staging(r) /\ OwnRevision(r) /\ Reported(r) /\ LeftClean(r)

\* What a request remembers, from its inspection to its answer.  (The inductive
\* invariant.)
Inv == /\ TypeOK /\ doc.rev > 0 /\ OncePerRevision
       /\ \A r \in Requests : Local(r)
=============================================================================
