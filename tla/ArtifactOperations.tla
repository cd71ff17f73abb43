-------------------------- MODULE ArtifactOperations --------------------------
(***************************************************************************)
(* The tools and REST routes that work on artifacts through Drive: they    *)
(* retrieve, copy, create, rename, append to, move, delete, share, convert *)
(* and replace one.  A request is admitted first (SourcePolicy).  Then the *)
(* artifact's metadata and its ancestors are read one after another, while *)
(* users and other requests move things, and what was read is authorised;  *)
(* a destination is read likewise.  Only then Drive is asked to act.  A    *)
(* DOCX is downloaded, checked again, pinned, uploaded and read back.      *)
(***************************************************************************)
EXTENDS SourcePolicy

CONSTANTS
    Calls,        \* requests
    Sites,        \* deployments: registry, blocked identifiers, drive
    RevisionPage, \* the most revisions that Drive lists on one page
    MaxSaves      \* bound: versions of a DOCX

Kinds == {"folder", "document", "sheet", "office"}
Site  == [registry : Seq(SourceDefinition),
          blocked  : SUBSET Items,         \* workspace_blocked_source_ids
          drives   : SUBSET Items,         \* shared drives
          depth    : Nat,                  \* workspace_source_max_depth
          kind     : [Items -> Kinds],
          home     : [Items -> Items \cup {None}],  \* where items are at first
          spare    : SUBSET Items,         \* those that do not exist at first
          bearers  : SUBSET Principal,     \* bound: who uses it
          tools    : SUBSET Tools,         \* bound: the tools that are used
          wanted   : SUBSET Items,         \* bound: the artifacts they are used on
          goals    : SUBSET Items,         \* bound: the destinations that are named
          moves    : Nat]                  \* bound: moves

ASSUME ArtifactAssumption ==
    /\ Sites \subseteq Site /\ None \notin Items /\ Items # {} /\ IsFiniteSet(Items)
    /\ \A d \in Sites : \A k \in 1..Len(d.registry) :
          /\ d.registry[k].location \notin d.spare
          /\ d.kind[d.registry[k].location] = "folder"
    /\ \A d \in Sites : \A x \in Items \ d.spare : d.home[x] \notin d.spare
    /\ RevisionPage \in Nat \ {0} /\ MaxSaves \in Nat

VARIABLES
    site,    \* this deployment
    parent,  \* the folder every item is in
    made,    \* the items that exist
    moves,   \* how often something was moved
    blob,    \* the DOCX among the items: version, head revision, pinned revisions
    call     \* the requests

vars == <<site, parent, made, moves, blob, call>>

-----------------------------------------------------------------------------
(* Drive. *)

\* x is y, or below it.
Below(parents, x, y) ==
    \A S \in SUBSET Items :
        (x \in S /\ \A z \in S : parents[z] = None \/ parents[z] \in S) => y \in S

\* driveId: the shared drive that x is in.
DriveOf(x) == {d \in site.drives : Below(parent, x, d)}

\* Drive keeps items in one folder, and out of themselves.
Movable(x, to) == ~Below(parent, to, x) /\ x \notin site.drives

-----------------------------------------------------------------------------
(* Requests. *)

Outcomes == {"none", "success", "rejected", "error"}

Call == [stage    : {"idle", "item", "dest", "act", "measure", "fetch", "check", "list",
                     "pin", "upload", "readback", "ended"},
         tool     : Tools,
         source   : Nat,                 \* source_id
         item     : Items,               \* artifact_ref
         folder   : Items \cup {None},   \* the destination folder
         archive  : Nat,                 \* destination_source_id
         rightful : BOOLEAN,             \* history: mandate and consent at admission
         at       : Items \cup {None},   \* whose metadata is read next
         seen     : SUBSET Items,        \* read in this walk
         drive    : SUBSET Items,        \* driveId of the walk's first item
         up       : Items \cup {None},   \* parent_ids of the artifact
         way      : SUBSET Items,        \* history: read in the walk before
         torn     : BOOLEAN,             \* history: something read was moved since
         version  : Nat,                 \* of the snapshot
         base     : Nat,                 \* the snapshot's content: a revision
         checked  : Nat,                 \* history: head revision at the check
         head     : Nat,                 \* the revision listed as the latest
         mine     : Nat,                 \* the revision uploaded
         took     : BOOLEAN,             \* history: Drive has acted
         outcome  : Outcomes]

AnyItem == CHOOSE x \in Items : TRUE
NoCall  == [stage |-> "idle", tool |-> "retrieve", source |-> NoSource, item |-> AnyItem,
            folder |-> None, archive |-> NoSource, rightful |-> FALSE, at |-> None,
            seen |-> {}, drive |-> {}, up |-> None, way |-> {}, torn |-> FALSE,
            version |-> 0, base |-> 0, checked |-> 0, head |-> 0, mine |-> 0,
            took |-> FALSE, outcome |-> "none"]

\* The request is answered, and recorded with this result.
Ended(q, outcome) ==
    [NoCall EXCEPT !.stage = "ended", !.mine = q.mine, !.took = q.took, !.outcome = outcome]

Rejected(q) == Ended(q, "rejected")
Failures(q) == {Ended(q, "rejected"), Ended(q, "error")}

Walk(q, stage, x) ==
    [q EXCEPT !.stage = stage, !.at = x, !.way = @ \cup q.seen, !.seen = {}, !.drive = {}]

Onto(q, stage) == [q EXCEPT !.stage = stage, !.at = None]

Root(k) == site.registry[k].location

\* _protect_source_root, for those that are known by their identifier.
ProtectedAtOnce == {"delete", "share"}

\* Mutant of Protects: a root is protected in the source above it only.
ProtectsAbove(q) == \E k \in 1..(q.source - 1) : q.item = Root(k)

Protects(q) == q.item = Root(q.source)

\* Mutant of Target: the archive's source_id is taken for its location_id.
TargetUnresolved(q) == IF q.archive # NoSource THEN q.archive
                       ELSE IF q.folder # None THEN q.folder ELSE Root(q.source)

\* The folder that a copy or a move goes to.
Target(q) == IF q.archive # NoSource THEN Root(q.archive)
             ELSE IF q.folder # None THEN q.folder ELSE Root(q.source)

\* The policy that a tool asks before it reads anything.
Admitted(p, q, approved) ==
    \/ q.tool = "legacy"
    \/ /\ q.tool # "legacy" /\ Capability[q.tool] = "read"
       /\ ReadGoverned(site.registry, site.blocked, q.source)
    \/ /\ Capability[q.tool] \in Mutations
       /\ MutationAllowed(p, q.tool, site.registry, site.blocked, q.source, approved)
       /\ ~(q.tool \in ProtectedAtOnce /\ Protects(q))

\* Through MCP or REST.
LetIn(p, q) ==
    /\ Authenticated(p)
    /\ \/ /\ q.tool # "legacy" /\ ToolAllowed(p, q.tool)
          /\ Executed(p, q.tool, site.registry, q.source, q.archive)
       \/ q.tool \in Rest /\ RestAllowed(p, q.tool, q.source)

Begun(p, q, approved) ==
    IF ~LetIn(p, q) \/ ~Admitted(p, q, approved) THEN Rejected(q)
    ELSE IF q.tool = "create" THEN Onto(q, "act") ELSE Walk(q, "item", q.item)

Locations(q) == q.seen \cup q.drive

\* Mutant of Authorised: blocked identifiers are looked for in the source only.
AuthorisedUnblocked(q) ==
    IF q.tool = "legacy" THEN BelongsToAny(Locations(q), site.registry, {})
    ELSE BelongsTo(Locations(q), site.registry, {}, q.source)

Authorised(q) ==
    IF q.tool = "legacy" THEN BelongsToAny(Locations(q), site.registry, site.blocked)
    ELSE BelongsTo(Locations(q), site.registry, site.blocked, q.source)

\* What the tools do with an artifact that is authorised.
Only(kinds, q, next) == IF site.kind[q.item] \in kinds THEN next ELSE Rejected(q)

RetrieveAuthorized(q) == Only({"document"}, q, Onto(q, "act"))
RangeAuthorized(q)    == Only({"sheet"}, q, Onto(q, "act"))
LegacyAuthorized(q)   == Only({"document", "sheet"}, q, Onto(q, "act"))
InspectAuthorized(q)  == Only({"office"}, q, Onto(q, "act"))
CopyAuthorized(q)     == Only({"document", "sheet"}, q, Walk(q, "dest", Target(q)))
UpdateAuthorized(q)   == Only({"document"}, q, Onto(q, "act"))
ConvertAuthorized(q)  == Only({"office"}, q, Onto(q, "act"))
EditAuthorized(q)     == Only({"office"}, q, Onto(q, "measure"))
RenameAuthorized(q)   == IF Protects(q) THEN Rejected(q) ELSE Onto(q, "act")
DeleteAuthorized(q)   == Onto(q, "act")
ShareAuthorized(q)    == Onto(q, "act")
MoveAuthorized(q)     ==
    IF \/ q.archive # NoSource /\ q.folder # None
       \/ q.archive = NoSource /\ q.folder = None
       \/ q.archive # NoSource /\ ~ArchiveAllowed(site.registry, site.blocked, q.archive)
    THEN Rejected(q) ELSE Walk(q, "dest", Target(q))

\* After the artifact has been read.
ItemRead(q) ==
    IF ~Authorised(q) THEN Rejected(q)
    ELSE CASE q.tool = "retrieve" -> RetrieveAuthorized(q)
           [] q.tool = "range"    -> RangeAuthorized(q)
           [] q.tool = "legacy"   -> LegacyAuthorized(q)
           [] q.tool = "inspect"  -> InspectAuthorized(q)
           [] q.tool = "copy"     -> CopyAuthorized(q)
           [] q.tool = "rename"   -> RenameAuthorized(q)
           [] q.tool = "update"   -> UpdateAuthorized(q)
           [] q.tool = "edit"     -> EditAuthorized(q)
           [] q.tool = "move"     -> MoveAuthorized(q)
           [] q.tool = "delete"   -> DeleteAuthorized(q)
           [] q.tool = "share"    -> ShareAuthorized(q)
           [] q.tool = "convert"  -> ConvertAuthorized(q)

\* Mutant of DestRead: the folder that the client named only has to be a folder.
DestReadAnywhere(q) ==
    IF site.kind[Target(q)] # "folder" \/ (q.tool = "move" /\ q.up \in {Target(q), None})
    THEN Rejected(q) ELSE Onto(q, "act")

\* After its destination: a folder that the client named is authorised.
DestRead(q) ==
    IF \/ q.folder # None /\ ~Authorised(q)
       \/ site.kind[Target(q)] # "folder"
       \/ q.tool = "move" /\ q.up \in {Target(q), None}
    THEN Rejected(q) ELSE Onto(q, "act")

Set(s, q) == call' = [call EXCEPT ![s] = q]

\* What clients ask for: the parameters of the tools.
Goals    == {None} \cup (site.goals \cap made)
Archives == {NoSource} \cup 1..Len(site.registry)

Asking(tool, k, x, y, j) ==
    [NoCall EXCEPT !.tool = tool, !.source = k, !.item = x, !.folder = y, !.archive = j]

Asked(tool, folders, archives) ==
    {Asking(tool, k, x, y, j) :
        k \in 1..Len(site.registry), x \in site.wanted \cap made, y \in folders, j \in archives}

RetrieveDocument      == Asked("retrieve", {None}, {NoSource})
RetrieveSheetRange    == Asked("range", {None}, {NoSource})
WorkspaceDocument     == {[q EXCEPT !.source = NoSource] : q \in Asked("legacy", {None}, {NoSource})}
InspectDocxStructure  == Asked("inspect", {None}, {NoSource})
CopySourceArtifact    == Asked("copy", Goals, {NoSource})
CreateSourceArtifact  == Asked("create", {None}, {NoSource})
RenameSourceArtifact  == Asked("rename", {None}, {NoSource})
UpdateSourceArtifact  == Asked("update", {None}, {NoSource})
EditSourceDocx        == Asked("edit", {None}, {NoSource})
MoveSourceArtifact    == Asked("move", Goals, Archives)
DeleteSourceArtifact  == Asked("delete", {None}, {NoSource})
ShareSourceArtifact   == Asked("share", {None}, {NoSource})
ConvertSourceArtifact == Asked("convert", {None}, {NoSource})

Requests == UNION {RetrieveDocument, RetrieveSheetRange, WorkspaceDocument, InspectDocxStructure,
                   CopySourceArtifact, CreateSourceArtifact, RenameSourceArtifact,
                   UpdateSourceArtifact, EditSourceDocx, MoveSourceArtifact,
                   DeleteSourceArtifact, ShareSourceArtifact, ConvertSourceArtifact}

\* (history) What the principal and the sources say to it, all layers together.
Right(p, q, approved) ==
    /\ Mandate(p, q.tool, q.source, q.archive, approved)
    /\ q.tool = "legacy" \/ Consent(q.tool, site.registry, site.blocked, q.source, q.archive)

\* A request arrives.
Start(s) ==
    /\ call[s].stage = "idle"
    /\ \E p \in site.bearers, approved \in BOOLEAN, q \in Requests :
          /\ q.tool \in site.tools
          /\ Set(s, Begun(p, [q EXCEPT !.rightful = Right(p, q, approved)], approved))
    /\ UNCHANGED <<site, parent, made, moves, blob>>

\* get_resource stops there.
Deep(q) == Cardinality(q.seen) >= site.depth

\* get_resource: the metadata of one more item.
Read(s) ==
    LET q   == call[s]
        up  == parent[q.at]
        now == [q EXCEPT !.seen = @ \cup {q.at},
                         !.drive = IF q.seen = {} THEN DriveOf(q.at) ELSE @,
                         !.up = IF q.seen = {} /\ q.stage = "item" THEN up ELSE @]
    IN  /\ q.stage \in {"item", "dest"}
        /\ \/ /\ up # None /\ ~Deep(q)
              /\ Set(s, [now EXCEPT !.at = up])
           \/ /\ up = None \/ Deep(q)
              /\ Set(s, IF q.stage = "item" THEN ItemRead(now) ELSE DestRead(now))
           \/ \E failure \in Failures(q) : Set(s, failure)
        /\ UNCHANGED <<site, parent, made, moves, blob>>

-----------------------------------------------------------------------------
(* What Drive is asked to do. *)

\* (history) A request has read x, or something in a shared drive that is
\* below x.
Torn(q, x) ==
    /\ q.stage \notin {"idle", "ended"}
    /\ \/ x \in q.seen \cup q.way
       \/ /\ site.drives # {}
          /\ \E y \in {q.item, q.folder} \ {None} : Below(parent, y, x)

\* (history) The requests of c when x moves.
Noticed(c, x) == [r \in Calls |-> IF Torn(c[r], x) THEN [c[r] EXCEPT !.torn = TRUE] ELSE c[r]]

\* A move, as any change but one of content, makes a new version, too.
Touched(x) ==
    IF site.kind[x] = "office" THEN [blob EXCEPT ![x].version = @ + 1] ELSE blob

Room(x) == site.kind[x] = "office" => blob[x].version < MaxSaves

Moved(x, to) == parent' = [parent EXCEPT ![x] = to]

Adds(folder) ==
    /\ \E x \in site.spare \ made : Moved(x, folder) /\ made' = made \cup {x}
    /\ UNCHANGED <<moves, blob>>

\* copy_resource; create_document and create_spreadsheet; convert_resource.
CopyResource(q)    == q.tool = "copy" /\ Adds(Target(q))
CreateResource(q)  == q.tool = "create" /\ Adds(Root(q.source))
ConvertResource(q) == q.tool = "convert" /\ Adds(q.up)

\* move_resource: out of the folder it was in, if it still is, into another.
MoveResource(q) ==
    /\ q.tool = "move" /\ moves < site.moves /\ Room(q.item)
    /\ Movable(q.item, Target(q)) /\ parent[q.item] = q.up
    /\ Moved(q.item, Target(q)) /\ blob' = Touched(q.item) /\ moves' = moves + 1
    /\ UNCHANGED made

\* To the trash, a permission, some text: whatever is not where things are.
Changes(q) ==
    /\ Room(q.item) /\ blob' = Touched(q.item)
    /\ UNCHANGED <<parent, made, moves>>

RenameResource(q) == q.tool = "rename" /\ Changes(q)
AppendText(q)     == q.tool = "update" /\ Changes(q)
DeleteResource(q) == q.tool = "delete" /\ Changes(q)
ShareResource(q)  == q.tool = "share" /\ Changes(q)

\* Its content is read.
Gets == UNCHANGED <<parent, made, moves, blob>>

GetDocument(q) == q.tool \in {"retrieve", "legacy"} /\ site.kind[q.item] = "document" /\ Gets
GetRange(q)    == q.tool \in {"range", "legacy"} /\ site.kind[q.item] = "sheet" /\ Gets
GetBinary(q)   == q.tool = "inspect" /\ Gets

\* Mutant of Answers: the answer that is lost is recorded as a refusal.
AnswersRefused(q) == {Ended(q, "success"), Ended(q, "rejected")}

Answers(q) == {Ended(q, "success"), Ended(q, "error")}

\* The last request of a tool takes effect.  Its answer may be lost.
Act(s) ==
    LET q == [call[s] EXCEPT !.took = TRUE] IN
    /\ q.stage = "act"
    /\ \/ GetDocument(q) \/ GetRange(q) \/ GetBinary(q)
       \/ CopyResource(q) \/ CreateResource(q) \/ ConvertResource(q) \/ MoveResource(q)
       \/ RenameResource(q) \/ AppendText(q) \/ DeleteResource(q) \/ ShareResource(q)
    /\ \E answer \in Answers(q) :
          call' = LET c == [call EXCEPT ![s] = answer] IN
                  IF q.tool = "move" THEN Noticed(c, q.item) ELSE c
    /\ UNCHANGED site

\* Google refuses, or the request fails on the way there.
Fail(s) ==
    /\ call[s].stage \in {"act", "measure", "fetch", "check", "list", "pin", "upload", "readback"}
    /\ \E failure \in Failures(call[s]) : Set(s, failure)
    /\ UNCHANGED <<site, parent, made, moves, blob>>

-----------------------------------------------------------------------------
(* Replacing a DOCX. *)

Saved(b) == [b EXCEPT !.version = @ + 1, !.head = @ + 1]

\* download_binary, its metadata.
Measure(s) ==
    LET q == call[s] IN
    /\ q.stage = "measure"
    /\ Set(s, [q EXCEPT !.stage = "fetch", !.version = blob[q.item].version])
    /\ UNCHANGED <<site, parent, made, moves, blob>>

\* download_binary, its content; it is what the client has inspected and the
\* edit applies to it, or not.
Fetch(s) ==
    LET q == call[s] IN
    /\ q.stage = "fetch"
    /\ Set(s, [q EXCEPT !.stage = "check", !.base = blob[q.item].head]) \/ Set(s, Rejected(q))
    /\ UNCHANGED <<site, parent, made, moves, blob>>

\* Mutant of Unchanged: the snapshot is new enough.
UnchangedEnough(q) == q.base <= blob[q.item].head

Unchanged(q) == blob[q.item].version = q.version

\* replace_binary: the last-moment check.
Check(s) ==
    LET q == call[s] IN
    /\ q.stage = "check"
    /\ Set(s, IF Unchanged(q) THEN [q EXCEPT !.stage = "list", !.checked = blob[q.item].head]
              ELSE Rejected(q))
    /\ UNCHANGED <<site, parent, made, moves, blob>>

\* What can be the latest revision on the one page that is read: which revisions
\* Drive lists when there are more is not documented.
Latest(b) == IF b.head <= RevisionPage THEN {b.head} ELSE RevisionPage..b.head

\* The latest revision on the page, and whether that is pinned.
List(s) ==
    LET q == call[s]
        b == blob[q.item]
    IN  /\ q.stage = "list"
        /\ \E n \in Latest(b) :
              Set(s, [q EXCEPT !.stage = IF n \in b.kept THEN "upload" ELSE "pin", !.head = n])
        /\ UNCHANGED <<site, parent, made, moves, blob>>

\* Pinning may count as a change of the file.
Pin(s) ==
    LET q == call[s] IN
    /\ q.stage = "pin"
    /\ \E change \in {n \in 0..1 : n = 1 => Room(q.item)} :
          blob' = [blob EXCEPT ![q.item].kept = @ \cup {q.head}, ![q.item].version = @ + change]
    /\ Set(s, [q EXCEPT !.stage = "upload"])
    /\ UNCHANGED <<site, parent, made, moves>>

Upload(s) ==
    LET q == [call[s] EXCEPT !.took = TRUE, !.mine = blob[call[s].item].head + 1] IN
    /\ q.stage = "upload" /\ Room(q.item)
    /\ blob' = [blob EXCEPT ![q.item] = Saved(@)]
    /\ Set(s, [q EXCEPT !.stage = "readback"]) \/ Set(s, Ended(q, "error"))
    /\ UNCHANGED <<site, parent, made, moves>>

\* The content read back is the content sent.
Verified(q) == blob[q.item].head = q.mine

ReadBack(s) ==
    LET q == call[s] IN
    /\ q.stage = "readback"
    /\ Set(s, Ended(q, IF Verified(q) THEN "success" ELSE "error"))
    /\ UNCHANGED <<site, parent, made, moves, blob>>

-----------------------------------------------------------------------------
(* Users, and the next request. *)

\* A user moves something.
UserMove ==
    /\ moves < site.moves /\ moves' = moves + 1
    /\ \E x \in made, to \in made :
          /\ site.kind[to] = "folder" /\ parent[x] \notin {to, None} /\ Movable(x, to)
          /\ Room(x) /\ Moved(x, to) /\ blob' = Touched(x) /\ call' = Noticed(call, x)
    /\ UNCHANGED <<site, made>>

\* A user saves a DOCX.
UserSave ==
    /\ \E x \in made : site.kind[x] = "office" /\ Room(x) /\ blob' = [blob EXCEPT ![x] = Saved(@)]
    /\ UNCHANGED <<site, parent, made, moves, call>>

Again(s) ==
    /\ call[s].stage = "ended"
    /\ Set(s, NoCall)
    /\ UNCHANGED <<site, parent, made, moves, blob>>

Init ==
    /\ site \in Sites
    /\ parent = site.home /\ made = Items \ site.spare
    /\ moves = 0
    /\ blob = [x \in Items |-> [version |-> 1, head |-> 1, kept |-> {}]]
    /\ call = [s \in Calls |-> NoCall]

Step(s) == \/ Start(s) \/ Read(s) \/ Act(s) \/ Fail(s) \/ Measure(s) \/ Fetch(s) \/ Check(s)
           \/ List(s) \/ Pin(s) \/ Upload(s) \/ ReadBack(s) \/ Again(s)

Next == UserMove \/ UserSave \/ \E s \in Calls : Step(s)

Spec == Init /\ [][Next]_vars

-----------------------------------------------------------------------------
(* Properties. *)

\* The values every variable can take.
TypeOK ==
    /\ site \in Sites /\ parent \in [Items -> Items \cup {None}] /\ made \subseteq Items
    /\ moves \in 0..site.moves
    /\ blob \in [Items -> [version : Nat, head : Nat, kept : SUBSET Nat]]
    /\ call \in [Calls -> Call]

Takes(s) == call[s].took = FALSE /\ call'[s].took = TRUE

\* However the layers share the work, Drive acts only for a request whose
\* bearer had, when it arrived, every scope that the operation needs, to
\* sources that are active and allow it (the layers of SourcePolicy).
Rightful == [][\A s \in Calls : Takes(s) => call[s].rightful]_vars

\* Where a tool puts an item.
Into(q) == IF q.tool = "convert" THEN q.up ELSE Target(q)

\* An artifact that a request touches is, right then, in the source that the
\* request chose, and what it adds or moves lands in that source or in the
\* archive it named, unless something that it had read of their whereabouts was
\* moved since (authorize_resource_for_source, get_resource).
TouchesItsSource ==
    [][\A s \in Calls :
          LET q == call[s]
              Inside(x) == Below(parent, x, Root(q.source))
          IN  Takes(s) /\ q.tool # "legacy" /\ ~q.torn =>
                  /\ q.tool # "create" => Inside(q.item)
                  /\ q.tool \in {"create", "copy", "convert", "move"} =>
                        \/ Inside(Into(q))
                        \/ q.archive # NoSource /\ Into(q) = Root(q.archive)]_vars

\* x is under a blocked identifier that a walk from x can see.
Blocked(x) ==
    \E b \in site.blocked :
        /\ Below(parent, x, b)
        /\ \/ b \in site.drives
           \/ Cardinality({y \in Items \ {x} : Below(parent, x, y) /\ Below(parent, y, b)})
                <= site.depth

\* No artifact under a blocked identifier is touched, as far up as the walk
\* goes, unless it got there during the request.
BlockedUntouched ==
    [][\A s \in Calls :
          Takes(s) /\ call[s].tool # "create" /\ ~call[s].torn => ~Blocked(call[s].item)]_vars

\* README.md: a registered root cannot be deleted or shared as an artifact.  It
\* can, but only through another source that it lies in.
RootsOnlyFromAbove ==
    [][\A s \in Calls, k \in 1..Len(site.registry) :
          LET q == call[s] IN
          Takes(s) /\ q.tool \in {"delete", "share", "rename"} /\ q.item = Root(k) /\ ~q.torn =>
              \E j \in 1..Len(site.registry) \ {k} :
                  /\ q.source = j /\ Below(parent, Root(k), Root(j))
                  /\ Capability[q.tool] \in site.registry[j].capabilities]_vars

\* An upload replaces the very revision that was downloaded, unless somebody saved
\* between the last check and the upload.  Then, if the DOCX had no more revisions
\* than one page lists, that revision is pinned (replace_binary).
ReplacesWhatWasRead ==
    [][\A s \in Calls :
          LET q == call[s] IN
          Takes(s) /\ q.tool = "edit" =>
              /\ q.checked = q.base
              /\ blob[q.item].head = q.base /\ q.base <= RevisionPage =>
                     q.base \in blob[q.item].kept]_vars

\* A request recorded as a success has done its work, and an edit has read its
\* own content back, not a later one; one recorded as rejected has not changed an
\* artifact, unless it is an edit whose content could not be read back
\* (_execute_tool, edit_authorized_source_docx).  A revision that an edit pinned
\* before its upload was refused stays pinned: that is not counted.
AnswersAreTrue ==
    [][\A s \in Calls :
          LET q == call[s]
              r == call'[s]
          IN  q.stage # "ended" /\ r.stage = "ended" =>
                  /\ r.outcome = "success" =>
                        r.took /\ (q.stage = "readback" => blob[q.item].head = q.mine)
                  /\ r.outcome = "rejected" => ~r.took \/ q.stage = "readback"]_vars
=============================================================================
