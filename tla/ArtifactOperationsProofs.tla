----------------------- MODULE ArtifactOperationsProofs -----------------------
(***************************************************************************)
(* Theorems about ArtifactOperations, for every registry, every tree of    *)
(* folders and shared drives, every principal and every number of requests *)
(* and moves: the layers of SourcePolicy together give the right to what   *)
(* is done, what is touched is in the source it was asked of and not       *)
(* blocked, an edit replaces what it has read, and answers are true.       *)
(*                                                                         *)
(* Inv is the inductive invariant of all but the last theorem; LookInv, on *)
(* top of it, has what the walk to an artifact did not meet.               *)
(***************************************************************************)
EXTENDS ArtifactOperations, FiniteSetTheorems, TLAPS

Active(q) == q.stage \notin {"idle", "ended"}

EditStages == {"measure", "fetch", "check", "list", "pin", "upload", "readback"}

\* What a request asks for, as far as it has been admitted.
Asks(q) ==
    /\ q.tool # "legacy" => q.source \in 1..Len(site.registry)
    /\ q.archive \in {NoSource} \cup 1..Len(site.registry)
    /\ q.tool # "move" => q.archive = NoSource
    /\ q.tool \notin {"copy", "move"} => q.folder = None
    /\ Capability[q.tool] \in Mutations =>
           Capability[q.tool] \in site.registry[q.source].capabilities
    /\ q.tool \in ProtectedAtOnce => ~Protects(q)

\* The archive of a move is looked at after the artifact was read.
Granted(q) ==
    q.rightful \/ /\ q.stage = "item" /\ q.tool = "move" /\ q.archive # NoSource
                  /\ ~ArchiveAllowed(site.registry, site.blocked, q.archive)

\* Which tools are in which stage, and what they have checked before.
Staged(q) ==
    /\ q.took <=> q.stage = "readback"
    /\ q.stage \in EditStages => q.tool = "edit"
    /\ q.stage = "dest" => q.tool \in {"copy", "move"}
    /\ q.tool = "create" => q.stage = "act"
    /\ q.stage # "item" /\ q.tool = "rename" => ~Protects(q)
    /\ q.stage # "item" /\ q.tool = "convert" => site.kind[q.item] = "office"
    /\ q.stage # "item" /\ q.tool = "move" => (q.archive = NoSource <=> q.folder # None)

\* Everything that a request names or has read exists.
Exists(q, m) ==
    /\ q.item \in m /\ q.seen \subseteq m /\ q.way \subseteq m
    /\ {q.folder, q.at, q.up} \subseteq m \cup {None}
    /\ q.stage \in {"item", "dest"} => q.at # None

\* From x the parents of the items in D lead to y, whatever those of others are.
Leads(par, D, x, y) ==
    \A S \in SUBSET Items :
        (x \in S /\ \A z \in S \cap D : par[z] = None \/ par[z] \in S) => y \in S

\* x is below y as far as the request has read it, or was told of its drive.
Held(q, par, x, y) ==
    Leads(par, q.way \cup q.seen, x, y) \/ (y \in site.drives /\ Below(par, x, y))

\* A walk reads the ancestors of x.
Climbs(q, par, x) ==
    /\ \A y \in q.seen \cup {q.at} : Leads(par, q.seen, x, y)
    /\ \A d \in q.drive : d \in site.drives /\ Below(par, x, d)

\* What was read still holds, unless some of it was moved.
Walks(q, par) ==
    ~q.torn =>
      /\ q.stage = "item" => Climbs(q, par, q.item)
      /\ q.stage = "dest" /\ q.folder # None => Climbs(q, par, q.folder)
      /\ q.stage # "item" /\ q.tool \notin {"create", "legacy"} =>
             Held(q, par, q.item, Root(q.source))
      /\ q.stage = "act" /\ q.folder # None => Held(q, par, q.folder, Root(q.source))
      /\ q.tool = "convert" /\ (q.stage = "act" \/ q.seen # {}) =>
             q.item \in q.seen /\ q.up = par[q.item]

\* What an edit has seen of its DOCX.
Edits(q, b) ==
    /\ q.stage \in EditStages \ {"measure"} => q.version <= b.version
    /\ q.stage \in EditStages \ {"measure", "fetch"} =>
           /\ q.base <= b.head
           /\ b.version = q.version => b.head = q.base
    /\ q.stage \in {"list", "pin", "upload"} => q.checked = q.base
    /\ q.stage \in {"pin", "upload"} =>
           /\ q.base <= q.head \/ RevisionPage <= q.head
           /\ q.head <= b.head
    /\ q.stage = "upload" => q.head \in b.kept

GoodCall(q, par, m, b) ==
    Active(q) => /\ Asks(q) /\ Granted(q) /\ Staged(q)
                 /\ Exists(q, m) /\ Walks(q, par) /\ Edits(q, b[q.item])

\* Folders of existing items exist, and so do the sources' roots.
Placed(par, m) == /\ \A z \in m : par[z] \in m \cup {None}
                  /\ Items \ site.spare \subseteq m

\* The inductive invariant.
Inv == /\ TypeOK /\ Placed(parent, made)
       /\ \A s \in Calls : GoodCall(call[s], parent, made, blob)
                           /\ (call[s].stage = "idle" => ~call[s].took)

-----------------------------------------------------------------------------
(* Constants and records. *)

\* What the tools are and need.
LEMMA CapabilityFacts ==
    /\ Tools = {"retrieve", "range", "inspect", "legacy", "copy", "create", "rename", "update",
                "edit", "move", "delete", "share", "convert"}
    /\ \A t \in Tools : /\ Capability[t] \in {"read"} \cup Mutations
                        /\ Capability[t] = "read" <=> t \in {"retrieve", "range", "inspect", "legacy"}
    /\ Capability["move"] = "move"
BY DEF Tools, Capability, Mutations

\* What a deployment is.
LEMMA SiteFacts ==
    ASSUME TypeOK
    PROVE  /\ site \in Site
           /\ \A k \in 1..Len(site.registry) :
                 /\ site.registry[k] \in SourceDefinition /\ Root(k) \in Items
                 /\ Root(k) \notin site.spare /\ site.kind[Root(k)] = "folder"
           /\ site.drives \subseteq Items /\ site.moves \in Nat
<1>1. site \in Site /\ site \in Sites
  BY ArtifactAssumption DEF TypeOK
<1>2. site.registry \in Seq(SourceDefinition) /\ site.drives \subseteq Items /\ site.moves \in Nat
  BY <1>1 DEF Site
<1>3. \A k \in 1..Len(site.registry) : site.registry[k] \in SourceDefinition
  BY <1>2
<1>4. QED
  BY <1>1, <1>2, <1>3, ArtifactAssumption DEF SourceDefinition, Root

\* A new request.
LEMMA NoCallShape ==
    /\ NoCall \in Call /\ NoCall.stage = "idle" /\ ~NoCall.took
    /\ NoCall.archive = NoSource /\ NoCall.folder = None /\ NoCall.seen = {} /\ NoCall.drive = {}
    /\ NoCall.way = {} /\ NoCall.up = None /\ NoCall.at = None
<1>1. AnyItem \in Items
  BY ArtifactAssumption DEF AnyItem
<1>2. "retrieve" \in Tools
  BY CapabilityFacts
<1>3. QED
  BY <1>1, <1>2 DEF NoCall, Call, NoSource, Outcomes

\* An answered request.
LEMMA EndedShape ==
    ASSUME NEW q \in Call, NEW o \in Outcomes
    PROVE  /\ Ended(q, o) \in Call /\ Ended(q, o).stage = "ended"
           /\ Ended(q, o).took = q.took /\ Ended(q, o).outcome = o
<1> DEFINE a == [NoCall EXCEPT !.stage = "ended", !.mine = q.mine]
           b == [a EXCEPT !.took = q.took, !.outcome = o]
<1>1. a \in Call /\ a.stage = "ended"
  BY NoCallShape DEF Call
<1>2. b = Ended(q, o)
  BY DEF Ended
<1> HIDE DEF a
<1>3. b \in Call /\ b.stage = a.stage /\ b.took = q.took /\ b.outcome = o
  BY <1>1 DEF Call
<1>4. QED
  BY <1>1, <1>2, <1>3

\* r asks for what q asks for.
SameAsk(q, r) ==
    /\ r.tool = q.tool /\ r.source = q.source /\ r.item = q.item /\ r.folder = q.folder
    /\ r.archive = q.archive /\ r.rightful = q.rightful

\* The next stage.
LEMMA OntoShape ==
    ASSUME NEW q \in Call, NEW stage \in {"act", "measure"}
    PROVE  LET r == Onto(q, stage) IN
           /\ r \in Call /\ r.stage = stage /\ r.at = None /\ SameAsk(q, r)
           /\ r.seen = q.seen /\ r.drive = q.drive /\ r.up = q.up /\ r.way = q.way
           /\ r.torn = q.torn /\ r.took = q.took
BY DEF Onto, Call, SameAsk

\* The next walk.
LEMMA WalkShape ==
    ASSUME NEW q \in Call, NEW stage \in {"item", "dest"}, NEW x \in Items
    PROVE  LET r == Walk(q, stage, x) IN
           /\ r \in Call /\ r.stage = stage /\ r.at = x /\ SameAsk(q, r)
           /\ r.seen = {} /\ r.drive = {} /\ r.up = q.up /\ r.way = q.way \cup q.seen
           /\ r.torn = q.torn /\ r.took = q.took
<1> DEFINE a == [q EXCEPT !.stage = stage, !.at = x]
           b == [a EXCEPT !.way = @ \cup q.seen, !.seen = {}, !.drive = {}]
<1>1. /\ a \in Call /\ a.stage = stage /\ a.at = x /\ SameAsk(q, a) /\ a.up = q.up
      /\ a.way = q.way /\ a.torn = q.torn /\ a.took = q.took
  BY DEF Call, SameAsk
<1>2. b = Walk(q, stage, x)
  BY DEF Walk
<1>3. q.seen \subseteq Items /\ q.way \subseteq Items
  BY DEF Call
<1> HIDE DEF a
<1>4. /\ b \in Call /\ b.stage = a.stage /\ b.at = a.at /\ SameAsk(a, b)
      /\ b.seen = {} /\ b.drive = {} /\ b.up = a.up /\ b.way = a.way \cup q.seen
      /\ b.torn = a.torn /\ b.took = a.took
  BY <1>1, <1>3 DEF Call, SameAsk
<1>5. QED
  BY <1>1, <1>2, <1>4 DEF SameAsk

-----------------------------------------------------------------------------
(* The layers. *)

\* The layers that a request passes, none of which looks at everything, give
\* together the right to the operation: a live principal with the capability,
\* with every source and archive in its scope, and sources that are active, not
\* blocked, of the right type and willing (the layers of SourcePolicy).
THEOREM LayersGrantRight ==
    ASSUME TypeOK, NEW p \in Principal, NEW q \in Call, NEW approved \in BOOLEAN,
           q.tool # "legacy" => q.source \in 1..Len(site.registry),
           q.archive \in {NoSource} \cup 1..Len(site.registry),
           q.tool # "move" => q.archive = NoSource,
           LetIn(p, q), Admitted(p, q, approved),
           q.archive = NoSource \/ ArchiveAllowed(site.registry, site.blocked, q.archive)
    PROVE  Right(p, q, approved)
<1> DEFINE R == site.registry
           c == Capability[q.tool]
<1>1. /\ q.tool \in Tools /\ c \in {"read"} \cup Mutations
      /\ c = "read" <=> q.tool \in {"retrieve", "range", "inspect", "legacy"}
      /\ Capability["move"] = "move" /\ "read" \notin Mutations
  BY CapabilityFacts DEF Call, Mutations
<1>2. p.standing = "active" /\ p.type \in {"management", "developer", "signal_worker"}
  BY DEF LetIn, Authenticated, Principal
<1>3. p.type # "signal_worker"
  BY DEF LetIn, ToolAllowed, RestAllowed
<1>4. Mandate(p, q.tool, q.source, q.archive, approved)
  <2>1. CASE p.type = "management"
    <3>1. c \in Mutations => approved
      BY <1>1, <2>1 DEF Admitted, MutationAllowed
    <3>2. QED
      BY <1>2, <2>1, <3>1 DEF Mandate
  <2>2. CASE p.type = "developer"
    <3>1. CASE q.tool # "legacy" /\ ToolAllowed(p, q.tool) /\ Executed(p, q.tool, R, q.source, q.archive)
      BY <1>2, <2>2, <3>1
      DEF Mandate, ToolAllowed, Executed, WorkspaceOperation, NoSource
    <3>2. CASE q.tool \in Rest /\ RestAllowed(p, q.tool, q.source)
      <4>1. p.workspace /\ "read" \in p.capabilities /\ q.tool # "legacy" /\ q.source \in p.sources
        BY <2>2, <3>2 DEF RestAllowed
      <4>2. q.tool \in {"retrieve", "range"} /\ c = "read" /\ q.archive = NoSource
        BY <1>1, <3>2, <4>1 DEF Rest
      <4>3. QED
        BY <1>2, <2>2, <4>1, <4>2 DEF Mandate, ManagementOnly
    <3>3. QED
      BY <3>1, <3>2 DEF LetIn
  <2>3. QED
    BY <1>2, <1>3, <2>1, <2>2
<1>5. ASSUME q.tool # "legacy"
      PROVE  Consent(q.tool, R, site.blocked, q.source, q.archive)
  <2>1. /\ Governed(R, site.blocked, q.source) /\ c \in R[q.source].capabilities
        /\ c = "read" => R[q.source].type \in Readable
    BY <1>1, <1>5 DEF Admitted, MutationAllowed, ReadGoverned
  <2>2. CASE q.archive = NoSource
    BY <2>1, <2>2 DEF Consent, Governed, Readable
  <2>3. CASE q.archive # NoSource
    <3>1. q.tool = "move" /\ c = "move" /\ ArchiveAllowed(R, site.blocked, q.archive)
      BY <1>1, <2>3
    <3>2. QED
      BY <2>1, <3>1 DEF Consent, Governed, ArchiveAllowed
  <2>4. QED
    BY <2>2, <2>3
<1>6. QED
  BY <1>4, <1>5 DEF Right

\* A developer is shown no tool in vain: of what it is shown there is an active
\* source in its scope for which the tool is let through
\* (_principal_can_see_tool, _execute_tool).
THEOREM ShownToolsWork ==
    ASSUME NEW p, NEW tool \in Tools, NEW registry, p.type = "developer",
           Shown(p, tool, registry)
    PROVE  \E k \in 1..Len(registry) :
              /\ registry[k].active
              /\ ToolAllowed(p, tool) /\ Executed(p, tool, registry, k, NoSource)
BY DEF Shown, Effective, ToolAllowed, Executed, WorkspaceOperation

-----------------------------------------------------------------------------
(* Trees. *)

\* What is led to by some parents is below.
LEMMA LeadsBelow ==
    ASSUME NEW par, NEW D, NEW x, NEW y, Leads(par, D, x, y)
    PROVE  Below(par, x, y)
BY DEF Leads, Below

\* More parents lead at least as far.
LEMMA LeadsMore ==
    ASSUME NEW par, NEW D, NEW E, D \subseteq E, NEW x, NEW y, Leads(par, D, x, y)
    PROVE  Leads(par, E, x, y)
BY DEF Leads

\* Held implies below.
LEMMA HeldBelow ==
    ASSUME NEW q, NEW par, NEW x, NEW y, Held(q, par, x, y)
    PROVE  Below(par, x, y)
BY LeadsBelow DEF Held

\* Parents of other items do not matter.
LEMMA LeadsOther ==
    ASSUME NEW par \in [Items -> Items \cup {None}], NEW z \in Items, NEW to \in Items \cup {None},
           NEW D, z \notin D, NEW x, NEW y, Leads(par, D, x, y)
    PROVE  Leads([par EXCEPT ![z] = to], D, x, y)
<1> DEFINE new == [par EXCEPT ![z] = to]
<1>1. \A w \in Items : w \in D => new[w] = par[w]
  OBVIOUS
<1> HIDE DEF new
<1>2. Leads(new, D, x, y)
  BY <1>1 DEF Leads
<1>3. QED
  BY <1>2 DEF new

\* Nor do those of items that x is not below.
LEMMA BelowOther ==
    ASSUME NEW par \in [Items -> Items \cup {None}], NEW z \in Items, NEW to \in Items \cup {None},
           NEW x, NEW y, ~Below(par, x, z), Below(par, x, y)
    PROVE  Below([par EXCEPT ![z] = to], x, y)
<1> DEFINE new == [par EXCEPT ![z] = to]
<1>1. PICK A \in SUBSET Items :
         x \in A /\ (\A w \in A : par[w] = None \/ par[w] \in A) /\ z \notin A
  BY DEF Below
<1>2. \A w \in A : new[w] = par[w]
  BY <1>1
<1> HIDE DEF new
<1>3. ASSUME NEW S \in SUBSET Items, x \in S, \A w \in S : new[w] = None \/ new[w] \in S
      PROVE  y \in S
  <2> DEFINE T == S \cap A
  <2>1. T \in SUBSET Items /\ x \in T
    BY <1>1, <1>3
  <2>2. \A w \in T : par[w] = None \/ par[w] \in T
    BY <1>1, <1>2, <1>3
  <2>3. y \in T
    BY <2>1, <2>2 DEF Below
  <2>4. QED
    BY <2>3
<1>4. Below(new, x, y)
  BY <1>3 DEF Below
<1>5. QED
  BY <1>4 DEF new

\* Existing items are below existing ones.
LEMMA BelowExists ==
    ASSUME NEW par, NEW m \in SUBSET Items, Placed(par, m), NEW x \in m, NEW y, Below(par, x, y)
    PROVE  y \in m
BY DEF Below, Placed

\* Reading one more item.
LEMMA ClimbOne ==
    ASSUME NEW par, NEW D, NEW x, NEW a \in Items, NEW y,
           \A z \in D \cup {a} : Leads(par, D, x, z),
           y \in D \cup {a} \/ (y = par[a] /\ y # None)
    PROVE  Leads(par, D \cup {a}, x, y)
<1>1. CASE y \in D \cup {a}
  BY <1>1, LeadsMore
<1>2. CASE y = par[a] /\ y # None
  BY <1>2 DEF Leads
<1>3. QED
  BY <1>1, <1>2

-----------------------------------------------------------------------------
(* How a request goes on. *)

\* What is known of a request and of what exists.
LEMMA Typed ==
    ASSUME Inv, NEW s \in Calls
    PROVE  /\ call[s] \in Call /\ GoodCall(call[s], parent, made, blob)
           /\ made \subseteq Items /\ parent \in [Items -> Items \cup {None}]
           /\ \A k \in 1..Len(site.registry) : Root(k) \in made
           /\ \A z \in made : parent[z] \in made \cup {None}
<1>1. TypeOK /\ Placed(parent, made)
  BY DEF Inv
<1>2. \A k \in 1..Len(site.registry) : Root(k) \in made
  BY <1>1, SiteFacts DEF Placed
<1>3. QED
  BY <1>1, <1>2 DEF Inv, TypeOK, Placed

\* One more item has been read.
LEMMA ReadGood ==
    ASSUME Inv, NEW s \in Calls, call[s].stage \in {"item", "dest"}, NEW r \in Call,
           r.stage = call[s].stage, SameAsk(call[s], r),
           r.seen = call[s].seen \cup {call[s].at},
           r.drive = IF call[s].seen = {} THEN DriveOf(call[s].at) ELSE call[s].drive,
           r.up = IF call[s].seen = {} /\ call[s].stage = "item" THEN parent[call[s].at]
                  ELSE call[s].up,
           r.way = call[s].way, r.torn = call[s].torn, r.took = call[s].took,
           r.at \in {call[s].at, parent[call[s].at]} \ {None}
    PROVE  GoodCall(r, parent, made, blob)
<1> DEFINE q == call[s]
<1>1. /\ q \in Call /\ GoodCall(q, parent, made, blob) /\ made \subseteq Items
      /\ \A z \in made : parent[z] \in made \cup {None}
  BY Typed
<1>2. Asks(q) /\ Granted(q) /\ Staged(q) /\ Exists(q, made) /\ Walks(q, parent)
  BY <1>1 DEF GoodCall, Active
<1>3. Asks(r) /\ Granted(r)
  BY <1>2 DEF Asks, Granted, SameAsk, Protects
<1>4. Staged(r)
  BY <1>2 DEF Staged, SameAsk, Protects
<1>5. q.at \in made /\ q.at \in Items /\ q.item \in made /\ q.item \in Items
  BY <1>1, <1>2 DEF Exists
<1>6. Exists(r, made)
  BY <1>1, <1>2, <1>5 DEF Exists, SameAsk
<1>7. ASSUME NEW x \in Items, Climbs(q, parent, x)
      PROVE  Climbs(r, parent, x) /\ (q.seen = {} => q.at = x)
  <2>1. ASSUME NEW y \in r.seen \cup {r.at}
        PROVE  Leads(parent, r.seen, x, y)
    <3>1. \A z \in q.seen \cup {q.at} : Leads(parent, q.seen, x, z)
      BY <1>7 DEF Climbs
    <3>2. y \in q.seen \cup {q.at} \/ (y = parent[q.at] /\ y # None)
      BY <2>1
    <3>3. Leads(parent, q.seen \cup {q.at}, x, y)
      BY <1>5, <3>1, <3>2, ClimbOne
    <3>4. QED
      BY <3>3
  <2>2. ASSUME q.seen = {}
        PROVE  q.at = x
    <3>1. Leads(parent, {}, x, q.at)
      BY <1>7, <2>2 DEF Climbs
    <3>2. /\ {x} \in SUBSET Items /\ x \in {x}
          /\ \A z \in {x} \cap {} : parent[z] = None \/ parent[z] \in {x}
      OBVIOUS
    <3>3. q.at \in {x}
      BY <3>1, <3>2 DEF Leads
    <3>4. QED
      BY <3>3
  <2>3. \A d \in r.drive : d \in site.drives /\ Below(parent, x, d)
    BY <1>7, <2>2 DEF Climbs, DriveOf
  <2>4. QED
    BY <2>1, <2>2, <2>3 DEF Climbs
<1>8. Walks(r, parent)
  <2> SUFFICES ASSUME ~r.torn PROVE Walks(r, parent)
    BY DEF Walks
  <2>1. r.stage = "item" => Climbs(r, parent, r.item)
    BY <1>2, <1>5, <1>7 DEF Walks, SameAsk
  <2>2. r.stage = "dest" /\ r.folder # None => Climbs(r, parent, r.folder)
    BY <1>1, <1>2, <1>7 DEF Walks, SameAsk, Exists
  <2>3. r.stage # "item" /\ r.tool \notin {"create", "legacy"} =>
            Held(r, parent, r.item, Root(r.source))
    <3>1. SUFFICES ASSUME r.stage # "item", r.tool \notin {"create", "legacy"}
                   PROVE  Held(r, parent, r.item, Root(r.source))
      OBVIOUS
    <3>2. Held(q, parent, r.item, Root(r.source))
      BY <1>2, <3>1 DEF Walks, SameAsk
    <3>3. q.way \cup q.seen \subseteq r.way \cup r.seen
      OBVIOUS
    <3>4. QED
      BY <3>2, <3>3, LeadsMore DEF Held
  <2>4. r.stage # "act"
    OBVIOUS
  <2>5. r.tool = "convert" => r.item \in r.seen /\ r.up = parent[r.item]
    <3>1. SUFFICES ASSUME r.tool = "convert"
                   PROVE  r.item \in r.seen /\ r.up = parent[r.item]
      OBVIOUS
    <3>2. q.stage = "item" /\ Climbs(q, parent, q.item)
      BY <1>2, <3>1 DEF Staged, SameAsk, Walks
    <3>3. q.seen = {} => q.at = q.item
      BY <1>5, <1>7, <3>2
    <3>4. QED
      BY <1>2, <3>1, <3>2, <3>3 DEF Walks, SameAsk
  <2>6. QED
    BY <2>1, <2>2, <2>3, <2>4, <2>5 DEF Walks
<1>9. Edits(r, blob[r.item])
  BY DEF Edits, EditStages
<1>10. QED
  BY <1>3, <1>4, <1>6, <1>8, <1>9 DEF GoodCall

\* What was climbed and is authorised is held.
LEMMA ClimbHeld ==
    ASSUME NEW q \in Call, NEW x, Climbs(q, parent, x), Authorised(q), q.tool # "legacy"
    PROVE  Held(q, parent, x, Root(q.source))
<1>1. Root(q.source) \in q.seen \cup q.drive
  BY DEF Authorised, BelongsTo, Locations, Root
<1>2. CASE Root(q.source) \in q.seen
  <2>1. Leads(parent, q.seen, x, Root(q.source)) /\ q.seen \subseteq q.way \cup q.seen
    BY <1>2 DEF Climbs
  <2>2. QED
    BY <2>1, LeadsMore DEF Held
<1>3. CASE Root(q.source) \in q.drive
  BY <1>3 DEF Climbs, Held
<1>4. QED
  BY <1>1, <1>2, <1>3

\* An authorised artifact goes on to Drive, or to the edit.
LEMMA OntoGood ==
    ASSUME NEW q \in Call, GoodCall(q, parent, made, blob), q.stage = "item", q.seen # {},
           Authorised(q), NEW stage \in {"act", "measure"},
           q.tool \notin {"copy", "move"}, stage = "measure" => q.tool = "edit",
           q.tool = "rename" => ~Protects(q),
           q.tool = "convert" => site.kind[q.item] = "office"
    PROVE  Onto(q, stage) \in Call /\ GoodCall(Onto(q, stage), parent, made, blob)
<1> DEFINE r == Onto(q, stage)
<1>1. /\ r \in Call /\ r.stage = stage /\ r.at = None /\ SameAsk(q, r)
      /\ r.seen = q.seen /\ r.drive = q.drive /\ r.up = q.up /\ r.way = q.way
      /\ r.torn = q.torn /\ r.took = q.took
  BY OntoShape
<1> HIDE DEF r
<1>2. Asks(q) /\ Granted(q) /\ Staged(q) /\ Exists(q, made) /\ Walks(q, parent)
  BY DEF GoodCall, Active
<1>3. Asks(r) /\ Granted(r)
  BY <1>1, <1>2 DEF Asks, Granted, SameAsk, Protects
<1>4. Staged(r)
  BY <1>1, <1>2 DEF Staged, SameAsk, Protects, EditStages
<1>5. Exists(r, made)
  BY <1>1, <1>2 DEF Exists, SameAsk
<1>6. Walks(r, parent)
  <2> SUFFICES ASSUME ~r.torn PROVE Walks(r, parent)
    BY DEF Walks
  <2>1. ~q.torn /\ Climbs(q, parent, q.item)
    BY <1>1, <1>2 DEF Walks
  <2>2. r.tool # "legacy" => Held(r, parent, r.item, Root(r.source))
    <3>1. q.tool # "legacy" => Held(q, parent, q.item, Root(q.source))
      BY <2>1, ClimbHeld
    <3>2. QED
      BY <1>1, <3>1 DEF SameAsk, Held
  <2>3. r.folder = None
    BY <1>1, <1>2 DEF Asks, SameAsk
  <2>4. r.tool = "convert" => r.item \in r.seen /\ r.up = parent[r.item]
    BY <1>1, <1>2, <2>1 DEF Walks, SameAsk
  <2>5. QED
    BY <1>1, <2>2, <2>3, <2>4 DEF Walks
<1>7. Edits(r, blob[r.item])
  BY <1>1 DEF Edits, EditStages
<1>8. QED
  BY <1>1, <1>3, <1>4, <1>5, <1>6, <1>7 DEF GoodCall, r

\* An authorised artifact that will be copied or moved goes on to its destination.
LEMMA WalkGood ==
    ASSUME Inv, NEW q \in Call, GoodCall(q, parent, made, blob), q.stage = "item",
           Authorised(q), q.tool \in {"copy", "move"},
           q.tool = "move" =>
               /\ q.archive = NoSource <=> q.folder # None
               /\ q.archive # NoSource =>
                      ArchiveAllowed(site.registry, site.blocked, q.archive)
    PROVE  /\ Target(q) \in Items /\ Walk(q, "dest", Target(q)) \in Call
           /\ GoodCall(Walk(q, "dest", Target(q)), parent, made, blob)
<1> DEFINE r == Walk(q, "dest", Target(q))
<1>1. /\ Asks(q) /\ Granted(q) /\ Staged(q) /\ Exists(q, made) /\ Walks(q, parent)
  BY DEF GoodCall, Active
<1>2. made \subseteq Items /\ \A k \in 1..Len(site.registry) : Root(k) \in made
  BY SiteFacts DEF Inv, TypeOK, Placed
<1>3. Target(q) \in made /\ (q.folder # None => Target(q) = q.folder)
  BY <1>1, <1>2 DEF Target, Asks, Exists
<1>4. /\ r \in Call /\ r.stage = "dest" /\ r.at = Target(q) /\ SameAsk(q, r)
      /\ r.seen = {} /\ r.drive = {} /\ r.up = q.up /\ r.way = q.way \cup q.seen
      /\ r.torn = q.torn /\ r.took = q.took
  BY <1>2, <1>3, WalkShape
<1> HIDE DEF r
<1>5. Asks(r)
  BY <1>1, <1>4 DEF Asks, SameAsk, Protects
<1>6. Granted(r)
  BY <1>1, <1>4 DEF Granted, SameAsk
<1>7. Staged(r)
  BY <1>1, <1>4 DEF Staged, SameAsk, EditStages
<1>8. Exists(r, made)
  BY <1>1, <1>2, <1>3, <1>4, ArtifactAssumption DEF Exists, SameAsk
<1>9. Walks(r, parent)
  <2> SUFFICES ASSUME ~r.torn PROVE Walks(r, parent)
    BY DEF Walks
  <2>1. Held(q, parent, q.item, Root(q.source))
    BY <1>1, <1>4, ClimbHeld DEF Walks
  <2>2. Held(r, parent, r.item, Root(r.source))
    <3>1. r.way \cup r.seen = q.way \cup q.seen
      BY <1>4
    <3>2. QED
      BY <1>4, <2>1, <3>1 DEF Held, SameAsk
  <2>3. r.folder # None => Climbs(r, parent, r.folder)
    BY <1>3, <1>4 DEF Climbs, Leads, SameAsk
  <2>4. QED
    BY <1>4, <2>2, <2>3 DEF Walks, SameAsk
<1>10. Edits(r, blob[r.item])
  BY <1>4 DEF Edits, EditStages
<1>11. QED
  BY <1>2, <1>3, <1>4, <1>5, <1>6, <1>7, <1>8, <1>9, <1>10 DEF GoodCall, r

\* After the artifact was read the request is refused, or goes on.
LEMMA ItemReadGood ==
    ASSUME Inv, NEW q \in Call, GoodCall(q, parent, made, blob), q.stage = "item", q.seen # {}
    PROVE  \/ ItemRead(q) = Rejected(q)
           \/ /\ ItemRead(q) \in Call /\ GoodCall(ItemRead(q), parent, made, blob)
              /\ ItemRead(q).stage \in {"act", "measure", "dest"} /\ ItemRead(q).took = q.took
<1>1. CASE ~Authorised(q)
  BY <1>1 DEF ItemRead
<1>2. CASE Authorised(q)
  <2>1. q.tool \in Tools /\ q.tool # "create"
    BY DEF Call, GoodCall, Active, Staged
  <2>2. ASSUME NEW stage \in {"act", "measure"}, q.tool \notin {"copy", "move"},
               stage = "measure" => q.tool = "edit",
               q.tool = "rename" => ~Protects(q),
               q.tool = "convert" => site.kind[q.item] = "office"
        PROVE  /\ Onto(q, stage) \in Call /\ GoodCall(Onto(q, stage), parent, made, blob)
               /\ Onto(q, stage).stage \in {"act", "measure", "dest"}
               /\ Onto(q, stage).took = q.took
    BY <1>2, <2>2, OntoGood, OntoShape
  <2>3. ASSUME q.tool \in {"copy", "move"},
               q.tool = "move" =>
                   /\ q.archive = NoSource <=> q.folder # None
                   /\ q.archive # NoSource =>
                          ArchiveAllowed(site.registry, site.blocked, q.archive)
        PROVE  LET r == Walk(q, "dest", Target(q)) IN
               /\ r \in Call /\ GoodCall(r, parent, made, blob)
               /\ r.stage \in {"act", "measure", "dest"} /\ r.took = q.took
    BY <1>2, <2>3, WalkGood, WalkShape
  <2>4. CASE q.tool \in {"retrieve", "range", "legacy", "inspect", "update"}
    BY <1>2, <2>2, <2>4
    DEF ItemRead, RetrieveAuthorized, RangeAuthorized, LegacyAuthorized, InspectAuthorized,
        UpdateAuthorized, Only
  <2>5. CASE q.tool \in {"delete", "share"}
    BY <1>2, <2>2, <2>5 DEF ItemRead, DeleteAuthorized, ShareAuthorized
  <2>6. CASE q.tool = "rename"
    BY <1>2, <2>2, <2>6 DEF ItemRead, RenameAuthorized
  <2>7. CASE q.tool = "convert"
    BY <1>2, <2>2, <2>7 DEF ItemRead, ConvertAuthorized, Only
  <2>8. CASE q.tool = "edit"
    BY <1>2, <2>2, <2>8 DEF ItemRead, EditAuthorized, Only
  <2>9. CASE q.tool = "copy"
    BY <1>2, <2>3, <2>9 DEF ItemRead, CopyAuthorized, Only
  <2>10. CASE q.tool = "move"
    BY <1>2, <2>3, <2>10 DEF ItemRead, MoveAuthorized
  <2>11. QED
    BY <2>1, <2>4, <2>5, <2>6, <2>7, <2>8, <2>9, <2>10, CapabilityFacts
<1>3. QED
  BY <1>1, <1>2

\* After its destination was read, too.
LEMMA DestReadGood ==
    ASSUME NEW q \in Call, GoodCall(q, parent, made, blob), q.stage = "dest"
    PROVE  \/ DestRead(q) = Rejected(q)
           \/ /\ DestRead(q) \in Call /\ GoodCall(DestRead(q), parent, made, blob)
              /\ DestRead(q).stage = "act" /\ DestRead(q).took = q.took
<1> SUFFICES ASSUME DestRead(q) # Rejected(q)
             PROVE  /\ DestRead(q) \in Call /\ GoodCall(DestRead(q), parent, made, blob)
                    /\ DestRead(q).stage = "act" /\ DestRead(q).took = q.took
  OBVIOUS
<1> DEFINE r == Onto(q, "act")
<1>1. DestRead(q) = r /\ (q.folder # None => Authorised(q))
  BY DEF DestRead
<1>2. Asks(q) /\ Granted(q) /\ Staged(q) /\ Exists(q, made) /\ Walks(q, parent)
  BY DEF GoodCall, Active
<1>3. /\ r \in Call /\ r.stage = "act" /\ r.at = None /\ SameAsk(q, r)
      /\ r.seen = q.seen /\ r.drive = q.drive /\ r.up = q.up /\ r.way = q.way
      /\ r.torn = q.torn /\ r.took = q.took
  BY OntoShape
<1> HIDE DEF r
<1>4. q.tool \in {"copy", "move"}
  BY <1>2 DEF Staged
<1>5. Asks(r) /\ Granted(r)
  BY <1>2, <1>3 DEF Asks, Granted, SameAsk, Protects
<1>6. Staged(r)
  BY <1>2, <1>3, <1>4 DEF Staged, SameAsk, EditStages
<1>7. Exists(r, made)
  BY <1>2, <1>3 DEF Exists, SameAsk
<1>8. Walks(r, parent)
  <2> SUFFICES ASSUME ~r.torn PROVE Walks(r, parent)
    BY DEF Walks
  <2>1. Held(q, parent, q.item, Root(q.source))
    BY <1>2, <1>3, <1>4 DEF Walks
  <2>2. q.folder # None => Held(q, parent, q.folder, Root(q.source))
    BY <1>1, <1>2, <1>3, <1>4, ClimbHeld DEF Walks
  <2>3. Held(r, parent, r.item, Root(r.source))
    BY <1>3, <2>1 DEF Held, SameAsk
  <2>4. r.folder # None => Held(r, parent, r.folder, Root(r.source))
    BY <1>3, <2>2 DEF Held, SameAsk
  <2>5. QED
    BY <1>3, <1>4, <2>3, <2>4 DEF Walks, SameAsk
<1>9. Edits(r, blob[r.item])
  BY <1>3 DEF Edits, EditStages
<1>10. QED
  BY <1>1, <1>3, <1>5, <1>6, <1>7, <1>8, <1>9 DEF GoodCall

-----------------------------------------------------------------------------
(* Requests arrive. *)

\* What clients ask for, from the start.
Fresh(q) ==
    /\ q \in Call /\ ~q.took /\ q.seen = {} /\ q.drive = {} /\ q.way = {}
    /\ q.up = None /\ q.at = None
    /\ q.item \in made /\ q.folder \in made \cup {None}
    /\ q.archive \in {NoSource} \cup 1..Len(site.registry)
    /\ q.tool # "legacy" => q.source \in 1..Len(site.registry)
    /\ q.tool # "move" => q.archive = NoSource
    /\ q.tool \notin {"copy", "move"} => q.folder = None

\* The parameters of one tool.
LEMMA AskedFresh ==
    ASSUME TypeOK, made \subseteq Items, NEW tool \in Tools, NEW folders, NEW archives,
           folders \subseteq made \cup {None},
           archives \subseteq {NoSource} \cup 1..Len(site.registry),
           tool # "move" => archives = {NoSource},
           tool \notin {"copy", "move"} => folders = {None},
           NEW q \in Asked(tool, folders, archives)
    PROVE  Fresh(q) /\ q.tool = tool
<1>1. PICK k \in 1..Len(site.registry), x \in site.wanted \cap made, y \in folders, j \in archives :
         q = Asking(tool, k, x, y, j)
  BY DEF Asked
<1> DEFINE a == [NoCall EXCEPT !.tool = tool, !.source = k]
           b == [a EXCEPT !.item = x, !.folder = y, !.archive = j]
<1>0. Len(site.registry) \in Nat
  BY SiteFacts DEF Site
<1>7. k \in Nat
  BY <1>0
<1>8. /\ a \in Call /\ a.tool = tool /\ a.source = k /\ a.took = NoCall.took
      /\ a.seen = NoCall.seen /\ a.drive = NoCall.drive /\ a.way = NoCall.way
      /\ a.up = NoCall.up /\ a.at = NoCall.at
  BY <1>7, NoCallShape DEF Call
<1>2. /\ a \in Call /\ a.tool = tool /\ a.source = k /\ ~a.took /\ a.seen = {} /\ a.drive = {}
      /\ a.way = {} /\ a.up = None /\ a.at = None
  BY <1>8, NoCallShape
<1>3. q = b
  BY <1>1 DEF Asking
<1>4. /\ x \in made /\ x \in Items /\ y \in made \cup {None} /\ y \in Items \cup {None}
      /\ j \in {NoSource} \cup 1..Len(site.registry) /\ j \in Nat
  BY <1>0 DEF NoSource
<1> HIDE DEF a
<1>5. /\ b \in Call /\ b.tool = tool /\ b.source = k /\ ~b.took /\ b.seen = {} /\ b.drive = {}
      /\ b.way = {} /\ b.up = None /\ b.at = None /\ b.item = x /\ b.folder = y /\ b.archive = j
  BY <1>2, <1>4 DEF Call, NoSource
<1>6. (tool # "move" => j = NoSource) /\ (tool \notin {"copy", "move"} => y = None)
  OBVIOUS
<1>9. QED
  BY <1>3, <1>4, <1>5, <1>6 DEF Fresh

\* All of them.
LEMMA RequestsFresh ==
    ASSUME TypeOK, made \subseteq Items, NEW q \in Requests
    PROVE  Fresh(q)
<1>1. Goals \subseteq made \cup {None} /\ {None} \subseteq made \cup {None}
  BY DEF Goals
<1>2. /\ Archives \subseteq {NoSource} \cup 1..Len(site.registry)
      /\ {NoSource} \subseteq {NoSource} \cup 1..Len(site.registry)
  BY DEF Archives
<1>3. CASE q \in UNION {RetrieveDocument, RetrieveSheetRange, InspectDocxStructure,
                        CreateSourceArtifact, RenameSourceArtifact, UpdateSourceArtifact,
                        EditSourceDocx, DeleteSourceArtifact, ShareSourceArtifact,
                        ConvertSourceArtifact}
  <2>1. PICK tool \in {"retrieve", "range", "inspect", "create", "rename", "update", "edit",
                       "delete", "share", "convert"} : q \in Asked(tool, {None}, {NoSource})
    BY <1>3
    DEF RetrieveDocument, RetrieveSheetRange, InspectDocxStructure, CreateSourceArtifact,
        RenameSourceArtifact, UpdateSourceArtifact, EditSourceDocx, DeleteSourceArtifact,
        ShareSourceArtifact, ConvertSourceArtifact
  <2>2. tool \in Tools
    BY CapabilityFacts
  <2>3. QED
    BY <1>1, <1>2, <2>1, <2>2, AskedFresh
<1>4. CASE q \in CopySourceArtifact
  <2>1. "copy" \in Tools
    BY CapabilityFacts
  <2>2. QED
    BY <1>1, <1>2, <1>4, <2>1, AskedFresh DEF CopySourceArtifact
<1>5. CASE q \in MoveSourceArtifact
  <2>1. "move" \in Tools
    BY CapabilityFacts
  <2>2. QED
    BY <1>1, <1>2, <1>5, <2>1, AskedFresh DEF MoveSourceArtifact
<1>6. CASE q \in WorkspaceDocument
  <2>1. PICK r \in Asked("legacy", {None}, {NoSource}) : q = [r EXCEPT !.source = NoSource]
    BY <1>6 DEF WorkspaceDocument
  <2>2. "legacy" \in Tools
    BY CapabilityFacts
  <2>3. Fresh(r) /\ r.tool = "legacy"
    BY <1>1, <1>2, <2>1, <2>2, AskedFresh
  <2>4. QED
    BY <2>1, <2>3 DEF Fresh, Call, NoSource
<1>7. QED
  BY <1>3, <1>4, <1>5, <1>6 DEF Requests

\* What a request becomes.
LEMMA BegunGood ==
    ASSUME Inv, NEW p \in Principal, NEW approved \in BOOLEAN, NEW q, Fresh(q),
           q.rightful = Right(p, q, approved)
    PROVE  LET r == Begun(p, q, approved) IN
           \/ r = Rejected(q)
           \/ r \in Call /\ GoodCall(r, parent, made, blob) /\ Active(r) /\ ~r.took
<1> DEFINE r == Begun(p, q, approved)
<1> SUFFICES ASSUME r # Rejected(q)
             PROVE  r \in Call /\ GoodCall(r, parent, made, blob) /\ Active(r) /\ ~r.took
  OBVIOUS
<1>1. /\ LetIn(p, q) /\ Admitted(p, q, approved)
      /\ r = IF q.tool = "create" THEN Onto(q, "act") ELSE Walk(q, "item", q.item)
  BY DEF Begun
<1>2. TypeOK /\ made \subseteq Items /\ q.item \in made /\ q.item \in Items /\ q.item # None
  BY ArtifactAssumption DEF Inv, TypeOK, Fresh
<1>3. \/ q.rightful
      \/ /\ q.tool = "move" /\ q.archive # NoSource
         /\ ~ArchiveAllowed(site.registry, site.blocked, q.archive)
  BY <1>1, <1>2, LayersGrantRight DEF Fresh
<1>4. /\ r \in Call /\ r.stage \in {"item", "act"}
      /\ r.stage = "act" <=> q.tool = "create"
      /\ SameAsk(q, r) /\ r.seen = {} /\ r.drive = {} /\ r.way = {} /\ r.up = None /\ ~r.took
      /\ r.at \in {None, q.item}
      /\ r.stage = "item" => r.at = q.item
  <2>1. CASE q.tool = "create"
    <3>1. r = Onto(q, "act") /\ q \in Call
      BY <1>1, <2>1 DEF Fresh
    <3>2. QED
      BY <2>1, <3>1, OntoShape DEF Fresh
  <2>2. CASE q.tool # "create"
    <3>1. r = Walk(q, "item", q.item) /\ q \in Call
      BY <1>1, <2>2 DEF Fresh
    <3>2. /\ r \in Call /\ r.stage = "item" /\ r.at = q.item /\ SameAsk(q, r)
          /\ r.seen = {} /\ r.drive = {} /\ r.up = q.up /\ r.way = q.way \cup q.seen
          /\ r.took = q.took
      BY <1>2, <3>1, WalkShape
    <3>3. q.way \cup q.seen = {} /\ ~q.took /\ q.up = None
      BY DEF Fresh
    <3>4. QED
      BY <2>2, <3>2, <3>3
  <2>3. QED
    BY <2>1, <2>2
<1> HIDE DEF r
<1>5. Asks(r)
  <2>1. Capability[q.tool] \in Mutations =>
           Capability[q.tool] \in site.registry[q.source].capabilities
    BY <1>1 DEF Admitted, MutationAllowed, ReadGoverned, Capability, Mutations
  <2>2. q.tool \in ProtectedAtOnce => ~Protects(q)
    BY <1>1 DEF Admitted, ProtectedAtOnce, Capability, Mutations
  <2>3. Protects(r) <=> Protects(q)
    BY <1>4 DEF Protects, SameAsk
  <2>4. QED
    BY <1>4, <2>1, <2>2, <2>3 DEF Asks, Fresh, SameAsk
<1>6. Granted(r)
  BY <1>3, <1>4 DEF Granted, SameAsk
<1>7. Staged(r)
  BY <1>4 DEF Staged, SameAsk, EditStages
<1>8. Exists(r, made)
  BY <1>2, <1>4 DEF Exists, Fresh, SameAsk
<1>9. Walks(r, parent)
  BY <1>4 DEF Walks, Climbs, Leads, SameAsk, Fresh
<1>10. Edits(r, blob[r.item])
  BY <1>4 DEF Edits, EditStages
<1>11. QED
  BY <1>4, <1>5, <1>6, <1>7, <1>8, <1>9, <1>10 DEF GoodCall, Active

-----------------------------------------------------------------------------
(* Steps. *)

\* An answer is true.
Answered(q, r, b) ==
    q.stage # "ended" /\ r.stage = "ended" =>
        /\ r.outcome = "success" => r.took /\ (q.stage = "readback" => b[q.item].head = q.mine)
        /\ r.outcome = "rejected" => ~r.took \/ q.stage = "readback"

\* Answers are true, and Drive only acts where it is asked to.
Honest == \A r \in Calls : /\ Takes(r) => Act(r) \/ Upload(r)
                           /\ Answered(call[r], call'[r], blob)

\* The invariant after a step.
LEMMA Assembled ==
    ASSUME Inv, site' = site, TypeOK', Placed(parent', made'),
           \A r \in Calls : /\ GoodCall(call'[r], parent', made', blob')
                            /\ call'[r].stage = "idle" => ~call'[r].took
    PROVE  Inv'
<1>1. ASSUME NEW r \in Calls
      PROVE  GoodCall(call[r], parent, made, blob)'
  <2>1. SUFFICES ASSUME Active(call'[r])
                 PROVE  /\ Asks(call[r])' /\ Granted(call[r])' /\ Staged(call[r])'
                        /\ Exists(call[r], made)' /\ Walks(call[r], parent)'
                        /\ Edits(call[r], blob[call[r].item])'
    BY DEF GoodCall, Active
  <2>2. /\ Asks(call'[r]) /\ Granted(call'[r]) /\ Staged(call'[r])
        /\ Exists(call'[r], made') /\ Walks(call'[r], parent')
        /\ Edits(call'[r], blob'[call'[r].item])
    BY <2>1 DEF GoodCall
  <2>3. Asks(call[r])'
    BY <2>2 DEF Asks, Protects, Root
  <2>4. Granted(call[r])'
    BY <2>2 DEF Granted
  <2>5. Staged(call[r])'
    BY <2>2 DEF Staged, Protects, Root
  <2>6. Walks(call[r], parent)'
    BY <2>2 DEF Walks, Held, Climbs, Root
  <2>7. Exists(call[r], made)' /\ Edits(call[r], blob[call[r].item])'
    BY <2>2 DEF Exists, Edits
  <2>8. QED
    BY <2>3, <2>4, <2>5, <2>6, <2>7
<1>2. Placed(parent, made)'
  BY DEF Placed
<1>3. QED
  BY <1>1, <1>2 DEF Inv

\* A request goes on, and nothing else changes.
LEMMA GoesOn ==
    ASSUME Inv, NEW s \in Calls, NEW next \in Call, Set(s, next),
           UNCHANGED <<site, parent, made, moves, blob>>,
           GoodCall(next, parent, made, blob), next.stage = "idle" => ~next.took,
           ~(call[s].took = FALSE /\ next.took = TRUE), Answered(call[s], next, blob)
    PROVE  Inv' /\ Honest
<1>1. /\ call' \in [Calls -> Call] /\ call'[s] = next
      /\ \A r \in Calls \ {s} : call'[r] = call[r]
  BY DEF Inv, TypeOK, Set
<1>2. TypeOK' /\ Placed(parent', made')
  BY <1>1 DEF Inv, TypeOK, Placed
<1>3. \A r \in Calls : /\ GoodCall(call'[r], parent', made', blob')
                       /\ call'[r].stage = "idle" => ~call'[r].took
  <2>1. \A r \in Calls : /\ GoodCall(call'[r], parent, made, blob)
                         /\ call'[r].stage = "idle" => ~call'[r].took
    BY <1>1 DEF Inv
  <2>2. QED
    BY <2>1
<1>4. Inv'
  BY <1>2, <1>3, Assembled
<1>5. Honest
  <2>1. \A r \in Calls : ~Takes(r)
    BY <1>1 DEF Takes
  <2>2. \A r \in Calls : Answered(call[r], call'[r], blob)
    BY <1>1 DEF Answered
  <2>3. QED
    BY <2>1, <2>2 DEF Honest
<1>6. QED
  BY <1>4, <1>5

\* A request is refused or fails.
LEMMA Fails ==
    ASSUME Inv, NEW s \in Calls, NEW q \in Call, NEW o \in {"rejected", "error"},
           Set(s, Ended(q, o)), q.took = call[s].took,
           call[s].took => call[s].stage = "readback",
           UNCHANGED <<site, parent, made, moves, blob>>
    PROVE  Inv' /\ Honest
<1> DEFINE next == Ended(q, o)
<1>1. /\ next \in Call /\ next.stage = "ended" /\ next.took = q.took /\ next.outcome = o
  BY EndedShape DEF Outcomes
<1> HIDE DEF next
<1>2. GoodCall(next, parent, made, blob)
  BY <1>1 DEF GoodCall, Active
<1>3. ~(call[s].took = FALSE /\ next.took = TRUE)
  BY <1>1
<1>4. Answered(call[s], next, blob)
  BY <1>1 DEF Answered
<1>5. Set(s, next)
  BY DEF next
<1>6. next.stage # "idle"
  BY <1>1
<1>7. QED
  BY <1>1, <1>2, <1>3, <1>4, <1>5, <1>6, GoesOn

\* A request that has not been answered has taken effect only when it reads back.
LEMMA TookLate ==
    ASSUME Inv, NEW s \in Calls, call[s].stage # "ended"
    PROVE  /\ call[s].took => call[s].stage = "readback"
           /\ call[s].took \in BOOLEAN /\ call[s] \in Call
<1>1. call[s].took \in BOOLEAN /\ call[s] \in Call
  BY DEF Inv, TypeOK, Call
<1>2. CASE call[s].stage = "idle"
  BY <1>1, <1>2 DEF Inv
<1>3. CASE call[s].stage # "idle"
  BY <1>1, <1>3 DEF Inv, GoodCall, Active, Staged
<1>4. QED
  BY <1>1, <1>2, <1>3

\* Start.
LEMMA StartStep ==
    ASSUME Inv, NEW s \in Calls, Start(s)
    PROVE  Inv' /\ Honest
<1>1. PICK p \in site.bearers, approved \in BOOLEAN, q \in Requests :
         Set(s, Begun(p, [q EXCEPT !.rightful = Right(p, q, approved)], approved))
  BY DEF Start
<1>2. TypeOK /\ made \subseteq Items /\ p \in Principal
  BY SiteFacts DEF Inv, TypeOK, Site
<1>3. Fresh(q)
  BY <1>2, RequestsFresh
<1> DEFINE r == [q EXCEPT !.rightful = Right(p, q, approved)]
<1>4. Right(p, q, approved) \in BOOLEAN
  BY DEF Right
<1>5. /\ r \in Call /\ r.rightful = Right(p, q, approved) /\ r.tool = q.tool
      /\ r.source = q.source /\ r.item = q.item /\ r.folder = q.folder
      /\ r.archive = q.archive /\ r.took = q.took /\ r.seen = q.seen /\ r.drive = q.drive
      /\ r.way = q.way /\ r.up = q.up /\ r.at = q.at
  BY <1>3, <1>4 DEF Fresh, Call
<1> HIDE DEF r
<1>6. Fresh(r)
  BY <1>3, <1>5 DEF Fresh
<1>7. r.rightful = Right(p, r, approved)
  BY <1>5 DEF Right
<1>8. Set(s, Begun(p, r, approved))
  BY <1>1 DEF r
<1>9. call[s].stage = "idle" /\ UNCHANGED <<site, parent, made, moves, blob>>
  BY DEF Start
<1>10. ~call[s].took /\ call[s].took \in BOOLEAN /\ ~r.took /\ r.took \in BOOLEAN
  BY <1>6, <1>9 DEF Inv, TypeOK, Call, Fresh
<1>11. CASE Begun(p, r, approved) = Rejected(r)
  BY <1>5, <1>8, <1>9, <1>10, <1>11, Fails DEF Rejected
<1>12. CASE Begun(p, r, approved) # Rejected(r)
  <2> DEFINE next == Begun(p, r, approved)
  <2>1. next \in Call /\ GoodCall(next, parent, made, blob) /\ Active(next) /\ ~next.took
    BY <1>2, <1>6, <1>7, <1>12, BegunGood
  <2> HIDE DEF next
  <2>2. Answered(call[s], next, blob) /\ next.stage # "idle"
    BY <2>1 DEF Answered, Active
  <2>3. ~(call[s].took = FALSE /\ next.took = TRUE)
    BY <2>1
  <2>4. Set(s, next)
    BY <1>8 DEF next
  <2>5. QED
    BY <1>9, <2>1, <2>2, <2>3, <2>4, GoesOn
<1>13. QED
  BY <1>11, <1>12

\* Again.
LEMMA AgainStep ==
    ASSUME Inv, NEW s \in Calls, Again(s)
    PROVE  Inv' /\ Honest
<1>1. GoodCall(NoCall, parent, made, blob) /\ Answered(call[s], NoCall, blob)
  BY NoCallShape DEF GoodCall, Active, Answered
<1>2. Set(s, NoCall) /\ UNCHANGED <<site, parent, made, moves, blob>>
  BY DEF Again
<1>3. ~(call[s].took = FALSE /\ NoCall.took = TRUE)
  BY NoCallShape
<1>4. QED
  BY <1>1, <1>2, <1>3, NoCallShape, GoesOn

\* Fail.
LEMMA FailStep ==
    ASSUME Inv, NEW s \in Calls, Fail(s)
    PROVE  Inv' /\ Honest
<1>1. PICK o \in {"rejected", "error"} : Set(s, Ended(call[s], o))
  BY DEF Fail, Failures
<1>2. call[s].stage # "ended" /\ UNCHANGED <<site, parent, made, moves, blob>>
  BY DEF Fail
<1>3. QED
  BY <1>1, <1>2, TookLate, Fails

\* One more item, as a request reads it.
LEMMA ReadShape ==
    ASSUME Inv, NEW s \in Calls, call[s].stage \in {"item", "dest"}
    PROVE  LET q   == call[s]
               up  == parent[q.at]
               now == [q EXCEPT !.seen = @ \cup {q.at},
                                !.drive = IF q.seen = {} THEN DriveOf(q.at) ELSE @,
                                !.up = IF q.seen = {} /\ q.stage = "item" THEN up ELSE @]
           IN  /\ now \in Call /\ now.stage = q.stage /\ SameAsk(q, now) /\ now.at = q.at
               /\ now.seen = q.seen \cup {q.at} /\ now.way = q.way /\ now.torn = q.torn
               /\ now.took = q.took
               /\ now.drive = IF q.seen = {} THEN DriveOf(q.at) ELSE q.drive
               /\ now.up = IF q.seen = {} /\ q.stage = "item" THEN up ELSE q.up
<1> DEFINE q   == call[s]
           up  == parent[q.at]
           now == [q EXCEPT !.seen = @ \cup {q.at},
                            !.drive = IF q.seen = {} THEN DriveOf(q.at) ELSE @,
                            !.up = IF q.seen = {} /\ q.stage = "item" THEN up ELSE @]
<1>1. /\ q \in Call /\ GoodCall(q, parent, made, blob) /\ made \subseteq Items
      /\ \A z \in made : parent[z] \in made \cup {None}
  BY Typed
<1>2. Exists(q, made)
  BY <1>1 DEF GoodCall, Active
<1>3. q.at \in Items /\ up \in Items \cup {None}
  BY <1>1, <1>2, ArtifactAssumption DEF Exists
<1>4. DriveOf(q.at) \subseteq Items
  BY SiteFacts DEF DriveOf, Inv
<1> DEFINE drive == IF q.seen = {} THEN DriveOf(q.at) ELSE q.drive
           above == IF q.seen = {} /\ q.stage = "item" THEN up ELSE q.up
           seen  == q.seen \cup {q.at}
           n     == [q EXCEPT !.seen = seen, !.drive = drive, !.up = above]
<1>5. drive \subseteq Items /\ above \in Items \cup {None} /\ seen \subseteq Items
  BY <1>1, <1>3, <1>4 DEF Call
<1>6. now = n
  OBVIOUS
<1> HIDE DEF drive, above, seen, q, now
<1>7. /\ n \in Call /\ n.stage = q.stage /\ SameAsk(q, n) /\ n.at = q.at
      /\ n.seen = seen /\ n.way = q.way /\ n.torn = q.torn
      /\ n.took = q.took /\ n.drive = drive /\ n.up = above
  BY <1>1, <1>5 DEF Call, SameAsk
<1>8. QED
  BY <1>6, <1>7 DEF drive, above, seen, q, now, up

\* Read.
LEMMA ReadStep ==
    ASSUME Inv, NEW s \in Calls, Read(s)
    PROVE  Inv' /\ Honest
<1> DEFINE q   == call[s]
           up  == parent[q.at]
           now == [q EXCEPT !.seen = @ \cup {q.at},
                            !.drive = IF q.seen = {} THEN DriveOf(q.at) ELSE @,
                            !.up = IF q.seen = {} /\ q.stage = "item" THEN up ELSE @]
           on  == [now EXCEPT !.at = up]
<1>1. /\ q \in Call /\ GoodCall(q, parent, made, blob) /\ made \subseteq Items
      /\ \A z \in made : parent[z] \in made \cup {None}
  BY Typed
<1>2. /\ q.stage \in {"item", "dest"} /\ UNCHANGED <<site, parent, made, moves, blob>>
      /\ \/ up # None /\ Set(s, on)
         \/ Set(s, IF q.stage = "item" THEN ItemRead(now) ELSE DestRead(now))
         \/ \E failure \in Failures(q) : Set(s, failure)
  BY DEF Read
<1>3. Exists(q, made) /\ ~q.took /\ q.took \in BOOLEAN
  BY <1>1, <1>2 DEF GoodCall, Active, Staged, Call
<1>4. q.at \in Items /\ up \in Items \cup {None} /\ q.at # None
  BY <1>1, <1>2, <1>3, ArtifactAssumption DEF Exists
<1>5. DriveOf(q.at) \subseteq Items
  BY SiteFacts DEF DriveOf, Inv
<1>6. /\ now \in Call /\ now.stage = q.stage /\ SameAsk(q, now) /\ now.at = q.at
      /\ now.seen = q.seen \cup {q.at} /\ now.way = q.way /\ now.torn = q.torn
      /\ now.took = q.took
      /\ now.drive = IF q.seen = {} THEN DriveOf(q.at) ELSE q.drive
      /\ now.up = IF q.seen = {} /\ q.stage = "item" THEN up ELSE q.up
  BY <1>2, ReadShape
<1> HIDE DEF now
<1>7. CASE \E failure \in Failures(q) : Set(s, failure)
  <2>1. PICK o \in {"rejected", "error"} : Set(s, Ended(q, o))
    BY <1>7 DEF Failures
  <2>2. QED
    BY <1>1, <1>2, <1>3, <2>1, Fails
<1>8. CASE up # None /\ Set(s, on)
  <2>1. /\ on \in Call /\ on.stage = now.stage /\ SameAsk(q, on) /\ on.at = up
        /\ on.seen = now.seen /\ on.way = now.way /\ on.torn = now.torn
        /\ on.took = now.took /\ on.drive = now.drive /\ on.up = now.up
    BY <1>4, <1>6 DEF Call, SameAsk
  <2> HIDE DEF on
  <2>2. on.at \in {q.at, up} \ {None}
    BY <1>8, <2>1
  <2>3. GoodCall(on, parent, made, blob)
    BY <1>2, <1>6, <2>1, <2>2, ReadGood
  <2>4. Answered(q, on, blob) /\ on.stage # "idle" /\ ~(q.took = FALSE /\ on.took = TRUE)
    BY <1>2, <1>3, <1>6, <2>1 DEF Answered
  <2>5. QED
    BY <1>2, <1>8, <2>1, <2>3, <2>4, GoesOn
<1>9. CASE Set(s, IF q.stage = "item" THEN ItemRead(now) ELSE DestRead(now))
  <2>1. now.at \in {q.at, up} \ {None}
    BY <1>4, <1>6
  <2>2. GoodCall(now, parent, made, blob) /\ now.seen # {}
    BY <1>2, <1>6, <2>1, ReadGood
  <2> DEFINE next == IF q.stage = "item" THEN ItemRead(now) ELSE DestRead(now)
  <2>3. \/ next = Rejected(now)
        \/ /\ next \in Call /\ GoodCall(next, parent, made, blob)
           /\ next.stage \in {"act", "measure", "dest"} /\ next.took = now.took
    BY <1>2, <1>6, <2>2, ItemReadGood, DestReadGood
  <2>4. Set(s, next)
    BY <1>9
  <2> HIDE DEF next
  <2>5. CASE next = Rejected(now)
    BY <1>2, <1>3, <1>6, <2>4, <2>5, Fails DEF Rejected
  <2>6. CASE next \in Call /\ GoodCall(next, parent, made, blob)
             /\ next.stage \in {"act", "measure", "dest"} /\ next.took = now.took
    <3>1. Answered(q, next, blob) /\ next.stage # "idle" /\ ~(q.took = FALSE /\ next.took = TRUE)
      BY <1>3, <1>6, <2>6 DEF Answered
    <3>2. QED
      BY <1>2, <2>4, <2>6, <3>1, GoesOn
  <2>7. QED
    BY <2>3, <2>5, <2>6
<1>10. QED
  BY <1>2, <1>7, <1>8, <1>9

-----------------------------------------------------------------------------
(* Edits. *)

\* The DOCX of a request.
LEMMA BlobTyped ==
    ASSUME Inv, NEW x \in Items
    PROVE  /\ blob[x].version \in Nat /\ blob[x].head \in Nat /\ blob[x].kept \subseteq Nat
           /\ blob[x] \in [version : Nat, head : Nat, kept : SUBSET Nat]
BY DEF Inv, TypeOK

\* A request in an edit goes on to another stage of it.
LEMMA EditGood ==
    ASSUME NEW q \in Call, GoodCall(q, parent, made, blob), q.stage \in EditStages,
           NEW r \in Call, r.stage \in EditStages \ {"readback"}, SameAsk(q, r),
           r.seen = q.seen, r.way = q.way, r.drive = q.drive, r.up = q.up, r.at = q.at,
           r.torn = q.torn, ~r.took, Edits(r, blob[r.item])
    PROVE  GoodCall(r, parent, made, blob)
<1>1. Asks(q) /\ Granted(q) /\ Staged(q) /\ Exists(q, made) /\ Walks(q, parent)
  BY DEF GoodCall, Active, EditStages
<1>2. q.tool = "edit"
  BY <1>1 DEF Staged
<1>3. Asks(r)
  BY <1>1 DEF Asks, SameAsk, Protects
<1>4. Granted(r)
  BY <1>1, <1>2 DEF Granted, SameAsk
<1>5. Staged(r)
  BY <1>1, <1>2 DEF Staged, SameAsk, Protects, EditStages
<1>6. Exists(r, made)
  BY <1>1 DEF Exists, SameAsk, EditStages
<1>7. Walks(r, parent)
  BY <1>1, <1>2 DEF Walks, Held, SameAsk, EditStages
<1>8. QED
  BY <1>3, <1>4, <1>5, <1>6, <1>7 DEF GoodCall

\* Such a step, when nothing else changes.
LEMMA EditGoesOn ==
    ASSUME Inv, NEW s \in Calls, call[s].stage \in EditStages \ {"readback"},
           NEW r \in Call, r.stage \in EditStages \ {"readback"}, Set(s, r),
           SameAsk(call[s], r), r.seen = call[s].seen, r.way = call[s].way,
           r.drive = call[s].drive, r.up = call[s].up, r.at = call[s].at,
           r.torn = call[s].torn, r.took = call[s].took, Edits(r, blob[r.item]),
           UNCHANGED <<site, parent, made, moves, blob>>
    PROVE  Inv' /\ Honest
<1>1. call[s] \in Call /\ GoodCall(call[s], parent, made, blob)
  BY Typed
<1>2. ~call[s].took /\ call[s].took \in BOOLEAN
  BY <1>1, TookLate DEF EditStages
<1>3. GoodCall(r, parent, made, blob)
  BY <1>1, <1>2, EditGood
<1>4. /\ Answered(call[s], r, blob) /\ r.stage # "idle"
      /\ ~(call[s].took = FALSE /\ r.took = TRUE)
  BY <1>2 DEF Answered, EditStages
<1>5. QED
  BY <1>3, <1>4, GoesOn

\* Measure.
LEMMA MeasureStep ==
    ASSUME Inv, NEW s \in Calls, Measure(s)
    PROVE  Inv' /\ Honest
<1> DEFINE q == call[s]
           v == blob[q.item].version
           r == [q EXCEPT !.stage = "fetch", !.version = v]
<1>1. q \in Call /\ v \in Nat
  BY Typed, BlobTyped DEF Call
<1>2. q.stage = "measure" /\ Set(s, r) /\ UNCHANGED <<site, parent, made, moves, blob>>
  BY DEF Measure
<1>3. /\ r \in Call /\ r.stage = "fetch" /\ r.version = v /\ SameAsk(q, r)
      /\ r.seen = q.seen /\ r.way = q.way /\ r.drive = q.drive /\ r.up = q.up /\ r.at = q.at
      /\ r.torn = q.torn /\ r.took = q.took
  BY <1>1 DEF Call, SameAsk
<1> HIDE DEF r
<1>4. Edits(r, blob[r.item])
  <2>1. blob[r.item].version = v
    BY <1>3 DEF SameAsk
  <2>2. QED
    BY <1>1, <1>3, <2>1 DEF Edits, EditStages
<1>5. QED
  BY <1>2, <1>3, <1>4, EditGoesOn DEF EditStages

\* Fetch.
LEMMA FetchStep ==
    ASSUME Inv, NEW s \in Calls, Fetch(s)
    PROVE  Inv' /\ Honest
<1> DEFINE q == call[s]
           b == blob[q.item]
           r == [q EXCEPT !.stage = "check", !.base = b.head]
<1>1. /\ q \in Call /\ b.head \in Nat /\ b.version \in Nat
      /\ GoodCall(q, parent, made, blob)
  BY Typed, BlobTyped DEF Call
<1>2. /\ q.stage = "fetch" /\ UNCHANGED <<site, parent, made, moves, blob>>
      /\ Set(s, r) \/ Set(s, Rejected(q))
  BY DEF Fetch
<1>3. /\ r \in Call /\ r.stage = "check" /\ r.base = b.head /\ SameAsk(q, r)
      /\ r.version = q.version
      /\ r.seen = q.seen /\ r.way = q.way /\ r.drive = q.drive /\ r.up = q.up /\ r.at = q.at
      /\ r.torn = q.torn /\ r.took = q.took
  BY <1>1 DEF Call, SameAsk
<1>4. Edits(q, b)
  BY <1>1, <1>2 DEF GoodCall, Active
<1> HIDE DEF r
<1>5. CASE Set(s, r)
  <2>1. blob[r.item] = b
    BY <1>3 DEF SameAsk
  <2>2. Edits(r, blob[r.item])
    BY <1>1, <1>2, <1>3, <1>4, <2>1 DEF Edits, EditStages
  <2>3. QED
    BY <1>2, <1>3, <1>5, <2>2, EditGoesOn DEF EditStages
<1>6. CASE Set(s, Rejected(q))
  BY <1>1, <1>2, <1>6, TookLate, Fails DEF Rejected
<1>7. QED
  BY <1>2, <1>5, <1>6

\* Check.
LEMMA CheckStep ==
    ASSUME Inv, NEW s \in Calls, Check(s)
    PROVE  Inv' /\ Honest
<1> DEFINE q == call[s]
           b == blob[q.item]
           r == [q EXCEPT !.stage = "list", !.checked = b.head]
<1>1. /\ q \in Call /\ b.head \in Nat /\ GoodCall(q, parent, made, blob)
  BY Typed, BlobTyped DEF Call
<1>2. /\ q.stage = "check" /\ UNCHANGED <<site, parent, made, moves, blob>>
      /\ Set(s, IF Unchanged(q) THEN r ELSE Rejected(q))
  BY DEF Check
<1>3. /\ r \in Call /\ r.stage = "list" /\ r.checked = b.head /\ SameAsk(q, r)
      /\ r.version = q.version /\ r.base = q.base
      /\ r.seen = q.seen /\ r.way = q.way /\ r.drive = q.drive /\ r.up = q.up /\ r.at = q.at
      /\ r.torn = q.torn /\ r.took = q.took
  BY <1>1 DEF Call, SameAsk
<1>4. Edits(q, b)
  BY <1>1, <1>2 DEF GoodCall, Active
<1> HIDE DEF r
<1>5. CASE Unchanged(q)
  <2>1. blob[r.item] = b
    BY <1>3 DEF SameAsk
  <2>2. Edits(r, blob[r.item])
    BY <1>2, <1>3, <1>4, <1>5, <2>1 DEF Edits, EditStages, Unchanged
  <2>3. QED
    BY <1>2, <1>3, <1>5, <2>2, EditGoesOn DEF EditStages
<1>6. CASE ~Unchanged(q)
  BY <1>1, <1>2, <1>6, TookLate, Fails DEF Rejected
<1>7. QED
  BY <1>5, <1>6

\* List.
LEMMA ListStep ==
    ASSUME Inv, NEW s \in Calls, List(s)
    PROVE  Inv' /\ Honest
<1> DEFINE q == call[s]
           b == blob[q.item]
<1>1. /\ q \in Call /\ b.head \in Nat /\ GoodCall(q, parent, made, blob)
  BY Typed, BlobTyped DEF Call
<1>2. PICK n \in Latest(b) :
         Set(s, [q EXCEPT !.stage = IF n \in b.kept THEN "upload" ELSE "pin", !.head = n])
  BY DEF List
<1>3. n \in Nat /\ n <= b.head /\ (n = b.head \/ RevisionPage <= n)
  BY <1>1, <1>2, ArtifactAssumption DEF Latest
<1> DEFINE stage == IF n \in b.kept THEN "upload" ELSE "pin"
           r == [q EXCEPT !.stage = stage, !.head = n]
<1>4. /\ q.stage = "list" /\ UNCHANGED <<site, parent, made, moves, blob>> /\ Set(s, r)
  BY <1>2 DEF List
<1>5. stage \in {"upload", "pin"} /\ (stage = "upload" => n \in b.kept)
  OBVIOUS
<1> HIDE DEF stage
<1>6. /\ r \in Call /\ r.stage = stage /\ r.head = n /\ SameAsk(q, r)
      /\ r.version = q.version /\ r.base = q.base /\ r.checked = q.checked
      /\ r.seen = q.seen /\ r.way = q.way /\ r.drive = q.drive /\ r.up = q.up /\ r.at = q.at
      /\ r.torn = q.torn /\ r.took = q.took
  BY <1>1, <1>5, <1>3 DEF Call, SameAsk
<1>7. Edits(q, b)
  BY <1>1, <1>4 DEF GoodCall, Active
<1> HIDE DEF r
<1>8. blob[r.item] = b
  BY <1>6 DEF SameAsk
<1>9. Edits(r, blob[r.item])
  <2>1. r.base <= r.head \/ RevisionPage <= r.head
    BY <1>4, <1>6, <1>7, <1>3 DEF Edits, EditStages
  <2>2. QED
    BY <1>1, <1>4, <1>5, <1>6, <1>7, <1>8, <1>3, <2>1 DEF Edits, EditStages
<1>10. QED
  BY <1>4, <1>5, <1>6, <1>9, EditGoesOn DEF EditStages

\* ReadBack.
LEMMA ReadBackStep ==
    ASSUME Inv, NEW s \in Calls, ReadBack(s)
    PROVE  Inv' /\ Honest
<1> DEFINE q == call[s]
           o == IF Verified(q) THEN "success" ELSE "error"
           next == Ended(q, o)
<1>1. q \in Call /\ q.stage = "readback" /\ GoodCall(q, parent, made, blob)
      /\ UNCHANGED <<site, parent, made, moves, blob>>
  BY Typed DEF ReadBack
<1>2. q.took /\ q.took \in BOOLEAN
  BY <1>1 DEF GoodCall, Active, Staged, Call
<1>3. next \in Call /\ next.stage = "ended" /\ next.took = q.took /\ next.outcome = o
  BY <1>1, EndedShape DEF Outcomes
<1>4. Set(s, next)
  BY DEF ReadBack
<1>5. o = "success" => blob[q.item].head = q.mine
  BY DEF Verified
<1>6. o \in {"success", "error"}
  OBVIOUS
<1> HIDE DEF next, o
<1>7. GoodCall(next, parent, made, blob) /\ next.stage # "idle"
  BY <1>3 DEF GoodCall, Active
<1>8. Answered(q, next, blob) /\ ~(q.took = FALSE /\ next.took = TRUE)
  BY <1>2, <1>3, <1>5, <1>6 DEF Answered
<1>9. QED
  BY <1>1, <1>3, <1>4, <1>7, <1>8, GoesOn

-----------------------------------------------------------------------------
(* Changes of what is in Drive. *)

\* Versions and revisions of DOCX only grow, revisions with their version, and
\* what is pinned stays so.
Grows(b, c) ==
    \A x \in Items : /\ c[x].version >= b[x].version /\ c[x].head >= b[x].head
                     /\ c[x].head = b[x].head \/ c[x].version > b[x].version
                     /\ b[x].kept \subseteq c[x].kept

\* What an edit has seen is still so.
LEMMA EditsKept ==
    ASSUME Inv, NEW c \in [Items -> [version : Nat, head : Nat, kept : SUBSET Nat]],
           Grows(blob, c), NEW q \in Call, Edits(q, blob[q.item])
    PROVE  Edits(q, c[q.item])
<1> DEFINE x == q.item
<1>1. x \in Items /\ q.version \in Nat /\ q.base \in Nat /\ q.head \in Nat
  BY DEF Call
<1>2. /\ blob[x].version \in Nat /\ blob[x].head \in Nat
      /\ c[x].version \in Nat /\ c[x].head \in Nat
  BY <1>1, BlobTyped
<1>3. /\ c[x].version >= blob[x].version /\ c[x].head >= blob[x].head
      /\ c[x].head = blob[x].head \/ c[x].version > blob[x].version
      /\ blob[x].kept \subseteq c[x].kept
  BY <1>1 DEF Grows
<1>4. QED
  BY <1>1, <1>2, <1>3 DEF Edits

\* What a request has read still holds when something else moves.
LEMMA WalksKept ==
    ASSUME Inv, NEW q \in Call, Active(q), Walks(q, parent), NEW x \in Items,
           NEW to \in Items \cup {None}, ~Torn(q, x)
    PROVE  Walks(q, [parent EXCEPT ![x] = to])
<1> DEFINE new == [parent EXCEPT ![x] = to]
<1>1. parent \in [Items -> Items \cup {None}]
  BY DEF Inv, TypeOK
<1>2. /\ x \notin q.seen \cup q.way
      /\ site.drives # {} => \A y \in {q.item, q.folder} \ {None} : ~Below(parent, y, x)
  BY DEF Torn, Active
<1>3. ASSUME NEW u, NEW v, Leads(parent, q.seen, u, v)
      PROVE  Leads(new, q.seen, u, v)
  <2>1. x \notin q.seen
    BY <1>2
  <2>2. QED
    BY <1>1, <1>3, <2>1, LeadsOther
<1>4. ASSUME NEW u, NEW v, Leads(parent, q.way \cup q.seen, u, v)
      PROVE  Leads(new, q.way \cup q.seen, u, v)
  <2>1. x \notin q.way \cup q.seen
    BY <1>2
  <2>2. QED
    BY <1>1, <1>4, <2>1, LeadsOther
<1>5. ASSUME NEW u \in {q.item, q.folder} \ {None}, NEW d \in site.drives, Below(parent, u, d)
      PROVE  Below(new, u, d)
  <2>1. ~Below(parent, u, x)
    BY <1>2
  <2>2. QED
    BY <1>1, <1>5, <2>1, BelowOther
<1>6. q.item \in Items /\ q.item # None
  BY ArtifactAssumption DEF Call
<1>7. q.item \in q.seen => new[q.item] = parent[q.item]
  BY <1>1, <1>2, <1>6
<1> HIDE DEF new
<1>8. Walks(q, new)
  <2> SUFFICES ASSUME ~q.torn PROVE Walks(q, new)
    BY DEF Walks
  <2>1. ASSUME NEW u \in {q.item, q.folder} \ {None}, Climbs(q, parent, u)
        PROVE  Climbs(q, new, u)
    BY <1>3, <1>5, <2>1 DEF Climbs
  <2>2. ASSUME NEW u \in {q.item, q.folder} \ {None}, NEW v, Held(q, parent, u, v)
        PROVE  Held(q, new, u, v)
    BY <1>4, <1>5, <2>2 DEF Held
  <2>3. q.stage = "item" => Climbs(q, new, q.item)
    BY <1>6, <2>1 DEF Walks
  <2>4. q.stage = "dest" /\ q.folder # None => Climbs(q, new, q.folder)
    BY <2>1 DEF Walks
  <2>5. q.stage # "item" /\ q.tool \notin {"create", "legacy"} =>
            Held(q, new, q.item, Root(q.source))
    BY <1>6, <2>2 DEF Walks
  <2>6. q.stage = "act" /\ q.folder # None => Held(q, new, q.folder, Root(q.source))
    BY <2>2 DEF Walks
  <2>7. q.tool = "convert" /\ (q.stage = "act" \/ q.seen # {}) =>
            q.item \in q.seen /\ q.up = new[q.item]
    BY <1>7 DEF Walks
  <2>8. QED
    BY <2>3, <2>4, <2>5, <2>6, <2>7 DEF Walks
<1>9. QED
  BY <1>8 DEF new

\* Nobody has read what does not exist yet.
LEMMA NewIsNotTorn ==
    ASSUME Inv, NEW q \in Call, Active(q), Exists(q, made), NEW x \in Items \ made
    PROVE  ~Torn(q, x)
<1>1. made \in SUBSET Items /\ Placed(parent, made)
  BY DEF Inv, TypeOK
<1>2. x \notin q.seen \cup q.way /\ {q.item, q.folder} \ {None} \subseteq made
  BY DEF Exists
<1>3. \A y \in {q.item, q.folder} \ {None} : ~Below(parent, y, x)
  BY <1>1, <1>2, BelowExists
<1>4. QED
  BY <1>2, <1>3 DEF Torn

\* A request that something else happens to.
LEMMA Kept ==
    ASSUME Inv, NEW q \in Call, GoodCall(q, parent, made, blob),
           NEW m, made \subseteq m,
           NEW c \in [Items -> [version : Nat, head : Nat, kept : SUBSET Nat]], Grows(blob, c),
           NEW par, Active(q) => Walks(q, par)
    PROVE  GoodCall(q, par, m, c)
<1>1. SUFFICES ASSUME Active(q)
               PROVE  GoodCall(q, par, m, c)
  BY DEF GoodCall
<1>2. /\ Asks(q) /\ Granted(q) /\ Staged(q) /\ Exists(q, made) /\ Walks(q, par)
      /\ Edits(q, blob[q.item])
  BY <1>1 DEF GoodCall
<1>3. Exists(q, m)
  BY <1>2 DEF Exists
<1>4. Edits(q, c[q.item])
  BY <1>2, EditsKept
<1>5. QED
  BY <1>2, <1>3, <1>4 DEF GoodCall

\* A request under which something was moved.
LEMMA TornGood ==
    ASSUME NEW q \in Call, GoodCall(q, parent, made, blob)
    PROVE  LET r == [q EXCEPT !.torn = TRUE] IN
           /\ r \in Call /\ GoodCall(r, parent, made, blob) /\ r.torn
           /\ r.stage = q.stage /\ r.took = q.took
<1> DEFINE r == [q EXCEPT !.torn = TRUE]
<1>1. /\ r \in Call /\ r.torn /\ r.stage = q.stage /\ r.took = q.took /\ SameAsk(q, r)
      /\ r.seen = q.seen /\ r.way = q.way /\ r.up = q.up /\ r.at = q.at
      /\ r.version = q.version /\ r.base = q.base /\ r.checked = q.checked /\ r.head = q.head
  BY DEF Call, SameAsk
<1> HIDE DEF r
<1>2. GoodCall(r, parent, made, blob)
  <2>1. SUFFICES ASSUME Active(r) PROVE GoodCall(r, parent, made, blob)
    BY DEF GoodCall
  <2>2. /\ Asks(q) /\ Granted(q) /\ Staged(q) /\ Exists(q, made) /\ Edits(q, blob[q.item])
    BY <1>1, <2>1 DEF GoodCall, Active
  <2>3. Asks(r) /\ Granted(r)
    BY <1>1, <2>2 DEF Asks, Granted, SameAsk, Protects
  <2>4. Staged(r)
    BY <1>1, <2>2 DEF Staged, SameAsk, Protects
  <2>5. Exists(r, made)
    BY <1>1, <2>2 DEF Exists, SameAsk
  <2>6. Walks(r, parent)
    BY <1>1 DEF Walks
  <2>7. Edits(r, blob[r.item])
    BY <1>1, <2>2 DEF Edits, SameAsk
  <2>8. QED
    BY <2>3, <2>4, <2>5, <2>6, <2>7 DEF GoodCall
<1>3. QED
  BY <1>1, <1>2 DEF r

\* Something changes in Drive: by the requests in A, to the others.
LEMMA WorldStep ==
    ASSUME Inv, NEW A \in SUBSET Calls, site' = site,
           blob' \in [Items -> [version : Nat, head : Nat, kept : SUBSET Nat]],
           Grows(blob, blob'), made \subseteq made', made' \subseteq Items,
           moves' \in 0..site.moves, parent' \in [Items -> Items \cup {None}],
           Placed(parent', made'), call' \in [Calls -> Call],
           \A r \in A : /\ GoodCall(call'[r], parent', made', blob')
                        /\ call'[r].stage = "idle" => ~call'[r].took
                        /\ Takes(r) => Act(r) \/ Upload(r)
                        /\ Answered(call[r], call'[r], blob),
           \A r \in Calls \ A :
                \/ call'[r] = call[r] /\ (Active(call[r]) => Walks(call[r], parent'))
                \/ call'[r] = [call[r] EXCEPT !.torn = TRUE]
    PROVE  Inv' /\ Honest
<1>1. TypeOK'
  BY DEF Inv, TypeOK
<1>2. ASSUME NEW r \in Calls \ A
      PROVE  /\ GoodCall(call'[r], parent', made', blob')
             /\ call'[r].stage = "idle" => ~call'[r].took
             /\ ~Takes(r) /\ Answered(call[r], call'[r], blob)
  <2>1. /\ call[r] \in Call /\ GoodCall(call[r], parent, made, blob)
        /\ call[r].stage = "idle" => ~call[r].took
    BY DEF Inv, TypeOK
  <2>2. CASE call'[r] = call[r] /\ (Active(call[r]) => Walks(call[r], parent'))
    BY <2>1, <2>2, Kept DEF Takes, Answered
  <2>3. CASE call'[r] = [call[r] EXCEPT !.torn = TRUE]
    <3> DEFINE q == [call[r] EXCEPT !.torn = TRUE]
    <3>1. /\ q \in Call /\ GoodCall(q, parent, made, blob) /\ q.torn
          /\ q.stage = call[r].stage /\ q.took = call[r].took
      BY <2>1, TornGood
    <3> HIDE DEF q
    <3>2. Walks(q, parent')
      BY <3>1 DEF Walks
    <3>3. GoodCall(q, parent', made', blob')
      BY <3>1, <3>2, Kept
    <3>4. call'[r] = q
      BY <2>3 DEF q
    <3>5. QED
      BY <2>1, <3>1, <3>3, <3>4 DEF Takes, Answered
  <2>4. QED
    BY <1>2, <2>2, <2>3
<1>3. \A r \in Calls : /\ GoodCall(call'[r], parent', made', blob')
                       /\ call'[r].stage = "idle" => ~call'[r].took
  BY <1>2
<1>4. Inv'
  BY <1>1, <1>3, Assembled
<1>5. Honest
  BY <1>2 DEF Honest
<1>6. QED
  BY <1>4, <1>5

\* What goes on in one place leaves what was read alone.
LEMMA WalksStay ==
    ASSUME Inv, NEW r \in Calls, Active(call[r])
    PROVE  Walks(call[r], parent)
BY DEF Inv, GoodCall

\* Pin.
LEMMA PinStep ==
    ASSUME Inv, NEW s \in Calls, Pin(s)
    PROVE  Inv' /\ Honest
<1> DEFINE q == call[s]
           b == blob[q.item]
           r == [q EXCEPT !.stage = "upload"]
<1>1. PICK change \in 0..1 :
         blob' = [blob EXCEPT ![q.item].kept = @ \cup {q.head}, ![q.item].version = @ + change]
  BY DEF Pin
<1>2. q.stage = "pin" /\ Set(s, r) /\ UNCHANGED <<site, parent, made, moves>>
  BY DEF Pin
<1>3. /\ q \in Call /\ q.item \in Items /\ q.head \in Nat /\ GoodCall(q, parent, made, blob)
  BY Typed DEF Call
<1> DEFINE new == [b EXCEPT !.kept = @ \cup {q.head}, !.version = @ + change]
<1>4. /\ b.version \in Nat /\ b.head \in Nat /\ b.kept \subseteq Nat
      /\ b \in [version : Nat, head : Nat, kept : SUBSET Nat]
      /\ blob \in [Items -> [version : Nat, head : Nat, kept : SUBSET Nat]]
  BY <1>3, BlobTyped DEF Inv, TypeOK
<1>5. /\ new \in [version : Nat, head : Nat, kept : SUBSET Nat] /\ new.version >= b.version
      /\ new.head = b.head /\ new.kept = b.kept \cup {q.head}
  <2> DEFINE kept == b.kept \cup {q.head}
             version == b.version + change
             n == [b EXCEPT !.kept = kept, !.version = version]
  <2>1. kept \subseteq Nat /\ version \in Nat /\ version >= b.version
    BY <1>3, <1>4
  <2>2. new = n
    OBVIOUS
  <2> HIDE DEF kept, version, b, new
  <2>3. n \in [version : Nat, head : Nat, kept : SUBSET Nat] /\ n.version = version
        /\ n.head = b.head /\ n.kept = kept
    BY <1>4, <2>1
  <2>4. QED
    BY <2>1, <2>2, <2>3 DEF kept
<1>6. blob' = [blob EXCEPT ![q.item] = new]
  BY <1>1, <1>3, <1>4
<1> HIDE DEF new
<1>7. /\ blob' \in [Items -> [version : Nat, head : Nat, kept : SUBSET Nat]]
      /\ blob'[q.item] = new /\ \A x \in Items \ {q.item} : blob'[x] = blob[x]
  BY <1>3, <1>4, <1>5, <1>6
<1>8. Grows(blob, blob')
  <2>1. \A x \in Items : blob[x].version \in Nat /\ blob[x].head \in Nat
    BY BlobTyped
  <2>2. QED
    BY <1>5, <1>7, <2>1 DEF Grows
<1>9. /\ r \in Call /\ r.stage = "upload" /\ SameAsk(q, r)
      /\ r.version = q.version /\ r.base = q.base /\ r.checked = q.checked /\ r.head = q.head
      /\ r.seen = q.seen /\ r.way = q.way /\ r.drive = q.drive /\ r.up = q.up /\ r.at = q.at
      /\ r.torn = q.torn /\ r.took = q.took
  BY <1>3 DEF Call, SameAsk
<1> HIDE DEF r
<1>10. ~q.took /\ q.took \in BOOLEAN
  BY <1>2, <1>3, TookLate
<1>11. GoodCall(q, parent, made, blob')
  BY <1>3, <1>7, <1>8, Kept, WalksStay
<1>12. Edits(r, blob'[r.item])
  <2>1. Edits(q, blob'[q.item])
    BY <1>2, <1>11 DEF GoodCall, Active
  <2>2. blob'[r.item] = new /\ q.head \in new.kept
    BY <1>5, <1>7, <1>9 DEF SameAsk
  <2>3. QED
    BY <1>2, <1>7, <1>9, <2>1, <2>2 DEF Edits, EditStages
<1>13. GoodCall(r, parent, made, blob')
  <2>1. /\ Asks(q) /\ Granted(q) /\ Staged(q) /\ Exists(q, made) /\ Walks(q, parent)
    BY <1>2, <1>3 DEF GoodCall, Active
  <2>2. q.tool = "edit"
    BY <1>2, <2>1 DEF Staged, EditStages
  <2>3. Asks(r)
    BY <1>9, <2>1 DEF Asks, SameAsk, Protects
  <2>4. Granted(r)
    BY <1>9, <2>1, <2>2 DEF Granted, SameAsk
  <2>5. Staged(r)
    BY <1>9, <1>10, <2>1, <2>2 DEF Staged, SameAsk, Protects, EditStages
  <2>6. Exists(r, made)
    BY <1>9, <2>1 DEF Exists, SameAsk
  <2>7. Walks(r, parent)
    BY <1>2, <1>9, <2>1, <2>2 DEF Walks, Held, SameAsk
  <2>8. QED
    BY <1>12, <2>3, <2>4, <2>5, <2>6, <2>7 DEF GoodCall
<1>14. /\ call' \in [Calls -> Call] /\ call'[s] = r
       /\ \A p \in Calls \ {s} : call'[p] = call[p]
  <2>1. call' = [call EXCEPT ![s] = r]
    BY <1>2 DEF Set, r
  <2>2. QED
    BY <1>9, <2>1 DEF Inv, TypeOK
<1>15. /\ made \subseteq made' /\ made' \subseteq Items /\ moves' \in 0..site.moves
       /\ parent' \in [Items -> Items \cup {None}] /\ Placed(parent', made') /\ site' = site
  BY <1>2 DEF Inv, TypeOK
<1>16. ~Takes(s) /\ Answered(q, r, blob) /\ r.stage # "idle"
  BY <1>9, <1>10, <1>14 DEF Takes, Answered
<1>17. \A p \in Calls \ {s} :
          \/ call'[p] = call[p] /\ (Active(call[p]) => Walks(call[p], parent'))
          \/ call'[p] = [call[p] EXCEPT !.torn = TRUE]
  BY <1>2, <1>14, WalksStay
<1>18. \A p \in {s} : /\ GoodCall(call'[p], parent', made', blob')
                      /\ call'[p].stage = "idle" => ~call'[p].took
                      /\ Takes(p) => Act(p) \/ Upload(p)
                      /\ Answered(call[p], call'[p], blob)
  BY <1>2, <1>13, <1>14, <1>16
<1>19. {s} \in SUBSET Calls
  OBVIOUS
<1>20. QED
  BY <1>7, <1>8, <1>14, <1>15, <1>17, <1>18, <1>19, WorldStep

\* What is in Drive stays in order.
World ==
    /\ blob' \in [Items -> [version : Nat, head : Nat, kept : SUBSET Nat]] /\ Grows(blob, blob')
    /\ made \subseteq made' /\ made' \subseteq Items /\ moves' \in 0..site.moves
    /\ parent' \in [Items -> Items \cup {None}] /\ Placed(parent', made')

\* A DOCX is changed, or a file of another kind.
LEMMA BlobGrows ==
    ASSUME Inv, NEW x \in Items,
           blob' = Touched(x) \/ blob' = [blob EXCEPT ![x] = Saved(@)] \/ blob' = blob
    PROVE  /\ blob' \in [Items -> [version : Nat, head : Nat, kept : SUBSET Nat]]
           /\ Grows(blob, blob')
<1> DEFINE Blob == [version : Nat, head : Nat, kept : SUBSET Nat]
           b == blob[x]
           touched == [b EXCEPT !.version = @ + 1]
           saved   == [b EXCEPT !.version = @ + 1, !.head = @ + 1]
<1>1. blob \in [Items -> Blob] /\ b \in Blob
  BY DEF Inv, TypeOK
<1>2. \A y \in Items : /\ blob[y].version \in Nat /\ blob[y].head \in Nat
  BY BlobTyped
<1>3. /\ touched \in Blob /\ touched.version = b.version + 1 /\ touched.head = b.head
      /\ touched.kept = b.kept
  BY <1>1
<1>4. /\ saved \in Blob /\ saved.version = b.version + 1 /\ saved.head = b.head + 1
      /\ saved.kept = b.kept
  <2> DEFINE v == b.version + 1
             h == b.head + 1
             n == [b EXCEPT !.version = v, !.head = h]
  <2>1. v \in Nat /\ h \in Nat
    BY <1>1
  <2>2. saved = n
    OBVIOUS
  <2> HIDE DEF v, h, b, saved
  <2>3. n \in Blob /\ n.version = v /\ n.head = h /\ n.kept = b.kept
    BY <1>1, <2>1
  <2>4. QED
    BY <2>2, <2>3 DEF v, h
<1>5. \/ blob' = [blob EXCEPT ![x] = touched]
      \/ blob' = [blob EXCEPT ![x] = saved]
      \/ blob' = blob
  BY <1>1 DEF Touched, Saved
<1> HIDE DEF touched, saved, Blob
<1>6. ASSUME NEW new \in Blob, new.version = b.version + 1, new.head \in {b.head, b.head + 1},
             new.kept = b.kept, blob' = [blob EXCEPT ![x] = new]
      PROVE  blob' \in [Items -> Blob] /\ Grows(blob, blob')
  <2>1. /\ blob' \in [Items -> Blob] /\ blob'[x] = new
        /\ \A y \in Items \ {x} : blob'[y] = blob[y]
    BY <1>1, <1>6
  <2>2. QED
    BY <1>2, <1>6, <2>1 DEF Grows
<1>7. blob' = blob => blob' \in [Items -> Blob] /\ Grows(blob, blob')
  BY <1>1, <1>2 DEF Grows
<1>8. QED
  BY <1>3, <1>4, <1>5, <1>6, <1>7 DEF Blob

\* Something is touched where it is, or only read.
LEMMA TouchWorld ==
    ASSUME Inv, NEW x \in Items, UNCHANGED <<site, parent, made, moves>>,
           blob' = Touched(x) \/ blob' = [blob EXCEPT ![x] = Saved(@)] \/ blob' = blob
    PROVE  /\ World
           /\ \A r \in Calls : Active(call[r]) => Walks(call[r], parent')
<1>1. /\ made \subseteq made' /\ made' \subseteq Items /\ moves' \in 0..site.moves
      /\ parent' \in [Items -> Items \cup {None}] /\ Placed(parent', made')
  BY DEF Inv, TypeOK
<1>2. QED
  BY <1>1, BlobGrows, WalksStay DEF World

\* Something new is put into a folder.
LEMMA AddsWorld ==
    ASSUME Inv, NEW folder \in made \cup {None}, Adds(folder)
    PROVE  /\ World
           /\ \A r \in Calls : Active(call[r]) => Walks(call[r], parent')
<1>1. PICK x \in site.spare \ made : Moved(x, folder) /\ made' = made \cup {x}
  BY DEF Adds
<1>2. made \subseteq Items /\ folder \in Items \cup {None} /\ site.spare \subseteq Items
      /\ moves \in 0..site.moves /\ parent \in [Items -> Items \cup {None}]
      /\ blob \in [Items -> [version : Nat, head : Nat, kept : SUBSET Nat]]
  BY SiteFacts DEF Inv, TypeOK, Site
<1>3. x \in Items \ made
  BY <1>2
<1>4. parent' = [parent EXCEPT ![x] = folder] /\ parent' \in [Items -> Items \cup {None}]
      /\ UNCHANGED <<moves, blob>>
  BY <1>1, <1>2 DEF Moved, Adds
<1>5. Placed(parent', made')
  BY <1>1, <1>2, <1>3, <1>4 DEF Inv, Placed
<1>6. Grows(blob, blob')
  BY <1>4, BlobTyped DEF Grows
<1>7. World
  BY <1>1, <1>2, <1>3, <1>4, <1>5, <1>6 DEF World
<1>8. ASSUME NEW r \in Calls, Active(call[r])
      PROVE  Walks(call[r], parent')
  <2>1. call[r] \in Call /\ Exists(call[r], made)
    BY <1>8 DEF Inv, TypeOK, GoodCall
  <2>2. ~Torn(call[r], x)
    BY <1>3, <1>8, <2>1, NewIsNotTorn
  <2>3. Walks(call[r], [parent EXCEPT ![x] = folder])
    BY <1>2, <1>3, <1>8, <2>1, <2>2, WalksKept, WalksStay
  <2>4. QED
    BY <1>4, <2>3
<1>9. QED
  BY <1>7, <1>8

\* Something moves.
LEMMA MoveWorld ==
    ASSUME Inv, NEW x \in made, NEW to \in made, Moved(x, to), blob' = Touched(x),
           moves < site.moves, moves' = moves + 1, made' = made
    PROVE  /\ World
           /\ \A r \in Calls : Active(call[r]) /\ ~Torn(call[r], x) => Walks(call[r], parent')
<1>1. made \subseteq Items /\ x \in Items /\ to \in Items
      /\ moves \in 0..site.moves /\ parent \in [Items -> Items \cup {None}]
      /\ site.moves \in Nat
  BY SiteFacts DEF Inv, TypeOK
<1>2. parent' = [parent EXCEPT ![x] = to] /\ parent' \in [Items -> Items \cup {None}]
  BY <1>1 DEF Moved
<1>3. Placed(parent', made')
  BY <1>1, <1>2 DEF Inv, Placed
<1>4. moves' \in 0..site.moves
  BY <1>1
<1>5. World
  BY <1>1, <1>2, <1>3, <1>4, BlobGrows DEF World
<1>6. ASSUME NEW r \in Calls, Active(call[r]), ~Torn(call[r], x)
      PROVE  Walks(call[r], parent')
  <2>1. call[r] \in Call
    BY DEF Inv, TypeOK
  <2>2. Walks(call[r], [parent EXCEPT ![x] = to])
    BY <1>1, <1>6, <2>1, WalksKept, WalksStay
  <2>3. QED
    BY <1>2, <2>2
<1>7. QED
  BY <1>5, <1>6

\* The request s is answered, or reads back, after it has changed something.
LEMMA Acted ==
    ASSUME Inv, NEW s \in Calls, NEW next \in Call, World, site' = site,
           call' \in [Calls -> Call], call'[s] = next,
           GoodCall(next, parent', made', blob'), next.stage # "idle",
           Act(s) \/ Upload(s), Answered(call[s], next, blob),
           \A r \in Calls \ {s} :
                \/ call'[r] = call[r] /\ (Active(call[r]) => Walks(call[r], parent'))
                \/ call'[r] = [call[r] EXCEPT !.torn = TRUE]
    PROVE  Inv' /\ Honest
<1>1. {s} \in SUBSET Calls
  OBVIOUS
<1>2. \A p \in {s} : /\ GoodCall(call'[p], parent', made', blob')
                     /\ call'[p].stage = "idle" => ~call'[p].took
                     /\ Takes(p) => Act(p) \/ Upload(p)
                     /\ Answered(call[p], call'[p], blob)
  OBVIOUS
<1>3. QED
  BY <1>1, <1>2, WorldStep DEF World

\* Upload.
LEMMA UploadStep ==
    ASSUME Inv, NEW s \in Calls, Upload(s)
    PROVE  Inv' /\ Honest
<1> DEFINE q == call[s]
           n == blob[q.item].head + 1
           t == [q EXCEPT !.took = TRUE, !.mine = n]
           back == [t EXCEPT !.stage = "readback"]
<1>1. /\ q \in Call /\ q.item \in Items /\ GoodCall(q, parent, made, blob)
  BY Typed DEF Call
<1>2. n \in Nat
  BY <1>1, BlobTyped
<1>3. /\ q.stage = "upload" /\ UNCHANGED <<site, parent, made, moves>>
      /\ blob' = [blob EXCEPT ![q.item] = Saved(@)]
      /\ Set(s, back) \/ Set(s, Ended(t, "error"))
  BY DEF Upload
<1> HIDE DEF n
<1>4. /\ t \in Call /\ t.took /\ SameAsk(q, t) /\ t.seen = q.seen /\ t.way = q.way
      /\ t.up = q.up /\ t.at = q.at /\ t.torn = q.torn /\ t.version = q.version /\ t.base = q.base
      /\ t.stage = q.stage
  BY <1>1, <1>2 DEF Call, SameAsk
<1> HIDE DEF t
<1>5. /\ back \in Call /\ back.took /\ SameAsk(q, back) /\ back.seen = q.seen
      /\ back.way = q.way /\ back.up = q.up /\ back.at = q.at /\ back.torn = q.torn
      /\ back.version = q.version /\ back.base = q.base /\ back.stage = "readback"
  BY <1>4 DEF Call, SameAsk
<1> HIDE DEF back
<1>6. World /\ \A r \in Calls : Active(call[r]) => Walks(call[r], parent')
  BY <1>1, <1>3, TouchWorld
<1>7. GoodCall(q, parent, made, blob')
  <2>1. /\ made \subseteq made /\ Grows(blob, blob')
        /\ blob' \in [Items -> [version : Nat, head : Nat, kept : SUBSET Nat]]
    BY <1>6 DEF World
  <2>2. QED
    BY <1>1, <2>1, WalksStay, Kept
<1>8. GoodCall(back, parent, made, blob')
  <2>1. /\ Asks(q) /\ Granted(q) /\ Staged(q) /\ Exists(q, made) /\ Walks(q, parent)
        /\ Edits(q, blob'[q.item])
    BY <1>3, <1>7 DEF GoodCall, Active
  <2>2. q.tool = "edit"
    BY <1>3, <2>1 DEF Staged, EditStages
  <2>3. Asks(back)
    BY <1>5, <2>1 DEF Asks, SameAsk, Protects
  <2>4. Granted(back)
    BY <1>3, <1>5, <2>1 DEF Granted, SameAsk
  <2>5. Staged(back)
    BY <1>5, <2>1, <2>2 DEF Staged, SameAsk, Protects, EditStages
  <2>6. Exists(back, made)
    BY <1>5, <2>1 DEF Exists, SameAsk
  <2>7. Walks(back, parent)
    BY <1>3, <1>5, <2>1, <2>2 DEF Walks, Held, SameAsk
  <2>8. Edits(back, blob'[back.item])
    BY <1>3, <1>5, <2>1 DEF Edits, SameAsk, EditStages
  <2>9. QED
    BY <2>3, <2>4, <2>5, <2>6, <2>7, <2>8 DEF GoodCall
<1>9. \A next \in Call : Set(s, next) => /\ call' \in [Calls -> Call] /\ call'[s] = next
                                         /\ \A r \in Calls \ {s} : call'[r] = call[r]
  BY DEF Inv, TypeOK, Set
<1>10. ASSUME NEW next \in Call, Set(s, next), GoodCall(next, parent, made, blob'),
              next.stage # "idle", Answered(q, next, blob)
       PROVE  Inv' /\ Honest
  <2>1. /\ call' \in [Calls -> Call] /\ call'[s] = next
        /\ \A r \in Calls \ {s} : call'[r] = call[r]
    BY <1>9, <1>10
  <2>2. GoodCall(next, parent', made', blob')
    BY <1>3, <1>10
  <2>3. \A r \in Calls \ {s} :
           \/ call'[r] = call[r] /\ (Active(call[r]) => Walks(call[r], parent'))
           \/ call'[r] = [call[r] EXCEPT !.torn = TRUE]
    BY <1>6, <2>1
  <2>4. site' = site /\ World
    BY <1>3, <1>6
  <2>5. QED
    BY <1>10, <2>1, <2>2, <2>3, <2>4, Acted
<1>11. CASE Set(s, back)
  BY <1>3, <1>5, <1>8, <1>10, <1>11 DEF Answered
<1>12. CASE Set(s, Ended(t, "error"))
  <2> DEFINE next == Ended(t, "error")
  <2>1. next \in Call /\ next.stage = "ended" /\ next.outcome = "error"
    BY <1>4, EndedShape DEF Outcomes
  <2> HIDE DEF next
  <2>2. GoodCall(next, parent, made, blob') /\ Answered(q, next, blob) /\ next.stage # "idle"
    BY <2>1 DEF GoodCall, Active, Answered
  <2>3. Set(s, next)
    BY <1>12 DEF next
  <2>4. QED
    BY <1>10, <2>1, <2>2, <2>3
<1>13. QED
  BY <1>3, <1>11, <1>12

\* Where a tool puts an item exists.
LEMMA TargetExists ==
    ASSUME Inv, NEW s \in Calls, call[s].stage = "act"
    PROVE  /\ call[s].tool # "legacy" => Root(call[s].source) \in made
           /\ call[s].tool \in {"copy", "move"} => Target(call[s]) \in made
           /\ call[s].up \in made \cup {None} /\ call[s].item \in made /\ call[s].item \in Items
<1>1. /\ Asks(call[s]) /\ Exists(call[s], made)
      /\ \A k \in 1..Len(site.registry) : Root(k) \in made
      /\ made \subseteq Items
  BY Typed DEF GoodCall, Active
<1>2. QED
  BY <1>1 DEF Target, Asks, Exists

\* What Drive is asked to do keeps it in order, and what others have read.
LEMMA EffectWorld ==
    ASSUME Inv, NEW s \in Calls, call[s].stage = "act", NEW q, SameAsk(call[s], q),
           q.up = call[s].up, site' = site,
           \/ GetDocument(q) \/ GetRange(q) \/ GetBinary(q)
           \/ CopyResource(q) \/ CreateResource(q) \/ ConvertResource(q) \/ MoveResource(q)
           \/ RenameResource(q) \/ AppendText(q) \/ DeleteResource(q) \/ ShareResource(q)
    PROVE  /\ World
           /\ \A r \in Calls : Active(call[r]) /\ ~(q.tool = "move" /\ Torn(call[r], q.item))
                                  => Walks(call[r], parent')
<1>1. /\ q.tool # "legacy" => Root(q.source) \in made
      /\ q.tool \in {"copy", "move"} => Target(q) \in made
      /\ q.up \in made \cup {None} /\ q.item \in made /\ q.item \in Items
  BY TargetExists DEF SameAsk, Target
<1>2. CASE Gets
  BY <1>1, <1>2, TouchWorld DEF Gets
<1>3. CASE Changes(q)
  BY <1>1, <1>3, TouchWorld DEF Changes
<1>4. CASE CopyResource(q)
  BY <1>1, <1>4, AddsWorld DEF CopyResource
<1>5. CASE CreateResource(q)
  BY <1>1, <1>5, AddsWorld DEF CreateResource
<1>6. CASE ConvertResource(q)
  BY <1>1, <1>6, AddsWorld DEF ConvertResource
<1>7. CASE MoveResource(q)
  <2>1. /\ q.tool = "move" /\ Moved(q.item, Target(q)) /\ blob' = Touched(q.item)
        /\ moves < site.moves /\ moves' = moves + 1 /\ made' = made
    BY <1>7 DEF MoveResource
  <2>2. QED
    BY <1>1, <2>1, MoveWorld
<1>8. QED
  BY <1>2, <1>3, <1>4, <1>5, <1>6, <1>7
  DEF GetDocument, GetRange, GetBinary, RenameResource, AppendText, DeleteResource, ShareResource

\* Act.
LEMMA ActStep ==
    ASSUME Inv, NEW s \in Calls, Act(s)
    PROVE  Inv' /\ Honest
<1> DEFINE q == [call[s] EXCEPT !.took = TRUE]
<1>1. call[s] \in Call /\ call[s].stage = "act" /\ site' = site
  BY Typed DEF Act
<1>2. q \in Call /\ q.took /\ SameAsk(call[s], q) /\ q.up = call[s].up /\ q.tool = call[s].tool
  BY <1>1 DEF Call, SameAsk
<1>3. PICK o \in {"success", "error"} :
         call' = LET c == [call EXCEPT ![s] = Ended(q, o)] IN
                 IF q.tool = "move" THEN Noticed(c, q.item) ELSE c
  BY DEF Act, Answers
<1>4. /\ \/ GetDocument(q) \/ GetRange(q) \/ GetBinary(q)
         \/ CopyResource(q) \/ CreateResource(q) \/ ConvertResource(q) \/ MoveResource(q)
         \/ RenameResource(q) \/ AppendText(q) \/ DeleteResource(q) \/ ShareResource(q)
  BY DEF Act
<1> HIDE DEF q
<1>5. /\ World
      /\ \A r \in Calls : Active(call[r]) /\ ~(q.tool = "move" /\ Torn(call[r], q.item))
                             => Walks(call[r], parent')
  BY <1>1, <1>2, <1>4, EffectWorld
<1> DEFINE next == Ended(q, o)
<1>6. next \in Call /\ next.stage = "ended" /\ next.took /\ next.outcome = o
  BY <1>2, EndedShape DEF Outcomes
<1>7. ~Torn(next, q.item)
  BY <1>6 DEF Torn
<1> HIDE DEF next
<1> DEFINE c == [call EXCEPT ![s] = next]
<1>8. c \in [Calls -> Call] /\ c[s] = next /\ \A r \in Calls \ {s} : c[r] = call[r]
  BY <1>6 DEF Inv, TypeOK
<1>9. call' = IF q.tool = "move" THEN Noticed(c, q.item) ELSE c
  BY <1>3 DEF next
<1> HIDE DEF c
<1>10. /\ call' \in [Calls -> Call] /\ call'[s] = next
       /\ \A r \in Calls \ {s} :
             \/ call'[r] = call[r] /\ (Active(call[r]) => Walks(call[r], parent'))
             \/ call'[r] = [call[r] EXCEPT !.torn = TRUE]
  <2>1. CASE q.tool # "move"
    BY <1>5, <1>8, <1>9, <2>1
  <2>2. CASE q.tool = "move"
    <3>1. call' = [r \in Calls |-> IF Torn(c[r], q.item) THEN [c[r] EXCEPT !.torn = TRUE] ELSE c[r]]
      BY <1>9, <2>2 DEF Noticed
    <3>2. ASSUME NEW r \in Calls
          PROVE  [c[r] EXCEPT !.torn = TRUE] \in Call
      <4>1. c[r] \in Call
        BY <1>8
      <4>2. \A p \in Call : [p EXCEPT !.torn = TRUE] \in Call
        BY DEF Call
      <4>3. QED
        BY <4>1, <4>2
    <3>3. QED
      BY <1>5, <1>7, <1>8, <3>1, <3>2
  <2>3. QED
    BY <2>1, <2>2
<1>11. GoodCall(next, parent', made', blob') /\ next.stage # "idle"
  BY <1>6 DEF GoodCall, Active
<1>12. Answered(call[s], next, blob)
  BY <1>1, <1>3, <1>6 DEF Answered
<1>13. QED
  BY <1>1, <1>5, <1>6, <1>10, <1>11, <1>12, Acted

\* Users.
LEMMA UserStep ==
    ASSUME Inv, UserMove \/ UserSave
    PROVE  Inv' /\ Honest
<1>1. call \in [Calls -> Call] /\ made \subseteq Items
  BY DEF Inv, TypeOK
<1>2. {} \in SUBSET Calls /\ Calls \ {} = Calls
  OBVIOUS
<1>3. ASSUME World, site' = site, call' \in [Calls -> Call],
             \A r \in Calls :
                \/ call'[r] = call[r] /\ (Active(call[r]) => Walks(call[r], parent'))
                \/ call'[r] = [call[r] EXCEPT !.torn = TRUE]
      PROVE  Inv' /\ Honest
  BY <1>2, <1>3, WorldStep DEF World
<1>4. CASE UserSave
  <2>1. PICK x \in made : blob' = [blob EXCEPT ![x] = Saved(@)]
    BY <1>4 DEF UserSave
  <2>2. UNCHANGED <<site, parent, made, moves>> /\ call' = call
    BY <1>4 DEF UserSave
  <2>3. World /\ \A r \in Calls : Active(call[r]) => Walks(call[r], parent')
    BY <1>1, <2>1, <2>2, TouchWorld
  <2>4. QED
    BY <1>1, <1>3, <2>2, <2>3
<1>5. CASE UserMove
  <2>1. PICK x \in made, to \in made :
           Moved(x, to) /\ blob' = Touched(x) /\ call' = Noticed(call, x)
    BY <1>5 DEF UserMove
  <2>2. moves < site.moves /\ moves' = moves + 1 /\ UNCHANGED <<site, made>>
    BY <1>5 DEF UserMove
  <2>3. World /\ \A r \in Calls : Active(call[r]) /\ ~Torn(call[r], x) => Walks(call[r], parent')
    BY <2>1, <2>2, MoveWorld
  <2>4. call' = [r \in Calls |-> IF Torn(call[r], x) THEN [call[r] EXCEPT !.torn = TRUE]
                                 ELSE call[r]]
    BY <2>1 DEF Noticed
  <2>5. \A p \in Call : [p EXCEPT !.torn = TRUE] \in Call
    BY DEF Call
  <2>6. call' \in [Calls -> Call]
    BY <1>1, <2>4, <2>5
  <2>7. \A r \in Calls :
           \/ call'[r] = call[r] /\ (Active(call[r]) => Walks(call[r], parent'))
           \/ call'[r] = [call[r] EXCEPT !.torn = TRUE]
    BY <2>3, <2>4
  <2>8. QED
    BY <1>3, <2>2, <2>3, <2>6, <2>7
<1>6. QED
  BY <1>4, <1>5

\* The first state.
LEMMA InitInv == Init => Inv
<1> SUFFICES ASSUME Init PROVE Inv
  OBVIOUS
<1>1. site \in Site /\ site \in Sites
  BY ArtifactAssumption DEF Init
<1>2. /\ site.home \in [Items -> Items \cup {None}] /\ site.spare \subseteq Items
      /\ site.moves \in Nat
  BY <1>1 DEF Site
<1>3. TypeOK
  BY <1>1, <1>2, NoCallShape DEF Init, TypeOK
<1>4. Placed(parent, made)
  <2>1. \A x \in Items \ site.spare : site.home[x] \notin site.spare
    BY <1>1, ArtifactAssumption
  <2>2. QED
    BY <1>2, <2>1 DEF Init, Placed
<1>5. \A s \in Calls : /\ GoodCall(call[s], parent, made, blob)
                       /\ call[s].stage = "idle" => ~call[s].took
  BY NoCallShape DEF Init, GoodCall, Active
<1>6. QED
  BY <1>3, <1>4, <1>5 DEF Inv

\* Every step.
LEMMA NextInv == Inv /\ [Next]_vars => Inv' /\ (Honest \/ UNCHANGED vars)
<1> SUFFICES ASSUME Inv, [Next]_vars PROVE Inv' /\ (Honest \/ UNCHANGED vars)
  OBVIOUS
<1>1. CASE UNCHANGED vars
  <2>1. TypeOK' /\ Placed(parent', made') /\ site' = site
    BY <1>1 DEF Inv, TypeOK, Placed, vars
  <2>2. \A r \in Calls : /\ GoodCall(call'[r], parent', made', blob')
                         /\ call'[r].stage = "idle" => ~call'[r].took
    BY <1>1 DEF Inv, vars
  <2>3. QED
    BY <1>1, <2>1, <2>2, Assembled
<1>2. ASSUME NEW s \in Calls, Step(s)
      PROVE  Inv' /\ Honest
  BY <1>2, StartStep, ReadStep, ActStep, FailStep, MeasureStep, FetchStep, CheckStep, ListStep,
     PinStep, UploadStep, ReadBackStep, AgainStep DEF Step
<1>3. QED
  BY <1>1, <1>2, UserStep DEF Next

\* The inductive invariant holds of every behaviour.
LEMMA Invariance == Spec => []Inv
<1>1. Inv /\ [Next]_vars => Inv'
  BY NextInv
<1>2. QED
  BY <1>1, InitInv, PTL DEF Spec

-----------------------------------------------------------------------------

\* Every variable keeps its type.
THEOREM TypeCorrect == Spec => []TypeOK
<1>1. Inv => TypeOK
  BY DEF Inv
<1>2. QED
  BY <1>1, Invariance, PTL

\* Where Drive is asked to act.
LEMMA ActsThere ==
    ASSUME Inv, [Next]_vars, NEW s \in Calls, Takes(s)
    PROVE  /\ Act(s) \/ Upload(s)
           /\ call[s] \in Call /\ call[s].stage \in {"act", "upload"}
           /\ Asks(call[s]) /\ Granted(call[s]) /\ Staged(call[s])
           /\ Exists(call[s], made) /\ Walks(call[s], parent)
           /\ Edits(call[s], blob[call[s].item])
<1>1. ~UNCHANGED vars
  BY DEF Takes, vars
<1>2. Act(s) \/ Upload(s)
  BY <1>1, NextInv DEF Honest
<1>3. call[s].stage \in {"act", "upload"}
  BY <1>2 DEF Act, Upload
<1>4. call[s] \in Call /\ GoodCall(call[s], parent, made, blob)
  BY Typed
<1>5. QED
  BY <1>2, <1>3, <1>4 DEF GoodCall, Active

\* Drive acts only for a request whose bearer had the right to it, however the
\* layers share the work of finding that out (the layers of SourcePolicy).
THEOREM OnlyTheRightful == Spec => Rightful
<1>1. Inv /\ [Next]_vars => \A s \in Calls : Takes(s) => call[s].rightful
  <2> SUFFICES ASSUME Inv, [Next]_vars, NEW s \in Calls, Takes(s) PROVE call[s].rightful
    OBVIOUS
  <2>1. QED
    BY ActsThere DEF Granted
<1>2. QED
  BY <1>1, Invariance, PTL DEF Spec, Rightful

\* An upload replaces the revision that was downloaded, unless somebody saved after
\* the last check, and keeps it if one page lists all revisions (replace_binary).
THEOREM ReplacesOnlyWhatWasRead == Spec => ReplacesWhatWasRead
<1>1. Inv /\ [Next]_vars =>
        \A s \in Calls :
          LET q == call[s] IN
          Takes(s) /\ q.tool = "edit" =>
              /\ q.checked = q.base
              /\ blob[q.item].head = q.base /\ q.base <= RevisionPage =>
                     q.base \in blob[q.item].kept
  <2> SUFFICES ASSUME Inv, [Next]_vars, NEW s \in Calls, Takes(s), call[s].tool = "edit"
               PROVE  /\ call[s].checked = call[s].base
                      /\ blob[call[s].item].head = call[s].base
                         /\ call[s].base <= RevisionPage =>
                             call[s].base \in blob[call[s].item].kept
    OBVIOUS
  <2> DEFINE q == call[s]
  <2>1. q.stage = "upload"
    <3>1. Act(s) => FALSE
      <4>1. SUFFICES ASSUME Act(s) PROVE FALSE
        OBVIOUS
      <4>2. [q EXCEPT !.took = TRUE].tool = "edit"
        BY ActsThere DEF Call
      <4>3. QED
        BY <4>1, <4>2
        DEF Act, GetDocument, GetRange, GetBinary, CopyResource, CreateResource, ConvertResource,
            MoveResource, RenameResource, AppendText, DeleteResource, ShareResource
    <3>2. Upload(s)
      BY <3>1, ActsThere
    <3>3. QED
      BY <3>2 DEF Upload
  <2>2. Edits(q, blob[q.item]) /\ q.item \in Items /\ q.base \in Nat /\ q.head \in Nat
    BY ActsThere DEF Call
  <2>3. blob[q.item].head \in Nat
    BY <2>2, BlobTyped
  <2>4. q.checked = q.base
    BY <2>1, <2>2 DEF Edits
  <2>5. /\ q.base <= q.head \/ RevisionPage <= q.head
        /\ q.head <= blob[q.item].head /\ q.head \in blob[q.item].kept
    BY <2>1, <2>2 DEF Edits
  <2>6. RevisionPage \in Nat
    BY ArtifactAssumption
  <2>7. ASSUME blob[q.item].head = q.base, q.base <= RevisionPage
        PROVE  q.head = q.base
    BY <2>2, <2>3, <2>5, <2>6, <2>7
  <2>8. QED
    BY <2>4, <2>5, <2>7
<1>2. QED
  BY <1>1, Invariance, PTL DEF Spec, ReplacesWhatWasRead

\* What is recorded of a request is what it has done (_execute_tool,
\* edit_authorized_source_docx).
THEOREM RecordsAreTrue == Spec => AnswersAreTrue
<1> DEFINE True == \A s \in Calls : Answered(call[s], call'[s], blob)
<1>1. Inv /\ [Next]_vars => True
  <2> SUFFICES ASSUME Inv, [Next]_vars PROVE True
    OBVIOUS
  <2>1. CASE UNCHANGED vars
    BY <2>1 DEF vars, Answered
  <2>2. CASE Honest
    BY <2>2 DEF Honest
  <2>3. QED
    BY <2>1, <2>2, NextInv
<1>2. True => \A s \in Calls :
                 LET q == call[s]
                     r == call'[s]
                 IN  q.stage # "ended" /\ r.stage = "ended" =>
                        /\ r.outcome = "success" =>
                              r.took /\ (q.stage = "readback" => blob[q.item].head = q.mine)
                        /\ r.outcome = "rejected" => ~r.took \/ q.stage = "readback"
  BY DEF Answered
<1> HIDE DEF True
<1>3. QED
  BY <1>1, <1>2, Invariance, PTL DEF Spec, AnswersAreTrue

\* An artifact that is not a root is below whatever its folder is below.
LEMMA FolderBelow ==
    ASSUME NEW x \in Items, NEW y, y # x, Below(parent, x, y)
    PROVE  Below(parent, parent[x], y)
<1> SUFFICES ASSUME NEW S \in SUBSET Items, parent[x] \in S,
                    \A z \in S : parent[z] = None \/ parent[z] \in S
             PROVE  y \in S
  BY DEF Below
<1> DEFINE T == S \cup {x}
<1>1. T \in SUBSET Items /\ x \in T /\ \A z \in T : parent[z] = None \/ parent[z] \in T
  OBVIOUS
<1>2. y \in T
  BY <1>1 DEF Below
<1>3. QED
  BY <1>2

\* A tool touches what is in the source it was asked of, and puts things there
\* or in the archive that was named, whatever the tree and whoever moves other
\* things meanwhile (authorize_resource_for_source, get_resource).
THEOREM StaysInItsSource == Spec => TouchesItsSource
<1>1. Inv /\ [Next]_vars =>
        \A s \in Calls :
          LET q == call[s]
              Inside(x) == Below(parent, x, Root(q.source))
          IN  Takes(s) /\ q.tool # "legacy" /\ ~q.torn =>
                  /\ q.tool # "create" => Inside(q.item)
                  /\ q.tool \in {"create", "copy", "convert", "move"} =>
                        \/ Inside(Into(q))
                        \/ q.archive # NoSource /\ Into(q) = Root(q.archive)
  <2> SUFFICES ASSUME Inv, [Next]_vars, NEW s \in Calls, Takes(s),
                      call[s].tool # "legacy", ~call[s].torn
               PROVE  LET q == call[s]
                          Inside(x) == Below(parent, x, Root(q.source))
                      IN  /\ q.tool # "create" => Inside(q.item)
                          /\ q.tool \in {"create", "copy", "convert", "move"} =>
                                \/ Inside(Into(q))
                                \/ q.archive # NoSource /\ Into(q) = Root(q.archive)
    OBVIOUS
  <2> DEFINE q == call[s]
             root == Root(q.source)
  <2>1. /\ q \in Call /\ q.stage \in {"act", "upload"} /\ Asks(q) /\ Staged(q)
        /\ Exists(q, made) /\ Walks(q, parent)
    BY ActsThere
  <2>2. q.tool # "create" => Below(parent, q.item, root)
    BY <2>1, HeldBelow DEF Walks
  <2>3. Below(parent, root, root)
    BY DEF Below
  <2>4. q.stage = "act" /\ q.folder # None => Below(parent, q.folder, root)
    BY <2>1, HeldBelow DEF Walks
  <2>5. CASE q.tool = "create"
    <3>1. q.archive = NoSource /\ q.folder = None
      BY <2>1, <2>5 DEF Asks
    <3>2. Into(q) = root
      BY <2>5, <3>1 DEF Into, Target
    <3>3. QED
      BY <2>3, <2>5, <3>2
  <2>6. CASE q.tool \in {"copy", "move"}
    <3>1. q.stage = "act"
      BY <2>1, <2>6 DEF Staged, EditStages
    <3>2. Into(q) = Target(q)
      BY <2>6 DEF Into
    <3>3. CASE q.archive # NoSource
      BY <2>2, <2>6, <3>2, <3>3 DEF Target
    <3>4. CASE q.archive = NoSource
      <4>1. Target(q) \in {q.folder, root} /\ (Target(q) = q.folder => q.folder # None \/ Target(q) = root)
        BY <3>4 DEF Target
      <4>2. Below(parent, Target(q), root)
        BY <2>3, <2>4, <3>1, <3>4 DEF Target
      <4>3. QED
        BY <2>2, <2>6, <3>2, <4>2
    <3>5. QED
      BY <3>3, <3>4
  <2>7. CASE q.tool = "convert"
    <3>1. q.stage = "act" /\ site.kind[q.item] = "office"
      BY <2>1, <2>7 DEF Staged, EditStages
    <3>2. q.up = parent[q.item] /\ q.item \in Items
      BY <2>1, <2>7, <3>1 DEF Walks, Call
    <3>3. root # q.item
      <4>1. TypeOK /\ q.source \in 1..Len(site.registry)
        BY <2>1, <2>7 DEF Asks, Inv
      <4>2. site.kind[root] = "folder"
        BY <4>1, SiteFacts
      <4>3. QED
        BY <3>1, <4>2
    <3>4. Below(parent, parent[q.item], root)
      BY <2>2, <2>7, <3>2, <3>3, FolderBelow
    <3>5. Into(q) = parent[q.item]
      BY <2>7, <3>2 DEF Into
    <3>6. QED
      BY <2>2, <2>7, <3>4, <3>5
  <2>8. CASE q.tool \notin {"create", "copy", "move", "convert"}
    BY <2>2, <2>8
  <2>9. QED
    BY <2>5, <2>6, <2>7, <2>8
<1>2. QED
  BY <1>1, Invariance, PTL DEF Spec, TouchesItsSource

\* A root is deleted, shared or renamed only as an artifact of another source
\* that it lies in and that allows it (_protect_source_root).
THEOREM RootsAreProtected == Spec => RootsOnlyFromAbove
<1>1. Inv /\ [Next]_vars =>
        \A s \in Calls, k \in 1..Len(site.registry) :
          LET q == call[s] IN
          Takes(s) /\ q.tool \in {"delete", "share", "rename"} /\ q.item = Root(k) /\ ~q.torn =>
              \E j \in 1..Len(site.registry) \ {k} :
                  /\ q.source = j /\ Below(parent, Root(k), Root(j))
                  /\ Capability[q.tool] \in site.registry[j].capabilities
  <2> SUFFICES ASSUME Inv, [Next]_vars, NEW s \in Calls, NEW k \in 1..Len(site.registry), Takes(s),
                      call[s].tool \in {"delete", "share", "rename"},
                      call[s].item = Root(k), ~call[s].torn
               PROVE  LET q == call[s] IN
                      \E j \in 1..Len(site.registry) \ {k} :
                         /\ q.source = j /\ Below(parent, Root(k), Root(j))
                         /\ Capability[q.tool] \in site.registry[j].capabilities
    OBVIOUS
  <2> DEFINE q == call[s]
  <2>1. /\ q.stage \in {"act", "upload"} /\ Asks(q) /\ Staged(q) /\ Walks(q, parent)
    BY ActsThere
  <2>2. ~Protects(q)
    BY <2>1 DEF Asks, Staged, ProtectedAtOnce
  <2>3. q.source \in 1..Len(site.registry) \ {k}
    BY <2>1, <2>2 DEF Asks, Protects
  <2>4. Below(parent, Root(k), Root(q.source))
    BY <2>1, HeldBelow DEF Walks
  <2>5. Capability[q.tool] \in site.registry[q.source].capabilities
    BY <2>1 DEF Asks, Capability, Mutations
  <2>6. QED
    BY <2>3, <2>4, <2>5
<1>2. QED
  BY <1>1, Invariance, PTL DEF Spec, RootsOnlyFromAbove

-----------------------------------------------------------------------------
(* What a walk has not met. *)

\* The items of W are x, its parent, the parent of that, and so on, up to t.
Spans(par, W, x, t) ==
    /\ x \in W /\ \A z \in W : par[z] \in W \cup {t, None}
    /\ \A y \in W : Leads(par, W, x, y) /\ Leads(par, W, y, t)

\* They are all that x is below, or as many as a walk looks at.
Ends(par, W, x) ==
    \/ \A z \in W : par[z] \in W \cup {None}
    \/ /\ Cardinality(W) > site.depth
       /\ \E t \in Items : Spans(par, W, x, t)

DrivesOf(par, x) == {d \in site.drives : Below(par, x, d)}

\* How far the walk from the artifact has come.
Walking(q, par) ==
    IF q.seen = {} THEN q.at = q.item
    ELSE Spans(par, q.seen, q.item, q.at) /\ q.drive = DrivesOf(par, q.item)

\* That walk has come to its end, and met nothing that is blocked.
Cleared(q, par) ==
    /\ DrivesOf(par, q.item) \cap site.blocked = {}
    /\ \E W \in SUBSET (q.way \cup q.seen) :
          q.item \in W /\ W \cap site.blocked = {} /\ Ends(par, W, q.item)

\* What a request knows of the artifact's whereabouts, unless it was moved.
Looks(q, par) ==
    ~q.torn /\ q.tool # "create" =>
        IF q.stage = "item" THEN Walking(q, par) ELSE Cleared(q, par)

\* The invariant that this needs besides Inv.
LookInv == \A s \in Calls : Active(call[s]) => Looks(call[s], parent)

\* x is below itself.
LEMMA LeadsSelf ==
    ASSUME NEW par, NEW D, NEW x
    PROVE  Leads(par, D, x, x)
BY DEF Leads

\* One parent more.
LEMMA LeadsOn ==
    ASSUME NEW par, NEW D, NEW x, NEW a \in D, Leads(par, D, x, a), par[a] # None
    PROVE  Leads(par, D, x, par[a])
BY DEF Leads

\* A walk that has come to a looks at a as well, and at its parent next, or it
\* has come to the end.
LEMMA SpansOne ==
    ASSUME NEW par, NEW D \in SUBSET Items, NEW x \in Items, NEW a \in Items,
           (D = {} /\ a = x) \/ Spans(par, D, x, a)
    PROVE  /\ x \in D \cup {a}
           /\ par[a] # None => Spans(par, D \cup {a}, x, par[a])
           /\ par[a] = None \/ a \in D => \A z \in D \cup {a} : par[z] \in D \cup {a, None}
<1> DEFINE W == D \cup {a}
<1>1. x \in W /\ \A z \in D : par[z] \in W \cup {None}
  BY DEF Spans
<1>2. ASSUME NEW y \in W
      PROVE  Leads(par, W, x, y) /\ Leads(par, W, y, a)
  <2>1. Leads(par, W, x, a)
    <3>1. CASE D = {} /\ a = x
      BY <3>1, LeadsSelf
    <3>2. CASE Spans(par, D, x, a)
      <4>1. Leads(par, D, x, x) /\ Leads(par, D, x, a)
        BY <3>2, LeadsSelf DEF Spans
      <4>2. QED
        BY <4>1, LeadsMore
    <3>3. QED
      BY <3>1, <3>2
  <2>2. CASE y = a
    BY <2>1, <2>2, LeadsSelf
  <2>3. CASE y \in D
    <3>1. Leads(par, D, x, y) /\ Leads(par, D, y, a)
      BY <2>3 DEF Spans
    <3>2. QED
      BY <3>1, LeadsMore
  <2>4. QED
    BY <2>2, <2>3
<1>3. ASSUME par[a] # None
      PROVE  Spans(par, W, x, par[a])
  <2>1. ASSUME NEW y \in W
        PROVE  Leads(par, W, y, par[a])
    BY <1>2, <1>3, <2>1, LeadsOn
  <2>2. QED
    BY <1>1, <1>2, <2>1 DEF Spans
<1>4. par[a] = None \/ a \in D => \A z \in W : par[z] \in W \cup {None}
  BY <1>1
<1>5. QED
  BY <1>1, <1>3, <1>4

\* Whatever x is below beyond the items that a walk has looked at, they all are
\* below as well.
LEMMA BeyondSpan ==
    ASSUME NEW par, NEW W \in SUBSET Items, NEW x, NEW t, Spans(par, W, x, t),
           NEW b, b \notin W, Below(par, x, b), NEW y \in W
    PROVE  Below(par, y, b)
<1> SUFFICES ASSUME NEW S \in SUBSET Items, y \in S,
                    \A z \in S : par[z] = None \/ par[z] \in S
             PROVE  b \in S
  BY DEF Below
<1>1. t \in S
  <2>1. Leads(par, W, y, t)
    BY DEF Spans
  <2>2. \A z \in S \cap W : par[z] = None \/ par[z] \in S
    OBVIOUS
  <2>3. QED
    BY <2>1, <2>2 DEF Leads
<1> DEFINE T == S \cup W
<1>2. T \in SUBSET Items /\ x \in T
  BY DEF Spans
<1>3. \A z \in T : par[z] = None \/ par[z] \in T
  BY <1>1 DEF Spans
<1>4. b \in T
  BY <1>2, <1>3 DEF Below
<1>5. QED
  BY <1>4

\* A walk to the end, that met nothing blocked, shows that x is not blocked: what
\* is blocked above x is no drive, and there are too many items in between.
LEMMA ClearedNotBlocked ==
    ASSUME Inv, NEW q \in Call, Cleared(q, parent)
    PROVE  ~Blocked(q.item)
<1> DEFINE x == q.item
<1>1. PICK W \in SUBSET (q.way \cup q.seen) :
         x \in W /\ W \cap site.blocked = {} /\ Ends(parent, W, x)
  BY DEF Cleared
<1>2. W \in SUBSET Items /\ x \in Items /\ site.depth \in Nat /\ site.blocked \subseteq Items
  BY SiteFacts DEF Inv, Call, Site
<1> SUFFICES ASSUME NEW b \in site.blocked, Below(parent, x, b),
                    \/ b \in site.drives
                    \/ Cardinality({y \in Items \ {x} : Below(parent, x, y) /\ Below(parent, y, b)})
                          <= site.depth
             PROVE  FALSE
  BY DEF Blocked
<1>3. b \in Items /\ b \notin W /\ b # x
  BY <1>1, <1>2
<1>4. b \notin site.drives
  BY DEF Cleared, DrivesOf
<1>5. CASE \A z \in W : parent[z] \in W \cup {None}
  BY <1>1, <1>2, <1>3, <1>5 DEF Below
<1>6. ASSUME Cardinality(W) > site.depth, NEW t \in Items, Spans(parent, W, x, t)
      PROVE  FALSE
  <2> DEFINE B == {y \in Items \ {x} : Below(parent, x, y) /\ Below(parent, y, b)}
             V == (W \ {x}) \cup {b}
  <2>1. ASSUME NEW y \in W
        PROVE  Below(parent, x, y) /\ Below(parent, y, b)
    <3>1. Below(parent, x, y)
      BY <1>6, LeadsBelow DEF Spans
    <3>2. Below(parent, y, b)
      BY <1>2, <1>3, <1>6, BeyondSpan
    <3>3. QED
      BY <3>1, <3>2
  <2>2. Below(parent, b, b)
    BY DEF Below
  <2>3. V \in SUBSET B
    BY <1>2, <1>3, <2>1, <2>2
  <2>4. IsFiniteSet(Items)
    BY ArtifactAssumption
  <2>5. IsFiniteSet(W) /\ IsFiniteSet(B)
    BY <1>2, <2>4, FS_Subset
  <2>6. IsFiniteSet(W \ {x}) /\ Cardinality(W \ {x}) = Cardinality(W) - 1
    BY <1>1, <2>5, FS_RemoveElement
  <2>7. Cardinality(V) = Cardinality(W \ {x}) + 1
    BY <1>3, <2>6, FS_AddElement
  <2>8. Cardinality(W) \in Nat /\ Cardinality(B) \in Nat
    BY <2>5, FS_CardinalityType
  <2>9. Cardinality(V) <= Cardinality(B)
    BY <2>3, <2>5, FS_Subset
  <2>10. Cardinality(B) <= site.depth
    BY <1>4
  <2> HIDE DEF B, V
  <2>11. QED
    BY <1>2, <1>6, <2>6, <2>7, <2>8, <2>9, <2>10
<1>7. QED
  BY <1>1, <1>5, <1>6 DEF Ends

\* What x is not below can move without its drives changing.
LEMMA DrivesOther ==
    ASSUME NEW par \in [Items -> Items \cup {None}], NEW z \in Items, NEW to \in Items \cup {None},
           NEW x, ~Below(par, x, z)
    PROVE  DrivesOf([par EXCEPT ![z] = to], x) = DrivesOf(par, x)
<1> DEFINE new == [par EXCEPT ![z] = to]
<1>1. \A y : Below(par, x, y) => Below(new, x, y)
  BY BelowOther
<1>2. PICK A \in SUBSET Items :
         x \in A /\ (\A w \in A : par[w] = None \/ par[w] \in A) /\ z \notin A
  BY DEF Below
<1>3. \A w \in A : new[w] = par[w]
  BY <1>2
<1> HIDE DEF new
<1>4. ~Below(new, x, z)
  BY <1>2, <1>3 DEF Below
<1> DEFINE old == [new EXCEPT ![z] = par[z]]
<1>5. new \in [Items -> Items \cup {None}] /\ par[z] \in Items \cup {None} /\ old = par
  BY DEF new
<1>6. \A y : Below(new, x, y) => Below(old, x, y)
  BY <1>4, <1>5, BelowOther
<1>7. DrivesOf(new, x) = DrivesOf(par, x)
  BY <1>1, <1>5, <1>6 DEF DrivesOf
<1>8. QED
  BY <1>7 DEF new

\* Nor can what was not looked at change what a walk has looked at.
LEMMA SpansOther ==
    ASSUME NEW par \in [Items -> Items \cup {None}], NEW z \in Items, NEW to \in Items \cup {None},
           NEW W \in SUBSET Items, z \notin W, NEW x, NEW t
    PROVE  LET new == [par EXCEPT ![z] = to] IN
           /\ Spans(par, W, x, t) => Spans(new, W, x, t)
           /\ Ends(par, W, x) => Ends(new, W, x)
<1> DEFINE new == [par EXCEPT ![z] = to]
<1>1. \A w \in W : new[w] = par[w]
  OBVIOUS
<1>2. \A u, v : Leads(par, W, u, v) => Leads(new, W, u, v)
  BY LeadsOther
<1> HIDE DEF new
<1>3. \A u : Spans(par, W, x, u) => Spans(new, W, x, u)
  BY <1>1, <1>2 DEF Spans
<1>4. Ends(par, W, x) => Ends(new, W, x)
  BY <1>1, <1>3 DEF Ends
<1>5. QED
  BY <1>3, <1>4 DEF new

\* What a request knows still holds when something else moves.
LEMMA LooksKept ==
    ASSUME Inv, NEW q \in Call, Active(q), Looks(q, parent), NEW x \in Items,
           NEW to \in Items \cup {None}, ~Torn(q, x)
    PROVE  Looks(q, [parent EXCEPT ![x] = to])
<1> DEFINE new == [parent EXCEPT ![x] = to]
<1>1. parent \in [Items -> Items \cup {None}] /\ q.item \in Items /\ q.item # None
  BY ArtifactAssumption DEF Inv, TypeOK, Call
<1>2. x \notin q.seen \cup q.way /\ q.seen \subseteq Items /\ q.way \subseteq Items
  BY DEF Torn, Active, Call
<1>3. DrivesOf(new, q.item) = DrivesOf(parent, q.item)
  <2>1. CASE site.drives = {}
    BY <2>1 DEF DrivesOf
  <2>2. CASE site.drives # {}
    <3>1. ~Below(parent, q.item, x)
      BY <1>1, <2>2 DEF Torn, Active
    <3>2. QED
      BY <1>1, <3>1, DrivesOther
  <2>3. QED
    BY <2>1, <2>2
<1>4. \A W \in SUBSET (q.way \cup q.seen) :
         /\ \A t : Spans(parent, W, q.item, t) => Spans(new, W, q.item, t)
         /\ Ends(parent, W, q.item) => Ends(new, W, q.item)
  BY <1>1, <1>2, SpansOther
<1> HIDE DEF new
<1>5. Walking(q, parent) => Walking(q, new)
  BY <1>3, <1>4 DEF Walking
<1>6. Cleared(q, parent) => Cleared(q, new)
  BY <1>3, <1>4 DEF Cleared
<1>7. Looks(q, new)
  BY <1>5, <1>6 DEF Looks
<1>8. QED
  BY <1>7 DEF new

\* r is the request q at a later stage: what q has read is not forgotten.
Later(q, r) ==
    /\ Active(q) /\ q.stage # "item" /\ r.stage # "item"
    /\ r.tool = q.tool /\ r.item = q.item /\ r.torn = q.torn
    /\ q.way \cup q.seen \subseteq r.way \cup r.seen

\* Then it still knows what it knew.
LEMMA LaterLooks ==
    ASSUME NEW q, NEW r, NEW par, Later(q, r), Looks(q, par)
    PROVE  Looks(r, par)
BY DEF Later, Looks, Cleared

\* One request goes on while nothing moves.
LEMMA OneLooks ==
    ASSUME Inv, LookInv, NEW s \in Calls, NEW next, Set(s, next), site' = site, parent' = parent,
           Active(next) => Looks(next, parent)
    PROVE  LookInv'
<1>1. \A r \in Calls : call'[r] = IF r = s THEN next ELSE call[r]
  BY DEF Inv, TypeOK, Set
<1>2. \A r \in Calls : Active(call'[r]) => Looks(call'[r], parent)
  BY <1>1 DEF LookInv
<1>3. \A r \in Calls : Active(call[r])' => Looks(call[r], parent)'
  BY <1>2
  DEF Active, Looks, Walking, Cleared, Spans, Ends, DrivesOf, Leads, Below
<1>4. QED
  BY <1>3 DEF LookInv

\* A request is answered.
LEMMA EndLooks ==
    ASSUME NEW q \in Call, NEW o \in Outcomes
    PROVE  ~Active(Ended(q, o))
BY EndedShape DEF Active

\* An edit goes on with what it knows.
LEMMA EditLooks ==
    ASSUME Inv, LookInv, NEW s \in Calls,
           \/ Measure(s) \/ Fetch(s) \/ Check(s) \/ List(s) \/ Pin(s) \/ Upload(s) \/ ReadBack(s)
    PROVE  LookInv'
<1> DEFINE q == call[s]
<1>1. q \in Call /\ site' = site /\ parent' = parent
  BY Typed DEF Measure, Fetch, Check, List, Pin, Upload, ReadBack
<1>2. Active(q) /\ q.stage # "item" /\ Looks(q, parent)
  <2>1. q.stage \in {"measure", "fetch", "check", "list", "pin", "readback"} \/ Upload(s)
    BY DEF Measure, Fetch, Check, List, Pin, ReadBack
  <2>2. CASE Upload(s)
    BY <2>2 DEF Upload, Active, LookInv
  <2>3. QED
    BY <2>1, <2>2 DEF Active, LookInv
<1>3. ASSUME NEW next, Set(s, next), Later(q, next) \/ ~Active(next)
      PROVE  LookInv'
  BY <1>1, <1>2, <1>3, LaterLooks, OneLooks
<1>4. ASSUME NEW t \in Call, NEW o \in Outcomes, Set(s, Ended(t, o))
      PROVE  LookInv'
  BY <1>3, <1>4, EndLooks
<1>5. CASE Measure(s)
  <2> DEFINE next == [q EXCEPT !.stage = "fetch", !.version = blob[q.item].version]
  <2>1. Set(s, next)
    BY <1>5 DEF Measure
  <2>2. Later(q, next)
    BY <1>1, <1>2 DEF Later, Call
  <2>3. QED
    BY <1>3, <2>1, <2>2
<1>6. CASE Fetch(s)
  <2> DEFINE next == [q EXCEPT !.stage = "check", !.base = blob[q.item].head]
  <2>1. Set(s, next) \/ Set(s, Ended(q, "rejected"))
    BY <1>6 DEF Fetch, Rejected
  <2>2. Later(q, next)
    BY <1>1, <1>2 DEF Later, Call
  <2>3. QED
    BY <1>1, <1>3, <1>4, <2>1, <2>2 DEF Outcomes
<1>7. CASE Check(s)
  <2> DEFINE next == [q EXCEPT !.stage = "list", !.checked = blob[q.item].head]
  <2>1. Set(s, next) \/ Set(s, Ended(q, "rejected"))
    BY <1>7 DEF Check, Rejected
  <2>2. Later(q, next)
    BY <1>1, <1>2 DEF Later, Call
  <2>3. QED
    BY <1>1, <1>3, <1>4, <2>1, <2>2 DEF Outcomes
<1>8. CASE List(s)
  <2>1. PICK n \in Latest(blob[q.item]) :
           Set(s, [q EXCEPT !.stage = IF n \in blob[q.item].kept THEN "upload" ELSE "pin",
                            !.head = n])
    BY <1>8 DEF List
  <2> DEFINE next == [q EXCEPT !.stage = IF n \in blob[q.item].kept THEN "upload" ELSE "pin",
                               !.head = n]
  <2>2. Set(s, next)
    BY <2>1
  <2>3. Later(q, next)
    BY <1>1, <1>2 DEF Later, Call
  <2>4. QED
    BY <1>3, <2>2, <2>3
<1>9. CASE Pin(s)
  <2> DEFINE next == [q EXCEPT !.stage = "upload"]
  <2>1. Set(s, next)
    BY <1>9 DEF Pin
  <2>2. Later(q, next)
    BY <1>1, <1>2 DEF Later, Call
  <2>3. QED
    BY <1>3, <2>1, <2>2
<1>10. CASE Upload(s)
  <2> DEFINE n == blob[q.item].head + 1
             t == [q EXCEPT !.took = TRUE, !.mine = n]
             next == [t EXCEPT !.stage = "readback"]
  <2>1. Set(s, next) \/ Set(s, Ended(t, "error"))
    BY <1>10 DEF Upload
  <2>2. n \in Nat
    BY <1>1, BlobTyped DEF Call
  <2> HIDE DEF n
  <2>3. t \in Call /\ Later(q, [t EXCEPT !.stage = "readback"])
    BY <1>1, <1>2, <2>2 DEF Later, Call
  <2> HIDE DEF t
  <2>4. QED
    BY <1>3, <1>4, <2>1, <2>3 DEF Outcomes
<1>11. CASE ReadBack(s)
  <2>1. Set(s, Ended(q, IF Verified(q) THEN "success" ELSE "error"))
    BY <1>11 DEF ReadBack
  <2>2. QED
    BY <1>1, <1>4, <2>1 DEF Outcomes
<1>12. QED
  BY <1>5, <1>6, <1>7, <1>8, <1>9, <1>10, <1>11

\* A request arrives, and its walk starts at the artifact.
LEMMA StartLooks ==
    ASSUME Inv, LookInv, NEW s \in Calls, Start(s)
    PROVE  LookInv'
<1>1. PICK p \in site.bearers, approved \in BOOLEAN, q \in Requests :
         Set(s, Begun(p, [q EXCEPT !.rightful = Right(p, q, approved)], approved))
  BY DEF Start
<1>2. TypeOK /\ made \subseteq Items /\ site' = site /\ parent' = parent
  BY DEF Inv, TypeOK, Start
<1>3. Fresh(q)
  BY <1>2, RequestsFresh
<1> DEFINE r == [q EXCEPT !.rightful = Right(p, q, approved)]
<1>4. Right(p, q, approved) \in BOOLEAN
  BY DEF Right
<1>5. r \in Call /\ r.item \in Items /\ r.tool = q.tool
  BY <1>3, <1>4 DEF Fresh, Call
<1> HIDE DEF r
<1>6. Set(s, Begun(p, r, approved))
  BY <1>1 DEF r
<1>7. CASE Begun(p, r, approved) = Rejected(r)
  BY <1>2, <1>5, <1>6, <1>7, EndLooks, OneLooks DEF Rejected, Outcomes
<1>8. CASE r.tool = "create" /\ Begun(p, r, approved) = Onto(r, "act")
  <2>1. Looks(Onto(r, "act"), parent)
    BY <1>5, <1>8, OntoShape DEF Looks, SameAsk
  <2>2. QED
    BY <1>2, <1>6, <1>8, <2>1, OneLooks
<1>9. CASE Begun(p, r, approved) = Walk(r, "item", r.item)
  <2>1. Looks(Walk(r, "item", r.item), parent)
    BY <1>5, WalkShape DEF Looks, Walking, SameAsk
  <2>2. QED
    BY <1>2, <1>6, <1>9, <2>1, OneLooks
<1>10. QED
  BY <1>7, <1>8, <1>9 DEF Begun

\* What an artifact is authorised for leads on to Drive, to the edit or to its
\* destination, and nothing that was read is forgotten.
LEMMA ItemReadOn ==
    ASSUME NEW q \in Call, q.tool # "create"
    PROVE  \/ ItemRead(q) = Rejected(q)
           \/ /\ Authorised(q) /\ ItemRead(q).item = q.item /\ ItemRead(q).torn = q.torn
              /\ ItemRead(q).stage # "item"
              /\ q.seen \subseteq ItemRead(q).way \cup ItemRead(q).seen
<1> DEFINE On(r) == /\ r.item = q.item /\ r.torn = q.torn /\ r.stage # "item"
                    /\ q.seen \subseteq r.way \cup r.seen
<1>1. \A stage \in {"act", "measure"} : On(Onto(q, stage))
  BY OntoShape DEF SameAsk
<1>2. \A x : On(Walk(q, "dest", x))
  BY DEF Walk, Call
<1>3. q.tool \in Tools
  BY DEF Call
<1> HIDE DEF On
<1>4. CASE ~Authorised(q)
  BY <1>4 DEF ItemRead
<1>5. ASSUME Authorised(q)
      PROVE  ItemRead(q) = Rejected(q) \/ On(ItemRead(q))
  <2>1. CASE q.tool \in {"retrieve", "range", "legacy", "inspect", "update"}
    BY <1>1, <1>5, <2>1 DEF ItemRead, RetrieveAuthorized, RangeAuthorized, LegacyAuthorized,
       InspectAuthorized, UpdateAuthorized, Only
  <2>2. CASE q.tool \in {"delete", "share", "rename"}
    BY <1>1, <1>5, <2>2 DEF ItemRead, DeleteAuthorized, ShareAuthorized, RenameAuthorized
  <2>3. CASE q.tool \in {"convert", "edit"}
    BY <1>1, <1>5, <2>3 DEF ItemRead, ConvertAuthorized, EditAuthorized, Only
  <2>4. CASE q.tool \in {"copy", "move"}
    BY <1>2, <1>5, <2>4 DEF ItemRead, CopyAuthorized, MoveAuthorized, Only
  <2>5. QED
    BY <1>3, <2>1, <2>2, <2>3, <2>4, CapabilityFacts
<1>6. QED
  BY <1>4, <1>5 DEF On

\* What an authorised request knows then.
LEMMA AuthorisedLooks ==
    ASSUME NEW q, NEW r, Authorised(q), q.drive = DrivesOf(parent, q.item), q.item \in q.seen,
           Ends(parent, q.seen, q.item), r.item = q.item, r.stage # "item",
           q.seen \subseteq r.way \cup r.seen
    PROVE  Looks(r, parent)
<1>1. (q.seen \cup q.drive) \cap site.blocked = {}
  BY DEF Authorised, BelongsTo, BelongsToAny, Locations
<1>2. q.seen \in SUBSET (r.way \cup r.seen)
  OBVIOUS
<1>3. QED
  BY <1>1, <1>2 DEF Looks, Cleared

\* A walk reads one more item, and may have come to its end.
LEMMA ReadLooks ==
    ASSUME Inv, LookInv, NEW s \in Calls, Read(s)
    PROVE  LookInv'
<1> DEFINE q   == call[s]
           up  == parent[q.at]
           now == [q EXCEPT !.seen = @ \cup {q.at},
                            !.drive = IF q.seen = {} THEN DriveOf(q.at) ELSE @,
                            !.up = IF q.seen = {} /\ q.stage = "item" THEN up ELSE @]
           on  == [now EXCEPT !.at = up]
           far == IF q.stage = "item" THEN ItemRead(now) ELSE DestRead(now)
<1>1. /\ q.stage \in {"item", "dest"} /\ site' = site /\ parent' = parent
      /\ \/ up # None /\ Set(s, on)
         \/ (up = None \/ Deep(q)) /\ Set(s, far)
         \/ \E failure \in Failures(q) : Set(s, failure)
  BY DEF Read
<1>2. /\ now \in Call /\ now.stage = q.stage /\ SameAsk(q, now) /\ now.at = q.at
      /\ now.seen = q.seen \cup {q.at} /\ now.way = q.way /\ now.torn = q.torn
      /\ now.took = q.took
      /\ now.drive = IF q.seen = {} THEN DriveOf(q.at) ELSE q.drive
      /\ now.up = IF q.seen = {} /\ q.stage = "item" THEN up ELSE q.up
  BY <1>1, ReadShape
<1> HIDE DEF now
<1>3. /\ q \in Call /\ Active(q) /\ Exists(q, made) /\ Looks(q, parent) /\ made \subseteq Items
      /\ parent \in [Items -> Items \cup {None}] /\ q.tool # "create"
  BY <1>1, Typed DEF GoodCall, Active, LookInv, Staged
<1>4. q.item \in Items /\ q.at \in Items /\ q.seen \in SUBSET Items /\ up \in Items \cup {None}
  BY <1>1, <1>3 DEF Call, Exists
<1>5. /\ on.stage = q.stage /\ on.item = q.item /\ on.tool = q.tool /\ on.at = up
      /\ on.seen = now.seen /\ on.way = now.way /\ on.torn = q.torn /\ on.drive = now.drive
  BY <1>2 DEF Call, SameAsk
<1> HIDE DEF on, far
<1>6. ASSUME q.stage = "item", ~q.torn
      PROVE  /\ now.drive = DrivesOf(parent, q.item) /\ q.item \in now.seen
             /\ up # None => Spans(parent, now.seen, q.item, up)
             /\ up = None \/ Deep(q) => Ends(parent, now.seen, q.item)
  <2>1. Walking(q, parent)
    BY <1>3, <1>6 DEF Looks
  <2>2. (q.seen = {} /\ q.at = q.item) \/ Spans(parent, q.seen, q.item, q.at)
    BY <2>1 DEF Walking
  <2>3. now.drive = DrivesOf(parent, q.item)
    BY <1>2, <2>1 DEF Walking, DriveOf, DrivesOf
  <2>4. /\ q.item \in now.seen
        /\ up # None => Spans(parent, now.seen, q.item, up)
        /\ up = None \/ q.at \in q.seen => \A z \in now.seen : parent[z] \in now.seen \cup {None}
    <3>1. /\ q.item \in q.seen \cup {q.at}
          /\ up # None => Spans(parent, q.seen \cup {q.at}, q.item, up)
          /\ up = None \/ q.at \in q.seen =>
                 \A z \in q.seen \cup {q.at} : parent[z] \in q.seen \cup {q.at, None}
      BY <1>4, <2>2, SpansOne
    <3>2. now.seen = q.seen \cup {q.at} /\ q.seen \cup {q.at, None} = now.seen \cup {None}
      BY <1>2
    <3>3. QED
      BY <3>1, <3>2
  <2>5. ASSUME Deep(q), up # None, q.at \notin q.seen
        PROVE  Ends(parent, now.seen, q.item)
    <3>1. IsFiniteSet(q.seen)
      BY <1>4, ArtifactAssumption, FS_Subset
    <3>2. Cardinality(now.seen) = Cardinality(q.seen) + 1 /\ Cardinality(q.seen) \in Nat
      BY <1>2, <2>5, <3>1, FS_AddElement, FS_CardinalityType
    <3>3. site.depth \in Nat
      BY SiteFacts DEF Inv, Site
    <3>4. Cardinality(now.seen) > site.depth
      BY <2>5, <3>2, <3>3 DEF Deep
    <3>5. QED
      BY <1>4, <2>4, <2>5, <3>4 DEF Ends
  <2>6. QED
    BY <2>3, <2>4, <2>5 DEF Ends
<1>7. CASE \E failure \in Failures(q) : Set(s, failure)
  <2>1. PICK o \in {"rejected", "error"} : Set(s, Ended(q, o))
    BY <1>7 DEF Failures
  <2>2. QED
    BY <1>1, <1>3, <2>1, EndLooks, OneLooks DEF Outcomes
<1>8. CASE up # None /\ Set(s, on)
  <2>1. CASE q.stage = "item"
    <3>1. Looks(on, parent)
      BY <1>2, <1>5, <1>6, <1>8, <2>1 DEF Looks, Walking
    <3>2. QED
      BY <1>1, <1>8, <3>1, OneLooks
  <2>2. CASE q.stage = "dest"
    <3>1. Later(q, on)
      BY <1>2, <1>3, <1>5, <2>2 DEF Later
    <3>2. QED
      BY <1>1, <1>3, <1>8, <3>1, LaterLooks, OneLooks
  <2>3. QED
    BY <1>1, <2>1, <2>2
<1>9. CASE (up = None \/ Deep(q)) /\ Set(s, far)
  <2>1. far = Rejected(now) => ~Active(far)
    BY <1>2, EndLooks DEF Rejected, Outcomes
  <2>2. CASE q.stage = "item"
    <3>1. far = ItemRead(now) /\ now.torn = q.torn /\ now.item = q.item /\ now.tool = q.tool
      BY <1>2, <2>2 DEF far, SameAsk
    <3>2. \/ far = Rejected(now)
          \/ /\ Authorised(now) /\ far.item = now.item /\ far.torn = now.torn
             /\ far.stage # "item" /\ now.seen \subseteq far.way \cup far.seen
      BY <1>2, <1>3, <3>1, ItemReadOn
    <3>3. CASE far # Rejected(now) /\ ~q.torn
      <4>1. /\ now.drive = DrivesOf(parent, now.item) /\ now.item \in now.seen
            /\ Ends(parent, now.seen, now.item)
        BY <1>6, <1>9, <2>2, <3>1, <3>3
      <4>2. Looks(far, parent)
        BY <3>2, <3>3, <4>1, AuthorisedLooks
      <4>3. QED
        BY <1>1, <1>9, <4>2, OneLooks
    <3>4. CASE far # Rejected(now) /\ q.torn
      BY <1>1, <1>9, <3>1, <3>2, <3>4, OneLooks DEF Looks
    <3>5. CASE far = Rejected(now)
      BY <1>1, <1>9, <2>1, <3>5, OneLooks
    <3>6. QED
      BY <3>3, <3>4, <3>5
  <2>3. CASE q.stage = "dest"
    <3>1. far \in {Rejected(now), Onto(now, "act")}
      BY <2>3 DEF far, DestRead
    <3>2. Later(q, Onto(now, "act"))
      BY <1>2, <1>3, <2>3, OntoShape DEF Later, SameAsk
    <3>3. QED
      BY <1>1, <1>3, <1>9, <2>1, <3>1, <3>2, LaterLooks, OneLooks
  <2>4. QED
    BY <1>1, <2>2, <2>3
<1>10. QED
  BY <1>1, <1>7, <1>8, <1>9

\* Something moves, or nothing does: requests that have looked there are torn.
LEMMA MovesLook ==
    ASSUME Inv, LookInv, site' = site, NEW x \in Items, NEW to \in Items \cup {None},
           parent' = parent \/ parent' = [parent EXCEPT ![x] = to],
           \A r \in Calls :
              \/ call'[r] = call[r] /\ (parent' = parent \/ (Active(call[r]) => ~Torn(call[r], x)))
              \/ call'[r].torn
              \/ ~Active(call'[r])
    PROVE  LookInv'
<1>1. ASSUME NEW r \in Calls, Active(call'[r])
      PROVE  Looks(call'[r], parent')
  <2>1. CASE call'[r].torn
    BY <2>1 DEF Looks
  <2>2. CASE call'[r] = call[r] /\ (parent' = parent \/ (Active(call[r]) => ~Torn(call[r], x)))
    <3>1. call[r] \in Call /\ Active(call[r]) /\ Looks(call[r], parent)
      BY <1>1, <2>2 DEF Inv, TypeOK, LookInv
    <3>2. CASE parent' = parent
      BY <2>2, <3>1, <3>2
    <3>3. CASE parent' = [parent EXCEPT ![x] = to] /\ ~Torn(call[r], x)
      <4>1. Looks(call[r], [parent EXCEPT ![x] = to])
        BY <3>1, <3>3, LooksKept
      <4>2. QED
        BY <2>2, <3>3, <4>1
    <3>4. QED
      BY <2>2, <3>1, <3>2, <3>3
  <2>3. QED
    BY <1>1, <2>1, <2>2
<1>2. \A r \in Calls : Active(call[r])' => Looks(call[r], parent)'
  BY <1>1
  DEF Active, Looks, Walking, Cleared, Spans, Ends, DrivesOf, Leads, Below
<1>3. QED
  BY <1>2 DEF LookInv

\* What Drive is asked to do moves at most one item: a new one, or the artifact.
LEMMA EffectMoves ==
    ASSUME Inv, NEW s \in Calls, call[s].stage = "act", NEW q, SameAsk(call[s], q),
           q.up = call[s].up,
           \/ GetDocument(q) \/ GetRange(q) \/ GetBinary(q)
           \/ CopyResource(q) \/ CreateResource(q) \/ ConvertResource(q) \/ MoveResource(q)
           \/ RenameResource(q) \/ AppendText(q) \/ DeleteResource(q) \/ ShareResource(q)
    PROVE  \E x \in Items, to \in Items \cup {None} :
              /\ parent' = parent \/ parent' = [parent EXCEPT ![x] = to]
              /\ \/ parent' = parent
                 \/ q.tool = "move" /\ x = q.item
                 \/ q.tool # "move" /\ x \notin made
<1>1. /\ q.tool # "legacy" => Root(q.source) \in Items
      /\ q.tool \in {"copy", "move"} => Target(q) \in Items
      /\ q.up \in Items \cup {None} /\ q.item \in Items /\ site.spare \subseteq Items
  BY TargetExists, Typed, SiteFacts DEF SameAsk, Target, Inv, Site
<1>2. CASE parent' = parent
  BY <1>1, <1>2
<1>3. ASSUME NEW to \in Items \cup {None}, Adds(to), q.tool # "move"
      PROVE  \E x \in Items : parent' = [parent EXCEPT ![x] = to] /\ x \notin made
  BY <1>1, <1>3 DEF Adds, Moved
<1>4. CASE MoveResource(q)
  BY <1>1, <1>4 DEF MoveResource, Moved
<1>5. CASE CopyResource(q) \/ CreateResource(q) \/ ConvertResource(q)
  <2>1. q.tool # "move" /\ \E to \in Items \cup {None} : Adds(to)
    BY <1>1, <1>5 DEF CopyResource, CreateResource, ConvertResource
  <2>2. QED
    BY <1>3, <2>1
<1>6. QED
  BY <1>2, <1>4, <1>5
  DEF GetDocument, GetRange, GetBinary, RenameResource, AppendText, DeleteResource, ShareResource,
      Gets, Changes

\* Drive acts for a request.
LEMMA ActLooks ==
    ASSUME Inv, LookInv, NEW s \in Calls, Act(s)
    PROVE  LookInv'
<1> DEFINE q == [call[s] EXCEPT !.took = TRUE]
<1>1. call[s] \in Call /\ call[s].stage = "act" /\ site' = site
  BY Typed DEF Act
<1>2. q \in Call /\ SameAsk(call[s], q) /\ q.up = call[s].up
  BY <1>1 DEF Call, SameAsk
<1>3. PICK o \in {"success", "error"} :
         call' = LET c == [call EXCEPT ![s] = Ended(q, o)] IN
                 IF q.tool = "move" THEN Noticed(c, q.item) ELSE c
  BY DEF Act, Answers
<1>4. /\ \/ GetDocument(q) \/ GetRange(q) \/ GetBinary(q)
         \/ CopyResource(q) \/ CreateResource(q) \/ ConvertResource(q) \/ MoveResource(q)
         \/ RenameResource(q) \/ AppendText(q) \/ DeleteResource(q) \/ ShareResource(q)
  BY DEF Act
<1> HIDE DEF q
<1>5. PICK x \in Items, to \in Items \cup {None} :
         /\ parent' = parent \/ parent' = [parent EXCEPT ![x] = to]
         /\ \/ parent' = parent
            \/ q.tool = "move" /\ x = q.item
            \/ q.tool # "move" /\ x \notin made
  BY <1>1, <1>2, <1>4, EffectMoves
<1> DEFINE next == Ended(q, o)
           c == [call EXCEPT ![s] = next]
<1>6. next \in Call /\ ~Active(next) /\ ~Torn(next, q.item)
  BY <1>2, EndedShape DEF Outcomes, Active, Torn
<1> HIDE DEF next
<1>7. \A r \in Calls : c[r] = IF r = s THEN next ELSE call[r]
  BY DEF Inv, TypeOK
<1>8. call' = IF q.tool = "move" THEN Noticed(c, q.item) ELSE c
  BY <1>3 DEF next
<1> HIDE DEF c
<1>9. ASSUME NEW r \in Calls
      PROVE  \/ call'[r] = call[r] /\ (parent' = parent \/ (Active(call[r]) => ~Torn(call[r], x)))
             \/ call'[r].torn
             \/ ~Active(call'[r])
  <2>1. call[r] \in Call /\ (Active(call[r]) => Exists(call[r], made))
    BY Typed DEF GoodCall
  <2>2. CASE q.tool # "move"
    <3>1. r # s => call'[r] = call[r]
      BY <1>7, <1>8, <2>2
    <3>2. r = s => call'[r] = next
      BY <1>7, <1>8, <2>2
    <3>3. parent' = parent \/ (Active(call[r]) => ~Torn(call[r], x))
      BY <1>5, <2>1, <2>2, NewIsNotTorn
    <3>4. QED
      BY <1>6, <3>1, <3>2, <3>3
  <2>3. CASE q.tool = "move"
    <3>1. call'[r] = IF Torn(c[r], q.item) THEN [c[r] EXCEPT !.torn = TRUE] ELSE c[r]
      BY <1>8, <2>3 DEF Noticed
    <3>2. CASE r = s
      BY <1>6, <1>7, <3>1, <3>2
    <3>3. CASE r # s
      <4>1. [call[r] EXCEPT !.torn = TRUE].torn
        BY <2>1 DEF Call
      <4>2. parent' = parent \/ x = q.item
        BY <1>5, <2>3
      <4>3. CASE Torn(call[r], q.item)
        BY <1>7, <3>1, <3>3, <4>1, <4>3
      <4>4. CASE ~Torn(call[r], q.item)
        BY <1>7, <3>1, <3>3, <4>2, <4>4
      <4>5. QED
        BY <4>3, <4>4
    <3>4. QED
      BY <3>2, <3>3
  <2>4. QED
    BY <2>2, <2>3
<1>10. QED
  BY <1>1, <1>5, <1>9, MovesLook

\* Users move something, or save something.
LEMMA UserLooks ==
    ASSUME Inv, LookInv, UserMove \/ UserSave
    PROVE  LookInv'
<1>1. made \subseteq Items /\ \A r \in Calls : call[r] \in Call
  BY DEF Inv, TypeOK
<1>2. CASE UserSave
  <2>1. UNCHANGED <<site, parent, call>> /\ \E x \in Items : TRUE
    BY <1>2, ArtifactAssumption DEF UserSave
  <2>2. QED
    BY <2>1, MovesLook
<1>3. CASE UserMove
  <2>1. PICK x \in made, to \in made : Moved(x, to) /\ call' = Noticed(call, x)
    BY <1>3 DEF UserMove
  <2>2. \A r \in Calls :
           call'[r] = IF Torn(call[r], x) THEN [call[r] EXCEPT !.torn = TRUE] ELSE call[r]
    BY <2>1 DEF Noticed
  <2>3. \A p \in Call : [p EXCEPT !.torn = TRUE].torn
    BY DEF Call
  <2>4. \A r \in Calls : \/ call'[r] = call[r] /\ ~Torn(call[r], x)
                         \/ call'[r].torn
    BY <1>1, <2>2, <2>3
  <2>5. site' = site /\ parent' = [parent EXCEPT ![x] = to] /\ x \in Items /\ to \in Items
    BY <1>1, <1>3, <2>1 DEF UserMove, Moved
  <2>6. QED
    BY <2>4, <2>5, MovesLook
<1>4. QED
  BY <1>2, <1>3

\* Every step keeps what requests know.
LEMMA NextLooks == Inv /\ LookInv /\ [Next]_vars => LookInv'
<1> SUFFICES ASSUME Inv, LookInv, [Next]_vars PROVE LookInv'
  OBVIOUS
<1>1. CASE UNCHANGED vars
  <2>1. UNCHANGED <<site, parent, call>> /\ \E x \in Items : TRUE
    BY <1>1, ArtifactAssumption DEF vars
  <2>2. QED
    BY <2>1, MovesLook
<1>2. ASSUME NEW s \in Calls, Step(s)
      PROVE  LookInv'
  <2>1. CASE Fail(s)
    <3>1. PICK o \in {"rejected", "error"} : Set(s, Ended(call[s], o))
      BY <2>1 DEF Fail, Failures
    <3>2. site' = site /\ parent' = parent /\ call[s] \in Call
      BY <2>1, Typed DEF Fail
    <3>3. QED
      BY <3>1, <3>2, EndLooks, OneLooks DEF Outcomes
  <2>2. CASE Again(s)
    <3>1. Set(s, NoCall) /\ site' = site /\ parent' = parent
      BY <2>2 DEF Again
    <3>2. QED
      BY <3>1, NoCallShape, OneLooks DEF Active
  <2>3. QED
    BY <1>2, <2>1, <2>2, StartLooks, ReadLooks, ActLooks, EditLooks DEF Step
<1>3. QED
  BY <1>1, <1>2, UserLooks DEF Next

\* No artifact under a blocked identifier is touched, whatever the tree of
\* folders and shared drives, and whoever moves other things meanwhile: the walk
\* to the artifact, as far up as it goes, would have met that identifier
\* (get_resource, SourceAccessPolicy).
THEOREM BlockedStaysUntouched == Spec => BlockedUntouched
<1>1. Init => LookInv
  BY NoCallShape DEF Init, LookInv, Active
<1>2. LookInv /\ Inv /\ [Next]_vars =>
        \A s \in Calls :
           Takes(s) /\ call[s].tool # "create" /\ ~call[s].torn => ~Blocked(call[s].item)
  <2> SUFFICES ASSUME LookInv, Inv, [Next]_vars, NEW s \in Calls, Takes(s),
                      call[s].tool # "create", ~call[s].torn
               PROVE  ~Blocked(call[s].item)
    OBVIOUS
  <2>1. call[s] \in Call /\ call[s].stage \in {"act", "upload"}
    BY ActsThere
  <2>2. Cleared(call[s], parent)
    BY <2>1 DEF LookInv, Looks, Active
  <2>3. QED
    BY <2>1, <2>2, ClearedNotBlocked
<1>3. QED
  BY <1>1, <1>2, NextLooks, Invariance, PTL DEF Spec, BlockedUntouched

===============================================================================
