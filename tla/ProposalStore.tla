---------------------------- MODULE ProposalStore ----------------------------
(***************************************************************************)
(* The source proposals of the Gateway (app/source_proposal_store.py): one *)
(* YAML document in a bucket object with Object Versioning, to which       *)
(* create_source_proposal appends under a generation precondition, and     *)
(* which list_source_proposals and get_source_proposal read.               *)
(*                                                                         *)
(* An instance has one blob handle for the life of its process.  The       *)
(* storage client keeps in it the generation of the last download or       *)
(* upload, and downloads that generation from then on; the code takes the  *)
(* generation of what it read from the handle in a step of its own.  The   *)
(* tools are synchronous functions that run on threads, so an instance     *)
(* serves several requests at once, through the one handle.                *)
(***************************************************************************)
EXTENDS Integers, FiniteSets, Sequences

CONSTANTS
    Proposals,   \* one creation request for each; ids are new (uuid4)
    Instances,   \* instances of the Gateway
    Threads,     \* requests an instance serves at a time
    MaxAttempts  \* MAX_WRITE_ATTEMPTS

ASSUME StoreAssumption == /\ IsFiniteSet(Proposals)
                          /\ Threads \in Nat \ {0}
                          /\ MaxAttempts \in Nat \ {0}

VARIABLES
    versions,  \* the contents of the object, one for each generation so far
    handle,    \* handle[i]: the generation instance i's handle is at; 0 for none
    request,   \* request[p]: the request that creates proposal p
    listed     \* listed[i]: the version instance i listed last

vars == <<versions, handle, request, listed>>

-----------------------------------------------------------------------------
(* The object.                                                             *)

\* SourceProposalDocument: its proposals, in the order of their creation.
Documents == Seq(Proposals)

Live == Len(versions)

\* The document at generation g; read() gives None for an absent object and
\* _load an empty document for that.
Document(g) == IF g = 0 THEN <<>> ELSE versions[g]

Entries(document) == {document[k] : k \in DOMAIN document}

\* A download through instance i's handle: the generation the handle is at,
\* the live one if it has none yet.  The handle moves to what was read.
Version(i) == IF handle[i] = 0 THEN Live ELSE handle[i]

Download(i) == handle' = [handle EXCEPT ![i] = Version(i)]

-----------------------------------------------------------------------------
(* YamlSourceProposalStore.create: download, take the handle's generation, *)
(* append and upload, up to MaxAttempts times.                             *)

Phase == {"new", "download", "generation", "upload", "created", "failed"}

Active == {"download", "generation", "upload"}

Request == [phase : Phase, at : Instances, document : Documents,
            generation : Nat, attempt : 0..(MaxAttempts - 1)]

\* The requests instance i is serving.
Serving(i) == {p \in Proposals : request[p].phase \in Active /\ request[p].at = i}

Goto(p, phase) == request' = [request EXCEPT ![p].phase = phase]

\* Room for one request more at instance i.
Free(i) == Cardinality(Serving(i)) < Threads

\* create_source_proposal reaches the store.
Begin(p) ==
    /\ request[p].phase = "new"
    /\ Free(request[p].at)
    /\ Goto(p, "download")
    /\ UNCHANGED <<versions, handle, listed>>

\* read: the download.  Of an absent object there is nothing to take the
\* generation of, and 0 is returned at once.
Read(p) ==
    /\ request[p].phase = "download"
    /\ LET i == request[p].at IN
       /\ request' = [request EXCEPT
            ![p].phase = IF Version(i) = 0 THEN "upload" ELSE "generation",
            ![p].document = Document(Version(i)),
            ![p].generation = 0]
       /\ Download(i)
    /\ UNCHANGED <<versions, listed>>

\* Mutant of Registered: no check for the proposal of an earlier attempt.
NeverRegistered(p) == FALSE

\* Whether the document a request read has its proposal already.
Registered(p) == p \in Entries(request[p].document)

\* Mutant of Taken: the object's metadata are fetched once more for it.
TakenAnew(p) == Live

\* The generation of what was read, as the handle has it by now.
Taken(p) == handle[request[p].at]

\* read: the generation.  create: the check for a proposal that is there.
Generation(p) ==
    /\ request[p].phase = "generation"
    /\ request' = [request EXCEPT
         ![p].phase = IF Registered(p) THEN "created" ELSE "upload",
         ![p].generation = Taken(p)]
    /\ UNCHANGED <<versions, handle, listed>>

\* Mutant of Conflict: one attempt more than the loop has.
ConflictOnceMore(p) ==
    request' = [request EXCEPT ![p].phase = "download",
                               ![p].attempt = request[p].attempt + 1]

\* ProposalObjectConflict: the next attempt, or the 409 after the last.
Conflict(p) ==
    request' = [request EXCEPT
        ![p].phase = IF request[p].attempt + 1 < MaxAttempts
                     THEN "download" ELSE "failed",
        ![p].attempt = IF request[p].attempt + 1 < MaxAttempts
                       THEN request[p].attempt + 1 ELSE request[p].attempt]

\* The document that create writes.
Updated(p) == Append(request[p].document, p)

\* Mutant of Matches: an upload without a precondition.
AlwaysMatches(p) == TRUE

\* The upload's precondition.
Matches(p) == request[p].generation = Live

\* The upload goes through, and its answer moves the handle.
Upload(p) ==
    /\ request[p].phase = "upload"
    /\ Matches(p)
    /\ versions' = Append(versions, Updated(p))
    /\ handle' = [handle EXCEPT ![request[p].at] = Live + 1]
    /\ Goto(p, "created")
    /\ UNCHANGED listed

\* It goes through but its answer is lost: the client's retry is refused, or
\* the request ends with source_proposal_store_unavailable.
UploadUnanswered(p) ==
    /\ request[p].phase = "upload"
    /\ Matches(p)
    /\ versions' = Append(versions, Updated(p))
    /\ Conflict(p) \/ Goto(p, "failed")
    /\ UNCHANGED <<handle, listed>>

\* The object has another generation.
UploadRefused(p) ==
    /\ request[p].phase = "upload"
    /\ ~Matches(p)
    /\ Conflict(p)
    /\ UNCHANGED <<versions, handle, listed>>

\* A storage error, or a request that is cancelled.
Fail(p) ==
    /\ request[p].phase \in Active
    /\ Goto(p, "failed")
    /\ UNCHANGED <<versions, handle, listed>>

-----------------------------------------------------------------------------
(* The other operations.                                                   *)

\* list and get: one read through the handle; its generation is not used.
List(i) ==
    /\ Free(i)
    /\ listed' = [listed EXCEPT ![i] = Version(i)]
    /\ Download(i)
    /\ UNCHANGED <<versions, request>>

\* An instance is replaced: its requests end and its handle is new.
Restart(i) ==
    /\ handle' = [handle EXCEPT ![i] = 0]
    /\ request' = [p \in Proposals |->
                     IF p \in Serving(i) THEN [request[p] EXCEPT !.phase = "failed"]
                     ELSE request[p]]
    /\ UNCHANGED <<versions, listed>>

-----------------------------------------------------------------------------

Init ==
    /\ versions = <<>>
    /\ handle = [i \in Instances |-> 0]
    /\ \E home \in [Proposals -> Instances] :  \* where requests will be routed
         request = [p \in Proposals |-> [phase |-> "new", at |-> home[p],
                                        document |-> <<>>, generation |-> 0,
                                        attempt |-> 0]]
    /\ listed = [i \in Instances |-> 0]

Next ==
    \/ \E p \in Proposals :
         \/ Begin(p) \/ Read(p) \/ Generation(p)
         \/ Upload(p) \/ UploadUnanswered(p) \/ UploadRefused(p)
         \/ Fail(p)
    \/ \E i \in Instances : List(i) \/ Restart(i)

Spec == Init /\ [][Next]_vars

-----------------------------------------------------------------------------
(* Properties.                                                             *)

TypeOK ==
    /\ versions \in Seq(Documents)
    /\ handle \in [Instances -> 0..Live]
    /\ request \in [Proposals -> Request]
    /\ \A p \in Proposals : request[p].generation <= Live
    /\ listed \in [Instances -> 0..Live]

Stored == Entries(Document(Live))
Told   == {p \in Proposals : request[p].phase = "created"}

Once(document) ==
    \A j, k \in DOMAIN document : document[j] = document[k] => j = k

\* A proposal whose creation was answered with success is in the registry,
\* whatever other creations and restarts there were (README.md: "Cada escritura
\* lleva una precondición de generación para no sobrescribir cambios
\* concurrentes").
NoProposalLost == Told \subseteq Stored

\* A proposal is registered once, even if the answer to the upload that
\* registered it was lost and the request tried again, and however the
\* requests of an instance share its handle (create).
ListedOnce == Once(Document(Live))

\* The generation a request has taken is not that of the document it read:
\* another request of its instance moved the handle in between.
Mixed(p) == request[p].document # Document(request[p].generation)

\* What the precondition of an upload still protects when the requests of an
\* instance share a handle: a proposal is overwritten only by a request of the
\* instance that registered it, and only if another request moved the handle
\* between the download and the reading of its generation.  What another
\* instance registered is never overwritten (read, write).
OverwrittenAtHome ==
    [][\A q \in Stored \ Stored' :
          \E p \in Proposals : /\ request[p].phase = "upload"
                               /\ request'[p] # request[p]
                               /\ Mixed(p)
                               /\ request[p].at = request[q].at]_vars

\* What a request is about to write repeats no proposal, nor does a version.
WritesOnce ==
    \A p \in Proposals : request[p].phase \in {"generation", "upload"} =>
        /\ Once(request[p].document)
        /\ request[p].phase = "upload" => ~Registered(p)

VersionsOnce == \A g \in 0..Live : Once(Document(g))

\* The proposals of p's instance.
Siblings(p) == {q \in Proposals : request[q].at = request[p].at}

\* Two sets of proposals that differ in those of p's instance only.
SameButSiblings(p, A, B) == A \ Siblings(p) = B \ Siblings(p)

\* What an upload that would be accepted writes differs from the live document
\* in proposals of its own instance only: the handle was at the live version
\* when its generation was taken, and all uploads since the download were made
\* through it.
ReadIsCurrent ==
    \A p \in Proposals :
        \/ request[p].phase = "generation" /\ Taken(p) = Live
        \/ request[p].phase = "upload" /\ Matches(p)
        => SameButSiblings(p, Entries(request[p].document), Stored)

\* A generation is taken from a handle that knows one, and is none the handle
\* has not been at.
TakenBefore ==
    \A p \in Proposals :
        /\ request[p].phase = "generation" => Taken(p) > 0
        /\ request[p].phase = "upload" => /\ request[p].generation <= Taken(p)
                                          /\ request[p].generation = 0 =>
                                                 request[p].document = <<>>

\* The proposals that are or were registered.
Ever == UNION {Entries(Document(g)) : g \in 0..Live}

\* What a request read was registered, and so was what callers were told of.
KnownIsRegistered ==
    /\ Told \subseteq Ever
    /\ \A p \in Proposals : request[p].phase \in {"generation", "upload"} =>
           Entries(request[p].document) \subseteq Ever

\* An instance would not list an earlier version than it listed last.
ListedStays == \A i \in Instances : listed[i] <= Version(i)

\* The inductive invariant, with TypeOK.
Inv == WritesOnce /\ VersionsOnce /\ TakenBefore /\ ReadIsCurrent
       /\ KnownIsRegistered /\ ListedStays

Registry == INSTANCE ProposalRegistry WITH
    history <- [g \in 1..Live |-> Entries(Document(g))],
    home    <- [p \in Proposals |-> request[p].at],
    told    <- Told,
    shown   <- listed

\* The store is a durable registry in which an instance can overwrite its own
\* proposals but no other's, tells only of what was registered, and never
\* shows less of the history than before (create, list).
ImplementsRegistry == Registry!Spec
=============================================================================
