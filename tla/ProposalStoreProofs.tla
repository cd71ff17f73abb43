------------------------- MODULE ProposalStoreProofs -------------------------
(***************************************************************************)
(* Theorems about ProposalStore, for every set of proposals and instances, *)
(* any number of requests that an instance serves at a time, and any       *)
(* number of attempts.                                                     *)
(***************************************************************************)
EXTENDS ProposalStore, TLAPS

-----------------------------------------------------------------------------
(* Documents and versions.                                                 *)

\* Every version is a document.
LEMMA DocumentType ==
    ASSUME versions \in Seq(Documents), NEW g \in 0..Live
    PROVE  Document(g) \in Documents
BY DEF Document, Documents, Live

\* Appending adds one entry.
LEMMA AppendEntries ==
    ASSUME NEW d \in Documents, NEW p \in Proposals
    PROVE  /\ Append(d, p) \in Documents
           /\ Entries(Append(d, p)) = Entries(d) \cup {p}
<1>1. Append(d, p) \in Documents
  BY DEF Documents
<1>2. Entries(Append(d, p)) \subseteq Entries(d) \cup {p}
  BY DEF Entries, Documents
<1>3. ASSUME NEW x \in Entries(d)
      PROVE  x \in Entries(Append(d, p))
  <2>1. PICK k \in DOMAIN d : x = d[k]
    BY DEF Entries
  <2>2. k \in DOMAIN Append(d, p) /\ Append(d, p)[k] = x
    BY <2>1 DEF Documents
  <2>3. QED
    BY <2>2 DEF Entries
<1>4. p \in Entries(Append(d, p))
  <2>1. Len(d) + 1 \in DOMAIN Append(d, p) /\ Append(d, p)[Len(d) + 1] = p
    BY DEF Documents
  <2>2. QED
    BY <2>1 DEF Entries
<1>5. QED
  BY <1>1, <1>2, <1>3, <1>4

\* A new entry repeats none.
LEMMA AppendOnce ==
    ASSUME NEW d \in Documents, NEW p \in Proposals, Once(d), p \notin Entries(d)
    PROVE  Once(Append(d, p))
<1>1. SUFFICES ASSUME NEW j \in DOMAIN Append(d, p), NEW k \in DOMAIN Append(d, p),
                      Append(d, p)[j] = Append(d, p)[k]
               PROVE  j = k
  BY DEF Once
<1>2. \A m \in DOMAIN Append(d, p) :
         \/ m \in DOMAIN d /\ Append(d, p)[m] = d[m] /\ d[m] \in Entries(d)
         \/ m = Len(d) + 1 /\ Append(d, p)[m] = p
  BY DEF Documents, Entries
<1>3. CASE j \in DOMAIN d /\ k \in DOMAIN d
  BY <1>1, <1>2, <1>3 DEF Once, Documents
<1>4. CASE j \notin DOMAIN d \/ k \notin DOMAIN d
  BY <1>1, <1>2, <1>4
<1>5. QED
  BY <1>3, <1>4

\* An upload adds a version and leaves the others.
LEMMA NewVersion ==
    ASSUME versions \in Seq(Documents), NEW d \in Documents,
           versions' = Append(versions, d)
    PROVE  /\ versions' \in Seq(Documents)
           /\ Live \in Nat
           /\ Live' = Live + 1
           /\ \A g \in 0..Live : Document(g)' = Document(g)
           /\ \A g : g = Live + 1 => Document(g)' = d
BY DEF Live, Document, Documents

-----------------------------------------------------------------------------
(* Typing.                                                                 *)

LEMMA StepTypes ==
    ASSUME TypeOK, NEW p \in Proposals
    PROVE  /\ \A ph \in Phase : Goto(p, ph) => request' \in [Proposals -> Request]
                             /\ \A q \in Proposals : request'[q].generation = request[q].generation
           /\ Conflict(p) => request' \in [Proposals -> Request]
                             /\ \A q \in Proposals : request'[q].generation = request[q].generation
<1>1. ASSUME NEW ph \in Phase, Goto(p, ph)
      PROVE  /\ request' \in [Proposals -> Request]
             /\ \A q \in Proposals : request'[q].generation = request[q].generation
  BY <1>1 DEF TypeOK, Goto, Request
<1>2. ASSUME Conflict(p)
      PROVE  /\ request' \in [Proposals -> Request]
             /\ \A q \in Proposals : request'[q].generation = request[q].generation
  <2> DEFINE more == request[p].attempt + 1 < MaxAttempts
             ph == IF more THEN "download" ELSE "failed"
             n  == IF more THEN request[p].attempt + 1 ELSE request[p].attempt
  <2>0. request[p].attempt \in 0..(MaxAttempts - 1)
    BY DEF TypeOK, Request
  <2>1. /\ request' = [request EXCEPT ![p].phase = ph, ![p].attempt = n]
        /\ ph \in Phase
        /\ n \in 0..(MaxAttempts - 1)
    BY <1>2, <2>0, StoreAssumption DEF Conflict, Phase
  <2> HIDE DEF ph, n
  <2>2. QED
    BY <2>1 DEF TypeOK, Request
<1>3. QED
  BY <1>1, <1>2

\* TypeOK is preserved by every step.
LEMMA TypeStep ==
    ASSUME TypeOK, [Next]_vars
    PROVE  TypeOK'
<1> USE DEF TypeOK
<1>0. Live \in Nat
  BY DEF Live
<1>1. ASSUME NEW p \in Proposals, Begin(p)
      PROVE  TypeOK'
  BY <1>1, StepTypes DEF Begin, Phase, Live
<1>2. ASSUME NEW p \in Proposals, Read(p)
      PROVE  TypeOK'
  <2> DEFINE i == request[p].at
  <2>1. i \in Instances /\ Version(i) \in 0..Live
    BY <1>0 DEF Version, Request
  <2>2. Document(Version(i)) \in Documents
    BY <2>1, DocumentType
  <2>3. PICK ph \in Phase, d \in Documents :
           request' = [request EXCEPT ![p].phase = ph, ![p].document = d,
                                      ![p].generation = 0]
    BY <1>2, <2>2 DEF Read, Phase
  <2>4. request' \in [Proposals -> Request]
    BY <2>3 DEF Request
  <2>5. \A q \in Proposals : request'[q].generation <= Live
    BY <2>3, <1>0 DEF Request
  <2>6. handle' \in [Instances -> 0..Live]
    BY <1>2, <2>1 DEF Read, Download
  <2>7. QED
    BY <1>2, <2>4, <2>5, <2>6 DEF Read, Live
<1>3. ASSUME NEW p \in Proposals, Generation(p)
      PROVE  TypeOK'
  <2>1. Taken(p) \in 0..Live /\ Taken(p) \in Nat
    BY <1>0 DEF Taken, Request
  <2>2. PICK ph \in Phase :
           request' = [request EXCEPT ![p].phase = ph, ![p].generation = Taken(p)]
    BY <1>3 DEF Generation, Phase
  <2>3. request' \in [Proposals -> Request]
    BY <2>1, <2>2, <1>0 DEF Request
  <2>4. \A q \in Proposals : request'[q].generation <= Live
    BY <2>1, <2>2, <1>0 DEF Request
  <2>5. QED
    BY <1>3, <2>3, <2>4 DEF Generation, Live
<1>4. ASSUME NEW p \in Proposals, Upload(p) \/ UploadUnanswered(p)
      PROVE  TypeOK'
  <2>1. Updated(p) \in Documents
    BY AppendEntries DEF Updated, Request
  <2>2. versions' = Append(versions, Updated(p))
    BY <1>4 DEF Upload, UploadUnanswered
  <2>3. versions' \in Seq(Documents) /\ Live' = Live + 1
    BY <2>1, <2>2, NewVersion
  <2>4. request' \in [Proposals -> Request]
        /\ \A q \in Proposals : request'[q].generation = request[q].generation
    BY <1>4, StepTypes DEF Upload, UploadUnanswered, Phase
  <2>5. handle' \in [Instances -> 0..Live']
    BY <1>4, <2>3, <1>0 DEF Upload, UploadUnanswered
  <2>6. \A q \in Proposals : request'[q].generation <= Live'
    BY <2>3, <2>4, <1>0 DEF Request
  <2>7. listed' \in [Instances -> 0..Live']
    BY <1>4, <2>3, <1>0 DEF Upload, UploadUnanswered
  <2>8. QED
    BY <2>3, <2>4, <2>5, <2>6, <2>7
<1>5. ASSUME NEW p \in Proposals, UploadRefused(p) \/ Fail(p)
      PROVE  TypeOK'
  BY <1>5, StepTypes DEF UploadRefused, Fail, Phase, Live
<1>6. ASSUME NEW i \in Instances, List(i)
      PROVE  TypeOK'
  <2>1. Version(i) \in 0..Live
    BY <1>0 DEF Version
  <2>2. QED
    BY <1>6, <2>1 DEF List, Download, Live
<1>7. ASSUME NEW i \in Instances, Restart(i)
      PROVE  TypeOK'
  <2>1. request' \in [Proposals -> Request]
    BY <1>7 DEF Restart, Request, Phase
  <2>2. \A q \in Proposals : request'[q].generation = request[q].generation
    BY <1>7 DEF Restart, Request
  <2>3. QED
    BY <1>7, <2>1, <2>2, <1>0 DEF Restart, Live
<1>8. CASE UNCHANGED vars
  BY <1>8 DEF vars, Live
<1>9. QED
  BY <1>1, <1>2, <1>3, <1>4, <1>5, <1>6, <1>7, <1>8 DEF Next

LEMMA InitType == Init => TypeOK
<1>1. SUFFICES ASSUME Init PROVE TypeOK
  OBVIOUS
<1>2. request \in [Proposals -> Request]
  BY <1>1, StoreAssumption DEF Init, Request, Phase, Documents
<1>3. \A p \in Proposals : request[p].generation = 0
  BY <1>1 DEF Init
<1>4. QED
  BY <1>1, <1>2, <1>3 DEF Init, TypeOK, Live, Documents

\* The state of the store and of its requests is well typed.
THEOREM TypeCorrect == Spec => []TypeOK
BY InitType, TypeStep, PTL DEF Spec
-----------------------------------------------------------------------------
(* What a step leaves alone.                                               *)

\* No step changes where a request is served.
LEMMA AtStays ==
    ASSUME TypeOK, [Next]_vars
    PROVE  \A q \in Proposals : request'[q].at = request[q].at
<1>0. request \in [Proposals -> Request]
  BY DEF TypeOK
<1>1. ASSUME NEW p \in Proposals, NEW phase, Goto(p, phase)
      PROVE  \A q \in Proposals : request'[q].at = request[q].at
  BY <1>0, <1>1 DEF Goto, Request
<1>2. ASSUME NEW p \in Proposals, Conflict(p)
      PROVE  \A q \in Proposals : request'[q].at = request[q].at
  <2>1. PICK phase, attempt :
           request' = [request EXCEPT ![p].phase = phase, ![p].attempt = attempt]
    BY <1>2 DEF Conflict
  <2>2. QED
    BY <1>0, <2>1 DEF Request
<1>3. ASSUME NEW p \in Proposals, Read(p) \/ Generation(p)
      PROVE  \A q \in Proposals : request'[q].at = request[q].at
  BY <1>0, <1>3 DEF Read, Generation, Request
<1>4. ASSUME NEW i \in Instances, List(i) \/ Restart(i)
      PROVE  \A q \in Proposals : request'[q].at = request[q].at
  BY <1>0, <1>4 DEF List, Restart, Request
<1>5. ASSUME NEW p \in Proposals, Begin(p) \/ Upload(p) \/ Fail(p)
      PROVE  \A q \in Proposals : request'[q].at = request[q].at
  <2>1. PICK phase : Goto(p, phase)
    BY <1>5 DEF Begin, Upload, Fail
  <2>2. QED
    BY <2>1, <1>1
<1>6. ASSUME NEW p \in Proposals, UploadUnanswered(p) \/ UploadRefused(p)
      PROVE  \A q \in Proposals : request'[q].at = request[q].at
  <2>1. Conflict(p) \/ Goto(p, "failed")
    BY <1>6 DEF UploadUnanswered, UploadRefused
  <2>2. QED
    BY <2>1, <1>1, <1>2
<1>7. QED
  BY <1>3, <1>4, <1>5, <1>6 DEF Next, vars

\* Then sets of proposals compare as they did.
LEMMA SiblingsStay ==
    ASSUME \A q \in Proposals : request'[q].at = request[q].at
    PROVE  \A p \in Proposals : Siblings(p)' = Siblings(p)
BY DEF Siblings

\* Without an upload the registry and its history are as they were.
LEMMA SameVersions ==
    ASSUME versions' = versions
    PROVE  /\ Live' = Live
           /\ \A g : Document(g)' = Document(g)
           /\ Stored' = Stored
           /\ Ever' = Ever
BY DEF Live, Document, Stored, Ever

\* The history of the registry with one creation more.
LEMMA EverGrows ==
    ASSUME versions \in Seq(Documents), NEW d \in Documents,
           versions' = Append(versions, d)
    PROVE  Stored' = Entries(d) /\ Ever' = Ever \cup Entries(d)
<1>1. /\ Live \in Nat /\ Live' = Live + 1
      /\ \A g \in 0..Live : Document(g)' = Document(g)
      /\ \A g : g = Live + 1 => Document(g)' = d
  BY NewVersion
<1>2. PICK l : l = Live'
  OBVIOUS
<1>3. Document(l)' = d
  BY <1>1, <1>2
<1>4. Stored' = Entries(d)
  BY <1>2, <1>3 DEF Stored
<1>5. Ever' = UNION {Entries(Document(g)') : g \in 0..(Live + 1)}
  BY <1>1 DEF Ever, Entries
<1>6. ASSUME NEW x \in Ever' PROVE x \in Ever \cup Entries(d)
  <2>1. PICK g \in 0..(Live + 1) : x \in Entries(Document(g)')
    BY <1>5, <1>6
  <2>2. CASE g = Live + 1
    BY <1>1, <2>1, <2>2
  <2>3. CASE g # Live + 1
    BY <1>1, <2>1, <2>3 DEF Ever
  <2>4. QED
    BY <2>2, <2>3
<1>7. ASSUME NEW x \in Ever \cup Entries(d) PROVE x \in Ever'
  <2>1. CASE x \in Ever
    <3>1. PICK g \in 0..Live : x \in Entries(Document(g))
      BY <2>1 DEF Ever
    <3>2. g \in 0..(Live + 1) /\ x \in Entries(Document(g)')
      BY <1>1, <3>1
    <3>3. QED
      BY <1>5, <3>2
  <2>2. CASE x \in Entries(d)
    <3>1. l \in 0..(Live + 1) /\ x \in Entries(Document(l)')
      BY <1>1, <1>2, <1>3, <2>2
    <3>2. QED
      BY <1>5, <3>1
  <2>3. QED
    BY <1>7, <2>1, <2>2
<1>8. QED
  BY <1>4, <1>6, <1>7

\* A version is part of the history.
LEMMA VersionIsKnown ==
    ASSUME NEW g \in 0..Live
    PROVE  Entries(Document(g)) \subseteq Ever
BY DEF Ever

-----------------------------------------------------------------------------
(* The inductive invariant.                                                *)

\* A step that leaves versions, handles and listings alone, and after which p
\* is not between download and upload.
LEMMA EndStep ==
    ASSUME TypeOK, Inv, NEW p \in Proposals,
           \A q \in Proposals : request'[q].at = request[q].at,
           UNCHANGED <<versions, handle, listed>>,
           \A q \in Proposals : q # p => request'[q] = request[q],
           request'[p].phase \in {"new", "download", "failed"}
    PROVE  Inv'
<1>1. /\ Live' = Live /\ Stored' = Stored /\ Ever' = Ever
      /\ \A g : Document(g)' = Document(g)
  BY SameVersions
<1>2. \A q \in Proposals : Siblings(q)' = Siblings(q)
  BY SiblingsStay
<1>3. WritesOnce'
  BY DEF Inv, WritesOnce, Registered
<1>4. VersionsOnce'
  BY <1>1 DEF Inv, VersionsOnce
<1>5. TakenBefore'
  BY DEF Inv, TakenBefore, Taken
<1>6. ReadIsCurrent'
  BY <1>1, <1>2 DEF Inv, ReadIsCurrent, Taken, Matches, SameButSiblings
<1>7. KnownIsRegistered'
  BY <1>1 DEF Inv, KnownIsRegistered, Told
<1>8. ListedStays'
  BY <1>1 DEF Inv, ListedStays, Version
<1>9. QED
  BY <1>3, <1>4, <1>5, <1>6, <1>7, <1>8 DEF Inv

\* A download through a handle leaves it at what it would download, so that a
\* handle that knows a generation keeps it.
LEMMA DownloadFacts ==
    ASSUME TypeOK, NEW i \in Instances, Download(i), versions' = versions
    PROVE  /\ Version(i) \in 0..Live
           /\ \A j \in Instances : Version(j)' = Version(j)
           /\ \A j \in Instances : handle[j] > 0 => handle'[j] = handle[j]
           /\ \A j \in Instances : handle'[j] >= handle[j]
           /\ handle'[i] = Version(i)
<1>1. Live \in Nat /\ Live' = Live
  BY DEF TypeOK, Live
<1>2. QED
  BY <1>1 DEF TypeOK, Download, Version

\* A download for a creation keeps the invariant.
LEMMA ReadStep ==
    ASSUME TypeOK, Inv, NEW p \in Proposals, Read(p),
           \A q \in Proposals : request'[q].at = request[q].at
    PROVE  Inv'
<1> DEFINE i == request[p].at
           d == Document(Version(i))
<1>0. i \in Instances /\ Live \in Nat /\ versions \in Seq(Documents)
  BY DEF TypeOK, Request, Live
<1>1. /\ Live' = Live /\ Stored' = Stored /\ Ever' = Ever
      /\ \A g : Document(g)' = Document(g)
  BY SameVersions DEF Read
<1>2. \A q \in Proposals : Siblings(q)' = Siblings(q)
  BY SiblingsStay
<1>3. /\ Version(i) \in 0..Live
      /\ \A j \in Instances : Version(j)' = Version(j)
      /\ \A j \in Instances : handle[j] > 0 => handle'[j] = handle[j]
      /\ \A j \in Instances : handle'[j] >= handle[j]
      /\ handle'[i] = Version(i)
  BY <1>0, DownloadFacts DEF Read
<1>4. \A q \in Proposals : q # p => request'[q] = request[q]
  BY DEF Read, TypeOK
<1>5. /\ request'[p].phase = IF Version(i) = 0 THEN "upload" ELSE "generation"
      /\ request'[p].document = d
      /\ request'[p].generation = 0
      /\ request[p].phase = "download"
  BY DEF Read, TypeOK, Request
<1>6. /\ Once(d) /\ Entries(d) \subseteq Ever
      /\ Version(i) = 0 => d = <<>>
      /\ Version(i) = Live => Entries(d) = Stored
  <2>1. Once(d)
    BY <1>3 DEF Inv, VersionsOnce
  <2>2. Entries(d) \subseteq Ever
    BY <1>3, VersionIsKnown
  <2>3. Version(i) = 0 => d = <<>>
    BY DEF Document
  <2>4. Version(i) = Live => Entries(d) = Stored
    BY DEF Stored
  <2>5. QED
    BY <2>1, <2>2, <2>3, <2>4
<1> HIDE DEF d
<1>7. WritesOnce'
  <2>1. Version(i) = 0 => p \notin Entries(d)
    BY <1>6 DEF Entries
  <2>2. QED
    BY <1>4, <1>5, <1>6, <2>1 DEF Inv, WritesOnce, Registered
<1>8. VersionsOnce'
  BY <1>1 DEF Inv, VersionsOnce
<1>9. \A q \in Proposals : request[q].phase = "generation" =>
          handle[request[q].at] > 0 /\ handle'[request[q].at] = handle[request[q].at]
  BY <1>3 DEF Inv, TakenBefore, Taken, TypeOK, Request
<1>10. TakenBefore'
  <2>1. SUFFICES ASSUME NEW q \in Proposals
                 PROVE  /\ request'[q].phase = "generation" => handle'[request'[q].at] > 0
                        /\ request'[q].phase = "upload" =>
                              /\ request'[q].generation <= handle'[request'[q].at]
                              /\ request'[q].generation = 0 =>
                                     request'[q].document = <<>>
    BY DEF TakenBefore, Taken
  <2>2. CASE q = p
    BY <1>0, <1>3, <1>5, <1>6, <2>2 DEF TypeOK
  <2>3. CASE q # p
    <3>1. request'[q] = request[q] /\ request[q].at \in Instances
          /\ request[q].generation \in Nat
      BY <1>4, <2>3 DEF TypeOK, Request
    <3>2. handle[request[q].at] \in Nat /\ handle'[request[q].at] \in Nat
      BY <1>0, <1>3, <3>1 DEF TypeOK, Read, Download
    <3>3. QED
      BY <1>3, <1>9, <3>1, <3>2 DEF Inv, TakenBefore, Taken
  <2>4. QED
    BY <2>2, <2>3
<1>11. ReadIsCurrent'
  <2>1. SUFFICES ASSUME NEW q \in Proposals,
                        \/ request'[q].phase = "generation" /\ handle'[request'[q].at] = Live
                        \/ request'[q].phase = "upload" /\ request'[q].generation = Live
                 PROVE  Entries(request'[q].document) \ Siblings(q) = Stored \ Siblings(q)
    BY <1>1, <1>2 DEF ReadIsCurrent, Taken, Matches, SameButSiblings
  <2>2. CASE q = p
    BY <1>3, <1>5, <1>6, <2>1, <2>2
  <2>3. CASE q # p
    BY <1>4, <1>9, <2>1, <2>3 DEF Inv, ReadIsCurrent, Taken, Matches, SameButSiblings
  <2>4. QED
    BY <2>2, <2>3
<1>12. KnownIsRegistered'
  <2>1. Told' = Told
    BY <1>4, <1>5 DEF Told
  <2>2. QED
    BY <1>1, <1>4, <1>5, <1>6, <2>1 DEF Inv, KnownIsRegistered
<1>13. ListedStays'
  BY <1>1, <1>3 DEF Inv, ListedStays, Read
<1>14. QED
  BY <1>7, <1>8, <1>10, <1>11, <1>12, <1>13 DEF Inv

\* Taking the generation keeps the invariant.
LEMMA GenerationStep ==
    ASSUME TypeOK, Inv, NEW p \in Proposals, Generation(p),
           \A q \in Proposals : request'[q].at = request[q].at
    PROVE  Inv'
<1>1. /\ Live' = Live /\ Stored' = Stored /\ Ever' = Ever
      /\ \A g : Document(g)' = Document(g)
  BY SameVersions DEF Generation
<1>2. \A q \in Proposals : Siblings(q)' = Siblings(q)
  BY SiblingsStay
<1>3. \A q \in Proposals : q # p => request'[q] = request[q]
  BY DEF Generation, TypeOK
<1>4. /\ request[p].phase = "generation"
      /\ request'[p].phase = IF Registered(p) THEN "created" ELSE "upload"
      /\ request'[p].document = request[p].document
      /\ request'[p].generation = Taken(p)
      /\ UNCHANGED <<handle, listed>>
  BY DEF Generation, TypeOK, Request
<1>5. Taken(p) \in Nat /\ Taken(p) > 0
  BY <1>4 DEF Inv, TakenBefore, Taken, TypeOK, Request, Live
<1>6. WritesOnce'
  BY <1>3, <1>4 DEF Inv, WritesOnce, Registered
<1>7. VersionsOnce'
  BY <1>1 DEF Inv, VersionsOnce
<1>8. TakenBefore'
  BY <1>3, <1>4, <1>5 DEF Inv, TakenBefore, Taken
<1>9. ReadIsCurrent'
  BY <1>1, <1>2, <1>3, <1>4 DEF Inv, ReadIsCurrent, Taken, Matches, SameButSiblings
<1>10. KnownIsRegistered'
  <2>1. Told' \subseteq Told \cup (IF Registered(p) THEN {p} ELSE {})
    BY <1>3, <1>4 DEF Told
  <2>2. Registered(p) => p \in Ever
    BY <1>4 DEF Inv, KnownIsRegistered, Registered
  <2>3. QED
    BY <1>1, <1>3, <1>4, <2>1, <2>2 DEF Inv, KnownIsRegistered
<1>11. ListedStays'
  BY <1>1, <1>4 DEF Inv, ListedStays, Version
<1>12. QED
  BY <1>6, <1>7, <1>8, <1>9, <1>10, <1>11 DEF Inv

\* What an upload that is accepted makes of the registry.
LEMMA UploadFacts ==
    ASSUME TypeOK, Inv, NEW p \in Proposals, Upload(p) \/ UploadUnanswered(p)
    PROVE  /\ Live \in Nat /\ Live' = Live + 1
           /\ \A g \in 0..Live : Document(g)' = Document(g)
           /\ \A g : g = Live + 1 => Document(g)' = Updated(p)
           /\ Once(Updated(p))
           /\ Stored' = Entries(request[p].document) \cup {p}
           /\ Ever' = Ever \cup {p}
           /\ Stored' \ Siblings(p) = Stored \ Siblings(p)
<1>1. /\ request[p].document \in Documents /\ request[p].phase = "upload" /\ Matches(p)
      /\ versions \in Seq(Documents) /\ versions' = Append(versions, Updated(p))
  BY DEF TypeOK, Request, Upload, UploadUnanswered
<1>2. /\ Updated(p) \in Documents
      /\ Entries(Updated(p)) = Entries(request[p].document) \cup {p}
  BY <1>1, AppendEntries DEF Updated
<1>3. Once(Updated(p))
  BY <1>1, AppendOnce DEF Updated, Inv, WritesOnce, Registered
<1>4. Stored' = Entries(Updated(p)) /\ Ever' = Ever \cup Entries(Updated(p))
  BY <1>1, <1>2, EverGrows
<1>5. Entries(request[p].document) \subseteq Ever
  BY <1>1 DEF Inv, KnownIsRegistered
<1>6. Entries(request[p].document) \ Siblings(p) = Stored \ Siblings(p)
  BY <1>1 DEF Inv, ReadIsCurrent, SameButSiblings
<1>7. p \in Siblings(p)
  BY DEF Siblings
<1>8. QED
  BY <1>1, <1>2, <1>3, <1>4, <1>5, <1>6, <1>7, NewVersion

\* An upload that goes through keeps the invariant, answered or not.
LEMMA UploadStep ==
    ASSUME TypeOK, Inv, NEW p \in Proposals, Upload(p) \/ UploadUnanswered(p),
           \A q \in Proposals : request'[q].at = request[q].at
    PROVE  Inv'
<1> DEFINE i == request[p].at
<1>1. /\ Live \in Nat /\ Live' = Live + 1
      /\ \A g \in 0..Live : Document(g)' = Document(g)
      /\ \A g : g = Live + 1 => Document(g)' = Updated(p)
      /\ Once(Updated(p))
      /\ Stored' = Entries(request[p].document) \cup {p}
      /\ Ever' = Ever \cup {p}
      /\ Stored' \ Siblings(p) = Stored \ Siblings(p)
  BY UploadFacts
<1>2. \A q \in Proposals : Siblings(q)' = Siblings(q)
  BY SiblingsStay
<1>3. /\ \A q \in Proposals : q # p => request'[q] = request[q]
      /\ request'[p].phase \in {"created", "failed", "download"}
      /\ request[p].phase = "upload" /\ Matches(p) /\ i \in Instances
      /\ listed' = listed
  BY DEF Upload, UploadUnanswered, Goto, Conflict, TypeOK, Request
<1>4. /\ \A q \in Proposals : request[q].at \in Instances /\ request[q].generation \in Nat
      /\ \A j \in Instances : handle[j] \in 0..Live
      /\ \A j \in Instances : j # i => handle'[j] = handle[j]
      /\ handle'[i] = handle[i] \/ handle'[i] = Live + 1
  BY DEF Upload, UploadUnanswered, TypeOK, Request
<1>5. WritesOnce'
  BY <1>3 DEF Inv, WritesOnce, Registered
<1>6. VersionsOnce'
  <2>1. SUFFICES ASSUME NEW g \in 0..(Live + 1) PROVE Once(Document(g)')
    BY <1>1 DEF VersionsOnce, Once
  <2>2. CASE g = Live + 1
    BY <1>1, <2>2
  <2>3. CASE g # Live + 1
    BY <1>1, <2>3 DEF Inv, VersionsOnce
  <2>4. QED
    BY <2>2, <2>3
<1>7. TakenBefore'
  <2>1. SUFFICES ASSUME NEW q \in Proposals, request'[q].phase \in {"generation", "upload"}
                 PROVE  /\ request'[q].phase = "generation" => handle'[request'[q].at] > 0
                        /\ request'[q].phase = "upload" =>
                              /\ request'[q].generation <= handle'[request'[q].at]
                              /\ request'[q].generation = 0 =>
                                     request'[q].document = <<>>
    BY DEF TakenBefore, Taken
  <2>2. q # p /\ request'[q] = request[q]
    BY <1>3, <2>1
  <2>3. handle'[request[q].at] >= handle[request[q].at]
    BY <1>1, <1>4
  <2>4. QED
    BY <1>1, <1>4, <2>1, <2>2, <2>3 DEF Inv, TakenBefore, Taken
<1>8. ReadIsCurrent'
  <2>1. SUFFICES ASSUME NEW q \in Proposals,
                        \/ /\ request'[q].phase = "generation"
                           /\ handle'[request'[q].at] = Live + 1
                        \/ /\ request'[q].phase = "upload"
                           /\ request'[q].generation = Live + 1
                 PROVE  Entries(request'[q].document) \ Siblings(q) = Stored' \ Siblings(q)
    BY <1>1, <1>2 DEF ReadIsCurrent, Taken, Matches, SameButSiblings
  <2>2. q # p /\ request'[q] = request[q]
    BY <1>3, <2>1
  <2>3. request[q].phase # "upload"
    BY <1>1, <1>4, <2>1, <2>2 DEF Inv, TakenBefore, Taken
  <2>4. /\ request[q].phase = "generation" /\ request[q].at = i
        /\ handle'[i] = Live + 1
    BY <1>1, <1>4, <2>1, <2>2, <2>3
  <2>5. handle[i] = Live
    BY <1>1, <1>3, <1>4 DEF Inv, TakenBefore, Taken, Matches
  <2>6. Entries(request[q].document) \ Siblings(q) = Stored \ Siblings(q)
    BY <2>4, <2>5 DEF Inv, ReadIsCurrent, Taken, SameButSiblings
  <2>7. Siblings(q) = Siblings(p)
    BY <2>4 DEF Siblings
  <2>8. QED
    BY <1>1, <2>2, <2>6, <2>7
<1>9. KnownIsRegistered'
  <2>1. Told' \subseteq Told \cup {p}
    BY <1>3 DEF Told
  <2>2. QED
    BY <1>1, <1>3, <2>1 DEF Inv, KnownIsRegistered
<1>10. ListedStays'
  BY <1>1, <1>3, <1>4 DEF Inv, ListedStays, Version, TypeOK
<1>11. QED
  BY <1>5, <1>6, <1>7, <1>8, <1>9, <1>10 DEF Inv

\* A listing keeps the invariant.
LEMMA ListStep ==
    ASSUME TypeOK, Inv, NEW i \in Instances, List(i),
           \A q \in Proposals : request'[q].at = request[q].at
    PROVE  Inv'
<1>1. /\ Live' = Live /\ Stored' = Stored /\ Ever' = Ever
      /\ \A g : Document(g)' = Document(g)
  BY SameVersions DEF List
<1>2. \A q \in Proposals : Siblings(q)' = Siblings(q)
  BY SiblingsStay
<1>3. /\ Version(i) \in 0..Live
      /\ \A j \in Instances : Version(j)' = Version(j)
      /\ \A j \in Instances : handle[j] > 0 => handle'[j] = handle[j]
      /\ \A j \in Instances : handle'[j] >= handle[j]
  BY DownloadFacts DEF List
<1>4. request' = request
  BY DEF List
<1>5. \A q \in Proposals : request[q].phase = "generation" =>
          handle[request[q].at] > 0 /\ handle'[request[q].at] = handle[request[q].at]
  BY <1>3 DEF Inv, TakenBefore, Taken, TypeOK, Request
<1>6. WritesOnce' /\ VersionsOnce' /\ KnownIsRegistered'
  BY <1>1, <1>4
     DEF Inv, WritesOnce, Registered, VersionsOnce, KnownIsRegistered, Told
<1>7. TakenBefore'
  <2>1. \A j \in Instances : handle[j] \in Nat /\ handle'[j] \in Nat
    BY <1>3 DEF TypeOK, List, Download, Live
  <2>2. \A q \in Proposals : request[q].at \in Instances /\ request[q].generation \in Nat
    BY DEF TypeOK, Request
  <2>3. QED
    BY <1>3, <1>4, <1>5, <2>1, <2>2 DEF Inv, TakenBefore, Taken
<1>8. ReadIsCurrent'
  BY <1>1, <1>2, <1>4, <1>5 DEF Inv, ReadIsCurrent, Taken, Matches, SameButSiblings
<1>9. ListedStays'
  <2>1. listed' = [listed EXCEPT ![i] = Version(i)]
    BY DEF List
  <2>2. QED
    BY <1>3, <2>1 DEF Inv, ListedStays, TypeOK, Live
<1>10. QED
  BY <1>6, <1>7, <1>8, <1>9 DEF Inv

\* The replacement of an instance keeps the invariant.
LEMMA RestartStep ==
    ASSUME TypeOK, Inv, NEW i \in Instances, Restart(i),
           \A q \in Proposals : request'[q].at = request[q].at
    PROVE  Inv'
<1>1. /\ Live' = Live /\ Stored' = Stored /\ Ever' = Ever
      /\ \A g : Document(g)' = Document(g)
  BY SameVersions DEF Restart
<1>2. \A q \in Proposals : Siblings(q)' = Siblings(q)
  BY SiblingsStay
<1>3. \A q \in Proposals : request'[q] = request[q] \/ request'[q].phase = "failed"
  BY DEF Restart, TypeOK, Request
<1>4. \A q \in Proposals : request'[q].phase \in {"generation", "upload"} =>
          /\ request'[q] = request[q]
          /\ handle'[request[q].at] = handle[request[q].at]
  BY <1>3 DEF Restart, Serving, Active, TypeOK, Request
<1>5. WritesOnce' /\ VersionsOnce'
  BY <1>1, <1>4 DEF Inv, WritesOnce, Registered, VersionsOnce
<1>6. TakenBefore'
  BY <1>4 DEF Inv, TakenBefore, Taken
<1>7. ReadIsCurrent'
  BY <1>1, <1>2, <1>4 DEF Inv, ReadIsCurrent, Taken, Matches, SameButSiblings
<1>8. KnownIsRegistered'
  <2>1. Told' \subseteq Told
    BY <1>3 DEF Told
  <2>2. QED
    BY <1>1, <1>4, <2>1 DEF Inv, KnownIsRegistered
<1>9. ListedStays'
  BY <1>1 DEF Inv, ListedStays, Version, Restart, TypeOK, Live
<1>10. QED
  BY <1>5, <1>6, <1>7, <1>8, <1>9 DEF Inv

\* Every step keeps the invariant.
LEMMA InvStep ==
    ASSUME TypeOK, Inv, [Next]_vars
    PROVE  Inv'
<1>0. \A q \in Proposals : request'[q].at = request[q].at
  BY AtStays
<1>1. ASSUME NEW p \in Proposals, Begin(p) \/ UploadRefused(p) \/ Fail(p)
      PROVE  Inv'
  <2>1. /\ \A q \in Proposals : q # p => request'[q] = request[q]
        /\ request'[p].phase \in {"new", "download", "failed"}
        /\ UNCHANGED <<versions, handle, listed>>
    BY <1>1 DEF Begin, UploadRefused, Fail, Goto, Conflict, TypeOK, Request
  <2>2. QED
    BY <1>0, <2>1, EndStep
<1>2. CASE UNCHANGED vars
  <2>1. /\ Live' = Live /\ Stored' = Stored /\ Ever' = Ever
        /\ \A g : Document(g)' = Document(g)
    BY <1>2, SameVersions DEF vars
  <2>2. \A q \in Proposals : Siblings(q)' = Siblings(q)
    BY <1>0, SiblingsStay
  <2>3. WritesOnce' /\ VersionsOnce' /\ TakenBefore'
    BY <1>2, <2>1 DEF vars, Inv, WritesOnce, Registered, VersionsOnce, TakenBefore, Taken
  <2>4. ReadIsCurrent'
    BY <1>2, <2>1, <2>2
       DEF vars, Inv, ReadIsCurrent, Taken, Matches, SameButSiblings
  <2>5. KnownIsRegistered' /\ ListedStays'
    BY <1>2, <2>1 DEF vars, Inv, KnownIsRegistered, Told, ListedStays, Version
  <2>6. QED
    BY <2>3, <2>4, <2>5 DEF Inv
<1>3. QED
  BY <1>0, <1>1, <1>2, ReadStep, GenerationStep, UploadStep, ListStep, RestartStep
     DEF Next

\* It holds at first.
LEMMA InitInv == Init => Inv
<1>1. SUFFICES ASSUME Init PROVE Inv
  OBVIOUS
<1>2. /\ Live = 0 /\ Document(0) = <<>>
      /\ \A p \in Proposals : request[p].phase = "new"
      /\ \A i \in Instances : listed[i] = 0 /\ handle[i] = 0
  BY <1>1 DEF Init, Live, Document
<1>3. Once(Document(0))
  BY <1>2 DEF Once
<1>4. QED
  BY <1>2, <1>3 DEF Inv, WritesOnce, VersionsOnce, TakenBefore, ReadIsCurrent,
                    KnownIsRegistered, Told, ListedStays, Version

\* Whatever requests share a handle, what an accepted upload writes differs
\* from the live version in proposals of its own instance only, and repeats
\* none.
THEOREM Invariance == Spec => []Inv
<1>1. TypeOK /\ Inv /\ [Next]_vars => Inv'
  BY InvStep
<1>2. QED
  BY <1>1, InitInv, TypeCorrect, PTL DEF Spec

\* No proposal is registered twice.
THEOREM NothingTwice == Spec => []ListedOnce
<1>1. TypeOK /\ Inv => ListedOnce
  BY DEF TypeOK, Live, Inv, VersionsOnce, ListedOnce
<1>2. QED
  BY <1>1, Invariance, TypeCorrect, PTL

-----------------------------------------------------------------------------
(* What is overwritten.                                                    *)

\* A proposal that a step takes from the registry goes by the upload of a
\* request of its own instance, which read another version than it names.
LEMMA OverwritingStep ==
    ASSUME TypeOK, Inv, [Next]_vars, NEW q \in Stored \ Stored'
    PROVE  \E p \in Proposals : /\ request[p].phase = "upload"
                                /\ request'[p] # request[p]
                                /\ Mixed(p)
                                /\ request[p].at = request[q].at
<1>1. versions' # versions
  BY SameVersions
<1>2. PICK p \in Proposals : Upload(p) \/ UploadUnanswered(p)
  BY <1>1 DEF Next, Begin, Read, Generation, UploadRefused, Fail, List, Restart, vars
<1>3. /\ Stored' = Entries(request[p].document) \cup {p}
      /\ Stored' \ Siblings(p) = Stored \ Siblings(p)
  BY <1>2, UploadFacts
<1>4. q \in Siblings(p)
  BY <1>3
<1>5. request[p].phase = "upload" /\ Matches(p) /\ request'[p].phase # "upload"
  BY <1>2 DEF Upload, UploadUnanswered, Goto, Conflict, TypeOK, Request
<1>6. Mixed(p)
  BY <1>3, <1>5 DEF Mixed, Matches, Stored
<1>7. QED
  BY <1>4, <1>5, <1>6 DEF Siblings

\* Whatever requests race, a proposal is overwritten only by a request of the
\* instance that registered it, and only if the handle was moved between that
\* request's download and the reading of the generation.
THEOREM OverwritingStaysAtHome == Spec => OverwrittenAtHome
<1>1. TypeOK /\ Inv /\ [Next]_vars =>
         [\A q \in Stored \ Stored' :
             \E p \in Proposals : /\ request[p].phase = "upload"
                                  /\ request'[p] # request[p]
                                  /\ Mixed(p)
                                  /\ request[p].at = request[q].at]_vars
  BY OverwritingStep
<1>2. QED
  BY <1>1, Invariance, TypeCorrect, PTL DEF OverwrittenAtHome, Spec

-----------------------------------------------------------------------------
(* The store implements the registry.                                      *)

\* The history and the homes of the registry, as the store has them.
History == [g \in 1..Live |-> Entries(Document(g))]
Homes   == [p \in Proposals |-> request[p].at]

\* The registry's operators on them.
LEMMA RegistryNow ==
    ASSUME TypeOK
    PROVE  /\ History \in Seq(SUBSET Proposals) /\ Registry!Now = Live
           /\ \A g \in 0..Live : Registry!RegisteredAt(g) = Entries(Document(g))
           /\ Registry!Ever = Ever
           /\ \A p \in Proposals : Registry!Of(Homes[p]) = Siblings(p)
<1>1. Live \in Nat
  BY DEF TypeOK, Live
<1>2. \A g \in 0..Live : Entries(Document(g)) \in SUBSET Proposals
  BY DocumentType DEF TypeOK, Entries, Documents
<1>3. History \in Seq(SUBSET Proposals) /\ Len(History) = Live
  BY <1>1, <1>2 DEF History
<1>4. Registry!Now = Live
  BY <1>3 DEF Registry!Now, History
<1>5. \A g \in 0..Live : Registry!RegisteredAt(g) = Entries(Document(g))
  BY <1>1 DEF Registry!RegisteredAt, Document, Entries
<1>6. Registry!Ever = Ever
  BY <1>4, <1>5 DEF Registry!Ever, Ever
<1>7. \A p \in Proposals : Registry!Of(Homes[p]) = Siblings(p)
  BY DEF Registry!Of, Siblings, Homes
<1>8. QED
  BY <1>3, <1>4, <1>5, <1>6, <1>7

\* A sequence one longer, element by element.
LEMMA AppendIs ==
    ASSUME NEW S, NEW s \in Seq(S), NEW e \in S
    PROVE  Append(s, e) = [g \in 1..(Len(s) + 1) |->
                              IF g = Len(s) + 1 THEN e ELSE s[g]]
<1>1. /\ Append(s, e) \in Seq(S)
      /\ Len(Append(s, e)) = Len(s) + 1
      /\ \A i \in 1..Len(s) : Append(s, e)[i] = s[i]
      /\ Append(s, e)[Len(s) + 1] = e
  OBVIOUS
<1> DEFINE t == Append(s, e)
<1>2. /\ DOMAIN t = 1..(Len(s) + 1)
      /\ t = [g \in DOMAIN t |-> t[g]]
  <2> HIDE DEF t
  <2>1. t \in Seq(S)
    BY <1>1 DEF t
  <2>2. DOMAIN t = 1..Len(t) /\ t \in [1..Len(t) -> S]
    BY <2>1
  <2>3. Len(t) = Len(s) + 1
    BY <1>1 DEF t
  <2>4. t = [g \in 1..Len(t) |-> t[g]]
    BY <2>2, Zenon
  <2>5. QED
    BY <2>2, <2>3, <2>4
<1>3. \A g \in 1..(Len(s) + 1) : t[g] = IF g = Len(s) + 1 THEN e ELSE s[g]
  BY <1>1
<1> HIDE DEF t
<1>4. t = [g \in 1..(Len(s) + 1) |-> IF g = Len(s) + 1 THEN e ELSE s[g]]
  BY <1>2, <1>3, Zenon
<1>5. QED
  BY <1>4 DEF t

\* An upload appends to the history.
LEMMA HistoryGrows ==
    ASSUME TypeOK, Inv, NEW p \in Proposals, Upload(p) \/ UploadUnanswered(p)
    PROVE  History' = Append(History, Stored')
<1>1. /\ Live \in Nat /\ Live' = Live + 1
      /\ \A g \in 0..Live : Document(g)' = Document(g)
  BY UploadFacts
<1>2. PICK l : l = Live'
  OBVIOUS
<1>3. Stored' = Entries(Document(l)')
  BY <1>2 DEF Stored, Entries
<1>4. History' = [g \in 1..(Live + 1) |-> Entries(Document(g)')]
  BY <1>1 DEF History, Entries
<1>5. History \in Seq(SUBSET Proposals) /\ Len(History) = Live
  BY RegistryNow DEF Registry!Now, History
<1>6. Stored' \in SUBSET Proposals
  <2>1. request[p].document \in Documents
    BY DEF TypeOK, Request
  <2>2. Stored' = Entries(request[p].document) \cup {p}
    BY UploadFacts
  <2>3. QED
    BY <2>1, <2>2 DEF Entries, Documents
<1>7. Append(History, Stored') = [g \in 1..(Live + 1) |->
                                      IF g = Live + 1 THEN Stored' ELSE History[g]]
  <2>1. Append(History, Stored') =
          [g \in 1..(Len(History) + 1) |->
              IF g = Len(History) + 1 THEN Stored' ELSE History[g]]
    BY <1>5, <1>6, AppendIs
  <2>2. QED
    BY <2>1, <1>5
<1>8. \A g \in 1..(Live + 1) :
         Entries(Document(g)') = IF g = Live + 1 THEN Stored' ELSE History[g]
  <2>1. SUFFICES ASSUME NEW g \in 1..(Live + 1)
                 PROVE  Entries(Document(g)') = IF g = Live + 1 THEN Stored' ELSE History[g]
    OBVIOUS
  <2>2. CASE g = Live + 1
    BY <1>1, <1>2, <1>3, <2>2
  <2>3. CASE g # Live + 1
    BY <1>1, <2>3 DEF History
  <2>4. QED
    BY <2>2, <2>3
<1>9. QED
  BY <1>4, <1>7, <1>8

\* Every step of the store is one of the registry, or changes nothing of it.
LEMMA RegistryStep ==
    ASSUME TypeOK, Inv, Inv', [Next]_vars
    PROVE  [Registry!Next]_<<History, Homes, Told, listed>>
<1>0. Live \in Nat /\ Homes' = Homes
  BY AtStays DEF TypeOK, Live, Homes
<1>1. versions' = versions => History' = History
  BY SameVersions DEF History, Entries
<1>2. ASSUME NEW p \in Proposals, Upload(p) \/ UploadUnanswered(p)
      PROVE  Registry!Register(p)
  <2>1. /\ Stored' = Entries(request[p].document) \cup {p}
        /\ Stored' \ Siblings(p) = Stored \ Siblings(p)
        /\ History' = Append(History, Stored')
    BY <1>2, UploadFacts, HistoryGrows
  <2>2. /\ Registry!Ever = Ever /\ Registry!Of(Homes[p]) = Siblings(p)
        /\ Registry!RegisteredAt(Registry!Now) = Stored
    BY <1>0, RegistryNow DEF Stored
  <2>3. Entries(request[p].document) \subseteq Ever
    BY <1>2 DEF Upload, UploadUnanswered, Inv, KnownIsRegistered
  <2> DEFINE own == Entries(request[p].document) \cap Siblings(p)
  <2>4. own \in SUBSET (Ever \cap Siblings(p))
    BY <2>3
  <2>5. p \in Siblings(p)
    BY DEF Siblings
  <2>6. Stored' = (Stored \ Siblings(p)) \cup own \cup {p}
    BY <2>1, <2>5
  <2> HIDE DEF own
  <2>7. Told' \in {Told, Told \cup {p}} /\ listed' = listed
    <3>1. /\ \A q \in Proposals : q # p => request'[q] = request[q]
          /\ request[p].phase = "upload" /\ listed' = listed
      BY <1>2 DEF Upload, UploadUnanswered, Goto, Conflict, TypeOK
    <3>2. QED
      BY <3>1 DEF Told
  <2>8. QED
    BY <1>0, <2>1, <2>2, <2>4, <2>6, <2>7 DEF Registry!Register, History, Homes
<1>3. ASSUME NEW p \in Proposals, Generation(p)
      PROVE  Registry!Answer(p) \/ UNCHANGED <<History, Homes, Told, listed>>
  <2>1. CASE Registered(p)
    <3>1. Told' = Told \cup {p}
      BY <1>3, <2>1 DEF Generation, Told, TypeOK, Request
    <3>2. p \in Ever
      BY <1>3, <2>1 DEF Generation, Registered, Inv, KnownIsRegistered
    <3>3. QED
      BY <1>0, <1>1, <1>3, <3>1, <3>2, RegistryNow
         DEF Generation, Registry!Answer, History, Homes
  <2>2. CASE ~Registered(p)
    BY <1>0, <1>1, <1>3, <2>2 DEF Generation, Told, TypeOK, Request
  <2>3. QED
    BY <2>1, <2>2
<1>4. ASSUME NEW p \in Proposals, Begin(p) \/ Read(p) \/ UploadRefused(p) \/ Fail(p)
      PROVE  UNCHANGED <<History, Homes, Told, listed>>
  <2>1. CASE Begin(p) \/ Fail(p)
    BY <1>0, <1>1, <2>1 DEF Begin, Fail, Goto, Told, TypeOK, Request, Active
  <2>2. CASE Read(p)
    BY <1>0, <1>1, <2>2 DEF Read, Told, TypeOK, Request
  <2>3. CASE UploadRefused(p)
    BY <1>0, <1>1, <2>3 DEF UploadRefused, Conflict, Told, TypeOK, Request
  <2>4. QED
    BY <1>4, <2>1, <2>2, <2>3
<1>5. ASSUME NEW i \in Instances, List(i)
      PROVE  Registry!Show(i)
  <2>1. Version(i) \in 0..Live /\ listed[i] <= Version(i) /\ listed[i] \in 0..Live
    BY <1>0 DEF Version, TypeOK, Inv, ListedStays
  <2>2. Version(i) \in listed[i]..Registry!Now
    BY <1>0, <2>1, RegistryNow
  <2>3. Told' = Told /\ History' = History
    BY <1>1, <1>5 DEF List, Told
  <2>4. QED
    BY <1>0, <1>5, <2>2, <2>3 DEF List, Registry!Show, History, Homes
<1>6. ASSUME NEW i \in Instances, Restart(i)
      PROVE  UNCHANGED <<History, Homes, Told, listed>>
  BY <1>0, <1>1, <1>6 DEF Restart, Told, Serving, Active, TypeOK, Request
<1>7. CASE UNCHANGED vars
  BY <1>0, <1>1, <1>7 DEF vars, Told
<1>8. QED
  BY <1>2, <1>3, <1>4, <1>5, <1>6, <1>7 DEF Next, Registry!Next

\* The store implements the registry: an instance can overwrite its own
\* proposals and no other's, and what it shows only advances.
THEOREM Implementation == Spec => ImplementsRegistry
<1>1. Init => Registry!Init
  <2>1. SUFFICES ASSUME Init PROVE Registry!Init
    OBVIOUS
  <2>2. Live = 0 /\ History = <<>> /\ Told = {}
    BY <2>1 DEF Init, Live, History, Told
  <2>3. Homes \in [Proposals -> Instances]
    BY <2>1 DEF Init, Homes
  <2>4. QED
    BY <2>1, <2>2, <2>3 DEF Init, Registry!Init, History, Homes
<1>2. TypeOK /\ Inv /\ Inv' /\ [Next]_vars => [Registry!Next]_<<History, Homes, Told, listed>>
  BY RegistryStep
<1>3. TypeOK /\ Inv /\ Inv' /\ [Next]_vars => [Registry!Next]_Registry!vars
  BY <1>2 DEF Registry!vars, History, Homes
<1>4. QED
  BY <1>1, <1>3, Invariance, TypeCorrect, PTL DEF Spec, ImplementsRegistry, Registry!Spec
=============================================================================
