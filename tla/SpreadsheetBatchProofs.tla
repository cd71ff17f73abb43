----------------------- MODULE SpreadsheetBatchProofs -----------------------
(***************************************************************************)
(* Theorems about SpreadsheetBatch, for every spreadsheet, every length of *)
(* requests, and every number of edits of other users.                     *)
(***************************************************************************)
EXTENDS SpreadsheetBatch, Induction, FiniteSetTheorems, TLAPS

\* Which operations are of values, and which have a range, goes by their kind.
USE DEF IsValue, HasRange

\* The inductive invariant.
Inv == Progress /\ AppliedInOrder /\ DoneIsComplete

LEMMA InitInv == Init => Inv
<1>1. SUFFICES ASSUME Init PROVE Inv
  OBVIOUS
<1>2. PICK n \in 0..MaxLength : batch \in [1..n -> Operation]
  BY <1>1 DEF Init
<1>3. batch \in Seq(Operation) /\ Len(batch) \in Nat
  BY <1>2, BatchAssumption
<1>4. QED
  BY <1>1, <1>3 DEF Init, Request, Phase, Inv, Progress, AppliedInOrder, DoneIsComplete

\* A step that changes no more of the request than its phase.
LEMMA PhaseStep ==
    ASSUME Inv, UNCHANGED <<batch, effects>>,
           request' \in Request,
           request'.pending = request.pending, request'.next = request.next,
           request.phase \in {"inspect", "apply"} \/ request' = request,
           request'.phase = "done" /\ request' # request =>
               Len(effects) = Len(batch)
    PROVE  Inv'
BY DEF Request, Inv, Progress, AppliedInOrder, DoneIsComplete

LEMMA QueueStep == ASSUME Inv, Queue PROVE Inv'
<1> USE DEF Request, Phase, Inv, Progress, AppliedInOrder, DoneIsComplete
<1>1. /\ request.phase = "apply" /\ request'.phase = "apply"
      /\ request'.next = request.next + 1
      /\ request'.pending = Append(request.pending, request.next)
      /\ UNCHANGED <<batch, effects>>
  BY DEF Queue
<1>2. request.next <= Len(batch)
  BY DEF Queue, AtEnd
<1>3. request.next \in Nat /\ Len(effects) \in Nat /\ Len(request.pending) \in Nat
  OBVIOUS
<1>4. /\ request'.pending \in Seq(Nat)
      /\ Len(request'.pending) = Len(request.pending) + 1
  BY <1>1, <1>3
<1>5. ASSUME NEW j \in DOMAIN request'.pending
      PROVE  request'.pending[j] = Len(effects) + j
  <2>1. CASE j \in DOMAIN request.pending
    BY <1>1, <1>3, <2>1
  <2>2. CASE j = Len(request.pending) + 1
    BY <1>1, <1>3, <2>2
  <2>3. QED
    BY <1>3, <1>4, <2>1, <2>2
<1>6. request' \in Request
  <2>1. request \in Request /\ request.next + 1 \in Nat
    BY <1>3
  <2>2. request' = [request EXCEPT !.next = request.next + 1,
                                   !.pending = Append(request.pending, request.next)]
    BY DEF Queue
  <2> HIDE DEF Inv, Progress
  <2>3. QED
    BY <1>1, <1>4, <2>1, <2>2
<1>7. /\ request'.next \in 1..(Len(batch) + 1)
      /\ request'.next = Len(effects) + Len(request'.pending) + 1
  BY <1>1, <1>2, <1>3, <1>4
<1>8. Progress'
  BY <1>1, <1>5, <1>6, <1>7
<1>9. QED
  BY <1>1, <1>8

\* After an operation or a flush that was carried out.
LEMMA AppliedStep ==
    ASSUME Inv, request.phase = "apply", batch' = batch,
           NEW more \in Seq(Nat), effects' = effects \o more,
           Len(effects) + Len(more) <= Len(batch),
           \A j \in DOMAIN more : more[j] = Len(effects) + j
    PROVE  /\ AppliedInOrder'
           /\ effects' \in Seq(Nat)
           /\ Len(effects') = Len(effects) + Len(more)
<1> USE DEF Request, Phase, Inv, Progress, AppliedInOrder
<1>1. effects' \in Seq(Nat) /\ Len(effects') = Len(effects) + Len(more)
  OBVIOUS
<1>2. ASSUME NEW k \in DOMAIN effects'
      PROVE  effects'[k] = k
  <2>1. CASE k \in DOMAIN effects
    BY <2>1
  <2>2. CASE k \in (Len(effects) + 1)..(Len(effects) + Len(more))
    <3>1. k - Len(effects) \in DOMAIN more
      BY <2>2
    <3>2. effects'[k] = more[k - Len(effects)]
      BY <2>2
    <3>3. QED
      BY <2>2, <3>1, <3>2
  <2>3. QED
    BY <1>1, <2>1, <2>2
<1>3. QED
  BY <1>1, <1>2

LEMMA FlushStep == ASSUME Inv, Flush PROVE Inv'
<1> USE DEF Request, Phase, Inv, Progress
<1>1. /\ request.phase = "apply" /\ batch' = batch
      /\ effects' = effects \o request.pending
  BY DEF Flush
<1>2. /\ request.next = Len(effects) + Len(request.pending) + 1
      /\ Len(effects) + Len(request.pending) <= Len(batch)
      /\ \A j \in DOMAIN request.pending : request.pending[j] = Len(effects) + j
  BY <1>1
<1>3. /\ AppliedInOrder'
      /\ effects' \in Seq(Nat)
      /\ Len(effects') = Len(effects) + Len(request.pending)
  BY <1>1, <1>2, AppliedStep
<1>4. \/ /\ request'.phase = "apply" /\ request'.pending = <<>>
         /\ request'.next = request.next
      \/ /\ request'.phase = "failed" /\ request'.pending = request.pending
         /\ request'.next = request.next
  BY <1>1 DEF Flush, Flushed, Goto
<1>5. Progress'
  <2>1. request' \in Request
    <3>1. request \in Request
      OBVIOUS
    <3>2. \/ request' = [request EXCEPT !.pending = <<>>]
          \/ request' = [request EXCEPT !.phase = "failed"]
      BY DEF Flush, Flushed, Goto
    <3> HIDE DEF Inv, Progress
    <3>3. CASE request' = [request EXCEPT !.pending = <<>>]
      <4>1. <<>> \in Seq(Nat)
        OBVIOUS
      <4> DEFINE none == <<>>
      <4>2. none \in Seq(Nat) /\ request' = [request EXCEPT !.pending = none]
        BY <4>1, <3>3
      <4> HIDE DEF none
      <4>3. QED
        BY <3>1, <4>2
    <3>4. CASE request' = [request EXCEPT !.phase = "failed"]
      BY <3>1, <3>4
    <3>5. QED
      BY <3>2, <3>3, <3>4
  <2>2. request'.next \in 1..(Len(batch') + 1)
    BY <1>1, <1>4
  <2>3. request'.phase = "apply" => request'.next = Len(effects') + Len(request'.pending) + 1
    <3>1. Len(effects) \in Nat /\ Len(request.pending) \in Nat
      OBVIOUS
    <3>2. request'.phase = "apply" => Len(request'.pending) = 0
      BY <1>4
    <3>3. request'.phase = "apply" => request'.next = request.next
      BY <1>4
    <3>4. request.next = Len(effects) + Len(request.pending) + 1
      BY <1>2
    <3>5. Len(effects') = Len(effects) + Len(request.pending)
      BY <1>3
    <3>6. SUFFICES ASSUME request'.phase = "apply"
                   PROVE  request'.next = Len(effects') + Len(request'.pending) + 1
      OBVIOUS
    <3>7. Len(request'.pending) = 0 /\ request'.next = request.next
      BY <3>2, <3>3, <3>6
    <3> HIDE DEF Inv, Progress, Request
    <3>8. QED
      BY <3>1, <3>4, <3>5, <3>7
  <2>4. request'.phase = "apply" =>
          \A j \in DOMAIN request'.pending : request'.pending[j] = Len(effects') + j
    BY <1>4
  <2>5. QED
    BY <1>1, <1>3, <1>4, <2>1, <2>2, <2>3, <2>4
<1>6. DoneIsComplete'
  BY <1>4 DEF DoneIsComplete
<1>7. QED
  BY <1>3, <1>5, <1>6

LEMMA WriteStep == ASSUME Inv, WriteValues PROVE Inv'
<1> USE DEF Request, Phase, Inv, Progress
<1> DEFINE more == <<request.next>>
<1>1. /\ request.phase = "apply" /\ batch' = batch
      /\ request.next <= Len(batch)
      /\ request.pending = <<>>
  BY DEF WriteValues, AtValue, Due
<1>2. more \in Seq(Nat) /\ Len(more) = 1 /\ more[1] = request.next
  OBVIOUS
<1>3. effects' = effects \o more
  BY DEF WriteValues
<1>4. request.next = Len(effects) + 1
  BY <1>1
<1>5. /\ Len(effects) + Len(more) <= Len(batch)
      /\ \A j \in DOMAIN more : more[j] = Len(effects) + j
  BY <1>1, <1>2, <1>4
<1> HIDE DEF more
<1>6. /\ AppliedInOrder'
      /\ effects' \in Seq(Nat)
      /\ Len(effects') = Len(effects) + 1
  BY <1>1, <1>2, <1>3, <1>5, AppliedStep
<1>7. \/ /\ request'.phase = "apply" /\ request'.next = request.next + 1
         /\ request'.pending = request.pending
      \/ /\ request'.phase = "failed" /\ request'.next = request.next
         /\ request'.pending = request.pending
  BY <1>1 DEF WriteValues, Goto
<1>8. Progress'
  <2>1. request' \in Request
    <3>1. request \in Request /\ request.next + 1 \in Nat
      OBVIOUS
    <3>2. \/ request' = [request EXCEPT !.next = request.next + 1]
          \/ request' = [request EXCEPT !.phase = "failed"]
      BY DEF WriteValues, Goto
    <3> HIDE DEF Inv, Progress
    <3>3. QED
      BY <3>1, <3>2
  <2>2. request'.next \in 1..(Len(batch') + 1)
    BY <1>1, <1>7
  <2>3. request'.phase = "apply" => request'.next = Len(effects') + Len(request'.pending) + 1
    <3>1. Len(effects) \in Nat
      OBVIOUS
    <3>2. request'.phase = "apply" =>
             Len(request'.pending) = 0 /\ request'.next = request.next + 1
      BY <1>1, <1>7
    <3>3. Len(effects') = Len(effects) + 1
      BY <1>6
    <3> HIDE DEF Inv, Progress, Request
    <3>4. SUFFICES ASSUME request'.phase = "apply"
                   PROVE  request'.next = Len(effects') + Len(request'.pending) + 1
      OBVIOUS
    <3>5. Len(request'.pending) = 0 /\ request'.next = request.next + 1
      BY <3>2, <3>4
    <3>6. QED
      BY <1>4, <3>1, <3>3, <3>5
  <2>4. request'.phase = "apply" =>
          \A j \in DOMAIN request'.pending : request'.pending[j] = Len(effects') + j
    BY <1>1, <1>7
  <2>5. QED
    BY <1>1, <1>6, <1>7, <2>1, <2>2, <2>3, <2>4
<1>9. DoneIsComplete'
  BY <1>7 DEF DoneIsComplete
<1>10. QED
  BY <1>6, <1>8, <1>9

LEMMA InvStep == ASSUME Inv, [Next]_vars PROVE Inv'
<1> USE DEF Request, Phase
<1>0. request \in Request
  BY DEF Inv, Progress
<1>1. CASE Inspect
  BY <1>0, <1>1, PhaseStep DEF Inspect, Goto
<1>2. CASE FlushRefused \/ ValuesRefused \/ Fail
  BY <1>0, <1>2, PhaseStep DEF FlushRefused, ValuesRefused, Fail, Goto
<1>3. CASE Finish
  <2>1. Len(effects) = Len(batch)
    BY <1>0, <1>3 DEF Finish, AtEnd, Due, Inv, Progress
  <2>2. QED
    BY <1>0, <1>3, <2>1, PhaseStep DEF Finish, Goto
<1>4. CASE UNCHANGED <<batch, effects, request>>
  BY <1>0, <1>4, PhaseStep
<1>5. QED
  BY <1>1, <1>2, <1>3, <1>4, QueueStep, FlushStep, WriteStep DEF Next, OtherEdit, vars

\* However a request mixes values and structure, and wherever it stops, what
\* was applied is the beginning of what was asked for, in its order.
THEOREM InOrder == Spec => []AppliedInOrder
<1>1. Inv => AppliedInOrder
  BY DEF Inv
<1>2. QED
  BY <1>1, InitInv, InvStep, PTL DEF Spec

\* A request that reports success has applied all of it.
THEOREM Complete == Spec => []DoneIsComplete
<1>1. Inv => DoneIsComplete
  BY DEF Inv
<1>2. QED
  BY <1>1, InitInv, InvStep, PTL DEF Spec

-----------------------------------------------------------------------------
(* The spreadsheet while a request is applied.                             *)

StructuralOperation == Operation \ ValueOperation

\* The ids that no sheet has had.
Fresh(b) == {s \in Sheets : b.title[s] = "unused"}

DistinctTitles(b) ==
    \A s, u \in Present(b) : b.title[s] = b.title[u] => s = u

\* One of the first m operations is of these kinds and names s.
Before(m, s, kinds) ==
    \E j \in 1..m : batch[j].kind \in kinds /\ batch[j].ref = s

\* After m operations, a title is the sheet's own or one they gave.
Owned(m, b) ==
    \A s \in Present(b) :
        \/ b.title[s] = seen.title[s]
        \/ \E j \in 1..m : /\ batch[j].kind \in {"create", "rename"}
                           /\ batch[j].title = b.title[s]

\* After m operations, the sheets that were seen are as they were but for
\* what the operations did to them, and the plan has all titles in use.
Tracks(m, b) ==
    /\ DistinctTitles(b)
    /\ InUse(b) \subseteq Plan(seen, batch)[m].titles
    /\ \A s \in Present(seen) :
         /\ b.title[s] # "unused"
         /\ ~Before(m, s, {"delete"}) => s \in Present(b)
         /\ ~Before(m, s, {"delete", "rename"}) => b.title[s] = seen.title[s]
         /\ ~Before(m, s, {"remove"}) => b.rows[s] >= seen.rows[s]

\* Validation looks at everything the operations of the request depend on.
Foreseen == ~\E k \in DOMAIN batch : Tolerated(k)

Shapes ==
    /\ book \in Book /\ seen \in Book /\ DistinctTitles(seen)
    /\ reached \in Seq(Sheets) /\ Len(reached) = Len(effects)
    /\ edits \in 0..MaxEdits /\ Len(batch) <= MaxLength

\* There are ids for the sheets that can still be created.
Supply ==
    Cardinality(Fresh(book)) + Len(effects) + edits >= MaxLength + MaxEdits

\* What a request relies on while it is applied.
Ready ==
    /\ Valid(seen, batch)
    /\ edits = 0 => Owned(Len(effects), book)
    /\ edits = 0 /\ Foreseen => Tracks(Len(effects), book)

\* Only structural operations wait for a flush.
OnlyStructure ==
    \A j \in DOMAIN request.pending : ~IsValue(batch[request.pending[j]])

Course ==
    /\ request.phase = "inspect" => seen = book /\ effects = <<>>
    /\ request.phase = "apply" => Ready
    /\ request.phase \in {"inspect", "apply"} => OnlyStructure

\* The second inductive invariant, on top of the first.
SheetInv == Shapes /\ Supply /\ Course /\ ReachesUnlessRenamed /\ RefusalsExplained

-----------------------------------------------------------------------------
(* Operations and what the provider makes of them.                         *)

\* What an operation has besides its kind.
LEMMA Fields ==
    ASSUME NEW op \in Operation
    PROVE  /\ op.kind \in {"values", "append", "insert", "remove",
                           "create", "rename", "delete", "format"}
           /\ op.kind # "create" => op.ref \in Refs /\ op.ref \in Sheets
           /\ op.kind \in {"create", "rename"} => op.title \in Titles
           /\ op.kind \in {"insert", "remove"} => op.at \in Nat /\ op.count \in Nat
           /\ IsValue(op) <=> op \in ValueOperation
           /\ HasRange(op) => op.last \in Nat
           /\ op.kind \in {"insert", "remove"} <=> op \in RowOperation
           /\ NeedsRows(op) <=> op.kind \in {"insert", "remove"} \/ HasRange(op)
<1>1. Refs \subseteq Sheets /\ Rows \in Nat
  BY BatchAssumption
<1>2. CASE op \in ValueOperation
  BY <1>1, <1>2 DEF ValueOperation, RowOperation, NeedsRows
<1>3. CASE op \in RowOperation
  BY <1>1, <1>3 DEF ValueOperation, RowOperation, NeedsRows
<1>4. CASE op \in [kind : {"create"}, title : Titles]
  BY <1>1, <1>4 DEF ValueOperation, RowOperation, NeedsRows
<1>5. CASE op \in [kind : {"rename"}, ref : Refs, title : Titles]
  BY <1>1, <1>5 DEF ValueOperation, RowOperation, NeedsRows
<1>6. CASE op \in [kind : {"delete"}, ref : Refs]
  BY <1>1, <1>6 DEF ValueOperation, RowOperation, NeedsRows
<1>7. CASE op \in [kind : {"format"}, ref : Refs, last : 1..(Rows + 1)]
  BY <1>1, <1>7 DEF ValueOperation, RowOperation, NeedsRows
<1>8. QED
  BY <1>2, <1>3, <1>4, <1>5, <1>6, <1>7 DEF Operation, NeedsRows

\* A structural operation is one that is not of values.
LEMMA StructuralKinds ==
    /\ \A op \in StructuralOperation :
         /\ op \in Operation
         /\ op.kind \in {"insert", "remove", "create", "rename", "delete", "format"}
    /\ \A op \in Operation : ~IsValue(op) => op \in StructuralOperation
BY Fields DEF StructuralOperation

\* The words for a sheet that is not there are no titles.
LEMMA Words ==
    /\ "unused" \notin Titles /\ "deleted" \notin Titles
    /\ \A b \in Book : \A s \in Sheets :
         /\ b.title[s] \in Titles \cup {"unused", "deleted"}
         /\ b.rows[s] \in Nat
BY BatchAssumption DEF Book

\* What a change does to the titles and to the rows.
LEMMA ChangeOf ==
    ASSUME NEW b \in Book, NEW op \in StructuralOperation, Accepts(b, op)
    PROVE  /\ Changed(b, op) \in Book
           /\ op.kind = "create" =>
                /\ Changed(b, op).title = [b.title EXCEPT ![NewSheet(b)] = op.title]
                /\ Changed(b, op).rows = [b.rows EXCEPT ![NewSheet(b)] = Rows]
           /\ op.kind = "rename" =>
                /\ Changed(b, op).title = [b.title EXCEPT ![op.ref] = op.title]
                /\ Changed(b, op).rows = b.rows
           /\ op.kind = "delete" =>
                /\ Changed(b, op).title = [b.title EXCEPT ![op.ref] = "deleted"]
                /\ Changed(b, op).rows = b.rows
           /\ op.kind \in {"insert", "remove"} =>
                /\ Changed(b, op).title = b.title
                /\ \A s \in Sheets : s # op.ref => Changed(b, op).rows[s] = b.rows[s]
                /\ op.kind = "insert" => Changed(b, op).rows[op.ref] >= b.rows[op.ref]
           /\ op.kind = "format" => Changed(b, op) = b
<1>1. op \in Operation /\ op.kind \in {"insert", "remove", "create", "rename", "delete", "format"}
  BY StructuralKinds
<1>2. Rows \in Nat
  BY BatchAssumption
<1>3. /\ b = [title |-> b.title, rows |-> b.rows]
      /\ b.title \in [Sheets -> Titles \cup {"unused", "deleted"}]
      /\ b.rows \in [Sheets -> Nat]
  BY DEF Book
<1>4. CASE op.kind = "create"
  <2>1. Changed(b, op) = [b EXCEPT !.title[NewSheet(b)] = op.title,
                                   !.rows[NewSheet(b)] = Rows]
    BY <1>4 DEF Changed
  <2> DEFINE n == NewSheet(b)
  <2> HIDE DEF n
  <2>2. Changed(b, op) = [title |-> [b.title EXCEPT ![n] = op.title],
                          rows  |-> [b.rows EXCEPT ![n] = Rows]]
    BY <2>1, <1>3 DEF n
  <2>3. op.title \in Titles
    BY <1>1, <1>4, Fields
  <2>4. /\ [b.title EXCEPT ![n] = op.title] \in [Sheets -> Titles \cup {"unused", "deleted"}]
        /\ [b.rows EXCEPT ![n] = Rows] \in [Sheets -> Nat]
    BY <1>2, <1>3, <2>3
  <2>5. QED
    BY <1>4, <2>2, <2>4 DEF Book, n
<1>5. CASE op.kind = "rename"
  <2>1. Changed(b, op) = [b EXCEPT !.title[op.ref] = op.title]
    BY <1>5 DEF Changed
  <2>2. Changed(b, op) = [title |-> [b.title EXCEPT ![op.ref] = op.title], rows |-> b.rows]
    BY <2>1, <1>3
  <2>3. op.title \in Titles
    BY <1>1, <1>5, Fields
  <2> DEFINE t == [b.title EXCEPT ![op.ref] = op.title]
  <2>4. t \in [Sheets -> Titles \cup {"unused", "deleted"}]
    BY <1>3, <2>3
  <2> HIDE DEF t
  <2>5. Changed(b, op) = [title |-> t, rows |-> b.rows]
    BY <2>2 DEF t
  <2>6. Changed(b, op) \in Book
    BY <1>3, <2>4, <2>5 DEF Book
  <2>7. Changed(b, op).title = t /\ Changed(b, op).rows = b.rows
    BY <2>5
  <2>8. QED
    BY <1>5, <2>6, <2>7 DEF t
<1>6. CASE op.kind = "delete"
  <2>1. Changed(b, op) = [b EXCEPT !.title[op.ref] = "deleted"]
    BY <1>6 DEF Changed
  <2>2. Changed(b, op) = [title |-> [b.title EXCEPT ![op.ref] = "deleted"], rows |-> b.rows]
    BY <2>1, <1>3
  <2> DEFINE t == [b.title EXCEPT ![op.ref] = "deleted"]
  <2>3. t \in [Sheets -> Titles \cup {"unused", "deleted"}]
    BY <1>3
  <2> HIDE DEF t
  <2>4. Changed(b, op) = [title |-> t, rows |-> b.rows]
    BY <2>2 DEF t
  <2>5. Changed(b, op) \in Book
    BY <1>3, <2>3, <2>4 DEF Book
  <2>6. Changed(b, op).title = t /\ Changed(b, op).rows = b.rows
    BY <2>4
  <2>7. QED
    BY <1>6, <2>5, <2>6 DEF t
<1>7. CASE op.kind \in {"insert", "remove"}
  <2>1. op.ref \in Sheets /\ op.count \in Nat /\ b.rows[op.ref] \in Nat
    BY <1>1, <1>3, <1>7, Fields
  <2> DEFINE n == IF op.kind = "insert" THEN b.rows[op.ref] + op.count
                                        ELSE b.rows[op.ref] - op.count
  <2>2. n \in Nat /\ (op.kind = "insert" => n >= b.rows[op.ref])
    <3>1. op.kind = "remove" => op.count < b.rows[op.ref]
      BY DEF Accepts
    <3>2. QED
      BY <2>1, <3>1, <1>7
  <2>3. Changed(b, op) = [b EXCEPT !.rows[op.ref] = n]
    BY <1>7 DEF Changed
  <2> HIDE DEF n
  <2>4. Changed(b, op) = [title |-> b.title, rows |-> [b.rows EXCEPT ![op.ref] = n]]
    BY <2>3, <1>3
  <2> DEFINE r == [b.rows EXCEPT ![op.ref] = n]
  <2>5. /\ r \in [Sheets -> Nat] /\ \A s \in Sheets : s # op.ref => r[s] = b.rows[s]
        /\ op.kind = "insert" => r[op.ref] >= b.rows[op.ref]
    BY <1>3, <2>1, <2>2
  <2> HIDE DEF r
  <2>6. Changed(b, op) = [title |-> b.title, rows |-> r]
    BY <2>4 DEF r
  <2>7. Changed(b, op) \in Book
    BY <1>3, <2>5, <2>6 DEF Book
  <2>8. Changed(b, op).title = b.title /\ Changed(b, op).rows = r
    BY <2>6
  <2>9. QED
    BY <1>7, <2>5, <2>7, <2>8
<1>8. CASE op.kind = "format"
  BY <1>8 DEF Changed
<1>9. QED
  BY <1>1, <1>4, <1>5, <1>6, <1>7, <1>8

\* What a flush comes to, before the ids are known to suffice.
Result == [ok : BOOLEAN, book : Book,
           reached : Seq(Sheets \cup {NewSheet(b) : b \in Book})]

Untouched(b) == [ok |-> TRUE, book |-> b, reached |-> <<>>]

LEMMA CarriedResult ==
    ASSUME NEW r \in Result, NEW op \in StructuralOperation
    PROVE  Carried(r, op) \in Result
<1>1. CASE ~r.ok \/ ~Accepts(r.book, op)
  <2>1. Carried(r, op) = [r EXCEPT !.ok = FALSE]
    BY <1>1 DEF Carried
  <2>2. QED
    BY <2>1 DEF Result
<1>2. CASE r.ok /\ Accepts(r.book, op)
  <2>1. r.book \in Book /\ Changed(r.book, op) \in Book
    <3>1. r.book \in Book
      BY DEF Result
    <3>2. QED
      BY <1>2, <3>1, ChangeOf
  <2>2. Reached(r.book, op) \in Sheets \cup {NewSheet(b) : b \in Book}
    <3>1. op.kind # "create" => op.ref \in Sheets
      BY Fields, StructuralKinds
    <3>2. QED
      BY <2>1, <3>1 DEF Reached
  <2>3. r.reached \in Seq(Sheets \cup {NewSheet(b) : b \in Book})
    BY DEF Result
  <2>4. Append(r.reached, Reached(r.book, op)) \in Seq(Sheets \cup {NewSheet(b) : b \in Book})
    BY <2>2, <2>3
  <2>5. Carried(r, op) = [ok |-> TRUE, book |-> Changed(r.book, op),
                          reached |-> Append(r.reached, Reached(r.book, op))]
    BY <1>2 DEF Carried
  <2>6. QED
    BY <2>1, <2>4, <2>5 DEF Result
<1>3. QED
  BY <1>1, <1>2

\* u is the course of a flush.
Flushes(u, b, ops) ==
    /\ u \in [0..Len(ops) -> Result]
    /\ u[0] = Untouched(b)
    /\ \A i \in 1..Len(ops) : u[i] = Carried(u[i - 1], ops[i])

\* After is where a flush ends.
LEMMA AfterIsTheEnd ==
    ASSUME NEW b \in Book, NEW ops \in Seq(StructuralOperation)
    PROVE  \E u : Flushes(u, b, ops) /\ After(b, ops) = u[Len(ops)]
<1> DEFINE N == Len(ops)
           start == Untouched(b)
           G == [i \in 1..N |-> [r \in Result |-> Carried(r, ops[i])]]
           IsUpTo(u) == u = [i \in 0..N |-> IF i = 0 THEN [ok |-> TRUE, book |-> b, reached |-> <<>>]
                                            ELSE Carried(u[i - 1], ops[i])]
           upto == CHOOSE u : IsUpTo(u)
<1>1. N \in Nat /\ \A i \in 1..N : ops[i] \in StructuralOperation
  OBVIOUS
<1>2. start \in Result
  <2>1. <<>> \in Seq(Sheets \cup {NewSheet(c) : c \in Book})
    OBVIOUS
  <2>2. QED
    BY <2>1 DEF Untouched, Result
<1>3. After(b, ops) = upto[N]
  BY DEF After
<1> HIDE DEF N
<1>4. G \in [1..N -> [Result -> Result]]
  BY <1>1, CarriedResult
<1>5. PICK u \in [0..N -> Result] : Recursive(u, N, start, G)
  <2> HIDE DEF G, start
  <2>1. QED
    BY <1>1, <1>2, <1>4, Recursion
<1>6. IsUpTo(u)
  <2>1. \A i \in 1..N : i - 1 \in 0..N
    BY <1>1
  <2>2. \A i \in 1..N : u[i - 1] \in Result
    BY <2>1
  <2>3. \A i \in 1..N : u[i] = Carried(u[i - 1], ops[i])
    BY <1>5, <2>2 DEF Recursive
  <2>4. u[0] = [ok |-> TRUE, book |-> b, reached |-> <<>>]
    BY <1>5 DEF Recursive, Untouched
  <2>5. QED
    BY <2>3, <2>4
<1>7. IsUpTo(upto)
  BY <1>6
<1> HIDE DEF upto, G
<1>8. upto[0] = start /\ \A i \in 1..N : upto[i] = Carried(upto[i - 1], ops[i])
  <2>1. 0 \in 0..N /\ \A i \in 1..N : i \in 0..N /\ i # 0
    BY <1>1
  <2>2. QED
    BY <1>7, <2>1 DEF Untouched
<1>9. \A i \in 0..N : upto[i] \in Result
  <2>1. upto[0] \in Result /\ \A i \in 1..N : upto[i - 1] \in Result => upto[i] \in Result
    BY <1>1, <1>2, <1>8, CarriedResult
  <2>2. QED
    BY <1>1, <2>1, RecursionStays
<1>10. upto \in [0..N -> Result]
  BY <1>7, <1>9
<1>11. QED
  BY <1>3, <1>8, <1>10 DEF Flushes, N

\* u is the course of the validation's plan.
Planning == [titles : SUBSET Titles, deleted : SUBSET Sheets]

LEMMA PlannedPlan ==
    ASSUME NEW p \in Planning, NEW read \in Book, NEW op \in Operation
    PROVE  Planned(p, read, op) \in Planning
<1>1. /\ op.kind # "create" => op.ref \in Sheets
      /\ op.kind \in {"create", "rename"} => op.title \in Titles
  BY Fields
<1>2. p.titles \subseteq Titles /\ p.deleted \subseteq Sheets
  BY DEF Planning
<1>3. CASE op.kind = "create"
  BY <1>1, <1>2, <1>3 DEF Planned, Planning
<1>4. CASE op.kind = "rename"
  <2>1. OtherTitles(p, read, op) \cup {op.title} \subseteq Titles
    BY <1>1, <1>2, <1>4 DEF OtherTitles
  <2>2. Planned(p, read, op) = [p EXCEPT !.titles = OtherTitles(p, read, op) \cup {op.title}]
    BY <1>4 DEF Planned
  <2>3. QED
    BY <2>1, <2>2 DEF Planning
<1>5. CASE op.kind = "delete"
  BY <1>1, <1>2, <1>5 DEF Planned, Planning
<1>6. CASE op.kind \notin {"create", "rename", "delete"}
  BY <1>6 DEF Planned
<1>7. QED
  BY <1>3, <1>4, <1>5, <1>6

\* The plan goes on from operation to operation.
LEMMA PlanGoesOn ==
    ASSUME NEW read \in Book, NEW ops \in Seq(Operation)
    PROVE  /\ Plan(read, ops)[0] = [titles |-> InUse(read), deleted |-> {}]
           /\ \A i \in 1..Len(ops) :
                Plan(read, ops)[i] = Planned(Plan(read, ops)[i - 1], read, ops[i])
           /\ \A i \in 0..Len(ops) : Plan(read, ops)[i] \in Planning
<1> DEFINE N == Len(ops)
           start == [titles |-> InUse(read), deleted |-> {}]
           G == [i \in 1..N |-> [p \in Planning |-> Planned(p, read, ops[i])]]
           IsUpTo(u) == u = [i \in 0..N |-> IF i = 0 THEN [titles |-> InUse(read), deleted |-> {}]
                                            ELSE Planned(u[i - 1], read, ops[i])]
           upto == CHOOSE u : IsUpTo(u)
<1>1. N \in Nat /\ \A i \in 1..N : ops[i] \in Operation
  OBVIOUS
<1>2. start \in Planning
  BY DEF Planning, InUse, Present
<1>3. Plan(read, ops) = upto
  BY DEF Plan
<1> HIDE DEF N
<1>4. G \in [1..N -> [Planning -> Planning]]
  BY <1>1, PlannedPlan
<1>5. PICK u \in [0..N -> Planning] : Recursive(u, N, start, G)
  <2> HIDE DEF G, start
  <2>1. QED
    BY <1>1, <1>2, <1>4, Recursion
<1>6. IsUpTo(u)
  <2>1. \A i \in 1..N : i - 1 \in 0..N
    BY <1>1
  <2>2. \A i \in 1..N : u[i - 1] \in Planning
    BY <2>1
  <2>3. \A i \in 1..N : u[i] = Planned(u[i - 1], read, ops[i])
    BY <1>5, <2>2 DEF Recursive
  <2>4. u[0] = start
    BY <1>5 DEF Recursive
  <2>5. QED
    BY <2>3, <2>4
<1>7. IsUpTo(upto)
  BY <1>6
<1> HIDE DEF upto, G
<1>8. upto[0] = start /\ \A i \in 1..N : upto[i] = Planned(upto[i - 1], read, ops[i])
  <2>1. 0 \in 0..N /\ \A i \in 1..N : i \in 0..N /\ i # 0
    BY <1>1
  <2>2. QED
    BY <1>7, <2>1
<1>9. \A i \in 0..N : upto[i] \in Planning
  <2>1. upto[0] \in Planning /\ \A i \in 1..N : upto[i - 1] \in Planning => upto[i] \in Planning
    BY <1>1, <1>2, <1>8, PlannedPlan
  <2>2. QED
    BY <1>1, <2>1, RecursionStays
<1>10. QED
  BY <1>3, <1>8, <1>9 DEF N

-----------------------------------------------------------------------------
(* Ids for new sheets.                                                     *)

LEMMA FreshIsFinite ==
    ASSUME NEW b
    PROVE  IsFiniteSet(Fresh(b)) /\ Cardinality(Fresh(b)) \in Nat
<1>1. IsFiniteSet(Sheets) /\ Fresh(b) \in SUBSET Sheets
  BY BatchAssumption DEF Fresh
<1>2. IsFiniteSet(Fresh(b))
  BY <1>1, FS_Subset
<1>3. QED
  BY <1>2, FS_CardinalityType

\* While there is an id, a new sheet gets one that no sheet has had.
LEMMA NewSheetIsFresh ==
    ASSUME NEW b, Cardinality(Fresh(b)) >= 1
    PROVE  NewSheet(b) \in Sheets /\ b.title[NewSheet(b)] = "unused"
<1>1. Fresh(b) # {}
  <2>1. Cardinality({}) = 0
    BY FS_EmptySet
  <2>2. SUFFICES ASSUME Fresh(b) = {} PROVE FALSE
    OBVIOUS
  <2>3. QED
    BY <2>1, <2>2
<1>2. \E s \in Sheets : b.title[s] = "unused"
  BY <1>1 DEF Fresh
<1>3. QED
  BY <1>2 DEF NewSheet

\* A change takes at most one id.
LEMMA OneIdAtMost ==
    ASSUME NEW b \in Book, NEW op \in StructuralOperation, Accepts(b, op)
    PROVE  Cardinality(Fresh(Changed(b, op))) >= Cardinality(Fresh(b)) - 1
<1> DEFINE c == Changed(b, op)
           n == NewSheet(b)
<1>1. op.kind \in {"insert", "remove", "create", "rename", "delete", "format"}
  BY StructuralKinds
<1>2. b.title \in [Sheets -> Titles \cup {"unused", "deleted"}]
  BY DEF Book
<1>3. ASSUME NEW s \in Fresh(b), s # n
      PROVE  s \in Fresh(c)
  <2>1. s \in Sheets /\ b.title[s] = "unused"
    BY DEF Fresh
  <2>2. s \notin Present(b)
    BY <2>1, Words DEF Present
  <2>3. CASE op.kind = "create"
    <3>1. c.title = [b.title EXCEPT ![n] = op.title]
      BY <2>3, ChangeOf
    <3>2. c.title[s] = b.title[s]
      BY <1>2, <1>3, <2>1, <3>1
    <3>3. QED
      BY <2>1, <3>2 DEF Fresh
  <2>4. CASE op.kind \in {"rename", "delete"}
    <3>1. op.ref # s
      BY <2>2, <2>4 DEF Accepts
    <3>2. \/ c.title = [b.title EXCEPT ![op.ref] = op.title]
          \/ c.title = [b.title EXCEPT ![op.ref] = "deleted"]
      BY <2>4, ChangeOf
    <3>3. c.title[s] = b.title[s]
      BY <1>2, <2>1, <3>1, <3>2
    <3>4. QED
      BY <2>1, <3>3 DEF Fresh
  <2>5. CASE op.kind \in {"insert", "remove", "format"}
    <3>1. c.title = b.title
      BY <2>5, ChangeOf
    <3>2. QED
      BY <2>1, <3>1 DEF Fresh
  <2>6. QED
    BY <1>1, <2>3, <2>4, <2>5
<1>4. Fresh(b) \subseteq Fresh(c) \cup {n}
  BY <1>3
<1> HIDE DEF c, n
<1>5. IsFiniteSet(Fresh(c)) /\ Cardinality(Fresh(c)) \in Nat /\ Cardinality(Fresh(b)) \in Nat
  BY FreshIsFinite
<1>6. /\ IsFiniteSet(Fresh(c) \cup {n})
      /\ Cardinality(Fresh(c) \cup {n}) <= Cardinality(Fresh(c)) + 1
  <2> DEFINE F == Fresh(c)
  <2>1. IsFiniteSet(F) /\ Cardinality(F) \in Nat
    BY <1>5
  <2> HIDE DEF F
  <2>2. /\ IsFiniteSet(F \cup {n})
        /\ Cardinality(F \cup {n}) = IF n \in F THEN Cardinality(F) ELSE Cardinality(F) + 1
    BY <2>1, FS_AddElement
  <2>3. Cardinality(F \cup {n}) <= Cardinality(F) + 1
    BY <2>1, <2>2
  <2>4. QED
    BY <2>2, <2>3 DEF F
<1>7. Cardinality(Fresh(b)) <= Cardinality(Fresh(c) \cup {n})
  BY <1>4, <1>6, FS_Subset
<1>8. Cardinality(Fresh(c) \cup {n}) \in Nat
  BY <1>6, FS_CardinalityType
<1>9. QED
  BY <1>5, <1>6, <1>7, <1>8 DEF c

\* A flush takes no more ids than it has requests, and reaches sheets: those
\* that the requests name, but for new ones.
LEMMA FlushReaches ==
    ASSUME NEW b \in Book, NEW ops \in Seq(StructuralOperation),
           Cardinality(Fresh(b)) >= Len(ops), NEW u, Flushes(u, b, ops)
    PROVE  \A i \in 0..Len(ops) :
             /\ Cardinality(Fresh(u[i].book)) >= Cardinality(Fresh(b)) - i
             /\ u[i].reached \in Seq(Sheets)
             /\ u[i].ok => /\ Len(u[i].reached) = i
                           /\ \A j \in 1..i : HasRef(ops[j]) => u[i].reached[j] = ops[j].ref
<1> DEFINE N == Len(ops)
           Holds(i) == /\ Cardinality(Fresh(u[i].book)) >= Cardinality(Fresh(b)) - i
                       /\ u[i].reached \in Seq(Sheets)
                       /\ u[i].ok => /\ Len(u[i].reached) = i
                                     /\ \A j \in 1..i : HasRef(ops[j]) =>
                                                          u[i].reached[j] = ops[j].ref
           S == {i \in 0..N : Holds(i)}
<1>1. N \in Nat /\ Cardinality(Fresh(b)) \in Nat
  BY FreshIsFinite
<1>2. 0 \in S
  <2>1. u[0] = Untouched(b)
    BY DEF Flushes
  <2>2. u[0].book = b /\ u[0].reached = <<>>
    BY <2>1 DEF Untouched
  <2>3. u[0].reached \in Seq(Sheets) /\ Len(u[0].reached) = 0
    BY <2>2
  <2>4. Holds(0)
    BY <1>1, <2>2, <2>3
  <2>5. QED
    BY <1>1, <2>4
<1>3. ASSUME NEW i \in 1..N, i - 1 \in S
      PROVE  i \in S
  <2> DEFINE r == u[i - 1]
             op == ops[i]
  <2>1. u[i] = Carried(r, op) /\ r \in Result /\ op \in StructuralOperation
    BY DEF Flushes
  <2>2. Holds(i - 1)
    BY <1>3
  <2>3. Cardinality(Fresh(r.book)) \in Nat /\ i - 1 \in Nat /\ i - 1 < N
    BY <1>1, FreshIsFinite
  <2>4. CASE ~r.ok \/ ~Accepts(r.book, op)
    <3>1. u[i] = [r EXCEPT !.ok = FALSE]
      BY <2>1, <2>4 DEF Carried
    <3>2. u[i].ok = FALSE /\ u[i].book = r.book /\ u[i].reached = r.reached
      BY <2>1, <3>1 DEF Result
    <3>3. Cardinality(Fresh(u[i].book)) >= Cardinality(Fresh(b)) - i
      BY <1>1, <2>2, <2>3, <3>2
    <3>4. QED
      BY <2>2, <3>2, <3>3
  <2>5. CASE r.ok /\ Accepts(r.book, op)
    <3>1. u[i] = [ok |-> TRUE, book |-> Changed(r.book, op),
                  reached |-> Append(r.reached, Reached(r.book, op))]
      BY <2>1, <2>5 DEF Carried
    <3>2. r.book \in Book
      BY <2>1 DEF Result
    <3>3. Cardinality(Fresh(Changed(r.book, op))) >= Cardinality(Fresh(r.book)) - 1
      BY <2>1, <2>5, <3>2, OneIdAtMost
    <3>4. Cardinality(Fresh(Changed(r.book, op))) \in Nat
      BY FreshIsFinite
    <3>5. Cardinality(Fresh(u[i].book)) >= Cardinality(Fresh(b)) - i
      BY <1>1, <2>2, <2>3, <3>1, <3>3, <3>4
    <3>6. Reached(r.book, op) \in Sheets
      <4>1. Cardinality(Fresh(r.book)) >= 1
        BY <1>1, <2>2, <2>3
      <4>2. NewSheet(r.book) \in Sheets
        BY <4>1, NewSheetIsFresh
      <4>3. op.kind # "create" => op.ref \in Sheets
        BY <2>1, Fields, StructuralKinds
      <4>4. QED
        BY <4>2, <4>3 DEF Reached
    <3>7. r.reached \in Seq(Sheets) /\ Len(r.reached) = i - 1
      BY <2>2, <2>5
    <3>8. u[i].reached \in Seq(Sheets) /\ Len(u[i].reached) = i
      BY <3>1, <3>6, <3>7
    <3>9. ASSUME NEW j \in 1..i, HasRef(ops[j])
          PROVE  u[i].reached[j] = ops[j].ref
      <4>1. CASE j = i
        <5>1. u[i].reached[i] = Reached(r.book, op)
          BY <3>1, <3>6, <3>7
        <5>2. QED
          BY <3>9, <4>1, <5>1 DEF Reached, HasRef
      <4>2. CASE j \in 1..(i - 1)
        <5>1. u[i].reached[j] = r.reached[j]
          BY <3>1, <3>6, <3>7, <4>2
        <5>2. QED
          BY <2>2, <2>5, <3>9, <4>2, <5>1
      <4>3. QED
        BY <4>1, <4>2
    <3>10. QED
      BY <3>5, <3>8, <3>9
  <2>6. QED
    BY <2>4, <2>5
<1> HIDE DEF S
<1>4. 0..N \subseteq S
  BY <1>1, <1>2, <1>3, UpTo
<1>5. QED
  BY <1>4 DEF S

-----------------------------------------------------------------------------
(* Whose titles the sheets have.                                           *)

\* A change gives a sheet no title but the operation's.
LEMMA ChangeGivesItsTitle ==
    ASSUME NEW b \in Book, NEW op \in StructuralOperation, Accepts(b, op),
           NEW s \in Present(Changed(b, op))
    PROVE  \/ op.kind \in {"create", "rename"} /\ Changed(b, op).title[s] = op.title
           \/ s \in Present(b) /\ Changed(b, op).title[s] = b.title[s]
<1> DEFINE c == Changed(b, op)
<1>1. op.kind \in {"insert", "remove", "create", "rename", "delete", "format"}
  BY StructuralKinds
<1>2. b.title \in [Sheets -> Titles \cup {"unused", "deleted"}]
  BY DEF Book
<1>3. s \in Sheets /\ c.title[s] \in Titles
  BY DEF Present
<1>4. c.title[s] = b.title[s] => s \in Present(b)
  BY <1>3 DEF Present
<1>5. CASE op.kind = "create"
  <2>1. c.title = [b.title EXCEPT ![NewSheet(b)] = op.title]
    BY <1>5, ChangeOf
  <2>2. QED
    BY <1>2, <1>3, <1>4, <1>5, <2>1
<1>6. CASE op.kind = "rename"
  <2>1. c.title = [b.title EXCEPT ![op.ref] = op.title]
    BY <1>6, ChangeOf
  <2>2. QED
    BY <1>2, <1>3, <1>4, <1>6, <2>1
<1>7. CASE op.kind = "delete"
  <2>1. c.title = [b.title EXCEPT ![op.ref] = "deleted"]
    BY <1>7, ChangeOf
  <2>2. QED
    BY <1>2, <1>3, <1>4, <2>1, Words
<1>8. CASE op.kind \in {"insert", "remove", "format"}
  <2>1. c.title = b.title
    BY <1>8, ChangeOf
  <2>2. QED
    BY <1>4, <2>1
<1>9. QED
  BY <1>1, <1>5, <1>6, <1>7, <1>8

LEMMA OwnedLater ==
    ASSUME NEW m \in Nat, NEW b, Owned(m, b)
    PROVE  Owned(m + 1, b)
BY DEF Owned

LEMMA OwnedChanged ==
    ASSUME NEW m \in Nat, NEW b \in Book, Owned(m, b),
           batch[m + 1] \in StructuralOperation, Accepts(b, batch[m + 1])
    PROVE  Owned(m + 1, Changed(b, batch[m + 1]))
<1> DEFINE c == Changed(b, batch[m + 1])
<1>1. ASSUME NEW s \in Present(c)
      PROVE  \/ c.title[s] = seen.title[s]
             \/ \E j \in 1..(m + 1) : /\ batch[j].kind \in {"create", "rename"}
                                      /\ batch[j].title = c.title[s]
  <2>1. \/ /\ batch[m + 1].kind \in {"create", "rename"}
           /\ c.title[s] = batch[m + 1].title
        \/ s \in Present(b) /\ c.title[s] = b.title[s]
    BY <1>1, ChangeGivesItsTitle
  <2>2. m + 1 \in 1..(m + 1) /\ 1..m \subseteq 1..(m + 1)
    OBVIOUS
  <2> HIDE DEF c
  <2>3. QED
    BY <2>1, <2>2 DEF Owned
<1>2. QED
  BY <1>1 DEF Owned

\* The same over a whole flush, carried out or not.
LEMMA OwnedFlushed ==
    ASSUME NEW m \in Nat, NEW b \in Book, Owned(m, b),
           NEW ops \in Seq(StructuralOperation),
           \A i \in 1..Len(ops) : ops[i] = batch[m + i],
           NEW u, Flushes(u, b, ops)
    PROVE  \A i \in 0..Len(ops) : Owned(m + i, u[i].book)
<1> DEFINE S == {i \in 0..Len(ops) : Owned(m + i, u[i].book)}
<1>1. 0 \in S
  <2>1. u[0].book = b
    BY DEF Flushes, Untouched
  <2>2. m + 0 = m /\ 0 \in 0..Len(ops)
    OBVIOUS
  <2>3. QED
    BY <2>1, <2>2
<1>2. ASSUME NEW i \in 1..Len(ops), i - 1 \in S
      PROVE  i \in S
  <2> DEFINE r == u[i - 1]
             k == m + (i - 1)
  <2>1. u[i] = Carried(r, ops[i]) /\ r \in Result /\ ops[i] \in StructuralOperation
    BY DEF Flushes
  <2>2. k \in Nat /\ k + 1 = m + i /\ i \in 0..Len(ops)
    OBVIOUS
  <2>3. Owned(k, r.book) /\ r.book \in Book /\ ops[i] = batch[k + 1]
    BY <1>2, <2>1, <2>2 DEF Result
  <2>4. CASE ~r.ok \/ ~Accepts(r.book, ops[i])
    <3>1. u[i].book = r.book
      BY <2>1, <2>4 DEF Carried, Result
    <3> HIDE DEF k, r
    <3>2. Owned(k + 1, u[i].book)
      BY <2>2, <2>3, <3>1, OwnedLater
    <3>3. QED
      BY <2>2, <3>2
  <2>5. CASE r.ok /\ Accepts(r.book, ops[i])
    <3>1. u[i].book = Changed(r.book, ops[i])
      BY <2>1, <2>5 DEF Carried
    <3> HIDE DEF k, r
    <3>2. Owned(k + 1, u[i].book)
      BY <2>1, <2>2, <2>3, <2>5, <3>1, OwnedChanged
    <3>3. QED
      BY <2>2, <3>2
  <2>6. QED
    BY <2>4, <2>5
<1> HIDE DEF S
<1>3. 0..Len(ops) \subseteq S
  <2>1. Len(ops) \in Nat /\ \A i \in 1..Len(ops) : i - 1 \in S => i \in S
    BY <1>2
  <2>2. QED
    BY <1>1, <2>1, UpTo
<1>4. QED
  BY <1>3 DEF S

\* Without a rename before it, a call by title reaches the sheet that was
\* seen under it.
LEMMA TitleLeadsBack ==
    ASSUME batch \in Seq(Operation), seen \in Book, DistinctTitles(seen),
           Valid(seen, batch), NEW m \in Nat, m + 1 \in 1..Len(batch),
           ~Renamed(m + 1), IsValue(batch[m + 1]),
           Owned(m, book), NEW s \in Addressed(m + 1)
    PROVE  s = batch[m + 1].ref
<1> DEFINE t == seen.title[batch[m + 1].ref]
           P(k) == Plan(seen, batch)[k]
<1>1. batch[m + 1].ref \in Present(seen)
  BY DEF Valid, HasRef
<1>2. s \in Present(book) /\ book.title[s] = t
  BY DEF Addressed, Title
<1>3. CASE book.title[s] = seen.title[s]
  <2>1. s \in Present(seen)
    BY <1>2, <1>3 DEF Present
  <2>2. QED
    BY <1>1, <1>2, <1>3, <2>1 DEF DistinctTitles
<1>4. ASSUME NEW j \in 1..m, batch[j].kind \in {"create", "rename"}, batch[j].title = t
      PROVE  FALSE
  <2>1. batch[j].kind = "create"
    <3>1. j \in 1..((m + 1) - 1)
      OBVIOUS
    <3>2. QED
      BY <1>4, <3>1 DEF Renamed
  <2>2. \A i \in 0..m : i \in 0..Len(batch)
    OBVIOUS
  <2>3. P(0).titles = InUse(seen)
    <3>1. P(0) = [titles |-> InUse(seen), deleted |-> {}]
      BY PlanGoesOn
    <3>2. QED
      BY <3>1
  <2>4. ASSUME NEW i \in 1..m, InUse(seen) \subseteq P(i - 1).titles
        PROVE  InUse(seen) \subseteq P(i).titles
    <3>1. i \in 1..Len(batch) /\ i - 1 \in 0..Len(batch) /\ i \in 1..((m + 1) - 1)
      OBVIOUS
    <3>2. batch[i].kind # "rename"
      BY <3>1 DEF Renamed
    <3>3. P(i) = Planned(P(i - 1), seen, batch[i]) /\ P(i - 1) \in Planning
      BY <3>1, PlanGoesOn
    <3> HIDE DEF P
    <3>4. P(i - 1).titles \subseteq P(i).titles
      BY <3>2, <3>3 DEF Planned, Planning
    <3>5. QED
      BY <2>4, <3>4
  <2> DEFINE S == {i \in 0..m : InUse(seen) \subseteq P(i).titles}
  <2>5. 0 \in S /\ \A i \in 1..m : i - 1 \in S => i \in S
    <3>1. 0 \in 0..m /\ \A i \in 1..m : i \in 0..m
      OBVIOUS
    <3>2. QED
      BY <2>3, <2>4, <3>1
  <2> HIDE DEF S, P
  <2>6. 0..m \subseteq S
    BY <2>5, UpTo
  <2>7. j - 1 \in 0..m
    OBVIOUS
  <2>8. InUse(seen) \subseteq P(j - 1).titles
    BY <2>6, <2>7 DEF S
  <2>9. Allowed(P(j - 1), seen, batch[j])
    <3>1. j \in DOMAIN batch
      OBVIOUS
    <3>2. QED
      BY <3>1 DEF Valid, P
  <2>10. t \notin P(j - 1).titles
    BY <1>4, <2>1, <2>9 DEF Allowed
  <2>11. t \in InUse(seen)
    BY <1>1 DEF InUse
  <2>12. QED
    BY <2>8, <2>10, <2>11
<1>5. QED
  BY <1>2, <1>3, <1>4 DEF Owned

-----------------------------------------------------------------------------
(* What validation foresees.                                               *)

LEMMA BeforeMore ==
    ASSUME NEW m \in Nat, NEW s, NEW kinds
    PROVE  /\ Before(m, s, kinds) => Before(m + 1, s, kinds)
           /\ batch[m + 1].kind \in kinds /\ batch[m + 1].ref = s =>
                Before(m + 1, s, kinds)
BY DEF Before

\* The sheet of an operation, when nothing was overlooked.
LEMMA NothingOverlooked ==
    ASSUME batch \in Seq(Operation), seen \in Book, Foreseen,
           NEW m \in Nat, m + 1 \in 1..Len(batch), NEW op, op = batch[m + 1],
           op.kind # "create"
    PROVE  /\ ~Before(m, op.ref, {"delete"})
           /\ op.kind \in {"rename", "values", "append"} => ~Before(m, op.ref, {"delete", "rename"})
           /\ NeedsRows(op) => ~Before(m, op.ref, {"remove"})
           /\ op.kind = "remove" => op.count < seen.rows[op.ref]
           /\ op.kind = "insert" => op.at # seen.rows[op.ref]
           /\ HasRange(op) => op.last <= seen.rows[op.ref]
<1>1. /\ m + 1 \in DOMAIN batch /\ op \in Operation /\ (m + 1) - 1 = m
      /\ \A j \in 1..m : batch[j] \in Operation
  OBVIOUS
<1>2. ~Tolerated(m + 1)
  BY <1>1 DEF Foreseen
<1>3. \A j \in 1..m : batch[j].kind \in {"delete", "rename", "insert", "remove"} =>
                        HasRef(batch[j])
  BY DEF HasRef
<1>4. ASSUME NEW j \in 1..m, HasRef(batch[j]), batch[j].ref = op.ref
      PROVE  /\ batch[j].kind # "delete"
             /\ ~(batch[j].kind = "rename" /\ op.kind \in {"rename", "values", "append"})
             /\ ~(batch[j].kind = "remove" /\ NeedsRows(op))
  BY <1>1, <1>2, <1>4 DEF Tolerated, HasRef
<1>7. op.kind = "remove" => op.count < seen.rows[op.ref]
  <2>1. op.kind = "remove" => op.count \in Nat /\ seen.rows[op.ref] \in Nat
    BY <1>1, Fields, Words
  <2>2. op.kind = "remove" => ~(op.count >= seen.rows[op.ref])
    BY <1>2 DEF Tolerated
  <2>3. QED
    BY <2>1, <2>2
<1>8. op.kind = "insert" => op.at # seen.rows[op.ref]
  BY <1>2 DEF Tolerated
<1>9. HasRange(op) => op.last <= seen.rows[op.ref]
  <2>1. HasRange(op) => op.last \in Nat /\ seen.rows[op.ref] \in Nat
    BY <1>1, Fields, Words
  <2>2. HasRange(op) => ~(op.last > seen.rows[op.ref])
    BY <1>2 DEF Tolerated
  <2>3. QED
    BY <2>1, <2>2
<1>10. QED
  BY <1>3, <1>4, <1>7, <1>8, <1>9 DEF Before

\* The plan counts the sheets that the request deletes.
LEMMA PlannedDeletions ==
    ASSUME batch \in Seq(Operation), seen \in Book, NEW m \in 0..Len(batch)
    PROVE  \A s : Before(m, s, {"delete"}) => s \in Plan(seen, batch)[m].deleted
<1> DEFINE P(k) == Plan(seen, batch)[k]
           S == {i \in 0..m : \A j \in 1..i : batch[j].kind = "delete" =>
                                                batch[j].ref \in P(i).deleted}
<1>1. 0 \in S
  OBVIOUS
<1>2. ASSUME NEW i \in 1..m, i - 1 \in S
      PROVE  i \in S
  <2>1. i \in 1..Len(batch) /\ i - 1 \in 0..Len(batch) /\ i \in 0..m
    OBVIOUS
  <2>2. P(i) = Planned(P(i - 1), seen, batch[i]) /\ P(i - 1) \in Planning
    BY <2>1, PlanGoesOn
  <2>3. /\ P(i - 1).deleted \subseteq P(i).deleted
        /\ batch[i].kind = "delete" => batch[i].ref \in P(i).deleted
    <3> HIDE DEF P
    <3>1. QED
      BY <2>2 DEF Planned, Planning
  <2>4. \A j \in 1..i : j = i \/ j \in 1..(i - 1)
    BY <2>1
  <2>5. \A j \in 1..(i - 1) : batch[j].kind = "delete" => batch[j].ref \in P(i - 1).deleted
    BY <1>2
  <2> HIDE DEF P
  <2>6. QED
    BY <2>1, <2>3, <2>4, <2>5
<1> HIDE DEF S
<1>3. 0..m \subseteq S
  <2>1. m \in Nat
    OBVIOUS
  <2>2. QED
    BY <1>1, <1>2, <2>1, UpTo
<1>4. m \in S
  BY <1>3
<1>5. QED
  BY <1>4 DEF S, Before

\* There are no more titles than sheets.
LEMMA TitlesAreFew ==
    ASSUME NEW b
    PROVE  /\ IsFiniteSet(InUse(b)) /\ Cardinality(InUse(b)) \in Nat
           /\ Cardinality(Present(b)) \in Nat
           /\ Cardinality(InUse(b)) <= Cardinality(Present(b))
<1>1. IsFiniteSet(Present(b))
  BY BatchAssumption, FS_Subset DEF Present
<1> DEFINE f == [s \in Present(b) |-> b.title[s]]
<1>2. f \in Surjection(Present(b), InUse(b))
  BY DEF InUse, Surjection
<1> HIDE DEF f
<1>3. IsFiniteSet(InUse(b)) /\ Cardinality(InUse(b)) <= Cardinality(Present(b))
  BY <1>1, <1>2, FS_Surjection
<1>4. QED
  BY <1>1, <1>3, FS_CardinalityType

\* A deletion that validation allows leaves a sheet that was seen.
LEMMA DeletionLeavesOne ==
    ASSUME batch \in Seq(Operation), seen \in Book, Valid(seen, batch),
           NEW m \in Nat, m + 1 \in 1..Len(batch), batch[m + 1].kind = "delete"
    PROVE  \E s \in Present(seen) : s # batch[m + 1].ref /\ ~Before(m, s, {"delete"})
<1> DEFINE p == Plan(seen, batch)[m]
           ref == batch[m + 1].ref
           T == p.deleted \cup {ref}
<1>1. m \in 0..Len(batch) /\ m + 1 \in DOMAIN batch /\ (m + 1) - 1 = m
  OBVIOUS
<1>2. p \in Planning /\ Allowed(p, seen, batch[m + 1])
  BY <1>1, PlanGoesOn DEF Valid
<1>3. Cardinality(InUse(seen)) - Cardinality(T) >= 1
  BY <1>2 DEF Allowed

<1>4. IsFiniteSet(T) /\ Cardinality(T) \in Nat
  <2>1. p.deleted \in SUBSET Sheets
    BY <1>2 DEF Planning
  <2>2. IsFiniteSet(p.deleted)
    BY <2>1, BatchAssumption, FS_Subset
  <2> HIDE DEF p, ref
  <2>3. IsFiniteSet(T)
    BY <2>2, FS_AddElement
  <2>4. QED
    BY <2>3, FS_CardinalityType
<1>5. ~(Present(seen) \subseteq T)
  <2>1. SUFFICES ASSUME Present(seen) \subseteq T PROVE FALSE
    OBVIOUS
  <2> HIDE DEF T
  <2>2. Cardinality(Present(seen)) <= Cardinality(T)
    BY <1>4, <2>1, FS_Subset
  <2>3. QED
    BY <1>3, <1>4, <2>2, TitlesAreFew
<1>6. PICK s \in Present(seen) : s \notin T
  BY <1>5
<1>7. \A r : Before(m, r, {"delete"}) => r \in p.deleted
  BY <1>1, PlannedDeletions
<1>8. QED
  BY <1>6, <1>7

\* The provider takes every operation that validation foresaw.
LEMMA ForeseenIsAccepted ==
    ASSUME batch \in Seq(Operation), seen \in Book, DistinctTitles(seen),
           Valid(seen, batch), Foreseen,
           NEW m \in Nat, m + 1 \in 1..Len(batch), NEW b \in Book, Tracks(m, b)
    PROVE  /\ ~IsValue(batch[m + 1]) => Accepts(b, batch[m + 1])
           /\ IsValue(batch[m + 1]) =>
                \E s \in Present(b) : /\ b.title[s] = Title(m + 1)
                                      /\ batch[m + 1].last <= b.rows[s]
<1> DEFINE op == batch[m + 1]
           p == Plan(seen, batch)[m]
<1>1. m + 1 \in DOMAIN batch /\ (m + 1) - 1 = m /\ op \in Operation /\ m \in 0..Len(batch)
  OBVIOUS
<1>2. /\ Allowed(p, seen, op)
      /\ op.kind # "create" => op.ref \in Present(seen)
  BY <1>1 DEF Valid, HasRef
<1>3. p \in Planning
  BY <1>1, PlanGoesOn
<1>4. op.kind \in {"values", "append", "insert", "remove", "create", "rename", "delete", "format"}
  BY <1>1, Fields
<1>5. CASE op.kind = "create"
  <2>1. op.title \notin p.titles
    BY <1>2, <1>5 DEF Allowed
  <2>2. InUse(b) \subseteq p.titles
    BY DEF Tracks
  <2>3. QED
    BY <1>5, <2>1, <2>2 DEF Accepts
<1>6. CASE op.kind # "create"
  <2>1. op.ref \in Present(seen) /\ op.ref \in Sheets
    BY <1>2, <1>6 DEF Present
  <2>2. /\ ~Before(m, op.ref, {"delete"})
        /\ op.kind \in {"rename", "values", "append"} => ~Before(m, op.ref, {"delete", "rename"})
        /\ NeedsRows(op) => ~Before(m, op.ref, {"remove"})
        /\ op.kind = "remove" => op.count < seen.rows[op.ref]
        /\ op.kind = "insert" => op.at # seen.rows[op.ref]
        /\ HasRange(op) => op.last <= seen.rows[op.ref]
    BY <1>1, <1>6, NothingOverlooked
  <2>3. op.ref \in Present(b)
    BY <2>1, <2>2 DEF Tracks
  <2>4. op.kind \in {"rename", "values", "append"} => b.title[op.ref] = seen.title[op.ref]
    BY <2>1, <2>2 DEF Tracks
  <2>5. /\ b.rows[op.ref] \in Nat /\ seen.rows[op.ref] \in Nat
        /\ NeedsRows(op) => b.rows[op.ref] >= seen.rows[op.ref]
    BY <2>1, <2>2, Words DEF Tracks
  <2>6. CASE IsValue(op)
    <3>1. op.last \in Nat /\ op.last <= b.rows[op.ref]
      BY <1>1, <2>2, <2>5, <2>6, Fields
    <3>2. QED
      BY <2>3, <2>4, <2>6, <3>1 DEF Title
  <2>7. CASE op.kind = "rename"
    <3>1. op.title \notin p.titles \ {seen.title[op.ref]}
      BY <1>2, <2>7 DEF Allowed, OtherTitles
    <3>2. ASSUME NEW s \in Present(b) \ {op.ref}, b.title[s] = op.title
          PROVE  FALSE
      <4>1. op.title \in InUse(b)
        BY <3>2 DEF InUse
      <4>2. op.title = seen.title[op.ref]
        BY <3>1, <4>1 DEF Tracks
      <4>3. b.title[s] = b.title[op.ref]
        BY <2>4, <2>7, <3>2, <4>2
      <4>4. QED
        BY <2>3, <3>2, <4>3 DEF Tracks, DistinctTitles
    <3>3. QED
      BY <2>3, <2>7, <3>2 DEF Accepts
  <2>8. CASE op.kind = "delete"
    <3>1. PICK s \in Present(seen) : s # op.ref /\ ~Before(m, s, {"delete"})
      BY <2>8, DeletionLeavesOne
    <3>2. s \in Present(b)
      BY <3>1 DEF Tracks
    <3>3. QED
      BY <2>3, <2>8, <3>1, <3>2 DEF Accepts
  <2>9. CASE op.kind \in {"insert", "remove"}
    <3>1. /\ op.kind = "insert" => op.at <= seen.rows[op.ref]
          /\ op.kind = "remove" => op.at + op.count <= seen.rows[op.ref]
      BY <1>2 DEF Allowed
    <3>2. op.at \in Nat /\ op.count \in Nat /\ NeedsRows(op)
      BY <1>1, <2>9, Fields
    <3>3. CASE op.kind = "insert"
      <4>1. op.at < b.rows[op.ref]
        BY <2>2, <2>5, <3>1, <3>2, <3>3
      <4>2. QED
        BY <2>3, <3>3, <4>1 DEF Accepts
    <3>4. CASE op.kind = "remove"
      <4>1. op.at + op.count <= b.rows[op.ref] /\ op.count < b.rows[op.ref]
        BY <2>2, <2>5, <3>1, <3>2, <3>4
      <4>2. QED
        BY <2>3, <3>4, <4>1 DEF Accepts
    <3>5. QED
      BY <2>9, <3>3, <3>4
  <2>10. CASE op.kind = "format"
    <3>1. op.last \in Nat /\ op.last <= b.rows[op.ref]
      BY <1>1, <2>2, <2>5, <2>10, Fields
    <3>2. QED
      BY <2>3, <2>10, <3>1 DEF Accepts
  <2>11. QED
    BY <1>4, <1>6, <2>6, <2>7, <2>8, <2>9, <2>10
<1>7. QED
  BY <1>5, <1>6

\* A change leaves the sheets that were seen alone, but for the one it names.
LEMMA ChangeOfSeen ==
    ASSUME seen \in Book, NEW m \in Nat, NEW b \in Book, Tracks(m, b),
           Cardinality(Fresh(b)) >= 1,
           NEW op \in StructuralOperation, Accepts(b, op), NEW s \in Present(seen)
    PROVE  /\ \/ Changed(b, op).title[s] = b.title[s]
              \/ op.kind = "rename" /\ op.ref = s /\ Changed(b, op).title[s] \in Titles
              \/ op.kind = "delete" /\ op.ref = s /\ Changed(b, op).title[s] = "deleted"
           /\ \/ Changed(b, op).rows[s] >= b.rows[s]
              \/ op.kind = "remove" /\ op.ref = s
<1> DEFINE c == Changed(b, op)
<1>1. op.kind \in {"insert", "remove", "create", "rename", "delete", "format"}
  BY StructuralKinds
<1>2. /\ b.title \in [Sheets -> Titles \cup {"unused", "deleted"}]
      /\ b.rows \in [Sheets -> Nat]
  BY DEF Book
<1>3. s \in Sheets /\ b.title[s] # "unused"
  BY DEF Present, Tracks
<1>4. CASE op.kind = "create"
  <2>1. NewSheet(b) # s
    BY <1>3, NewSheetIsFresh
  <2>2. /\ c.title = [b.title EXCEPT ![NewSheet(b)] = op.title]
        /\ c.rows = [b.rows EXCEPT ![NewSheet(b)] = Rows]
    BY <1>4, ChangeOf
  <2>3. QED
    BY <1>2, <1>3, <2>1, <2>2
<1>5. CASE op.kind = "rename"
  <2>1. c.title = [b.title EXCEPT ![op.ref] = op.title] /\ c.rows = b.rows
    BY <1>5, ChangeOf
  <2>2. op.title \in Titles
    BY <1>5, Fields, StructuralKinds
  <2>3. QED
    BY <1>2, <1>3, <1>5, <2>1, <2>2
<1>6. CASE op.kind = "delete"
  <2>1. c.title = [b.title EXCEPT ![op.ref] = "deleted"] /\ c.rows = b.rows
    BY <1>6, ChangeOf
  <2>2. QED
    BY <1>2, <1>3, <1>6, <2>1
<1>7. CASE op.kind \in {"insert", "remove"}
  <2>1. /\ c.title = b.title
        /\ \A t \in Sheets : t # op.ref => c.rows[t] = b.rows[t]
        /\ op.kind = "insert" => c.rows[op.ref] >= b.rows[op.ref]
    BY <1>7, ChangeOf
  <2>2. QED
    BY <1>2, <1>3, <1>7, <2>1
<1>8. CASE op.kind = "format"
  <2>1. c = b
    BY <1>8, ChangeOf
  <2>2. QED
    BY <1>2, <1>3, <2>1
<1>9. QED
  BY <1>1, <1>4, <1>5, <1>6, <1>7, <1>8

\* Titles stay distinct, whatever the provider accepts.
LEMMA TitlesStayDistinct ==
    ASSUME NEW b \in Book, DistinctTitles(b),
           NEW op \in StructuralOperation, Accepts(b, op)
    PROVE  DistinctTitles(Changed(b, op))
<1> DEFINE c == Changed(b, op)
<1>1. op.kind \in {"insert", "remove", "create", "rename", "delete", "format"}
  BY StructuralKinds
<1>2. b.title \in [Sheets -> Titles \cup {"unused", "deleted"}]
  BY DEF Book
<1>3. ASSUME NEW s \in Present(c), NEW t \in Present(c), c.title[s] = c.title[t], s # t
      PROVE  FALSE
  <2>1. s \in Sheets /\ t \in Sheets
    BY DEF Present
  <2>2. CASE c.title[s] = b.title[s] /\ c.title[t] = b.title[t]
    <3>1. s \in Present(b) /\ t \in Present(b)
      BY <2>1, <2>2 DEF Present
    <3>2. QED
      BY <1>3, <2>2, <3>1 DEF DistinctTitles
  <2>3. ASSUME NEW x \in Present(c), NEW y \in Present(c), x # y,
               c.title[x] = c.title[y], c.title[x] # b.title[x]
        PROVE  FALSE
    <3>1. x \in Sheets /\ y \in Sheets
      BY DEF Present
    <3>2. op.kind \in {"create", "rename"} /\ c.title[x] = op.title
      BY <2>3, ChangeGivesItsTitle
    <3>3. CASE op.kind = "create"
      <4>1. c.title = [b.title EXCEPT ![NewSheet(b)] = op.title]
        BY <3>3, ChangeOf
      <4>2. c.title[y] = b.title[y]
        BY <1>2, <2>3, <3>1, <4>1
      <4>3. y \in Present(b)
        BY <3>1, <4>2 DEF Present
      <4>4. op.title \in InUse(b)
        BY <2>3, <3>2, <4>2, <4>3 DEF InUse
      <4>5. QED
        BY <3>3, <4>4 DEF Accepts
    <3>4. CASE op.kind = "rename"
      <4>1. c.title = [b.title EXCEPT ![op.ref] = op.title]
        BY <3>4, ChangeOf
      <4>2. x = op.ref /\ c.title[y] = b.title[y]
        BY <1>2, <2>3, <3>1, <4>1
      <4>3. y \in Present(b) \ {op.ref}
        BY <2>3, <3>1, <4>2 DEF Present
      <4>4. b.title[y] = op.title
        BY <2>3, <3>2, <4>2
      <4>5. QED
        BY <3>4, <4>3, <4>4 DEF Accepts
    <3>5. QED
      BY <3>2, <3>3, <3>4
  <2> HIDE DEF c
  <2>4. QED
    BY <1>3, <2>2, <2>3
<1> HIDE DEF c
<1>4. QED
  BY <1>3 DEF DistinctTitles, c

\* The plan keeps having all titles in use.
LEMMA PlanHasTitles ==
    ASSUME batch \in Seq(Operation), seen \in Book, Valid(seen, batch), Foreseen,
           NEW m \in Nat, m + 1 \in 1..Len(batch), NEW b \in Book, Tracks(m, b),
           batch[m + 1] \in StructuralOperation, Accepts(b, batch[m + 1])
    PROVE  InUse(Changed(b, batch[m + 1])) \subseteq Plan(seen, batch)[m + 1].titles
<1> DEFINE op == batch[m + 1]
           c == Changed(b, op)
           p == Plan(seen, batch)[m]
           q == Plan(seen, batch)[m + 1]
<1>1. (m + 1) - 1 = m /\ m \in 0..Len(batch) /\ m + 1 \in DOMAIN batch /\ op \in Operation
  OBVIOUS
<1>2. q = Planned(p, seen, op) /\ p \in Planning
  BY <1>1, PlanGoesOn
<1>3. /\ op.kind \in {"create", "rename"} => op.title \in q.titles
      /\ op.kind # "rename" => p.titles \subseteq q.titles
      /\ op.kind = "rename" => p.titles \ {seen.title[op.ref]} \subseteq q.titles
  <2> HIDE DEF p, q, op
  <2>1. QED
    BY <1>2 DEF Planned, Planning, OtherTitles
<1>4. ASSUME NEW s \in Present(c)
      PROVE  c.title[s] \in q.titles
  <2>1. CASE op.kind \in {"create", "rename"} /\ c.title[s] = op.title
    BY <1>3, <2>1
  <2>2. CASE s \in Present(b) /\ c.title[s] = b.title[s]
    <3>1. c.title[s] \in p.titles
      BY <2>2 DEF Tracks, InUse
    <3>2. CASE op.kind # "rename"
      BY <1>3, <3>1, <3>2
    <3>3. CASE op.kind = "rename"
      <4>1. op.ref \in Present(seen)
        BY <1>1, <3>3 DEF Valid, HasRef
      <4>2. ~Before(m, op.ref, {"delete", "rename"})
        BY <1>1, <3>3, NothingOverlooked
      <4>3. b.title[op.ref] = seen.title[op.ref]
        BY <4>1, <4>2 DEF Tracks
      <4>4. CASE c.title[s] = seen.title[op.ref]
        <5>1. op.ref \in Present(b)
          BY <3>3 DEF Accepts
        <5>2. s = op.ref
          BY <2>2, <4>3, <4>4, <5>1 DEF Tracks, DistinctTitles
        <5>3. c.title = [b.title EXCEPT ![op.ref] = op.title]
          BY <3>3, ChangeOf
        <5>4. c.title[s] = op.title
          BY <5>1, <5>2, <5>3 DEF Book, Present
        <5>5. QED
          BY <1>3, <3>3, <5>4
      <4>5. CASE c.title[s] # seen.title[op.ref]
        BY <1>3, <3>1, <3>3, <4>5
      <4>6. QED
        BY <4>4, <4>5
    <3>4. QED
      BY <3>2, <3>3
  <2>3. QED
    BY <2>1, <2>2, ChangeGivesItsTitle
<1> HIDE DEF c, q
<1>5. QED
  BY <1>4 DEF InUse, c, q

LEMMA TracksChanged ==
    ASSUME batch \in Seq(Operation), seen \in Book, Valid(seen, batch), Foreseen,
           NEW m \in Nat, m + 1 \in 1..Len(batch), NEW b \in Book, Tracks(m, b),
           Cardinality(Fresh(b)) >= 1,
           batch[m + 1] \in StructuralOperation, Accepts(b, batch[m + 1])
    PROVE  Tracks(m + 1, Changed(b, batch[m + 1]))
<1> DEFINE op == batch[m + 1]
           c == Changed(b, op)
<1>1. DistinctTitles(c)
  BY TitlesStayDistinct DEF Tracks
<1>2. InUse(c) \subseteq Plan(seen, batch)[m + 1].titles
  BY PlanHasTitles
<1>3. ASSUME NEW s \in Present(seen)
      PROVE  /\ c.title[s] # "unused"
             /\ ~Before(m + 1, s, {"delete"}) => s \in Present(c)
             /\ ~Before(m + 1, s, {"delete", "rename"}) => c.title[s] = seen.title[s]
             /\ ~Before(m + 1, s, {"remove"}) => c.rows[s] >= seen.rows[s]
  <2>1. /\ \/ c.title[s] = b.title[s]
           \/ op.kind = "rename" /\ op.ref = s /\ c.title[s] \in Titles
           \/ op.kind = "delete" /\ op.ref = s /\ c.title[s] = "deleted"
        /\ \/ c.rows[s] >= b.rows[s]
           \/ op.kind = "remove" /\ op.ref = s
    BY ChangeOfSeen
  <2>2. /\ b.title[s] # "unused"
        /\ ~Before(m, s, {"delete"}) => s \in Present(b)
        /\ ~Before(m, s, {"delete", "rename"}) => b.title[s] = seen.title[s]
        /\ ~Before(m, s, {"remove"}) => b.rows[s] >= seen.rows[s]
    BY DEF Tracks
  <2>3. /\ Before(m, s, {"delete"}) \/ (op.kind = "delete" /\ op.ref = s) =>
             Before(m + 1, s, {"delete"})
        /\ Before(m, s, {"delete", "rename"})
             \/ (op.kind \in {"delete", "rename"} /\ op.ref = s) =>
                   Before(m + 1, s, {"delete", "rename"})
        /\ Before(m, s, {"remove"}) \/ (op.kind = "remove" /\ op.ref = s) =>
             Before(m + 1, s, {"remove"})
    BY BeforeMore
  <2> HIDE DEF c, op
  <2>4. c.title[s] # "unused"
    BY <2>1, <2>2, Words
  <2>5. ~Before(m + 1, s, {"delete"}) => s \in Present(c)
    BY <2>1, <2>2, <2>3 DEF Present
  <2>6. ~Before(m + 1, s, {"delete", "rename"}) => c.title[s] = seen.title[s]
    BY <2>1, <2>2, <2>3
  <2>7. ~Before(m + 1, s, {"remove"}) => c.rows[s] >= seen.rows[s]
    <3>1. c.rows[s] \in Nat /\ b.rows[s] \in Nat /\ seen.rows[s] \in Nat
      BY ChangeOf, Words DEF Present, c, op
    <3>2. QED
      BY <2>1, <2>2, <2>3, <3>1
  <2>8. QED
    BY <2>4, <2>5, <2>6, <2>7
<1> HIDE DEF c
<1>4. QED
  BY <1>1, <1>2, <1>3 DEF Tracks, c

\* A spreadsheet with the same titles and, if anything, more rows.
Longer(b, c) ==
    /\ b \in Book /\ c \in Book /\ c.title = b.title
    /\ \A s \in Sheets : c.rows[s] >= b.rows[s]

\* What a value call leaves: rows are added to one sheet, or none are.
LEMMA AddedRows ==
    ASSUME NEW b \in Book, NEW s \in Sheets, NEW op, NEW c,
           c = [b EXCEPT !.rows[s] = @ + Added(op)]
    PROVE  Longer(b, c)
<1>1. Added(op) \in Nat
  BY DEF Added
<1>2. /\ b = [title |-> b.title, rows |-> b.rows]
      /\ b.title \in [Sheets -> Titles \cup {"unused", "deleted"}]
      /\ b.rows \in [Sheets -> Nat]
  BY DEF Book
<1> DEFINE r == [b.rows EXCEPT ![s] = @ + Added(op)]
<1>3. /\ r \in [Sheets -> Nat]
      /\ \A t \in Sheets : r[t] >= b.rows[t]
  BY <1>1, <1>2
<1>4. c = [title |-> b.title, rows |-> r]
  BY <1>2
<1> HIDE DEF r
<1>5. QED
  BY <1>2, <1>3, <1>4 DEF Longer, Book

\* A value call changes no plan, and adds rows at most.
LEMMA TracksKept ==
    ASSUME batch \in Seq(Operation), seen \in Book,
           NEW m \in Nat, m + 1 \in 1..Len(batch), NEW b, NEW c, Tracks(m, b),
           Longer(b, c), IsValue(batch[m + 1])
    PROVE  Tracks(m + 1, c)
<1>1. m + 1 \in 1..Len(batch) /\ (m + 1) - 1 = m
  OBVIOUS
<1>2. Plan(seen, batch)[m + 1] = Planned(Plan(seen, batch)[m], seen, batch[m + 1])
  BY <1>1, PlanGoesOn
<1>3. Plan(seen, batch)[m + 1] = Plan(seen, batch)[m]
  BY <1>2 DEF Planned
<1>4. /\ DistinctTitles(c) /\ InUse(c) \subseteq Plan(seen, batch)[m + 1].titles
      /\ Present(c) = Present(b)
  BY <1>3 DEF Tracks, Longer, DistinctTitles, InUse, Present
<1>5. ASSUME NEW s \in Present(seen)
      PROVE  /\ c.title[s] # "unused"
             /\ ~Before(m + 1, s, {"delete"}) => s \in Present(c)
             /\ ~Before(m + 1, s, {"delete", "rename"}) => c.title[s] = seen.title[s]
             /\ ~Before(m + 1, s, {"remove"}) => c.rows[s] >= seen.rows[s]
  <2>1. /\ b.title[s] # "unused"
        /\ ~Before(m + 1, s, {"delete"}) => s \in Present(b)
        /\ ~Before(m + 1, s, {"delete", "rename"}) => b.title[s] = seen.title[s]
        /\ ~Before(m + 1, s, {"remove"}) => b.rows[s] >= seen.rows[s]
    BY BeforeMore DEF Tracks
  <2>2. /\ c.title = b.title /\ c.rows[s] >= b.rows[s]
        /\ c.rows[s] \in Nat /\ b.rows[s] \in Nat /\ seen.rows[s] \in Nat
    BY Words DEF Longer, Present
  <2>3. QED
    BY <1>4, <2>1, <2>2
<1>6. QED
  BY <1>4, <1>5 DEF Tracks

\* A foreseen flush is carried out to its end.
LEMMA TracksFlushed ==
    ASSUME batch \in Seq(Operation), seen \in Book, DistinctTitles(seen),
           Valid(seen, batch), Foreseen,
           NEW m \in Nat, NEW b \in Book, Tracks(m, b),
           NEW ops \in Seq(StructuralOperation), m + Len(ops) <= Len(batch),
           \A i \in 1..Len(ops) : ops[i] = batch[m + i],
           Cardinality(Fresh(b)) >= Len(ops), NEW u, Flushes(u, b, ops)
    PROVE  \A i \in 0..Len(ops) : u[i].ok /\ Tracks(m + i, u[i].book)
<1> DEFINE N == Len(ops)
           S == {i \in 0..N : u[i].ok /\ Tracks(m + i, u[i].book)}
<1>1. N \in Nat /\ Cardinality(Fresh(b)) \in Nat
  BY FreshIsFinite
<1>2. 0 \in S
  <2>1. u[0].book = b /\ u[0].ok
    BY DEF Flushes, Untouched
  <2>2. m + 0 = m /\ 0 \in 0..N
    OBVIOUS
  <2>3. QED
    BY <2>1, <2>2
<1>3. ASSUME NEW i \in 1..N, i - 1 \in S
      PROVE  i \in S
  <2> DEFINE r == u[i - 1]
             k == m + (i - 1)
  <2>1. u[i] = Carried(r, ops[i]) /\ r \in Result /\ ops[i] \in StructuralOperation
    <3>1. i \in 1..Len(ops) /\ i - 1 \in 0..Len(ops)
      OBVIOUS
    <3>2. u \in [0..Len(ops) -> Result] /\ u[i] = Carried(u[i - 1], ops[i])
      BY <3>1 DEF Flushes
    <3>3. r \in Result
      BY <3>1, <3>2
    <3>4. ops[i] \in StructuralOperation
      BY <3>1
    <3>5. QED
      BY <3>2, <3>3, <3>4
  <2>2. k \in Nat /\ k + 1 = m + i /\ k + 1 \in 1..Len(batch) /\ i \in 0..N /\ i - 1 \in 0..N
    BY <1>1
  <2>3. r.ok /\ Tracks(k, r.book) /\ r.book \in Book /\ ops[i] = batch[k + 1]
    BY <1>3, <2>1, <2>2 DEF Result
  <2>4. Cardinality(Fresh(r.book)) >= 1
    <3>1. Cardinality(Fresh(r.book)) >= Cardinality(Fresh(b)) - (i - 1)
      BY <2>2, FlushReaches
    <3>2. Cardinality(Fresh(r.book)) \in Nat
      BY FreshIsFinite
    <3>3. QED
      BY <1>1, <3>1, <3>2
  <2> HIDE DEF k, r
  <2>5. ~IsValue(ops[i])
    BY <2>1, StructuralKinds
  <2>6. Accepts(r.book, ops[i])
    BY <2>2, <2>3, <2>5, ForeseenIsAccepted
  <2>7. u[i].ok /\ u[i].book = Changed(r.book, ops[i])
    BY <2>1, <2>3, <2>6 DEF Carried
  <2>8. Tracks(k + 1, Changed(r.book, ops[i]))
    BY <2>1, <2>2, <2>3, <2>4, <2>6, TracksChanged
  <2>9. QED
    BY <2>2, <2>7, <2>8
<1> HIDE DEF S
<1>4. 0..N \subseteq S
  BY <1>1, <1>2, <1>3, UpTo
<1>5. QED
  BY <1>4 DEF S

-----------------------------------------------------------------------------
(* The second invariant.                                                   *)

LEMMA InitSheets == Init => SheetInv
<1>1. SUFFICES ASSUME Init PROVE SheetInv
  OBVIOUS
<1>2. PICK titles \in [Existing -> Titles] :
        /\ \A s, u \in Existing : titles[s] = titles[u] => s = u
        /\ book = InitialBook(titles)
  BY <1>1 DEF Init
<1>3. PICK n \in 0..MaxLength : batch \in [1..n -> Operation]
  BY <1>1 DEF Init
<1>4. /\ seen = book /\ effects = <<>> /\ reached = <<>> /\ edits = 0
      /\ request = [phase |-> "inspect", next |-> 1, pending |-> <<>>]
  BY <1>1 DEF Init
<1>5. Len(batch) \in Nat /\ Len(batch) <= MaxLength /\ MaxLength \in Nat /\ MaxEdits \in Nat
  BY <1>3, BatchAssumption
<1>6. \A s \in Sheets :
        /\ s \in Existing => book.title[s] = titles[s] /\ titles[s] \in Titles
        /\ s \notin Existing /\ s \in Refs => book.title[s] = "deleted"
        /\ s \notin Existing /\ s \notin Refs => book.title[s] = "unused"
  BY <1>2 DEF InitialBook
<1>7. book \in Book
  <2> DEFINE t == [s \in Sheets |-> CASE s \in Existing -> titles[s]
                                     [] s \in Refs \ Existing -> "deleted"
                                     [] OTHER -> "unused"]
             r == [s \in Sheets |-> IF s \in Existing THEN Rows ELSE 0]
  <2>1. t \in [Sheets -> Titles \cup {"unused", "deleted"}]
    OBVIOUS
  <2>2. r \in [Sheets -> Nat]
    BY BatchAssumption
  <2>3. book = [title |-> t, rows |-> r]
    BY <1>2 DEF InitialBook
  <2> HIDE DEF t, r
  <2>4. QED
    BY <2>1, <2>2, <2>3 DEF Book
<1>8. DistinctTitles(book)
  <2>1. \A s \in Present(book) : s \in Existing /\ book.title[s] = titles[s]
    BY <1>6, Words DEF Present
  <2>2. QED
    BY <1>2, <2>1 DEF DistinctTitles
<1>9. Supply
  <2>1. Fresh(book) = Sheets \ (Existing \cup Refs)
    BY <1>6, Words DEF Fresh
  <2>2. Cardinality(Fresh(book)) >= MaxLength + MaxEdits
    BY <2>1, BatchAssumption
  <2>3. Cardinality(Fresh(book)) \in Nat /\ Len(effects) = 0
    BY <1>4, FreshIsFinite
  <2>4. QED
    BY <1>4, <1>5, <2>2, <2>3 DEF Supply
<1>10. Shapes
  <2>1. <<>> \in Seq(Sheets) /\ Len(<<>>) = 0
    OBVIOUS
  <2>2. QED
    BY <1>4, <1>5, <1>7, <1>8, <2>1 DEF Shapes
<1>11. Course
  BY <1>4 DEF Course, OnlyStructure
<1>12. ReachesUnlessRenamed /\ RefusalsExplained
  BY <1>4 DEF ReachesUnlessRenamed, RefusalsExplained
<1>13. QED
  BY <1>9, <1>10, <1>11, <1>12 DEF SheetInv

\* What speaks of the request and of what was read stays as it is with them.
LEMMA SameReading ==
    ASSUME UNCHANGED <<batch, seen>>, NEW m, NEW b, m = Len(effects'), b = book'
    PROVE  /\ Tracks(m, b) => Tracks(Len(effects), book)'
           /\ Owned(m, b) => Owned(Len(effects), book)'
           /\ Foreseen' <=> Foreseen
           /\ (\E k \in DOMAIN batch : Tolerated(k))' <=> \E k \in DOMAIN batch : Tolerated(k)
<1>1. Tracks(m, b) => Tracks(Len(effects), book)'
  BY DEF Tracks, Before, DistinctTitles, InUse, Present
<1>2. Owned(m, b) => Owned(Len(effects), book)'
  BY DEF Owned, Present
<1>3. (\E k \in DOMAIN batch : Tolerated(k))' <=> \E k \in DOMAIN batch : Tolerated(k)
  BY DEF Tolerated, HasRef, NeedsRows
<1>4. Foreseen' <=> Foreseen
  BY DEF Foreseen, Tolerated, HasRef, NeedsRows
<1>5. QED
  BY <1>1, <1>2, <1>3, <1>4

\* A step that changes nothing but the request.
LEMMA QuietStep ==
    ASSUME SheetInv, UNCHANGED <<book, batch, seen, effects, reached, edits>>,
           request'.phase = "inspect" => request.phase = "inspect",
           request'.phase = "apply" => Ready,
           request'.phase \in {"inspect", "apply"} => OnlyStructure',
           request'.phase = "refused" /\ edits = 0 =>
               request.phase = "refused" \/ ~Foreseen
    PROVE  SheetInv'
<1>1. Shapes' /\ Supply'
  BY DEF SheetInv, Shapes, Supply, DistinctTitles, Present, Fresh
<1>2. Ready => Ready'
  BY SameReading DEF Ready
<1>3. Course'
  BY <1>2 DEF SheetInv, Course
<1>4. ReachesUnlessRenamed'
  BY DEF SheetInv, ReachesUnlessRenamed, Renamed, HasRef
<1>5. RefusalsExplained'
  <2>1. request'.phase = "refused" /\ edits = 0 => \E k \in DOMAIN batch : Tolerated(k)
    BY DEF SheetInv, RefusalsExplained, Foreseen
  <2>2. QED
    BY <2>1, SameReading DEF RefusalsExplained
<1>6. QED
  BY <1>1, <1>3, <1>4, <1>5 DEF SheetInv

\* What is pending is the structural part that follows what was applied.
LEMMA PendingIsNext ==
    ASSUME Inv, SheetInv, request.phase = "apply"
    PROVE  /\ Operations(request.pending) \in Seq(StructuralOperation)
           /\ Len(Operations(request.pending)) = Len(request.pending)
           /\ Len(effects) \in Nat /\ Len(request.pending) \in Nat /\ Len(batch) \in Nat
           /\ Len(effects) + Len(request.pending) <= Len(batch)
           /\ \A i \in 1..Len(request.pending) :
                Operations(request.pending)[i] = batch[Len(effects) + i]
           /\ Cardinality(Fresh(book)) >= Len(request.pending)
           /\ Cardinality(Fresh(book)) \in Nat
<1> DEFINE ks == request.pending
           K == Len(effects)
           n == Len(ks)
<1>1. /\ ks \in Seq(Nat) /\ n \in Nat /\ K \in Nat /\ Len(batch) \in Nat
      /\ request.next = K + n + 1 /\ request.next <= Len(batch) + 1
      /\ \A j \in 1..n : ks[j] = K + j
      /\ batch \in Seq(Operation)
  BY DEF Inv, Progress, Request
<1>2. K + n <= Len(batch)
  <2> HIDE DEF ks, K, n
  <2>1. request.next \in Nat
    BY DEF Inv, Progress, Request
  <2>2. QED
    BY <1>1, <2>1
<1>3. ASSUME NEW i \in 1..n
      PROVE  /\ Operations(ks)[i] = batch[K + i]
             /\ Operations(ks)[i] \in StructuralOperation
  <2>1. i \in DOMAIN ks /\ ks[i] = K + i
    BY <1>1
  <2>2. Operations(ks)[i] = batch[ks[i]]
    BY <2>1 DEF Operations
  <2>3. ~IsValue(batch[ks[i]])
    BY <2>1 DEF SheetInv, Course, OnlyStructure
  <2>4. K + i \in 1..Len(batch)
    BY <1>1, <1>2
  <2>5. batch[K + i] \in Operation
    BY <1>1, <2>4
  <2>6. QED
    BY <2>1, <2>2, <2>3, <2>5, StructuralKinds
<1>4. Operations(ks) \in Seq(StructuralOperation) /\ Len(Operations(ks)) = n
  <2>1. Operations(ks) = [i \in 1..n |-> Operations(ks)[i]]
    BY <1>1 DEF Operations
  <2> HIDE DEF n, ks
  <2>2. Operations(ks) \in [1..n -> StructuralOperation]
    BY <1>3, <2>1
  <2>3. QED
    BY <1>1, <2>2
<1>5. Cardinality(Fresh(book)) >= n /\ Cardinality(Fresh(book)) \in Nat
  <2>1. Cardinality(Fresh(book)) \in Nat
    BY FreshIsFinite
  <2>2. Cardinality(Fresh(book)) + K + edits >= MaxLength + MaxEdits
    BY DEF SheetInv, Supply
  <2>3. edits \in Nat /\ edits <= MaxEdits /\ Len(batch) <= MaxLength
    BY BatchAssumption DEF SheetInv, Shapes
  <2>4. MaxLength \in Nat /\ MaxEdits \in Nat
    BY BatchAssumption
  <2> HIDE DEF K, n
  <2>5. QED
    BY <1>1, <1>2, <2>1, <2>2, <2>3, <2>4
<1>6. QED
  BY <1>1, <1>2, <1>3, <1>4, <1>5

\* A flush that validation foresaw is not refused.
LEMMA FlushIsForeseen ==
    ASSUME Inv, SheetInv, request.phase = "apply", edits = 0, Foreseen
    PROVE  After(book, Operations(request.pending)).ok
<1> DEFINE ops == Operations(request.pending)
           n == Len(request.pending)
           K == Len(effects)
<1>1. /\ ops \in Seq(StructuralOperation) /\ Len(ops) = n
      /\ K \in Nat /\ n \in Nat /\ K + n <= Len(batch)
      /\ \A i \in 1..n : ops[i] = batch[K + i]
      /\ Cardinality(Fresh(book)) >= n
  BY PendingIsNext
<1>2. /\ batch \in Seq(Operation) /\ seen \in Book /\ book \in Book
      /\ DistinctTitles(seen) /\ Valid(seen, batch) /\ Tracks(K, book)
  BY DEF Inv, Progress, SheetInv, Shapes, Course, Ready
<1> HIDE DEF ops, n, K
<1>3. PICK u : Flushes(u, book, ops) /\ After(book, ops) = u[Len(ops)]
  BY <1>1, <1>2, AfterIsTheEnd
<1>4. \A i \in 0..Len(ops) : u[i].ok /\ Tracks(K + i, u[i].book)
  BY <1>1, <1>2, <1>3, TracksFlushed
<1>5. u[Len(ops)].ok
  BY <1>1, <1>4
<1>6. QED
  BY <1>3, <1>5 DEF ops

LEMMA InspectSheets == ASSUME Inv, SheetInv, Inspect PROVE SheetInv'
<1>1. /\ request.phase = "inspect" /\ seen = book /\ effects = <<>> /\ seen' = book
      /\ UNCHANGED <<book, batch, effects, reached, edits>>
  BY DEF Inspect, SheetInv, Course
<1>2. /\ request'.phase = IF Valid(book, batch) THEN "apply" ELSE "rejected"
      /\ request'.pending = request.pending
  BY DEF Inspect, Goto, Inv, Progress, Request
<1>3. OnlyStructure'
  BY <1>1, <1>2 DEF OnlyStructure, SheetInv, Course
<1>4. ASSUME Valid(book, batch)
      PROVE  Ready
  <2>1. Len(effects) = 0
    BY <1>1
  <2>2. Owned(0, book)
    BY <1>1 DEF Owned
  <2>3. Tracks(0, book)
    <3>1. batch \in Seq(Operation) /\ seen \in Book /\ DistinctTitles(book)
      BY <1>1 DEF Inv, Progress, SheetInv, Shapes
    <3>2. Plan(seen, batch)[0] = [titles |-> InUse(seen), deleted |-> {}]
      BY <3>1, PlanGoesOn
    <3>3. \A s \in Present(seen) : /\ book.title[s] # "unused"
                                   /\ book.rows[s] >= seen.rows[s]
      BY <1>1, Words DEF Present, SheetInv, Shapes
    <3>4. QED
      BY <1>1, <3>1, <3>2, <3>3 DEF Tracks
  <2>4. QED
    BY <1>1, <1>4, <2>1, <2>2, <2>3 DEF Ready
<1>5. UNCHANGED <<book, batch, seen, effects, reached, edits>>
  BY <1>1
<1>6. request'.phase = "apply" => Ready
  BY <1>2, <1>4
<1>7. request'.phase \in {"apply", "rejected"}
  BY <1>2
<1>8. QED
  BY <1>3, <1>5, <1>6, <1>7, QuietStep

LEMMA QueueSheets == ASSUME Inv, SheetInv, Queue PROVE SheetInv'
<1>1. /\ request.phase = "apply" /\ ~AtValue /\ ~AtEnd
      /\ UNCHANGED <<book, batch, seen, effects, reached, edits>>
  BY DEF Queue
<1>2. /\ request.pending \in Seq(Nat) /\ request.next \in Nat
      /\ request'.phase = "apply"
      /\ request'.pending = Append(request.pending, request.next)
  BY <1>1 DEF Queue, Inv, Progress, Request
<1>3. ~IsValue(batch[request.next])
  BY <1>1, <1>2 DEF AtValue, AtEnd, Inv, Progress
<1>4. OnlyStructure'
  <2>1. ASSUME NEW j \in DOMAIN request'.pending
        PROVE  ~IsValue(batch[request'.pending[j]])
    <3>1. CASE j \in DOMAIN request.pending
      <4>1. request'.pending[j] = request.pending[j]
        BY <1>2, <3>1
      <4>2. QED
        BY <1>1, <3>1, <4>1 DEF SheetInv, Course, OnlyStructure
    <3>2. CASE j = Len(request.pending) + 1
      BY <1>2, <1>3, <3>2
    <3>3. QED
      BY <1>2, <3>1, <3>2
  <2>2. QED
    BY <1>1, <2>1 DEF OnlyStructure
<1>5. Ready
  BY <1>1 DEF SheetInv, Course
<1>6. QED
  BY <1>1, <1>2, <1>4, <1>5, QuietStep

LEMMA RefusedSheets ==
    ASSUME Inv, SheetInv, FlushRefused \/ ValuesRefused
    PROVE  SheetInv'
<1>1. /\ request.phase = "apply"
      /\ UNCHANGED <<book, batch, seen, effects, reached, edits>>
  BY DEF FlushRefused, ValuesRefused
<1>2. request'.phase = "refused"
  BY DEF FlushRefused, ValuesRefused, Goto, Inv, Progress, Request
<1>3. ASSUME edits = 0, Foreseen
      PROVE  FALSE
  <2>1. CASE FlushRefused
    BY <1>1, <1>3, <2>1, FlushIsForeseen DEF FlushRefused
  <2>2. CASE ValuesRefused
    <3>1. /\ request.pending = <<>> /\ request.next <= Len(batch)
          /\ IsValue(batch[request.next])
          /\ \A s \in Addressed(request.next) : batch[request.next].last > book.rows[s]
      BY <2>2 DEF ValuesRefused, AtValue, Due
    <3> DEFINE K == Len(effects)
    <3>2. K \in Nat /\ request.next = K + 1 /\ K + 1 \in 1..Len(batch)
      BY <1>1, <3>1 DEF Inv, Progress, Request
    <3>3. /\ batch \in Seq(Operation) /\ seen \in Book /\ book \in Book
          /\ DistinctTitles(seen) /\ Valid(seen, batch) /\ Tracks(K, book)
      BY <1>1, <1>3 DEF Inv, Progress, SheetInv, Shapes, Course, Ready
    <3> HIDE DEF K
    <3>4. PICK s \in Present(book) : /\ book.title[s] = Title(K + 1)
                                     /\ batch[K + 1].last <= book.rows[s]
      BY <1>3, <3>1, <3>2, <3>3, ForeseenIsAccepted
    <3>5. batch[K + 1].last \in Nat /\ book.rows[s] \in Nat
      <4>1. batch[K + 1] \in Operation
        BY <3>2, <3>3
      <4>2. batch[K + 1].last \in Nat
        BY <3>1, <3>2, <4>1, Fields
      <4>3. QED
        BY <3>3, <4>2, Words DEF Present
    <3>6. s \in Addressed(K + 1)
      BY <3>4 DEF Addressed
    <3>7. QED
      BY <3>1, <3>2, <3>4, <3>5, <3>6
  <2>3. QED
    BY <2>1, <2>2
<1>4. QED
  BY <1>1, <1>2, <1>3, QuietStep

\* Two sequences of a kind, one after the other.
LEMMA Joined ==
    ASSUME NEW S, NEW a \in Seq(S), NEW b \in Seq(S)
    PROVE  a \o b \in Seq(S) /\ Len(a \o b) = Len(a) + Len(b) /\ Len(b) \in Nat
OBVIOUS

\* What is reached next is added to what was reached.
LEMMA ReachedMore ==
    ASSUME Inv, Inv', SheetInv, batch' = batch, edits' = edits,
           NEW more \in Seq(Sheets), reached' = reached \o more,
           Len(effects') = Len(effects) + Len(more),
           \A i \in 1..Len(more) :
              edits = 0 /\ HasRef(batch[Len(effects) + i]) /\ ~Renamed(Len(effects) + i) =>
                 more[i] = batch[Len(effects) + i].ref
    PROVE  /\ reached' \in Seq(Sheets) /\ Len(reached') = Len(effects')
           /\ ReachesUnlessRenamed'
<1> DEFINE K == Len(effects)
<1>1. reached \in Seq(Sheets) /\ Len(reached) = K /\ K \in Nat
  BY DEF SheetInv, Shapes, Inv, Progress
<1>2. reached' \in Seq(Sheets) /\ Len(reached') = Len(effects') /\ Len(more) \in Nat
  <2>1. reached' = reached \o more /\ Len(effects') = K + Len(more)
    OBVIOUS
  <2>2. /\ reached \o more \in Seq(Sheets)
        /\ Len(reached \o more) = Len(reached) + Len(more) /\ Len(more) \in Nat
    BY <1>1, Joined
  <2>3. QED
    BY <1>1, <2>1, <2>2
<1>3. /\ \A k \in 1..K : effects[k] = k
      /\ effects' \in Seq(Nat) /\ \A k \in 1..(K + Len(more)) : effects'[k] = k
  <2>1. effects \in Seq(Nat) /\ \A k \in DOMAIN effects : effects[k] = k
    BY DEF Inv, Progress, AppliedInOrder
  <2>2. effects' \in Seq(Nat) /\ \A k \in DOMAIN effects' : effects'[k] = k
    BY DEF Inv, Progress, AppliedInOrder
  <2>3. Len(effects') = K + Len(more)
    OBVIOUS
  <2>4. DOMAIN effects = 1..K /\ DOMAIN effects' = 1..(K + Len(more))
    BY <2>1, <2>2, <2>3
  <2>5. QED
    BY <2>1, <2>2, <2>4
<1>4. ASSUME edits = 0, NEW k \in 1..(K + Len(more)), HasRef(batch[k]), ~Renamed(k)
      PROVE  reached'[k] = batch[k].ref
  <2>1. CASE k \in 1..K
    <3>1. reached'[k] = reached[k]
      BY <1>1, <1>2, <2>1
    <3>2. k \in DOMAIN effects /\ effects[k] = k
      BY <1>1, <1>3, <2>1 DEF Inv, Progress
    <3>3. QED
      BY <1>4, <3>1, <3>2 DEF SheetInv, ReachesUnlessRenamed
  <2>2. CASE k \notin 1..K
    <3>1. k - K \in 1..Len(more) /\ K + (k - K) = k
      BY <1>1, <1>2, <2>2
    <3>2. reached'[k] = more[k - K]
      BY <1>1, <1>2, <3>1
    <3>3. QED
      BY <1>4, <3>1, <3>2
  <2>3. QED
    BY <2>1, <2>2
<1>5. \A k : Renamed(k)' <=> Renamed(k)
  BY DEF Renamed
<1>6. ReachesUnlessRenamed'
  <2>1. SUFFICES ASSUME edits = 0, NEW k \in DOMAIN effects',
                        HasRef(batch[effects'[k]]), ~Renamed(effects'[k])
                 PROVE  reached'[k] = batch[effects'[k]].ref
    BY <1>5 DEF ReachesUnlessRenamed, Renamed, HasRef
  <2>2. k \in 1..(K + Len(more)) /\ effects'[k] = k
    BY <1>3
  <2>3. QED
    BY <1>4, <2>1, <2>2
<1>7. QED
  BY <1>2, <1>6

LEMMA FlushSheets == ASSUME Inv, Inv', SheetInv, Flush PROVE SheetInv'
<1> DEFINE ops == Operations(request.pending)
           n == Len(request.pending)
           K == Len(effects)
<1>1. /\ request.phase = "apply" /\ After(book, ops).ok
      /\ book' = After(book, ops).book /\ reached' = reached \o After(book, ops).reached
      /\ effects' = effects \o request.pending
      /\ UNCHANGED <<batch, seen, edits>>
  BY DEF Flush
<1>2. /\ ops \in Seq(StructuralOperation) /\ Len(ops) = n
      /\ K \in Nat /\ n \in Nat /\ Len(batch) \in Nat /\ K + n <= Len(batch)
      /\ \A i \in 1..n : ops[i] = batch[K + i]
      /\ Cardinality(Fresh(book)) >= n /\ Cardinality(Fresh(book)) \in Nat
  BY <1>1, PendingIsNext
<1>3. Len(effects') = K + n
  BY <1>1 DEF Inv, Progress, Request
<1>4. /\ batch \in Seq(Operation) /\ seen \in Book /\ book \in Book
      /\ DistinctTitles(seen) /\ edits \in 0..MaxEdits /\ Len(batch) <= MaxLength
      /\ Ready
  BY <1>1 DEF Inv, Progress, SheetInv, Shapes, Course
<1> HIDE DEF ops, n, K
<1>5. PICK u : Flushes(u, book, ops) /\ After(book, ops) = u[Len(ops)]
  BY <1>2, <1>4, AfterIsTheEnd
<1>6. /\ u[n] \in Result /\ u[n].ok /\ book' = u[n].book
      /\ reached' = reached \o u[n].reached
  BY <1>1, <1>2, <1>5 DEF Flushes
<1>7. /\ Cardinality(Fresh(u[n].book)) >= Cardinality(Fresh(book)) - n
      /\ u[n].reached \in Seq(Sheets) /\ Len(u[n].reached) = n
      /\ \A j \in 1..n : HasRef(ops[j]) => u[n].reached[j] = ops[j].ref
  <2>1. n \in 0..Len(ops)
    BY <1>2
  <2>2. Cardinality(Fresh(book)) >= Len(ops) /\ Flushes(u, book, ops)
    BY <1>2, <1>5
  <2>3. \A i \in 0..Len(ops) :
          /\ Cardinality(Fresh(u[i].book)) >= Cardinality(Fresh(book)) - i
          /\ u[i].reached \in Seq(Sheets)
          /\ u[i].ok => /\ Len(u[i].reached) = i
                        /\ \A j \in 1..i : HasRef(ops[j]) => u[i].reached[j] = ops[j].ref
    <3>1. book \in Book /\ ops \in Seq(StructuralOperation)
      BY <1>2, <1>4
    <3>2. QED
      BY <2>2, <3>1, FlushReaches
  <2>4. QED
    BY <1>6, <2>1, <2>3
<1>8. reached' \in Seq(Sheets) /\ Len(reached') = Len(effects') /\ ReachesUnlessRenamed'
  <2> DEFINE more == u[n].reached
  <2>1. more \in Seq(Sheets) /\ reached' = reached \o more /\ Len(more) = n
    BY <1>6, <1>7
  <2>2. \A i \in 1..Len(more) : HasRef(batch[K + i]) => more[i] = batch[K + i].ref
    BY <1>2, <1>7
  <2> HIDE DEF more
  <2>3. QED
    BY <1>1, <1>3, <2>1, <2>2, ReachedMore DEF K
<1>9. Shapes'
  <2>1. book' \in Book
    BY <1>6 DEF Result
  <2>2. DistinctTitles(seen)'
    BY <1>1, <1>4 DEF DistinctTitles, Present
  <2>3. QED
    BY <1>1, <1>4, <1>8, <2>1, <2>2 DEF Shapes
<1>10. Supply'
  <2>1. Cardinality(Fresh(book)) + K + edits >= MaxLength + MaxEdits
    BY DEF SheetInv, Supply, K
  <2>2. Cardinality(Fresh(book')) \in Nat /\ edits \in Nat
    BY <1>4, FreshIsFinite, BatchAssumption
  <2>3. MaxLength \in Nat /\ MaxEdits \in Nat
    BY BatchAssumption
  <2>4. Cardinality(Fresh(book')) + (K + n) + edits >= MaxLength + MaxEdits
    BY <1>2, <1>6, <1>7, <2>1, <2>2, <2>3
  <2>5. Fresh(book)' = Fresh(book')
    BY DEF Fresh
  <2>6. QED
    BY <1>1, <1>3, <2>4, <2>5 DEF Supply
<1>11. Ready'
  <2>1. ASSUME edits = 0
        PROVE  Owned(Len(effects), book)'
    <3>1. Owned(K, book)
      BY <1>4, <2>1 DEF Ready, K
    <3>2. Owned(K + n, u[n].book)
      <4>1. n \in 0..Len(ops)
        BY <1>2
      <4>2. QED
        BY <1>2, <1>4, <1>5, <3>1, <4>1, OwnedFlushed
    <3>3. QED
      BY <1>1, <1>3, <1>6, <3>2, SameReading
  <2>2. ASSUME edits = 0, Foreseen
        PROVE  Tracks(Len(effects), book)'
    <3>1. Tracks(K, book) /\ Valid(seen, batch)
      BY <1>4, <2>2 DEF Ready, K
    <3>2. Tracks(K + n, u[n].book)
      <4>1. n \in 0..Len(ops)
        BY <1>2
      <4>2. QED
        BY <1>2, <1>4, <1>5, <2>2, <3>1, <4>1, TracksFlushed
    <3>3. QED
      BY <1>1, <1>3, <1>6, <3>2, SameReading
  <2>3. Foreseen' => Foreseen
    BY <1>1, SameReading
  <2>4. QED
    BY <1>1, <1>4, <2>1, <2>2, <2>3 DEF Ready
<1>12. \/ request'.phase = "apply" /\ request'.pending = <<>>
       \/ request'.phase = "failed"
  BY <1>1 DEF Flush, Flushed, Goto, Inv, Progress, Request
<1>13. Course'
  BY <1>11, <1>12 DEF Course, OnlyStructure
<1>14. RefusalsExplained'
  BY <1>12 DEF RefusalsExplained
<1>15. QED
  BY <1>8, <1>9, <1>10, <1>13, <1>14 DEF SheetInv

LEMMA WriteSheets == ASSUME Inv, Inv', SheetInv, WriteValues PROVE SheetInv'
<1> DEFINE K == Len(effects)
<1>1. /\ request.phase = "apply" /\ request.next <= Len(batch)
      /\ IsValue(batch[request.next]) /\ request.pending = <<>>
      /\ UNCHANGED <<batch, seen, edits>>
      /\ effects' = Append(effects, request.next)
  BY DEF WriteValues, AtValue, Due
<1>2. /\ K \in Nat /\ request.next = K + 1 /\ K + 1 \in 1..Len(batch)
      /\ effects \in Seq(Nat) /\ batch \in Seq(Operation)
  BY <1>1 DEF Inv, Progress, Request
<1>3. Len(effects') = K + 1
  BY <1>1, <1>2
<1>4. PICK s \in Addressed(K + 1) :
          /\ book' = [book EXCEPT !.rows[s] = @ + Added(batch[K + 1])]
          /\ reached' = Append(reached, s)
  BY <1>2 DEF WriteValues
<1>5. s \in Sheets
  BY <1>4 DEF Addressed, Present
<1>6. /\ seen \in Book /\ book \in Book
      /\ DistinctTitles(seen) /\ edits \in 0..MaxEdits /\ Len(batch) <= MaxLength
      /\ Ready
  BY <1>1 DEF SheetInv, Shapes, Course
<1>0. Longer(book, book')
  BY <1>4, <1>5, <1>6, AddedRows
<1>7. reached' \in Seq(Sheets) /\ Len(reached') = Len(effects') /\ ReachesUnlessRenamed'
  <2> DEFINE more == <<s>>
  <2>1. more \in Seq(Sheets) /\ Len(more) = 1 /\ more[1] = s
    BY <1>5
  <2>2. reached' = reached \o more
    BY <1>4, <1>5 DEF SheetInv, Shapes
  <2>3. edits = 0 /\ ~Renamed(K + 1) => s = batch[K + 1].ref
    <3>1. edits = 0 => Valid(seen, batch) /\ Owned(K, book)
      BY <1>6 DEF Ready
    <3> HIDE DEF K
    <3>2. QED
      BY <1>1, <1>2, <1>4, <1>6, <3>1, TitleLeadsBack
  <2>4. \A i \in 1..Len(more) :
          edits = 0 /\ HasRef(batch[K + i]) /\ ~Renamed(K + i) => more[i] = batch[K + i].ref
    BY <2>1, <2>3
  <2>5. Len(effects') = K + Len(more)
    BY <1>3, <2>1
  <2> HIDE DEF more
  <2>6. QED
    BY <1>1, <2>1, <2>2, <2>4, <2>5, ReachedMore
<1>8. Shapes'
  <2>1. DistinctTitles(seen)'
    BY <1>1, <1>6 DEF DistinctTitles, Present
  <2>2. QED
    BY <1>0, <1>1, <1>6, <1>7, <2>1 DEF Shapes, Longer
<1>9. Supply'
  <2>1. Cardinality(Fresh(book)) + K + edits >= MaxLength + MaxEdits
    BY DEF SheetInv, Supply
  <2>2. Cardinality(Fresh(book)) \in Nat /\ edits \in Nat /\ MaxLength \in Nat /\ MaxEdits \in Nat
    BY <1>6, FreshIsFinite, BatchAssumption
  <2>3. Cardinality(Fresh(book)) + (K + 1) + edits >= MaxLength + MaxEdits
    BY <1>2, <2>1, <2>2
  <2>4. Fresh(book)' = Fresh(book)
    BY <1>0 DEF Fresh, Longer
  <2>5. QED
    BY <1>1, <1>3, <2>3, <2>4 DEF Supply
<1>10. Ready'
  <2>1. ASSUME edits = 0
        PROVE  Owned(Len(effects), book)'
    <3>1. Owned(K, book)
      BY <1>6, <2>1 DEF Ready
    <3>2. Owned(K + 1, book)
      BY <1>2, <3>1, OwnedLater
    <3>3. Owned(K + 1, book')
      BY <1>0, <3>2 DEF Owned, Present, Longer
    <3>4. QED
      BY <1>1, <1>3, <3>3, SameReading
  <2>2. ASSUME edits = 0, Foreseen
        PROVE  Tracks(Len(effects), book)'
    <3>1. Tracks(K, book)
      BY <1>6, <2>2 DEF Ready
    <3>2. Tracks(K + 1, book')
      <4> HIDE DEF K
      <4>1. QED
        BY <1>0, <1>1, <1>2, <1>6, <3>1, TracksKept
    <3>3. QED
      BY <1>1, <1>3, <3>2, SameReading
  <2>3. Foreseen' => Foreseen
    BY <1>1, SameReading
  <2>4. QED
    BY <1>1, <1>6, <2>1, <2>2, <2>3 DEF Ready
<1>11. /\ request'.phase \in {"apply", "failed"}
       /\ request'.pending = <<>>
  BY <1>1 DEF WriteValues, Goto, Inv, Progress, Request
<1>12. Course'
  BY <1>10, <1>11 DEF Course, OnlyStructure
<1>13. RefusalsExplained'
  BY <1>11 DEF RefusalsExplained
<1>14. QED
  BY <1>7, <1>8, <1>9, <1>12, <1>13 DEF SheetInv

\* A batchUpdate of one request.
LEMMA AfterOne ==
    ASSUME NEW b \in Book, NEW op \in StructuralOperation, After(b, <<op>>).ok
    PROVE  Accepts(b, op) /\ After(b, <<op>>).book = Changed(b, op)
<1> DEFINE ops == <<op>>
<1>1. ops \in Seq(StructuralOperation) /\ Len(ops) = 1 /\ ops[1] = op
  OBVIOUS
<1> HIDE DEF ops
<1>2. PICK u : Flushes(u, b, ops) /\ After(b, ops) = u[Len(ops)]
  BY <1>1, AfterIsTheEnd
<1>3. u[0] = Untouched(b) /\ u[1] = Carried(u[1 - 1], ops[1])
  BY <1>1, <1>2 DEF Flushes
<1>4. After(b, ops) = Carried(Untouched(b), op)
  BY <1>1, <1>2, <1>3
<1>5. Untouched(b).ok /\ Untouched(b).book = b
  BY DEF Untouched
<1>6. Carried(Untouched(b), op).ok
  BY <1>4 DEF ops
<1>7. Accepts(b, op)
  BY <1>5, <1>6 DEF Carried, Untouched
<1>8. QED
  BY <1>4, <1>5, <1>7 DEF Carried, ops

LEMMA OtherSheets ==
    ASSUME Inv, SheetInv, NEW op \in Operation, OtherEdit(op)
    PROVE  SheetInv'
<1>1. /\ edits < MaxEdits /\ ~IsValue(op)
      /\ After(book, <<op>>).ok /\ book' = After(book, <<op>>).book
      /\ edits' = edits + 1 /\ request.phase = "apply"
      /\ UNCHANGED <<batch, request, seen, effects, reached>>
  BY DEF OtherEdit
<1>2. op \in StructuralOperation
  BY <1>1, StructuralKinds
<1>3. /\ seen \in Book /\ book \in Book /\ reached \in Seq(Sheets)
      /\ Len(reached) = Len(effects) /\ Len(effects) \in Nat
      /\ DistinctTitles(seen) /\ edits \in 0..MaxEdits /\ Len(batch) <= MaxLength
      /\ Ready /\ OnlyStructure
  BY <1>1 DEF SheetInv, Shapes, Course, Inv, Progress
<1>4. Accepts(book, op) /\ book' = Changed(book, op)
  BY <1>1, <1>2, <1>3, AfterOne
<1>5. MaxLength \in Nat /\ MaxEdits \in Nat /\ edits \in Nat /\ edits' \in 1..MaxEdits
  BY <1>1, <1>3, BatchAssumption
<1>6. Shapes'
  <2>1. book' \in Book
    BY <1>2, <1>3, <1>4, ChangeOf
  <2>2. DistinctTitles(seen)'
    BY <1>1, <1>3 DEF DistinctTitles, Present
  <2>3. QED
    BY <1>1, <1>3, <1>5, <2>1, <2>2 DEF Shapes
<1>7. Supply'
  <2>1. Cardinality(Fresh(book)) + Len(effects) + edits >= MaxLength + MaxEdits
    BY DEF SheetInv, Supply
  <2>2. Cardinality(Fresh(book')) >= Cardinality(Fresh(book)) - 1
    BY <1>2, <1>3, <1>4, OneIdAtMost
  <2>3. Cardinality(Fresh(book)) \in Nat /\ Cardinality(Fresh(book')) \in Nat
    BY FreshIsFinite
  <2>4. Cardinality(Fresh(book')) + Len(effects) + (edits + 1) >= MaxLength + MaxEdits
    BY <1>3, <1>5, <2>1, <2>2, <2>3
  <2>5. Fresh(book)' = Fresh(book')
    BY DEF Fresh
  <2>6. QED
    BY <1>1, <2>4, <2>5 DEF Supply
<1>8. edits' # 0
  BY <1>5
<1>9. Ready'
  BY <1>1, <1>3, <1>8 DEF Ready
<1>10. Course'
  BY <1>1, <1>3, <1>9 DEF Course, OnlyStructure
<1>11. ReachesUnlessRenamed' /\ RefusalsExplained'
  BY <1>8 DEF ReachesUnlessRenamed, RefusalsExplained
<1>12. QED
  BY <1>6, <1>7, <1>10, <1>11 DEF SheetInv

LEMMA SheetStep == ASSUME Inv, SheetInv, [Next]_vars PROVE Inv' /\ SheetInv'
<1>0. Inv'
  BY InvStep
<1>1. CASE Inspect
  BY <1>0, <1>1, InspectSheets
<1>2. CASE Queue
  BY <1>0, <1>2, QueueSheets
<1>3. CASE Flush
  BY <1>0, <1>3, FlushSheets
<1>4. CASE FlushRefused \/ ValuesRefused
  BY <1>0, <1>4, RefusedSheets
<1>5. CASE WriteValues
  BY <1>0, <1>5, WriteSheets
<1>6. CASE Finish \/ Fail
  <2>1. UNCHANGED <<book, batch, seen, effects, reached, edits>>
    BY <1>6 DEF Finish, Fail
  <2>2. request'.phase \in {"done", "failed"}
    BY <1>6 DEF Finish, Fail, Goto, Inv, Progress, Request
  <2>3. QED
    BY <1>0, <2>1, <2>2, QuietStep
<1>7. CASE \E op \in Operation : OtherEdit(op)
  BY <1>0, <1>7, OtherSheets
<1>8. CASE UNCHANGED vars
  <2>1. UNCHANGED <<book, batch, seen, effects, reached, edits>> /\ request' = request
    BY <1>8 DEF vars
  <2>2. /\ request'.phase = "apply" => Ready
        /\ request'.phase \in {"inspect", "apply"} => OnlyStructure'
    BY <2>1 DEF SheetInv, Course, OnlyStructure
  <2>3. QED
    BY <1>0, <2>1, <2>2, QuietStep
<1>9. QED
  BY <1>1, <1>2, <1>3, <1>4, <1>5, <1>6, <1>7, <1>8 DEF Next

\* The spreadsheet stays one, and what is reached are its sheets: the ids of
\* the provider suffice for the sheets that requests and others create.
THEOREM TypeCorrect == Spec => []TypeOK
<1>1. Inv /\ SheetInv => TypeOK
  BY DEF Inv, Progress, SheetInv, Shapes, TypeOK
<1>2. QED
  BY <1>1, InitInv, InitSheets, SheetStep, PTL DEF Spec

\* Undisturbed by others, and with no rename before it in the request, an
\* operation reaches the sheet that its sheet_ref names, though value calls
\* go by the title that was read at the start.
THEOREM ReachesWhatItNames == Spec => []ReachesUnlessRenamed
<1>1. SheetInv => ReachesUnlessRenamed
  BY DEF SheetInv
<1>2. QED
  BY <1>1, InitInv, InitSheets, SheetStep, PTL DEF Spec

\* Undisturbed by others, a validated request is refused half way only for
\* what validation does not look at: the titles and deletions that it plans
\* with foresee every other refusal of the provider.
THEOREM RefusalsForeseen == Spec => []RefusalsExplained
<1>1. SheetInv => RefusalsExplained
  BY DEF SheetInv
<1>2. QED
  BY <1>1, InitInv, InitSheets, SheetStep, PTL DEF Spec

===============================================================================
