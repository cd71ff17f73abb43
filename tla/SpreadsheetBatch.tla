-------------------------- MODULE SpreadsheetBatch --------------------------
(***************************************************************************)
(* One edit_source_spreadsheet request (app/knowledge.py): the operations  *)
(* of the request are validated against the spreadsheet's structure as it  *)
(* was read, and then sent by GoogleSheetsAdapter.apply_operations, values *)
(* one call each, structural operations collected and flushed together.    *)
(*                                                                         *)
(* A sheet_ref names a sheet by its id; structural requests carry the id,  *)
(* value calls the title that was read with the structure.  Nothing keeps  *)
(* others from editing the spreadsheet meanwhile (concurrency_control is   *)
(* none).  Cells are left out: what matters is which sheet a call reaches, *)
(* and whether its rows are there.  Titles stand for their case-folded     *)
(* form.  Every call is taken to be sent once by the HTTP library.         *)
(***************************************************************************)
EXTENDS Integers, FiniteSets, Sequences

CONSTANTS
    Sheets,     \* sheet ids, those of the sheets to be created included
    Existing,   \* the sheets there are to begin with
    Refs,       \* the sheets that sheet_refs in requests name
    Titles,     \* sheet titles
    Rows,       \* rows of the existing sheets
    MaxLength,  \* bound on the length of a request; the code's is 50
    MaxTabs,    \* MAX_TAB_MUTATIONS
    MaxEdits,   \* bound on the edits of other users
    Faulty      \* whether calls may fail

ASSUME BatchAssumption ==
    /\ IsFiniteSet(Sheets) /\ Refs \subseteq Sheets
    /\ Existing \subseteq Sheets /\ Existing # {}
    /\ Titles \cap {"unused", "deleted"} = {}
    /\ Rows \in Nat \ {0} /\ MaxLength \in Nat /\ MaxTabs \in Nat
    /\ MaxEdits \in Nat /\ Faulty \in BOOLEAN
    \* The provider has an id for every sheet that may be created.
    /\ Cardinality(Sheets \ (Existing \cup Refs)) >= MaxLength + MaxEdits

VARIABLES
    book,     \* the spreadsheet: its sheets' titles and numbers of rows
    batch,    \* the operations of the request
    request,  \* where the request is
    seen,     \* the structure as the request read it
    effects,  \* history: the operations that were applied, in order
    reached,  \* history: the sheet each of them was applied to
    edits     \* the edits of other users so far

vars == <<book, batch, request, seen, effects, reached, edits>>

-----------------------------------------------------------------------------
(* Operations.  Columns are treated like rows by the code, and formatting  *)
(* stands for the structural requests that change no structure.  "values"  *)
(* writes or clears a range, "append" adds rows after the table in it; of  *)
(* a range the model has the last row.                                     *)

ValueOperation == [kind : {"values", "append"}, ref : Refs, last : 1..(Rows + 1)]
RowOperation   == [kind : {"insert", "remove"}, ref : Refs,
                   at : 0..(Rows + 1), count : 1..Rows]
Operation ==
    ValueOperation \cup RowOperation
    \cup [kind : {"create"}, title : Titles]
    \cup [kind : {"rename"}, ref : Refs, title : Titles]
    \cup [kind : {"delete"}, ref : Refs]
    \cup [kind : {"format"}, ref : Refs, last : 1..(Rows + 1)]

HasRef(op)   == op.kind # "create"
HasRange(op) == op.kind \in {"values", "append", "format"}
IsValue(op)  == op.kind \in {"values", "append"}

-----------------------------------------------------------------------------
(* The provider.                                                           *)

Book == [title : [Sheets -> Titles \cup {"unused", "deleted"}],
         rows  : [Sheets -> Nat]]

Present(b) == {s \in Sheets : b.title[s] \in Titles}
InUse(b)   == {b.title[s] : s \in Present(b)}

\* The id of the next sheet that is created.
NewSheet(b) == CHOOSE s \in Sheets : b.title[s] = "unused"

\* Whether the provider carries out a structural request.  Rows are inserted
\* with inheritFromBefore false, that is like the row that is there, so there
\* has to be one.
Accepts(b, op) ==
    CASE op.kind = "create" -> op.title \notin InUse(b)
      [] op.kind = "rename" -> /\ op.ref \in Present(b)
                               /\ \A s \in Present(b) \ {op.ref} : b.title[s] # op.title
      [] op.kind = "delete" -> op.ref \in Present(b) /\ Present(b) # {op.ref}
      [] op.kind = "insert" -> op.ref \in Present(b) /\ op.at < b.rows[op.ref]
      [] op.kind = "remove" -> /\ op.ref \in Present(b)
                               /\ op.at + op.count <= b.rows[op.ref]
                               /\ op.count < b.rows[op.ref]
      [] op.kind = "format" -> op.ref \in Present(b) /\ op.last <= b.rows[op.ref]

\* Mutant of Reached: a new sheet is known by its title.
ReachedTitle(b, op) == IF op.kind = "create" THEN op.title ELSE op.ref

\* The sheet a structural request reaches.
Reached(b, op) == IF op.kind = "create" THEN NewSheet(b) ELSE op.ref

Changed(b, op) ==
    CASE op.kind = "create" -> [b EXCEPT !.title[NewSheet(b)] = op.title,
                                         !.rows[NewSheet(b)] = Rows]
      [] op.kind = "rename" -> [b EXCEPT !.title[op.ref] = op.title]
      [] op.kind = "delete" -> [b EXCEPT !.title[op.ref] = "deleted"]
      [] op.kind = "insert" -> [b EXCEPT !.rows[op.ref] = @ + op.count]
      [] op.kind = "remove" -> [b EXCEPT !.rows[op.ref] = @ - op.count]
      [] op.kind = "format" -> b

\* One request of a batchUpdate, after what came of those before it.
Carried(result, op) ==
    IF ~result.ok \/ ~Accepts(result.book, op)
    THEN [result EXCEPT !.ok = FALSE]
    ELSE [ok      |-> TRUE,
          book    |-> Changed(result.book, op),
          reached |-> Append(result.reached, Reached(result.book, op))]

\* batchUpdate: all requests, one after the other, or none.  After(b, ops)
\* has the spreadsheet after the last of them and the sheets they reached.
After(b, ops) ==
    LET run[k \in 0..Len(ops)] ==
          IF k = 0 THEN [ok |-> TRUE, book |-> b, reached |-> <<>>]
          ELSE Carried(run[k - 1], ops[k])
    IN  run[Len(ops)]

-----------------------------------------------------------------------------
(* SpreadsheetMutationPolicy.validate_operations, against the structure    *)
(* that was read: the titles it plans with and the refs it sees deleted.   *)

\* Mutant of OtherTitles: renames are not checked against other titles.
NoTitles(plan, read, op) == {}

\* Titles of the sheets but the one that is renamed; its title is the one
\* that was read, whatever the request did to it since.
OtherTitles(plan, read, op) == plan.titles \ {read.title[op.ref]}

Allowed(plan, read, op) ==
    CASE op.kind = "create" -> op.title \notin plan.titles
      [] op.kind = "rename" -> op.title \notin OtherTitles(plan, read, op)
      [] op.kind = "delete" ->
           Cardinality(InUse(read)) - Cardinality(plan.deleted \cup {op.ref}) >= 1
      [] op.kind = "insert" -> op.at <= read.rows[op.ref]
      [] op.kind = "remove" -> op.at + op.count <= read.rows[op.ref]
      [] OTHER -> TRUE

Planned(plan, read, op) ==
    CASE op.kind = "create" -> [plan EXCEPT !.titles = @ \cup {op.title}]
      [] op.kind = "rename" ->
           [plan EXCEPT !.titles = OtherTitles(plan, read, op) \cup {op.title}]
      [] op.kind = "delete" -> [plan EXCEPT !.deleted = @ \cup {op.ref}]
      [] OTHER -> plan

TabMutations(ops) ==
    {k \in DOMAIN ops : ops[k].kind \in {"create", "rename", "delete"}}

\* What is planned after each operation.
Plan(read, ops) ==
    LET plan[k \in 0..Len(ops)] ==
          IF k = 0 THEN [titles |-> InUse(read), deleted |-> {}]
          ELSE Planned(plan[k - 1], read, ops[k])
    IN  plan

Valid(read, ops) ==
    /\ ops # <<>>
    /\ \A k \in DOMAIN ops : HasRef(ops[k]) => ops[k].ref \in Present(read)
    /\ \A k \in DOMAIN ops : Allowed(Plan(read, ops)[k - 1], read, ops[k])
    /\ Cardinality(TabMutations(ops)) <= MaxTabs

-----------------------------------------------------------------------------
(* The request.                                                            *)

Phase == {"inspect", "apply", "done", "rejected", "refused", "failed"}

Request == [phase : Phase, next : Nat, pending : Seq(Nat)]

Goto(phase) == request' = [request EXCEPT !.phase = phase]

Operations(ks) == [j \in DOMAIN ks |-> batch[ks[j]]]

\* Inspect the structure and validate every operation against it.
Inspect ==
    /\ request.phase = "inspect"
    /\ seen' = book
    /\ Goto(IF Valid(book, batch) THEN "apply" ELSE "rejected")
    /\ UNCHANGED <<book, batch, effects, reached, edits>>

AtValue == request.next <= Len(batch) /\ IsValue(batch[request.next])
AtEnd   == request.next > Len(batch)

\* A structural operation is kept for the next flush.
Queue ==
    /\ request.phase = "apply"
    /\ ~AtValue /\ ~AtEnd
    /\ request' = [request EXCEPT !.next = @ + 1,
                                  !.pending = Append(@, request.next)]
    /\ UNCHANGED <<book, batch, seen, effects, reached, edits>>

\* Mutant of Due: structural operations wait for the end of the request.
DueAtEnd == request.pending # <<>> /\ AtEnd

\* Mutant of Due: no flush after the last operation.
DueAtValue == request.pending # <<>> /\ AtValue

\* flush_structural_requests has something to send.
Due == request.pending # <<>> /\ (AtValue \/ AtEnd)

\* What is pending after a flush.
Flushed == <<>>

Flush ==
    /\ request.phase = "apply"
    /\ Due
    /\ LET sent == After(book, Operations(request.pending)) IN
       /\ sent.ok
       /\ book' = sent.book
       /\ reached' = reached \o sent.reached
    /\ effects' = effects \o request.pending
    /\ \/ request' = [request EXCEPT !.pending = Flushed]
       \/ Faulty /\ Goto("failed")  \* the answer is lost
    /\ UNCHANGED <<batch, seen, edits>>

FlushRefused ==
    /\ request.phase = "apply"
    /\ Due
    /\ ~After(book, Operations(request.pending)).ok
    /\ Goto("refused")
    /\ UNCHANGED <<book, batch, seen, effects, reached, edits>>

\* The title that sheet_title_resolver gives for the operation's sheet.
Title(k) == seen.title[batch[k].ref]

\* Mutant of Addressed: the call goes to the sheet that is first in the book.
FirstSheet(k) == {CHOOSE s \in Present(book) : TRUE}

\* The provider finds a value call's sheet by its title.
Addressed(k) == {s \in Present(book) : book.title[s] = Title(k)}

\* The rows that a value call adds to its sheet (append uses INSERT_ROWS).
Added(op) == IF op.kind = "append" THEN 1 ELSE 0

WriteValues ==
    /\ request.phase = "apply"
    /\ AtValue /\ ~Due
    /\ \E s \in Addressed(request.next) :
         /\ book' = [book EXCEPT !.rows[s] = @ + Added(batch[request.next])]
         /\ reached' = Append(reached, s)
    /\ effects' = Append(effects, request.next)
    /\ \/ request' = [request EXCEPT !.next = @ + 1]
       \/ Faulty /\ Goto("failed")
    /\ UNCHANGED <<batch, seen, edits>>

\* There is no such sheet, or the range goes past its end: then the provider
\* may refuse the call, or carry it out for what there is.
ValuesRefused ==
    /\ request.phase = "apply"
    /\ AtValue /\ ~Due
    /\ \A s \in Addressed(request.next) :
           batch[request.next].last > book.rows[s]
    /\ Goto("refused")
    /\ UNCHANGED <<book, batch, seen, effects, reached, edits>>

\* SpreadsheetEditResult.
Finish ==
    /\ request.phase = "apply"
    /\ AtEnd /\ ~Due
    /\ Goto("done")
    /\ UNCHANGED <<book, batch, seen, effects, reached, edits>>

\* A call fails without effect, or the request is cancelled.
Fail ==
    /\ Faulty
    /\ request.phase \in {"inspect", "apply"}
    /\ Goto("failed")
    /\ UNCHANGED <<book, batch, seen, effects, reached, edits>>

\* Somebody else edits the spreadsheet while the request is being served: its
\* sheets, or their rows, of which one more or one less stands for all.
OtherEdit(op) ==
    /\ edits < MaxEdits
    /\ request.phase = "apply"
    /\ ~HasRange(op)
    /\ op \in RowOperation => op.at = 0 /\ op.count = 1
    /\ After(book, <<op>>).ok
    /\ book' = After(book, <<op>>).book
    /\ edits' = edits + 1
    /\ UNCHANGED <<batch, request, seen, effects, reached>>

-----------------------------------------------------------------------------

\* A spreadsheet whose existing sheets have distinct titles.
InitialBook(titles) ==
    [title |-> [s \in Sheets |-> CASE s \in Existing -> titles[s]
                                  [] s \in Refs \ Existing -> "deleted"
                                  [] OTHER -> "unused"],
     rows  |-> [s \in Sheets |-> IF s \in Existing THEN Rows ELSE 0]]

Init ==
    /\ \E titles \in [Existing -> Titles] :
         /\ \A s, u \in Existing : titles[s] = titles[u] => s = u
         /\ book = InitialBook(titles)
    /\ \E n \in 0..MaxLength : batch \in [1..n -> Operation]
    /\ seen = book
    /\ request = [phase |-> "inspect", next |-> 1, pending |-> <<>>]
    /\ effects = <<>>
    /\ reached = <<>>
    /\ edits = 0

Next ==
    \/ Inspect \/ Queue \/ Flush \/ FlushRefused \/ WriteValues \/ ValuesRefused
    \/ Finish \/ Fail
    \/ \E op \in Operation : OtherEdit(op)

Spec == Init /\ [][Next]_vars

-----------------------------------------------------------------------------
(* Properties.                                                             *)

TypeOK ==
    /\ book \in Book
    /\ batch \in Seq(Operation)
    /\ request \in Request
    /\ seen \in Book
    /\ effects \in Seq(Nat)
    /\ reached \in Seq(Sheets) /\ Len(reached) = Len(effects)
    /\ edits \in 0..MaxEdits

\* What was applied, at whatever point the request stops, is the beginning of
\* what was asked for, in its order and each operation once.
AppliedInOrder ==
    /\ Len(effects) <= Len(batch)
    /\ \A k \in DOMAIN effects : effects[k] = k

\* A request that reports success applied every operation.
DoneIsComplete == request.phase = "done" => Len(effects) = Len(batch)

\* What the request has passed is applied or pending, in its order.
\* (Inductive with the two above and the types it relies on.)
Progress ==
    /\ batch \in Seq(Operation) /\ effects \in Seq(Nat)
    /\ request \in Request /\ request.next \in 1..(Len(batch) + 1)
    /\ request.phase \in {"inspect", "apply"} =>
         /\ request.next = Len(effects) + Len(request.pending) + 1
         /\ \A j \in DOMAIN request.pending : request.pending[j] = Len(effects) + j

Renamed(k) == \E j \in 1..(k - 1) : batch[j].kind = "rename"

\* An operation reaches the sheet that its sheet_ref names.
ReachesItsSheet ==
    \A k \in DOMAIN effects :
        HasRef(batch[effects[k]]) => reached[k] = batch[effects[k]].ref

\* It does in a request that renames no sheet before it, while nobody else
\* has edited the spreadsheet.
ReachesUnlessRenamed ==
    edits = 0 => \A k \in DOMAIN effects :
        HasRef(batch[effects[k]]) /\ ~Renamed(effects[k]) =>
            reached[k] = batch[effects[k]].ref

\* The rows an operation relies on.
NeedsRows(op) == op \in RowOperation \/ HasRange(op)

\* What validation does not look at: a sheet used after its deletion, renamed
\* twice, addressed by values after its renaming, or whose rows are relied on
\* after some were removed; all rows removed, rows inserted after the last one
\* (the provider inserts before a row), and ranges that go past the end.
Tolerated(k) ==
    LET op == batch[k] IN
    \/ /\ HasRef(op)
       /\ \E j \in 1..(k - 1) :
            /\ HasRef(batch[j]) /\ batch[j].ref = op.ref
            /\ \/ batch[j].kind = "delete"
               \/ batch[j].kind = "rename" /\ (op.kind = "rename" \/ IsValue(op))
               \/ batch[j].kind = "remove" /\ NeedsRows(op)
    \/ op.kind = "remove" /\ op.count >= seen.rows[op.ref]
    \/ op.kind = "insert" /\ op.at = seen.rows[op.ref]
    \/ HasRange(op) /\ op.last > seen.rows[op.ref]

\* While nobody else has edited, and with every call sent once, the provider
\* refuses a validated request only for what validation does not look at.
RefusalsExplained ==
    request.phase = "refused" /\ edits = 0 => \E k \in DOMAIN batch : Tolerated(k)
=============================================================================
