# Verification of the Brunova Knowledge Gateway

TLA+ specifications of the Gateway under `src/app`, the TLC instances that
check them and the TLAPS proofs about them.

The Gateway is one HTTP program run by any number of Cloud Run instances. It
exposes an MCP server and a REST API in front of Google Workspace, HubSpot, n8n,
OpenWA and an acquisition portal. The instances share no memory and no
database: what they share is a few objects in Cloud Storage buckets, the files
in Google Drive, and the services behind them. Everything that serialises two
requests is therefore a conditional write - `if_generation_match` on a bucket
object, a required revision on a document - or nothing at all. That is where
this project looks.

## 1. Inventory

| Component | State | Operations | What is hard |
|---|---|---|---|
| **Agent Signal Inbox** (`agent_signals.py`, `mcp_server.py`, `main.py`, `auth/pubsub_push.py`) | one bucket object per signal; its generation | push delivery (`receive`), `get`, `list`, `status`, `claim`, `complete`, `dismiss`, `release`, `cleanup` | read-decide-write loops of several instances; leases judged by several clocks; at-least-once delivery against deletion; lost answers |
| **HubSpot connection** (`adapters/hubspot/*`) | `connection.json`, one object per pending authorization; access token in memory | begin, callback, refresh with a lease, fail, update account | single-use tokens at a remote service; lease against timeouts; crash between rotation and write |
| **Source proposals** (`source_proposal_store.py`, `source_governance.py`) | one YAML object with all proposals | create, list, resolve | compare-and-swap loop through one shared blob handle |
| **Spreadsheet batches** (`adapters/google_workspace/sheets.py`, `spreadsheet_production.py`) | a spreadsheet | value, structure and format operations of one request | order of flushes, titles read before the batch, partial failure, no concurrency control |
| **Docs editing** (`adapters/google_workspace/docs.py`, `document_production.py`, `knowledge.py`) | a document and its revision | create, rename and delete tabs; structured edits and image edits with a required revision; append | structure read apart from the revision that is required, read-back after the edit, errors after an applied edit |
| **Visual assets** (`visual_assets.py`) | staged blobs that are public for a moment | stage, insert, delete | clean-up when a step fails |
| **DOCX and binary files** (`docx_production.py`, `adapters/google_workspace/drive.py`) | a Drive file and its revisions | replace, edit, create, move | check-then-act on revision, hash and ancestors |
| **n8n and OpenWA clients** (`adapters/n8n`, `adapters/openwa`, `openwa_approval.py`) | a catalogue cached per process | discover, call, invalidate | tiers and names from a cache that is emptied outside its lock |
| **Authentication and policies** (`auth/*`, `middleware/*`, `policies/*`, `source_registry.py`) | configuration | authenticate, authorise | many rules whose order decides |
| **Operation history and audit** (`operation_history.py`, `audit.py`, `adapters/google_cloud_logging.py`) | log entries | emit, list | bounded surplus fetch before filtering |
| **Source discovery** (`source_discovery/*`) | none | bounded scan | - |
| **Acquisition proxy** (`acquisition.py`) | none | forward | - |
| **Runtime, settings, references** (`runtime.py`, `config/*`, `artifact_refs.py`) | configuration | construct, encode | - |

Interactions. `mcp_server.py` calls the inbox for its lifecycle tools after
checking the signal type on a read of its own; `main.py` calls it for push
deliveries and turns its errors into the status codes that make Pub/Sub
redeliver or not. The HubSpot callback of `main.py` consumes a pending state,
exchanges the code, replaces the connection, and then makes a HubSpot tool call
that may itself refresh the token and ends with `update_account`; the same
`update_account` follows the MCP tool `hubspot_get_user_details`. `knowledge.py`
and `source_governance.py` sit between the MCP tools and the Drive, Docs and
Sheets adapters. Every tool emits an audit record, which the history reads
back from Cloud Logging.

What makes each component correct:

- *Inbox*: an acknowledged signal is not lost; nobody but a claim's owner acts on
  the signal while the lease runs; a
  principal acts only on its signal types, up to what the type check can miss; all of it looks like the atomic
  lifecycle the repository's `README.md` draws.
- *HubSpot*: a token is used by one instance at a time while its lease runs; a good connection is never
  disabled or lost; an OAuth state is good for one exchange.
- *Proposals*: no proposal is listed twice or lost to another instance, whatever writers
  race; none is lost at all, which the code does not keep.
- *Spreadsheets, Docs, DOCX, assets*: an edit is applied to the version it was
  computed from, at most once, and what is reported is what happened, up to the limits of sections 7 and 9.
- *Downstream clients*: a call is authorised with the tier and approval of the
  tool that runs.
- *Policies*: no rule grants what a reference definition of the policy denies.
- *History*: a caller sees the newest entries it may see, and no others.

## 2. Plan

The modules, in the order in which they were written:

1. `SignalRecords`, `SignalLifecycle`, `SignalInbox`, `SignalInboxProofs`.
2. `HubSpotConnection`, `HubSpotConnectionProofs`.
3. `ProposalRegistry`, `ProposalStore`, `ProposalStoreProofs`.
4. `SpreadsheetBatch`, `SpreadsheetBatchProofs`.
5. `DocumentEdit`, `DocumentEditProofs`: document edits with the assets they stage.
6. `DownstreamCatalog`, `DownstreamCatalogProofs`: calls, discoveries and failures over
   the n8n and OpenWA catalogues of one process, with approvals.
7. `SourcePolicy`, `ArtifactOperations`, `ArtifactOperationsProofs`: the layers of
   authorisation as operators, and the requests that pass them, look an artifact up and
   act on Drive, composed with the replacement of a DOCX. Here the steps of one tool call
   (authenticate, authorise, read, act, record) are checked in one run.
8. `Induction`: what holds of a number and of a function defined recursively on `0..N`, for
   the proofs about `SpreadsheetBatch` (`After`, `Plan`) and `DownstreamCatalog` (`Mapping`).

Every safety and action property that a passing run checks is a theorem, too; what stays with TLC
is liveness (`EventuallyAcked`). Each component's *Proofs* section gives the argument.

What would come next: the paging of `operation_history.py` and the filter, order and limit
of a signal listing, as operators against a reference; the scopes of signal workers in
`SourcePolicy`; the scan of `source_discovery`, whose bounds cut it as they cut the
walk to an artifact's ancestors.

## 3. Agent Signal Inbox

`SignalRecords` holds the record and the way each transition rewrites it.
`SignalLifecycle` is the abstract specification: one atomic register per signal
with the transitions of the repository's lifecycle diagram, a lease and a
retention. `SignalInbox` is the code.

| Code | Model |
|---|---|
| bucket object, its generation | `obj[s]`, `gen[s]`; `Absent` when there is none |
| `create`, `replace`, `delete` with `if_generation_match` | `Create`, `Replace` and `Matches`, `ListPurge` |
| a lifecycle tool: `_authorized_signal`, then `_update` | `StartCall`, `Get`, `Check`, `Reget`; `Begin`, `Read`, `Write`, `Retry` |
| `_normalize_expired` | `Check` and `Reget` for one signal, `ListNormalize` in a listing |
| `list` and `status`: `cleanup`, then the listing | `ListStart`, `ListSweep`, `ListPurge`, `ListScan`, `ListNormalize`, `ListDone` |
| `receive_agent_signal` | `Deliver`, `Create`, `ReadExisting`, `Respond`, `PushFail` |
| the `signal_type` of the payload and of the record | `TypeOf[m]`, `type[s]` |
| `principal.signal_types` of a signal worker | `Visible[p]` (all types, for other principals) |
| `utc_now` of an instance | any value within `Skew` of `clock` |

Each remote call is a step of its own, and so is the reading of a clock that is
used later: `claim`, `complete` and `dismiss` read it once, before their loop.
A conditional write whose answer is lost is sent again by the storage client and
then refused, so `Write` and `Create` may succeed and report a conflict. A call
may stop anywhere (`Abort`, `ListFail`, `PushFail`): storage errors, cancelled
requests and instances that stop.

The generation of a deleted object is kept, so that generations grow as Cloud
Storage's do. A listing is modelled as one read of everything; the real one
reads page by page and downloads one object at a time, and each item is used
only through a write conditional on its own generation. Of the payload the model has the
type, which `_authorized_signal` checks on a read before that of the transition; the rest, the
filters, the order and limit of a listing and the counts of `status` are left
out: they are read only.

### Properties

| Property | Says |
|---|---|
| `NoSilentLoss` | a valid acknowledged message's signal is stored until somebody ended it |
| `LeaseRespected` | while a claim runs by every clock, only a call of its owner changes the record |
| `CompletedInLease` | a completion lies inside the claim it completes, up to the skew |
| `ConfinedToVisible` | a principal without the signal's type can at most reopen an expired claim, or change a signal that has ended once since or before its type was checked |
| `Inv` | what a request remembers stays true until its conditional write (the inductive invariant; proved, in no run) |
| `EventuallyAcked` | a published message is acknowledged in the end, malformed ones included |
| `ImplementsLifecycle` | the inbox implements `SignalLifecycle` |

### Runs

| Run | Instance | Shows |
|---|---|---|
| `signal_claims` | 2 sessions of 2 principals, 1 signal, 3 writes, clocks off by 1 | `CompletedInLease`, `LeaseRespected` under races |
| `signal_listing` | 1 session, 2 listers, two types of which the session sees one, redeliveries | `TypeOK`, `NoSilentLoss`, `ConfinedToVisible`, `ImplementsLifecycle` with clean-up |
| `signal_delivery` | a valid and a malformed message | `EventuallyAcked` |

Bounds. `Lease = 1` and `Retention = 0` are the smallest values for which a lease runs
and runs out and a terminal signal ages; `MaxTime` leaves room for two claims one
after the other in `signal_claims`, and in `signal_listing` for a claim that runs out and for a
signal that ends, is cleaned up and delivered again, by either of two listers (a delete that is
refused needs two) and with either type. `MaxAttempts = 2` (the code's loop is longer) has a first attempt,
a retry and the giving up. `MaxGen` only stops new calls on a signal written that
often, never a call in flight; with three, the signal's creation, a claim and a
reopening go before the calls that are still in flight, whose own writes come on top. No claim is
made that would outlast `MaxTime`. Signals do not interact except in a listing, so one signal is
enough; that a listing fails half way over several signals is in the theorems only. The
runs over calls stop at their bounds and do not check deadlock; `signal_delivery` does.

Fairness. `DeliveryFairness` is Pub/Sub's: it redelivers until acknowledged, and
neither network nor storage fails one step for ever (strong fairness, since
`PushFail` can always interrupt a request). Nothing in the code reopens claims by
itself: that a claim of a stopped agent reopens depends on somebody listing, and
no liveness is stated of it. Sessions have no fairness: an
agent may stop for good.

Limits the code has and no document denies. A signal id can be ended, cleaned up and published
again with another type between the type check of a call and the read of its transition
(`mcp_server.py:2275`): the transition then changes a signal that the principal could not have
claimed. `ConfinedToVisible` says that this is the only way. And the management principal is one
owner. Two sessions of it can complete or release each other's claims, and
`CompletedInLease` then fails, which is why the run has a principal per session and the
theorem assumes one (`OwnPrincipals`).

### Proofs (`SignalInboxProofs`)

For every value of the constants: `TypeOK`, `Inv`, `NoSilentLoss`, `LeaseRespected`,
`ConfinedToVisible`, and that every step of `SignalInbox` is a step of
`SignalLifecycle` or changes no record; and `CompletedInLease` when no two sessions share
a principal (`CompletionsAreInTheirLease`). The other assumptions are `RecordsAssumption`
and `InboxAssumption`, which say what the constants are.

None of these is inductive by itself: a `Write` in progress has no guard but its
generation. `Inv` adds what the earlier steps of the request established: a record
remembered at a generation is the live record as long as that generation is
live (`Remembers`), the transition's guard held of it, the clock it was judged
with is one that an instance may have read, what a listing is about to delete is
old enough, what a push is about to acknowledge is kept. Generations are what
makes this stable: a write raises the generation of one signal, and all that the
others remember of it then claims nothing. From `Inv`, the lemma `OneTransition`
shows that each step is one transition of the lifecycle; the lease and the
implementation follow from it. `ConfinedToVisible` rests on `TypeConsistent`: the type a call has
checked is the signal's as long as the signal has not ended, because only a delivery that finds no
object sets it. `CompletedInLease` needs one more invariant,
`ClaimInv`: a claim carries a clock reading of the past (`MadeBefore`), hence, up to two
skews, one that is not later than the reading of a completion its owner is about to write
(`MadeBeforeCall`), since an owner that makes a claim is not completing another.

Only model-checked: the liveness property `EventuallyAcked` (liveness is out of the
prover's reach).

## 4. HubSpot connection

| Code | Model |
|---|---|
| `connection.json`, its generation | `conn`, `gen` |
| `refresh_lock_id`, new for each lease | `conn.lock`, the generation the lease was written at |
| `get_access_token` under its process's lock | one refresh in flight per instance, `refresh[r]` |
| `acquire_refresh_lease` | `Acquire` (read), `Lock` (write), `InProgress` (the loop) |
| `oauth.refresh` | `Exchange` |
| `complete_refresh`, `fail_refresh` | `Complete`, `Store`; `Fail`, `Unlock` |
| `update_account` | `ReadAccount`, `WriteAccount` |
| `begin_authorization`, the callback | `Connect`, `CallBack` |
| `consume_pending` | `ReadPending`, `DeletePending` |
| `exchange_code`, `save_connection` | `Grant`, `ReadConnection`, `SaveConnection` |
| HubSpot's token endpoint | `valid`, `issued`, `Issue` |

Tokens are numbered as HubSpot issues them; encryption is left out, and so are the scope
and the account metadata. A refresh starts in `Start` when the instance has
no valid access token, which the model lets happen at any time; when it
succeeds, the access token stays in the process's memory and is not modelled.
HubSpot rejects a refresh (400 or 401) exactly when the token is void, and voids a
token when it answers with a new one; it may also answer without a new one, in
which case the old one stays good. With `Faulty`, storage may be unavailable, an
answer may be lost after or before HubSpot rotated the token, a write may go
through and be reported as a conflict, and an instance may stop anywhere.

Nothing bounds how long a refresh takes: the code has timeouts per network phase and no
total, and the lease (`Ttl`, 30 seconds) is not renewed, so `Tick` may let it run out at any step.
Instances read one clock: two clocks that differ shorten a lease by as much, which is left out.

| Property | Says |
|---|---|
| `ExclusiveUse` | two instances have one token at HubSpot at a time only if the exchange of one outlived its lease before the other took its own |
| `DisabledOnlyIfRejected` | a connection is marked for reauthorization only if HubSpot rejects its token |
| `NeverLost` | without failures the connection keeps a token that is good, or about to be replaced |
| `StateUsedOnce` | an OAuth state is exchanged once (proved, in no run) |

| Run | Instance | Shows |
|---|---|---|
| `hubspot_refresh` | 2 instances, 1 callback over 2 states, 1 account update, faults | `TypeOK`, `ExclusiveUse`, `DisabledOnlyIfRejected` |
| `hubspot_account` | an account update, no faults | `NeverLost` is violated |

Bounds. With `Ttl = 1` and `MaxTime = 1` a lease taken at first runs and runs out, its
holder at any step, and is taken over (in `hubspot_account` they are 2 and 3). With
`MaxTries = 1` for the code's five, a refresh that finds another's lease gives up at once:
a second attempt keeps nothing of the first and begins as a new request does, and the
proofs are for any number. `MaxGen` stops new requests, not those in flight. `MaxToken` covers the
first authorisation, one more, and a rotation: a void token and a good one must both
be about for `DisabledOnlyIfRejected` to be in danger. All runs stop at their bounds and
do not check deadlock. The model has no fairness: it states no liveness.

### A disagreement with the documentation, and a limit

- `hubspot_account`. `main.py:400-401` says the account discovery can be retried
  safely with the governed tools. Its `update_account` writes the whole document
  under a new generation, also while another instance is refreshing. The refresh
  then fails its generation check, the rotated token is dropped, `fail_refresh` does
  nothing for the same reason, and the document keeps a token that HubSpot has
  voided: the next refresh ends in `reauthorization_required`.
- `README.md:963-965` says the lease and the second precondition prevent
  two instances from consuming one single-use token at the same time. They do
  while the lease runs, which is all that `ExclusiveUse` says and all that holds: discovery
  tries up to four URLs with 15 seconds per network phase and the token request has 20,
  against a lease of 30 that is never renewed. When an exchange outlives its lease
  a second instance takes the lease over and sends the same token, and in `hubspot_refresh` that
  happens.

### Proofs (`HubSpotConnectionProofs`)

For any number of instances, callers and callbacks, from `ConnectionAssumption`:

- `TypeCorrect`: `TypeOK`.
- `StatesAreUsedOnce`: `StateUsedOnce`, that no two callbacks exchange one state; it is in no
  run. The invariant `StateInv` says that a state not
  yet deleted was never exchanged, and that at most one callback holds a deleted one.
- `DisablingIsJustified`: `DisabledOnlyIfRejected`, whatever fails and however
  slow refreshes are. The invariant `LeaseInv` says that whoever's conditional
  write would succeed knows the document (`Reads`), that a lease whose generation is
  the document's wrote it, with its own lock id and token (`Holders`), that a
  rejected token stays rejected (`Rejections`, which needs that HubSpot's new
  tokens are new, `Known`), and that a token on its way to the document is nowhere
  else (`Private`).
- `TokensAreExchangedAlone`: `ExclusiveUse`, however long exchanges take. `UseInv` adds
  the clocks: while an instance exchanges the document's token, the document
  carries its lease or the lease has run out (`InUse`); and an instance whose lease would be
  written read its clock when every exchange of that token had outlived its own
  (`Clocks`), since it found no running lease and nobody has written since.

`NeverLost` is not proved, being false: besides `hubspot_account`, a crash between
HubSpot's rotation and the write loses the connection by design, and only a new
authorisation helps.

## 5. Source proposals

`ProposalRegistry` is the abstract specification: a durable registry with a history.
Each creation adds a proposal and leaves those of other instances as they are; of the
proposals of its own instance it may drop some. Callers are told of a registration only
when there has been one, and readers are shown the registry as it was at some time, never
earlier than what they were shown before. `ProposalStore` is the code.

| Code | Model |
|---|---|
| bucket object with Object Versioning, its generations | `versions` |
| the blob handle of `CloudStorageProposalObjectBackend`, one per process | `handle[i]`, the generation it is at |
| `create` | `Begin`; `Read` (the download), `Generation` (the generation of the handle, the check for the own proposal), `Upload`, `UploadUnanswered`, `UploadRefused`; `Conflict` (the loop) |
| `list`, `get` | `List` |
| `read` and `write` of the storage client's `Blob` | `Version`, `Download`, `Matches` |
| an instance that is replaced | `Restart` |

The storage client keeps the generation of the last download or upload in the
handle, and asks for that generation in later downloads; this is taken from the
client, not from the repository. The fields of a proposal, its YAML form and the
errors of a registry that does not parse are left out.

| Property | Says |
|---|---|
| `NoProposalLost` | an acknowledged proposal is in the registry; violated, see below |
| `ListedOnce` | no proposal is registered twice, lost answers, retries and a shared handle included |
| `OverwrittenAtHome` | a proposal is overwritten only by a request of the instance that registered it, and only if another request moved the handle between its download and the reading of the generation |
| `Inv` | an upload that would be accepted differs from the live version in proposals of its own instance only (the inductive invariant; proved, in no run) |
| `ImplementsRegistry` | the store implements `ProposalRegistry` |

| Run | Instance | Shows |
|---|---|---|
| `proposals_shared` | 2 instances, 2 requests at a time on each handle, 3 proposals, restarts, faults | the types and the three properties that hold |
| `proposals_threads` | 1 instance, 2 requests at a time, 3 proposals | `NoProposalLost` is violated |

The tools are synchronous functions that run on worker threads, so an instance serves
several requests at once; no property assumes otherwise. Two at a time are enough for one
to move the handle under the other, and three proposals for one of the racing requests to
have read something (the first request of an object takes no generation at all).
`MaxAttempts` has a first attempt, a retry and the giving up. There are as many versions as
there are uploads, at most one for each attempt, so no other bound is needed. The model
states no liveness and has no fairness; it stops when every request has ended, except for
listings and restarts.

### A disagreement with the documentation, and a limit

- `proposals_threads`. `README.md:329-330` says each write carries a precondition so
  that concurrent changes are not overwritten. The code reads the generation from the
  shared handle after the download (`source_proposal_store.py:57-58`). When
  another thread of the process uploads between the two, the request writes the
  document it read before that upload under the generation after it.
  `OverwrittenAtHome` says that this is the only way to lose a proposal, and that it
  stays within one instance: another instance's upload moves the object but not this
  handle, so the precondition still refuses what it should.
- A handle that has read once keeps reading that generation, if the storage client
  behaves as the model takes it to: the instance then neither sees what
  other instances registered nor can register anything itself until it restarts.
  `ImplementsRegistry` therefore promises of a listing only that it advances. The other
  stores take a new handle for each call.

### Proofs (`ProposalStoreProofs`)

From `StoreAssumption`, with any number of requests on a handle: every property of
`proposals_shared`. `Inv` rests on one fact about handles: uploads of other instances do
not move them. So if the generation a request takes from its handle is the live one, every
upload since its download was made through that handle, and what it read differs from the
live version in proposals of its own instance only (`ReadIsCurrent`); the rest of `Inv`
says that a handle never goes back (`TakenBefore`, `ListedStays`) and that no document
repeats a proposal (`WritesOnce`, `VersionsOnce`). `Implementation` maps each
step: an upload registers, an answer tells, a listing shows, and the rest stutters.

## 6. Spreadsheet batches

| Code | Model |
|---|---|
| the spreadsheet: sheet ids, titles, rows | `book` |
| the operations of a request | `batch`; of a range its last row, cells and columns left out, formats without content |
| a spreadsheet's ids of sheets | `Sheets`, of which `Existing` are in use at first and `Refs` may be named |
| `get_structure` and what the request keeps of it | `Inspect`, `seen` |
| `SpreadsheetMutationPolicy.validate_operations` | `Valid`: `Allowed` of each operation, after the titles and deletions that `Plan` gathers with `Planned` |
| `apply_operations`: the loop and `pending_requests` | `request.next`, `request.pending`; `Queue`, `WriteValues`, `Finish` |
| `flush_structural_requests`, `batchUpdate` | `Flush`, `FlushRefused`; `After`, which has Google carry out one request after the other (`Carried`) |
| `sheet_title_resolver`, `_qualified_range` | `Title`, `Addressed` |
| Google Sheets | `Accepts`, `Changed`, `After` |
| other users of the spreadsheet | `OtherEdit` |

A structural request names its sheet by id, a value call by the title that was
read. Titles stand for their case-folded form. Values are an operation without
content: what matters is the sheet they reach, and whether the rows they name are there.
`append_rows` adds one (`INSERT_ROWS`). What Google refuses is taken from its API, for the
requests as the code sends them: an insertion with `inheritFromBefore` false needs a row
at its place, so one at the end of the sheet is refused, and so is formatting past the
end; a value call past the end may be refused or clipped.

Every call is taken to be sent once. The HTTP library sends a call again when the
connection closes before an answer begins: a batch of structural operations may then be
refused the second time, and a value call be made twice. The model leaves that out; for
documents, where it decides what is reported, it is modelled (section 7).

| Property | Says |
|---|---|
| `AppliedInOrder` | what was applied is the beginning of the request, each operation once |
| `DoneIsComplete` | success means that all of it was applied |
| `Progress` | what the request has passed is applied or pending (inductive with the two above; only in the proofs) |
| `ReachesUnlessRenamed` | operations reach the sheet they name, unless a rename precedes them or others edit |
| `RefusalsExplained` | the provider refuses a validated request only for what validation does not look at (`Tolerated` lists it) |
| `ReachesItsSheet` | operations reach the sheet they name |

| Run | Instance | Shows |
|---|---|---|
| `batch_request` | every request of 3 operations or fewer on 2 sheets of one row, 3 titles, one edit of another user, faults | all the others but `ReachesItsSheet` |
| `batch_swap` | the same without the other user and the faults | `ReachesItsSheet` is violated |

Bounds. Three operations are the shortest request with something before, at and
after a flush, and with a rename, a second rename and a value. Two sheets and three
titles let titles be swapped through a third; `Refs` has a sheet that was
since deleted. `MaxTabs = 2` for the code's ten makes a third tab mutation too many.
One row tells a sheet whose only row may not be deleted from one that grew, and a
range or an insertion within it from those past it; that removing some of several rows
explains a later refusal takes two rows, and is left to the proof.
The runs stop when the request has ended and do not check deadlock. There is no
fairness: the model states no liveness.

`batch_swap` disagrees with `README.md:684-687`, which says operations by range select
the sheet by its `sheet_ref` alone. The request *rename the first sheet; give its
old title to the second; set values in the first* is validated, and the values
are written to the second sheet.

### Proofs (`SpreadsheetBatchProofs`)

From `BatchAssumption`, for requests of any length, spreadsheets of any size and any
number of edits of others: `InOrder` (`AppliedInOrder`), `Complete` (`DoneIsComplete`),
`TypeCorrect` (`TypeOK`), `ReachesWhatItNames` (`ReachesUnlessRenamed`) and `RefusalsForeseen`
(`RefusalsExplained`). There are two inductive invariants.

`Inv` is about order. `AppliedInOrder` alone is not inductive: `Progress` adds that
while a request runs, the next operation is the one after those applied and
pending, and that the pending ones follow the applied ones without a gap.

`SheetInv` is about sheets, and holds on top of `Inv`. It relates three spreadsheets: the one
that was read (`seen`), the one that there is, and the one that validation imagines, operation by
operation (`Plan`). Nobody else may have changed the second for this.

- `Owned`: every title in use is the one its sheet had when it was read, or one that the request
  gave. A value call, which names its sheet by the title that was read, reaches that sheet
  unless the request gave its title away (`TitleLeadsBack`); structural operations name
  theirs by id. That is `ReachesUnlessRenamed`.
- `Tracks`: titles differ and are among those that validation imagines, and a sheet that was read is
  as it was but for what the request did to it, with no fewer rows unless it removed some. Unless the request does one of the things that
  `Tolerated` lists, the provider therefore accepts what validation let through
  (`ForeseenIsAccepted`): new titles are new, the sheet and its rows are there, a
  sheet remains after a deletion. That is `RefusalsExplained`.
- `Supply`: as many sheet ids are unused as operations and edits may still need. Sheets that are
  created get an id that was never used, and Google has no shortage of them: the last line of
  `BatchAssumption` says so of `Sheets`. Without it the model's provider would run out
  (`NewSheetIsFresh`), which is a limit of a finite set and not of the code; the run has
  seven ids for it.

`After` and `Plan` are recursive functions on the operations that are pending or planned. That
they are functions of the right type, and what they keep, is by induction over the length
(`Induction`): `AfterIsTheEnd` and `PlanGoesOn` unfold them, `FlushReaches`, `OwnedFlushed` and
`TracksFlushed` say what a whole flush does.

## 7. Document edits

| Code | Model |
|---|---|
| the document: revision, tabs with title and parent, number of images | `doc` |
| the staging bucket | `staged` |
| the tools that mutate a document, as one call each | `Call`, `Start` |
| `inspect_structure` and the checks on what it returned | `Inspect`, `Valid` |
| `TransientAssetPublisher.signed_uri`, entered once per image | `Stage`, `StageFails`; left in `Cleanup` |
| `_batch_update` with `requiredRevisionId` | `Update`, `UpdateRefused`, `Fresh`, `Taken` |
| the HTTP library, which sends a request again when the connection closes without an answer | `UpdateResent`, `resent` |
| the document read for a revision the answer did not name | `Reread` |
| the structure inspected after a tab or image mutation | `Readback`, `Confirmed` |
| Google Docs | `Accepts`, `Applied`, `NewTab`, `Subtree` |
| other users of the document; an instance that stops | `OtherEdit`, `Crash` |

A call names the revision its caller inspected some time ago (`required`), reads the
structure itself and validates against that (`seen`), and never compares the
two. Google takes the batch only at the required revision, and an older revision is
never live again, so the structure read in between was that revision's: this
argument is what the properties check. Google's own validation of tabs is taken to
be as weak as it may be (`Accepts`): a deleted tab takes its children along, and
titles need not differ. With `Faulty`, any call to Google or to the bucket may fail,
a batch may be applied without an answer or be sent twice, and an upload or a deletion may take
effect although it failed. `applied` and `stuck` are histories.

| Property | Says |
|---|---|
| `TitlesStayDistinct` | no call makes two tabs share a title |
| `DeletesOneLeaf` | a deletion takes one tab, without children and not the last |
| `OncePerRevision` | a call that is sent again for the same revision is not applied twice |
| `ReportsAreTrue` | a reported conflict changed nothing, unless the HTTP library sent the batch twice; a reported success was applied |
| `StagingCleanedUp` | who returns or raises leaves no blob but those whose deletion failed, and does not report success then |
| `VerifiedAlone` | a confirmed image edit is the only change since the inspection |
| `Inv` | what a request remembers, from inspection to answer (the inductive invariant; proved, in no run) |

`document_calls` checks the others for two calls of any kind, with faults. Three
tabs are the least for a parent, its child and another one, or for a tab to be
created beside two. Two titles collide. Two images (`MaxAssets`, ten in the
code) have one staged when the other fails, and a clean-up that fails before one
that does not. One edit of another user (`MaxEdits`) makes a revision stale, or a
read-back differ, at any point. Revisions need no bound, since each call
applies at most once. The run stops when the calls have ended and does not check
deadlock; the model states no liveness and has no fairness.

Limits the code has:

- `execute()` goes through a library that sends a request again when the connection closes before
  a status line. If the first sending was applied, the second is refused at the old revision, and
  `_batch_update` (`docs.py:376-388`) reports `document_revision_conflict` for a batch that was
  applied; the repository's `README.md:727-728` says that such a conflict applies nothing. A legacy
  append that is sent twice so is appended twice.
- A tab mutation reports the revision it read back (`knowledge.py:849`), which may
  include others' edits, and looks a created tab up by its title, which another
  user may have renamed or deleted by then: the call fails although it was applied.
- When the answer to an image edit names no revision, the one that is read
  afterwards (`docs.py:375`) may be another user's. `VerifiedAlone` is stated for
  answers that name it.
- An error after the batch (a lost answer, a read-back that differs, a blob that
  cannot be deleted) reports a failure of an edit that was applied. The caller finds
  out by the conflict of the next attempt.
- The legacy append names no revision: sent again, it appends twice. It is exempt
  from `OncePerRevision`.
- An instance that stops leaves its blobs to the lifecycle rule of the bucket
  (`README.md:565-581`). The rule and the expiry of signed URIs are not modelled.

### Proofs (`DocumentEditProofs`)

From `EditAssumption`, for any number of calls, tabs, titles and images: `TypeOK` and all
the properties above. The argument has three parts. On the document alone: what `Valid`
admits on the structure it meets keeps titles apart (`AppliedKeepsDistinct`) and
deletes one leaf (`AppliedDeletesOne`). On one request: `Versions` says that what was
read is older than the document or is the document, and that the required revision
is not newer than what was read, so that at the batch all three are the same
(`UpdateApplies`). On the requests together: `Local(r)` is about one request and
outlives every step of others (`OthersKeepLocal`), because the revision only grows
and blobs have an owner; a step of its own is treated in one lemma per action, of which
those that go on, raise or end share `MoveKeepsInv`, `RaiseKeepsInv` and `EndKeepsInv`.
None of the properties is inductive without `Versions`, `AppliedBefore` (what was
applied has a revision that is gone), `Entered` and `Staging` (what is staged is
still on the request's stack).

## 8. Downstream catalogues

A provider has one client per process, and the client one catalogue of downstream tools
that expires. `DownstreamCatalog` has any number of requests over the clients of both
providers, and the downstream servers, whose tools come, go and change tier.

| Code | Model |
|---|---|
| `_tools`, `_initialized`, `_expires_at` of a client | `cache[p]` |
| `_lock` of a client, taken with `async with` | `lock[p]`; `Acquire`, `Release`, `Left` |
| `list_tools`: fast path, lock, pages, storing | `Ask`, `Acquire`, `ReadPage`, `Store`, `DiscoveryFails` |
| `call_tool` of a client: list, invoke, empty the catalogue, list again | stages `check`, `invoke`, `recheck`; `Checked`, `Invoke` |
| `BrunovaMCPServer.list_tools`, the status, catalogue and approval tools | stage `survey`; `Surveyed`, `Missed` |
| `BrunovaMCPServer.call_tool`, `_call_openwa_tool` | stage `route`; `RoutedToN8N`, `RoutedToOpenWA`, `Admitted`, `Judged` |
| `_downstream_exposed_name` and the mapping of names | `Exposed`, `Mapping`, `Behind` |
| `openwa_approval.py` | `Covers`, `Brought`, `Approved` |
| a client that goes away | `Cancel` |

Digests are what they are digests of, so that no two operations collide. A page is one
`await`, so that other requests and changes come between pages. An invocation may take
effect and fail to answer. `took`, `version`, `changed`, `known`, `consent` and `blind` are
histories.

| Property | Says |
|---|---|
| `OneDiscovery` | the lock is held exactly by the request that is discovering, and never left behind |
| `RemovalsVisible` | when a failed call has answered, no catalogue is served whose discovery began before the failure |
| `OncePerCall` | a call takes effect at most once |
| `RejectionsExplained` | a call recorded as rejected took effect only if the discovery after it failed too, or the tool's entry changed |
| `NeverAnother` | a name that a listing showed, however old, never reaches another tool |
| `ConsentUnlessReclassified` | a write of OpenWA has consent to exactly this tool and these arguments |

`catalog_calls` checks them on two requests of any kind, for either provider (they share no
state), with two tools whose names are also those of native tools, one tool a page, a
catalogue that expires after one tick, and one change of the server. Two tools are the
least with a page between them and with two exposed names that might be confused; two
requests have one discover while the other fails, waits or is served from the cache. A
request can end and the next begin as often as it likes. `Typical` has approvals that are
missing, good, for something else, contradictory and invalid. The model states no
liveness and has no fairness.

What the properties leave room for, because the code does:

- `NeverAnother` holds as no downstream tool has a name that begins with `downstream`. With
  one, the name given to a tool that collides with a native one could be another tool's.
- `openwa_prepare_approval_reference` is among the native names when tools are listed,
  and not when they are called: a downstream tool of that name is listed under a longer
  name that no call finds.
- The tier is read from one listing and the tool is looked up in the next
  (`mcp_server.py:507`): a tool that has become a write in between runs without an
  approval.
- A call whose tool took effect is recorded as rejected when the discovery after the
  failure fails as well, for then the tool counts as gone.

### Proofs (`DownstreamCatalogProofs`)

From `CatalogAssumption`, for any number of requests, tools, pages and changes:
`LockFollowsDiscovery` (`OneDiscovery`), `FailuresStayKnown` (`RemovalsVisible`), `NoSecondEffect`
(`OncePerCall`), `TypeCorrect` (`TypeOK`), `AnswersExplained` (`RejectionsExplained`),
`WritesHaveConsent` (`ConsentUnlessReclassified`) and, if no tool's name is another's with the
prefix `downstream` (`Undecorated`), `ReachesWhatWasShown` (`NeverAnother`). That hypothesis is
the first limit above: with such a name the property is false.

`Inv` has the lock and the times. `RemovalsVisible` is the part that needs an argument. The
failing call empties the catalogue without the lock, so a discovery that is under way
may store older tools after it; but the failing call then discovers again itself, and for
that must wait for the lock, so what it stores, or empties when it cannot, comes last. The
invariant says that a discovery in progress began at a version not older than what is
known (`CallOK`) and relies on `OneDiscovery`: nobody else stores in between.

`Facts`, on top of it, has what a call knows of the tool it is about. A catalogue, stored or half
read, is honest: of every tool whose entry the server never changed, it says
what the server says, or nothing (`Honest`). So a tool that has run and is missing in the discovery
after that was changed (`StillThere`, for `RejectionsExplained`), and a tool routed as a read that is
a write when it runs was reclassified (`Allowed`, for `ConsentUnlessReclassified`). A name that a call brings leads, in any mapping of any
catalogue, to a tool of that name or of that name without the prefix (`Shows`); this is what
`MappingEntries` shows of the recursive function `Mapping`, by `Induction`, and with
`Undecorated` there is one such tool (`SamePrefix`, `BehindMeant`).

## 9. Source policy and artifacts

`SourcePolicy` has the layers of authorisation as operators, one for each function of the
code, and what all of them together are for (`Mandate`, `Consent`), written without looking
at the layers. `ArtifactOperations` has the requests.

| Code | Model |
|---|---|
| `PrincipalResolver.resolve` | `Authenticated` |
| `_developer_http_authorization` | `RestAllowed` |
| `_tool_authorization_error`, `_principal_can_see_tool` | `ToolAllowed`, `Shown` |
| `_execute_tool`, `authorize_workspace_operation` | `Executed`, `WorkspaceOperation` |
| `SourceAccessPolicy`, `ContentMutationPolicy` | `ReadGoverned`, `BelongsTo`, `BelongsToAny`; `MutationAllowed`, `ArchiveAllowed` |
| the parameters of each tool and route | `RetrieveDocument` and its siblings |
| each `*_authorized_*` function of `knowledge.py` | `RetrieveAuthorized` and its siblings |
| `get_resource`, one metadata request per ancestor | `Read`, `Deep` |
| `copy_resource`, `move_resource` and the other requests to Drive, Docs and Sheets | `CopyResource` and its siblings, as the disjuncts of `Act` |
| `download_binary`, `replace_binary`, readback | `Measure`, `Fetch`, `Check`, `List`, `Pin`, `Upload`, `ReadBack` |
| the one page of 200 revisions that is listed | `RevisionPage`, `Latest` |
| `_execute_tool`'s records | `Ended` with its outcome; `Rejected`, `Answers`, `Failures` |
| Drive, its users | `parent`, `made`, `blob`; `UserMove`, `UserSave` |

An artifact is one item of a tree. Its whereabouts are read one ancestor after another,
and anybody may move any of them meanwhile; `torn` notes when something that was read, or
something a shared drive's identifier vouched for, has moved since. A deployment (`site`)
is a registry of sources, blocked identifiers, shared drives, a depth and a tree, and
bounds for who uses which tools on what.

| Property | Says |
|---|---|
| `Rightful` | Drive acts only for a request whose bearer had, on arrival, the right to it |
| `TouchesItsSource` | what is touched is in the request's source right then, and what is added or moved lands there or in the archive that was named, unless something was moved meanwhile |
| `BlockedUntouched` | nothing under a blocked identifier is touched, as far up as the walk goes |
| `RootsOnlyFromAbove` | a registered root is deleted, shared or renamed only through another source that it lies in |
| `ReplacesWhatWasRead` | an upload replaces the revision that was downloaded, and that is pinned if one page lists all revisions, unless somebody saved after the last check |
| `AnswersAreTrue` | a recorded success was done and read back; a recorded rejection changed no artifact, unless it is an edit whose readback was refused (the pin of a refused upload does not count) |

`artifact_calls` checks them on two requests of any of the tools, in six families of deployments
(`MCArtifactOperations`): a source beside an archive with an artifact in a folder; the tools that
add an item; a shared drive with a blocked folder and a source below it; a DOCX; an
Office file to convert; and 24 registries that lack something, used by ten principals that
lack something. Trees have four levels and the walk a depth of two (one for the DOCX),
so that it ends before the top in some of them. One or two moves by users and requests
together are enough to tear a walk, or to put an artifact under another source between the two
walks of a move; `MaxSaves` leaves room for a save before, between and after the steps of
a replacement, and for more revisions than a page lists (`RevisionPage` is three; 200 in the code). A family has the tools that meet in it: all tools at once multiply
the states without a new meeting, since tools meet only through the tree and the DOCX. The
model states no liveness and has no fairness.

What the properties leave room for, because the code does:

- In a shared drive the drive's identifier is known without a walk. A source that is the
  drive then authorises an artifact deeper than `WORKSPACE_SOURCE_MAX_DEPTH`, and a blocked
  folder further up than that is not seen. `Blocked` says how far `BlockedUntouched` goes.
- `_protect_source_root` compares with the root of the request's own source. A root that
  lies in another source is an ordinary artifact of that one; so is a root that was moved
  into another source or an archive that allows it. An archive with `delete: false`, as the
  deployed one, keeps what it got. Moving a root is protected nowhere.
- `replace_binary` says itself (`drive.py:334-336`) that it cannot make its check and
  the upload atomic. A save in between is overwritten; its revision is in Drive's history,
  pinned only if the list was read after it.
- It takes for the head the latest revision on one page of 200 and follows no page token
  (`drive.py:363-373`). Which revisions Drive lists when there are more is not documented, so
  `Latest` may be any from there on: one pinned before may pass for the head, which is then
  overwritten unpinned, without any concurrent writer. `drive.py:336` and the repository's
  `README.md:620-622` say that the replaced revision is pinned; that holds up to a page.
- A pin made before an upload that is refused stays. `AnswersAreTrue` does not count it.
- An error of the readback with a status below 500 is recorded as rejected, although the
  content was replaced. `AnswersAreTrue` names it. A program that stops between Drive's
  answer and the record leaves no record; that is not modelled.
- The legacy routes `/workspace/docs` and `/workspace/sheets` do not ask for
  `capabilities.read`; only a management principal may use them. They are outside of
  `Consent` and of `TouchesItsSource`.
- The root that a copy or a creation goes to by default, and the archive's, are not checked for
  blocked ancestors; only their own identifier is.

### Proofs (`ArtifactOperationsProofs`)

From `ArtifactAssumption`, for every deployment, tree and number of requests. On the
policies alone: `LayersGrantRight`, that the layers a request passes imply `Mandate` and
`Consent`; and `ShownToolsWork`, that a tool is shown to a developer only if some source
lets it through. On the requests: `TypeOK`, `Rightful`, `ReplacesWhatWasRead`,
`AnswersAreTrue`, `TouchesItsSource`, `RootsOnlyFromAbove` and `BlockedUntouched`. Items are
finitely many, as those in Drive are.

The argument for `TouchesItsSource` and `RootsOnlyFromAbove` is about trees that change while they are read. `Below` says
that every set of items that holds x and is closed under parents holds y. What a walk knows
is weaker, and stays true: `Leads(par, D, x, y)`, that the parents of the items read (`D`),
as they were, lead from x to y whatever the parents of the others are (`Climbs`). A move of an item that was
not read keeps it (`WalksKept`), an item that was read makes the request torn, and a new
item was in nobody's walk (`NewIsNotTorn`). When Drive acts, `Leads` gives `Below`. A shared
drive's identifier was read at one moment only, so its share of the claim is `Below` itself,
kept by every move that is not above the artifact (`BelowOther`). `ReplacesWhatWasRead`
needs that a head revision changes only together with the version (`Edits`), and
`AnswersAreTrue` that a request which has acted is on its last steps (`Honest`).

`BlockedUntouched` says that something was *not* met, so it needs to know that the walk left
nothing out, and has an invariant of its own (`LookInv`, checked by TLC on `artifact_calls` before it was
proved). While the walk goes on, the items read are the artifact, its parent, the parent of
that and so on, up to the one that is read next (`Spans`). When it ends, they are closed under parents or
more than the depth (`Ends`), and none of them is blocked (`Cleared`). What is blocked and above the artifact
then comes after all of them on the way up (`BeyondSpan`), so that there are too many items in
between for `Blocked` (`ClearedNotBlocked`). `Cleared` speaks of some of the items that were
read: the walk to the destination reads others, and forgets none (`Later`). A move leaves
all of it alone unless it tears the request (`LooksKept`).

## 10. Not modelled

- `operation_history.py`, `audit.py` and `adapters/google_cloud_logging.py`: queries of
  records that another service keeps. The records themselves are modelled where requests
  end. The surplus a history query fetches to hide disabled sources is itself bounded
  (`operation_history.py:138`): enough hidden entries empty a page.
- `source_discovery`: a bounded read-only scan that keeps no state, and the tools that list
  and search artifacts.
- `acquisition.py`: forwarding of validated requests, without state.
- `runtime.py`, `config/*`, `artifact_refs.py`: configuration, construction and signed
  encodings. A reference is the artifact it stands for, bound to its source.
- Inside modelled components: the contents of documents and the translation of edits to
  requests of Google's APIs, image and OOXML processing and the images that a DOCX edit
  inserts, token hashing and encryption, HubSpot's access tokens in memory, the scopes of
  signal workers other than their signal types, artifacts with several parents, and logging.

## 11. Running

`tlc -config MCSignalInbox_claims.cfg MCSignalInbox.tla` checks one instance; each
`.cfg` belongs to the module its name starts with. `tlapm SignalInboxProofs.tla`
checks the proofs. `PROJECT.json` lists the runs with what each one shows, the
source lines of every definition, the hazards found in the code with the
properties that cover them, and for each property a plausible bug in the code that breaks it.
