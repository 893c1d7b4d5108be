# Verification of Cann-o-Call

TLA+ models of the parts of this repository that decide what is accepted,
durable and visible, the TLC runs that check them on small instances, and
TLAPS proofs of what matters most for instances of any size.

## The system

A Go server (`main.go`, `internal/server`) keeps workspaces of files and
answers HTTP requests.  Nothing it decides counts until a *transition
authority* has admitted it and a separate Rust process, the *ledger sidecar*,
has recorded it.

| component | state | operations | what makes it correct |
|---|---|---|---|
| Rust ledger sidecar, `sidecar/src/main.rs` | `ledger.jsonl`, checkpoint files, accepted state in memory, one mutex | strict startup, `POST /events`, `POST /checkpoints`, `GET` reads | an acknowledged record is never lost or rewritten; an id is on one line; an uncertain write is not papered over; a checkpoint claims no missing history |
| Go event log, `internal/eventlog` | `seq`, `lastHash`, a mirror file, one mutex | `Append` (forward, check the acknowledgement, mirror), `RustAcknowledgedEvents` (read back, validate, rebase), `List`, `CheckedEvents`, `Verify`, `Checkpoint` | an event is mirrored only if the ledger holds it at its place; `seq` and `lastHash` are those of the ledger |
| transition authority, `internal/transition` | projection, accepted map, one mutex | `Propose` (duplicate, conflict, stale, policy, durable), `NewFromEventLog`/`Rebuild`, `Checkpoint`, `VerifyCheckpoint`, `RebuildFromCheckpoint` | one chain of accepted transitions, each bound to its record; a retry is not a second transition; a restart gives the same state |
| actor controller, `internal/actorstub` | activations, dedup windows, live actors, timers, results, one mutex; Proto.Actor mailboxes outside it | `Activate(WithParent)`, `Send`, `Complete`, `Fail`, `RecordResult`, TTL expiry, `Shutdown` | at most `maxActive` live actors; no live actor without an active record; duplicates suppressed; every actor stops in the end; nothing lives after shutdown |
| progress registry, `internal/progress`, `internal/server/tasks.go` | tasks with status, phase and counters, a bounded map | create, update, transition, evict, abandon; begin, complete and fail from handlers | terminal states are final; a running task is not evicted; a receipt agrees with the task |
| receipts, `internal/receipts` | receipts by id, `seq`, `lastHash`, one file each | load, `Save`, `Verify` | receipts form one chain; a failed save leaves it intact |
| quarantine store, `internal/quarantine` and its handlers | items in memory and on disk | load, `Add`, `UpdateStatus` | memory and disk agree; a decided item stays decided |
| capability manager and native membrane, `internal/capability` | registry of descriptors, records; an allow-list | `Execute` (validation, timeout, executor goroutine), `ExecuteMutating`; `Invoke` | a late result of a timed-out executor changes nothing; only what is allowed runs, and nothing native mutates |
| graph store, builder and ingest, `internal/graph`, `internal/ingest` | packets by source id, the graph | `Apply`, `RebuildFromAccepted`, `ProposeIngest`, build and dedup | the graph is a function of the set of packets; a rebuild gives the same graph |
| orchestrator, `internal/orchestrator` | the last query, its candidates and packets | `Ingest`, `Query`, `ProposeMutation` | graph and authority agree; a query activates no more actors than it may |
| scoring, context packets, `internal/scoring`, `internal/contextpacket` | none | score, select, validate | selection is bounded, ordered and deterministic |
| server handlers, `internal/server` | workspaces, build-ledger state, bindings | file operations, snapshots, import, build ledger, quarantine blobs, studio, UI | a workspace changes only after its transition is accepted |
| workspace, snapshot, replay, projection, diff, materialize, build ledger | pure data | parse, zip, verify, compare | round trips and comparisons are exact |
| CLI, observability, web, release scripts | metrics; none | read-only or presentation | not modelled |

How they interact:

* A caller (ingest, orchestrator, capability manager, the server's
  `recordTransition`) reads `Authority.Projection()`, releases the mutex,
  builds a proposal on what it read and calls `Propose`.
* `Propose` keeps the authority's mutex through `eventlog.Service.Append`, and
  `Append` keeps the event log's mutex through an HTTP call of up to ten
  seconds.  So at most one event is in flight, and every reader waits for it.
* The sidecar takes its one mutex in each handler.  It reads and verifies the
  whole disk before it appends, and compares it with what it has accepted.
* `GET`-style replay verification (`internal/server/replay.go`) reads the
  ledger back through the same live event-log service, and rebases it.
* A restart of the server rebuilds the authority from the ledger or panics; a
  restart of the sidecar adopts the file or refuses to serve.

The hard behaviours are the lost and late answers between the two processes,
what a failed or interrupted system call leaves in the file, the two heads
(Go's `seq`/`lastHash` and the ledger's) that can drift apart, predecessors
read before and used after an unlock, and timers and mailboxes that race the
controller.  `PROJECT.json` lists them one by one under `hazards`.

## Modules

| module | what it is |
|---|---|
| `Sidecar` | the Rust ledger |
| `EventLog` | the Go event log and the HTTP exchange; extends `Sidecar` |
| `Authority` | the transition authority, its callers and both servers' lifecycles; extends `EventLog` |
| `AcceptedHistory` | what the three promise together, stated without any of them |
| `Checkpoints` | checkpoints of the authority beside everything `Authority` does, and the mirror's verification; extends `Authority` |
| `MCSidecar`, `MCAuthority`, `MCCheckpoints` | instances for TLC: symmetry sets |
| `AuthorityProofs` | theorems about `Sidecar` and `Authority` |
| `ChainProofs` | theorems about the chain, the heads, the mirror and `Checkpoints`; extends `AuthorityProofs` |
| `Actors`, `MCActors`, `ActorsProofs` | the actor controller, its Proto.Actor processes, and the queries and handlers that drive it; theorems about all of them |
| `Tasks`, `MCTasks` | the progress registry, its receipts and the handlers that keep a task |
| `TasksProofs` | theorems about tasks |
| `Receipts`, `MCReceipts`, `ReceiptsProofs` | the chain of receipts |
| `Envelope` | the flatten-workspace/v1 envelope: export and parsing |
| `Workspaces`, `MCWorkspaces`, `WorkspacesProofs` | workspaces, their quarantined blobs, materialization, snapshots, and the handlers that change them; theorems about what gets into them, what becomes of decisions, and what replay and envelopes give |
| `Scoring` | what a node scores for a query |
| `ContextGraph` | ingest, the graph stores, the graph builder, queries; extends `Scoring` |
| `ContextGraphProofs` | theorems about both |
| `MCContextGraph` | a tree, an order of hashes and the matches of a query for TLC |
| `Capability`, `MCCapability`, `CapabilityProofs` | the capability registry, the manager's executions and their progress records; theorems about what is accepted |
| `Membrane` | the native membrane as one of the manager's executors; `CapabilityProofs` shows that it implements one, and what it completes |

### Sidecar

`disk` is the sequence of complete lines of `ledger.jsonl`; `torn` says that an
unterminated one follows, `synced` how many lines a `sync_all` covers, `entry`
whether the file's directory entry is durable.  `checkpoints` are the histories
that complete checkpoint files bind, `broken` says that one of them is
incomplete.  `up` and `rustAccepted` are the process and its
`AppState.accepted`; `acked` is a history variable of what clients were told.

A `LedgerState` holds a count and two running hashes.  Hashes are taken as
injective, so the model uses the sequence of evidence itself: `observed !=
state.accepted` becomes `disk # rustAccepted`, and a checkpoint that
`validate_checkpoints` finds in the records is a prefix of `disk`.

Each handler is one action, because the mutex is held for all of it.  The
actions that end inside a handler are its `?` operators (`AppendFails`,
`CheckpointFails`), a kill at the same points (`KillInAppend`,
`KillInCheckpoint`) and a power loss.  `PartialAppend` lists what can be left:
an opened file, a torn line, a whole line that is not synced, a synced line
whose directory entry is not.  `Faults` selects the kinds a run allows.

### EventLog and Authority

`BeginAppend` is `Append` up to the POST, `MirrorEvent` the rest of it after an
acknowledgement, and `RejectEvent`, `TimeoutEvent` and `MirrorFails` its error
paths, all of which take the sequence number back.  Between them the request
is on the `wire`; `HandlePost` is the ledger's handler of it, composed from the
actions of `Sidecar`, and `NoServer` the refused connection.  With "late" among
the faults, a request that Go gave up on may still be handled.

`created_at` makes two envelopes of the same event differ, and through it their
hashes.  `attempts` is that clock, `prev` the hash of the envelope before, and
`lastHash` the one Go will name next.  `ValidHistory` is what
`RustAcknowledgedEvents` and `ValidateHistory` demand of the whole history.

`Propose` is split where the mutexes are held but time passes: the
synchronous outcomes (`ProposeDuplicate`, `ProposeRejected`), the call of
`Append` (`ProposeAdmitted`), and its return (`Accept`, `RejectDurable`).  A
`StateRef` holds a version and a hash of the projection, so a proposal's `prior`
is the projection itself.  `promised` records every transition a caller was
told is accepted.  `GoStart` is `NewFromEventLog`, `VerifyReplay` the rebase at
run time, `GoCrash` the end of the server process.

### Checkpoints

Every step of `Authority`, with the event hash that each accepted transition is
bound to (`binding`) and the newest checkpoint somebody took and kept
(`checkpoint`).  `TakeCheckpoint` is `Authority.Checkpoint`, `VerifyCheckpoint` the
function of that name as a predicate of a checkpoint and a history, and
`RebuildsFrom` what `RebuildFromCheckpoint` then does: replay of the suffix from
the checkpoint's state gives what replay of everything gives.  `MirrorApproved` is
`Service.Verify` on the lines of the mirror that parse (`Parsed`), each at its
place among them (`Place`).

### Actors

`activations` is the controller's list of activation records; an id is its
place in it, which is also what `newID` numbers.  `dedup` holds for a key the
activation whose expiry closes the window, `live` the ids with a PID, `timers`
the armed TTL timers.  All of these change under one mutex, so a method is one
action: `Suppress`, `Refuse` and `Admit` are the outcomes of
`ActivateWithParent`, `List` the expiry that every reader performs first,
`EndOne` the body shared by `Complete`, `Fail` and `RecordResult`.

What runs outside the mutex is a step of its own: `TimerFires` is the start of
the `time.AfterFunc` goroutine, `Expire` its turn at the mutex; `SendChecks`
and `SendDelivers` are the two halves of `Send`; `Works`, `Panics`, `Crashes`
and `ActorStops` belong to the process and its mailbox.  `running` is the set
of processes, `stopping` those with a Stop in the mailbox, `halting` what
`Shutdown` copied and has yet to stop.  `QueryActivates` to `QueryCompletes`
are the calls `Orchestrator.Query` makes per node; note that it calls
`RecordResult` and then `Complete` on the same activation.

All TTLs of this program are equal, so activations expire in the order of their
ids and time is a number, `due`.  Keys of queries and keys of the server's
`maybeActivateActor` never coincide: the action names differ.  `Send` and
`Shutdown` have no caller outside the tests and are modelled as the package
offers them.

A root may be doubled only because an activation of its key has ended and taken
the window with it (`WindowsHold`, a part of `Consistent`): `Complete`, `Fail`
and expiry delete the entry of the key without asking whose it is.

That every process stops follows from `Consistent`: no process is without a live
PID unless its Stop is on the way, and no PID is without an active record whose
timer is armed or firing.  It is stated as an invariant because liveness at
this size is out of reach.
### Tasks

`tasks` is the registry's map, reduced to the status; `older` has for each
the ids with an earlier `UpdatedAt`, which is what eviction sorts by.  Every registry method holds
the mutex and is a step; a handler is the series of its calls: `Begin`
(`Create` with the eviction it performs), `Start`, `Phase`, `Meter` and
`Refetch` are `beginTask`, then the work, then either `completeTask` or
`failTask` (`EndMeter`, `EndTransition`, `EndGet`, `Save`) and the deferred
metrics of some handlers.  A phase, a metric, a warning or an error is a
`Touch`, since all that comes of it here is a new `UpdatedAt`.  `Kind` tells the
handlers apart: which of their error returns fail their task, whether its id is
random or the hash of operation, workspace and key (`IDsOf`), and what they may
wait for once they have begun it (`Waits`): an ingest for the body
(ingest_query.go:58, 71) and a snapshot for its reader (snapshot.go:44), on a
server without timeouts (main.go:70), a checkpoint for the sidecar through
`http.Post`, whose client has none either (operations.go:527).  A verification
of replay keeps its task as a query does.  `left` is a history
variable: the ids of tasks whose handler returned without ending them, which
`Leaves` does because the code does.  `Restart` empties the registry, which is in memory only, and
keeps the receipt files.

`Accounted` says who will end a running task (`Tended`) and that of a task whose
id no other request has `beginTask` and `completeTask` say the truth
(`OwnTasks`); where requests share an id they do not, see below.

`Paused`, `MarkAbandoned`, `Delete` and the capability manager's
`ProgressIntegration` are not modelled (the first three are not called by the
server), nor the conflict `Create` reports when an id comes with another
operation, which a hash of the operation cannot meet.
### Receipts

`receipts`, `seq` and `lastHash` are the fields of `receipts.Service`, `files`
the receipt files that parse.  `Save` holds the mutex; it is `SaveReceipt`, or
`SaveFails` (an error of `WriteFile`), or `KillInSave`.  `LeftBehind` is what
either can leave: no file, one that does not parse, which loading skips, or
the whole file.  `Restart` is `loadFromDisk` with `rebuildChainState`.
`failed` is a history variable: an error has used up a number.

A hash is the sequence of what was hashed, back to the genesis value.  Details
hash as the bytes they marshal to.  A struct marshals in the order of its
fields; read back it is a map and marshals in the order of its keys; `form`
records that and nothing else of the details.  Receipts without a sequence
number, from before the chain existed, are not modelled, nor is a power loss.
### Workspaces

`objects` are the workspace objects made since the server started and `store`
the one the server's `Store` has: an import replaces it while handlers still
hold the old one.  `quarantine` and `files` are the quarantine store's items in
memory and on disk.  `written` is what materialization has put on disk;
`envelope` and `snapshot` are the newest that a client took away.
`ledger` and `receipts` stand for what `recordTransition` has had accepted and
recorded; that the authority admits one transition after the other is what
`AcceptedHistory` says, so an accepted proposal is an append here, and lost
answers stay with `Authority`.  `effects` and `exported` are history variables.

A request is split where nothing protects it: `Get` asks the store and reads
the body, `Prepare` makes the candidate and the checks (`TurnDown` when they
refuse), `Accept`/`Refuse` and `SaveReceipt`/`ReceiptFails` are
`recordTransition`, and `Apply`, `Decide` and `UpdateStatus`, `Note`,
`Materialize`, or `ProposeBaseline`, `Expose`, `AddItems` and `ListItems` the
change.  A snapshot is the steps `ListEvents`, `Project` and `WriteSnapshot`,
since it reads events, projection and files one after the other.  `Restart`
loses the workspaces and reloads the items.  Two handlers in one map are a Go
data race: what the runtime does when it notices is the fault "kill".

`Document` stands for `state.yaml` and the run, receipt and verification
documents, which have one course.  `decisions` and `binding` hold the place in
the ledger of the transition that a decision by name (`opQuarantineDecision`) or
a binding (`opBindWorkspace`) names in the workspace; a binding that is not
forced is refused when the root lacks a file.  The unexported handlers of
`phase2.go` that no route names (`updateBuildLedgerState`,
`appendBuildLedgerEvent`, `createBuildLedgerDocument`, `createWorkspaceFromZip`)
are not modelled.  A blob admitted to a build-ledger path would make replay
differ at once, because replay ignores admissions; the runs with
`ReplayEquivalent` admit to other paths.  Which of the paths under
`materialize` and `bind` are absolute or outside the root is not told apart.

### Envelope

`ToEnvelope` and `FromEnvelope` on files that are data: an entry declares a
path, a size and a hash, and size and hash are those of the datum they name.
What FromEnvelope says is wrong is a set of kinds of issue.  A client may edit
one thing of an exported envelope before it is imported: `Edits` has a changed
datum, a removed entry and a declared path that is another file's or unsafe.
`Below` relates a path to one that is a file where it needs a directory; the
walk of the parser never gets to it.  Malformed metadata, encodings and entry
names, and the declared number of directories, are left out.
### ContextGraph and Scoring

A source is a workspace, a file and its bytes, which is what a `SourceID`
hashes; a packet adds the time it was made, the only part of it that differs
when the same source is ingested again.  `Rank` is an order of sources, as
arbitrary as the order of their hashes.  `Archive` bounds
what clients send.  `history` is the authority's accepted transitions; `packets`, `graph` and `tracked` are the store's and the
orchestrator's maps per workspace.

A request to ingest is split at its unlocks: `Parse`, then for each packet
`ReadPrior` (the predecessor), the outcomes of `Propose` (`IngestAccepted`,
`IngestDuplicate`, `IngestConflict`, `IngestRejected`), `Apply` and `Track`.  A
packet that is refused is a warning and the rest goes on.  A query is
`ReadGraph` and `Select`, since the graph and the packets are copied under two
locks.  What becomes of the selected nodes is in `Actors`.

`Build` is the builder as a function of a set of sources.  A directory's node
has the provenance of the first packet below it in the order of hashes, which
is why the code builds everything anew for each packet: a graph that is grown
in place differs from a rebuilt one (the mutant of `GraphReplayed`).  Hyperlinks
are edges from a file to targets that are no nodes, by design (builder.go:206);
`Links` says which links a source's text has, any for HTML and none otherwise, and
`GraphSound` says of every other edge that it joins two nodes.

`Rebuilt` is `RebuildFromAccepted` as a function of the history: nothing in the
server calls it, so that it is what the stores are compared with and no action.
`restarted` is a history variable.

`Scoring` has the scorer's arithmetic in whole numbers.  Its inputs are counts
of matching tokens; the tokenizer and the format adapters are not modelled.
### Capability

`call` is a call of `ExecuteWithProgress` or `ExecuteMutating` and the place it
has come to, `executor` what the goroutine it started has computed, `expired`
the contexts that are done, `sent` the goroutines that have ended.  `Spawn` is
`Execute` up to its `select`, whose two cases are `Receive` and `GiveUp`, both
enabled when both are ready; `Send` is an answer into the channel of a call that
has gone.  Executors are not assumed to end.  `ExecuteMutating` goes on with
`Deny`, which looks the capability up again, `ReadPrior` and `Propose`; the
authority is one step, as in `ContextGraph`.

`records` names, for each request id, the call whose `TaskRecord` is in the map:
`Begin` replaces it, and `Complete` writes into whatever record it finds.  The
steps of `Begin` and `Complete` are separate, since no mutex covers them.
`RequestID` and `TransitionID` give the ids that `RequestFromActor` and
`BuildProposedTransition` build and cut to 64 bytes, so that different requests
may share them.  `OnRestart` is not modelled: the maps it walks are empty after a
restart, and only a test calls it.

### Membrane

`NativeExecutor` is an executor whose answer comes of `Membrane.Invoke`: one more
goroutine, a context with a timeout of its own, two channels with a buffer and a
`select` whose cases are `Collect` and `Abandon`.  `inner` is that goroutine, and
`handed` says that its answer has been taken or buffered.  The membrane's context
can be done at any time, with its timeout or the manager's.  Every step of it is
a `Computes` of `Capability` or none, which `MembraneImplementsCapability`
proves; the run checks the composition.  `NativeBounded` has a native execution
complete only what is on the allow-list.  What a symbol computes is left out.

## Runs

Model values and bounds: an id or datum is a model value; `MaxAttempts` bounds
the envelopes ever created, `MaxRecords` the lines of the file; the other
constants that are called bounds where they are declared are.  Each run includes
the cases its properties are about: several envelopes of one transition, two
callers with the same predecessor, several crashes.

| run | question | bounds | result |
|---|---|---|---|
| `sidecar_faults` | what survives failed calls, restarts and kills? | 1 id and evidence without id, 2 bodies, 2 stamps, 3 lines | holds |
| `sidecar_power` | what survives a power loss when every call succeeded? | the same | holds |
| `authority_calm` | does the history replay, do the heads agree, when no answer is lost? does a checkpoint verify and rebuild later? does verifying the mirror notice what it lacks? | 3 ids, 2 data, 2 callers, 4 envelopes, restarts of both servers; deadlock is checked | holds |
| `authority_faults` | what stays true of promises and bindings under every fault? does it implement `AcceptedHistory`? is every `Append` answered? | 2 ids, 1 datum, 2 callers, 3 envelopes, 7 kinds of fault | holds |
| `actors` | do records, PIDs, timers and processes agree, whatever races? within the limit? is a lineage free of duplicates, does an open window suppress? | 2 queries, 1 key each of queries and of the server, 3 activations and messages together, 2 live, depth 2 | holds |
| `tasks` | is every running task in some handler's hands, are active tasks kept, terminal ones final, growth bounded by what is active, and does every task end that no handler leaves or waits with for good? | 2 handlers, all 6 kinds, 1 shared and 1 random id, registry of 1 | holds |
| `receipts` | are numbers unique, given receipts kept, and the chain linked while no write has failed? | 4 receipts, both forms, errors, kills and restarts | holds |
| `receipts_binding` | does the chain verify with a struct in the details? | 2 receipts, restarts only | violated |
| `workspaces_race` | can anything unaccepted get into a workspace, a snapshot or onto the disk, or a blob have a status nobody accepted? | 2 handlers, 6 operations, 1 blob, 2 imports, 2 transitions, every fault | holds |
| `workspaces_alone` | one request at a time without failures: are decisions, replay, snapshots, envelopes and imports right, across restarts and re-imports? | 8 operations, 1 blob, 1 body, 5 transitions, 2 imports, a file below another | holds |
| `graph` | does a store hold accepted packets only? is the graph sound, and the one replay builds? what do queries select while packets arrive? | 2 handlers, 2 workspaces, 3 archives, a page whose versions link to one target, 3 transitions, restarts, limit 2 | holds |
| `capability` | what do repeated, late and denied executions propose? do calls return and goroutines end? do records and tasks agree? | 2 calls of both kinds, 5 executors (2 and 2 with one id; 1 native, 1 disabled, 1 invalid), 5 requests (2 with one transition id, 2 of the native or the disabled capability, of which 1 with a symbol that is not allowed, 1 oversized), executors that may hang | holds |

Three envelopes let a transition be lost, overtaken by another and retried, in
either order; three lines are one more than the deepest disagreement between
disk and memory a failed write can cause.  Deadlock is not checked where
the code really stops: a ledger that refuses to start, or a server that panics
on its history, stays down until an operator repairs it; and where calls end
once and for all (`capability`).  `authority_calm`, `actors`, `tasks`,
`receipts`, `workspaces_*` and `graph` check it.

Symmetry is used in the runs without liveness, over callers, data, handlers,
queries, blobs and receipts: no definition tells two of them apart.  In `graph`
only handlers are symmetric, since `Rank` and `Matches` tell the others apart.
History variables (`acked`, `promised`, `given`, `effects`, `left`, `failed`,
`restarted`) record what has been told or has happened; no guard reads them.

`Room` in `Actors` bounds activations and messages together by `MaxActivations`:
three let an actor be replaced in its window, or a message race two lives.

Fairness: only the `FairSpec`s have any, and only weak fairness.  In `Authority`
`http.Client.Timeout` (eventlog.go:71-73) ends every exchange, so weak fairness
of `Accept \/ RejectDurable` is what Go's runtime gives; nothing is assumed of the
ledger, the network or the callers.  In `Tasks` and `Capability` it is the
runtime's: goroutines that can go on do, and timers fire; nothing is assumed of
callers, of executors or of the sidecar.  A handler of `Tasks` that `Waits` for
its client or for the sidecar has no fairness, since no timeout ends the wait: it
may go on at any time or never, and `TasksEnd` excepts the task it has.  `Membrane` has one weak fairness for all steps of a call,
which is enough because a call takes finitely many; that a native symbol returns
is assumed, since nothing in the process can stop one that does not.

### What the code does not keep

One run is a counterexample that is kept with the project:

* `receipts_binding`: the receipt of a workspace binding holds a struct and
  hashes differently after a restart; verification calls it tampered with.

The others are, but for the last of an envelope, properties stated in the modules, from a comment, a document or a
test, that TLC finds violated with the constants given here (the others as in the
component's run); the passing runs check what is left of them when that case is
excluded.

* `AcceptedIsSynced` with `Faults = {"kill"}` (main.rs:141): a line left by a kill
  between `write_all` and `sync_all` is adopted by the next start and acknowledged
  to a retry without a sync, although the comment at main.rs:254 has accepted
  state committed only after the sync.
* `RustNumbersEvents` with `Faults = {"timeout"}` (eventlog.go:160): `Append` takes
  its number back when it does not know whether the ledger used it.  A different
  transition then carries a number that is not its place, and the history can
  no longer be read back (list.go:99, 111).
* `RetryKeepsChain` with `Faults = {"timeout"}` (eventlog.go:190): the ledger keeps
  the first envelope of a retried event, Go chains the next event to the second,
  and the history can no longer be read; main.rs:270-273 has such a retry in mind.
* `PromisedReplays` with `Faults = {"timeout"}` (list.go:113): verifying replay on
  the live service moves its head past a record the authority does not hold.  The
  next transition is accepted, promised, and recorded on a predecessor that
  replay refuses.  After each of the last three the next start of the server
  panics; nothing that was promised is lost from the file.
* `CheckpointStaysGood` and `ApprovedMirrorIsPrefix` in `Checkpoints` with the faults
  of `authority_faults` (eventlog.go:190): after the retry of an event whose answer
  was lost, the server's binding and its mirror hold the hash of the second envelope
  and the ledger the first; a checkpoint taken then does not verify against the
  history, and a mirror that is verified is not the ledger's beginning.
* `RootsDeduplicated` (actor.go:539; 2 queries, 1 query key, `MaxActive` 3,
  `MaxDepth` 1): `Complete` deletes the deduplication entry of the key even if a
  later activation wrote it; two roots with one key are then active, where
  actor.go:183 has "global dedup suppresses duplicates".
* `BegunIsRunning` (tasks.go:61): a request with the key of a finished task begins
  nothing; the task stays complete, where tasks.go:45 has "transitions to
  running".
* `ReceiptAgrees` (tasks.go:111): a receipt is written with the status a handler
  asked for, not the one the task has; receipt.go:155 speaks of a "terminal task".
* `TasksEnd` without its exception for `left` (operations.go:529): handlers that
  return an error without failing their task leave it running for good, and
  running tasks are never evicted, so that "MaxRegistrySize bounds registry
  growth" (registry.go:13) is not so.
* `TasksEnd` without its exception for `Waits` (operations.go:527): a sidecar that
  never answers, or a client that stops sending an ingest's body or reading a
  snapshot, leaves the task running just so, since neither `http.Post` nor the
  server (main.go:70) has a timeout.
* `Verifies` with `Faults = {"error"}` (receipts.go:146): a save that fails uses up
  its number, and the chain has a gap for good; chain_test.go:39 has "expected
  receipt chain to verify".
* `ReplayEquivalent` with two handlers that append (operations.go:331): two
  concurrent appends are proposed on the same file; the workspace has both lines,
  replay one (replay_test.go:102, "expected replay equivalence").
* `ReplayEquivalent` with `Archive = {events}`, an update and two imports
  (replay.go:35): replay keeps what the second import of the same archive threw
  away, since a baseline does not start the projection over.  The same follows
  of importing an edited envelope that lacks a build-ledger file.
* `SnapshotReplays` with `Op = {"append", "snapshot"}` and two handlers
  (server/snapshot.go:30): the events are listed before the files are read; a
  line appended between them is in the files and not in the events.
* `DecidedOnce` with two handlers (quarantine_blobs.go:35): a blob's status is
  tested before the proposal and set after it; two requests decide one blob.
* `DecidedOnce` with `Faults = {"persist"}` (quarantine_blobs.go:85): a decision is
  made in memory before it is written, the write's error is dropped, and a
  restart forgets it.
* `ReceiptTruthful` with `Op = {"materialize"}, Faults = {"write"}`
  (operations.go:163): the receipt says delivered before the files are written,
  and stays when they are not (ARCHITECTURE_RECONCILED.md:18-27).  With
  `Op = {"materialize", "admit"}` it needs no fault: a blob admitted below a file
  blocks the write.
* `VisibleImported` with `Op = {"ingest"}` (ingest_query.go:121): an ingested
  archive's workspace is visible without any accepted transition (import.go:121).
* `AdmittedPresent` with `Op = {"admit"}` and two imports (quarantine_store.go:36):
  after a re-import a blob is approved and its file gone.
* An exported envelope of a workspace with a file below another file does not give
  that file back, and one of a workspace with added files always reports a "file
  count" (zip.go:142); `EnvelopeKeeps` excepts both.  The document that lists the
  envelope among what is kept has "still round-trips via ToEnvelope/Parse"
  (docs/CHUNK-05-ingest-compatibility-map.md:129).
* `GraphRebuildable` with `Faults = {"restart"}` (ingest_query.go:28): a restarted
  server has no graph, and its packets cannot be ingested again
  (docs/CHUNK-05-ingest-compatibility-map.md:127).
* `GraphRebuildable` with two workspaces (graph/store.go:73): a rebuild mixes the
  workspaces of the history.
* `RetryIdempotent` (ingest/transition.go:37): a retry conflicts, since it names
  another predecessor; orchestrator.go:87 has "Duplicate TransitionID is
  idempotent", chunk07_test.go:451 admits the conflict.
* `SharedRecordsAgree` (progress_integration.go:47): requests of an actor for one
  capability share an id; the record is the last request's, the task the first's.
* `MaxConcurrency` of a descriptor's bounds (descriptor.go:49) is read by nothing;
  nothing in the model bounds the executors that run, either.

## Proofs

The theorems hold for every value of the constants that satisfies the named
assumptions of the modules: distinct sentinels, natural bounds, and `Faults` a
set of the fault kinds.  Where a theorem excludes a kind of fault, its
statement says so.

`AuthorityProofs` proves the ledger's type invariant, the uniqueness of ids and
the single uncertain write under every fault; that acknowledged history stays,
that checkpoints are bound and that the file only grows without power losses;
and, where no call fails half-way, that accepted records are on the medium and
survive power losses.  The last needs the strengthening `AllSynced`: every
line is synced and a file that holds one has a durable entry.  Neither holds
after a failed or interrupted call.

For the composition it reuses those step lemmas: every step of the composition is a
step of the ledger, the handling of a request, or leaves the ledger alone
(`StepIsLedgerStep`).  Its inductive invariant `Inv` adds to the properties
what makes them inductive: while an event is in flight the service's number is
the event's, its predecessor is the current projection and its id is new
(`Flight`); an acknowledgement on its way or received tells the truth about the
file (`ReplyTrue`), which rests on the file only growing; and everything posted
has an id (`Named`).  `AcceptedBound`, `PromisedDurable` and `PromisedVisible`
follow, and so does the step simulation of `AcceptedHistory`: a step that
writes a line is a `Record`, since the duplicate check has seen the whole file,
and a step that tells a caller is a `Tell`, since what it tells is bound.

`ChainProofs` goes on from that invariant.  A line is mirrored only on an
acknowledgement that tells the truth, and records stay: `MirrorFaithful`.  For
`OneChain` the bindings are ordered by place as their predecessors are by
version, and none lies beyond `seq` (`Ordered`); each was admitted on what
another gave (`Linked`); and there are as many ids as versions (`Counted`, and
`FileCounted` for the file a starting server replays, whose versions number its
lines).  All of it holds under every fault, because an acknowledgement for
another place than the event's is refused.  `HeadsAgree` needs `NoAnswerLost`;
its invariant is what can be in flight then: nothing (`Resting`), an event
that the ledger does not have (`Awaiting`), or one that it has, with Go's
acknowledgement of it (`Answered`).

The theorems about `Checkpoints` are under `NoAnswerLost`, too, and build on that
invariant, since every step of `CheckpointedSpec` is one of `Spec`
(`CheckpointedIsAuthority`).  `CheckpointInv` says that the binding of each
accepted transition is its record's hash (`BindingTrue`), that a checkpoint holds
what a replay of the history up to its head gives (`CheckpointGood`), and that a
line of the mirror is its record, envelope and all (`MirrorExact`).  A history that
grows keeps what a checkpoint holds of it, and the suffix replays to what the whole
replays to: `CheckpointsRebuild`.  A place among the lines that parse is at most
the line's number, so that an approved line numbered by its place is the record
there: `ApprovedMirrorsArePrefixes`.
`ActorsProofs` proves that an end is final, that the limit holds, and that a
lineage has no duplicates.  Its invariant `WellFormed` says that the records
have their types and that no lineage is younger than its members.  Every step
either ends some activations and leaves the rest alone (`Later`), or first
expires the overdue ones and then adds one record (`StepShape`, `Attempted`).
Only an `Admit` adds an active one, and it has counted the records that are
active after the expiry and searched its lineage (`NoLike`); that it does so and
adds under one mutex is what the proof rests on.  A root needs no search: its
lineage is new.

`Consistent` needs more (`Inv`): that no query works with a rejected activation
(`QueriesKnown`), nothing halts before Shutdown, and of the windows
(`WindowsIn`) that an entry names the youngest of its key that was not
rejected, that where an active activation has no entry another of its key has
ended, and that only roots have depth 1.  `Closes` and `Append` are the two things
that happen to windows, and each keeps it (`ClosingKeeps`, `RejectionKeeps`,
`AdmissionKeeps`).  A type invariant alone would not do: that an entry is
missing says something only because of who removed it.
`TasksProofs` proves the four safety properties of `Tasks`.  `Accounted` is not
inductive: `Inv` adds that a task is pending only while its handler is about to
start it (`PendingStarts`); that every active task is left or with a handler at
a step before its end (`ActiveTended`); what kinds and ids handlers at each step
have (`HandlersFit`); that a random id is one handler's, once (`RandomOnce`); and
what a handler's own task is at each of its steps and after the last (`OwnFits`,
`OwnDone`), which no other request can disturb and no eviction while it runs.
For `RegistryBounded` eviction is counted: the terminal tasks are ordered by
`older` (`Ordered`), so that as many are evicted as there are beyond the maximum,
or all of them (`RankCount`).
`ReceiptsProofs` proves types, `ChainSound` and `GivenKept`.  The strengthening is
about the files, which outlive the process: their numbers are distinct and at
most `seq`, and each hash is that of its receipt (`FilesSound`); while no write
has failed they are linked and as many as `seq` says (`FilesLinked`), whether a
killed `Save` left its file or not (`LeftSound`).  `Load` rebuilds `seq` and
`lastHash` from any files of which this is true (`LoadSound`).
`WorkspacesProofs` proves `ContentAccepted` and `DecisionAccepted` with ingests,
edited envelopes and every fault.  Its invariant says of each thing that it holds
only what the ledger allows: `ObjectFits` of a workspace, `StatusesFit` of the
items in memory and on disk, `AllowedFiles` of the disk, of a snapshot and of
exported files, and `HandlerFits` of a handler.  These are stated about a ledger
as a parameter and kept when it grows (`Continues`), so that a step has to show
only what it changes.  What makes them inductive is `Owns`: from its acceptance on
a handler's path, content, blob and action are those of its own transition, which
is why what it writes later, into a workspace others have changed meanwhile, is
allowed there.  An import's files are allowed only once accepted.  Nothing is
assumed of what a client did to an envelope but the types of its entries.  That
the files a workspace has are a finite set is needed for `SetToSeq` to list them.

`EnvelopeKeeps` holds without any hypothesis.  An envelope is what was exported or
one edit of it (`EnvelopeInv`).  `SetToSeq` lists each file of the workspace
(`SetToSeqOnto`), so the manifest names them all, and no edit changes the manifest:
an entry that is verified has the listed size and hash, and what differs from the
list is an issue (`ManifestKeeps`).

`VisibleImported` needs that nothing is ingested, and that no build-ledger file is
below another file (`LedgerUncovered`), since an envelope would lose it.  Its
invariant counts (`PaidInv`): there are as many receipted imports, and as many
baselines, as workspaces made and handlers that have theirs and are on the way to
`Expose`.  `FreshInv` has no two handlers save a receipt for one transition.  That
a baseline is proposed at all rests on `ThereInv`: the archive's build-ledger files
stay in everything made of it, through edits and envelopes.

The last two are about one request after the other, `Handler = {h}`, with nothing
ingested and every receipt saved (`Serial`); an ingest or a receipt that fails
breaks both in a few steps, and two handlers do as told above.  Imports of
archives and of edited envelopes, materialization, snapshots, failing writes and
restarts remain.  Then the accepted transition that a handler carries out is the
newest, and its workspace the store's (`OneInv`), so that the ledger is carried out
up to `Settled`: all of it, or all but its last transition.

`DecisionInv` says of this prefix what `DecisionFinal` says of the whole when no
request is under way: the items are what it decided (`ItemsRight`), the decisions
shown are its last (`LastShown`), and the workspace's list of blobs is that of the
items, but between `Decide` and `UpdateStatus` and while an import is made
(`StatusShown`).  A blob is decided once because what `Prepare` checked still holds
when the transition is accepted.  The theorem excludes a kill in the middle of a
request, too, and items that fail to be persisted: both make the server forget a
decision that was accepted.

`ReplayInv` says that the workspace's build-ledger files are the replay of the
prefix (`PlayedTo`), and that a proposal has what the change will make of the file
(`Proposed`).  Kills and failures of every kind but a receipt's are allowed: a
workspace that is lost with its request comes back with an import.  The archive
has every build-ledger file, so that each import starts all of them over, and
blobs are admitted elsewhere (`Replayable`); without the one the counterexample
above is a way out, without the other an admission is, which replay ignores.
`ContextGraphProofs` proves `PacketsAccepted`, `GraphReplayed` and `QueryRight`
for every tree, order of hashes, archive and number of handlers, in three parts.
The first is about `Build` alone, for any set of sources: the first of a set
exists (a least rank, by well-foundedness), the directories above a place are
closed under parents, ids of different nodes differ, and so a built graph is
typed and sound.  The second is the invariant `Inv`.  `StoreFits` says a store's
graph is `Build` of its packets, which are accepted ones; `HandlerFits` says that
a handler at `accepted` has an accepted packet, and one that has read a graph has
nodes whose packets are in the store, which only a restart takes out, and a
restart ends the handler.  For `GraphReplayed` that is not enough: `NothingLost`
adds that, until a restart, an accepted packet is in its store or held by a
handler that will apply it; and since a source is accepted once (`HistoryInv`),
the packet that `Apply` finds there is the same one.  The third is about sorting: a
finite set with a strict total order can be sorted (`OrderExists`: how many come
before a member numbers the members), and a sorted sequence has before each member
just those that come before it (`OrderIs`).  `Better` is such an order of nodes with
different sources (`BetterIs`), which a graph's file nodes have because their ids
differ, and there are finitely many, because the history is finite.  That metadata
alone is never selected needs a threshold above 0, which `WithDefaults` gives the
server (selection.go:26, ingest_query.go:29).

It also proves for all counts that scores are bounded, that metadata alone
activates nothing and that more matches never score less; the caps on the sums,
it turns out, never cut anything.
`CapabilityProofs` proves the type invariant and `AcceptedEarned`.  The
strengthening `Inv` says of each call what the step it has come to tells
(`Stage`: an executor that ran is still the registered one, since the registry
only grows and never replaces; an admitted call has a completed result of a
mutating executor), that an accepted call is done (`Earned`), and that no
transition id is accepted twice (`IdsOnce`).  `RequestOnce` follows because equal
requests have equal ids, however the ids are cut.

`RecordsAgree` is proved from `RecordInv`: the record filed under an id is of a
call with that id, an id without a record has no task, and, where a call's id is
nobody else's, its record, its status and its task are where its last step left
them (`Followed`), whatever calls with other ids do.

It also shows that every step of the membrane is an executor's, so that
the composition implements `Capability`, and that it keeps `ExecutionsEarned`:
`Inv` carries over, and `NativeStage` adds for each call that a native executor
that completed has the goroutine's result of an allowed symbol.

Only model-checked: liveness (`ProposalAnswered`, `TasksEnd`, `NothingWaits`),
which the prover does not reach.  Each of the safety properties that a run finds
to hold is a theorem.  Those that hold of some instances only, in
`sidecar_*`, `authority_calm` and, but for `EnvelopeKeeps`, in `workspaces_alone`,
have hypotheses that their statements name.

## Abstractions

* Outside `Authority` a call of `Propose` is one step that accepts or refuses, as
  its mutex makes it look to callers; what a lost answer does is `Authority`'s
  subject alone.
* Names, paths, texts and times are model values; an order among them, where the
  code sorts, is a constant.
* Hashes are injective; JSON and canonical forms are what they compare.
* A projection has the (entity, node) pairs of `Node`; operation, proposal and
  request ids and admission data belong to the datum.
* Malformed proposals never reach the log and change nothing; the policy hook
  is nil in this repository (`server.go`).
* A server without `RUST_LEDGER_URL` accepts no transition; the models
  are of a configured one.
* Only transitions are posted: `Propose` is the only caller of `Append`.

## Not modelled

* The text adapters (`internal/ingest/adapter.go`) and context packets: pure
  functions from text to tokens and sections, without state.  `Scoring` takes the
  counts they produce.
* UI, studio, reports, diffs, status, metrics, the CLI and the embedded assets:
  they read and present, and decide nothing.
* `eventlog.Checkpoint` writes a file that no code reads; `snapshot.VerifyLoaded`
  refuses every archive that holds a typed event (read.go:136), so there is
  nothing for it to get wrong with the snapshots this server makes.
* In modelled components: handlers that no route reaches (`phase2.go`), functions
  only tests call (`OnRestart`, `MarkAbandoned`, `Delete`), the encoding of names and
  of malformed JSON, and the secret scan.
* Random ids, which are taken to be new, and clocks that go backwards.

## Plan

Written: the ledger, the event log and the authority with checkpoints and their
proofs; the actors; the tasks; the receipts; the workspaces with their
quarantine, envelopes and snapshots; ingest, graph and scoring; the capability
manager with the native membrane.  What is left:

1. `Workspaces` and `ContextGraph` on `Authority` itself instead of one step of
   `Propose`, so that lost answers reach the handlers.
2. `ContextGraph`: the activations of a query against `Actors`, with the
   orchestrator's limit of actors per request and the controller's of all.
3. An abstract task (begun, ended once, its receipt) that `Tasks` implements for
   handlers that do not share ids, and an abstract actor life for `Actors`.
4. Proofs of the refinements that 3 states.
