# distribd: TLA+ models, model checking and proofs

distribd is a distributed container registry. Every member of a cluster stores
blobs and manifests on its own disk; a raft log (openraft) replicates the
metadata: which digest exists, in which repositories, on which members, and
which tag names which manifest. Paths below are relative to the repository's
`src/` unless they begin with `src/`, in which case they are as in
`PROJECT.json`.

Contents: [Inventory](#inventory) · [Modules](#modules) · [Runs](#runs) ·
[Proofs](#proofs) · [Disagreements](#disagreements-between-the-code-and-what-is-said-of-it) ·
[Not modelled](#not-modelled) · [Plan](#plan)

To repeat a run: `tlc -config <cfg> <module>` with the pairs listed under
[Runs](#runs); to repeat a proof: `tlapm <module>_proofs.tla` with the modules
listed under [Proofs](#proofs).

## Inventory

| Part | State | Operations | What is hard | What makes it correct |
| --- | --- | --- | --- | --- |
| Replicated state machine, `store/mod.rs` | sled trees `blobs`, `manifests`, `tags`, `state_machine` (last_applied_log, last_membership); the watch channels `pending_blobs`, `pending_manifests` | `apply_to_state_machine`, `build_snapshot`, `install_snapshot`, `RegistryStore::new` | crash anywhere; a snapshot installed by several writes; a panic inside a transaction | trees are what the log makes of them; channels hold exactly what is to be mirrored; replicas agree |
| Raft log store, `store/mod.rs` | trees `store` (vote, last_purged, snapshot_index, snapshot) and `logs` | `save_vote`, `append_to_log`, `delete_conflict_logs_since`, `purge_logs_upto`, `build_snapshot`, `install_snapshot` | crash between a write and its flush; a purge beyond the end of the log; a task building a snapshot next to the raft core | what is acknowledged survives; no gap; purged entries are covered by a snapshot |
| Mirror, `mirror.rs` | a copy of the pending set, two waiter tasks, the file being downloaded | wake up, download, rename, submit `BlobStored` | set changes during a round; failures; senders replaced by an install | everything wanted is fetched; a location means a file |
| GET/HEAD, `registry/{blobs,manifests}/{get,head}.rs`, waiters in `app.rs` | `blob_waiters`, `manifest_waiters` | read the row, register a waiter, wait, send the file | arrival between reading and registering; clients going away | who waits is woken; who is woken finds the file |
| Uploads, `registry/blobs/uploads/*.rs`, `registry/utils.rs` | the files `uploads/blob-<id>` and `blobs/<digest>` | POST, PATCH, PUT, DELETE, GET | overlapping requests of one upload; broken connections; a write that goes on after its request was aborted | a blob has the content its digest names; a row has the blob's size |
| Write submission, `app.rs`, `client.rs`, `network/api.rs` | the calls under way; the metrics channel of openraft | `submit_write`, `consistent_write`, forward to the leader, repeat | a timeout leaves the outcome open; leader changes; the wait for the metrics | success means committed, and applied here; a transaction is committed once unless it is sent again after a node accepted it; every call ends |
| Manifest PUT/DELETE, blob DELETE, mount | manifest files | extract, write file, submit | rows change between check and commit | a tag names a manifest whose dependencies are there |
| Extractor, `extractor.rs` | a worklist | walk of the dependencies of a manifest | rows read one after another | finds the closure; keeps repositories apart |
| Tag list, `registry/tags/get.rs` | none | scan, sort, pagination | tags change between pages and during the scan; a node that lags; bounds | pages cover the tags; following the links ends |
| Garbage collection, `garbage.rs`, orphans in `store/mod.rs` | none (never spawned at this commit) | two phases: unmount, then remove file and unstore | scans without a lock; check-then-delete against uploads and pushes; cleanups and writes that fail | nothing reachable is removed |
| fsck, import and export: `bin/main.rs`, `network/management.rs` | none | submit `BlobUnstored`; a dump as actions | order of actions; stale export | the log never panics `apply`; an import restores |
| Webhooks, `webhook.rs` | a queue of 100 | queue, post one by one | a slow receiver blocks PUT | PUT ends; an event is about something that can be pulled |
| The locks of the store, `store/mod.rs` | the `RwLock` `state_machine`; sled's transaction lock | apply, install, build, export, transfer, register | taken in two orders | readers see one state; nobody waits for ever |
| Raft transport, `network/raft*.rs` | none | HTTP for openraft | openraft's | openraft's |
| Tokens, configuration, certificates, metrics, names | none | parsing, signatures, counters | - | - |

How the parts interact: handlers and the mirror submit `RegistryAction`s to
openraft; openraft calls the two halves of `RegistryStore`; applying an action
changes the trees, then the watch channels (which wake the mirror) and the
waiters (which wake GET and HEAD). The state machine's `RwLock` is shared by all
of them: a panic under it poisons every later user. Files are shared by uploads,
mirror and GET with nothing but the file system between them.

`PROJECT.json` lists the hazards at the lines where they bite.

## Modules

| Module | Models | Extends |
| --- | --- | --- |
| `RegistryTables` | the trees as values, every `RegistryAction` as a function on them | |
| `RegistryStore` | the state machine on every member | `RegistryTables` |
| `MCRegistryStore` | two nodes and the transactions the handlers submit | `RegistryStore` |
| `RegistryStore_proofs` | theorems about `RegistryStore` | `RegistryStore` |
| `RaftLogStore` | the raft log store of one node | |
| `RaftLogStore_proofs` | theorems about `RaftLogStore` | `RaftLogStore` |
| `NodeMirror`, `MCNodeMirror`, `NodeMirror_proofs` | on one member: apply, mirror loop, waiting requests | |
| `UploadSession`, `MCUploadSession`, `UploadSession_proofs` | on one member: the upload handlers | |
| `RegistryWrite` | what `submit_write` and `consistent_write` promise: the abstract specification | |
| `WriteForwarding`, `MCWriteForwarding`, `WriteForwarding_proofs` | how they keep it: leader, forwarding, retries, time-outs; webhooks | instantiates `RegistryWrite` |
| `StoreLocks`, `MCStoreLocks`, `StoreLocks_proofs` | on one member: the two locks of the store and the tasks that take them | |
| `RegistryCluster`, `MCRegistryCluster`, `RegistryCluster_proofs` | the tasks of all members over the tables and the files: uploads, pushes, deletes, mounts, transfers, garbage collection, fsck, import | `RegistryTables` |
| `TagListing` | a client that lists tags by pages, over members that lag | |
| `OrphanSearch` | the search for orphans, row by row | |
| `MCQueries` | one listing or one search | `TagListing`, `OrphanSearch` |
| `Queries_proofs` | theorems about listings and about searches | `TagListing`, `OrphanSearch` |

How they fit together. `RegistryStore` is the log and its replicas;
`RegistryTables`, the meaning of one action, is shared with `RegistryCluster`,
which takes the replicas for one and asks what the tasks that fill the log do to
each other. `WriteForwarding` justifies what `RegistryCluster` and
`UploadSession` assume of a write: it may fail, and a transaction that is
committed is committed after it was submitted, perhaps after its caller has given up.
`StoreLocks` justifies that `RegistryStore` builds a snapshot in one step
(`ReadsAreOneState`), and `OrphanSearch` says what is left out where
`RegistryCluster` takes a search for one step.

### RegistryTables and RegistryStore

Blobs and manifests are the same record in the source and their arms of `apply`
are the same code twice, so both trees are one function on
`Key == {"blob", "manifest"} \X Digest`. Of `content_type` and `size` only their
presence is kept; `updated` is written and never read.

The committed log is flat, one item per action, `last` marking the end of an
entry; `lastApplied` counts items. `pc[n]` is the step of node `n`'s worker.

| Action | Code (`store/mod.rs`) |
| --- | --- |
| `BeginApply`, `ApplyOne`, `ApplyPanics`, `CommitApply` | first phase of `apply_to_state_machine`: the sled transaction over the entries of one call; `.unwrap().unwrap()` of a missing row panics and the transaction is lost |
| `Notify`, `NotifyPanics` | second phase: the channels from the rows as they are now, the waiters |
| `BuildSnapshot` | `build_snapshot`, at any point of whatever the worker does |
| `InstallBlobs`, `InstallManifests`, `InstallTags`, `SetLastApplied`, `SetLastMembership`, `SwapStateMachine`, `SaveSnapshot` | `install_snapshot`, one action for each flushed write |
| `Crash`, `Start` | the process ends anywhere; `RegistryStore::new` |

`hist` and `stale` are ghosts. `hist[i + 1]` is what the first `i` items make of
empty trees. `stale[n]` is the part of a node's trees that an `install_snapshot`
put there and that is not what the log says at `lastApplied[n]`: rows written
ahead of `last_applied_log` in the middle of an install, and rows the node had
and the snapshot has not, since the batch of inserts removes nothing. It grows
only by these three writes, and `StaleIsDeleted` says how little it is. It is
`torn` if it goes back to an install that a crash cut short, or to a snapshot
that `build_snapshot` read in the middle of an install and that another node
installed: nothing in the code keeps the snapshot task away from the trees while
`install_snapshot` writes them.

External: openraft (one call at a time per node, consecutive committed entries,
snapshots only ahead of what was applied) and sled (a batch is atomic, a crash
loses a suffix of the unflushed writes).

### RaftLogStore

`mem` is what the process reads, `recoverable` the set of states a crash may
leave: the one last flushed and every one written since. A flush shrinks it to
the present, so that a crash is a choice from `recoverable`. Each call of the
raft core is a write and a flush (`purge_logs_upto` twice that), and the builder's
steps come between them in every order. Of the state machine `last_applied_log`
is kept (`Apply`, `Applied`), since a start compares the log with it.

`InstallSnapshot`, `LastAppliedSet`, `SaveInstalled` and `Installed` are
`install_snapshot`; the log stays as it was until the `purge_logs_upto` that
openraft makes next, and which may go beyond its end. A crash in between leaves
entries below the purge mark, so that `get_log_state` answers a `last_log_id` below
`last_purged_log_id`. openraft repairs that when it starts: it finds the log behind
`last_applied_log` and purges up to there (`Restart`). `LogStateIsSane` says that
the start can always tell, and that a running node has no such log.

`acked` and `issued` are ghosts: what was acknowledged to openraft, and the snapshot
numbers given out; `committed` and `covered` are what openraft knows. The ghost
`behind` says that the stored snapshot does not reach what was installed: an install
was cut short after `last_applied_log` was written and before the snapshot was, or a
build that began before the install stored its snapshot after it. It ends with the
next snapshot that is stored.

### NodeMirror

One of the two identical pairs of loop, channel and waiters. `Uploaded`, `Lost`
and `Install` are what arrives through the log; `Apply` with `Notify` is
`apply_to_state_machine`; `Subscribe`, `JoinChanged`, `JoinTimeout`,
`JoinClosed`, `Visit` in its variants, `Submit` and `EndRound` are `do_miroring`
and `do_transfer`; `Get`, `Register`, `Serve` and `Disconnect` a GET or HEAD. A
watch receiver matters only for having seen the current version or not: `unseen`
and `changeUnseen`. A poisoned lock ends each task at its next use of the lock.

Fairness: weak fairness of the worker's two phases, of the loop, of the timer
and of each handler. tokio polls each task that can run, time passes, and
openraft applies what is committed. Nothing is assumed of uploads, losses,
failures, installs or disconnections, so they may or may not happen. Fairness of
the loop assumes that a download ends, with the file or with an error: `mirror.rs`
sets no time-out on its requests, and a peer that accepts the connection and never
answers would hold the loop for ever.

### UploadSession

A path names a file, a file has a content: whoever has opened a file goes on
writing to it after a rename or a remove. Each call of `tokio::fs` is a step.
SHA-256 is taken to be injective, so that a digest is the content it names. A
client may go away at any step; the write that tokio has already handed to its
blocking pool then still happens (`"late"`).

Nothing in the code keeps the requests of one upload apart, and nothing in the
model does: any number of them run at once, and a request may begin while the late
write of another is still to come. What that can spoil is followed by two ghosts.
A handler is `touched` when another request of its upload has written to the file,
created it again, renamed or removed it since the handler last looked: since
`CheckRange` for a PATCH, since `validate_hash` opened the file for a PUT
(`OpenToHash`; `Hash` reads it to its end later). A digest is `spoilt` when its file
was renamed by a touched handler, or written to after the rename. The properties
say that nothing else does harm, and the run `unvalidated` shows that this does.

### WriteForwarding and RegistryWrite

A call is followed from `client_write` on its own node (`LocalAccepts`,
`LocalRefuses`) through `send_rpc_to_leader` (`Send`, `Deliver`, `Conflict`,
`Succeeds`, `Fails`) to the loop of `consistent_write` (`Check`, `Changed`) and,
for PUT of a manifest, the queue of webhooks (`Enqueue`, `Receive`, `Posted`).
`Fails` is the three seconds of the client running out, or a broken connection:
the request stays on the wire and may still be appended. Only `ForwardToLeader`
makes the code try again; `Repeat` is the retry middleware that only the command
line's client has. A call whose answer no longer matters to anyone (`Awaited`)
leaves its entry in the log all the same.

External, as `src/` uses it: openraft's `client_write`, elections, the hint of
`ForwardToLeader` (right, stale or none), the metrics channel (`published`, which
may lag behind `applied`, and tokio's rule for a receiver that was just cloned).
A new leader keeps what is decided and any part of the rest; what it does not have
is `stray`, and a later leader may bring it back. `Conflict` is the node that
appended an entry deleting it: the `client_write` that waited returns
`ForwardToLeader`, and the code sends the transaction on. The entry is then
`deleted` on that node, but with five members others may still hold it, and a leader
elected from among them commits it next to the second attempt. Such a call is
`redone`.

`RegistryWrite` is the promise: `Ask`, `Redo` (sent again although a node had
accepted it: after `Conflict`, or by the command line's client), `Decide` (at any
time, also after the caller was told of a failure, and once unless it was redone),
`Apply`, `Succeed` (only for what is decided, and for `consistent_write` applied on
the caller's node), `Fail`. The refinement mapping of `KeepsPromise` hides the
leader, the wire and the channel; `decided` is the committed part of the log. What
the refinement rules out is a second commit by any other way: a refusal at once, a
wrong hint, a time-out, a broken connection or a request that arrives late.

Fairness: tokio runs every task that can run; the client's time-out ends every
request; openraft commits, replicates and applies while the leader stays, and
elections are finitely many. A request need not arrive (`Deliver` has no
fairness) and a receiver of webhooks need not answer (`Hang`).

### StoreLocks

Of a tree only the index of the state it belongs to is kept, so that two reads
of different states are told apart. `BeginTransaction`, `RunClosure`,
`CommitTransaction` and `Notify` are `apply_to_state_machine`: the closure asks
for the write lock inside the sled transaction and gives it back before the
commit. `InstallPart`, `Swap`, `SaveInstalled` are `install_snapshot`, which
writes the trees without a lock. `Ask`, `LockForReading`, `ReadPart`, `Number`,
`SaveBuilt` are the readers, `AskToWait`, `LockForWaiting`, `Push` a GET that
registers a waiter. `mixed` is a ghost: the readers an install has overlapped.

External: sled's lock (a transaction holds it from its closure to the end of its
commit, a single read or insert needs it for a moment, so that the builder's
inserts wait for a transaction as well) and the `RwLock` of Linux (no reader
comes in while a writer waits). Fairness: every thread that can go on does.

### RegistryCluster

`task[w]` is a handler or a background job between two of its awaits; two of
them run at the same time. A task looks at the tables and at the files of its
node step by step, puts a transaction together and submits it: `Commit` applies
it, `WriteFails` does not.

| Actions | Code |
| --- | --- |
| `FinishUpload`, `MountBlob` | `registry/blobs/uploads/{put,post}.rs`, from the rename on (before it: `UploadSession`) |
| `DeleteBlob`, `DeleteManifest` | `registry/{blobs,manifests}/delete.rs`: only the mount goes |
| `PutManifest`, `ExtractOne`, `FinishPut` | `registry/manifests/put.rs` with the loop of `extractor.rs` |
| `StartTransfer`, `Fetch`, `FetchFails` | `do_transfer` and the write after it, `mirror.rs` |
| `StartSweep1`, `SweepBlobs1` | `do_garbage_collect_phase1`, `garbage.rs` |
| `StartSweep2`, `CleanUp`, `SweepBlobs2`, `FinishSweep2` | `do_garbage_collect_phase2`, `cleanup_object` |
| `StartFsck`, `CheckFile`, `FinishFsck` | `fsck`, `bin/main.rs` |
| `ImportActions` (an operator) | `import`, `network/management.rs` |

The constant `Found` says what `extract_one` finds in the bytes of an object: for
each digest named there, whether the content type given with it is one that has a
schema, and whether a size is given and is right. So two manifests may name one
blob under different content types, as the code lets them: under a type without
a schema the file is not read, and the row gets no dependencies (`Extracted`).
`Content`, the digests of `Found`, and `Closure` over it are the reference for the
extractor's loop and for the orphans. Time is counted in units of the collector's
minimum age. The ghosts say what went on around a row:
`dropped` (it was deleted), `unlogged` (a sweep removed the file and no entry says
so yet), `crossed` (the file was removed under a task about to log it),
`overlapped` (a push that names it ran at the time of a sweep of phase 2 or of
fsck), `botched` (a sweep removed the file under a task about to log it, or failed
to log it). They name the exceptions of the properties, which would be false
without them.

`Init` is a registry without objects. The run begins in `MCInit` instead: states in
which one of seven histories has been applied and every location has its file, so
that three tasks are enough for the cases that matter.

### TagListing and OrphanSearch

Both read sled trees row by row while entries are applied. In `TagListing` the
key order of the tree differs from the order of the names, since the serialized
key has the length of the string first: the answer depends on the sort. A
client follows every `Link`, each time to a node that has applied its own prefix
of the log; `Sorted`, `Position`, `FromLast`, `PagePanics` and `LinkOf` are the
arithmetic of the page, and `Joined` is what the client makes of it. Assumed of
`KeyOrder`: the keys of a tree are distinct, and those of a repository are next to
each other, because its name comes first.
Fairness: the client follows each link, a handler ends. `OrphanSearch` reads rows
in any order (the digests' order is not that of the references) against pushes and
deletions. It begins with any rows, among them manifests and blobs that name what
has no row, which the search passes over, and with tags whose manifest is gone.
`atStart`, `lost` and `steady` are ghosts: what was reachable when the search began,
whether a row was deleted since or lost its dependencies to a push that named the
blob by another type, the tags not moved since.

## Runs

| Run | Module, cfg | Shows |
| --- | --- | --- |
| `store` | `MCRegistryStore`, `MCRegistryStore_store.cfg` | In every order of applying, building, installing and crashing, for a log about a blob and for one about a manifest, tags, membership and blank entries: the trees are what the log says outside of `stale` (`TablesFollowLog`), also in the middle of an install; so is every stored snapshot (`SnapshotsFollowLog`); unless an install was cut short, or a snapshot read in the middle of one, only deleted rows are stale (`StaleIsDeleted`); the channels hold everything to be mirrored (`PendingComplete`) and nothing that is held (`PendingNotHeld`); an entry that panics stops everyone (`NobodyPassesPoison`); `last_applied_log` never goes back or rests inside an entry (`AppliedGoesForward`) |
| `diverge` | `MCRegistryStore`, `MCRegistryStore_diverge.cfg` | *violation* of `ReplicasAgree` |
| `mirror` | `MCNodeMirror`, `MCNodeMirror_mirror.cfg` | The loop never sleeps on news (`NoLostChange`); a location is a file (`HeldHasFile`); a handler that goes on finds its file (`ServeFindsFile`, until an install drops the senders and sends handlers on); without failure or install everything wanted is mirrored (`MirroredUnlessDisturbed`); with the timer running a failed download is tried again (`TimerRetries`) |
| `lostwake` | `MCNodeMirror`, `MCNodeMirror_lostwake.cfg` | *violation* of `WaitEnds` |
| `raftlog` | `RaftLogStore`, `MCRaftLogStore.cfg` | Of every state a crash may leave: what was acknowledged is there (`AckedIsDurable`), nothing is missing above the purge mark (`NoHole`), what was purged is applied, and a stored snapshot covers it unless an install was cut short or overtaken (`SnapshotCoversPurged`), `get_log_state` of a running node makes sense, and a start sees it when it does not (`LogStateIsSane`); no snapshot number is used twice (`SnapshotNumbersAreFresh`) |
| `uploads` | `MCUploadSession`, `MCUploadSession_sessions.cfg` | With any overlap of requests, broken connections, late writes and restarts: a blob has the content of its digest (`BlobMatchesDigest`) and a row the size of its blob (`RowMatchesBlob`) unless another request of the upload touched the file between the opening for the hash and the rename, or wrote to it later; a part with a Content-Range lands at its offset unless one touched the file after the comparison (`PartLandsAtItsOffset`) |
| `unvalidated` | `MCUploadSession`, `MCUploadSession_unvalidated.cfg` | *violation* of `StoredIsValidated` |
| `writes` | `MCWriteForwarding`, `MCWriteForwarding.cfg` | `WriteForwarding` implements `RegistryWrite` (`KeepsPromise`): success means committed, and applied here, and only a call that was sent again after a node had accepted it is committed twice; an event is posted only for a manifest its node has applied (`EventIsVisible`); the wait of `consistent_write` misses no change of the metrics (`WaitMissesNothing`); every call ends unless a receiver of webhooks hangs (`CallEnds`) |
| `locks` | `MCStoreLocks`, `MCStoreLocks_tasks.cfg` | A reader no install overlaps sees one state (`ReadsAreOneState`); the only way to wait for each other is the one of `deadlock`, in every state (`NoOtherDeadlock`) and for each task (`EndsUnlessStuck`), and nothing that happens later resolves it (`StuckForGood`, an action property) |
| `deadlock` | `MCStoreLocks`, `MCStoreLocks_deadlock.cfg` | *violation* of `ApplyEnds` |
| `queries` | `MCQueries`, `MCQueries.cfg` | A listing that ends has every tag, in order, whichever nodes served it (`ListingIsComplete`); for pages of two and more each link goes forward (`LinksGoForward`) and it ends (`ListingEnds`); it panics exactly unless the last page is full (`LastPageIsFull`); a search reports no blob that was reachable, unless a row was deleted meanwhile (`OrphansAreUnreachable`), and no manifest that one tag has named throughout (`TaggedIsNoOrphan`) |
| `cluster` | `MCRegistryCluster`, `MCRegistryCluster.cfg` | When a location can be without its file (`LocationHasFile`) and when the row of something a tag leads to can be deleted (`ReachedIsKept`, an action property); a search that follows the recorded dependencies comes to nothing that no push has analysed (`ClosureAnalysed`); only the mirror can commit an entry that panics (`PoisonIsATransfer`); an import gives back what was exported, or panics exactly for rows without a repository (`ImportRestores`) |

### Bounds

- `store`: 2 nodes and two workloads. About a blob: a log of 5 items, 2 crashes,
  snapshots of 4 items; an upload takes 3 items, the two left delete the row, lose
  or regain a location, or name a deleted row; a node can build a snapshot,
  another install it with a crash in the middle and another after the restart.
  About a manifest: a log of 10 items (an upload of 3, a manifest of 6 and one
  more), one crash, snapshots of 9. The nodes run once the log is
  complete (`MCNext`): a node may lag behind the log by any distance and a longer
  log disables no step, so an earlier start reaches nothing else. Actions that
  move no location are committed once.
- `mirror`: 2 members, 2 digests (one can be in `todo` while the other changes),
  one install, 3 changes and 2 failures (one by the change, one by the timer); or
  one request, one disconnection, 2 changes and no failure.
- `raftlog`: 3 indexes, 2 terms (a conflict), 2 snapshots, 2 crashes (one during
  the recovery of the other's work). An install may reach any index beyond what is
  committed, so the log may end before it, in it or beyond it.
- `uploads`: 2 requests at a time, 2 uploads that may name the same digest,
  blobs of one and two chunks, ranges at each offset and an inverted one, 4
  requests (POST, an aborted PATCH, a PATCH that resumes under its late write, PUT),
  one crash: about two million states. Handlers and upload ids are interchangeable;
  the chunks are not. `unvalidated`: 3 requests (POST, PATCH, PUT).
- `writes`: 3 nodes, one of which only leads, 2 tries instead of 3 and a queue of
  one event instead of 100, in three parts: one PUT with 2 elections, so that the
  second can bring back what its origin deleted after the first; one repair with one
  repetition and one election; two PUTs, which fill the queue and the worker,
  without elections.
- `locks`: 2 entries, a builder, a transfer and a GET. The export takes the locks
  as the builder does.
- `queries`: 2 nodes, 4 tags, pages of 0 to 3 and none, 4 tags committed at any
  moment (full and partial last pages both happen); 3 blobs and 2 manifests in 3
  shapes of content, any rows and tags to begin with, 2 entries during the search
  (a move of two tags).
- `cluster`: 2 nodes, 2 repositories, a layer, an image that names it, a manifest
  that names the image as it is, and one that names it without its size and by a
  type without a schema; 3 tasks, 2 at a time, beginning in seven histories (from
  empty to a half-collected image), so that a sweep, a push and a transfer
  can meet in any pair and a third can follow. Workers are interchangeable.

`CHECK_DEADLOCK FALSE` is in each cfg: at its bounds, and when everything has
been applied, mirrored and answered, the system may stop. `StoreLocks` states
who can wait for ever by properties of its own.

## Proofs

| Module | Theorems, besides the inductive invariant |
| --- | --- |
| `RegistryStore_proofs` | `TypeCorrect`, `TreesFollowLog`, `StoredSnapshotsFollowLog`, `PoisonStopsEveryone`, `AppliedForward`, `PendingIsComplete`, `PendingIsNotHeld`, `LeftoversAreDeleted` |
| `RaftLogStore_proofs` | `TypeCorrect`, `AckedDurable`, `NoHoles`, `PurgedIsCovered`, `LogStateSane`, `FreshSnapshotNumbers` |
| `StoreLocks_proofs` | `TypeCorrect`, `OneStateRead`, `OnlyDeadlock`, `DeadlockIsForGood` |
| `NodeMirror_proofs` | `NoLostWakeup`, `LocationsAreFiles`, `ServedFilesExist` |
| `UploadSession_proofs` | `BlobsAreValid`, `RowsAreBlobs`, `PartsLandInPlace` |
| `WriteForwarding_proofs` | `TypeCorrect`, `EventsAreVisible`, `NoLostMetrics`, `Refinement` |
| `Queries_proofs` | `BlobsAreOrphans`, `TaggedAreKept`; `ListTypeCorrect`, `ListingsAreComplete`, `LastPagesAreFull`, `LinksForward` |
| `RegistryCluster_proofs` | `TypeCorrect`, `LocationsHaveFiles`, `ReachedAreKept`, `ClosuresAreAnalysed`, `OnlyTransfersPoison`, `TablesAreTidy`, `ImportsRestore` |

They hold for every value of the constants that satisfies the named assumptions
of the modules, which TLC evaluates in the runs. These say that what stands for
`None` is not a value, that bounds are naturals, that handlers, digests and the
like are finitely many where the argument counts them (`FiniteAssumption`), and
that a builder reads all of the trees (`BuilderAssumption`). No theorem has a
hypothesis besides these.

**RegistryStore.** `IInv` is `TypeOK`, `HistOK` (each element of `hist` follows
from the one before) and `NodeOK` of every node:

- `TreesOK`: the property for the trees and for the stored snapshot, at an index
  that ends an entry. `Follows` ties tables, index and stale parts together and
  carries `NobodyPassesPoison`: which poison was passed is a question of the
  tables, of work in progress and of snapshots alike;
- `ApplyOK`: the same of `work`, the uncommitted trees of a transaction: the
  properties do not mention it, but `CommitApply` makes it the trees;
- `InstallOK`: the same of the snapshot being installed, and what its earlier
  writes have already put into the trees (`Written`): when `SetLastApplied`
  moves the index, each row the snapshot has is in the tree, which leaves only
  rows that the snapshot has not to be stale.

The step is proved action by action, over lemmas on what an action does to a row
and to tables that agree outside of `stale`.

`PendingInv` adds `PendingOK` for the channels. The properties speak of a node
between two calls; in the middle of one the channels fit the rows except for the
keys whose location the batch has moved so far (`Fits`, `Moved`), in `work` during
the transaction and in the trees before the second phase. After an install has set
the index, every row the snapshot has not is stale already, so that the channels
which `from_serializable` computes from the snapshot alone are right for the rest.

`StaleInv` adds `HistoryOK` (a row that was there and is not was deleted by an
item in between; a tag is never removed) and `NodeStale`: where nothing is torn,
stale rows were deleted, and in the middle of an install what the trees have more
than the snapshot was deleted by the log (`OnlyMore`). An earlier form of the
property asked for no crashes instead of nothing torn. It has no proof, since it
is false with three nodes: one builds a snapshot in the middle of an install, and
a third installs it. Two nodes and a short log, as in the run, never show it.

**RaftLogStore.** `IInv` is `TypeOK`, `RecoverableOK` (`mem` is recoverable, and
of every recoverable state `LogOK`, `AppliedOK` and `SnapshotOK` hold), `CoreOK` and
`BuilderOK` (what a call in progress has already written to `mem`). `AppliedOK` is
the strengthening that `LogStateIsSane` and the purge after an install need: the log
reaches what is applied, or all of it up to there was purged (`Current`), or it ends
before what is applied, which was installed (`LogBehind`); and what is committed is
applied or in the log. `CoreOK` says that the log is `Current` whenever openraft may
use it: an install leaves it `LogBehind`, and only a purge, in the same process or in
the next start, leads back to `"idle"`. `SnapshotOK` has the exception `behind`, and
`BuilderOK` how far a build that overlaps an install can fall back. Each write has a
lemma that says what it leaves; one lemma covers all of the flushes.

**StoreLocks.** A reader holds the lock while it reads (`ReaderOK`); the closure
has waited for the readers, and one that comes in between closure and commit has
read nothing yet (`CommitOK`): its first read waits for sled's lock, so it sees the
state after the commit and no other. `MixedOK` says that only an install that has
begun to write and not ended makes trees of two states, and that it marks the
readers it meets. `SnapshotBehind` and `ReadsBehind` order the stored snapshot,
what a build has read, and the trees.
For the deadlock the proof needs one fact more, `WriterOK`: who holds the lock for
writing is a GET that registers its waiter and waits for nothing. So if nobody can
go on, either a reader holds the lock and waits for a transaction, which can commit
unless it is at its closure, or nobody holds it, and then someone can take it.

**NodeMirror.** For the files: what is about to be submitted, and the move whose
second phase is due, have their file (`SubmitHasFile`, `MoveHasFile`), and a
waiter is registered only under the digest its request asks for (`WaitersOK`).
For the wake-up: the loop's receiver has seen the current version only if the loop
has read the current value (`ReadIsSeen`), and the receiver `wait_for_change` has
cloned has not seen more than the loop's own (`ChangeArmed`).

**UploadSession.** For any number of requests at once. `OpenOK`: those that have the
same file open are of the same upload, and if the file still has an upload's path it
is that one; so every write to a file marks every handler that relies on it.
`PathsOK`: a file has one path. `HandlerOK` has two parts. `KnowsOK` is what no other
request can undo, such as the digest that a PUT has been given and, after the rename,
that the blob has a file. `Untouched` is what is true of a handler as long as it is
not `touched`: the file has the length the range says; the file opened for the hash
is the one the path names; from `validate_hash` on its content is that of the digest,
and the size the length of it. A rename that keeps its digest from being `spoilt` is
one by an untouched handler, which gives the two properties of the blobs.

**WriteForwarding implements RegistryWrite.** `CallOK` says what a call has
learned (the index it waits for is committed and holds its entry; a manifest whose
event is to be queued is applied here). `OnceOK` is the heart: of a call that is
not `redone` there is at most one request on the wire, or one stray entry, or one
entry in the log, and none at all while the call is at `client_write` or about to
send. So a retry after a refusal at once never meets an entry of the attempt before;
the retry after a deletion for a conflict, and the repetition of the command line,
are `Redo`. An election keeps what is decided and brings back stray entries, each
at most once. `Refinement` then goes action by action: `LocalAccepts`, `Deliver`,
`Send` and the like are stutters of the abstract specification, commits are
`Decide`, the ends of a call are `Succeed` and `Fail`.

`NoLostMetrics` is inductive as it stands, given the types and `CallOK`: the
receiver is cloned before the index is compared, `Check` goes to the wait only with
an index that is not published yet, and each publication marks every receiver of
its node.

**OrphanSearch.** `ReachableFrom` counts as many steps as there are blobs.
`ReachableIsLeast` proves that this is the least set that holds its roots and is
closed under the full rows: the chain of its steps increases, and a step that adds
nothing is the last that matters, so that there are at most as many steps that add
something as there are blobs. The invariant
says that while no row is deleted the rows and the manifests that made something
reachable at the start are still there, or have been read (`RowsKept`,
`RootsKept`), and that what has been visited leads only to what is visited or will
be (`VisitOK`). The theorems are about `SearchSpec`, a search by itself; in
`MCQueries` every behaviour that chooses a search is one of `SearchSpec`.

**TagListing.** About `ListSpec`, a listing by itself. `ListInv` is the type and

- `CommonOK`: the common tags stay on every node, since tags are never deleted;
- `ScanOK`: each common tag has been read, or its row is still ahead of the cursor,
  and what has been read is distinct: it lies behind the cursor in an order
  without repetitions. This needs that the rows of a repository are contiguous,
  since the scan breaks at the first row of another;
- `PagesOK`: the client has every common tag up to its last, in order;
- `SteadyOK`: if nothing is tagged meanwhile it has n + i(n - 1) tags for some i.

`InOrder` and `SortedFacts` say that a sequence without repetitions can be sorted
and what `Sorted` of it is, so that the pages are an initial part of the common
tags; `Remainder` turns n + i(n - 1) into the remainder of the property.

**RegistryCluster.** For any number of workers and tasks, any contents and any
interleaving. Three lemmas carry the proof. `ClosureIsLeast` is the same fact about
`Closure` as `ReachableIsLeast`. `GrownRun` says what a transaction without
`Unstored` makes of the tables, and that it does not panic if every `Stored` comes
after the `Mounted` of its row; `ShrunkRun` says it of one of nothing but
`Unstored`. Every transaction is one or the other. The invariant is, besides the
types:

- `ShapeOK` of each task: which actions its kind puts into a transaction, and
  about which rows and nodes; hence who can panic;
- `StoreOK`: what a task is about to log is in place, or was removed under it;
  `UnloggedOK` and `CrossedOK`: of a file that is gone either a sweep that still
  runs has the entry, or it is `botched`. With these `LocationHasFile` is inductive;
- `DeleterOK`: nothing a tag leads to is in the transaction of a sweep or of fsck,
  or still to be looked at, unless `overlapped` or `botched` (for fsck: or it has its
  location still). The tables change under such a task, but what tags lead to only
  grows by what a push names (`ReachedGrows`, from `DependenciesOK`: a row has no
  dependency that is not in the bytes), and a push that runs at the same time is
  overlapped (`OverlapOK`). `ReachedIsKept` follows from this for each commit;
- `AnalysedOK`: whatever a row has among its dependencies has been analysed, or lost
  its row since; so has everything that a search comes to by them, which is
  `ClosureAnalysed`. For a commit to keep it there is `PushOK`: each dependency
  in the transaction of a push is described by the same transaction, has been
  analysed before, or is still pending; and nothing is pending when it is submitted.
  Under which content type a blob was analysed does not matter to this argument,
  and that is why it says nothing of the bytes.

`ImportsRestore` rests on what is true of the import whatever order it takes the
rows, locations and tags in (`IsImport`): every `Mounted` of a row comes before
everything else about that row, and no two actions say different things of the
same row or tag. By induction over the transaction the row made so far has exactly
what has been said of it (`Made`), so that at the end it is the row exported; of a
row without a repository nothing is made, and its first `Stored` panics. That
nothing is lost is `TablesAreTidy`: an import gives a row its dependencies only
together with its type.

The attempt to prove an earlier form of `ReachedIsKept`, a state invariant without
fsck among the deletions that overlap and without the removal under a task about
to log, failed, and TLC showed why with one task more than the run has: fsck finds
a file missing and holds an `Unstored`; the object is collected and pushed again;
then the repair of fsck deletes the row of what is tagged. A file that is removed
under a task about to log it is an exception for a like reason: the row gets a
location without a file, and fsck takes that location away.

Induction over the naturals is available to these proofs in one form only:
`SetInduction`, with a set in the place of a predicate, from the
well-foundedness of `<`.

**Only model-checked.** Liveness under fairness (`MirroredUnlessDisturbed`,
`TimerRetries`, `CallEnds`, `EndsUnlessStuck`, `ListingEnds`), which is beyond the
prover. The safety at the heart of four of them is proved: nobody sleeps on news
(`NoLostWakeup`, `NoLostMetrics`), someone can always go on (`OnlyDeadlock`), and
links go forward (`LinksForward`). Every invariant and every action property of a
passing run is a theorem.
Of the type invariants only that of `WriteForwarding`, which bounds the queue and
the retries, is in a run; all of them are proved, as a part of the inductive
invariants.

## Disagreements between the code and what is said of it

Each is a run that TLC must find violated; `PROJECT.json` quotes the lines.

- `diverge`: a member that catches up by a snapshot keeps rows deleted while it
  was away; at the same log position it differs from the others.
- `lostwake`: a blob that arrives between a GET's look at the row and its
  registration wakes nobody, and the request waits for ever.
- `deadlock`: the closure of the apply transaction asks for the write lock while
  it holds sled's lock; a reader that holds the read lock reads a tree. Each
  waits for the other.
- `unvalidated`: a write of another request of the same upload that lands between
  the hash of a PUT and its rename is stored under a digest the file no longer has.
  A client that sends one request at a time can meet this too, by the late write of
  a PATCH whose connection broke.

Other behaviour the models show, in the exceptions of the properties:

- `install_snapshot` replaces the watch senders (`store/mod.rs:1333`); the mirror
  takes this for shutdown (`mirror.rs:305`) and ends, and nothing is mirrored until
  the process restarts: hence `installs` and `closed` in the
  liveness properties of `NodeMirror`.
- A client that goes away while it waits makes `apply_to_state_machine` panic under
  the lock when the blob arrives (`store/mod.rs:1227`; `SendFails`, `~Alive`).
- A failed download is dropped (`mirror.rs:298`), and the timer that would retry it
  is only started if something was pending when the loop started.
- A PATCH that is resumed while the write of its aborted predecessor is still to
  come passes the check of its range, and its bytes land behind those of the late
  write (`touched` in `PartLandsAtItsOffset`).
- A crash after `last_applied_log` of an install, or a build that overlaps an install
  and stores the older snapshot last, leaves a log whose purged part the stored
  snapshot does not cover, until the next build (`behind` in `SnapshotCoversPurged`).
- A `BlobStored` that is committed after the row's last location was removed panics
  every member, at each restart (`NobodyPassesPoison`, proved as
  `PoisonStopsEveryone`). `PoisonIsATransfer` says who commits one: only the
  mirror, whose download outlives the row.
- An export of a row with a location and no repository, such as one between the two
  phases of garbage collection, becomes an import that panics (`ImportRestores`).
- The extractor skips a blob that already has a content type before it looks at
  the repository (`extractor.rs:269`), where its comment at line 286 says
  "Dependency not in this repository, so push not allowed". The content type is the
  one that the naming document gives (line 291): a manifest that names a blob by one
  without a schema has it recorded with no dependencies, and a later manifest that
  names it by its own type skips it. What the blob names is then never analysed, and
  a search for orphans does not follow it. So `ClosureAnalysed` is about the recorded
  dependencies and not about the bytes, of which it is false.
- A sweep that overlaps a push, or fails after it removed a file, can delete what
  the push relies on, or leave a location without a file (`ReachedIsKept`,
  `LocationHasFile`). At this commit nothing spawns the collector, although
  `garbage.rs:3` calls it automatic.
- A scan of the tags in which two of them are moved can report a manifest that was
  never without a tag (`TaggedIsNoOrphan`).
- A listing by pages panics unless its last page is full, or when the next page is
  served by a node that has not applied `last`; pages of one tag or none link to
  themselves (`LastPageIsFull`, `ListingEnds`).
- A write whose entry a deposed leader deleted is sent on (`client.rs:232`), and with
  five members the first entry may come back: it is committed twice. So may be a
  write of the command line, whose client repeats requests (`redone`).
- The webhook worker's request has no time-out, and a receiver that hangs blocks PUTs
  once the queue is full (`hung` in `CallEnds`).

## Not modelled

- Tokens (cryptography and parsing, stateless), configuration, certificates and
  start-up (read once), metrics (never read back), parsing of names and digests
  (stateless), the raft transport (glue for openraft's protocol).
- JSON: what the extractor finds in a document is the constant `Found`; the
  schemas and serde's choice between the manifest formats are left out.
- Response bodies and headers of the handlers, everywhere; among them the text of
  the `Range` header of an upload, whose `size - 1` underflows for an empty one
  (`uploads/get.rs:47`).
- The manifest loop of the mirror, which is the blob loop with another URL and
  another action; the tag a GET of a manifest resolves first.
- openraft and sled, except for what `src/` relies on, as said above.

## Plan

Done, in this order: `RegistryTables`, `RegistryStore` and its proofs,
`RaftLogStore` and its proofs, `NodeMirror`, `UploadSession`, `RegistryWrite` and
`WriteForwarding`, `StoreLocks`, `TagListing`, `OrphanSearch`, `RegistryCluster`;
then the proofs of `StoreLocks`, `NodeMirror`, `UploadSession`, the channels and
leftovers of `RegistryStore`, the refinement of `RegistryWrite`, `OrphanSearch` and
`RegistryCluster`; then imports, listings, and that the locks and the wait for
the metrics lose nobody.

An abstract specification of one replicated registry, which `RegistryStore` would
implement where nothing is stale, was considered and left out: its state would be
`hist` at `lastApplied`, and the theorems `TreesFollowLog` and `AppliedForward`
already say that every step of a node moves forward along it.
