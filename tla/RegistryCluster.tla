---------------------------- MODULE RegistryCluster ----------------------------
(***************************************************************************)
(* The tasks of a cluster that read the replicated tables and the files of *)
(* their node, and submit a transaction some time later: uploads, PUT of a *)
(* manifest with its analysis (src/extractor.rs), DELETE and mount, the    *)
(* mirror, the two phases of garbage collection (src/garbage.rs), fsck     *)
(* (src/bin/main.rs); and what POST /import makes of GET /export           *)
(* (src/network/management.rs).                                            *)
(*                                                                         *)
(* The tables are those of a node that is up to date, and a transaction is *)
(* applied at once: RegistryStore is about replicas that lag, and          *)
(* OrphanSearch about a search that entries overtake.  A write may fail,   *)
(* and may be committed any time after it was submitted.                   *)
(***************************************************************************)
EXTENDS RegistryTables, Naturals, Sequences, FiniteSets, SequencesExt

CONSTANTS
    Found,          \* per digest: what extract_one finds in its bytes
    Text,           \* digests whose bytes are a string
    Images,         \* digests of what clients push as a manifest
    Worker,         \* tasks that can be under way at the same time
    NoTask,         \* a worker that has none
    MaxTasks        \* bound on the tasks that are begun

\* What an object says of one that it names: whether the content type is one that
\* the extractor has a schema for, and the size, if any.
Extraction == [digest : Digest, schema : BOOLEAN, size : {"none", "right", "wrong"}]

ASSUME FoundAssumption ==
    Found \in [Digest -> SUBSET Extraction] /\ \A d \in Digest \ Text : Found[d] = {}
ASSUME TimestampAssumption == Timestamp \subseteq Nat /\ 0 \in Timestamp
ASSUME SubsetAssumption == Images \subseteq Text /\ Text \subseteq Digest
ASSUME FiniteAssumption == IsFiniteSet(Digest) /\ Digest # {} /\ IsFiniteSet(Repository)

VARIABLES
    tables,         \* what is replicated
    files,          \* per node: the objects in its storage directory
    clock,          \* in units of MINIMUM_GARBAGE_AGE
    task,           \* per worker: the task it runs
    begun,          \* how many tasks have been begun
    poison,         \* the kinds of tasks that have committed a panicking entry
    dropped,        \* ghost: the rows that have been deleted
    unlogged,       \* ghost: files a sweep removed, and no entry says so yet
    crossed,        \* ghost: files a sweep removed under a task about to log them
    overlapped,     \* ghost: what a push names that ran at the time of a deletion
    botched         \* ghost: what a sweep removed under such a task, or failed to log

ghosts == <<dropped, unlogged, crossed, overlapped, botched>>
removals == <<dropped, unlogged, crossed, botched>>
vars == <<tables, files, clock, task, begun, poison, ghosts>>

BlobOf(d) == <<"blob", d>>
ImageOf(d) == <<"manifest", d>>

Op == {"upload", "put", "delete", "mount", "transfer", "sweep1", "sweep2", "fsck"}

\* op and node: whose task it is.  source: the node it downloads from.  at: its
\* next step.  todo: what it still has to look at.  pending: what a push still
\* has to analyse.  actions: the transaction it has put together.
Task == [op : Op, node : Node, source : Node, key : Key,
         at : {"extract", "fetch", "clean_images", "blobs", "clean_blobs",
               "check", "submit"},
         todo : SUBSET Key, pending : SUBSET Extraction, actions : Seq(Action)]

ASSUME TaskAssumption == NoTask \notin Task /\ MaxTasks \in Nat

TypeOK ==
    /\ tables \in Tables
    /\ files \in [Node -> SUBSET Key]
    /\ clock \in Timestamp
    /\ task \in [Worker -> Task \cup {NoTask}]
    /\ begun \in 0 .. MaxTasks
    /\ poison \subseteq Op
    /\ dropped \subseteq Key
    /\ overlapped \cup botched \subseteq Key
    /\ unlogged \cup crossed \subseteq Node \X Key

-----------------------------------------------------------------------------
(***************************************************************************)
(* What a search for orphans returns.                                      *)
(***************************************************************************)
row(k) == tables.row[k]
Present(k) == row(k) # NoRow
Rows(kind) == {k \in Key : k[1] = kind /\ Present(k)}

OrphanedManifests == {k \in Rows("manifest") : \A t \in TagKey : tables.tag[t] # k[2]}

\* The blobs a set of digests leads to, each step by the function `deps`.
Closure(S, deps) ==
    LET reach[n \in 0 .. Cardinality(Digest)] ==
            IF n = 0 THEN S ELSE reach[n - 1] \cup UNION {deps[d] : d \in reach[n - 1]}
    IN  reach[Cardinality(Digest)]

DependenciesOf(k) == IF Present(k) THEN row(k).dependencies ELSE {}

\* What manifests lead to by the dependencies that are recorded.
Visited(images) ==
    Closure(UNION {DependenciesOf(k) : k \in images}, [d \in Digest |-> DependenciesOf(BlobOf(d))])

\* Mutant of OrphanedBlobs: only what a manifest names itself is visited.
OrphanedBlobsShallow ==
    {k \in Rows("blob") : \A m \in Rows("manifest") : k[2] \notin DependenciesOf(m)}

OrphanedBlobs == {k \in Rows("blob") : k[2] \notin Visited(Rows("manifest"))}

-----------------------------------------------------------------------------
(***************************************************************************)
(* Tasks begin and submit.                                                 *)
(***************************************************************************)

\* The digests in a set of extractions.
DigestsIn(extractions) == {x.digest : x \in extractions}

Content == [d \in Digest |-> DigestsIn(Found[d])]

\* Everything a manifest leads to, by its bytes and by those of what it names.
Below == [d \in Digest |-> Closure(Content[d], Content)]

\* What a push relies on.
PushedBy(t) == IF t.op = "put" THEN {t.key} \cup {BlobOf(d) : d \in Below[t.key[2]]} ELSE {}

RunningTasks == {task[w] : w \in Worker} \ {NoTask}

\* The tasks that take locations away, and rows with their last one.
Deleter == {"sweep2", "fsck"}

\* While a push and a deletion run at the same time neither knows of the other.
OverlapOf(tasks) ==
    IF \E t \in tasks : t.op \in Deleter THEN UNION {PushedBy(t) : t \in tasks} ELSE {}

\* A worker that is free begins a task.
Begin(w, t) ==
    /\ task[w] = NoTask
    /\ begun < MaxTasks
    /\ task' = [task EXCEPT ![w] = t]
    /\ begun' = begun + 1
    /\ overlapped' = overlapped \cup OverlapOf(RunningTasks \cup {t})

Go(w, t) == task' = [task EXCEPT ![w] = t] /\ UNCHANGED <<begun, overlapped>>

\* The task is over: an error, or nothing to do.
Quit(w) == Go(w, NoTask)

\* A file gets its name in the storage directory.
Place(n, k) ==
    /\ files' = [files EXCEPT ![n] = @ \cup {k}]
    /\ unlogged' = unlogged \ {<<n, k>>}
    /\ crossed' = crossed \ {<<n, k>>}
    /\ UNCHANGED <<dropped, botched>>

\* The actions of a transaction are applied in their order, to the end or until
\* one panics.
ApplyNext(run, a) ==
    IF run.panics \/ PanicsOn(run.tables, a)
    THEN [run EXCEPT !.panics = TRUE]
    ELSE [run EXCEPT !.tables = ApplyAction(@, a)]

Applying(t, actions) ==
    LET run[i \in 0 .. Len(actions)] ==
            IF i = 0 THEN [tables |-> t, panics |-> FALSE] ELSE ApplyNext(run[i - 1], actions[i])
    IN  run[Len(actions)]

\* The transaction is committed and applied.  An entry that panics stops every
\* node that applies it, and what comes after it is never applied.
Commit(w) ==
    LET t == task[w]
        run == Applying(tables, t.actions)
    IN  /\ t # NoTask
        /\ t.at = "submit"
        /\ poison = {}
        /\ IF run.panics
           THEN poison' = poison \cup {t.op} /\ UNCHANGED tables
           ELSE tables' = run.tables /\ UNCHANGED poison
        /\ dropped' = dropped \cup {k \in Key : Present(k) /\ tables'.row[k] = NoRow}
        /\ unlogged' = {f \in unlogged : ~ \E i \in DOMAIN t.actions :
              t.actions[i].type = "Unstored" /\ f = <<t.actions[i].location, t.actions[i].key>>}
        /\ Quit(w)
        /\ UNCHANGED <<files, clock, crossed, botched>>

\* No leader, a time-out: the transaction is not committed.
WriteFails(w) ==
    /\ task[w] # NoTask
    /\ task[w].at = "submit"
    /\ botched' = IF task[w].op = "sweep2"
                   THEN botched \cup {a.key : a \in Range(task[w].actions)}
                   ELSE botched
    /\ Quit(w)
    /\ UNCHANGED <<tables, files, clock, poison, dropped, unlogged, crossed>>

TimePasses ==
    /\ clock + 1 \in Timestamp
    /\ clock' = clock + 1
    /\ UNCHANGED <<tables, files, task, begun, poison, ghosts>>

-----------------------------------------------------------------------------
(***************************************************************************)
(* Blobs: the end of an upload, a mount from another repository, DELETE.   *)
(***************************************************************************)
Mounting(k, r) == [type |-> "Mounted", key |-> k, repository |-> r, timestamp |-> clock]
Storing(k, n) == [type |-> "Stored", key |-> k, location |-> n]
Unstoring(k, n) == [type |-> "Unstored", key |-> k, location |-> n]
Sizing(k) == [type |-> "Stat", key |-> k]
Describing(k, deps) == [type |-> "Info", key |-> k, dependencies |-> deps]

NewTask(op, n, k, at, todo, actions) ==
    [op |-> op, node |-> n, source |-> n, key |-> k, at |-> at, todo |-> todo, pending |-> {},
     actions |-> actions]

\* Mutant of FinishUpload: the blob is stored before there is a row.
FinishUploadStoredFirst(w, n, d, r) ==
    /\ Begin(w, NewTask("upload", n, BlobOf(d), "submit", {},
                        <<Storing(BlobOf(d), n), Mounting(BlobOf(d), r), Sizing(BlobOf(d))>>))
    /\ Place(n, BlobOf(d))
    /\ UNCHANGED <<tables, clock, poison>>

\* PUT of an upload, after its hash was found right: rename, then the write.
FinishUpload(w, n, d, r) ==
    /\ Begin(w, NewTask("upload", n, BlobOf(d), "submit", {},
                        <<Mounting(BlobOf(d), r), Sizing(BlobOf(d)), Storing(BlobOf(d), n)>>))
    /\ Place(n, BlobOf(d))
    /\ UNCHANGED <<tables, clock, poison>>

\* POST with `mount` and `from`, another repository that has the blob.
MountBlob(w, n, d, from, r) ==
    /\ from # r
    /\ Present(BlobOf(d))
    /\ from \in row(BlobOf(d)).repositories
    /\ Begin(w, NewTask("mount", n, BlobOf(d), "submit", {}, <<Mounting(BlobOf(d), r)>>))
    /\ UNCHANGED <<tables, files, clock, poison, removals>>

\* What DELETE does: only the mount goes, the tags stay.
Unmount(w, n, k, r) ==
    /\ Present(k)
    /\ r \in row(k).repositories
    /\ Begin(w, NewTask("delete", n, k, "submit", {},
                        <<[type |-> "Unmounted", key |-> k, repository |-> r]>>))
    /\ UNCHANGED <<tables, files, clock, poison, removals>>

DeleteBlob(w, n, d, r) == Unmount(w, n, BlobOf(d), r)

\* By its digest, or by a tag that names it.
DeleteManifest(w, n, d, r) == Unmount(w, n, ImageOf(d), r)

-----------------------------------------------------------------------------
(***************************************************************************)
(* PUT of a manifest under a tag.                                          *)
(***************************************************************************)

\* The manifest has been received and is valid; what it names is pending.
PutManifest(w, n, d, r) ==
    /\ d \in Images
    /\ Begin(w, [NewTask("put", n, ImageOf(d), "extract", {},
                         <<Mounting(ImageOf(d), r), Storing(ImageOf(d), n), Sizing(ImageOf(d)),
                           Describing(ImageOf(d), Content[d])>>)
                   EXCEPT !.pending = Found[d]])
    /\ UNCHANGED <<tables, files, clock, poison, removals>>

RepositoryOf(t) == t.actions[1].repository

\* The keys that have been analysed: `seen`.
Seen(t) == {t.actions[i].key : i \in {j \in DOMAIN t.actions : t.actions[j].type = "Info"}}

\* What is found in an object that is named so: nothing under a content type that
\* has no schema, whatever the bytes are.
Extracted(x) == IF x.schema THEN Found[x.digest] ELSE {}

\* Mutant of Analysed: what is below the blob is not pending.
AnalysedShallow(t, x) ==
    [t EXCEPT !.actions = Append(@, Describing(BlobOf(x.digest), DigestsIn(Extracted(x)))),
              !.pending = @ \ {x}]

\* A blob gets its dependencies, which are pending now.
Analysed(t, x) ==
    [t EXCEPT !.actions = Append(@, Describing(BlobOf(x.digest), DigestsIn(Extracted(x)))),
              !.pending = (@ \ {x}) \cup Extracted(x)]

\* Already seen in this push, or given a content type by an earlier one.
Skipped(t, k) == k \in Seen(t) \/ (Present(k) /\ row(k).typed)

\* In the repository, and of the size that is named, if one is.
Allowed(t, x) ==
    LET k == BlobOf(x.digest)
    IN  /\ Present(k)
        /\ RepositoryOf(t) \in row(k).repositories
        /\ x.size = "none" \/ (x.size = "right" /\ row(k).sized)

\* The file, which is read only under a content type that has a schema, is on this
\* node and a string.
Readable(t, x) == x.schema => x.digest \in Text /\ BlobOf(x.digest) \in files[t.node]

\* One turn of the loop, in any order.  A blob that has a content type is skipped
\* before its repository is looked at.
ExtractOne(w, x) ==
    LET t == task[w]
    IN  /\ t # NoTask
        /\ t.at = "extract"
        /\ x \in t.pending
        /\ IF Skipped(t, BlobOf(x.digest)) THEN Go(w, [t EXCEPT !.pending = @ \ {x}])
           ELSE IF Allowed(t, x) /\ Readable(t, x) THEN Go(w, Analysed(t, x))
           ELSE Quit(w)
        /\ UNCHANGED <<tables, files, clock, poison, removals>>

\* Nothing is pending: the manifest gets its name, then the write.
FinishPut(w, tag) ==
    LET t == task[w]
        hashTagged == [type |-> "HashTagged", repository |-> RepositoryOf(t), tag |-> tag,
                       digest |-> t.key[2]]
    IN  /\ t # NoTask
        /\ t.at = "extract"
        /\ t.pending = {}
        /\ Go(w, [t EXCEPT !.at = "submit", !.actions = Append(@, hashTagged)])
        /\ Place(t.node, t.key)
        /\ UNCHANGED <<tables, clock, poison>>

-----------------------------------------------------------------------------
(***************************************************************************)
(* The mirror: do_transfer and the write that follows it.                  *)
(***************************************************************************)
StartTransfer(w, n, k, source) ==
    /\ Wanted(n, row(k))
    /\ source \in row(k).locations \cap tables.membership
    /\ Begin(w, [NewTask("transfer", n, k, "fetch", {}, <<Storing(k, n)>>)
                   EXCEPT !.source = source])
    /\ UNCHANGED <<tables, files, clock, poison, removals>>

\* Mutant of Fetch: the rename is missing.
FetchUnnamed(w) ==
    LET t == task[w]
    IN  /\ t # NoTask
        /\ t.at = "fetch"
        /\ t.key \in files[t.source]
        /\ Go(w, [t EXCEPT !.at = "submit"])
        /\ UNCHANGED <<tables, files, clock, poison, removals>>

\* The download, which the source may no longer have.
Fetch(w) ==
    LET t == task[w]
    IN  /\ t # NoTask
        /\ t.at = "fetch"
        /\ t.key \in files[t.source]
        /\ Go(w, [t EXCEPT !.at = "submit"])
        /\ Place(t.node, t.key)
        /\ UNCHANGED <<tables, clock, poison>>

FetchFails(w) ==
    /\ task[w] # NoTask
    /\ task[w].at = "fetch"
    /\ Quit(w)
    /\ UNCHANGED <<tables, files, clock, poison, removals>>

-----------------------------------------------------------------------------
(***************************************************************************)
(* Garbage collection.                                                     *)
(***************************************************************************)
Old(k) == row(k).created < clock

Unmounts(keys) ==
    SetToSeq(UNION {{[type |-> "Unmounted", key |-> k, repository |-> r] :
                        r \in row(k).repositories} : k \in keys})

\* A task submits what it has put together, if anything.
SubmitOrQuit(w, t) == IF t.actions = <<>> THEN Quit(w) ELSE Go(w, [t EXCEPT !.at = "submit"])

StartSweep1(w, n) ==
    /\ Begin(w, NewTask("sweep1", n, CHOOSE k \in Key : TRUE, "blobs", {},
                        Unmounts({k \in OrphanedManifests : Old(k)})))
    /\ UNCHANGED <<tables, files, clock, poison, removals>>

SweepBlobs1(w) ==
    LET t == task[w]
    IN  /\ t # NoTask
        /\ t.op = "sweep1"
        /\ t.at = "blobs"
        /\ SubmitOrQuit(w, [t EXCEPT !.actions = @ \o Unmounts({k \in OrphanedBlobs : Old(k)})])
        /\ UNCHANGED <<tables, files, clock, poison, removals>>

Collectable(n, keys) == {k \in keys : n \in row(k).locations /\ row(k).repositories = {}}

StartSweep2(w, n) ==
    /\ Begin(w, NewTask("sweep2", n, CHOOSE k \in Key : TRUE, "clean_images",
                        Collectable(n, OrphanedManifests), <<>>))
    /\ UNCHANGED <<tables, files, clock, poison, removals>>

SweepBlobs2(w) ==
    LET t == task[w]
    IN  /\ t # NoTask
        /\ t.at = "clean_images"
        /\ t.todo = {}
        /\ Go(w, [t EXCEPT !.at = "clean_blobs", !.todo = Collectable(t.node, OrphanedBlobs)])
        /\ UNCHANGED <<tables, files, clock, poison, removals>>

\* A task of node n that is about to log that n has k.
AboutToStore(n, k) ==
    \E t \in RunningTasks : t.at = "submit" /\ Storing(k, n) \in Range(t.actions)

\* cleanup_object, which may fail before or after the file has been removed.
CleanUp(w, k, removed, logged) ==
    LET t == task[w]
        f == <<t.node, k>>
    IN  /\ t # NoTask
        /\ t.at \in {"clean_images", "clean_blobs"}
        /\ k \in t.todo
        /\ logged => removed
        /\ files' = IF removed THEN [files EXCEPT ![t.node] = @ \ {k}] ELSE files
        /\ Go(w, [t EXCEPT !.todo = @ \ {k},
                           !.actions = IF logged THEN Append(@, Unstoring(k, t.node)) ELSE @])
        /\ unlogged' = IF removed THEN unlogged \cup {f} ELSE unlogged
        /\ crossed' = IF removed /\ AboutToStore(t.node, k) THEN crossed \cup {f} ELSE crossed
        /\ botched' = IF removed /\ (~logged \/ AboutToStore(t.node, k))
                      THEN botched \cup {k} ELSE botched
        /\ UNCHANGED <<tables, clock, poison, dropped>>

FinishSweep2(w) ==
    /\ task[w] # NoTask
    /\ task[w].at = "clean_blobs"
    /\ task[w].todo = {}
    /\ SubmitOrQuit(w, task[w])
    /\ UNCHANGED <<tables, files, clock, poison, removals>>

-----------------------------------------------------------------------------
(***************************************************************************)
(* fsck: the rows are those of an export, the files are looked at later.   *)
(***************************************************************************)
StartFsck(w, n) ==
    /\ Begin(w, NewTask("fsck", n, CHOOSE k \in Key : TRUE, "check",
                        {k \in Key : Present(k) /\ n \in row(k).locations}, <<>>))
    /\ UNCHANGED <<tables, files, clock, poison, removals>>

CheckFile(w, k) ==
    LET t == task[w]
        fixes == IF k \in files[t.node] THEN t.actions ELSE Append(t.actions, Unstoring(k, t.node))
    IN  /\ t # NoTask
        /\ t.at = "check"
        /\ k \in t.todo
        /\ Go(w, [t EXCEPT !.todo = @ \ {k}, !.actions = fixes])
        /\ UNCHANGED <<tables, files, clock, poison, removals>>

\* With --repair the fixes are written, even when there are none.
FinishFsck(w, repair) ==
    /\ task[w] # NoTask
    /\ task[w].at = "check"
    /\ task[w].todo = {}
    /\ IF repair THEN Go(w, [task[w] EXCEPT !.at = "submit"]) ELSE Quit(w)
    /\ UNCHANGED <<tables, files, clock, poison, removals>>

-----------------------------------------------------------------------------
(***************************************************************************)
(* Import: the transaction POST /import makes of a dump.                   *)
(***************************************************************************)
ImportRow(k, r, now) ==
       SetToSeq({[type |-> "Mounted", key |-> k, repository |-> p, timestamp |-> now] :
                    p \in r.repositories})
    \o SetToSeq({Storing(k, n) : n \in r.locations})
    \o (IF r.typed THEN <<Describing(k, r.dependencies)>> ELSE <<>>)
    \o (IF r.sized THEN <<Sizing(k)>> ELSE <<>>)

\* Mutant of ImportActions: the manifests are left out.
ImportActionsOfBlobs(dump, now) ==
    FlattenSeq(SetToSeq({ImportRow(k, dump.row[k], now) :
                            k \in {j \in Key : j[1] = "blob" /\ dump.row[j] # NoRow}}))

ImportActions(dump, now) ==
       FlattenSeq(SetToSeq({ImportRow(k, dump.row[k], now) :
                               k \in {j \in Key : dump.row[j] # NoRow}}))
    \o SetToSeq({[type |-> "HashTagged", repository |-> t[1], tag |-> t[2],
                  digest |-> dump.tag[t]] : t \in {u \in TagKey : dump.tag[u] # NoDigest}})

-----------------------------------------------------------------------------
WorkerNext(w) ==
    \/ Commit(w)
    \/ WriteFails(w)
    \/ \E n \in Node, d \in Digest, r \in Repository :
          FinishUpload(w, n, d, r) \/ PutManifest(w, n, d, r)
    \/ \E n \in Node, d \in Digest, from, r \in Repository : MountBlob(w, n, d, from, r)
    \/ \E n \in Node, d \in Digest, r \in Repository :
          DeleteBlob(w, n, d, r) \/ DeleteManifest(w, n, d, r)
    \/ \E n, source \in Node, k \in Key : StartTransfer(w, n, k, source)
    \/ \E n \in Node : StartSweep1(w, n) \/ StartSweep2(w, n) \/ StartFsck(w, n)
    \/ \E x \in Extraction : ExtractOne(w, x)
    \/ \E k \in Key : CheckFile(w, k)
    \/ \E k \in Key, removed, logged \in BOOLEAN : CleanUp(w, k, removed, logged)
    \/ \E tag \in Tag : FinishPut(w, tag)
    \/ \E repair \in BOOLEAN : FinishFsck(w, repair)
    \/ Fetch(w)
    \/ FetchFails(w)
    \/ SweepBlobs1(w)
    \/ SweepBlobs2(w)
    \/ FinishSweep2(w)

Next == TimePasses \/ \E w \in Worker : WorkerNext(w)

\* A registry without any objects.
Init ==
    /\ \E members \in SUBSET Node : tables = [EmptyTables EXCEPT !.membership = members]
    /\ files = [n \in Node |-> {}]
    /\ clock = 0
    /\ task = [w \in Worker |-> NoTask]
    /\ begun = 0
    /\ poison = {}
    /\ dropped = {} /\ unlogged = {} /\ crossed = {} /\ overlapped = {} /\ botched = {}

Spec == Init /\ [][Next]_vars

-----------------------------------------------------------------------------
(***************************************************************************)
(* Properties.                                                             *)
(***************************************************************************)

\* A row says that a node has an object and the node has no such file: then a
\* sweep of phase 2 has removed it and the entry that says so is still to come
\* or has failed, or it removed the file under a task that was about to log it.
\* None of the tasks makes a location without a file otherwise; POST /import, which
\* logs the locations of a dump, is no task here.
LocationHasFile ==
    \A n \in Node, k \in Key :
        Present(k) /\ n \in row(k).locations /\ k \notin files[n]
            => <<n, k>> \in unlogged \cup crossed

Tagged == {ImageOf(tables.tag[t]) : t \in {u \in TagKey : tables.tag[u] # NoDigest}}

\* What a tag leads to.
Reached == Tagged \cup {BlobOf(d) : d \in Visited(Tagged)}

\* Garbage collection and fsck never delete the row of something a tag leads to,
\* however old the search or the export is that they work from, unless a push of
\* it ran at the same time, or a sweep removed its file and failed to log it or
\* removed it under a task about to log it.
ReachedIsKept ==
    [][\A k \in Reached : Present(k) => Present(k)' \/ k \in overlapped \cup botched]_vars

\* A blob that has been analysed, or lost its row since.
Done(d) == (Present(BlobOf(d)) /\ row(BlobOf(d)).typed) \/ BlobOf(d) \in dropped

\* A search for orphans, which follows the recorded dependencies, never comes to a
\* blob that no push has analysed, however pushes that share blobs overlap and
\* under whatever content types they name them, unless its row was deleted since.
\* By the bytes it may be otherwise: a blob that was first named under a type that
\* has no schema is recorded without dependencies, and skipped from then on.
ClosureAnalysed == \A d \in Visited(Rows("manifest")) : Done(d)

\* Of all tasks only the mirror ever logs an entry that panics: it downloads
\* while the last location of the object is unstored.  POST /import, which can log
\* such an entry too (ImportRestores), is no task here.
PoisonIsATransfer == poison \subseteq {"transfer"}

\* A dump that is imported into an empty registry gives the same rows and tags,
\* but for the age of the rows and for rows with neither a repository nor a
\* location, which are lost, if every row that has a location is in a repository;
\* otherwise the import panics.
ImportRestores ==
    LET empty == [EmptyTables EXCEPT !.membership = tables.membership]
        import == Applying(empty, ImportActions(tables, 0))
        bare == \E k \in Key : Present(k) /\ row(k).repositories = {} /\ row(k).locations # {}
        aged == [tables EXCEPT !.row = [k \in Key |->
                    IF Present(k) /\ row(k).repositories # {}
                    THEN [row(k) EXCEPT !.created = 0]
                    ELSE NoRow]]
    IN  /\ import.panics <=> bare
        /\ ~import.panics => import.tables = aged

=============================================================================
