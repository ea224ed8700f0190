---------------------------- MODULE RegistryStore ----------------------------
(***************************************************************************)
(* The state machine half of RegistryStore (src/store/mod.rs) on every     *)
(* member of the cluster: apply_to_state_machine, build_snapshot,          *)
(* install_snapshot and RegistryStore::new after a crash, over the log     *)
(* that openraft has committed.                                            *)
(*                                                                         *)
(* openraft (external) calls apply_to_state_machine with consecutive       *)
(* committed entries, one call at a time per node and never at the same    *)
(* time as install_snapshot; it installs a snapshot only if that is ahead  *)
(* of what the node has applied.                                           *)
(*                                                                         *)
(* The log is kept flat: one item per action, `last` marks the end of an   *)
(* entry.  lastApplied therefore counts items and always rests at the end  *)
(* of an entry.                                                            *)
(*                                                                         *)
(* sled (external): a batch, a transaction and an insert are atomic, flush *)
(* makes everything written so far durable, and a crash loses a suffix of  *)
(* what was not flushed.  Each of the writes below is flushed before its   *)
(* task goes on, so write-and-flush is one step: a crash before the flush  *)
(* is a crash before the step, or after it.                                *)
(***************************************************************************)
EXTENDS RegistryTables, Naturals, Sequences

CONSTANTS
    Transaction,    \* the action sequences the handlers submit
    MaxLog,         \* bound on the length of the flat log
    MaxCrash,       \* bound on the number of crashes
    SnapshotGap,    \* items applied between two snapshots of a node (SnapshotPolicy)
    NoSnapshot

Item == [act : Action, last : BOOLEAN]

\* Ghost: the parts of a node's trees that came from an install_snapshot and
\* are not what the log says.  See SetLastApplied below.  They are torn if they
\* go back to an install that a crash cut short, or to a snapshot that
\* build_snapshot read in the middle of one.
Stale == [row : SUBSET Key, tag : SUBSET TagKey, membership : BOOLEAN, torn : BOOLEAN]

\* Items from + 1 .. upto of the log.
Batch == [from : Nat, upto : Nat]

NoBatch == [from |-> 0, upto |-> 0]

Snapshot == [index : Nat, tables : Tables, stale : Stale]

ASSUME TransactionAssumption == Transaction \subseteq Seq(Action) \ {<<>>}
ASSUME BoundsAssumption == MaxLog \in Nat /\ MaxCrash \in Nat /\ SnapshotGap \in Nat \ {0}
ASSUME NoSnapshotAssumption == NoSnapshot \notin Snapshot

VARIABLES
    log,            \* the committed log, flat
    entry,          \* the actions so far of the entry being committed
    hist,           \* ghost: hist[i + 1] is what i items make of empty tables
    pc,             \* per node: what its state machine worker is doing
    tables,         \* per node: the trees blobs, manifests, tags, last_membership
    lastApplied,    \* per node: last_applied_log, in the tree state_machine
    snapshot,       \* per node: `snapshot` in the tree store
    batch,          \* per node: the entries given to apply_to_state_machine
    pos,            \* per node: how far the transaction has got
    work,           \* per node: the uncommitted trees of the transaction
    incoming,       \* per node: the snapshot being installed
    pending,        \* per node: value of the watch channels pending_blobs/_manifests
    stale,          \* per node: ghost, see Stale
    crashes         \* how many there have been

vars == <<log, entry, hist, pc, tables, lastApplied, snapshot, batch, pos, work,
          incoming, pending, stale, crashes>>

\* "down" and "panicked" do nothing; "idle" waits for openraft; "apply" and
\* "notify" are the two phases of apply_to_state_machine; the rest are the
\* writes of install_snapshot in their order.
Phase == {"down", "panicked", "idle", "apply", "notify", "manifests", "tags",
          "last_applied", "membership", "swap", "save"}

NothingStale == [row |-> {}, tag |-> {}, membership |-> FALSE, torn |-> FALSE]

\* What a crash or a reader of the trees finds: some trees of the snapshot and
\* some of the node.
Cut(n) == [stale[n] EXCEPT !.torn =
              @ \/ pc[n] \in {"manifests", "tags", "last_applied", "membership"}]

TypeOK ==
    /\ log \in Seq(Item)
    /\ entry \in Seq(Action)
    /\ hist \in Seq(Tables)
    /\ pc \in [Node -> Phase]
    /\ tables \in [Node -> Tables]
    /\ lastApplied \in [Node -> Nat]
    /\ snapshot \in [Node -> Snapshot \cup {NoSnapshot}]
    /\ batch \in [Node -> Batch]
    /\ pos \in [Node -> Nat]
    /\ work \in [Node -> Tables]
    /\ incoming \in [Node -> Snapshot \cup {NoSnapshot}]
    /\ pending \in [Node -> SUBSET Key]
    /\ stale \in [Node -> Stale]
    /\ crashes \in 0 .. MaxCrash

Init ==
    /\ log = <<>>
    /\ entry = <<>>
    /\ hist = <<EmptyTables>>
    /\ pc = [n \in Node |-> "idle"]
    /\ tables = [n \in Node |-> EmptyTables]
    /\ lastApplied = [n \in Node |-> 0]
    /\ snapshot = [n \in Node |-> NoSnapshot]
    /\ batch = [n \in Node |-> NoBatch]
    /\ pos = [n \in Node |-> 0]
    /\ work = [n \in Node |-> EmptyTables]
    /\ incoming = [n \in Node |-> NoSnapshot]
    /\ pending = [n \in Node |-> {}]
    /\ stale = [n \in Node |-> NothingStale]
    /\ crashes = 0

-----------------------------------------------------------------------------
(***************************************************************************)
(* openraft commits the next action of an entry.  The entry is one of the  *)
(* transactions of the handlers, or a blank or a membership change.        *)
(***************************************************************************)
Commit(a, last) ==
    /\ Len(log) < MaxLog
    /\ \E tr \in Transaction :
          LET m == Len(entry) + 1 IN
          /\ m <= Len(tr)
          /\ SubSeq(tr, 1, m) = Append(entry, a)
          /\ last = (m = Len(tr))
    /\ log' = Append(log, [act |-> a, last |-> last])
    /\ entry' = IF last THEN <<>> ELSE Append(entry, a)
    /\ hist' = Append(hist, ApplyAction(hist[Len(hist)], a))
    /\ UNCHANGED <<pc, tables, lastApplied, snapshot, batch, pos, work, incoming,
                   pending, stale, crashes>>

-----------------------------------------------------------------------------
(***************************************************************************)
(* apply_to_state_machine.                                                 *)
(***************************************************************************)

\* The call, with the entries that end at item `upto`.
BeginApply(n, upto) ==
    /\ pc[n] = "idle"
    /\ lastApplied[n] < upto
    /\ upto <= Len(log)
    /\ log[upto].last
    /\ pc' = [pc EXCEPT ![n] = "apply"]
    /\ batch' = [batch EXCEPT ![n] = [from |-> lastApplied[n], upto |-> upto]]
    /\ pos' = [pos EXCEPT ![n] = lastApplied[n]]
    /\ work' = [work EXCEPT ![n] = tables[n]]
    /\ UNCHANGED <<log, entry, hist, tables, lastApplied, snapshot, incoming,
                   pending, stale, crashes>>

\* Mutants of ApplyOne: the row is looked up with `if let`, and
\* set_last_applied_log is called for each action, outside of the transaction.
ApplyOneSkipping(n) ==
    /\ pc[n] = "apply"
    /\ pos[n] < batch[n].upto
    /\ work' = [work EXCEPT ![n] = ApplyAction(@, log[pos[n] + 1].act)]
    /\ pos' = [pos EXCEPT ![n] = @ + 1]
    /\ UNCHANGED <<log, entry, hist, pc, tables, lastApplied, snapshot, batch,
                   incoming, pending, stale, crashes>>

ApplyOneOutside(n) ==
    /\ pc[n] = "apply"
    /\ pos[n] < batch[n].upto
    /\ ~PanicsOn(work[n], log[pos[n] + 1].act)
    /\ work' = [work EXCEPT ![n] = ApplyAction(@, log[pos[n] + 1].act)]
    /\ pos' = [pos EXCEPT ![n] = @ + 1]
    /\ lastApplied' = [lastApplied EXCEPT ![n] = pos[n] + 1]
    /\ UNCHANGED <<log, entry, hist, pc, tables, snapshot, batch, incoming, pending, stale,
                   crashes>>

\* One turn of the loop over the actions, inside the sled transaction.
ApplyOne(n) ==
    /\ pc[n] = "apply"
    /\ pos[n] < batch[n].upto
    /\ LET a == log[pos[n] + 1].act IN
       /\ ~PanicsOn(work[n], a)
       /\ work' = [work EXCEPT ![n] = ApplyAction(@, a)]
    /\ pos' = [pos EXCEPT ![n] = @ + 1]
    /\ UNCHANGED <<log, entry, hist, pc, tables, lastApplied, snapshot, batch,
                   incoming, pending, stale, crashes>>

\* The unwrap of a missing row unwinds out of the transaction with the write
\* lock held: nothing is committed, the lock is poisoned and the node applies
\* nothing more until it is restarted.
ApplyPanics(n) ==
    /\ pc[n] = "apply"
    /\ pos[n] < batch[n].upto
    /\ PanicsOn(work[n], log[pos[n] + 1].act)
    /\ pc' = [pc EXCEPT ![n] = "panicked"]
    /\ UNCHANGED <<log, entry, hist, tables, lastApplied, snapshot, batch, pos,
                   work, incoming, pending, stale, crashes>>

\* The transaction commits, with last_applied_log in it, and is flushed.
CommitApply(n) ==
    /\ pc[n] = "apply"
    /\ pos[n] = batch[n].upto
    /\ pc' = [pc EXCEPT ![n] = "notify"]
    /\ tables' = [tables EXCEPT ![n] = work[n]]
    /\ lastApplied' = [lastApplied EXCEPT ![n] = batch[n].upto]
    /\ pos' = [pos EXCEPT ![n] = 0]
    /\ work' = [work EXCEPT ![n] = EmptyTables]
    /\ UNCHANGED <<log, entry, hist, snapshot, batch, incoming, pending, stale, crashes>>

MovedBy(types, from, upto) ==
    {log[i].act.key : i \in {j \in from + 1 .. upto : log[j].act.type \in types}}

\* Mutants of Moved: the match of the second phase without one of its arms.
MovedWithoutUnstored(from, upto) == MovedBy({"Stored"}, from, upto)
MovedWithoutStored(from, upto) == MovedBy({"Unstored"}, from, upto)

\* The keys of the Stored and Unstored actions among items from + 1 .. upto.
Moved(from, upto) == MovedBy({"Stored", "Unstored"}, from, upto)

\* The second phase: the row as it is now decides; a key whose row is gone
\* keeps its place in the channel.
Notify(n) ==
    /\ pc[n] = "notify"
    /\ LET now == {k \in Moved(batch[n].from, batch[n].upto) : tables[n].row[k] # NoRow} IN
       pending' = [pending EXCEPT ![n] =
                      (@ \ now) \cup {k \in now : Wanted(n, tables[n].row[k])}]
    /\ pc' = [pc EXCEPT ![n] = "idle"]
    /\ batch' = [batch EXCEPT ![n] = NoBatch]
    /\ UNCHANGED <<log, entry, hist, tables, lastApplied, snapshot, pos, work,
                   incoming, stale, crashes>>

\* `sender.send(()).unwrap()`: a request that waited for the key of a Stored
\* and has gone away in the meantime.  Who waits is not state of this module.
NotifyPanics(n) ==
    /\ pc[n] = "notify"
    /\ \E i \in batch[n].from + 1 .. batch[n].upto :
          log[i].act.type = "Stored" /\ log[i].act.location = n
    /\ pc' = [pc EXCEPT ![n] = "panicked"]
    /\ UNCHANGED <<log, entry, hist, tables, lastApplied, snapshot, batch, pos, work,
                   incoming, pending, stale, crashes>>

-----------------------------------------------------------------------------
(***************************************************************************)
(* Snapshots.                                                              *)
(***************************************************************************)

\* Mutants of SnapshotOf: last_applied_log is the one of the entries being
\* applied, and the blobs are left out.
SnapshotOfBatch(n) ==
    [index |-> IF pc[n] = "apply" THEN batch[n].upto ELSE lastApplied[n],
     tables |-> tables[n], stale |-> Cut(n)]

SnapshotOfNoBlobs(n) ==
    [index |-> lastApplied[n], stale |-> Cut(n),
     tables |-> [tables[n] EXCEPT !.row =
                    [k \in Key |-> IF k[1] = "blob" THEN NoRow ELSE @[k]]]]

\* SerializableRegistryStateMachine::from.
SnapshotOf(n) == [index |-> lastApplied[n], tables |-> tables[n], stale |-> Cut(n)]

\* build_snapshot runs in a task of its own: it reads the committed trees
\* under the read lock, whatever the worker is doing.  openraft asks for one when
\* enough entries were applied since the last.
BuildSnapshot(n) ==
    /\ pc[n] \notin {"down", "panicked"}
    /\ lastApplied[n] >= SnapshotGap + (IF snapshot[n] = NoSnapshot THEN 0 ELSE snapshot[n].index)
    /\ snapshot' = [snapshot EXCEPT ![n] = SnapshotOf(n)]
    /\ UNCHANGED <<log, entry, hist, pc, tables, lastApplied, batch, pos, work,
                   incoming, pending, stale, crashes>>

\* Mutant of Overlay: insert only what is not there.
OverlayAbsent(tree, snap, keys, none) ==
    [k \in DOMAIN tree |-> IF k \in keys /\ tree[k] = none THEN snap[k] ELSE tree[k]]

\* A tree after the batch of inserts of a snapshot: nothing is ever removed.
Overlay(tree, snap, keys, none) ==
    [k \in DOMAIN tree |-> IF k \in keys /\ snap[k] # none THEN snap[k] ELSE tree[k]]

KindKeys(kind) == {k \in Key : k[1] = kind}

\* The keys of a tree that a snapshot has a value for.
Present(snap, keys, none) == {k \in keys : snap[k] # none}

\* One of the first three writes of from_serializable.  The rows it writes are
\* ahead of last_applied_log, so they count as stale.
WriteRows(n, s, kind) ==
    /\ tables' = [tables EXCEPT ![n].row = Overlay(@, s.tables.row, KindKeys(kind), NoRow)]
    /\ stale' = [stale EXCEPT ![n].row = @ \cup Present(s.tables.row, KindKeys(kind), NoRow)]

\* install_snapshot, with the snapshot some other member has at the moment.
InstallBlobs(n, m) ==
    /\ pc[n] = "idle"
    /\ snapshot[m] # NoSnapshot
    /\ snapshot[m].index > lastApplied[n]
    /\ incoming' = [incoming EXCEPT ![n] = snapshot[m]]
    /\ WriteRows(n, snapshot[m], "blob")
    /\ pc' = [pc EXCEPT ![n] = "manifests"]
    /\ UNCHANGED <<log, entry, hist, lastApplied, snapshot, batch, pos, work, pending,
                   crashes>>

InstallManifests(n) ==
    /\ pc[n] = "manifests"
    /\ WriteRows(n, incoming[n], "manifest")
    /\ pc' = [pc EXCEPT ![n] = "tags"]
    /\ UNCHANGED <<log, entry, hist, lastApplied, snapshot, batch, pos, work, incoming,
                   pending, crashes>>

InstallTags(n) ==
    /\ pc[n] = "tags"
    /\ LET tag == incoming[n].tables.tag IN
       /\ tables' = [tables EXCEPT ![n].tag = Overlay(@, tag, TagKey, NoDigest)]
       /\ stale' = [stale EXCEPT ![n].tag = @ \cup Present(tag, TagKey, NoDigest)]
    /\ pc' = [pc EXCEPT ![n] = "last_applied"]
    /\ UNCHANGED <<log, entry, hist, lastApplied, snapshot, batch, pos, work, incoming,
                   pending, crashes>>

\* From here on the node answers for the index of the snapshot.  Stale is what
\* was stale in the snapshot, and what the node had and the snapshot has not.
SetLastApplied(n) ==
    /\ pc[n] = "last_applied"
    /\ LET s == incoming[n] IN
       /\ lastApplied' = [lastApplied EXCEPT ![n] = s.index]
       /\ stale' = [stale EXCEPT ![n] =
            [row |-> s.stale.row \cup
                     (Present(tables[n].row, Key, NoRow) \ Present(s.tables.row, Key, NoRow)),
             tag |-> s.stale.tag \cup
                     (Present(tables[n].tag, TagKey, NoDigest)
                         \ Present(s.tables.tag, TagKey, NoDigest)),
             membership |-> TRUE,
             torn |-> s.stale.torn \/ stale[n].torn]]
    /\ pc' = [pc EXCEPT ![n] = "membership"]
    /\ UNCHANGED <<log, entry, hist, tables, snapshot, batch, pos, work, incoming, pending,
                   crashes>>

SetLastMembership(n) ==
    /\ pc[n] = "membership"
    /\ tables' = [tables EXCEPT ![n].membership = incoming[n].tables.membership]
    /\ stale' = [stale EXCEPT ![n].membership = incoming[n].stale.membership]
    /\ pc' = [pc EXCEPT ![n] = "swap"]
    /\ UNCHANGED <<log, entry, hist, lastApplied, snapshot, batch, pos, work, incoming,
                   pending, crashes>>

\* `*state_machine = new_sm`: new channels, filled from the snapshot's rows.
SwapStateMachine(n) ==
    /\ pc[n] = "swap"
    /\ pending' = [pending EXCEPT ![n] = WantedKeys(n, incoming[n].tables.row)]
    /\ pc' = [pc EXCEPT ![n] = "save"]
    /\ UNCHANGED <<log, entry, hist, tables, lastApplied, snapshot, batch, pos, work,
                   incoming, stale, crashes>>

SaveSnapshot(n) ==
    /\ pc[n] = "save"
    /\ snapshot' = [snapshot EXCEPT ![n] = incoming[n]]
    /\ incoming' = [incoming EXCEPT ![n] = NoSnapshot]
    /\ pc' = [pc EXCEPT ![n] = "idle"]
    /\ UNCHANGED <<log, entry, hist, tables, lastApplied, batch, pos, work, pending, stale,
                   crashes>>

-----------------------------------------------------------------------------
(***************************************************************************)
(* The process stops anywhere, a panicked one too, and comes back with     *)
(* what sled holds.                                                        *)
(***************************************************************************)
Crash(n) ==
    /\ pc[n] # "down"
    /\ crashes < MaxCrash
    /\ crashes' = crashes + 1
    /\ pc' = [pc EXCEPT ![n] = "down"]
    /\ batch' = [batch EXCEPT ![n] = NoBatch]
    /\ pos' = [pos EXCEPT ![n] = 0]
    /\ work' = [work EXCEPT ![n] = EmptyTables]
    /\ incoming' = [incoming EXCEPT ![n] = NoSnapshot]
    /\ pending' = [pending EXCEPT ![n] = {}]
    /\ stale' = [stale EXCEPT ![n] = Cut(n)]
    /\ UNCHANGED <<log, entry, hist, tables, lastApplied, snapshot>>

\* RegistryStore::new.
Start(n) ==
    /\ pc[n] = "down"
    /\ pending' = [pending EXCEPT ![n] = WantedKeys(n, tables[n].row)]
    /\ pc' = [pc EXCEPT ![n] = "idle"]
    /\ UNCHANGED <<log, entry, hist, tables, lastApplied, snapshot, batch, pos, work,
                   incoming, stale, crashes>>

-----------------------------------------------------------------------------
NodeStep(n) ==
    \/ \E upto \in 1 .. MaxLog : BeginApply(n, upto)
    \/ ApplyOne(n)
    \/ ApplyPanics(n)
    \/ CommitApply(n)
    \/ Notify(n)
    \/ NotifyPanics(n)
    \/ BuildSnapshot(n)
    \/ \E m \in Node : InstallBlobs(n, m)
    \/ InstallManifests(n)
    \/ InstallTags(n)
    \/ SetLastApplied(n)
    \/ SetLastMembership(n)
    \/ SwapStateMachine(n)
    \/ SaveSnapshot(n)
    \/ Crash(n)
    \/ Start(n)

CommittedAction == UNION {{tr[i] : i \in DOMAIN tr} : tr \in Transaction}

Next ==
    \/ \E a \in CommittedAction, last \in BOOLEAN : Commit(a, last)
    \/ \E n \in Node : NodeStep(n)

Spec == Init /\ [][Next]_vars

-----------------------------------------------------------------------------
(***************************************************************************)
(* Properties.                                                             *)
(***************************************************************************)

\* Tables t are what the log makes of it, h, outside of the parts in s.
AgreesOutside(t, h, s) ==
    /\ \A k \in Key \ s.row : t.row[k] = h.row[k]
    /\ \A k \in TagKey \ s.tag : t.tag[k] = h.tag[k]
    /\ s.membership \/ t.membership = h.membership

\* At every moment, in the middle of an install and after a crash in one too,
\* the trees of a node are what the log up to its last_applied_log makes of
\* empty trees, except for what install_snapshot wrote early or left behind.
TablesFollowLog ==
    \A n \in Node :
        /\ lastApplied[n] <= Len(log)
        /\ AgreesOutside(tables[n], hist[lastApplied[n] + 1], stale[n])

\* A snapshot that get_current_snapshot may hand out is what the log up to its
\* last_log_id makes, except for what was stale in the node that built it.
SnapshotsFollowLog ==
    \A n \in Node : snapshot[n] # NoSnapshot =>
        /\ snapshot[n].index <= Len(log)
        /\ AgreesOutside(snapshot[n].tables, hist[snapshot[n].index + 1], snapshot[n].stale)

\* An install_snapshot that ran to its end, with a snapshot that was not read in
\* the middle of another one, leaves behind only rows that the log had made and
\* deleted again: no row that is still in the log, no tag and no membership is
\* ever lost or out of date between two calls.
StaleIsDeleted ==
    \A n \in Node : pc[n] = "idle" /\ ~stale[n].torn =>
        /\ stale[n].tag = {} /\ ~stale[n].membership
        /\ \A k \in stale[n].row : \E i \in 1 .. lastApplied[n] :
              hist[i].row[k] # NoRow /\ hist[i + 1].row[k] = NoRow

\* Between two calls everything the node should mirror is in its pending
\* channels, whichever of the three pieces of code filled them: the second
\* phase of apply_to_state_machine, from_serializable or RegistryStore::new.
PendingComplete ==
    \A n \in Node : pc[n] \in {"idle", "apply", "save"} =>
        WantedKeys(n, tables[n].row) \ stale[n].row \subseteq pending[n]

\* Between two calls a node is never told to fetch what it already holds.
PendingNotHeld ==
    \A n \in Node : pc[n] \in {"idle", "apply", "save"} =>
        \A k \in pending[n] : tables[n].row[k] = NoRow \/ n \notin tables[n].row[k].locations

\* An entry whose Stored names a row the log has deleted stops the cluster for
\* good: apply_to_state_machine panics on it on every node, after a restart
\* too, unless install_snapshot had left that very row behind.
NobodyPassesPoison ==
    \A n \in Node : \A i \in 1 .. Len(log) :
        i <= lastApplied[n] /\ PanicsOn(hist[i], log[i].act) => log[i].act.key \in stale[n].row

\* last_applied_log never goes back, across crashes and installs, and never
\* rests inside an entry.
AppliedGoesForward ==
    [][\A n \in Node :
          /\ lastApplied'[n] >= lastApplied[n]
          /\ lastApplied'[n] > 0 => log'[lastApplied'[n]].last]_vars

\* What the comment on SerializableRegistryStateMachine says: the state is a
\* copy of the data on each node.  Two nodes between two calls that have applied
\* the same entries have the same trees.
ReplicasAgree ==
    \A n, m \in Node :
        pc[n] = "idle" /\ pc[m] = "idle" /\ lastApplied[n] = lastApplied[m]
            => tables[n] = tables[m]

=============================================================================
