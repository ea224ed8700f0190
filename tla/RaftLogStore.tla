----------------------------- MODULE RaftLogStore -----------------------------
(***************************************************************************)
(* The log half of RegistryStore (src/store/mod.rs) on one node: the vote, *)
(* the log, last_purged_log_id, snapshot_index and the current snapshot in *)
(* the sled trees `store` and `logs`, with last_applied_log of the state   *)
(* machine next to them, and what is left of them by a crash.              *)
(*                                                                         *)
(* sled (external): an insert and a batch are atomic; a write is durable   *)
(* after a flush, of any tree, and may be earlier; a crash loses a suffix  *)
(* of the writes.  `mem` is what the process reads, `recoverable` every    *)
(* state a crash may leave: the last flushed one and those written since.  *)
(*                                                                         *)
(* openraft (external) calls save_vote, append_to_log,                     *)
(* delete_conflict_logs_since, purge_logs_upto, apply_to_state_machine and *)
(* install_snapshot one at a time, under the lock of its Adaptor, and      *)
(* build_snapshot, one at a time, next to them in a task of its own.  It   *)
(* votes upwards, appends behind last_log_id, deletes nothing committed,   *)
(* installs only what is ahead of it, and purges what the last snapshot    *)
(* covers, after an install all of it.  A start whose last_log_id is       *)
(* before last_applied_log purges up to the latter.                        *)
(***************************************************************************)
EXTENDS Naturals

CONSTANTS MaxIndex, MaxTerm, MaxSnapshots, MaxCrash

ASSUME BoundsAssumption == {MaxIndex, MaxTerm, MaxSnapshots, MaxCrash} \subseteq Nat

Index == 1 .. MaxIndex

\* The term of the entry at an index, 0 for no entry.
Log == [Index -> 0 .. MaxTerm]

\* A snapshot: the index it reaches and the number in its snapshot_id.
Snapshot == [index : Nat, number : Nat]

State == [vote : Nat, purged : Nat, log : Log, applied : Nat, snapshotIndex : Nat,
          snapshot : Snapshot]

VARIABLES
    mem,            \* the trees as the process sees them
    recoverable,    \* the trees a crash may leave
    core,           \* the call of the raft core in progress, by its next step
    target,         \* the argument of that call
    builder,        \* build_snapshot, by its next step
    building,       \* the snapshot it is building
    acked,          \* ghost: the vote and the entries whose call has returned
    issued,         \* ghost: the numbers of the snapshots build_snapshot returned
    committed,      \* openraft: what is committed, and so never deleted
    covered,        \* openraft: what the last snapshot it knows of covers
    behind,         \* ghost: the stored snapshot is behind what was installed
    crashes

vars == <<mem, recoverable, core, target, builder, building, acked, issued, committed, covered,
          behind, crashes>>
coreVars == <<core, target, acked, committed>>
builderVars == <<builder, building, issued>>
snapVars == <<covered, behind>>

NoSnapshot == [index |-> 0, number |-> 0]
NoEntries == [i \in Index |-> 0]

InitState == [vote |-> 0, purged |-> 0, log |-> NoEntries, applied |-> 0,
              snapshotIndex |-> 0, snapshot |-> NoSnapshot]

TypeOK ==
    /\ mem \in State
    /\ recoverable \subseteq State
    /\ core \in {"down", "idle", "flush_vote", "flush_append", "flush_delete",
                 "flush_purged", "purge_delete", "flush_purge", "flush_apply",
                 "flush_applied", "save_installed", "flush_installed", "installed"}
    /\ target \in Nat
    /\ builder \in {"idle", "number", "flush_number", "save", "flush_save"}
    /\ building \in Snapshot
    /\ acked \in [vote : Nat, log : Log]
    /\ issued \subseteq Nat
    /\ committed \in Nat
    /\ covered \in Nat
    /\ behind \in BOOLEAN
    /\ crashes \in 0 .. MaxCrash

Init ==
    /\ mem = InitState
    /\ recoverable = {InitState}
    /\ core = "idle"
    /\ target = 0
    /\ builder = "idle"
    /\ building = NoSnapshot
    /\ acked = [vote |-> 0, log |-> NoEntries]
    /\ issued = {}
    /\ committed = 0
    /\ covered = 0
    /\ behind = FALSE
    /\ crashes = 0

-----------------------------------------------------------------------------
Later(i, j) == IF i < j THEN j ELSE i

Write(s) ==
    /\ mem' = s
    /\ recoverable' = recoverable \cup {s}

\* Mutant of Flush: flush_async is not awaited.
FlushLater ==
    /\ mem' = mem
    /\ recoverable' = recoverable

Flush ==
    /\ mem' = mem
    /\ recoverable' = {mem}

\* get_log_state: the last entry of the tree, or else what was purged last.
IsLastLogId(s, i) ==
    \/ i \in Index /\ s.log[i] # 0 /\ \A j \in Index : j > i => s.log[j] = 0
    \/ s.log = NoEntries /\ i = s.purged

-----------------------------------------------------------------------------
(***************************************************************************)
(* The calls of the raft core: write, then flush, then return.             *)
(***************************************************************************)
SaveVote(v) ==
    /\ core = "idle"
    /\ v > mem.vote
    /\ Write([mem EXCEPT !.vote = v])
    /\ core' = "flush_vote"
    /\ target' = v
    /\ UNCHANGED <<acked, committed, builderVars, snapVars, crashes>>

VoteSaved ==
    /\ core = "flush_vote"
    /\ Flush
    /\ core' = "idle"
    /\ acked' = [acked EXCEPT !.vote = target]
    /\ UNCHANGED <<target, committed, builderVars, snapVars, crashes>>

\* A batch of entries behind the last one, all of the leader's term.
AppendToLog(last, upto, term) ==
    /\ core = "idle"
    /\ IsLastLogId(mem, last)
    /\ last < upto
    /\ Write([mem EXCEPT !.log = [i \in Index |-> IF i \in last + 1 .. upto THEN term ELSE @[i]]])
    /\ core' = "flush_append"
    /\ target' = upto
    /\ UNCHANGED <<acked, committed, builderVars, snapVars, crashes>>

Appended ==
    /\ core = "flush_append"
    /\ Flush
    /\ core' = "idle"
    /\ acked' = [acked EXCEPT !.log = [i \in Index |-> IF i <= target THEN mem.log[i] ELSE 0]]
    /\ UNCHANGED <<target, committed, builderVars, snapVars, crashes>>

\* From the call on nobody relies on what it deletes.
DeleteConflictLogsSince(from) ==
    /\ core = "idle"
    /\ committed < from
    /\ \E i \in Index : from <= i /\ mem.log[i] # 0
    /\ Write([mem EXCEPT !.log = [i \in Index |-> IF i >= from THEN 0 ELSE @[i]]])
    /\ core' = "flush_delete"
    /\ target' = from
    /\ acked' = [acked EXCEPT !.log = [i \in Index |-> IF i >= from THEN 0 ELSE @[i]]]
    /\ UNCHANGED <<committed, builderVars, snapVars, crashes>>

Deleted ==
    /\ core = "flush_delete"
    /\ Flush
    /\ core' = "idle"
    /\ UNCHANGED <<target, acked, committed, builderVars, snapVars, crashes>>

\* Mutant of PurgeLogsUpto: the entries go without set_last_purged_.
PurgeLogsUptoUnmarked(upto) ==
    /\ \/ core = "idle" /\ mem.purged < upto /\ upto <= covered
       \/ core = "installed" /\ upto = target
    /\ Write([mem EXCEPT !.log = [i \in Index |-> IF i <= upto THEN 0 ELSE @[i]]])
    /\ core' = "flush_purge"
    /\ target' = upto
    /\ acked' = [acked EXCEPT !.log = [i \in Index |-> IF i <= upto THEN 0 ELSE @[i]]]
    /\ UNCHANGED <<committed, builderVars, snapVars, crashes>>

\* purge_logs_upto: set_last_purged_ with its flush, then the entries.  After an
\* install, and in a start that finds the log behind, `upto` may be beyond it.
PurgeLogsUpto(upto) ==
    /\ \/ core = "idle" /\ mem.purged < upto /\ upto <= covered
       \/ core = "installed" /\ upto = target
    /\ Write([mem EXCEPT !.purged = upto])
    /\ core' = "flush_purged"
    /\ target' = upto
    /\ acked' = [acked EXCEPT !.log = [i \in Index |-> IF i <= upto THEN 0 ELSE @[i]]]
    /\ UNCHANGED <<committed, builderVars, snapVars, crashes>>

LastPurgedSet ==
    /\ core = "flush_purged"
    /\ Flush
    /\ core' = "purge_delete"
    /\ UNCHANGED <<target, acked, committed, builderVars, snapVars, crashes>>

PurgeDelete ==
    /\ core = "purge_delete"
    /\ Write([mem EXCEPT !.log = [i \in Index |-> IF i <= target THEN 0 ELSE @[i]]])
    /\ core' = "flush_purge"
    /\ UNCHANGED <<target, acked, committed, builderVars, snapVars, crashes>>

Purged ==
    /\ core = "flush_purge"
    /\ Flush
    /\ core' = "idle"
    /\ UNCHANGED <<target, acked, committed, builderVars, snapVars, crashes>>

\* openraft learns that more of what it was told is stored is committed.
Advance(i) ==
    /\ core # "down"
    /\ committed < i
    /\ i \in Index
    /\ acked.log[i] # 0
    /\ committed' = i
    /\ UNCHANGED <<mem, recoverable, core, target, acked, builderVars, snapVars, crashes>>

\* apply_to_state_machine: last_applied_log is written with the entries.
Apply(i) ==
    /\ core = "idle"
    /\ mem.applied < i
    /\ i <= committed
    /\ Write([mem EXCEPT !.applied = i])
    /\ core' = "flush_apply"
    /\ UNCHANGED <<target, acked, committed, builderVars, snapVars, crashes>>

Applied ==
    /\ core = "flush_apply"
    /\ Flush
    /\ core' = "idle"
    /\ UNCHANGED <<target, acked, committed, builderVars, snapVars, crashes>>

-----------------------------------------------------------------------------
(***************************************************************************)
(* install_snapshot.  from_serializable writes the trees (RegistryStore    *)
(* has them) and last_applied_log; then the snapshot is stored.  The log   *)
(* stays as it was until the purge that follows.                           *)
(***************************************************************************)

\* Mutant of InstallSnapshot: last_applied_log stays.
InstallSnapshotUnapplied(index) ==
    /\ core = "idle"
    /\ committed < index
    /\ Write(mem)
    /\ core' = "flush_applied"
    /\ target' = index
    /\ UNCHANGED <<acked, committed, builderVars, snapVars, crashes>>

InstallSnapshot(index) ==
    /\ core = "idle"
    /\ committed < index
    /\ Write([mem EXCEPT !.applied = index])
    /\ core' = "flush_applied"
    /\ target' = index
    /\ UNCHANGED <<acked, committed, builderVars, snapVars, crashes>>

LastAppliedSet ==
    /\ core = "flush_applied"
    /\ Flush
    /\ core' = "save_installed"
    /\ committed' = Later(committed, target)
    /\ UNCHANGED <<target, acked, builderVars, snapVars, crashes>>

\* set_current_snapshot_: the snapshot_id is that of the node that built it.
SaveInstalled ==
    /\ core = "save_installed"
    /\ Write([mem EXCEPT !.snapshot = [index |-> target, number |-> 0]])
    /\ core' = "flush_installed"
    /\ UNCHANGED <<target, acked, committed, builderVars, snapVars, crashes>>

Installed ==
    /\ core = "flush_installed"
    /\ Flush
    /\ core' = "installed"
    /\ covered' = target
    /\ behind' = (behind /\ mem.snapshot.index < target)
    /\ UNCHANGED <<target, acked, committed, builderVars, crashes>>

-----------------------------------------------------------------------------
(***************************************************************************)
(* build_snapshot.  The index of a snapshot is last_applied_log when it is *)
(* read with the trees.                                                    *)
(***************************************************************************)
BuildSnapshot ==
    /\ core # "down"
    /\ builder = "idle"
    /\ mem.snapshotIndex < MaxSnapshots
    /\ mem.snapshot.index < mem.applied
    /\ builder' = "number"
    /\ building' = [index |-> mem.applied, number |-> 0]
    /\ UNCHANGED <<mem, recoverable, issued, snapVars, coreVars, crashes>>

\* Mutant of NextSnapshotIndex: the number is not written back.
NextSnapshotIndexUnsaved ==
    /\ builder = "number"
    /\ Write(mem)
    /\ building' = [building EXCEPT !.number = mem.snapshotIndex + 1]
    /\ builder' = "flush_number"
    /\ UNCHANGED <<issued, snapVars, coreVars, crashes>>

\* get_snapshot_index_ and set_snapshot_index_.
NextSnapshotIndex ==
    /\ builder = "number"
    /\ Write([mem EXCEPT !.snapshotIndex = @ + 1])
    /\ building' = [building EXCEPT !.number = mem.snapshotIndex + 1]
    /\ builder' = "flush_number"
    /\ UNCHANGED <<issued, snapVars, coreVars, crashes>>

SnapshotIndexSet ==
    /\ builder = "flush_number"
    /\ Flush
    /\ builder' = "save"
    /\ UNCHANGED <<building, issued, snapVars, coreVars, crashes>>

\* Mutant of SaveSnapshot: it is not written.
SaveSnapshotSkipped ==
    /\ builder = "save"
    /\ Write(mem)
    /\ builder' = "flush_save"
    /\ UNCHANGED <<building, issued, snapVars, coreVars, crashes>>

\* set_current_snapshot_, which may replace a later one that was installed since
\* last_applied_log was read.
SaveSnapshot ==
    /\ builder = "save"
    /\ Write([mem EXCEPT !.snapshot = building])
    /\ builder' = "flush_save"
    /\ behind' = (behind \/ building.index < mem.snapshot.index)
    /\ UNCHANGED <<building, issued, covered, coreVars, crashes>>

SnapshotSaved ==
    /\ builder = "flush_save"
    /\ Flush
    /\ builder' = "idle"
    /\ issued' = issued \cup {building.number}
    /\ covered' = Later(covered, building.index)
    /\ behind' = (behind /\ \/ core \in {"flush_installed", "installed"}
                            \/ mem.snapshot.index < Later(covered, mem.purged))
    /\ UNCHANGED <<building, coreVars, crashes>>

-----------------------------------------------------------------------------
Crash(s) ==
    /\ core # "down"
    /\ crashes < MaxCrash
    /\ crashes' = crashes + 1
    /\ s \in recoverable
    /\ mem' = s
    /\ recoverable' = {s}
    /\ core' = "down"
    /\ target' = 0
    /\ builder' = "idle"
    /\ building' = NoSnapshot
    /\ covered' = s.snapshot.index
    /\ UNCHANGED <<acked, issued, committed, behind>>

\* last_applied_state and get_log_state are read again: the log goes on, or it
\* is behind what is applied and is purged first.
Restart(last) ==
    /\ core = "down"
    /\ IsLastLogId(mem, last)
    /\ committed' = Later(committed, mem.applied)
    /\ \/ /\ mem.applied <= last
          /\ core' = "idle"
          /\ UNCHANGED <<target, behind>>
       \/ /\ last < mem.applied
          /\ core' = "installed"
          /\ target' = mem.applied
          /\ behind' = (behind \/ mem.snapshot.index < mem.applied)
    /\ UNCHANGED <<mem, recoverable, acked, builderVars, covered, crashes>>

-----------------------------------------------------------------------------
Next ==
    \/ \E v \in 1 .. MaxTerm : SaveVote(v)
    \/ VoteSaved
    \/ \E last \in 0 .. MaxIndex, upto \in Index, term \in 1 .. MaxTerm :
          AppendToLog(last, upto, term)
    \/ Appended
    \/ \E from \in Index : DeleteConflictLogsSince(from)
    \/ Deleted
    \/ \E upto \in Index : PurgeLogsUpto(upto)
    \/ LastPurgedSet
    \/ PurgeDelete
    \/ Purged
    \/ \E i \in Index : Advance(i)
    \/ \E i \in Index : Apply(i)
    \/ Applied
    \/ \E index \in Index : InstallSnapshot(index)
    \/ LastAppliedSet
    \/ SaveInstalled
    \/ Installed
    \/ BuildSnapshot
    \/ NextSnapshotIndex
    \/ SnapshotIndexSet
    \/ SaveSnapshot
    \/ SnapshotSaved
    \/ \E s \in recoverable : Crash(s)
    \/ \E last \in 0 .. MaxIndex : Restart(last)

Spec == Init /\ [][Next]_vars

-----------------------------------------------------------------------------
(***************************************************************************)
(* Properties, of every state a crash may leave at this moment.            *)
(***************************************************************************)

\* What save_vote and append_to_log have acknowledged survives a crash at any
\* point, until openraft asks for it to be deleted.
AckedIsDurable ==
    \A s \in recoverable :
        /\ s.vote >= acked.vote
        /\ \A i \in Index : acked.log[i] # 0 => s.log[i] = acked.log[i]

\* After a crash in the middle of purge_logs_upto there may be entries left
\* that count as purged, but none is missing that does not.
NoHole ==
    \A s \in recoverable : \A i, j \in Index :
        s.purged < i /\ i < j /\ s.log[j] # 0 => s.log[i] # 0

\* A crash never leaves a log whose purged entries the state machine does not
\* have.  Nor does it leave one whose purged entries no stored snapshot covers,
\* unless install_snapshot was cut short after last_applied_log, or a build that
\* began before an install stored its snapshot after it; and then only until
\* the next snapshot is stored.
SnapshotCoversPurged ==
    \A s \in recoverable :
        /\ s.purged <= s.applied
        /\ ~behind => s.purged <= s.snapshot.index

\* When the node runs, get_log_state answers a last_log_id that is not before
\* last_purged_log_id and knows every committed entry.  A crash may leave a log
\* of which that is not true, after an install beyond its end, but then the
\* start sees it: last_log_id is before last_applied_log, which has it all.
LogStateIsSane ==
    /\ core = "idle" =>
           \A last \in 0 .. MaxIndex :
               IsLastLogId(mem, last) => mem.purged <= last /\ committed <= last
    /\ \A s \in recoverable : \A last \in 0 .. MaxIndex :
           IsLastLogId(s, last) /\ last < Later(s.purged, committed) =>
               last < s.applied /\ Later(s.purged, committed) <= s.applied

\* No snapshot_id is given out twice, though a crash may come between the write
\* of snapshot_index and the snapshot that carries it.
SnapshotNumbersAreFresh ==
    [][SnapshotSaved => building.number \notin issued]_vars

=============================================================================
