------------------------- MODULE RaftLogStore_proofs -------------------------
(***************************************************************************)
(* Proofs of the properties of RaftLogStore for all bounds.                *)
(***************************************************************************)
EXTENDS RaftLogStore, TLAPS

(***************************************************************************)
(* The inductive invariant: what holds of every recoverable state, and     *)
(* what holds of `mem` in the middle of each call.                         *)
(***************************************************************************)

\* Acknowledged, and contiguous.
LogOK(s) ==
    /\ s.vote >= acked.vote
    /\ \A i \in Index : acked.log[i] # 0 => s.log[i] = acked.log[i]
    /\ \A i, j \in Index : s.purged < i /\ i < j /\ s.log[j] # 0 => s.log[i] # 0

\* The log reaches what is applied, or all up to there was purged.
Current(s) ==
    \/ s.applied \in Index /\ s.log[s.applied] # 0
    \/ s.purged = s.applied /\ \A i \in Index : i <= s.applied => s.log[i] = 0

\* It ends before what is applied, which was installed.
LogBehind(s) == \A i \in Index : s.applied <= i => s.log[i] = 0

\* What is committed is applied or in the log.
AppliedOK(s) ==
    /\ s.purged <= s.applied
    /\ s.snapshot.index <= s.applied
    /\ covered <= s.applied
    /\ Current(s) \/ LogBehind(s)
    /\ committed <= s.applied \/ (committed \in Index /\ s.log[committed] # 0)

SnapshotOK(s) ==
    /\ ~behind => s.purged <= s.snapshot.index /\ covered <= s.snapshot.index
    /\ \A k \in issued : k <= s.snapshotIndex

CoreOK ==
    /\ core = "flush_vote" => mem.vote = target
    /\ core \in {"flush_purged", "purge_delete", "flush_purge"} =>
          /\ mem.purged = target
          /\ \A i \in Index : i <= target => acked.log[i] = 0
    /\ core \in {"flush_purged", "purge_delete"} => target = mem.applied \/ Current(mem)
    /\ core \in {"idle", "flush_vote", "flush_append", "flush_delete", "flush_apply",
                 "flush_purge"} => Current(mem)
    /\ core \in {"flush_applied", "save_installed", "flush_installed", "installed"} =>
          target = mem.applied
    /\ core \in {"flush_installed", "installed"} /\ ~behind => target <= mem.snapshot.index
    /\ core \notin {"down", "flush_applied"} => mem.applied <= committed
    /\ core = "down" => recoverable = {mem} /\ builder = "idle"

BuilderOK ==
    /\ builder # "idle" => building.index <= mem.applied
    /\ builder = "flush_save" => building.index <= mem.snapshot.index
    /\ builder \in {"flush_number", "save", "flush_save"} =>
          building.number <= mem.snapshotIndex /\ \A k \in issued : k < building.number
    /\ builder \in {"save", "flush_save"} =>
          \A s \in recoverable : building.number <= s.snapshotIndex /\ building.index <= s.applied

RecoverableOK ==
    /\ mem \in recoverable
    /\ \A s \in recoverable : LogOK(s) /\ AppliedOK(s) /\ SnapshotOK(s)

IInv == TypeOK /\ RecoverableOK /\ CoreOK /\ BuilderOK

-----------------------------------------------------------------------------
LEMMA IndexType == Index \subseteq Nat
BY BoundsAssumption DEF Index

\* The log after an append, and after deleting from either end.
LEMMA AppendedLogType ==
    ASSUME NEW l \in Log, NEW a \in Nat, NEW b \in Nat, NEW term \in 1 .. MaxTerm
    PROVE  [i \in Index |-> IF i \in a + 1 .. b THEN term ELSE l[i]] \in Log
BY BoundsAssumption DEF Log, Index

LEMMA DeletedLogTypes ==
    ASSUME NEW l \in Log, NEW a \in Nat
    PROVE  /\ [i \in Index |-> IF i <= a THEN l[i] ELSE 0] \in Log
           /\ [i \in Index |-> IF i <= a THEN 0 ELSE l[i]] \in Log
           /\ [i \in Index |-> IF i >= a THEN 0 ELSE l[i]] \in Log
BY BoundsAssumption DEF Log, Index

-----------------------------------------------------------------------------
(***************************************************************************)
(* What each write of a call does to `mem`.                                *)
(***************************************************************************)
LEMMA SaveVoteWrites ==
    ASSUME TypeOK, NEW v \in 1 .. MaxTerm, SaveVote(v)
    PROVE  /\ mem' \in State /\ recoverable' = recoverable \cup {mem'}
           /\ mem'.vote = v /\ mem'.purged = mem.purged /\ mem'.log = mem.log
           /\ mem'.snapshotIndex = mem.snapshotIndex /\ mem'.snapshot = mem.snapshot
           /\ mem'.applied = mem.applied
           /\ core = "idle" /\ v \in Nat /\ v > mem.vote
           /\ core' = "flush_vote" /\ target' = v
           /\ UNCHANGED <<acked, committed, builder, building, issued, covered, behind, crashes>>
<1>1. mem' = [mem EXCEPT !.vote = v] /\ recoverable' = recoverable \cup {mem'}
    BY Zenon DEF SaveVote, Write
<1>2. mem \in State /\ v \in Nat
    BY BoundsAssumption DEF TypeOK
<1>6. /\ core = "idle" /\ v > mem.vote
      /\ core' = "flush_vote" /\ target' = v
      /\ UNCHANGED <<acked, committed, builder, building, issued, covered, behind, crashes>>
    BY Zenon DEF SaveVote, builderVars, snapVars
<1> QED
    BY <1>6, <1>1, <1>2 DEF State

LEMMA AppendToLogWrites ==
    ASSUME TypeOK, NEW last \in 0 .. MaxIndex, NEW upto \in Index, NEW term \in 1 .. MaxTerm,
           AppendToLog(last, upto, term)
    PROVE  /\ mem' \in State /\ recoverable' = recoverable \cup {mem'}
           /\ mem'.log = [i \in Index |-> IF i \in last + 1 .. upto THEN term ELSE mem.log[i]]
           /\ mem'.vote = mem.vote /\ mem'.purged = mem.purged
           /\ mem'.snapshotIndex = mem.snapshotIndex /\ mem'.snapshot = mem.snapshot
           /\ mem'.applied = mem.applied
           /\ core = "idle" /\ IsLastLogId(mem, last) /\ last < upto
           /\ core' = "flush_append" /\ target' = upto
           /\ UNCHANGED <<acked, committed, builder, building, issued, covered, behind, crashes>>
<1> DEFINE l == [i \in Index |-> IF i \in last + 1 .. upto THEN term ELSE mem.log[i]]
<1>1. mem' = [mem EXCEPT !.log = l] /\ recoverable' = recoverable \cup {mem'}
    BY Zenon DEF AppendToLog, Write
<1>2. mem \in State /\ mem.log \in Log /\ last \in Nat /\ upto \in Nat
    BY BoundsAssumption DEF TypeOK, State, Index
<1>3. l \in Log
    BY <1>2, AppendedLogType
<1> HIDE DEF l
<1>4. /\ mem' \in State /\ mem'.log = l
      /\ mem'.vote = mem.vote /\ mem'.purged = mem.purged
      /\ mem'.snapshotIndex = mem.snapshotIndex /\ mem'.snapshot = mem.snapshot
      /\ mem'.applied = mem.applied
    BY <1>1, <1>2, <1>3 DEF State
<1>6. /\ core = "idle" /\ IsLastLogId(mem, last) /\ last < upto
      /\ core' = "flush_append" /\ target' = upto
      /\ UNCHANGED <<acked, committed, builder, building, issued, covered, behind, crashes>>
    BY Zenon DEF AppendToLog, builderVars, snapVars
<1> QED
    BY <1>6, <1>1, <1>4, Zenon DEF l

LEMMA DeleteConflictWrites ==
    ASSUME TypeOK, NEW from \in Index, DeleteConflictLogsSince(from)
    PROVE  /\ mem' \in State /\ recoverable' = recoverable \cup {mem'}
           /\ mem'.log = [i \in Index |-> IF i >= from THEN 0 ELSE mem.log[i]]
           /\ mem'.vote = mem.vote /\ mem'.purged = mem.purged
           /\ mem'.snapshotIndex = mem.snapshotIndex /\ mem'.snapshot = mem.snapshot
           /\ mem'.applied = mem.applied
           /\ acked' \in [vote : Nat, log : Log]
           /\ acked'.vote = acked.vote
           /\ acked'.log = [i \in Index |-> IF i >= from THEN 0 ELSE acked.log[i]]
           /\ core = "idle" /\ committed < from
           /\ core' = "flush_delete" /\ target' = from
           /\ UNCHANGED <<committed, builder, building, issued, covered, behind, crashes>>
<1> DEFINE l == [i \in Index |-> IF i >= from THEN 0 ELSE mem.log[i]]
           a == [i \in Index |-> IF i >= from THEN 0 ELSE acked.log[i]]
<1>1. /\ mem' = [mem EXCEPT !.log = l] /\ recoverable' = recoverable \cup {mem'}
      /\ acked' = [acked EXCEPT !.log = a]
    BY Zenon DEF DeleteConflictLogsSince, Write
<1>2. mem \in State /\ mem.log \in Log /\ acked.log \in Log /\ from \in Nat
    BY BoundsAssumption DEF TypeOK, State, Index
<1>3. l \in Log /\ a \in Log
    BY <1>2, DeletedLogTypes
<1> HIDE DEF l, a
<1>4. /\ mem' \in State /\ mem'.log = l
      /\ mem'.vote = mem.vote /\ mem'.purged = mem.purged
      /\ mem'.snapshotIndex = mem.snapshotIndex /\ mem'.snapshot = mem.snapshot
      /\ mem'.applied = mem.applied
    BY <1>1, <1>2, <1>3 DEF State
<1>5. acked' \in [vote : Nat, log : Log] /\ acked'.vote = acked.vote /\ acked'.log = a
    BY <1>1, <1>3 DEF TypeOK
<1>6. /\ core = "idle" /\ committed < from
      /\ core' = "flush_delete" /\ target' = from
      /\ UNCHANGED <<committed, builder, building, issued, covered, behind, crashes>>
    BY Zenon DEF DeleteConflictLogsSince, builderVars, snapVars
<1> QED
    BY <1>6, <1>1, <1>4, <1>5, Zenon DEF l, a

LEMMA PurgeLogsUptoWrites ==
    ASSUME TypeOK, NEW upto \in Index, PurgeLogsUpto(upto)
    PROVE  /\ mem' \in State /\ recoverable' = recoverable \cup {mem'}
           /\ mem'.purged = upto /\ mem'.vote = mem.vote /\ mem'.log = mem.log
           /\ mem'.snapshotIndex = mem.snapshotIndex /\ mem'.snapshot = mem.snapshot
           /\ mem'.applied = mem.applied
           /\ acked' \in [vote : Nat, log : Log]
           /\ acked'.vote = acked.vote
           /\ acked'.log = [i \in Index |-> IF i <= upto THEN 0 ELSE acked.log[i]]
           /\ \/ core = "idle" /\ mem.purged < upto /\ upto <= covered
              \/ core = "installed" /\ upto = target
           /\ core' = "flush_purged" /\ target' = upto
           /\ UNCHANGED <<committed, builder, building, issued, covered, behind, crashes>>
<1> DEFINE a == [i \in Index |-> IF i <= upto THEN 0 ELSE acked.log[i]]
<1>1. /\ mem' = [mem EXCEPT !.purged = upto] /\ recoverable' = recoverable \cup {mem'}
      /\ acked' = [acked EXCEPT !.log = a]
    BY Zenon DEF PurgeLogsUpto, Write
<1>2. mem \in State /\ acked.log \in Log /\ upto \in Nat
    BY BoundsAssumption DEF TypeOK, State, Index
<1>3. a \in Log
    BY <1>2, DeletedLogTypes
<1> HIDE DEF a
<1>4. /\ mem' \in State /\ mem'.purged = upto /\ mem'.vote = mem.vote /\ mem'.log = mem.log
      /\ mem'.snapshotIndex = mem.snapshotIndex /\ mem'.snapshot = mem.snapshot
      /\ mem'.applied = mem.applied
    BY <1>1, <1>2 DEF State
<1>5. acked' \in [vote : Nat, log : Log] /\ acked'.vote = acked.vote /\ acked'.log = a
    BY <1>1, <1>3 DEF TypeOK
<1>6. /\ \/ core = "idle" /\ mem.purged < upto /\ upto <= covered
         \/ core = "installed" /\ upto = target
      /\ core' = "flush_purged" /\ target' = upto
      /\ UNCHANGED <<committed, builder, building, issued, covered, behind, crashes>>
    BY Zenon DEF PurgeLogsUpto, builderVars, snapVars
<1> QED
    BY <1>6, <1>1, <1>4, <1>5, Zenon DEF a

LEMMA PurgeDeleteWrites ==
    ASSUME TypeOK, PurgeDelete
    PROVE  /\ mem' \in State /\ recoverable' = recoverable \cup {mem'}
           /\ mem'.log = [i \in Index |-> IF i <= target THEN 0 ELSE mem.log[i]]
           /\ mem'.vote = mem.vote /\ mem'.purged = mem.purged
           /\ mem'.snapshotIndex = mem.snapshotIndex /\ mem'.snapshot = mem.snapshot
           /\ mem'.applied = mem.applied
           /\ core = "purge_delete"
           /\ core' = "flush_purge"
           /\ UNCHANGED <<target, acked, committed, builder, building, issued, covered, behind, crashes>>
<1> DEFINE l == [i \in Index |-> IF i <= target THEN 0 ELSE mem.log[i]]
<1>1. mem' = [mem EXCEPT !.log = l] /\ recoverable' = recoverable \cup {mem'}
    BY Zenon DEF PurgeDelete, Write
<1>2. mem \in State /\ mem.log \in Log /\ target \in Nat
    BY DEF TypeOK, State
<1>3. l \in Log
    BY <1>2, DeletedLogTypes
<1> HIDE DEF l
<1>4. /\ mem' \in State /\ mem'.log = l
      /\ mem'.vote = mem.vote /\ mem'.purged = mem.purged
      /\ mem'.snapshotIndex = mem.snapshotIndex /\ mem'.snapshot = mem.snapshot
      /\ mem'.applied = mem.applied
    BY <1>1, <1>2, <1>3 DEF State
<1>6. /\ core = "purge_delete"
      /\ core' = "flush_purge"
      /\ UNCHANGED <<target, acked, committed, builder, building, issued, covered, behind, crashes>>
    BY Zenon DEF PurgeDelete, builderVars, snapVars
<1> QED
    BY <1>6, <1>1, <1>4, Zenon DEF l

LEMMA AppendedAcks ==
    ASSUME TypeOK, Appended
    PROVE  /\ acked' \in [vote : Nat, log : Log]
           /\ acked'.vote = acked.vote
           /\ acked'.log = [i \in Index |-> IF i <= target THEN mem.log[i] ELSE 0]
           /\ mem' = mem /\ recoverable' = {mem}
           /\ core = "flush_append" /\ core' = "idle"
           /\ UNCHANGED <<target, committed, builder, building, issued, covered, behind, crashes>>
<1> DEFINE a == [i \in Index |-> IF i <= target THEN mem.log[i] ELSE 0]
<1>1. acked' = [acked EXCEPT !.log = a]
    BY Zenon DEF Appended
<1>2. mem.log \in Log /\ target \in Nat
    BY DEF TypeOK, State
<1>3. a \in Log
    BY <1>2, DeletedLogTypes
<1> HIDE DEF a
<1>4. acked' \in [vote : Nat, log : Log] /\ acked'.vote = acked.vote /\ acked'.log = a
    BY <1>1, <1>3 DEF TypeOK
<1>6. /\ mem' = mem /\ recoverable' = {mem}
      /\ core = "flush_append" /\ core' = "idle"
      /\ UNCHANGED <<target, committed, builder, building, issued, covered, behind, crashes>>
    BY Zenon DEF Appended, Flush, builderVars, snapVars
<1> QED
    BY <1>6, <1>4, Zenon DEF a

LEMMA NextSnapshotIndexWrites ==
    ASSUME TypeOK, NextSnapshotIndex
    PROVE  /\ mem' \in State /\ recoverable' = recoverable \cup {mem'}
           /\ mem'.snapshotIndex = mem.snapshotIndex + 1
           /\ mem'.vote = mem.vote /\ mem'.purged = mem.purged /\ mem'.log = mem.log
           /\ mem'.snapshot = mem.snapshot /\ mem'.applied = mem.applied
           /\ building' \in Snapshot
           /\ building'.index = building.index /\ building'.number = mem.snapshotIndex + 1
           /\ builder = "number"
           /\ builder' = "flush_number"
           /\ UNCHANGED <<issued, covered, behind, core, target, acked, committed, crashes>>
<1>1. /\ mem' = [mem EXCEPT !.snapshotIndex = @ + 1] /\ recoverable' = recoverable \cup {mem'}
      /\ building' = [building EXCEPT !.number = mem.snapshotIndex + 1]
    BY Zenon DEF NextSnapshotIndex, Write
<1>2. mem \in State /\ mem.snapshotIndex \in Nat /\ building \in Snapshot
    BY DEF TypeOK, State
<1>3. /\ building' \in Snapshot
      /\ building'.index = building.index /\ building'.number = mem.snapshotIndex + 1
    BY <1>1, <1>2 DEF Snapshot
<1>4. /\ mem' \in State /\ mem'.snapshotIndex = mem.snapshotIndex + 1
      /\ mem'.vote = mem.vote /\ mem'.purged = mem.purged /\ mem'.log = mem.log
      /\ mem'.snapshot = mem.snapshot /\ mem'.applied = mem.applied
    BY <1>1, <1>2 DEF State
<1>6. /\ builder = "number"
      /\ builder' = "flush_number"
      /\ UNCHANGED <<issued, covered, behind, core, target, acked, committed, crashes>>
    BY Zenon DEF NextSnapshotIndex, coreVars, snapVars
<1> QED
    BY <1>6, <1>1, <1>3, <1>4, Zenon

LEMMA SaveSnapshotWrites ==
    ASSUME TypeOK, SaveSnapshot
    PROVE  /\ mem' \in State /\ recoverable' = recoverable \cup {mem'}
           /\ mem'.snapshot = building
           /\ mem'.vote = mem.vote /\ mem'.purged = mem.purged /\ mem'.log = mem.log
           /\ mem'.snapshotIndex = mem.snapshotIndex /\ mem'.applied = mem.applied
           /\ builder = "save"
           /\ builder' = "flush_save"
           /\ behind' = (behind \/ building.index < mem.snapshot.index)
           /\ UNCHANGED <<building, issued, covered, core, target, acked, committed, crashes>>
<1>1. mem' = [mem EXCEPT !.snapshot = building] /\ recoverable' = recoverable \cup {mem'}
    BY Zenon DEF SaveSnapshot, Write
<1>2. mem \in State /\ building \in Snapshot
    BY DEF TypeOK
<1>6. /\ builder = "save"
      /\ builder' = "flush_save"
      /\ behind' = (behind \/ building.index < mem.snapshot.index)
      /\ UNCHANGED <<building, issued, covered, core, target, acked, committed, crashes>>
    BY Zenon DEF SaveSnapshot, coreVars, snapVars
<1> QED
    BY <1>6, <1>1, <1>2 DEF State

LEMMA ApplyWrites ==
    ASSUME TypeOK, NEW i \in Index, Apply(i)
    PROVE  /\ mem' \in State /\ recoverable' = recoverable \cup {mem'}
           /\ mem'.applied = i
           /\ mem'.vote = mem.vote /\ mem'.purged = mem.purged /\ mem'.log = mem.log
           /\ mem'.snapshotIndex = mem.snapshotIndex /\ mem'.snapshot = mem.snapshot
           /\ core = "idle" /\ mem.applied < i /\ i <= committed
           /\ core' = "flush_apply"
           /\ UNCHANGED <<target, acked, committed, builder, building, issued, covered, behind, crashes>>
<1>1. mem' = [mem EXCEPT !.applied = i] /\ recoverable' = recoverable \cup {mem'}
    BY Zenon DEF Apply, Write
<1>2. mem \in State /\ i \in Nat
    BY IndexType DEF TypeOK
<1>6. /\ core = "idle" /\ mem.applied < i /\ i <= committed
      /\ core' = "flush_apply"
      /\ UNCHANGED <<target, acked, committed, builder, building, issued, covered, behind, crashes>>
    BY Zenon DEF Apply, builderVars, snapVars
<1> QED
    BY <1>6, <1>1, <1>2 DEF State

LEMMA InstallSnapshotWrites ==
    ASSUME TypeOK, NEW index \in Index, InstallSnapshot(index)
    PROVE  /\ mem' \in State /\ recoverable' = recoverable \cup {mem'}
           /\ mem'.applied = index
           /\ mem'.vote = mem.vote /\ mem'.purged = mem.purged /\ mem'.log = mem.log
           /\ mem'.snapshotIndex = mem.snapshotIndex /\ mem'.snapshot = mem.snapshot
           /\ core = "idle" /\ committed < index /\ index \in Nat
           /\ core' = "flush_applied" /\ target' = index
           /\ UNCHANGED <<acked, committed, builder, building, issued, covered, behind, crashes>>
<1>1. mem' = [mem EXCEPT !.applied = index] /\ recoverable' = recoverable \cup {mem'}
    BY Zenon DEF InstallSnapshot, Write
<1>2. mem \in State /\ index \in Nat
    BY IndexType DEF TypeOK
<1>6. /\ core = "idle" /\ committed < index
      /\ core' = "flush_applied" /\ target' = index
      /\ UNCHANGED <<acked, committed, builder, building, issued, covered, behind, crashes>>
    BY Zenon DEF InstallSnapshot, builderVars, snapVars
<1> QED
    BY <1>6, <1>1, <1>2 DEF State

LEMMA SaveInstalledWrites ==
    ASSUME TypeOK, SaveInstalled
    PROVE  /\ mem' \in State /\ recoverable' = recoverable \cup {mem'}
           /\ mem'.snapshot.index = target
           /\ mem'.vote = mem.vote /\ mem'.purged = mem.purged /\ mem'.log = mem.log
           /\ mem'.snapshotIndex = mem.snapshotIndex /\ mem'.applied = mem.applied
           /\ core = "save_installed"
           /\ core' = "flush_installed"
           /\ UNCHANGED <<target, acked, committed, builder, building, issued, covered, behind, crashes>>
<1> DEFINE new == [index |-> target, number |-> 0]
<1>1. mem' = [mem EXCEPT !.snapshot = new] /\ recoverable' = recoverable \cup {mem'}
    BY Zenon DEF SaveInstalled, Write
<1>2. mem \in State /\ new \in Snapshot /\ new.index = target
    BY DEF TypeOK, Snapshot
<1>6. /\ core = "save_installed"
      /\ core' = "flush_installed"
      /\ UNCHANGED <<target, acked, committed, builder, building, issued, covered, behind, crashes>>
    BY Zenon DEF SaveInstalled, builderVars, snapVars
<1> HIDE DEF new
<1> QED
    BY <1>6, <1>1, <1>2 DEF State

LEMMA RestartReads ==
    ASSUME TypeOK, NEW last \in 0 .. MaxIndex, Restart(last)
    PROVE  /\ core = "down" /\ IsLastLogId(mem, last) /\ last \in Nat
           /\ committed' \in Nat /\ committed' = Later(committed, mem.applied)
           /\ mem.applied \in Nat /\ target' \in Nat /\ behind' \in BOOLEAN
           /\ \/ mem.applied <= last /\ core' = "idle" /\ target' = target /\ behind' = behind
              \/ /\ last < mem.applied /\ core' = "installed" /\ target' = mem.applied
                 /\ behind' = (behind \/ mem.snapshot.index < mem.applied)
           /\ UNCHANGED <<mem, recoverable, acked, builder, building, issued, covered, crashes>>
<1>1. mem.applied \in Nat /\ committed \in Nat /\ target \in Nat /\ behind \in BOOLEAN /\ last \in Nat
    BY BoundsAssumption DEF TypeOK, State
<1>2. /\ core = "down" /\ IsLastLogId(mem, last)
      /\ committed' = Later(committed, mem.applied)
      /\ \/ mem.applied <= last /\ core' = "idle" /\ target' = target /\ behind' = behind
         \/ /\ last < mem.applied /\ core' = "installed" /\ target' = mem.applied
            /\ behind' = (behind \/ mem.snapshot.index < mem.applied)
      /\ UNCHANGED <<mem, recoverable, acked, builder, building, issued, covered, crashes>>
    BY Zenon DEF Restart, builderVars
<1>3. Later(committed, mem.applied) \in Nat
    BY <1>1 DEF Later
<1>4. target' \in Nat /\ behind' \in BOOLEAN
    BY <1>1, <1>2, Zenon
<1> QED
    BY <1>1, <1>2, <1>3, <1>4, Zenon

-----------------------------------------------------------------------------
(***************************************************************************)
(* Type correctness.                                                       *)
(***************************************************************************)
LEMMA InitTypeOK == Init => TypeOK
<1> SUFFICES ASSUME Init PROVE TypeOK
    OBVIOUS
<1>1. InitState \in State
    BY BoundsAssumption DEF InitState, State, Log, Snapshot, NoSnapshot, NoEntries, Index
<1>2. NoSnapshot \in Snapshot /\ NoEntries \in Log
    BY BoundsAssumption DEF Snapshot, NoSnapshot, Log, NoEntries, Index
<1>3. acked \in [vote : Nat, log : Log] /\ building \in Snapshot
    BY <1>2 DEF Init
<1>4. mem \in State /\ recoverable \subseteq State
    BY <1>1, Zenon DEF Init
<1>5. crashes \in 0 .. MaxCrash
    BY BoundsAssumption DEF Init
<1> QED
    BY <1>3, <1>4, <1>5 DEF Init, TypeOK

\* Every step keeps the trees, the calls in progress and the ghosts well typed.
LEMMA NextTypeOK == TypeOK /\ [Next]_vars => TypeOK'
<1> SUFFICES ASSUME TypeOK, [Next]_vars
             PROVE  TypeOK'
    OBVIOUS
<1>0. /\ UNCHANGED builderVars => UNCHANGED <<builder, building, issued>>
      /\ UNCHANGED snapVars => UNCHANGED <<covered, behind>>
    BY DEF builderVars, snapVars
<1>1. ASSUME NEW v \in 1 .. MaxTerm, SaveVote(v) PROVE TypeOK'
    BY <1>1, SaveVoteWrites DEF TypeOK
<1>2. CASE VoteSaved
    BY <1>0, <1>2 DEF VoteSaved, Flush, TypeOK
<1>3. ASSUME NEW last \in 0 .. MaxIndex, NEW upto \in Index, NEW term \in 1 .. MaxTerm,
             AppendToLog(last, upto, term)
      PROVE  TypeOK'
    BY <1>3, IndexType, AppendToLogWrites DEF TypeOK
<1>4. CASE Appended
    BY <1>4, AppendedAcks DEF TypeOK
<1>5. ASSUME NEW from \in Index, DeleteConflictLogsSince(from) PROVE TypeOK'
    BY <1>5, IndexType, DeleteConflictWrites DEF TypeOK
<1>6. CASE Deleted
    BY <1>0, <1>6 DEF Deleted, Flush, TypeOK
<1>7. ASSUME NEW upto \in Index, PurgeLogsUpto(upto) PROVE TypeOK'
    BY <1>7, IndexType, PurgeLogsUptoWrites DEF TypeOK
<1>8. CASE LastPurgedSet
    BY <1>0, <1>8 DEF LastPurgedSet, Flush, TypeOK
<1>9. CASE PurgeDelete
    BY <1>9, PurgeDeleteWrites DEF TypeOK
<1>10. CASE Purged
    BY <1>0, <1>10 DEF Purged, Flush, TypeOK
<1>11. ASSUME NEW i \in Index, Advance(i) PROVE TypeOK'
    <2>1. UNCHANGED <<mem, recoverable, core, target, acked, builder, building, issued, covered,
                      behind, crashes>> /\ committed' = i
        BY <1>0, <1>11, Zenon DEF Advance
    <2> QED
        BY <2>1, IndexType DEF TypeOK
<1>12. CASE BuildSnapshot
    BY <1>12 DEF BuildSnapshot, coreVars, snapVars, TypeOK, Snapshot, State
<1>13. CASE NextSnapshotIndex
    BY <1>13, NextSnapshotIndexWrites DEF TypeOK
<1>14. CASE SnapshotIndexSet
    BY <1>14 DEF SnapshotIndexSet, Flush, coreVars, snapVars, TypeOK
<1>15. CASE SaveSnapshot
    BY <1>15, SaveSnapshotWrites DEF TypeOK
<1>16. CASE SnapshotSaved
    <2>1. covered' \in Nat
        BY <1>16 DEF SnapshotSaved, Later, TypeOK, Snapshot
    <2>2. behind' \in BOOLEAN
        BY <1>16 DEF SnapshotSaved
    <2> QED
        BY <1>16, <2>1, <2>2 DEF SnapshotSaved, Flush, coreVars, TypeOK, Snapshot
<1>17. ASSUME NEW s \in recoverable, Crash(s) PROVE TypeOK'
    BY <1>17, BoundsAssumption DEF Crash, NoSnapshot, TypeOK, State, Snapshot
<1>18. ASSUME NEW last \in 0 .. MaxIndex, Restart(last) PROVE TypeOK'
    BY <1>18, RestartReads DEF TypeOK
<1>19. CASE UNCHANGED vars
    BY <1>19 DEF vars, TypeOK
<1>20. ASSUME NEW i \in Index, Apply(i) PROVE TypeOK'
    BY <1>20, ApplyWrites DEF TypeOK
<1>21. CASE Applied
    BY <1>0, <1>21 DEF Applied, Flush, TypeOK
<1>22. ASSUME NEW index \in Index, InstallSnapshot(index) PROVE TypeOK'
    BY <1>22, InstallSnapshotWrites DEF TypeOK
<1>23. CASE LastAppliedSet
    <2>1. committed' \in Nat
        BY <1>23 DEF LastAppliedSet, Later, TypeOK
    <2> QED
        BY <1>0, <1>23, <2>1 DEF LastAppliedSet, Flush, TypeOK
<1>24. CASE SaveInstalled
    BY <1>24, SaveInstalledWrites DEF TypeOK
<1>25. CASE Installed
    <2>1. behind' \in BOOLEAN
        BY <1>25 DEF Installed
    <2> QED
        BY <1>0, <1>25, <2>1 DEF Installed, Flush, TypeOK
<1> QED
    BY <1>1, <1>2, <1>3, <1>4, <1>5, <1>6, <1>7, <1>8, <1>9, <1>10, <1>11, <1>12, <1>13, <1>14,
       <1>15, <1>16, <1>17, <1>18, <1>19, <1>20, <1>21, <1>22, <1>23, <1>24, <1>25 DEF Next

\* TypeOK holds throughout every behaviour of the log store.
THEOREM TypeCorrect == Spec => []TypeOK
BY InitTypeOK, NextTypeOK, PTL DEF Spec

-----------------------------------------------------------------------------
(***************************************************************************)
(* IInv is inductive.  The lemmas go action by action; a write adds the    *)
(* new `mem` to what a crash may leave, a flush leaves nothing but `mem`.  *)
(***************************************************************************)
LEMMA InitIInv == Init => IInv
<1> SUFFICES ASSUME Init PROVE IInv
    OBVIOUS
<1>1. TypeOK
    BY InitTypeOK
<1>2. RecoverableOK
    BY IndexType DEF Init, RecoverableOK, LogOK, AppliedOK, Current, LogBehind, SnapshotOK, InitState, NoSnapshot,
       NoEntries
<1>3. CoreOK /\ BuilderOK
    BY DEF Init, CoreOK, BuilderOK, Current, InitState, NoEntries, NoSnapshot
<1> QED
    BY <1>1, <1>2, <1>3 DEF IInv

\* The types the arithmetic below rests on.
Numbers ==
    /\ committed \in Nat /\ covered \in Nat /\ target \in Nat /\ acked.vote \in Nat
    /\ building.index \in Nat /\ building.number \in Nat
    /\ \A i \in Index : i \in Nat /\ acked.log[i] \in Nat
    /\ \A k \in issued : k \in Nat

StateNumbers(s) ==
    /\ s.vote \in Nat /\ s.purged \in Nat /\ s.snapshotIndex \in Nat /\ s.snapshot.index \in Nat
    /\ s.applied \in Nat
    /\ \A i \in Index : s.log[i] \in Nat

LEMMA NumbersAreNat ==
    ASSUME TypeOK
    PROVE  Numbers /\ StateNumbers(mem) /\ \A s \in recoverable : StateNumbers(s)
<1>1. Numbers
    BY IndexType, BoundsAssumption DEF TypeOK, Numbers, Snapshot, Log
<1>2. ASSUME NEW s \in State PROVE StateNumbers(s)
    BY BoundsAssumption DEF StateNumbers, State, Snapshot, Log
<1> QED
    BY <1>1, <1>2 DEF TypeOK

LEMMA SaveVoteKeeps ==
    ASSUME IInv, NEW v \in 1 .. MaxTerm, SaveVote(v)
    PROVE  RecoverableOK' /\ CoreOK' /\ BuilderOK'
<1>0. /\ mem' \in State /\ recoverable' = recoverable \cup {mem'}
      /\ mem'.vote = v /\ mem'.purged = mem.purged /\ mem'.log = mem.log
      /\ mem'.snapshotIndex = mem.snapshotIndex /\ mem'.snapshot = mem.snapshot
      /\ mem'.applied = mem.applied
      /\ core = "idle" /\ v \in Nat /\ v > mem.vote
      /\ core' = "flush_vote" /\ target' = v
      /\ UNCHANGED <<acked, committed, builder, building, issued, covered, behind, crashes>>
    BY SaveVoteWrites DEF IInv
<1>9. Numbers /\ StateNumbers(mem) /\ \A s \in recoverable : StateNumbers(s)
    BY NumbersAreNat DEF IInv
<1> USE <1>0, <1>9 DEF Numbers, StateNumbers
<1>1. RecoverableOK'
    BY DEF IInv, RecoverableOK, LogOK, AppliedOK, Current, LogBehind, SnapshotOK
<1>2. CoreOK' /\ BuilderOK'
    BY DEF IInv, RecoverableOK, AppliedOK, Current, LogBehind, CoreOK, BuilderOK
<1> QED
    BY <1>1, <1>2

\* get_log_state's last_log_id, when the log is not behind what is applied.
LEMMA LastLogId ==
    ASSUME TypeOK, NEW s \in recoverable, AppliedOK(s), Current(s),
           NEW last \in Nat, IsLastLogId(s, last)
    PROVE  /\ s.applied <= last /\ s.purged <= last /\ committed <= last
           /\ \A i \in Index : s.log[i] # 0 => i <= last
<1>0. Numbers /\ StateNumbers(s)
    BY NumbersAreNat
<1> USE <1>0 DEF Numbers, StateNumbers
<1>1. CASE last \in Index /\ s.log[last] # 0 /\ \A j \in Index : j > last => s.log[j] = 0
    BY <1>1 DEF AppliedOK, Current
<1>2. CASE s.log = NoEntries /\ last = s.purged
    <2>1. \A i \in Index : s.log[i] = 0
        BY <1>2 DEF NoEntries
    <2> QED
        BY <1>2, <2>1 DEF AppliedOK, Current
<1> QED
    BY <1>1, <1>2 DEF IsLastLogId

LEMMA AppendToLogKeeps ==
    ASSUME IInv, NEW last \in 0 .. MaxIndex, NEW upto \in Index, NEW term \in 1 .. MaxTerm,
           AppendToLog(last, upto, term)
    PROVE  RecoverableOK' /\ CoreOK' /\ BuilderOK'
<1>0. /\ mem' \in State /\ recoverable' = recoverable \cup {mem'}
      /\ mem'.log = [i \in Index |-> IF i \in last + 1 .. upto THEN term ELSE mem.log[i]]
      /\ mem'.vote = mem.vote /\ mem'.purged = mem.purged
      /\ mem'.snapshotIndex = mem.snapshotIndex /\ mem'.snapshot = mem.snapshot
      /\ mem'.applied = mem.applied
      /\ core = "idle" /\ IsLastLogId(mem, last) /\ last < upto
      /\ core' = "flush_append" /\ target' = upto
      /\ UNCHANGED <<acked, committed, builder, building, issued, covered, behind, crashes>>
    BY AppendToLogWrites DEF IInv
<1>9. Numbers /\ StateNumbers(mem) /\ \A s \in recoverable : StateNumbers(s)
    BY NumbersAreNat DEF IInv
<1> USE <1>0, <1>9 DEF Numbers, StateNumbers
<1>1. /\ mem \in recoverable /\ LogOK(mem) /\ AppliedOK(mem) /\ SnapshotOK(mem)
      /\ \A s \in recoverable : LogOK(s)' /\ AppliedOK(s)' /\ SnapshotOK(s)'
      /\ Current(mem) /\ mem.applied <= committed
    BY DEF IInv, RecoverableOK, LogOK, AppliedOK, Current, LogBehind, SnapshotOK, CoreOK
<1>2. mem.applied <= last /\ mem.purged <= last /\ committed <= last /\ \A i \in Index : mem.log[i] # 0 => i <= last
    BY <1>1, LastLogId DEF IInv
<1>3. /\ \A i \in Index : i <= last => mem'.log[i] = mem.log[i]
      /\ \A i \in Index : last < i /\ i <= upto => mem'.log[i] # 0
      /\ \A i \in Index : upto < i => mem'.log[i] = 0
    BY <1>2
<1>4. (last \in Index /\ mem.log[last] # 0) \/ last = mem.purged
    BY DEF IsLastLogId
<1>5. (LogOK(mem))'
    <2>1. \A i \in Index : acked.log[i] # 0 => mem'.log[i] = acked.log[i]
        BY <1>1, <1>2, <1>3 DEF LogOK
    <2>2. ASSUME NEW i \in Index, NEW j \in Index, mem.purged < i, i < j, mem'.log[j] # 0
          PROVE  mem'.log[i] # 0
        <3>1. CASE i <= last
            BY <2>2, <3>1, <1>1, <1>3, <1>4 DEF LogOK
        <3>2. CASE last < i
            BY <2>2, <3>2, <1>3
        <3> QED
            BY <3>1, <3>2
    <2> QED
        BY <2>1, <2>2, <1>1 DEF LogOK
<1>6. (Current(mem))'
    BY <1>1, <1>2, <1>3 DEF Current
<1>7. (AppliedOK(mem))' /\ (SnapshotOK(mem))'
    BY <1>1, <1>2, <1>3, <1>6 DEF AppliedOK, SnapshotOK
<1>8. RecoverableOK'
    BY <1>1, <1>5, <1>7 DEF RecoverableOK
<1>10. CoreOK' /\ BuilderOK'
    BY <1>6, <1>1 DEF IInv, RecoverableOK, CoreOK, BuilderOK
<1> QED
    BY <1>8, <1>10

LEMMA DeleteConflictKeeps ==
    ASSUME IInv, NEW from \in Index, DeleteConflictLogsSince(from)
    PROVE  RecoverableOK' /\ CoreOK' /\ BuilderOK'
<1>0. /\ mem' \in State /\ recoverable' = recoverable \cup {mem'}
      /\ mem'.log = [i \in Index |-> IF i >= from THEN 0 ELSE mem.log[i]]
      /\ mem'.vote = mem.vote /\ mem'.purged = mem.purged
      /\ mem'.snapshotIndex = mem.snapshotIndex /\ mem'.snapshot = mem.snapshot
      /\ mem'.applied = mem.applied
      /\ acked' \in [vote : Nat, log : Log]
      /\ acked'.vote = acked.vote
      /\ acked'.log = [i \in Index |-> IF i >= from THEN 0 ELSE acked.log[i]]
      /\ core = "idle" /\ committed < from
      /\ core' = "flush_delete" /\ target' = from
      /\ UNCHANGED <<committed, builder, building, issued, covered, behind, crashes>>
    BY DeleteConflictWrites DEF IInv
<1>9. Numbers /\ StateNumbers(mem) /\ \A s \in recoverable : StateNumbers(s)
    BY NumbersAreNat DEF IInv
<1> USE <1>0, <1>9 DEF Numbers, StateNumbers
<1>1. RecoverableOK'
    BY DEF IInv, RecoverableOK, LogOK, AppliedOK, Current, LogBehind, SnapshotOK
<1>2. CoreOK' /\ BuilderOK'
    BY DEF IInv, RecoverableOK, AppliedOK, Current, LogBehind, CoreOK, BuilderOK
<1> QED
    BY <1>1, <1>2

LEMMA PurgeLogsUptoKeeps ==
    ASSUME IInv, NEW upto \in Index, PurgeLogsUpto(upto)
    PROVE  RecoverableOK' /\ CoreOK' /\ BuilderOK'
<1>0. /\ mem' \in State /\ recoverable' = recoverable \cup {mem'}
      /\ mem'.purged = upto /\ mem'.vote = mem.vote /\ mem'.log = mem.log
      /\ mem'.snapshotIndex = mem.snapshotIndex /\ mem'.snapshot = mem.snapshot
      /\ mem'.applied = mem.applied
      /\ acked' \in [vote : Nat, log : Log]
      /\ acked'.vote = acked.vote
      /\ acked'.log = [i \in Index |-> IF i <= upto THEN 0 ELSE acked.log[i]]
      /\ \/ core = "idle" /\ mem.purged < upto /\ upto <= covered
         \/ core = "installed" /\ upto = target
      /\ core' = "flush_purged" /\ target' = upto
      /\ UNCHANGED <<committed, builder, building, issued, covered, behind, crashes>>
    BY PurgeLogsUptoWrites DEF IInv
<1>9. Numbers /\ StateNumbers(mem) /\ \A s \in recoverable : StateNumbers(s)
    BY NumbersAreNat DEF IInv
<1> USE <1>0, <1>9 DEF Numbers, StateNumbers
<1>1. /\ mem \in recoverable /\ LogOK(mem) /\ AppliedOK(mem) /\ SnapshotOK(mem)
      /\ \A s \in recoverable : LogOK(s)' /\ AppliedOK(s)' /\ SnapshotOK(s)'
    BY DEF IInv, RecoverableOK, LogOK, AppliedOK, Current, LogBehind, SnapshotOK
<1>2. /\ upto <= mem.applied /\ (~behind => upto <= mem.snapshot.index)
      /\ (Current(mem) /\ mem.purged < upto) \/ upto = mem.applied
    <2>1. CASE core = "idle" /\ mem.purged < upto /\ upto <= covered
        BY <1>1, <2>1 DEF IInv, CoreOK, AppliedOK, SnapshotOK
    <2>2. CASE core = "installed" /\ upto = target
        BY <1>1, <2>2 DEF IInv, CoreOK
    <2> QED
        BY <2>1, <2>2
<1>3. /\ Current(mem) /\ mem.purged < upto => (Current(mem))'
      /\ upto = mem.applied /\ Current(mem) => (Current(mem))'
      /\ LogBehind(mem) => (LogBehind(mem))'
    BY <1>1, <1>2 DEF AppliedOK, Current, LogBehind
<1>4. (LogOK(mem))'
    BY <1>1, <1>2 DEF LogOK, AppliedOK
<1>5. (AppliedOK(mem))' /\ (SnapshotOK(mem))'
    BY <1>1, <1>2, <1>3 DEF AppliedOK, SnapshotOK
<1>6. RecoverableOK'
    BY <1>1, <1>4, <1>5 DEF RecoverableOK
<1>7. CoreOK'
    BY <1>2, <1>3, <1>1 DEF IInv, CoreOK
<1>8. BuilderOK'
    BY <1>1 DEF IInv, BuilderOK
<1> QED
    BY <1>6, <1>7, <1>8

LEMMA PurgeDeleteKeeps ==
    ASSUME IInv, PurgeDelete
    PROVE  RecoverableOK' /\ CoreOK' /\ BuilderOK'
<1>0. /\ mem' \in State /\ recoverable' = recoverable \cup {mem'}
      /\ mem'.log = [i \in Index |-> IF i <= target THEN 0 ELSE mem.log[i]]
      /\ mem'.vote = mem.vote /\ mem'.purged = mem.purged
      /\ mem'.snapshotIndex = mem.snapshotIndex /\ mem'.snapshot = mem.snapshot
      /\ mem'.applied = mem.applied
      /\ core = "purge_delete"
      /\ core' = "flush_purge"
      /\ UNCHANGED <<target, acked, committed, builder, building, issued, covered, behind, crashes>>
    BY PurgeDeleteWrites DEF IInv
<1>9. Numbers /\ StateNumbers(mem) /\ \A s \in recoverable : StateNumbers(s)
    BY NumbersAreNat DEF IInv
<1> USE <1>0, <1>9 DEF Numbers, StateNumbers
<1>1. RecoverableOK'
    BY DEF IInv, RecoverableOK, LogOK, AppliedOK, Current, LogBehind, SnapshotOK, CoreOK
<1>2. CoreOK' /\ BuilderOK'
    BY DEF IInv, RecoverableOK, AppliedOK, Current, LogBehind, CoreOK, BuilderOK
<1> QED
    BY <1>1, <1>2

LEMMA AppendedKeeps ==
    ASSUME IInv, Appended
    PROVE  RecoverableOK' /\ CoreOK' /\ BuilderOK'
<1>0. /\ acked' \in [vote : Nat, log : Log]
      /\ acked'.vote = acked.vote
      /\ acked'.log = [i \in Index |-> IF i <= target THEN mem.log[i] ELSE 0]
      /\ mem' = mem /\ recoverable' = {mem}
      /\ core = "flush_append" /\ core' = "idle"
      /\ UNCHANGED <<target, committed, builder, building, issued, covered, behind, crashes>>
    BY AppendedAcks DEF IInv
<1>9. Numbers /\ StateNumbers(mem) /\ \A s \in recoverable : StateNumbers(s)
    BY NumbersAreNat DEF IInv
<1> USE <1>0, <1>9 DEF Numbers, StateNumbers
<1>1. RecoverableOK'
    BY DEF IInv, RecoverableOK, LogOK, AppliedOK, Current, LogBehind, SnapshotOK
<1>2. CoreOK' /\ BuilderOK'
    BY DEF IInv, RecoverableOK, AppliedOK, Current, LogBehind, CoreOK, BuilderOK
<1> QED
    BY <1>1, <1>2

\* The flushes that acknowledge nothing of the log.
LEMMA FlushKeeps ==
    ASSUME IInv, VoteSaved \/ Deleted \/ LastPurgedSet \/ Purged \/ Applied \/ SnapshotIndexSet
    PROVE  RecoverableOK' /\ CoreOK' /\ BuilderOK'
<1>9. Numbers /\ StateNumbers(mem) /\ \A s \in recoverable : StateNumbers(s)
    BY NumbersAreNat DEF IInv
<1> USE <1>9 DEF Numbers, StateNumbers
<1>1. CASE VoteSaved
    <2>1. /\ mem' = mem /\ recoverable' = {mem} /\ core = "flush_vote" /\ core' = "idle"
          /\ UNCHANGED <<target, committed, builder, building, issued, covered, behind>>
          /\ acked' = [acked EXCEPT !.vote = target]
        BY <1>1 DEF VoteSaved, Flush, builderVars, snapVars
    <2>2. acked'.vote = target /\ acked'.log = acked.log
        BY <2>1 DEF IInv, TypeOK
    <2> QED
        BY <2>1, <2>2 DEF IInv, RecoverableOK, LogOK, AppliedOK, Current, LogBehind,
           SnapshotOK, CoreOK, BuilderOK
<1>2. CASE Deleted \/ LastPurgedSet \/ Purged \/ Applied
    <2>1. /\ mem' = mem /\ recoverable' = {mem}
          /\ UNCHANGED <<target, acked, committed, builder, building, issued, covered, behind>>
          /\ \/ core \in {"flush_delete", "flush_purge", "flush_apply"} /\ core' = "idle"
             \/ core = "flush_purged" /\ core' = "purge_delete"
        <3>1. CASE Deleted
            BY <3>1 DEF Deleted, Flush, builderVars, snapVars
        <3>2. CASE LastPurgedSet
            BY <3>2 DEF LastPurgedSet, Flush, builderVars, snapVars
        <3>3. CASE Purged
            BY <3>3 DEF Purged, Flush, builderVars, snapVars
        <3>4. CASE Applied
            BY <3>4 DEF Applied, Flush, builderVars, snapVars
        <3> QED
            BY <1>2, <3>1, <3>2, <3>3, <3>4
    <2> QED
        BY <2>1 DEF IInv, RecoverableOK, LogOK, AppliedOK, Current, LogBehind,
           SnapshotOK, CoreOK, BuilderOK
<1>3. CASE SnapshotIndexSet
    <2>1. /\ mem' = mem /\ recoverable' = {mem} /\ builder = "flush_number" /\ builder' = "save"
          /\ UNCHANGED <<core, target, acked, committed, building, issued, covered, behind>>
        BY <1>3 DEF SnapshotIndexSet, Flush, coreVars, snapVars
    <2> QED
        BY <2>1 DEF IInv, RecoverableOK, LogOK, AppliedOK, Current, LogBehind,
           SnapshotOK, CoreOK, BuilderOK
<1> QED
    BY <1>1, <1>2, <1>3

LEMMA AdvanceKeeps ==
    ASSUME IInv, NEW i \in Index, Advance(i)
    PROVE  RecoverableOK' /\ CoreOK' /\ BuilderOK'
<1>9. Numbers /\ StateNumbers(mem) /\ \A s \in recoverable : StateNumbers(s)
    BY NumbersAreNat DEF IInv
<1> USE <1>9 DEF Numbers, StateNumbers
<1>1. /\ committed < i /\ acked.log[i] # 0 /\ committed' = i
      /\ UNCHANGED <<mem, recoverable, core, target, acked, builder, building, issued, covered, behind>>
    BY Zenon DEF Advance, builderVars, snapVars
<1>2. RecoverableOK'
    BY <1>1 DEF IInv, RecoverableOK, LogOK, AppliedOK, Current, LogBehind, SnapshotOK
<1>3. CoreOK' /\ BuilderOK'
    BY <1>1 DEF IInv, CoreOK, BuilderOK
<1> QED
    BY <1>2, <1>3

LEMMA ApplyKeeps ==
    ASSUME IInv, NEW i \in Index, Apply(i)
    PROVE  RecoverableOK' /\ CoreOK' /\ BuilderOK'
<1>0. /\ recoverable' = recoverable \cup {mem'}
      /\ mem'.applied = i
      /\ mem'.vote = mem.vote /\ mem'.purged = mem.purged /\ mem'.log = mem.log
      /\ mem'.snapshotIndex = mem.snapshotIndex /\ mem'.snapshot = mem.snapshot
      /\ core = "idle" /\ mem.applied < i /\ i <= committed
      /\ core' = "flush_apply"
      /\ UNCHANGED <<target, acked, committed, builder, building, issued, covered, behind>>
    BY ApplyWrites DEF IInv
<1>9. Numbers /\ StateNumbers(mem) /\ \A s \in recoverable : StateNumbers(s)
    BY NumbersAreNat DEF IInv
<1> USE <1>0, <1>9 DEF Numbers, StateNumbers
<1>1. mem \in recoverable /\ LogOK(mem) /\ AppliedOK(mem) /\ SnapshotOK(mem) /\ Current(mem)
    BY DEF IInv, RecoverableOK, CoreOK
<1>2. mem.log[i] # 0
    <2>1. committed \in Index /\ mem.log[committed] # 0
        BY <1>1 DEF AppliedOK
    <2> QED
        BY <1>1, <2>1 DEF LogOK, AppliedOK
<1>3. (Current(mem))'
    BY <1>2 DEF Current
<1>4. RecoverableOK'
    BY <1>1, <1>3 DEF IInv, RecoverableOK, LogOK, AppliedOK, Current, LogBehind, SnapshotOK
<1>5. CoreOK' /\ BuilderOK'
    BY <1>3, <1>1 DEF IInv, RecoverableOK, CoreOK, BuilderOK
<1> QED
    BY <1>4, <1>5

\* The installed snapshot is in the log, or beyond its end.
LEMMA InstallSnapshotKeeps ==
    ASSUME IInv, NEW index \in Index, InstallSnapshot(index)
    PROVE  RecoverableOK' /\ CoreOK' /\ BuilderOK'
<1>0. /\ recoverable' = recoverable \cup {mem'}
      /\ mem'.applied = index
      /\ mem'.vote = mem.vote /\ mem'.purged = mem.purged /\ mem'.log = mem.log
      /\ mem'.snapshotIndex = mem.snapshotIndex /\ mem'.snapshot = mem.snapshot
      /\ core = "idle" /\ committed < index /\ index \in Nat
      /\ core' = "flush_applied" /\ target' = index
      /\ UNCHANGED <<acked, committed, builder, building, issued, covered, behind>>
    BY InstallSnapshotWrites DEF IInv
<1>9. Numbers /\ StateNumbers(mem) /\ \A s \in recoverable : StateNumbers(s)
    BY NumbersAreNat DEF IInv
<1> USE <1>0, <1>9 DEF Numbers, StateNumbers
<1>1. /\ mem \in recoverable /\ LogOK(mem) /\ AppliedOK(mem) /\ SnapshotOK(mem)
      /\ mem.applied < index
    BY DEF IInv, RecoverableOK, CoreOK
<1>2. (Current(mem))' \/ (LogBehind(mem))'
    <2>1. CASE mem.log[index] # 0
        BY <2>1 DEF Current
    <2>2. CASE mem.log[index] = 0
        <3>1. \A i \in Index : index < i => mem.log[i] = 0
            BY <1>1, <2>2 DEF LogOK, AppliedOK
        <3> QED
            BY <2>2, <3>1 DEF LogBehind
    <2> QED
        BY <2>1, <2>2
<1>3. RecoverableOK'
    BY <1>1, <1>2 DEF IInv, RecoverableOK, LogOK, AppliedOK, Current, LogBehind, SnapshotOK
<1>4. CoreOK' /\ BuilderOK'
    BY <1>1 DEF IInv, RecoverableOK, CoreOK, BuilderOK
<1> QED
    BY <1>3, <1>4

LEMMA InstallingKeeps ==
    ASSUME IInv, LastAppliedSet \/ SaveInstalled \/ Installed
    PROVE  RecoverableOK' /\ CoreOK' /\ BuilderOK'
<1>9. Numbers /\ StateNumbers(mem) /\ \A s \in recoverable : StateNumbers(s)
    BY NumbersAreNat DEF IInv
<1> USE <1>9 DEF Numbers, StateNumbers
<1>0. /\ mem \in recoverable /\ LogOK(mem) /\ AppliedOK(mem) /\ SnapshotOK(mem)
      /\ core \in {"flush_applied", "save_installed", "flush_installed"} => target = mem.applied
    BY DEF IInv, RecoverableOK, CoreOK
<1>1. CASE LastAppliedSet
    <2>1. /\ mem' = mem /\ recoverable' = {mem} /\ core = "flush_applied" /\ core' = "save_installed"
          /\ committed' = Later(committed, target)
          /\ UNCHANGED <<target, acked, builder, building, issued, covered, behind>>
        BY <1>1 DEF LastAppliedSet, Flush, builderVars, snapVars
    <2>2. /\ target = mem.applied /\ target <= committed'
          /\ committed' = committed \/ committed' = target
        BY <1>0, <2>1 DEF Later
    <2>3. RecoverableOK'
        BY <1>0, <2>1, <2>2 DEF RecoverableOK, LogOK, AppliedOK, Current, LogBehind, SnapshotOK
    <2>4. CoreOK' /\ BuilderOK'
        BY <1>0, <2>1, <2>2 DEF IInv, RecoverableOK, CoreOK, BuilderOK
    <2> QED
        BY <2>3, <2>4
<1>2. CASE SaveInstalled
    <2>1. /\ recoverable' = recoverable \cup {mem'}
          /\ mem'.snapshot.index = target
          /\ mem'.vote = mem.vote /\ mem'.purged = mem.purged /\ mem'.log = mem.log
          /\ mem'.snapshotIndex = mem.snapshotIndex /\ mem'.applied = mem.applied
          /\ core = "save_installed"
          /\ core' = "flush_installed"
          /\ UNCHANGED <<target, acked, committed, builder, building, issued, covered, behind>>
        BY <1>2, SaveInstalledWrites DEF IInv
    <2>2. RecoverableOK'
        BY <1>0, <2>1 DEF IInv, RecoverableOK, LogOK, AppliedOK, Current, LogBehind, SnapshotOK
    <2>3. CoreOK' /\ BuilderOK'
        BY <1>0, <2>1 DEF IInv, RecoverableOK, CoreOK, BuilderOK
    <2> QED
        BY <2>2, <2>3
<1>3. CASE Installed
    <2>1. /\ mem' = mem /\ recoverable' = {mem} /\ core = "flush_installed" /\ core' = "installed"
          /\ covered' = target /\ behind' = (behind /\ mem.snapshot.index < target)
          /\ UNCHANGED <<target, acked, committed, builder, building, issued>>
        BY <1>3 DEF Installed, Flush, builderVars
    <2>2. target = mem.applied /\ (~behind => target <= mem.snapshot.index)
        BY <1>0, <2>1 DEF IInv, CoreOK
    <2>5. ~behind' => ~behind \/ ~(mem.snapshot.index < target)
        BY <2>1, Zenon
    <2>6. ~behind' => target <= mem.snapshot.index
        BY <2>2, <2>5
    <2>3. RecoverableOK'
        BY <1>0, <2>1, <2>2, <2>6 DEF RecoverableOK, LogOK, AppliedOK, Current, LogBehind, SnapshotOK
    <2>4. CoreOK' /\ BuilderOK'
        BY <1>0, <2>1, <2>2, <2>6 DEF IInv, RecoverableOK, CoreOK, BuilderOK
    <2> QED
        BY <2>3, <2>4
<1> QED
    BY <1>1, <1>2, <1>3

LEMMA BuilderKeeps ==
    ASSUME IInv, BuildSnapshot \/ NextSnapshotIndex \/ SaveSnapshot \/ SnapshotSaved
    PROVE  RecoverableOK' /\ CoreOK' /\ BuilderOK'
<1>9. Numbers /\ StateNumbers(mem) /\ \A s \in recoverable : StateNumbers(s)
    BY NumbersAreNat DEF IInv
<1> USE <1>9 DEF Numbers, StateNumbers
<1>0. mem \in recoverable /\ LogOK(mem) /\ AppliedOK(mem) /\ SnapshotOK(mem)
    BY DEF IInv, RecoverableOK
<1>1. CASE BuildSnapshot
    <2>1. /\ builder = "idle" /\ builder' = "number"
          /\ building' = [index |-> mem.applied, number |-> 0]
          /\ core # "down"
          /\ UNCHANGED <<mem, recoverable, core, target, acked, committed, issued, covered, behind>>
        BY <1>1 DEF BuildSnapshot, coreVars, snapVars
    <2>2. RecoverableOK'
        BY <2>1 DEF IInv, RecoverableOK, LogOK, AppliedOK, Current, LogBehind, SnapshotOK
    <2>3. CoreOK'
        BY <2>1 DEF IInv, CoreOK, Current
    <2>4. BuilderOK'
        BY <2>1 DEF BuilderOK
    <2> QED
        BY <2>2, <2>3, <2>4
<1>2. CASE NextSnapshotIndex
    <2>1. /\ recoverable' = recoverable \cup {mem'}
          /\ mem'.snapshotIndex = mem.snapshotIndex + 1
          /\ mem'.vote = mem.vote /\ mem'.purged = mem.purged /\ mem'.log = mem.log
          /\ mem'.snapshot = mem.snapshot /\ mem'.applied = mem.applied
          /\ building'.index = building.index /\ building'.number = mem.snapshotIndex + 1
          /\ builder = "number" /\ builder' = "flush_number"
          /\ UNCHANGED <<issued, covered, behind, core, target, acked, committed>>
        BY <1>2, NextSnapshotIndexWrites DEF IInv
    <2>2. RecoverableOK'
        BY <1>0, <2>1 DEF IInv, RecoverableOK, LogOK, AppliedOK, Current, LogBehind, SnapshotOK
    <2>3. CoreOK'
        BY <1>0, <2>1 DEF IInv, CoreOK, Current
    <2>4. BuilderOK'
        BY <1>0, <2>1 DEF IInv, BuilderOK, SnapshotOK
    <2> QED
        BY <2>2, <2>3, <2>4
<1>3. CASE SaveSnapshot
    <2>1. /\ recoverable' = recoverable \cup {mem'}
          /\ mem'.snapshot = building
          /\ mem'.vote = mem.vote /\ mem'.purged = mem.purged /\ mem'.log = mem.log
          /\ mem'.snapshotIndex = mem.snapshotIndex /\ mem'.applied = mem.applied
          /\ builder = "save" /\ builder' = "flush_save"
          /\ behind' = (behind \/ building.index < mem.snapshot.index)
          /\ UNCHANGED <<building, issued, covered, core, target, acked, committed>>
        BY <1>3, SaveSnapshotWrites DEF IInv
    <2>6. ~behind' => ~behind /\ ~(building.index < mem.snapshot.index)
        BY <2>1, Zenon
    <2>2. /\ building.index <= mem.applied
          /\ ~behind' => ~behind /\ mem.snapshot.index <= building.index
        BY <2>1, <2>6 DEF IInv, BuilderOK
    <2>3. RecoverableOK'
        BY <1>0, <2>1, <2>2
           DEF IInv, RecoverableOK, LogOK, AppliedOK, Current, LogBehind, SnapshotOK
    <2>4. CoreOK'
        BY <1>0, <2>1, <2>2 DEF IInv, CoreOK, Current
    <2>5. BuilderOK'
        BY <1>0, <2>1, <2>2 DEF IInv, BuilderOK
    <2> QED
        BY <2>3, <2>4, <2>5
<1>4. CASE SnapshotSaved
    <2>1. /\ mem' = mem /\ recoverable' = {mem} /\ builder = "flush_save" /\ builder' = "idle"
          /\ issued' = issued \cup {building.number} /\ covered' = Later(covered, building.index)
          /\ behind' = (behind /\ \/ core \in {"flush_installed", "installed"}
                                  \/ mem.snapshot.index < Later(covered, mem.purged))
          /\ UNCHANGED <<core, target, acked, committed, building>>
        BY <1>4 DEF SnapshotSaved, Flush, coreVars
    <2>2. building.index <= mem.snapshot.index /\ building.index <= mem.applied
        BY <2>1 DEF IInv, BuilderOK
    <2>3. /\ core \in {"flush_installed", "installed"} => behind' = behind
          /\ ~behind' => mem.purged <= mem.snapshot.index /\ covered' <= mem.snapshot.index
          /\ covered' <= mem.applied
        BY <1>0, <2>1, <2>2 DEF IInv, TypeOK, Later, SnapshotOK, AppliedOK
    <2>4. RecoverableOK'
        BY <1>0, <2>1, <2>2, <2>3
           DEF IInv, RecoverableOK, BuilderOK, LogOK, AppliedOK, Current, LogBehind, SnapshotOK
    <2>5. CoreOK' /\ BuilderOK'
        BY <1>0, <2>1, <2>2, <2>3 DEF IInv, CoreOK, Current, BuilderOK
    <2> QED
        BY <2>4, <2>5
<1> QED
    BY <1>1, <1>2, <1>3, <1>4

LEMMA CrashKeeps ==
    ASSUME IInv, NEW s \in recoverable, Crash(s)
    PROVE  RecoverableOK' /\ CoreOK' /\ BuilderOK'
<1>9. Numbers /\ StateNumbers(mem) /\ \A t \in recoverable : StateNumbers(t)
    BY NumbersAreNat DEF IInv
<1> USE <1>9 DEF Numbers, StateNumbers
<1>1. /\ mem' = s /\ recoverable' = {s} /\ core' = "down" /\ builder' = "idle"
      /\ covered' = s.snapshot.index
      /\ UNCHANGED <<acked, issued, committed, behind>>
    BY DEF Crash
<1>2. LogOK(s) /\ AppliedOK(s) /\ SnapshotOK(s)
    BY DEF IInv, RecoverableOK
<1>3. RecoverableOK'
    BY <1>1, <1>2 DEF RecoverableOK, LogOK, AppliedOK, Current, LogBehind, SnapshotOK
<1>4. CoreOK' /\ BuilderOK'
    BY <1>1 DEF CoreOK, BuilderOK
<1> QED
    BY <1>3, <1>4

\* The start finds a log that goes on from what is applied, or has it purged.
LEMMA RestartKeeps ==
    ASSUME IInv, NEW last \in 0 .. MaxIndex, Restart(last)
    PROVE  RecoverableOK' /\ CoreOK' /\ BuilderOK'
<1>9. Numbers /\ StateNumbers(mem) /\ \A s \in recoverable : StateNumbers(s)
    BY NumbersAreNat DEF IInv
<1> USE <1>9 DEF Numbers, StateNumbers
<1>0. mem \in recoverable /\ LogOK(mem) /\ AppliedOK(mem) /\ SnapshotOK(mem)
    BY DEF IInv, RecoverableOK
<1>1. /\ core = "down" /\ IsLastLogId(mem, last) /\ last \in Nat
      /\ committed' = Later(committed, mem.applied)
      /\ \/ mem.applied <= last /\ core' = "idle" /\ target' = target /\ behind' = behind
         \/ /\ last < mem.applied /\ core' = "installed" /\ target' = mem.applied
            /\ behind' = (behind \/ mem.snapshot.index < mem.applied)
      /\ UNCHANGED <<mem, recoverable, acked, builder, building, issued, covered>>
    BY RestartReads DEF IInv
<1>2. ASSUME mem.applied <= last PROVE Current(mem)
    <2>1. CASE last \in Index /\ mem.log[last] # 0
        <3>1. ~LogBehind(mem) \/ Current(mem)
            BY <1>2, <2>1 DEF LogBehind
        <3> QED
            BY <1>0, <3>1 DEF AppliedOK
    <2>2. CASE mem.log = NoEntries /\ last = mem.purged
        <3>1. \A i \in Index : mem.log[i] = 0
            BY <2>2 DEF NoEntries
        <3> QED
            BY <1>0, <1>2, <2>2, <3>1 DEF AppliedOK, Current
    <2> QED
        BY <1>1, <2>1, <2>2 DEF IsLastLogId
<1>3. /\ mem.applied <= committed'
      /\ committed' = committed \/ committed' = mem.applied
    BY <1>1 DEF Later
<1>8. behind => behind'
    BY <1>1, Zenon
<1>10. core' = "installed" => last < mem.applied /\ (behind' \/ ~(mem.snapshot.index < mem.applied))
    <2>1. CASE mem.applied <= last /\ core' = "idle"
        BY <2>1
    <2>2. CASE last < mem.applied /\ behind' = (behind \/ mem.snapshot.index < mem.applied)
        BY <2>2, Zenon
    <2> QED
        BY <1>1, <2>1, <2>2, Zenon
<1>4. ASSUME NEW s \in recoverable PROVE LogOK(s)' /\ SnapshotOK(s)'
    BY <1>1, <1>3, <1>8 DEF IInv, RecoverableOK, LogOK, SnapshotOK
<1>5. RecoverableOK'
    <2>1. recoverable = {mem}
        BY <1>1 DEF IInv, CoreOK
    <2> QED
        BY <1>0, <1>1, <1>3, <1>4, <2>1 DEF RecoverableOK, AppliedOK, Current, LogBehind
<1>6. CoreOK'
    <2>1. CASE mem.applied <= last /\ core' = "idle"
        BY <1>1, <1>2, <1>3, <2>1 DEF CoreOK, Current
    <2>2. CASE last < mem.applied /\ core' = "installed" /\ target' = mem.applied
        <3>1. ~behind' => target' <= mem.snapshot.index
            BY <1>10, <2>2
        <3> QED
            BY <1>1, <1>3, <2>2, <3>1 DEF CoreOK
    <2> QED
        BY <1>1, <2>1, <2>2, Zenon
<1>7. BuilderOK'
    BY <1>1 DEF IInv, BuilderOK
<1> QED
    BY <1>5, <1>6, <1>7

\* Every step of the raft core, of build_snapshot and every crash keeps IInv.
LEMMA NextIInv == IInv /\ [Next]_vars => IInv'
<1> SUFFICES ASSUME IInv, [Next]_vars
             PROVE  IInv'
    OBVIOUS
<1>1. TypeOK'
    BY NextTypeOK DEF IInv
<1>2. CASE UNCHANGED vars
    BY <1>2 DEF vars, IInv, TypeOK, RecoverableOK, LogOK, AppliedOK, Current, LogBehind,
           SnapshotOK, CoreOK, BuilderOK
<1>3. CASE Next
    <2>1. RecoverableOK' /\ CoreOK' /\ BuilderOK'
        BY <1>3, SaveVoteKeeps, AppendToLogKeeps, DeleteConflictKeeps, PurgeLogsUptoKeeps,
           PurgeDeleteKeeps, AppendedKeeps, FlushKeeps, AdvanceKeeps, ApplyKeeps,
           InstallSnapshotKeeps, InstallingKeeps, BuilderKeeps, CrashKeeps, RestartKeeps
           DEF Next
    <2> QED
        BY <1>1, <2>1 DEF IInv
<1> QED
    BY <1>2, <1>3

-----------------------------------------------------------------------------
(***************************************************************************)
(* The theorems.                                                           *)
(***************************************************************************)

\* The trees a crash may leave, and the calls in progress, satisfy IInv.
THEOREM Inductive == Spec => []IInv
BY InitIInv, NextIInv, PTL DEF Spec

\* A vote or an entry that save_vote or append_to_log has acknowledged is in
\* every state a crash may leave.
THEOREM AckedDurable == Spec => []AckedIsDurable
<1>1. IInv => AckedIsDurable
    BY DEF IInv, RecoverableOK, LogOK, AckedIsDurable
<1> QED
    BY <1>1, Inductive, PTL

\* Wherever purge_logs_upto or append_to_log is cut short, no entry is missing
\* between those that count as purged and the last one.
THEOREM NoHoles == Spec => []NoHole
<1>1. IInv => NoHole
    BY DEF IInv, RecoverableOK, LogOK, NoHole
<1> QED
    BY <1>1, Inductive, PTL

\* What last_purged_log_id says is gone has been applied, and is in the snapshot
\* that is stored unless an install was cut short or overtaken by a build.
THEOREM PurgedIsCovered == Spec => []SnapshotCoversPurged
<1>1. IInv => SnapshotCoversPurged
    BY DEF IInv, RecoverableOK, AppliedOK, SnapshotOK, SnapshotCoversPurged
<1> QED
    BY <1>1, Inductive, PTL

\* Through installs beyond the end of the log, and crashes in the middle of
\* them: a running node's get_log_state is behind neither last_purged_log_id nor
\* a committed entry, and when a crash leaves one that is, the start can tell.
THEOREM LogStateSane == Spec => []LogStateIsSane
<1>1. IInv => LogStateIsSane
    <2> SUFFICES ASSUME IInv PROVE LogStateIsSane
        OBVIOUS
    <2>0. /\ TypeOK /\ mem \in recoverable /\ \A s \in recoverable : AppliedOK(s)
          /\ \A last \in 0 .. MaxIndex : last \in Nat
        BY BoundsAssumption DEF IInv, RecoverableOK
    <2>1. ASSUME core = "idle", NEW last \in 0 .. MaxIndex, IsLastLogId(mem, last)
          PROVE  mem.purged <= last /\ committed <= last
        <3>1. Current(mem)
            BY <2>1 DEF IInv, CoreOK
        <3> QED
            BY <2>0, <2>1, <3>1, LastLogId
    <2>2. ASSUME NEW s \in recoverable, NEW last \in 0 .. MaxIndex, IsLastLogId(s, last),
                 last < Later(s.purged, committed)
          PROVE  last < s.applied /\ Later(s.purged, committed) <= s.applied
        <3>0. Numbers /\ StateNumbers(s) /\ last \in Nat
            BY <2>0, NumbersAreNat
        <3>1. ~Current(s)
            BY <2>0, <2>2, <3>0, LastLogId DEF Later, Numbers, StateNumbers
        <3>2. AppliedOK(s) /\ LogBehind(s)
            BY <2>0, <3>1 DEF AppliedOK
        <3>3. Later(s.purged, committed) <= s.applied
            BY <3>0, <3>2 DEF Later, AppliedOK, LogBehind, Numbers, StateNumbers
        <3> QED
            BY <2>2, <3>0, <3>3 DEF Later, Numbers, StateNumbers
    <2> QED
        BY <2>1, <2>2 DEF LogStateIsSane
<1> QED
    BY <1>1, Inductive, PTL

\* build_snapshot never returns a snapshot_id with a number it returned before,
\* over any number of crashes.
THEOREM FreshSnapshotNumbers == Spec => SnapshotNumbersAreFresh
<1>1. IInv /\ [Next]_vars => [SnapshotSaved => building.number \notin issued]_vars
    <2> SUFFICES ASSUME IInv, SnapshotSaved
                 PROVE  building.number \notin issued
        OBVIOUS
    <2>1. Numbers /\ builder = "flush_save"
        BY NumbersAreNat DEF IInv, SnapshotSaved
    <2> QED
        BY <2>1 DEF IInv, BuilderOK, Numbers
<1> QED
    BY <1>1, Inductive, PTL DEF Spec, SnapshotNumbersAreFresh

=============================================================================
