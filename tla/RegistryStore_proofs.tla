------------------------ MODULE RegistryStore_proofs ------------------------
(***************************************************************************)
(* Proofs of the safety properties of RegistryStore, for any nodes,        *)
(* repositories, digests, tags and transactions, and for all bounds.       *)
(***************************************************************************)
EXTENDS RegistryStore, TLAPS

-----------------------------------------------------------------------------
(***************************************************************************)
(* The inductive invariant.  It says of the uncommitted tables of a        *)
(* transaction, and of every snapshot on its way, what the properties say  *)
(* of the tables.                                                          *)
(***************************************************************************)
HistOK ==
    /\ Len(hist) = Len(log) + 1
    /\ \A i \in 1 .. Len(log) : hist[i + 1] = ApplyAction(hist[i], log[i].act)

\* i items of the log end with an entry.
AtEnd(i) == i <= Len(log) /\ (i > 0 => log[i].last)

\* Tables t are what i items make of it outside of st, and a Stored among the
\* items that panics where nothing is stale names a stale row.
Follows(t, i, st) ==
    /\ i <= Len(log)
    /\ AgreesOutside(t, hist[i + 1], st)
    /\ \A j \in 1 .. Len(log) :
          j <= i /\ PanicsOn(hist[j], log[j].act) => log[j].act.key \in st.row

SnapshotOK(s) == AtEnd(s.index) /\ Follows(s.tables, s.index, s.stale)

TreesOK(n) ==
    /\ AtEnd(lastApplied[n])
    /\ Follows(tables[n], lastApplied[n], stale[n])
    /\ snapshot[n] # NoSnapshot => SnapshotOK(snapshot[n])

ApplyOK(n) ==
    /\ pc[n] \in {"apply", "notify"} => AtEnd(batch[n].upto)
    /\ pc[n] = "apply" =>
          /\ lastApplied[n] <= pos[n] /\ pos[n] <= batch[n].upto
          /\ Follows(work[n], pos[n], stale[n])

\* The phases in the middle of install_snapshot.
Installing == {"manifests", "tags", "last_applied", "membership", "swap", "save"}

\* What the snapshot has of the keys is in the tree.
Written(tree, snap, keys, none) == \A k \in keys : snap[k] # none => tree[k] = snap[k]

InstallOK(n) ==
    /\ pc[n] \in Installing => incoming[n] # NoSnapshot /\ SnapshotOK(incoming[n])
    /\ pc[n] \in {"manifests", "tags", "last_applied"} =>
          /\ lastApplied[n] <= incoming[n].index
          /\ Written(tables[n].row, incoming[n].tables.row, KindKeys("blob"), NoRow)
    /\ pc[n] \in {"tags", "last_applied"} =>
          Written(tables[n].row, incoming[n].tables.row, KindKeys("manifest"), NoRow)
    /\ pc[n] = "last_applied" =>
          Written(tables[n].tag, incoming[n].tables.tag, TagKey, NoDigest)
    /\ pc[n] = "membership" => lastApplied[n] = incoming[n].index

NodeOK(n) == TreesOK(n) /\ ApplyOK(n) /\ InstallOK(n)

IInv == TypeOK /\ HistOK /\ \A n \in Node : NodeOK(n)

-----------------------------------------------------------------------------
(***************************************************************************)
(* What an action does to the tables.                                      *)
(***************************************************************************)
RowOrNone == Row \cup {NoRow}

\* Every arm of the match leaves a row, or none.
LEMMA RowAfterType ==
    ASSUME NEW row \in RowOrNone, NEW a \in RowAction
    PROVE  RowAfter(row, a) \in RowOrNone
<1> USE DEF RowOrNone
<1>1. CASE a \in [type : {"Stored", "Unstored"}, key : Key, location : Node]
    <2>1. CASE a.type = "Stored"
        <3>1. RowAfter(row, a) = Stored(row, a.location)
            BY <2>1 DEF RowAfter
        <3> QED
            BY <1>1, <3>1 DEF Stored, Row
    <2>2. CASE a.type = "Unstored"
        <3>1. RowAfter(row, a) = Unstored(row, a.location)
            BY <2>2 DEF RowAfter
        <3> QED
            BY <1>1, <3>1 DEF Unstored, Row
    <2> QED
        BY <1>1, <2>1, <2>2
<1>2. CASE a \in [type : {"Mounted"}, key : Key, repository : Repository, timestamp : Timestamp]
    <2>1. RowAfter(row, a) = Mounted(row, a.repository, a.timestamp)
        BY <1>2 DEF RowAfter
    <2>2. FreshRow(a.timestamp) \in Row
        BY <1>2 DEF FreshRow, Row
    <2>3. ASSUME NEW r \in Row PROVE [r EXCEPT !.repositories = @ \cup {a.repository}] \in Row
        BY <1>2 DEF Row
    <2> QED
        BY <2>1, <2>2, <2>3 DEF Mounted
<1>3. CASE a \in [type : {"Unmounted"}, key : Key, repository : Repository]
    <2>1. RowAfter(row, a) = Unmounted(row, a.repository)
        BY <1>3 DEF RowAfter
    <2> QED
        BY <2>1 DEF Unmounted, Row
<1>4. CASE a \in [type : {"Info"}, key : Key, dependencies : SUBSET Digest]
    <2>1. RowAfter(row, a) = Info(row, a.dependencies)
        BY <1>4 DEF RowAfter
    <2> QED
        BY <1>4, <2>1 DEF Info, Row
<1>5. CASE a \in [type : {"Stat"}, key : Key]
    <2>1. RowAfter(row, a) = Stat(row)
        BY <1>5 DEF RowAfter
    <2> QED
        BY <2>1 DEF Stat, Row
<1> QED
    BY <1>1, <1>2, <1>3, <1>4, <1>5 DEF RowAction

\* An action is on a row, on a tag, on the membership or on nothing.
LEMMA ActionCases ==
    ASSUME NEW a \in Action
    PROVE  \/ a \in RowAction /\ a.type \in RowActionType /\ a.key \in Key
           \/ a.type = "HashTagged" /\ <<a.repository, a.tag>> \in TagKey /\ a.digest \in Digest
           \/ a.type = "Membership" /\ a.members \in SUBSET Node
           \/ a.type \in {"Empty", "Blank"}
BY DEF Action, RowAction, OtherAction, RowActionType, TagKey

\* ApplyAction, field by field.
LEMMA ApplyActionFields ==
    ASSUME NEW t \in Tables, NEW a \in Action
    PROVE  /\ ApplyAction(t, a) \in Tables
           /\ \A k \in Key : ApplyAction(t, a).row[k] =
                 IF a.type \in RowActionType /\ a.key = k THEN RowAfter(t.row[k], a) ELSE t.row[k]
           /\ \A k \in TagKey : ApplyAction(t, a).tag[k] =
                 IF a.type = "HashTagged" /\ <<a.repository, a.tag>> = k THEN a.digest ELSE t.tag[k]
           /\ ApplyAction(t, a).membership =
                 IF a.type = "Membership" THEN a.members ELSE t.membership
<1>1. CASE a \in RowAction /\ a.type \in RowActionType /\ a.key \in Key
    <2>1. ApplyAction(t, a) = [t EXCEPT !.row[a.key] = RowAfter(@, a)]
        BY <1>1 DEF ApplyAction, RowActionType
    <2>2. t.row[a.key] \in RowOrNone
        BY <1>1 DEF Tables, RowOrNone
    <2>3. RowAfter(t.row[a.key], a) \in RowOrNone
        BY <1>1, <2>2, RowAfterType
    <2>4. a.type # "HashTagged" /\ a.type # "Membership"
        BY <1>1 DEF RowActionType
    <2> QED
        BY <1>1, <2>1, <2>3, <2>4 DEF Tables, RowOrNone
<1>2. CASE a.type = "HashTagged" /\ <<a.repository, a.tag>> \in TagKey /\ a.digest \in Digest
    <2>1. ApplyAction(t, a) = [t EXCEPT !.tag[<<a.repository, a.tag>>] = a.digest]
        BY <1>2 DEF ApplyAction, RowActionType
    <2>2. a.type \notin RowActionType
        BY <1>2 DEF RowActionType
    <2> QED
        BY <1>2, <2>1, <2>2 DEF Tables
<1>3. CASE a.type = "Membership" /\ a.members \in SUBSET Node
    <2>1. ApplyAction(t, a) = [t EXCEPT !.membership = a.members]
        BY <1>3 DEF ApplyAction, RowActionType
    <2>2. a.type \notin RowActionType
        BY <1>3 DEF RowActionType
    <2> QED
        BY <1>3, <2>1, <2>2 DEF Tables
<1>4. CASE a.type \in {"Empty", "Blank"}
    <2>1. ApplyAction(t, a) = t
        BY <1>4 DEF ApplyAction, RowActionType
    <2>2. a.type \notin RowActionType
        BY <1>4 DEF RowActionType
    <2> QED
        BY <1>4, <2>1, <2>2 DEF Tables
<1> QED
    BY <1>1, <1>2, <1>3, <1>4, ActionCases

\* Where two tables agree they still agree after the same action.
LEMMA AgreesAfter ==
    ASSUME NEW t \in Tables, NEW h \in Tables, NEW s \in Stale, NEW a \in Action,
           AgreesOutside(t, h, s)
    PROVE  AgreesOutside(ApplyAction(t, a), ApplyAction(h, a), s)
BY ApplyActionFields DEF AgreesOutside

-----------------------------------------------------------------------------
(***************************************************************************)
(* Type correctness.                                                       *)
(***************************************************************************)
LEMMA EmptyTablesType == EmptyTables \in Tables
BY DEF EmptyTables, Tables

LEMMA CommittedActionType == CommittedAction \subseteq Action
BY TransactionAssumption DEF CommittedAction

LEMMA InitTypeOK == Init => TypeOK
BY EmptyTablesType, BoundsAssumption
   DEF Init, TypeOK, Phase, NoBatch, Batch, NothingStale, Stale

\* The trees after one of the batches of install_snapshot, and what is stale.
LEMMA WriteRowsType ==
    ASSUME TypeOK, NEW n \in Node, NEW s \in Snapshot, NEW kind \in Kind, WriteRows(n, s, kind)
    PROVE  /\ tables' \in [Node -> Tables] /\ stale' \in [Node -> Stale]
           /\ \A m \in Node \ {n} : tables'[m] = tables[m] /\ stale'[m] = stale[m]
           /\ tables'[n].row = Overlay(tables[n].row, s.tables.row, KindKeys(kind), NoRow)
           /\ tables'[n].tag = tables[n].tag /\ tables'[n].membership = tables[n].membership
           /\ stale'[n].row = stale[n].row \cup Present(s.tables.row, KindKeys(kind), NoRow)
           /\ stale'[n].tag = stale[n].tag /\ stale'[n].membership = stale[n].membership
<1> DEFINE row == Overlay(tables[n].row, s.tables.row, KindKeys(kind), NoRow)
           old == stale[n].row \cup Present(s.tables.row, KindKeys(kind), NoRow)
<1>1. tables' = [tables EXCEPT ![n].row = row] /\ stale' = [stale EXCEPT ![n].row = old]
    BY Zenon DEF WriteRows
<1>2. row \in [Key -> Row \cup {NoRow}]
    BY DEF TypeOK, Tables, Snapshot, Overlay
<1>3. old \in SUBSET Key
    BY DEF TypeOK, Stale, Present, KindKeys
<1> HIDE DEF row, old
<1>4. /\ tables' \in [Node -> Tables]
      /\ \A m \in Node \ {n} : tables'[m] = tables[m]
      /\ tables'[n].row = row
      /\ tables'[n].tag = tables[n].tag /\ tables'[n].membership = tables[n].membership
    <2> DEFINE t == [tables[n] EXCEPT !.row = row]
    <2>1. /\ t \in Tables /\ t.row = row
          /\ t.tag = tables[n].tag /\ t.membership = tables[n].membership
        <3>1. tables[n] \in Tables
            BY DEF TypeOK
        <3> QED
            BY <1>2, <3>1 DEF Tables
    <2>2. tables' = [tables EXCEPT ![n] = t] /\ tables \in [Node -> Tables]
        BY <1>1, Zenon DEF TypeOK
    <2> HIDE DEF t
    <2> QED
        BY <2>1, <2>2
<1>5. /\ stale' \in [Node -> Stale]
      /\ \A m \in Node \ {n} : stale'[m] = stale[m]
      /\ stale'[n].row = old
      /\ stale'[n].tag = stale[n].tag /\ stale'[n].membership = stale[n].membership
    BY <1>1, <1>3 DEF TypeOK, Stale
<1> QED
    BY <1>4, <1>5 DEF row, old

LEMMA InstallTagsWrites ==
    ASSUME TypeOK, NEW n \in Node, incoming[n] \in Snapshot, InstallTags(n)
    PROVE  /\ tables' \in [Node -> Tables] /\ stale' \in [Node -> Stale]
           /\ \A m \in Node \ {n} : tables'[m] = tables[m] /\ stale'[m] = stale[m]
           /\ tables'[n].tag = Overlay(tables[n].tag, incoming[n].tables.tag, TagKey, NoDigest)
           /\ tables'[n].row = tables[n].row /\ tables'[n].membership = tables[n].membership
           /\ stale'[n].tag = stale[n].tag \cup Present(incoming[n].tables.tag, TagKey, NoDigest)
           /\ stale'[n].row = stale[n].row /\ stale'[n].membership = stale[n].membership
<1> DEFINE tag == Overlay(tables[n].tag, incoming[n].tables.tag, TagKey, NoDigest)
           old == stale[n].tag \cup Present(incoming[n].tables.tag, TagKey, NoDigest)
<1>1. tables' = [tables EXCEPT ![n].tag = tag] /\ stale' = [stale EXCEPT ![n].tag = old]
    BY Zenon DEF InstallTags
<1>2. tag \in [TagKey -> Digest \cup {NoDigest}]
    BY DEF TypeOK, Tables, Snapshot, Overlay
<1>3. old \in SUBSET TagKey
    BY DEF TypeOK, Stale, Present
<1> HIDE DEF tag, old
<1>4. /\ tables' \in [Node -> Tables]
      /\ \A m \in Node \ {n} : tables'[m] = tables[m]
      /\ tables'[n].tag = tag
      /\ tables'[n].row = tables[n].row /\ tables'[n].membership = tables[n].membership
    <2> DEFINE t == [tables[n] EXCEPT !.tag = tag]
    <2>1. /\ t \in Tables /\ t.tag = tag
          /\ t.row = tables[n].row /\ t.membership = tables[n].membership
        <3>1. tables[n] \in Tables
            BY DEF TypeOK
        <3> QED
            BY <1>2, <3>1 DEF Tables
    <2>2. tables' = [tables EXCEPT ![n] = t] /\ tables \in [Node -> Tables]
        BY <1>1, Zenon DEF TypeOK
    <2> HIDE DEF t
    <2> QED
        BY <2>1, <2>2
<1>5. /\ stale' \in [Node -> Stale]
      /\ \A m \in Node \ {n} : stale'[m] = stale[m]
      /\ stale'[n].tag = old
      /\ stale'[n].row = stale[n].row /\ stale'[n].membership = stale[n].membership
    BY <1>1, <1>3 DEF TypeOK, Stale
<1> QED
    BY <1>4, <1>5 DEF tag, old

\* Init, and a node whose variables a step leaves alone.
LEMMA InitIInv == Init => IInv
<1> SUFFICES ASSUME Init PROVE IInv
    OBVIOUS
<1>1. TypeOK
    BY InitTypeOK
<1>2. log = <<>> /\ hist = <<EmptyTables>> /\ Len(log) = 0 /\ Len(hist) = 1
    BY DEF Init
<1>3. HistOK
    BY <1>2 DEF HistOK
<1>4. ASSUME NEW n \in Node PROVE NodeOK(n)
    <2>1. /\ lastApplied[n] = 0 /\ tables[n] = EmptyTables /\ hist[1] = EmptyTables
          /\ pc[n] = "idle" /\ snapshot[n] = NoSnapshot
        BY <1>2 DEF Init
    <2>2. AgreesOutside(tables[n], hist[1], stale[n])
        BY <2>1 DEF AgreesOutside
    <2> QED
        BY <1>2, <2>1, <2>2 DEF NodeOK, TreesOK, ApplyOK, InstallOK, AtEnd, Follows, Installing
<1> QED
    BY <1>1, <1>3, <1>4 DEF IInv

LEMMA OthersKeep ==
    ASSUME NEW m \in Node, NodeOK(m), UNCHANGED <<log, hist>>,
           pc'[m] = pc[m], tables'[m] = tables[m], lastApplied'[m] = lastApplied[m],
           snapshot'[m] = snapshot[m], batch'[m] = batch[m], pos'[m] = pos[m],
           work'[m] = work[m], incoming'[m] = incoming[m], stale'[m] = stale[m]
    PROVE  NodeOK(m)'
<1>1. (AtEnd(lastApplied[m]) /\ Follows(tables[m], lastApplied[m], stale[m]))'
    BY DEF NodeOK, TreesOK, AtEnd, Follows, AgreesOutside
<1>2. (snapshot[m] # NoSnapshot => SnapshotOK(snapshot[m]))'
    BY DEF NodeOK, TreesOK, SnapshotOK, AtEnd, Follows, AgreesOutside
<1>3. ApplyOK(m)'
    BY DEF NodeOK, ApplyOK, AtEnd, Follows, AgreesOutside
<1>4. (pc[m] \in Installing => incoming[m] # NoSnapshot /\ SnapshotOK(incoming[m]))'
    BY DEF NodeOK, InstallOK, Installing, SnapshotOK, AtEnd, Follows, AgreesOutside
<1>5. InstallOK(m)'
    BY <1>4 DEF NodeOK, InstallOK, Written
<1> QED
    BY <1>1, <1>2, <1>3, <1>5 DEF NodeOK, TreesOK

\* A longer log does not change what the first i items make.
LEMMA CommitKeeps ==
    ASSUME IInv, NEW a \in CommittedAction, NEW last \in BOOLEAN, Commit(a, last)
    PROVE  IInv'
<1>1. /\ log \in Seq(Item) /\ hist \in Seq(Tables) /\ entry \in Seq(Action)
      /\ Len(hist) = Len(log) + 1 /\ Len(log) \in Nat
    BY DEF IInv, TypeOK, HistOK
<1>2. a \in Action /\ [act |-> a, last |-> last] \in Item
    BY CommittedActionType DEF Item
<1>3. hist[Len(hist)] \in Tables
    BY <1>1
<1>4. ApplyAction(hist[Len(hist)], a) \in Tables
    BY <1>2, <1>3, ApplyActionFields
<1>5. /\ log' = Append(log, [act |-> a, last |-> last])
      /\ entry' \in {<<>>, Append(entry, a)}
      /\ hist' = Append(hist, ApplyAction(hist[Len(hist)], a))
      /\ UNCHANGED <<pc, tables, lastApplied, snapshot, batch, pos, work, incoming, pending,
                     stale, crashes>>
    BY DEF Commit
<1>6. log' \in Seq(Item) /\ hist' \in Seq(Tables) /\ entry' \in Seq(Action)
    <2>1. log' \in Seq(Item)
        BY <1>1, <1>2, <1>5
    <2>2. hist' \in Seq(Tables)
        BY <1>1, <1>4, <1>5
    <2>3. entry' \in Seq(Action)
        <3>1. <<>> \in Seq(Action) /\ Append(entry, a) \in Seq(Action)
            BY <1>1, <1>2
        <3> QED
            BY <1>5, <3>1
    <2> QED
        BY <2>1, <2>2, <2>3
<1>7. TypeOK'
    BY <1>5, <1>6 DEF IInv, TypeOK
<1>8. /\ Len(log') = Len(log) + 1 /\ Len(hist') = Len(hist) + 1
      /\ \A i \in 1 .. Len(log) : log'[i] = log[i]
      /\ \A i \in 1 .. Len(hist) : hist'[i] = hist[i]
      /\ log'[Len(log) + 1].act = a
      /\ hist'[Len(hist) + 1] = ApplyAction(hist[Len(hist)], a)
    BY <1>1, <1>5
<1>9. HistOK'
    BY <1>1, <1>8 DEF IInv, HistOK
<1>10. ASSUME NEW t, NEW i \in Nat, NEW st, Follows(t, i, st) PROVE Follows(t, i, st)'
    <2>1. i <= Len(log) /\ i + 1 \in 1 .. Len(hist)
        BY <1>1, <1>10 DEF Follows
    <2>2. i <= Len(log') /\ hist'[i + 1] = hist[i + 1]
        BY <1>1, <1>8, <2>1
    <2>3. ASSUME NEW j \in 1 .. Len(log'), j <= i
          PROVE  j \in 1 .. Len(log) /\ log'[j] = log[j] /\ hist'[j] = hist[j]
        BY <1>1, <1>8, <2>1, <2>3
    <2>4. AgreesOutside(t, hist'[i + 1], st)
        BY <1>10, <2>2 DEF Follows
    <2>5. \A j \in 1 .. Len(log') :
             j <= i /\ PanicsOn(hist'[j], log'[j].act) => log'[j].act.key \in st.row
        BY <1>10, <2>3 DEF Follows
    <2> QED
        BY <2>2, <2>4, <2>5 DEF Follows, AgreesOutside
<1>11. ASSUME NEW i \in Nat, AtEnd(i) PROVE AtEnd(i)'
    BY <1>1, <1>8, <1>11 DEF AtEnd
<1>12. ASSUME NEW n \in Node PROVE NodeOK(n)'
    <2>1. /\ NodeOK(n) /\ lastApplied[n] \in Nat /\ pos[n] \in Nat /\ batch[n].upto \in Nat
          /\ snapshot[n] # NoSnapshot => snapshot[n].index \in Nat
          /\ incoming[n] # NoSnapshot => incoming[n].index \in Nat
        BY DEF IInv, TypeOK, Batch, Snapshot
    <2>2. ASSUME NEW s, s.index \in Nat, SnapshotOK(s) PROVE SnapshotOK(s)'
        BY <1>10, <1>11, <2>2 DEF SnapshotOK
    <2>3. TreesOK(n)'
        BY <1>5, <1>10, <1>11, <2>1, <2>2 DEF NodeOK, TreesOK
    <2>4. ApplyOK(n)'
        BY <1>5, <1>10, <1>11, <2>1 DEF NodeOK, ApplyOK
    <2>5. InstallOK(n)'
        BY <1>5, <2>1, <2>2 DEF NodeOK, InstallOK, Written
    <2> QED
        BY <2>3, <2>4, <2>5 DEF NodeOK
<1> QED
    BY <1>7, <1>9, <1>12 DEF IInv

-----------------------------------------------------------------------------
(***************************************************************************)
(* The steps of a node.  Of each, its effect on the node's own variables   *)
(* is enough.                                                              *)
(***************************************************************************)

\* The types of one node's variables.
LEMMA NodeTypes ==
    ASSUME TypeOK, NEW n \in Node
    PROVE  /\ tables[n] \in Tables /\ work[n] \in Tables /\ stale[n] \in Stale
           /\ lastApplied[n] \in Nat /\ pos[n] \in Nat /\ batch[n].upto \in Nat
           /\ snapshot[n] # NoSnapshot => snapshot[n] \in Snapshot
           /\ incoming[n] # NoSnapshot => incoming[n] \in Snapshot
BY DEF TypeOK, Batch

\* Cut only ever says more of what is torn.
LEMMA CutType ==
    ASSUME TypeOK, NEW n \in Node
    PROVE  /\ Cut(n) \in Stale
           /\ Cut(n).row = stale[n].row /\ Cut(n).tag = stale[n].tag
           /\ Cut(n).membership = stale[n].membership
           /\ Cut(n).torn = (\/ stale[n].torn
                            \/ pc[n] \in {"manifests", "tags", "last_applied", "membership"})
<1>1. stale[n] \in Stale
    BY DEF TypeOK
<1> QED
    BY <1>1 DEF Cut, Stale

\* A step of n leaves the variables of the other nodes alone.
OthersUnchanged(n) ==
    \A m \in Node \ {n} :
        /\ pc'[m] = pc[m] /\ tables'[m] = tables[m] /\ lastApplied'[m] = lastApplied[m]
        /\ snapshot'[m] = snapshot[m] /\ batch'[m] = batch[m] /\ pos'[m] = pos[m]
        /\ work'[m] = work[m] /\ incoming'[m] = incoming[m] /\ stale'[m] = stale[m]

LEMMA NodeStepKeeps ==
    ASSUME IInv, NEW n \in Node, UNCHANGED <<log, hist>>, OthersUnchanged(n), TypeOK', NodeOK(n)'
    PROVE  IInv'
<1>1. HistOK'
    BY DEF IInv, HistOK
<1>2. ASSUME NEW m \in Node, m # n PROVE NodeOK(m)'
    BY <1>2, OthersKeep DEF IInv, OthersUnchanged
<1> QED
    BY <1>1, <1>2 DEF IInv

LEMMA BeginApplyKeeps ==
    ASSUME IInv, NEW n \in Node, NEW upto \in 1 .. MaxLog, BeginApply(n, upto)
    PROVE  IInv'
<1>1. TypeOK /\ HistOK /\ NodeOK(n)
    BY DEF IInv
<1>2. /\ pc[n] = "idle" /\ lastApplied[n] < upto /\ upto <= Len(log) /\ log[upto].last
      /\ pc' = [pc EXCEPT ![n] = "apply"]
      /\ batch' = [batch EXCEPT ![n] = [from |-> lastApplied[n], upto |-> upto]]
      /\ pos' = [pos EXCEPT ![n] = lastApplied[n]]
      /\ work' = [work EXCEPT ![n] = tables[n]]
      /\ UNCHANGED <<log, entry, hist, tables, lastApplied, snapshot, incoming, pending, stale,
                     crashes>>
    BY DEF BeginApply
<1>3. upto \in Nat
    BY BoundsAssumption
<1>4. TypeOK'
    BY <1>1, <1>2, <1>3 DEF TypeOK, Phase, Batch
<1>5. OthersUnchanged(n)
    BY <1>1, <1>2 DEF TypeOK, OthersUnchanged
<1>6. NodeOK(n)'
    <2>1. /\ pc'[n] = "apply" /\ batch'[n].upto = upto /\ pos'[n] = lastApplied[n]
          /\ work'[n] = tables[n] /\ lastApplied[n] \in Nat
        BY <1>1, <1>2 DEF TypeOK
    <2>2. TreesOK(n)'
        BY <1>1, <1>2 DEF NodeOK, TreesOK, SnapshotOK, AtEnd, Follows, AgreesOutside
    <2>3. ApplyOK(n)'
        BY <1>1, <1>2, <1>3, <2>1 DEF NodeOK, TreesOK, ApplyOK, AtEnd, Follows, AgreesOutside
    <2>4. InstallOK(n)'
        BY <2>1 DEF InstallOK, Installing
    <2> QED
        BY <2>2, <2>3, <2>4 DEF NodeOK
<1> QED
    BY <1>2, <1>4, <1>5, <1>6, NodeStepKeeps

LEMMA ApplyOneKeeps ==
    ASSUME IInv, NEW n \in Node, ApplyOne(n)
    PROVE  IInv'
<1> DEFINE a == log[pos[n] + 1].act
           w == ApplyAction(work[n], a)
<1>1. TypeOK /\ HistOK /\ NodeOK(n)
    BY DEF IInv
<1>2. /\ pc[n] = "apply" /\ pos[n] < batch[n].upto
      /\ ~PanicsOn(work[n], a)
      /\ work' = [work EXCEPT ![n] = w]
      /\ pos' = [pos EXCEPT ![n] = pos[n] + 1]
      /\ UNCHANGED <<log, entry, hist, pc, tables, lastApplied, snapshot, batch, incoming,
                     pending, stale, crashes>>
    BY DEF ApplyOne
<1>3. /\ work[n] \in Tables /\ stale[n] \in Stale /\ pos[n] \in Nat /\ lastApplied[n] \in Nat
      /\ batch[n].upto \in Nat
    BY <1>1, NodeTypes
<1>4. /\ lastApplied[n] <= pos[n] /\ batch[n].upto <= Len(log)
      /\ Follows(work[n], pos[n], stale[n]) /\ AtEnd(batch[n].upto)
    BY <1>1, <1>2 DEF NodeOK, ApplyOK, AtEnd
<1>5. Len(log) \in Nat /\ pos[n] + 1 \in 1 .. Len(log) /\ log[pos[n] + 1] \in Item
    BY <1>1, <1>2, <1>3, <1>4 DEF TypeOK
<1>6. a \in Action
    BY <1>5 DEF Item
<1>7. hist[pos[n] + 1] \in Tables /\ hist[pos[n] + 2] = ApplyAction(hist[pos[n] + 1], a)
    BY <1>1, <1>3, <1>5 DEF TypeOK, HistOK
<1> HIDE DEF a
<1>8. w \in Tables
    BY <1>3, <1>6, ApplyActionFields
<1>9. AgreesOutside(w, hist[pos[n] + 2], stale[n])
    BY <1>3, <1>4, <1>6, <1>7, AgreesAfter DEF Follows
<1>10. PanicsOn(hist[pos[n] + 1], a) => a.key \in stale[n].row
    <2>1. SUFFICES ASSUME a.type = "Stored", hist[pos[n] + 1].row[a.key] = NoRow,
                          a.key \notin stale[n].row
                   PROVE  FALSE
        BY DEF PanicsOn, Panics
    <2>2. a.key \in Key /\ a.type \in RowActionType
        BY <1>6, <2>1, ActionCases DEF RowActionType
    <2>3. work[n].row[a.key] = NoRow
        BY <1>4, <2>1, <2>2 DEF Follows, AgreesOutside
    <2> QED
        BY <1>2, <2>1, <2>2, <2>3 DEF PanicsOn, Panics
<1>11. Follows(w, pos[n] + 1, stale[n])
    <2>1. \A j \in 1 .. Len(log) : j <= pos[n] + 1 => j <= pos[n] \/ j = pos[n] + 1
        BY <1>3, <1>5
    <2> QED
        BY <1>3, <1>4, <1>5, <1>9, <1>10, <2>1 DEF Follows, a
<1> HIDE DEF w
<1>12. TypeOK'
    BY <1>1, <1>2, <1>3, <1>8 DEF TypeOK
<1>13. OthersUnchanged(n)
    BY <1>1, <1>2 DEF TypeOK, OthersUnchanged
<1>14. NodeOK(n)'
    <2>1. work'[n] = w /\ pos'[n] = pos[n] + 1
        BY <1>1, <1>2 DEF TypeOK
    <2>2. TreesOK(n)'
        BY <1>1, <1>2 DEF NodeOK, TreesOK, SnapshotOK, AtEnd, Follows, AgreesOutside
    <2>3. ApplyOK(n)'
        BY <1>2, <1>3, <1>4, <1>11, <2>1 DEF ApplyOK, AtEnd, Follows, AgreesOutside
    <2>4. InstallOK(n)'
        BY <1>2 DEF InstallOK, Installing
    <2> QED
        BY <2>2, <2>3, <2>4 DEF NodeOK
<1> QED
    BY <1>2, <1>12, <1>13, <1>14, NodeStepKeeps

\* The transaction commits: what holds of its tables holds of the trees.
LEMMA CommitApplyKeeps ==
    ASSUME IInv, NEW n \in Node, CommitApply(n)
    PROVE  IInv'
<1>1. TypeOK /\ NodeOK(n)
    BY DEF IInv
<1>2. /\ pc[n] = "apply" /\ pos[n] = batch[n].upto
      /\ pc' = [pc EXCEPT ![n] = "notify"]
      /\ tables' = [tables EXCEPT ![n] = work[n]]
      /\ lastApplied' = [lastApplied EXCEPT ![n] = batch[n].upto]
      /\ pos' = [pos EXCEPT ![n] = 0]
      /\ work' = [work EXCEPT ![n] = EmptyTables]
      /\ UNCHANGED <<log, entry, hist, snapshot, batch, incoming, pending, stale, crashes>>
    BY DEF CommitApply
<1>3. work[n] \in Tables /\ batch[n].upto \in Nat
    BY <1>1, NodeTypes
<1>4. TypeOK'
    BY <1>1, <1>2, <1>3, EmptyTablesType DEF TypeOK, Phase
<1>5. OthersUnchanged(n)
    BY <1>1, <1>2 DEF TypeOK, OthersUnchanged
<1>6. pc'[n] = "notify" /\ tables'[n] = work[n] /\ lastApplied'[n] = batch[n].upto
    BY <1>1, <1>2 DEF TypeOK
<1>7. TreesOK(n)'
    <2>1. AtEnd(lastApplied[n])'
        BY <1>1, <1>2, <1>6 DEF NodeOK, ApplyOK, AtEnd
    <2>2. Follows(tables[n], lastApplied[n], stale[n])'
        BY <1>1, <1>2, <1>6 DEF NodeOK, ApplyOK, Follows, AgreesOutside
    <2>3. (snapshot[n] # NoSnapshot => SnapshotOK(snapshot[n]))'
        BY <1>1, <1>2 DEF NodeOK, TreesOK, SnapshotOK, AtEnd, Follows, AgreesOutside
    <2> QED
        BY <2>1, <2>2, <2>3 DEF TreesOK
<1>8. ApplyOK(n)' /\ InstallOK(n)'
    BY <1>1, <1>2, <1>6 DEF NodeOK, ApplyOK, InstallOK, Installing, AtEnd
<1> QED
    BY <1>2, <1>4, <1>5, <1>7, <1>8, NodeStepKeeps DEF NodeOK

LEMMA MovedKeys ==
    ASSUME TypeOK, NEW from \in Nat, NEW upto \in Nat, upto <= Len(log)
    PROVE  Moved(from, upto) \subseteq Key
<1> SUFFICES ASSUME NEW j \in from + 1 .. upto, log[j].act.type \in {"Stored", "Unstored"}
             PROVE  log[j].act.key \in Key
    BY DEF Moved, MovedBy
<1>1. log[j] \in Item
    BY DEF TypeOK
<1>2. log[j].act \in Action
    BY <1>1 DEF Item
<1> QED
    BY <1>2, ActionCases

\* The steps that end a call, or the process, and leave the trees alone.
LEMMA QuietKeeps ==
    ASSUME IInv, NEW n \in Node,
           ApplyPanics(n) \/ Notify(n) \/ NotifyPanics(n) \/ Crash(n) \/ Start(n)
    PROVE  IInv'
<1>1. TypeOK /\ NodeOK(n)
    BY DEF IInv
<1>2. /\ pc'[n] \in {"idle", "panicked", "down"}
      /\ UNCHANGED <<log, hist, tables, lastApplied, snapshot>>
      /\ stale'[n].row = stale[n].row /\ stale'[n].tag = stale[n].tag
      /\ stale'[n].membership = stale[n].membership
      /\ OthersUnchanged(n)
      /\ TypeOK'
    <2>1. CASE ApplyPanics(n)
        BY <1>1, <2>1 DEF ApplyPanics, OthersUnchanged, TypeOK, Phase
    <2>2. CASE Notify(n)
        <3>1. /\ pc' = [pc EXCEPT ![n] = "idle"] /\ batch' = [batch EXCEPT ![n] = NoBatch]
              /\ pending' \in [Node -> SUBSET Key]
              /\ UNCHANGED <<log, entry, hist, tables, lastApplied, snapshot, pos, work,
                             incoming, stale, crashes>>
            <4> DEFINE now == {k \in Moved(batch[n].from, batch[n].upto) : tables[n].row[k] # NoRow}
                       new == (pending[n] \ now) \cup {k \in now : Wanted(n, tables[n].row[k])}
            <4>1. pending' = [pending EXCEPT ![n] = new]
                BY <2>2, Zenon DEF Notify
            <4>2. new \in SUBSET Key
                <5>1. AtEnd(batch[n].upto) /\ batch[n] \in Batch
                    BY <1>1, <2>2 DEF NodeOK, ApplyOK, Notify, TypeOK
                <5>2. Moved(batch[n].from, batch[n].upto) \subseteq Key
                    BY <1>1, <5>1, MovedKeys DEF AtEnd, Batch
                <5>3. pending[n] \in SUBSET Key
                    BY <1>1 DEF TypeOK
                <5> QED
                    BY <5>2, <5>3
            <4> HIDE DEF new
            <4> QED
                BY <1>1, <2>2, <4>1, <4>2 DEF TypeOK, Notify
        <3> QED
            BY <1>1, <3>1 DEF OthersUnchanged, TypeOK, Phase, NoBatch, Batch
    <2>3. CASE NotifyPanics(n)
        BY <1>1, <2>3 DEF NotifyPanics, OthersUnchanged, TypeOK, Phase
    <2>4. CASE Crash(n)
        <3>1. stale' = [stale EXCEPT ![n] = Cut(n)]
            BY <2>4 DEF Crash
        <3>2. /\ stale' \in [Node -> Stale] /\ stale'[n] = Cut(n)
              /\ \A m \in Node \ {n} : stale'[m] = stale[m]
            BY <1>1, <3>1, CutType DEF TypeOK
        <3> QED
            BY <1>1, <2>4, <3>2, CutType, EmptyTablesType, BoundsAssumption
               DEF Crash, OthersUnchanged, TypeOK, Phase, NoBatch, Batch
    <2>5. CASE Start(n)
        BY <1>1, <2>5 DEF Start, OthersUnchanged, TypeOK, Phase, WantedKeys
    <2> QED
        BY <2>1, <2>2, <2>3, <2>4, <2>5
<1>3. TreesOK(n)'
    BY <1>1, <1>2 DEF NodeOK, TreesOK, SnapshotOK, AtEnd, Follows, AgreesOutside
<1>4. ApplyOK(n)' /\ InstallOK(n)'
    BY <1>2 DEF ApplyOK, InstallOK, Installing
<1> QED
    BY <1>2, <1>3, <1>4, NodeStepKeeps DEF NodeOK

LEMMA BuildSnapshotKeeps ==
    ASSUME IInv, NEW n \in Node, BuildSnapshot(n)
    PROVE  IInv'
<1> DEFINE s == [index |-> lastApplied[n], tables |-> tables[n], stale |-> Cut(n)]
<1>1. TypeOK /\ NodeOK(n)
    BY DEF IInv
<1>2. /\ snapshot' = [snapshot EXCEPT ![n] = s]
      /\ UNCHANGED <<log, entry, hist, pc, tables, lastApplied, batch, pos, work, incoming,
                     pending, stale, crashes>>
    BY DEF BuildSnapshot, SnapshotOf
<1>3. s \in Snapshot /\ SnapshotOK(s)
    BY <1>1, NodeTypes, CutType
       DEF Snapshot, SnapshotOK, NodeOK, TreesOK, Follows, AgreesOutside
<1> HIDE DEF s
<1>4. TypeOK'
    BY <1>1, <1>2, <1>3 DEF TypeOK
<1>5. OthersUnchanged(n) /\ snapshot'[n] = s
    BY <1>1, <1>2 DEF TypeOK, OthersUnchanged
<1>6. TreesOK(n)' /\ ApplyOK(n)'
    <2>1. (AtEnd(lastApplied[n]) /\ Follows(tables[n], lastApplied[n], stale[n]))'
        BY <1>1, <1>2 DEF NodeOK, TreesOK, AtEnd, Follows, AgreesOutside
    <2>2. SnapshotOK(snapshot[n])'
        BY <1>2, <1>3, <1>5 DEF SnapshotOK, AtEnd, Follows, AgreesOutside
    <2>3. ApplyOK(n)'
        BY <1>1, <1>2 DEF NodeOK, ApplyOK, AtEnd, Follows, AgreesOutside
    <2> QED
        BY <2>1, <2>2, <2>3 DEF TreesOK
<1>7. InstallOK(n)'
    BY <1>1, <1>2 DEF NodeOK, InstallOK, SnapshotOK, AtEnd, Follows, AgreesOutside, Written
<1> QED
    BY <1>2, <1>4, <1>5, <1>6, <1>7, NodeStepKeeps DEF NodeOK

-----------------------------------------------------------------------------
(***************************************************************************)
(* install_snapshot.  Until SetLastApplied every row it writes is stale;   *)
(* after it, the rows of the snapshot are what the log says wherever they  *)
(* were for the node that built it.                                        *)
(***************************************************************************)

\* What a batch of inserts makes of a tree: the snapshot's rows are in, and
\* what another batch put there is not disturbed.
LEMMA OverlayWrites ==
    ASSUME NEW tree, NEW snap, NEW keys, NEW none, keys \subseteq DOMAIN tree
    PROVE  /\ Written(Overlay(tree, snap, keys, none), snap, keys, none)
           /\ \A other \in SUBSET DOMAIN tree :
                 Written(tree, snap, other, none)
                     => Written(Overlay(tree, snap, keys, none), snap, other, none)
           /\ \A k \in (DOMAIN tree) \ Present(snap, keys, none) :
                 Overlay(tree, snap, keys, none)[k] = tree[k]
BY DEF Overlay, Written, Present

\* What InstallBlobs and InstallManifests have in common.
InstallsRows(n, s, kind) ==
    /\ WriteRows(n, s, kind) /\ SnapshotOK(s)
    /\ incoming' = [incoming EXCEPT ![n] = s]
    /\ UNCHANGED <<log, entry, hist, lastApplied, snapshot, batch, pos, work, pending, crashes>>
    /\ lastApplied[n] <= s.index
    /\ pc' = [pc EXCEPT ![n] = IF kind = "blob" THEN "manifests" ELSE "tags"]
    /\ kind = "manifest" => Written(tables[n].row, s.tables.row, KindKeys("blob"), NoRow)

LEMMA InstallBlobsInstalls ==
    ASSUME IInv, NEW n \in Node, NEW m \in Node, InstallBlobs(n, m)
    PROVE  snapshot[m] \in Snapshot /\ InstallsRows(n, snapshot[m], "blob")
<1>1. TypeOK /\ TreesOK(m) /\ snapshot[m] # NoSnapshot /\ snapshot[m].index > lastApplied[n]
    BY DEF IInv, NodeOK, InstallBlobs
<1>2. snapshot[m] \in Snapshot /\ SnapshotOK(snapshot[m])
    BY <1>1, NodeTypes DEF TreesOK
<1>3. lastApplied[n] <= snapshot[m].index
    BY <1>1, <1>2, NodeTypes DEF Snapshot
<1> QED
    BY <1>2, <1>3 DEF InstallBlobs, InstallsRows

LEMMA InstallManifestsInstalls ==
    ASSUME IInv, NEW n \in Node, InstallManifests(n)
    PROVE  incoming[n] \in Snapshot /\ InstallsRows(n, incoming[n], "manifest")
<1>1. TypeOK /\ InstallOK(n) /\ pc[n] = "manifests"
    BY DEF IInv, NodeOK, InstallManifests
<1>2. /\ incoming[n] \in Snapshot /\ SnapshotOK(incoming[n]) /\ lastApplied[n] <= incoming[n].index
      /\ Written(tables[n].row, incoming[n].tables.row, KindKeys("blob"), NoRow)
    BY <1>1, NodeTypes DEF InstallOK, Installing
<1>3. incoming' = [incoming EXCEPT ![n] = incoming[n]]
    BY <1>1 DEF InstallManifests, TypeOK
<1> QED
    BY <1>2, <1>3 DEF InstallManifests, InstallsRows

LEMMA InstallsRowsKeeps ==
    ASSUME IInv, NEW n \in Node, NEW s \in Snapshot, NEW kind \in Kind, InstallsRows(n, s, kind)
    PROVE  IInv'
<1>1. TypeOK /\ NodeOK(n)
    BY DEF IInv
<1>2. /\ WriteRows(n, s, kind) /\ SnapshotOK(s) /\ lastApplied[n] <= s.index
      /\ incoming' = [incoming EXCEPT ![n] = s]
      /\ UNCHANGED <<log, entry, hist, lastApplied, snapshot, batch, pos, work, pending, crashes>>
      /\ pc' = [pc EXCEPT ![n] = IF kind = "blob" THEN "manifests" ELSE "tags"]
      /\ kind = "manifest" => Written(tables[n].row, s.tables.row, KindKeys("blob"), NoRow)
    BY DEF InstallsRows
<1>3. /\ tables' \in [Node -> Tables] /\ stale' \in [Node -> Stale]
      /\ \A m \in Node \ {n} : tables'[m] = tables[m] /\ stale'[m] = stale[m]
      /\ tables'[n].row = Overlay(tables[n].row, s.tables.row, KindKeys(kind), NoRow)
      /\ tables'[n].tag = tables[n].tag /\ tables'[n].membership = tables[n].membership
      /\ stale'[n].row = stale[n].row \cup Present(s.tables.row, KindKeys(kind), NoRow)
      /\ stale'[n].tag = stale[n].tag /\ stale'[n].membership = stale[n].membership
    BY <1>1, <1>2, WriteRowsType
<1>4. TypeOK'
    BY <1>1, <1>2, <1>3 DEF TypeOK, Phase
<1>5. /\ OthersUnchanged(n) /\ incoming'[n] = s
      /\ pc'[n] = IF kind = "blob" THEN "manifests" ELSE "tags"
    BY <1>1, <1>2, <1>3 DEF TypeOK, OthersUnchanged
<1>6. DOMAIN tables[n].row = Key /\ KindKeys(kind) \subseteq Key /\ KindKeys("blob") \subseteq Key
    BY <1>1, NodeTypes DEF Tables, KindKeys
<1>7. /\ Written(tables'[n].row, s.tables.row, KindKeys(kind), NoRow)
      /\ \A k \in Key \ Present(s.tables.row, KindKeys(kind), NoRow) :
            tables'[n].row[k] = tables[n].row[k]
      /\ kind = "manifest" => Written(tables'[n].row, s.tables.row, KindKeys("blob"), NoRow)
    BY <1>2, <1>3, <1>6, OverlayWrites
<1>8. TreesOK(n)'
    <2>1. Follows(tables[n], lastApplied[n], stale[n])
        BY <1>1 DEF NodeOK, TreesOK
    <2>2. AgreesOutside(tables'[n], hist[lastApplied[n] + 1], stale'[n])
        BY <1>3, <1>7, <2>1 DEF Follows, AgreesOutside
    <2>3. Follows(tables[n], lastApplied[n], stale[n])'
        BY <1>2, <1>3, <2>1, <2>2 DEF Follows, AgreesOutside
    <2> QED
        BY <1>1, <1>2, <2>3 DEF NodeOK, TreesOK, SnapshotOK, AtEnd, Follows, AgreesOutside
<1>9. incoming'[n] # NoSnapshot /\ SnapshotOK(incoming[n])'
    BY <1>2, <1>5, NoSnapshotAssumption DEF SnapshotOK, AtEnd, Follows, AgreesOutside
<1>10. InstallOK(n)'
    <2>1. CASE kind = "blob"
        BY <1>2, <1>5, <1>7, <1>9, <2>1 DEF InstallOK, Installing
    <2>2. CASE kind = "manifest"
        BY <1>2, <1>5, <1>7, <1>9, <2>2 DEF InstallOK, Installing
    <2> QED
        BY <2>1, <2>2 DEF Kind
<1>11. ApplyOK(n)'
    BY <1>2, <1>5 DEF ApplyOK
<1> QED
    BY <1>2, <1>4, <1>5, <1>8, <1>10, <1>11, NodeStepKeeps DEF NodeOK

LEMMA InstallTagsKeeps ==
    ASSUME IInv, NEW n \in Node, InstallTags(n)
    PROVE  IInv'
<1>1. TypeOK /\ NodeOK(n)
    BY DEF IInv
<1>2. /\ pc[n] = "tags" /\ pc' = [pc EXCEPT ![n] = "last_applied"]
      /\ UNCHANGED <<log, entry, hist, lastApplied, snapshot, batch, pos, work, incoming, pending,
                     crashes>>
    BY DEF InstallTags
<1>3. incoming[n] \in Snapshot
    BY <1>1, <1>2, NodeTypes DEF NodeOK, InstallOK, Installing
<1>4. /\ tables' \in [Node -> Tables] /\ stale' \in [Node -> Stale]
      /\ \A m \in Node \ {n} : tables'[m] = tables[m] /\ stale'[m] = stale[m]
      /\ tables'[n].tag = Overlay(tables[n].tag, incoming[n].tables.tag, TagKey, NoDigest)
      /\ tables'[n].row = tables[n].row /\ tables'[n].membership = tables[n].membership
      /\ stale'[n].tag = stale[n].tag \cup Present(incoming[n].tables.tag, TagKey, NoDigest)
      /\ stale'[n].row = stale[n].row /\ stale'[n].membership = stale[n].membership
    BY <1>1, <1>3, InstallTagsWrites
<1>5. TypeOK'
    BY <1>1, <1>2, <1>4 DEF TypeOK, Phase
<1>6. OthersUnchanged(n) /\ pc'[n] = "last_applied"
    BY <1>1, <1>2, <1>4 DEF TypeOK, OthersUnchanged
<1>7. DOMAIN tables[n].tag = TagKey
    BY <1>1, NodeTypes DEF Tables
<1>8. /\ Written(tables'[n].tag, incoming[n].tables.tag, TagKey, NoDigest)
      /\ \A k \in TagKey \ Present(incoming[n].tables.tag, TagKey, NoDigest) :
            tables'[n].tag[k] = tables[n].tag[k]
    BY <1>4, <1>7, OverlayWrites
<1>9. TreesOK(n)'
    <2>1. Follows(tables[n], lastApplied[n], stale[n])
        BY <1>1 DEF NodeOK, TreesOK
    <2>2. AgreesOutside(tables'[n], hist[lastApplied[n] + 1], stale'[n])
        BY <1>4, <1>8, <2>1 DEF Follows, AgreesOutside
    <2>3. Follows(tables[n], lastApplied[n], stale[n])'
        BY <1>2, <1>4, <2>1, <2>2 DEF Follows, AgreesOutside
    <2> QED
        BY <1>1, <1>2, <2>3 DEF NodeOK, TreesOK, SnapshotOK, AtEnd, Follows, AgreesOutside
<1>10. InstallOK(n)'
    <2>1. InstallOK(n) /\ SnapshotOK(incoming[n])'
        BY <1>1, <1>2 DEF NodeOK, InstallOK, Installing, SnapshotOK, AtEnd, Follows, AgreesOutside
    <2> QED
        BY <1>2, <1>4, <1>6, <1>8, <2>1 DEF InstallOK, Installing, Written
<1>11. ApplyOK(n)'
    BY <1>6 DEF ApplyOK
<1> QED
    BY <1>2, <1>5, <1>6, <1>9, <1>10, <1>11, NodeStepKeeps DEF NodeOK

\* The moment the node answers for the index of the snapshot: where neither the
\* snapshot was stale nor the node had more than it, both have the same.
LEMMA SetLastAppliedKeeps ==
    ASSUME IInv, NEW n \in Node, SetLastApplied(n)
    PROVE  IInv'
<1> DEFINE s == incoming[n]
           st == [row |-> s.stale.row \cup
                          (Present(tables[n].row, Key, NoRow) \ Present(s.tables.row, Key, NoRow)),
                  tag |-> s.stale.tag \cup
                          (Present(tables[n].tag, TagKey, NoDigest)
                              \ Present(s.tables.tag, TagKey, NoDigest)),
                  membership |-> TRUE,
                  torn |-> s.stale.torn \/ stale[n].torn]
<1>1. TypeOK /\ NodeOK(n)
    BY DEF IInv
<1>2. /\ pc[n] = "last_applied" /\ pc' = [pc EXCEPT ![n] = "membership"]
      /\ lastApplied' = [lastApplied EXCEPT ![n] = s.index]
      /\ stale' = [stale EXCEPT ![n] = st]
      /\ UNCHANGED <<log, entry, hist, tables, snapshot, batch, pos, work, incoming, pending,
                     crashes>>
    BY DEF SetLastApplied
<1>3. /\ s \in Snapshot /\ SnapshotOK(s) /\ incoming[n] # NoSnapshot
      /\ Written(tables[n].row, s.tables.row, KindKeys("blob"), NoRow)
      /\ Written(tables[n].row, s.tables.row, KindKeys("manifest"), NoRow)
      /\ Written(tables[n].tag, s.tables.tag, TagKey, NoDigest)
    BY <1>1, <1>2, NodeTypes DEF NodeOK, InstallOK, Installing
<1>4. s.index \in Nat /\ s.stale \in Stale
    BY <1>3 DEF Snapshot
<1>5. st \in Stale
    <2>1. s.stale.torn \in BOOLEAN /\ stale[n].torn \in BOOLEAN
        BY <1>1, <1>4, NodeTypes DEF Stale
    <2> QED
        BY <1>4, <2>1 DEF Stale, Present
<1>6. \A k \in Key : k \in KindKeys("blob") \/ k \in KindKeys("manifest")
    BY DEF Key, Kind, KindKeys
<1>7. AgreesOutside(tables[n], hist[s.index + 1], st)
    <2>1. \A k \in Key \ st.row : tables[n].row[k] = s.tables.row[k]
        BY <1>3, <1>6 DEF Written, Present
    <2>2. \A k \in TagKey \ st.tag : tables[n].tag[k] = s.tables.tag[k]
        BY <1>3 DEF Written, Present
    <2> QED
        BY <1>3, <2>1, <2>2 DEF SnapshotOK, Follows, AgreesOutside
<1>8. \A k \in s.stale.row : k \in st.row
    OBVIOUS
<1>9. Follows(tables[n], s.index, st)
    BY <1>3, <1>7, <1>8 DEF SnapshotOK, Follows
<1> HIDE DEF st
<1>10. TypeOK'
    BY <1>1, <1>2, <1>4, <1>5 DEF TypeOK, Phase
<1>11. /\ OthersUnchanged(n) /\ pc'[n] = "membership"
       /\ lastApplied'[n] = s.index /\ stale'[n] = st
    BY <1>1, <1>2 DEF TypeOK, OthersUnchanged
<1>12. TreesOK(n)'
    <2>1. AtEnd(lastApplied[n])'
        BY <1>2, <1>3, <1>11 DEF SnapshotOK, AtEnd
    <2>2. tables'[n] = tables[n]
        BY <1>2
    <2>3. Follows(tables[n], lastApplied[n], stale[n])'
        BY <1>2, <1>9, <1>11, <2>2 DEF Follows, AgreesOutside
    <2>4. (snapshot[n] # NoSnapshot => SnapshotOK(snapshot[n]))'
        BY <1>1, <1>2 DEF NodeOK, TreesOK, SnapshotOK, AtEnd, Follows, AgreesOutside
    <2> QED
        BY <2>1, <2>3, <2>4 DEF TreesOK
<1>13. SnapshotOK(incoming[n])'
    BY <1>2, <1>3 DEF SnapshotOK, AtEnd, Follows, AgreesOutside
<1>14. InstallOK(n)'
    BY <1>2, <1>3, <1>11, <1>13 DEF InstallOK
<1>15. ApplyOK(n)'
    BY <1>11 DEF ApplyOK
<1> QED
    BY <1>2, <1>10, <1>11, <1>12, <1>14, <1>15, NodeStepKeeps DEF NodeOK

LEMMA SetLastMembershipKeeps ==
    ASSUME IInv, NEW n \in Node, SetLastMembership(n)
    PROVE  IInv'
<1> DEFINE s == incoming[n]
           t == [tables[n] EXCEPT !.membership = s.tables.membership]
           st == [stale[n] EXCEPT !.membership = s.stale.membership]
<1>1. TypeOK /\ NodeOK(n)
    BY DEF IInv
<1>2. /\ pc[n] = "membership" /\ pc' = [pc EXCEPT ![n] = "swap"]
      /\ UNCHANGED <<log, entry, hist, lastApplied, snapshot, batch, pos, work, incoming, pending,
                     crashes>>
    BY DEF SetLastMembership
<1>3. tables' = [tables EXCEPT ![n] = t] /\ stale' = [stale EXCEPT ![n] = st]
    BY Zenon DEF SetLastMembership
<1>4. s \in Snapshot /\ SnapshotOK(s) /\ incoming[n] # NoSnapshot /\ lastApplied[n] = s.index
    BY <1>1, <1>2, NodeTypes DEF NodeOK, InstallOK, Installing
<1>5. s.tables \in Tables /\ s.stale \in Stale /\ tables[n] \in Tables /\ stale[n] \in Stale
    BY <1>1, <1>4, NodeTypes DEF Snapshot
<1>6. /\ t \in Tables /\ t.row = tables[n].row /\ t.tag = tables[n].tag
      /\ t.membership = s.tables.membership
    BY <1>5 DEF Tables
<1>7. /\ st \in Stale /\ st.row = stale[n].row /\ st.tag = stale[n].tag
      /\ st.membership = s.stale.membership
    BY <1>5 DEF Stale
<1> HIDE DEF t, st
<1>8. Follows(t, lastApplied[n], st)
    <2>1. /\ Follows(tables[n], lastApplied[n], stale[n])
          /\ Follows(s.tables, lastApplied[n], s.stale)
        BY <1>1, <1>4 DEF NodeOK, TreesOK, SnapshotOK
    <2>2. AgreesOutside(t, hist[lastApplied[n] + 1], st)
        BY <1>6, <1>7, <2>1 DEF Follows, AgreesOutside
    <2> QED
        BY <1>7, <2>1, <2>2 DEF Follows
<1>9. TypeOK'
    BY <1>1, <1>2, <1>3, <1>6, <1>7 DEF TypeOK, Phase
<1>10. OthersUnchanged(n) /\ pc'[n] = "swap" /\ tables'[n] = t /\ stale'[n] = st
    BY <1>1, <1>2, <1>3 DEF TypeOK, OthersUnchanged
<1>11. TreesOK(n)'
    BY <1>1, <1>2, <1>8, <1>10 DEF NodeOK, TreesOK, SnapshotOK, AtEnd, Follows, AgreesOutside
<1>12. SnapshotOK(incoming[n])'
    BY <1>2, <1>4 DEF SnapshotOK, AtEnd, Follows, AgreesOutside
<1>13. InstallOK(n)' /\ ApplyOK(n)'
    BY <1>2, <1>4, <1>10, <1>12 DEF InstallOK, ApplyOK
<1> QED
    BY <1>2, <1>9, <1>10, <1>11, <1>13, NodeStepKeeps DEF NodeOK

LEMMA EndInstallKeeps ==
    ASSUME IInv, NEW n \in Node, SwapStateMachine(n) \/ SaveSnapshot(n)
    PROVE  IInv'
<1>1. TypeOK /\ NodeOK(n)
    BY DEF IInv
<1>2. CASE SwapStateMachine(n)
    <2>1. /\ pc[n] = "swap" /\ pc' = [pc EXCEPT ![n] = "save"]
          /\ pending' = [pending EXCEPT ![n] = WantedKeys(n, incoming[n].tables.row)]
          /\ UNCHANGED <<log, entry, hist, tables, lastApplied, snapshot, batch, pos, work,
                         incoming, stale, crashes>>
        BY <1>2 DEF SwapStateMachine
    <2>2. TypeOK' /\ OthersUnchanged(n) /\ pc'[n] = "save"
        BY <1>1, <2>1 DEF TypeOK, OthersUnchanged, Phase, WantedKeys
    <2>3. TreesOK(n)'
        BY <1>1, <2>1 DEF NodeOK, TreesOK, SnapshotOK, AtEnd, Follows, AgreesOutside
    <2>4. incoming[n] # NoSnapshot /\ SnapshotOK(incoming[n])'
        BY <1>1, <2>1 DEF NodeOK, InstallOK, Installing, SnapshotOK, AtEnd, Follows, AgreesOutside
    <2>5. InstallOK(n)' /\ ApplyOK(n)'
        BY <2>1, <2>2, <2>4 DEF InstallOK, ApplyOK
    <2> QED
        BY <2>1, <2>2, <2>3, <2>5, NodeStepKeeps DEF NodeOK
<1>3. CASE SaveSnapshot(n)
    <2>1. /\ pc[n] = "save" /\ pc' = [pc EXCEPT ![n] = "idle"]
          /\ snapshot' = [snapshot EXCEPT ![n] = incoming[n]]
          /\ incoming' = [incoming EXCEPT ![n] = NoSnapshot]
          /\ UNCHANGED <<log, entry, hist, tables, lastApplied, batch, pos, work, pending, stale,
                         crashes>>
        BY <1>3 DEF SaveSnapshot
    <2>2. /\ TypeOK' /\ OthersUnchanged(n) /\ pc'[n] = "idle" /\ snapshot'[n] = incoming[n]
        BY <1>1, <2>1 DEF TypeOK, OthersUnchanged, Phase
    <2>3. SnapshotOK(incoming[n])
        BY <1>1, <2>1 DEF NodeOK, InstallOK, Installing
    <2>4. TreesOK(n)'
        <3>1. (AtEnd(lastApplied[n]) /\ Follows(tables[n], lastApplied[n], stale[n]))'
            BY <1>1, <2>1 DEF NodeOK, TreesOK, AtEnd, Follows, AgreesOutside
        <3>2. SnapshotOK(snapshot[n])'
            BY <2>1, <2>2, <2>3 DEF SnapshotOK, AtEnd, Follows, AgreesOutside
        <3> QED
            BY <3>1, <3>2 DEF TreesOK
    <2>5. InstallOK(n)' /\ ApplyOK(n)'
        BY <2>2 DEF InstallOK, ApplyOK, Installing
    <2> QED
        BY <2>1, <2>2, <2>4, <2>5, NodeStepKeeps DEF NodeOK
<1> QED
    BY <1>2, <1>3

\* Every commit and every step of a node keeps IInv.
LEMMA NextIInv == IInv /\ [Next]_vars => IInv'
<1> SUFFICES ASSUME IInv, [Next]_vars
             PROVE  IInv'
    OBVIOUS
<1>1. ASSUME NEW a \in CommittedAction, NEW last \in BOOLEAN, Commit(a, last) PROVE IInv'
    BY <1>1, CommitKeeps
<1>2. ASSUME NEW n \in Node, NodeStep(n) PROVE IInv'
    <2>1. ASSUME NEW m \in Node, InstallBlobs(n, m) PROVE IInv'
        BY <2>1, InstallBlobsInstalls, InstallsRowsKeeps DEF Kind
    <2>2. ASSUME InstallManifests(n) PROVE IInv'
        BY <2>2, InstallManifestsInstalls, InstallsRowsKeeps DEF Kind
    <2> QED
        BY <1>2, <2>1, <2>2, BeginApplyKeeps, ApplyOneKeeps, CommitApplyKeeps, QuietKeeps,
           BuildSnapshotKeeps, InstallTagsKeeps, SetLastAppliedKeeps, SetLastMembershipKeeps,
           EndInstallKeeps
           DEF NodeStep
<1>3. CASE UNCHANGED vars
    <2>1. TypeOK'
        BY <1>3 DEF vars, IInv, TypeOK
    <2>2. HistOK'
        BY <1>3 DEF vars, IInv, HistOK
    <2>3. ASSUME NEW n \in Node PROVE NodeOK(n)'
        BY <1>3, OthersKeep DEF vars, IInv
    <2> QED
        BY <2>1, <2>2, <2>3 DEF IInv
<1> QED
    BY <1>1, <1>2, <1>3 DEF Next

-----------------------------------------------------------------------------
(***************************************************************************)
(* The pending channels.  A second invariant, on top of IInv: the channels *)
(* fit the rows except for the keys that a transaction has moved and       *)
(* Notify has not come to yet.                                             *)
(***************************************************************************)

\* Outside of skip, what the node wants of the rows is in its channels, and
\* nothing in its channels is something it holds.
Fits(n, rows, skip) ==
    /\ \A k \in Key \ skip : Wanted(n, rows[k]) => k \in pending[n] \/ k \in stale[n].row
    /\ \A k \in pending[n] \ skip : rows[k] = NoRow \/ n \notin rows[k].locations

PendingOK(n) ==
    /\ pc[n] \in {"idle", "apply", "save"} => Fits(n, tables[n].row, {})
    /\ pc[n] = "apply" =>
          /\ batch[n].from <= pos[n]
          /\ Fits(n, work[n].row, Moved(batch[n].from, pos[n]))
    /\ pc[n] = "notify" => Fits(n, tables[n].row, Moved(batch[n].from, batch[n].upto))
    /\ pc[n] \in {"membership", "swap"} =>
          /\ Written(tables[n].row, incoming[n].tables.row, Key, NoRow)
          /\ \A k \in Key : tables[n].row[k] # NoRow /\ incoming[n].tables.row[k] = NoRow
                => k \in stale[n].row

PendingInv == IInv /\ \A n \in Node : PendingOK(n)

\* Whose step it is, and what it leaves alone.
LEMMA StepOthers ==
    ASSUME TypeOK, NEW n \in Node, NodeStep(n)
    PROVE  /\ UNCHANGED <<log, hist>> /\ OthersUnchanged(n)
           /\ \A m \in Node \ {n} : pending'[m] = pending[m]
<1> USE DEF TypeOK, OthersUnchanged
<1>1. CASE \E upto \in 1 .. MaxLog : BeginApply(n, upto)
    BY <1>1 DEF BeginApply
<1>2. CASE ApplyOne(n) \/ ApplyPanics(n) \/ CommitApply(n)
    BY <1>2 DEF ApplyOne, ApplyPanics, CommitApply
<1>3. CASE Notify(n) \/ NotifyPanics(n) \/ BuildSnapshot(n)
    BY <1>3 DEF Notify, NotifyPanics, BuildSnapshot
<1>4. CASE (\E m \in Node : InstallBlobs(n, m)) \/ InstallManifests(n) \/ InstallTags(n)
    BY <1>4 DEF InstallBlobs, InstallManifests, InstallTags, WriteRows
<1>5. CASE SetLastApplied(n) \/ SetLastMembership(n) \/ SwapStateMachine(n) \/ SaveSnapshot(n)
    BY <1>5 DEF SetLastApplied, SetLastMembership, SwapStateMachine, SaveSnapshot
<1>6. CASE Crash(n) \/ Start(n)
    BY <1>6 DEF Crash, Start
<1> QED
    BY <1>1, <1>2, <1>3, <1>4, <1>5, <1>6 DEF NodeStep

\* Only Stored and Unstored can make a node want a row, or hold it.
LEMMA LocationsStay ==
    ASSUME NEW n \in Node, NEW row \in RowOrNone, NEW a \in RowAction,
           a.type \notin {"Stored", "Unstored"}
    PROVE  /\ Wanted(n, RowAfter(row, a)) => Wanted(n, row)
           /\ row = NoRow \/ n \notin row.locations
                 => RowAfter(row, a) = NoRow \/ n \notin RowAfter(row, a).locations
<1> USE DEF RowOrNone
<1>1. CASE a \in [type : {"Mounted"}, key : Key, repository : Repository, timestamp : Timestamp]
    <2>1. RowAfter(row, a) = Mounted(row, a.repository, a.timestamp)
        BY <1>1 DEF RowAfter
    <2>2. CASE row = NoRow
        BY <2>1, <2>2 DEF Mounted, FreshRow, Wanted
    <2>3. CASE row # NoRow
        BY <2>1, <2>3 DEF Mounted, Wanted, Row
    <2> QED
        BY <2>2, <2>3
<1>2. CASE a \in [type : {"Unmounted"}, key : Key, repository : Repository]
    <2>1. RowAfter(row, a) = Unmounted(row, a.repository)
        BY <1>2 DEF RowAfter
    <2> QED
        BY <2>1 DEF Unmounted, Wanted, Row
<1>3. CASE a \in [type : {"Info"}, key : Key, dependencies : SUBSET Digest]
    <2>1. RowAfter(row, a) = Info(row, a.dependencies)
        BY <1>3 DEF RowAfter
    <2> QED
        BY <2>1 DEF Info, Wanted, Row
<1>4. CASE a \in [type : {"Stat"}, key : Key]
    <2>1. RowAfter(row, a) = Stat(row)
        BY <1>4 DEF RowAfter
    <2> QED
        BY <2>1 DEF Stat, Wanted, Row
<1> QED
    BY <1>1, <1>2, <1>3, <1>4 DEF RowAction

\* One more item moves at most the row it names.
LEMMA MovedGrows ==
    ASSUME NEW from \in Nat, NEW upto \in Nat, from <= upto
    PROVE  /\ Moved(from, upto) \subseteq Moved(from, upto + 1)
           /\ log[upto + 1].act.type \in {"Stored", "Unstored"}
                 => log[upto + 1].act.key \in Moved(from, upto + 1)
<1>1. \A i \in from + 1 .. upto : i \in from + 1 .. upto + 1
    OBVIOUS
<1>2. upto + 1 \in from + 1 .. upto + 1
    OBVIOUS
<1> QED
    BY <1>1, <1>2 DEF Moved, MovedBy

\* The step of the transaction: whatever the action is on, the channels fit the
\* rows outside of what has been moved by now.
LEMMA FitsAfter ==
    ASSUME NEW n \in Node, NEW t \in Tables, NEW a \in Action, NEW skip, NEW more,
           Fits(n, t.row, skip), skip \subseteq more, pending[n] \subseteq Key,
           a.type \in {"Stored", "Unstored"} => a.key \in more
    PROVE  Fits(n, ApplyAction(t, a).row, more)
<1> DEFINE r == ApplyAction(t, a).row
<1>1. ASSUME NEW k \in Key \ more
      PROVE  /\ Wanted(n, r[k]) => Wanted(n, t.row[k])
             /\ t.row[k] = NoRow \/ n \notin t.row[k].locations
                   => r[k] = NoRow \/ n \notin r[k].locations
    <2>1. CASE a.type \in RowActionType /\ a.key = k
        <3>1. r[k] = RowAfter(t.row[k], a)
            BY <2>1, ApplyActionFields
        <3>2. a \in RowAction /\ a.type \notin {"Stored", "Unstored"}
            BY <2>1, ActionCases DEF RowActionType
        <3>3. t.row[k] \in RowOrNone
            BY DEF Tables, RowOrNone
        <3> QED
            BY <3>1, <3>2, <3>3, LocationsStay
    <2>2. CASE ~(a.type \in RowActionType /\ a.key = k)
        <3>1. r[k] = t.row[k]
            BY <2>2, ApplyActionFields
        <3> QED
            BY <3>1
    <2> QED
        BY <2>1, <2>2
<1> HIDE DEF r
<1>2. Fits(n, r, more)
    BY <1>1 DEF Fits
<1> QED
    BY <1>2 DEF r

LEMMA InitPending == Init => PendingInv
<1> SUFFICES ASSUME Init PROVE PendingInv
    OBVIOUS
<1>1. ASSUME NEW n \in Node PROVE PendingOK(n)
    <2>1. pc[n] = "idle" /\ pending[n] = {} /\ \A k \in Key : tables[n].row[k] = NoRow
        BY DEF Init, EmptyTables
    <2> QED
        BY <2>1 DEF PendingOK, Fits, Wanted
<1> QED
    BY <1>1, InitIInv DEF PendingInv

\* A commit appends to the log; what was moved so far stays the same.
LEMMA CommitPending ==
    ASSUME PendingInv, NEW a \in CommittedAction, NEW last \in BOOLEAN, Commit(a, last)
    PROVE  \A n \in Node : PendingOK(n)'
<1>1. IInv /\ TypeOK /\ log \in Seq(Item)
    BY DEF PendingInv, IInv, TypeOK
<1>2. /\ log' = Append(log, [act |-> a, last |-> last])
      /\ UNCHANGED <<pc, tables, lastApplied, snapshot, batch, pos, work, incoming, pending,
                     stale, crashes>>
    BY DEF Commit
<1>3. \A i \in 1 .. Len(log) : log'[i] = log[i]
    BY <1>1, <1>2
<1>4. ASSUME NEW from \in Nat, NEW upto \in Nat, upto <= Len(log)
      PROVE  Moved(from, upto)' = Moved(from, upto)
    <2>1. \A i \in from + 1 .. upto : log'[i] = log[i]
        BY <1>1, <1>3, <1>4
    <2> QED
        BY <2>1 DEF Moved, MovedBy
<1> SUFFICES ASSUME NEW n \in Node PROVE PendingOK(n)'
    OBVIOUS
<1>5. /\ PendingOK(n) /\ ApplyOK(n) /\ batch[n].from \in Nat /\ batch[n].upto \in Nat
      /\ pos[n] \in Nat
    BY <1>1 DEF PendingInv, IInv, NodeOK, TypeOK, Batch
<1>6. Len(log) \in Nat
    BY <1>1
<1>7. pc[n] = "apply" => Moved(batch[n].from, pos[n])' = Moved(batch[n].from, pos[n])
    BY <1>2, <1>4, <1>5, <1>6 DEF ApplyOK, AtEnd
<1>8. pc[n] = "notify" => Moved(batch[n].from, batch[n].upto)' = Moved(batch[n].from, batch[n].upto)
    BY <1>2, <1>4, <1>5 DEF ApplyOK, AtEnd
<1> QED
    BY <1>2, <1>5, <1>7, <1>8 DEF PendingOK, Fits, Written

LEMMA OthersPending ==
    ASSUME NEW m \in Node, PendingOK(m), UNCHANGED log,
           pc'[m] = pc[m], tables'[m] = tables[m], batch'[m] = batch[m], pos'[m] = pos[m],
           work'[m] = work[m], incoming'[m] = incoming[m], stale'[m] = stale[m],
           pending'[m] = pending[m]
    PROVE  PendingOK(m)'
<1>1. \A i, j : Moved(i, j)' = Moved(i, j)
    BY DEF Moved, MovedBy
<1> QED
    BY <1>1 DEF PendingOK, Fits, Written

\* The two phases of apply_to_state_machine.
LEMMA ApplyPending ==
    ASSUME PendingInv, NEW n \in Node,
           \/ \E upto \in 1 .. MaxLog : BeginApply(n, upto)
           \/ ApplyOne(n) \/ CommitApply(n) \/ Notify(n)
    PROVE  PendingOK(n)'
<1>1. TypeOK /\ PendingOK(n) /\ NodeOK(n)
    BY DEF PendingInv, IInv
<1>2. CASE \E upto \in 1 .. MaxLog : BeginApply(n, upto)
    <2>1. /\ pc[n] = "idle" /\ pc'[n] = "apply" /\ tables'[n] = tables[n]
          /\ work'[n] = tables[n] /\ pos'[n] = lastApplied[n] /\ batch'[n].from = lastApplied[n]
          /\ pending' = pending /\ stale' = stale /\ lastApplied[n] \in Nat
        BY <1>1, <1>2 DEF BeginApply, TypeOK
    <2>2. Fits(n, tables[n].row, {})
        BY <1>1, <2>1 DEF PendingOK
    <2>3. Fits(n, tables[n].row, {})' /\ Fits(n, work[n].row, Moved(batch[n].from, pos[n]))'
        BY <2>1, <2>2 DEF Fits
    <2> QED
        BY <2>1, <2>3 DEF PendingOK
<1>3. CASE ApplyOne(n)
    <2> DEFINE a == log[pos[n] + 1].act
               w == ApplyAction(work[n], a)
               more == Moved(batch[n].from, pos[n] + 1)
    <2>1. /\ pc[n] = "apply" /\ pc'[n] = "apply" /\ pos[n] < batch[n].upto
          /\ work'[n] = w /\ pos'[n] = pos[n] + 1
          /\ UNCHANGED <<log, batch, tables, pending, stale>>
        BY <1>1, <1>3 DEF ApplyOne, TypeOK
    <2>2. /\ batch[n].from \in Nat /\ pos[n] \in Nat /\ batch[n].from <= pos[n]
          /\ Fits(n, tables[n].row, {})
          /\ Fits(n, work[n].row, Moved(batch[n].from, pos[n]))
          /\ work[n] \in Tables /\ pending[n] \subseteq Key
        BY <1>1, <2>1, NodeTypes DEF PendingOK, TypeOK, Batch
    <2>3. pos[n] + 1 \in 1 .. Len(log)
        BY <1>1, <2>1, <2>2, NodeTypes DEF NodeOK, ApplyOK, AtEnd, TypeOK
    <2>4. a \in Action
        <3>1. log[pos[n] + 1] \in Item
            BY <1>1, <2>3 DEF TypeOK
        <3> QED
            BY <3>1 DEF Item
    <2>5. /\ Moved(batch[n].from, pos[n]) \subseteq more
          /\ a.type \in {"Stored", "Unstored"} => a.key \in more
        BY <2>2, MovedGrows
    <2> HIDE DEF a
    <2>6. Fits(n, w.row, more)
        BY <2>2, <2>4, <2>5, FitsAfter
    <2>7. Moved(batch[n].from, pos[n])' = more
        BY <2>1 DEF Moved, MovedBy
    <2> HIDE DEF w, more
    <2>8. Fits(n, tables[n].row, {})' /\ Fits(n, work[n].row, Moved(batch[n].from, pos[n]))'
        BY <2>1, <2>2, <2>6, <2>7 DEF Fits
    <2>9. batch'[n].from <= pos'[n]
        BY <2>1, <2>2
    <2> QED
        BY <2>1, <2>8, <2>9 DEF PendingOK
<1>4. CASE CommitApply(n)
    <2>1. /\ pc[n] = "apply" /\ pc'[n] = "notify" /\ tables'[n] = work[n]
          /\ pos[n] = batch[n].upto /\ UNCHANGED <<log, batch, pending, stale>>
        BY <1>1, <1>4 DEF CommitApply, TypeOK
    <2>2. Fits(n, work[n].row, Moved(batch[n].from, pos[n]))
        BY <1>1, <2>1 DEF PendingOK
    <2>3. Moved(batch[n].from, batch[n].upto)' = Moved(batch[n].from, pos[n])
        BY <2>1 DEF Moved, MovedBy
    <2>4. Fits(n, tables[n].row, Moved(batch[n].from, batch[n].upto))'
        BY <2>1, <2>2, <2>3 DEF Fits
    <2> QED
        BY <2>1, <2>4 DEF PendingOK
<1>5. CASE Notify(n)
    <2> DEFINE moved == Moved(batch[n].from, batch[n].upto)
               now == {k \in moved : tables[n].row[k] # NoRow}
    <2>1. /\ pc[n] = "notify" /\ pc'[n] = "idle" /\ UNCHANGED <<tables, stale>>
          /\ pending'[n] = (pending[n] \ now) \cup {k \in now : Wanted(n, tables[n].row[k])}
        BY <1>1, <1>5 DEF Notify, TypeOK
    <2>2. Fits(n, tables[n].row, moved)
        BY <1>1, <2>1 DEF PendingOK
    <2>3. \A k \in moved : tables[n].row[k] = NoRow \/ k \in now
        OBVIOUS
    <2> HIDE DEF moved
    <2>4. Fits(n, tables[n].row, {})'
        BY <2>1, <2>2, <2>3 DEF Fits, Wanted
    <2> QED
        BY <2>1, <2>4 DEF PendingOK
<1> QED
    BY <1>2, <1>3, <1>4, <1>5

\* The last steps of install_snapshot: the channels are filled from the rows of
\* the snapshot, and any other row of the trees is stale.
LEMMA InstallPending ==
    ASSUME PendingInv, NEW n \in Node,
           SetLastApplied(n) \/ SetLastMembership(n) \/ SwapStateMachine(n) \/ SaveSnapshot(n)
    PROVE  PendingOK(n)'
<1>1. TypeOK /\ PendingOK(n) /\ InstallOK(n)
    BY DEF PendingInv, IInv, NodeOK
<1>2. CASE SetLastApplied(n)
    <2>1. /\ pc[n] = "last_applied" /\ pc'[n] = "membership" /\ UNCHANGED <<tables, incoming>>
          /\ stale'[n].row = incoming[n].stale.row \cup
                (Present(tables[n].row, Key, NoRow) \ Present(incoming[n].tables.row, Key, NoRow))
        BY <1>1, <1>2 DEF SetLastApplied, TypeOK
    <2>2. /\ Written(tables[n].row, incoming[n].tables.row, KindKeys("blob"), NoRow)
          /\ Written(tables[n].row, incoming[n].tables.row, KindKeys("manifest"), NoRow)
        BY <1>1, <2>1 DEF InstallOK
    <2>3. \A k \in Key : k \in KindKeys("blob") \/ k \in KindKeys("manifest")
        BY DEF Key, Kind, KindKeys
    <2>4. Written(tables[n].row, incoming[n].tables.row, Key, NoRow)
        BY <2>2, <2>3 DEF Written
    <2> QED
        BY <2>1, <2>4 DEF PendingOK, Present, Written
<1>3. CASE SetLastMembership(n)
    <2>1. pc[n] = "membership" /\ pc'[n] = "swap" /\ UNCHANGED incoming
        BY <1>1, <1>3 DEF SetLastMembership, TypeOK
    <2>2. tables'[n].row = tables[n].row /\ stale'[n].row = stale[n].row
        <3>1. /\ tables' = [tables EXCEPT ![n] =
                              [tables[n] EXCEPT !.membership = incoming[n].tables.membership]]
              /\ stale' = [stale EXCEPT ![n] =
                              [stale[n] EXCEPT !.membership = incoming[n].stale.membership]]
            BY <1>3, Zenon DEF SetLastMembership
        <3>2. tables \in [Node -> Tables] /\ stale \in [Node -> Stale]
            BY <1>1 DEF TypeOK
        <3>3. /\ tables'[n] = [tables[n] EXCEPT !.membership = incoming[n].tables.membership]
              /\ stale'[n] = [stale[n] EXCEPT !.membership = incoming[n].stale.membership]
            BY <3>1, <3>2
        <3> QED
            BY <3>2, <3>3 DEF Tables, Stale
    <2> QED
        BY <1>1, <2>1, <2>2 DEF PendingOK, Written
<1>4. CASE SwapStateMachine(n)
    <2>1. /\ pc[n] = "swap" /\ pc'[n] = "save" /\ UNCHANGED <<tables, stale>>
          /\ pending'[n] = WantedKeys(n, incoming[n].tables.row)
        BY <1>1, <1>4 DEF SwapStateMachine, TypeOK
    <2>2. Fits(n, tables[n].row, {})'
        BY <1>1, <2>1 DEF PendingOK, Fits, WantedKeys, Wanted, Written
    <2> QED
        BY <2>1, <2>2 DEF PendingOK
<1>5. CASE SaveSnapshot(n)
    <2>1. pc[n] = "save" /\ pc'[n] = "idle" /\ UNCHANGED <<tables, stale, pending>>
        BY <1>1, <1>5 DEF SaveSnapshot, TypeOK
    <2> QED
        BY <1>1, <2>1 DEF PendingOK, Fits
<1> QED
    BY <1>2, <1>3, <1>4, <1>5

\* A node that stops, starts, begins an install or builds a snapshot.
LEMMA QuietPending ==
    ASSUME PendingInv, NEW n \in Node,
           \/ ApplyPanics(n) \/ NotifyPanics(n) \/ Crash(n) \/ Start(n) \/ BuildSnapshot(n)
           \/ (\E m \in Node : InstallBlobs(n, m)) \/ InstallManifests(n) \/ InstallTags(n)
    PROVE  PendingOK(n)'
<1>1. TypeOK /\ PendingOK(n)
    BY DEF PendingInv, IInv
<1>2. CASE BuildSnapshot(n)
    BY <1>1, <1>2, OthersPending DEF BuildSnapshot
<1>3. CASE Start(n)
    <2>1. /\ pc'[n] = "idle" /\ UNCHANGED <<tables, stale>>
          /\ pending'[n] = WantedKeys(n, tables[n].row)
        BY <1>1, <1>3 DEF Start, TypeOK
    <2>2. Fits(n, tables[n].row, {})'
        BY <2>1 DEF Fits, WantedKeys, Wanted
    <2> QED
        BY <2>1, <2>2 DEF PendingOK
<1>4. CASE pc'[n] \in {"panicked", "down", "manifests", "tags", "last_applied"}
    BY <1>4 DEF PendingOK
<1>5. \/ BuildSnapshot(n) \/ Start(n)
      \/ pc'[n] \in {"panicked", "down", "manifests", "tags", "last_applied"}
    <2>1. pc \in [Node -> Phase]
        BY <1>1 DEF TypeOK
    <2> QED
        BY <2>1 DEF ApplyPanics, NotifyPanics, Crash, InstallBlobs, InstallManifests, InstallTags
<1> QED
    BY <1>2, <1>3, <1>4, <1>5

LEMMA NextPending == PendingInv /\ [Next]_vars => PendingInv'
<1> SUFFICES ASSUME PendingInv, [Next]_vars PROVE PendingInv'
    OBVIOUS
<1>1. IInv /\ TypeOK /\ IInv'
    BY NextIInv DEF PendingInv, IInv
<1>2. ASSUME NEW a \in CommittedAction, NEW last \in BOOLEAN, Commit(a, last)
      PROVE  \A n \in Node : PendingOK(n)'
    BY <1>2, CommitPending
<1>3. ASSUME NEW n \in Node, NodeStep(n) PROVE \A m \in Node : PendingOK(m)'
    <2>1. PendingOK(n)'
        BY <1>3, ApplyPending, InstallPending, QuietPending DEF NodeStep
    <2>2. ASSUME NEW m \in Node, m # n PROVE PendingOK(m)'
        BY <1>1, <1>3, <2>2, StepOthers, OthersPending DEF PendingInv, OthersUnchanged
    <2> QED
        BY <2>1, <2>2
<1>4. ASSUME UNCHANGED vars, NEW n \in Node PROVE PendingOK(n)'
    BY <1>4, OthersPending DEF PendingInv, vars
<1> QED
    BY <1>1, <1>2, <1>3, <1>4 DEF Next, PendingInv

-----------------------------------------------------------------------------
(***************************************************************************)
(* What is stale.  A third invariant: unless it is torn, a row that is     *)
(* stale now, or will be when the install that is under way is over, was   *)
(* deleted by the log at or before the index the node answers for.  A tag  *)
(* is never deleted.                                                       *)
(***************************************************************************)

\* One of the first i items deleted the row of k.
Deleted(k, i) == \E j \in 1 .. i : hist[j].row[k] # NoRow /\ hist[j + 1].row[k] = NoRow

\* What was there after some items and is not after more was deleted by one of
\* those.
HistoryOK ==
    \A i, j \in 1 .. Len(hist) : i <= j =>
        /\ \A k \in Key : hist[i].row[k] # NoRow /\ hist[j].row[k] = NoRow => Deleted(k, j - 1)
        /\ \A k \in TagKey : hist[i].tag[k] # NoDigest => hist[j].tag[k] # NoDigest

OnlyDeleted(st, i) == st.tag = {} /\ ~st.membership /\ \A k \in st.row : Deleted(k, i)

\* What the trees have and the snapshot has not, the log has deleted.
OnlyMore(t, s) ==
    /\ \A k \in Key : t.row[k] # NoRow /\ s.tables.row[k] = NoRow => Deleted(k, s.index)
    /\ \A k \in TagKey : t.tag[k] # NoDigest => s.tables.tag[k] # NoDigest

\* A node that is not torn.  Until SetLastApplied it is the snapshot that may be.
StaleOK(n) ==
    /\ pc[n] \notin Installing => OnlyDeleted(stale[n], lastApplied[n])
    /\ pc[n] \in {"manifests", "tags", "last_applied"} /\ ~incoming[n].stale.torn =>
          OnlyMore(tables[n], incoming[n])
    /\ pc[n] \in {"membership", "swap", "save"} =>
          /\ ~incoming[n].stale.torn
          /\ stale[n].tag = {}
          /\ \A k \in stale[n].row : Deleted(k, lastApplied[n])
    /\ pc[n] \in {"swap", "save"} => ~stale[n].membership

\* A snapshot that is not torn.
WholeOK(s) == ~s.stale.torn => OnlyDeleted(s.stale, s.index)

NodeStale(n) ==
    /\ ~stale[n].torn => StaleOK(n)
    /\ snapshot[n] # NoSnapshot => WholeOK(snapshot[n])
    /\ pc[n] \in Installing => WholeOK(incoming[n])

StaleInv == IInv /\ HistoryOK /\ \A n \in Node : NodeStale(n)

\* What is deleted stays deleted.
LEMMA DeletedLater ==
    ASSUME NEW i \in Nat, NEW j \in Nat, i <= j, NEW k, Deleted(k, i)
    PROVE  Deleted(k, j)
<1>1. \A l \in 1 .. i : l \in 1 .. j
    OBVIOUS
<1> QED
    BY <1>1 DEF Deleted

LEMMA OnlyDeletedLater ==
    ASSUME NEW i \in Nat, NEW j \in Nat, i <= j, NEW st, OnlyDeleted(st, i)
    PROVE  OnlyDeleted(st, j)
BY DeletedLater DEF OnlyDeleted

\* The heart of the argument: trees that follow the log up to an earlier index
\* have nothing more than a snapshot of a later one but what was deleted between.
LEMMA MoreIsDeleted ==
    ASSUME TypeOK, HistOK, HistoryOK, NEW t \in Tables, NEW st \in Stale, NEW i \in Nat,
           Follows(t, i, st), OnlyDeleted(st, i),
           NEW s \in Snapshot, SnapshotOK(s), OnlyDeleted(s.stale, s.index), i <= s.index
    PROVE  OnlyMore(t, s)
<1>1. s.index \in Nat /\ i <= Len(log) /\ s.index <= Len(log) /\ Len(log) \in Nat
    BY DEF Snapshot, SnapshotOK, Follows, TypeOK
<1>2. /\ i + 1 \in 1 .. Len(hist) /\ s.index + 1 \in 1 .. Len(hist) /\ i + 1 <= s.index + 1
      /\ (s.index + 1) - 1 = s.index
    BY <1>1 DEF HistOK
<1>3. /\ AgreesOutside(t, hist[i + 1], st)
      /\ AgreesOutside(s.tables, hist[s.index + 1], s.stale)
    BY DEF SnapshotOK, Follows
<1>4. ASSUME NEW k \in Key, t.row[k] # NoRow, s.tables.row[k] = NoRow
      PROVE  Deleted(k, s.index)
    <2>1. CASE k \in st.row
        BY <1>1, <2>1, DeletedLater DEF OnlyDeleted
    <2>2. CASE k \in s.stale.row
        BY <2>2 DEF OnlyDeleted
    <2>3. CASE k \notin st.row /\ k \notin s.stale.row
        <3>1. hist[i + 1].row[k] # NoRow /\ hist[s.index + 1].row[k] = NoRow
            BY <1>3, <1>4, <2>3 DEF AgreesOutside
        <3>2. Deleted(k, (s.index + 1) - 1)
            BY <1>2, <3>1 DEF HistoryOK
        <3> QED
            BY <1>2, <3>2
    <2> QED
        BY <2>1, <2>2, <2>3
<1>5. ASSUME NEW k \in TagKey, t.tag[k] # NoDigest
      PROVE  s.tables.tag[k] # NoDigest
    <2>1. t.tag[k] = hist[i + 1].tag[k] /\ s.tables.tag[k] = hist[s.index + 1].tag[k]
        BY <1>3 DEF OnlyDeleted, AgreesOutside
    <2> QED
        BY <1>2, <1>5, <2>1 DEF HistoryOK
<1> QED
    BY <1>4, <1>5 DEF OnlyMore

LEMMA InitStale == Init => StaleInv
<1> SUFFICES ASSUME Init PROVE StaleInv
    OBVIOUS
<1>1. hist = <<EmptyTables>> /\ Len(hist) = 1
    BY DEF Init
<1>2. \A i, j \in 1 .. Len(hist) : i <= j => i = j
    BY <1>1
<1>3. HistoryOK
    BY <1>2 DEF HistoryOK
<1>4. ASSUME NEW n \in Node PROVE NodeStale(n)
    <2>1. pc[n] = "idle" /\ stale[n] = NothingStale /\ snapshot[n] = NoSnapshot
        BY DEF Init
    <2> QED
        BY <2>1 DEF NodeStale, StaleOK, OnlyDeleted, NothingStale, Installing
<1> QED
    BY <1>3, <1>4, InitIInv DEF StaleInv

\* A commit makes the history longer: it deletes a row that was there, or the
\* row had been deleted before, and it replaces a tag by a tag.
LEMMA CommitStale ==
    ASSUME StaleInv, NEW a \in CommittedAction, NEW last \in BOOLEAN, Commit(a, last)
    PROVE  HistoryOK' /\ \A n \in Node : NodeStale(n)'
<1>0. PICK L \in Nat : L = Len(hist)
    BY DEF StaleInv, IInv, TypeOK
<1>1. /\ TypeOK /\ IInv /\ HistoryOK /\ hist \in Seq(Tables) /\ L \in Nat \ {0}
      /\ L = Len(log) + 1
    BY <1>0 DEF StaleInv, IInv, TypeOK, HistOK
<1>2. /\ hist' = Append(hist, ApplyAction(hist[L], a))
      /\ UNCHANGED <<pc, tables, lastApplied, snapshot, batch, pos, work, incoming, pending,
                     stale, crashes>>
    BY <1>0 DEF Commit
<1>3. hist[L] \in Tables /\ a \in Action
    <2>1. L \in 1 .. Len(hist) /\ hist \in Seq(Tables)
        BY <1>0, <1>1
    <2> QED
        BY <2>1, CommittedActionType
<1>4. /\ Len(hist') = L + 1 /\ \A i \in 1 .. L : hist'[i] = hist[i]
      /\ hist'[L + 1] = ApplyAction(hist[L], a)
    <2>1. hist \in Seq(Tables) /\ Len(hist) = L /\ L \in Nat
        BY <1>0, <1>1
    <2>2. ApplyAction(hist[L], a) \in Tables
        BY <1>3, ApplyActionFields
    <2> QED
        BY <1>2, <2>1, <2>2
<1>5. ASSUME NEW i \in Nat, i < L, NEW k, Deleted(k, i) PROVE Deleted(k, i)'
    <2>1. \A j \in 1 .. i : hist'[j] = hist[j] /\ hist'[j + 1] = hist[j + 1]
        BY <1>1, <1>4, <1>5
    <2> QED
        BY <1>5, <2>1 DEF Deleted
<1>6. HistoryOK'
    <2> SUFFICES ASSUME NEW i \in 1 .. L + 1, NEW j \in 1 .. L + 1, i <= j
                 PROVE  /\ \A k \in Key : hist'[i].row[k] # NoRow /\ hist'[j].row[k] = NoRow
                                             => Deleted(k, j - 1)'
                        /\ \A k \in TagKey : hist'[i].tag[k] # NoDigest
                                                => hist'[j].tag[k] # NoDigest
        BY <1>4 DEF HistoryOK
    <2>1. CASE j <= L
        <3>1. /\ i \in 1 .. L /\ j \in 1 .. L /\ hist'[i] = hist[i] /\ hist'[j] = hist[j]
              /\ j - 1 \in Nat /\ j - 1 < L
            BY <1>1, <1>4, <2>1
        <3>2. /\ \A k \in Key : hist[i].row[k] # NoRow /\ hist[j].row[k] = NoRow
                                    => Deleted(k, j - 1)
              /\ \A k \in TagKey : hist[i].tag[k] # NoDigest => hist[j].tag[k] # NoDigest
            BY <1>0, <1>1, <3>1 DEF HistoryOK
        <3> QED
            BY <1>5, <3>1, <3>2
    <2>2. CASE i = j
        BY <2>2
    <2>3. CASE j = L + 1 /\ i <= L
        <3>1. i \in 1 .. L /\ L \in 1 .. L /\ hist'[i] = hist[i] /\ hist'[L] = hist[L]
            BY <1>1, <1>4, <2>3
        <3>2. /\ \A k \in Key : hist[i].row[k] # NoRow /\ hist[L].row[k] = NoRow
                                    => Deleted(k, L - 1)
              /\ \A k \in TagKey : hist[i].tag[k] # NoDigest => hist[L].tag[k] # NoDigest
            BY <1>0, <1>1, <3>1 DEF HistoryOK
        <3>3. ASSUME NEW k \in Key, hist'[i].row[k] # NoRow, hist'[L + 1].row[k] = NoRow
              PROVE  Deleted(k, L)'
            <4>1. CASE hist[L].row[k] # NoRow
                <5>1. L \in 1 .. L /\ hist'[L].row[k] # NoRow /\ hist'[L + 1].row[k] = NoRow
                    BY <3>1, <3>3, <4>1
                <5> QED
                    BY <5>1 DEF Deleted
            <4>2. CASE hist[L].row[k] = NoRow
                <5>1. Deleted(k, L - 1)
                    BY <3>1, <3>2, <3>3, <4>2
                <5>2. L - 1 \in Nat /\ L - 1 < L
                    BY <1>1
                <5>3. PICK l \in 1 .. L - 1 :
                         hist[l].row[k] # NoRow /\ hist[l + 1].row[k] = NoRow
                    BY <5>1 DEF Deleted
                <5>4. l \in 1 .. L /\ hist'[l] = hist[l] /\ hist'[l + 1] = hist[l + 1]
                    BY <1>1, <1>4
                <5> QED
                    BY <5>3, <5>4 DEF Deleted
            <4> QED
                BY <4>1, <4>2
        <3>4. ASSUME NEW k \in TagKey, hist'[i].tag[k] # NoDigest
              PROVE  hist'[L + 1].tag[k] # NoDigest
            <4>1. hist[L].tag[k] # NoDigest
                BY <3>1, <3>2, <3>4
            <4>2. hist'[L + 1].tag[k] =
                     IF a.type = "HashTagged" /\ <<a.repository, a.tag>> = k
                     THEN a.digest ELSE hist[L].tag[k]
                BY <1>4, <1>3, ApplyActionFields
            <4>3. a.type = "HashTagged" => a.digest # NoDigest
                BY <1>3, ActionCases, NoDigestAssumption DEF RowActionType
            <4> QED
                BY <4>1, <4>2, <4>3
        <3>5. j - 1 = L
            BY <1>1, <2>3
        <3> QED
            BY <2>3, <3>3, <3>4, <3>5
    <2> QED
        BY <1>1, <2>1, <2>2, <2>3
<1>7. ASSUME NEW n \in Node PROVE NodeStale(n)'
    <2>1. /\ NodeStale(n) /\ TreesOK(n) /\ InstallOK(n) /\ lastApplied[n] \in Nat
          /\ lastApplied[n] < L
        BY <1>1, NodeTypes DEF StaleInv, IInv, NodeOK, TreesOK, AtEnd
    <2>2. snapshot[n] # NoSnapshot => snapshot[n].index \in Nat /\ snapshot[n].index < L
        <3>1. snapshot[n] # NoSnapshot => snapshot[n].index \in Nat
            BY <1>1, NodeTypes DEF Snapshot
        <3> QED
            BY <1>1, <2>1, <3>1 DEF TreesOK, SnapshotOK, AtEnd
    <2>3. pc[n] \in Installing => incoming[n].index \in Nat /\ incoming[n].index < L
        <3>1. pc[n] \in Installing => incoming[n].index \in Nat
            BY <1>1, <2>1, NodeTypes DEF Snapshot, InstallOK
        <3> QED
            BY <1>1, <2>1, <3>1 DEF InstallOK, SnapshotOK, AtEnd
    <2>4. ASSUME NEW st, NEW i \in Nat, i < L, OnlyDeleted(st, i) PROVE OnlyDeleted(st, i)'
        BY <1>5, <2>4 DEF OnlyDeleted
    <2>5. ASSUME pc[n] \in {"manifests", "tags", "last_applied"}, OnlyMore(tables[n], incoming[n])
          PROVE  OnlyMore(tables[n], incoming[n])'
        BY <1>2, <1>5, <2>3, <2>5 DEF OnlyMore, Installing
    <2>6. ~stale[n].torn => StaleOK(n)'
        BY <1>2, <1>5, <2>1, <2>4, <2>5 DEF NodeStale, StaleOK
    <2>7. snapshot[n] # NoSnapshot => WholeOK(snapshot[n])'
        BY <1>2, <2>1, <2>2, <2>4 DEF NodeStale, WholeOK
    <2>8. pc[n] \in Installing => WholeOK(incoming[n])'
        BY <1>2, <2>1, <2>3, <2>4 DEF NodeStale, WholeOK
    <2> QED
        BY <1>2, <2>6, <2>7, <2>8 DEF NodeStale
<1> QED
    BY <1>6, <1>7

\* The history does not change in the steps of a node.
LEMMA SameHistory ==
    ASSUME UNCHANGED hist
    PROVE  /\ \A k, i : Deleted(k, i)' <=> Deleted(k, i)
           /\ HistoryOK => HistoryOK'
BY DEF Deleted, HistoryOK

LEMMA OthersStale ==
    ASSUME NEW m \in Node, NodeStale(m), UNCHANGED hist,
           pc'[m] = pc[m], tables'[m] = tables[m], lastApplied'[m] = lastApplied[m],
           snapshot'[m] = snapshot[m], incoming'[m] = incoming[m], stale'[m] = stale[m]
    PROVE  NodeStale(m)'
BY DEF NodeStale, StaleOK, WholeOK, OnlyDeleted, OnlyMore, Deleted

\* The steps outside of install_snapshot, and a crash anywhere.
LEMMA OutsideStale ==
    ASSUME StaleInv, NEW n \in Node,
           \/ \E upto \in 1 .. MaxLog : BeginApply(n, upto)
           \/ ApplyOne(n) \/ ApplyPanics(n) \/ CommitApply(n) \/ Notify(n) \/ NotifyPanics(n)
           \/ BuildSnapshot(n) \/ Crash(n) \/ Start(n)
    PROVE  NodeStale(n)'
<1>1. TypeOK /\ NodeStale(n) /\ NodeOK(n) /\ pc \in [Node -> Phase]
    BY DEF StaleInv, IInv, TypeOK
<1>2. CASE \/ (\E upto \in 1 .. MaxLog : BeginApply(n, upto)) \/ ApplyOne(n) \/ ApplyPanics(n)
           \/ Notify(n) \/ NotifyPanics(n) \/ Start(n)
    <2>1. /\ UNCHANGED <<hist, lastApplied, snapshot, stale>>
          /\ pc[n] \notin Installing /\ pc'[n] \notin Installing
        BY <1>1, <1>2 DEF BeginApply, ApplyOne, ApplyPanics, Notify, NotifyPanics, Start,
           Installing
    <2> QED
        BY <1>1, <2>1 DEF NodeStale, StaleOK, WholeOK, OnlyDeleted, Deleted, Installing
<1>3. CASE CommitApply(n)
    <2>1. /\ UNCHANGED <<hist, snapshot, stale>>
          /\ pc[n] = "apply" /\ pc'[n] = "notify" /\ lastApplied'[n] = batch[n].upto
          /\ pos[n] = batch[n].upto
        BY <1>1, <1>3 DEF CommitApply, TypeOK
    <2>2. /\ lastApplied[n] \in Nat /\ lastApplied'[n] \in Nat
          /\ lastApplied[n] <= lastApplied'[n]
        BY <1>1, <2>1, NodeTypes DEF NodeOK, ApplyOK
    <2>3. ~stale[n].torn => OnlyDeleted(stale[n], lastApplied'[n])
        BY <1>1, <2>1, <2>2, OnlyDeletedLater DEF NodeStale, StaleOK, Installing
    <2> QED
        BY <1>1, <2>1, <2>3 DEF NodeStale, StaleOK, WholeOK, OnlyDeleted, Deleted, Installing
<1>4. CASE BuildSnapshot(n) \/ Crash(n)
    <2>1. ~Cut(n).torn => ~stale[n].torn /\ OnlyDeleted(Cut(n), lastApplied[n])
        BY <1>1, CutType DEF NodeStale, StaleOK, OnlyDeleted, Installing, Phase
    <2>2. CASE BuildSnapshot(n)
        <3>1. /\ UNCHANGED <<hist, pc, tables, lastApplied, incoming, stale>>
              /\ snapshot'[n] = SnapshotOf(n)
            BY <1>1, <2>2 DEF BuildSnapshot, TypeOK
        <3>2. snapshot'[n].stale = Cut(n) /\ snapshot'[n].index = lastApplied[n]
            BY <3>1 DEF SnapshotOf
        <3>3. WholeOK(snapshot[n])'
            BY <2>1, <3>1, <3>2 DEF WholeOK, OnlyDeleted, Deleted
        <3>4. (~stale[n].torn => StaleOK(n))' /\ (pc[n] \in Installing => WholeOK(incoming[n]))'
            BY <1>1, <3>1 DEF NodeStale, StaleOK, WholeOK, OnlyDeleted, OnlyMore, Deleted
        <3> QED
            BY <3>3, <3>4 DEF NodeStale
    <2>3. CASE Crash(n)
        <3>1. /\ UNCHANGED <<hist, lastApplied, snapshot>> /\ pc'[n] = "down"
              /\ stale'[n] = Cut(n)
            BY <1>1, <2>3 DEF Crash, TypeOK
        <3> QED
            BY <1>1, <2>1, <3>1 DEF NodeStale, StaleOK, WholeOK, OnlyDeleted, Deleted, Installing
    <2> QED
        BY <1>4, <2>2, <2>3
<1> QED
    BY <1>2, <1>3, <1>4

\* Writing what a snapshot has does not add to what it has not.
LEMMA OverlayMore ==
    ASSUME NEW t \in Tables, NEW u \in Tables, NEW s \in Snapshot, OnlyMore(t, s),
           \/ /\ u.tag = t.tag
              /\ \E kind \in Kind : u.row = Overlay(t.row, s.tables.row, KindKeys(kind), NoRow)
           \/ /\ u.row = t.row
              /\ u.tag = Overlay(t.tag, s.tables.tag, TagKey, NoDigest)
    PROVE  OnlyMore(u, s)
<1>1. DOMAIN t.row = Key /\ DOMAIN t.tag = TagKey
    BY DEF Tables
<1> QED
    BY <1>1 DEF OnlyMore, Overlay

\* The three batches of inserts.
LEMMA BatchesStale ==
    ASSUME StaleInv, NEW n \in Node,
           (\E m \in Node : InstallBlobs(n, m)) \/ InstallManifests(n) \/ InstallTags(n)
    PROVE  NodeStale(n)'
<1>1. TypeOK /\ NodeStale(n) /\ NodeOK(n) /\ tables[n] \in Tables /\ stale[n] \in Stale
    BY NodeTypes DEF StaleInv, IInv
<1>2. ASSUME NEW m \in Node, InstallBlobs(n, m) PROVE NodeStale(n)'
    <2> DEFINE s == snapshot[m]
    <2>1. /\ pc[n] = "idle" /\ snapshot[m] # NoSnapshot /\ incoming'[n] = s
          /\ pc'[n] = "manifests" /\ UNCHANGED <<hist, lastApplied, snapshot>>
          /\ WriteRows(n, s, "blob")
        BY <1>1, <1>2 DEF InstallBlobs, TypeOK
    <2>2. s \in Snapshot /\ SnapshotOK(s) /\ lastApplied[n] <= s.index
        BY <1>2, InstallBlobsInstalls DEF StaleInv, InstallsRows
    <2>3. WholeOK(s)
        BY <2>1 DEF StaleInv, NodeStale
    <2>4. /\ tables'[n] \in Tables /\ tables'[n].tag = tables[n].tag
          /\ tables'[n].row = Overlay(tables[n].row, s.tables.row, KindKeys("blob"), NoRow)
          /\ stale'[n].torn = stale[n].torn
        <3>1. stale'[n].torn = stale[n].torn
            BY <1>1, <2>1 DEF WriteRows, TypeOK, Stale
        <3>2. "blob" \in Kind
            BY DEF Kind
        <3> QED
            BY <1>1, <2>1, <2>2, <3>1, <3>2, WriteRowsType
    <2>5. ASSUME ~stale[n].torn, ~s.stale.torn PROVE OnlyMore(tables'[n], s)
        <3>1. /\ OnlyDeleted(stale[n], lastApplied[n]) /\ OnlyDeleted(s.stale, s.index)
              /\ Follows(tables[n], lastApplied[n], stale[n])
            BY <1>1, <2>1, <2>3, <2>5 DEF NodeStale, StaleOK, WholeOK, Installing, NodeOK, TreesOK
        <3>2. OnlyMore(tables[n], s)
            BY <1>1, <2>2, <3>1, MoreIsDeleted, NodeTypes DEF StaleInv, IInv
        <3>3. "blob" \in Kind
            BY DEF Kind
        <3> QED
            BY <1>1, <2>2, <2>4, <3>2, <3>3, OverlayMore
    <2>6. (~stale[n].torn => StaleOK(n))'
        BY <2>1, <2>4, <2>5 DEF StaleOK, OnlyMore, Deleted, Installing
    <2>7. (snapshot[n] # NoSnapshot => WholeOK(snapshot[n]))' /\ WholeOK(incoming[n])'
        BY <1>1, <2>1, <2>3 DEF NodeStale, WholeOK, OnlyDeleted, Deleted
    <2> QED
        BY <2>6, <2>7 DEF NodeStale
<1>3. CASE InstallManifests(n) \/ InstallTags(n)
    <2>1. /\ pc[n] \in {"manifests", "tags"} /\ pc'[n] \in {"tags", "last_applied"}
          /\ UNCHANGED <<hist, lastApplied, snapshot, incoming>>
        BY <1>1, <1>3 DEF InstallManifests, InstallTags, TypeOK
    <2>2. incoming[n] \in Snapshot
        BY <1>1, <2>1, NodeTypes DEF NodeOK, InstallOK, Installing
    <2>3. stale'[n].torn = stale[n].torn
        BY <1>1, <1>3 DEF InstallManifests, InstallTags, WriteRows, TypeOK, Stale
    <2>4. OnlyMore(tables[n], incoming[n]) => OnlyMore(tables'[n], incoming[n])
        <3>1. CASE InstallManifests(n)
            <4>1. "manifest" \in Kind /\ WriteRows(n, incoming[n], "manifest")
                BY <3>1 DEF Kind, InstallManifests
            <4>2. /\ tables'[n] \in Tables /\ tables'[n].tag = tables[n].tag
                  /\ tables'[n].row =
                        Overlay(tables[n].row, incoming[n].tables.row, KindKeys("manifest"), NoRow)
                BY <1>1, <2>2, <4>1, WriteRowsType
            <4> QED
                BY <1>1, <2>2, <4>1, <4>2, OverlayMore
        <3>2. CASE InstallTags(n)
            <4>1. /\ tables'[n] \in Tables /\ tables'[n].row = tables[n].row
                  /\ tables'[n].tag =
                        Overlay(tables[n].tag, incoming[n].tables.tag, TagKey, NoDigest)
                BY <1>1, <2>2, <3>2, InstallTagsWrites
            <4> QED
                BY <1>1, <2>2, <4>1, OverlayMore
        <3> QED
            BY <1>3, <3>1, <3>2
    <2>5. (~stale[n].torn => StaleOK(n))'
        BY <1>1, <2>1, <2>3, <2>4 DEF NodeStale, StaleOK, OnlyMore, Deleted, Installing
    <2>6. (snapshot[n] # NoSnapshot => WholeOK(snapshot[n]))' /\ WholeOK(incoming[n])'
        BY <1>1, <2>1 DEF NodeStale, WholeOK, OnlyDeleted, Deleted, Installing
    <2> QED
        BY <2>5, <2>6 DEF NodeStale
<1> QED
    BY <1>2, <1>3

\* The rest of install_snapshot.
LEMMA InstallStale ==
    ASSUME StaleInv, NEW n \in Node,
           SetLastApplied(n) \/ SetLastMembership(n) \/ SwapStateMachine(n) \/ SaveSnapshot(n)
    PROVE  NodeStale(n)'
<1>1. TypeOK /\ NodeStale(n) /\ NodeOK(n) /\ stale \in [Node -> Stale]
    BY DEF StaleInv, IInv, TypeOK
<1>2. CASE SetLastApplied(n)
    <2> DEFINE s == incoming[n]
               rows == s.stale.row \cup
                       (Present(tables[n].row, Key, NoRow) \ Present(s.tables.row, Key, NoRow))
               tags == s.stale.tag \cup
                       (Present(tables[n].tag, TagKey, NoDigest)
                           \ Present(s.tables.tag, TagKey, NoDigest))
    <2>1. /\ pc[n] = "last_applied" /\ pc'[n] = "membership" /\ lastApplied'[n] = s.index
          /\ UNCHANGED <<hist, tables, snapshot, incoming>>
          /\ stale'[n] = [row |-> rows, tag |-> tags, membership |-> TRUE,
                          torn |-> s.stale.torn \/ stale[n].torn]
        BY <1>1, <1>2 DEF SetLastApplied, TypeOK
    <2>2. ASSUME ~s.stale.torn, ~stale[n].torn
          PROVE  tags = {} /\ \A k \in rows : Deleted(k, s.index)
        <3>1. OnlyDeleted(s.stale, s.index) /\ OnlyMore(tables[n], s)
            BY <1>1, <2>1, <2>2 DEF NodeStale, StaleOK, WholeOK, Installing
        <3> QED
            BY <3>1 DEF OnlyDeleted, OnlyMore, Present
    <2> HIDE DEF rows, tags
    <2>3. /\ stale'[n].row = rows /\ stale'[n].tag = tags
          /\ ~stale'[n].torn => ~s.stale.torn /\ ~stale[n].torn
        <3>1. stale'[n].torn = (s.stale.torn \/ stale[n].torn)
            BY <2>1
        <3>2. ~stale'[n].torn => ~s.stale.torn /\ ~stale[n].torn
            BY <3>1, Zenon
        <3> QED
            BY <2>1, <3>2
    <2>4. (~stale[n].torn => StaleOK(n))'
        BY <2>1, <2>2, <2>3 DEF StaleOK, Deleted, Installing
    <2>5. (snapshot[n] # NoSnapshot => WholeOK(snapshot[n]))' /\ WholeOK(incoming[n])'
        BY <1>1, <2>1 DEF NodeStale, WholeOK, OnlyDeleted, Deleted, Installing
    <2> QED
        BY <2>4, <2>5 DEF NodeStale
<1>3. CASE SetLastMembership(n)
    <2>1. /\ pc[n] = "membership" /\ pc'[n] = "swap"
          /\ UNCHANGED <<hist, lastApplied, snapshot, incoming>>
        BY <1>1, <1>3 DEF SetLastMembership, TypeOK
    <2>2. /\ stale'[n].row = stale[n].row /\ stale'[n].tag = stale[n].tag
          /\ stale'[n].torn = stale[n].torn
          /\ stale'[n].membership = incoming[n].stale.membership
        <3>1. stale' = [stale EXCEPT ![n] =
                          [stale[n] EXCEPT !.membership = incoming[n].stale.membership]]
            BY <1>3, Zenon DEF SetLastMembership
        <3>2. stale'[n] = [stale[n] EXCEPT !.membership = incoming[n].stale.membership]
            BY <1>1, <3>1
        <3> QED
            BY <1>1, <3>2 DEF Stale
    <2>3. (~stale[n].torn => StaleOK(n))'
        BY <1>1, <2>1, <2>2 DEF NodeStale, StaleOK, WholeOK, OnlyDeleted, Deleted, Installing
    <2>4. (snapshot[n] # NoSnapshot => WholeOK(snapshot[n]))' /\ WholeOK(incoming[n])'
        BY <1>1, <2>1 DEF NodeStale, WholeOK, OnlyDeleted, Deleted, Installing
    <2> QED
        BY <2>3, <2>4 DEF NodeStale
<1>4. CASE SwapStateMachine(n)
    <2>1. /\ pc[n] = "swap" /\ pc'[n] = "save"
          /\ UNCHANGED <<hist, lastApplied, snapshot, incoming, stale>>
        BY <1>1, <1>4 DEF SwapStateMachine, TypeOK
    <2> QED
        BY <1>1, <2>1 DEF NodeStale, StaleOK, WholeOK, OnlyDeleted, Deleted, Installing
<1>5. CASE SaveSnapshot(n)
    <2>1. /\ pc[n] = "save" /\ pc'[n] = "idle" /\ snapshot'[n] = incoming[n]
          /\ UNCHANGED <<hist, lastApplied, stale>>
        BY <1>1, <1>5 DEF SaveSnapshot, TypeOK
    <2> QED
        BY <1>1, <2>1 DEF NodeStale, StaleOK, WholeOK, OnlyDeleted, Deleted, Installing
<1> QED
    BY <1>2, <1>3, <1>4, <1>5

LEMMA NextStale == StaleInv /\ [Next]_vars => StaleInv'
<1> SUFFICES ASSUME StaleInv, [Next]_vars PROVE StaleInv'
    OBVIOUS
<1>1. IInv /\ TypeOK /\ IInv' /\ HistoryOK
    BY NextIInv DEF StaleInv, IInv
<1>2. ASSUME NEW a \in CommittedAction, NEW last \in BOOLEAN, Commit(a, last)
      PROVE  HistoryOK' /\ \A n \in Node : NodeStale(n)'
    BY <1>2, CommitStale
<1>3. ASSUME NEW n \in Node, NodeStep(n) PROVE HistoryOK' /\ \A m \in Node : NodeStale(m)'
    <2>1. NodeStale(n)'
        BY <1>3, OutsideStale, BatchesStale, InstallStale DEF NodeStep
    <2>2. UNCHANGED hist /\ OthersUnchanged(n)
        BY <1>1, <1>3, StepOthers
    <2>3. ASSUME NEW m \in Node, m # n PROVE NodeStale(m)'
        BY <2>2, <2>3, OthersStale DEF StaleInv, OthersUnchanged
    <2>4. HistoryOK'
        BY <1>1, <2>2, SameHistory
    <2> QED
        BY <2>1, <2>3, <2>4
<1>4. ASSUME UNCHANGED vars PROVE HistoryOK' /\ \A n \in Node : NodeStale(n)'
    <2>1. HistoryOK'
        BY <1>1, <1>4, SameHistory DEF vars
    <2>2. ASSUME NEW n \in Node PROVE NodeStale(n)'
        BY <1>4, OthersStale DEF StaleInv, vars
    <2> QED
        BY <2>1, <2>2
<1> QED
    BY <1>1, <1>2, <1>3, <1>4 DEF Next, StaleInv

-----------------------------------------------------------------------------
(***************************************************************************)
(* The theorems.                                                           *)
(***************************************************************************)

\* Every reachable state of the cluster satisfies IInv.
THEOREM Inductive == Spec => []IInv
BY InitIInv, NextIInv, PTL DEF Spec

\* The trees, the transactions and the snapshots of all nodes stay well typed.
THEOREM TypeCorrect == Spec => []TypeOK
<1>1. IInv => TypeOK
    BY DEF IInv
<1> QED
    BY <1>1, Inductive, PTL

\* Through apply_to_state_machine, install_snapshot and crashes in the middle of
\* either, a node's trees are what the log up to last_applied_log makes of empty
\* trees, outside of what install_snapshot wrote early or left behind.
THEOREM TreesFollowLog == Spec => []TablesFollowLog
<1>1. IInv => TablesFollowLog
    BY DEF IInv, NodeOK, TreesOK, Follows, TablesFollowLog
<1> QED
    BY <1>1, Inductive, PTL

\* So is every snapshot that build_snapshot or install_snapshot has stored.
THEOREM StoredSnapshotsFollowLog == Spec => []SnapshotsFollowLog
<1>1. IInv => SnapshotsFollowLog
    BY DEF IInv, NodeOK, TreesOK, SnapshotOK, Follows, SnapshotsFollowLog
<1> QED
    BY <1>1, Inductive, PTL

\* A node that has applied an entry that panics where nothing is stale had the
\* row from a snapshot that was installed over older trees.
THEOREM PoisonStopsEveryone == Spec => []NobodyPassesPoison
<1>1. IInv => NobodyPassesPoison
    BY DEF IInv, NodeOK, TreesOK, Follows, NobodyPassesPoison
<1> QED
    BY <1>1, Inductive, PTL

\* last_applied_log never goes back and never rests inside an entry: a commit of
\* the transaction moves it to the end of the batch, an install to the index of
\* a snapshot that is not behind, and a crash leaves it alone.
THEOREM AppliedForward == Spec => AppliedGoesForward
<1> DEFINE Forward == \A n \in Node : lastApplied'[n] >= lastApplied[n]
           Ends == \A n \in Node : lastApplied'[n] > 0 => log'[lastApplied'[n]].last
<1>1. IInv /\ [Next]_vars => Forward
    <2> SUFFICES ASSUME IInv, [Next]_vars PROVE Forward
        OBVIOUS
    <2>1. TypeOK /\ lastApplied \in [Node -> Nat]
        BY DEF IInv, TypeOK
    <2>2. CASE UNCHANGED lastApplied
        BY <2>1, <2>2
    <2>3. ASSUME NEW n \in Node, CommitApply(n) PROVE Forward
        <3>1. /\ lastApplied' = [lastApplied EXCEPT ![n] = batch[n].upto]
              /\ lastApplied[n] <= batch[n].upto
            BY <2>1, <2>3, NodeTypes DEF CommitApply, IInv, NodeOK, ApplyOK
        <3> QED
            BY <2>1, <3>1, NodeTypes
    <2>4. ASSUME NEW n \in Node, SetLastApplied(n) PROVE Forward
        <3>1. /\ lastApplied' = [lastApplied EXCEPT ![n] = incoming[n].index]
              /\ lastApplied[n] <= incoming[n].index /\ incoming[n] # NoSnapshot
            BY <2>4 DEF SetLastApplied, IInv, NodeOK, InstallOK, Installing
        <3>2. incoming[n].index \in Nat
            BY <2>1, <3>1, NodeTypes DEF Snapshot
        <3> QED
            BY <2>1, <3>1, <3>2
    <2>5. ASSUME NEW n \in Node, NodeStep(n), ~CommitApply(n), ~SetLastApplied(n)
          PROVE  UNCHANGED lastApplied
        BY <2>5 DEF NodeStep, BeginApply, ApplyOne, ApplyPanics, Notify, NotifyPanics,
           BuildSnapshot, InstallBlobs, InstallManifests, InstallTags, SetLastMembership,
           SwapStateMachine, SaveSnapshot, Crash, Start
    <2>6. ASSUME NEW a \in CommittedAction, NEW last \in BOOLEAN, Commit(a, last)
          PROVE  UNCHANGED lastApplied
        BY <2>6 DEF Commit
    <2> HIDE DEF Forward
    <2> QED
        BY <2>2, <2>3, <2>4, <2>5, <2>6 DEF Next, vars
<1>2. IInv' => Ends
    BY DEF IInv, NodeOK, TreesOK, AtEnd
<1>3. Forward /\ Ends => [\A n \in Node :
          /\ lastApplied'[n] >= lastApplied[n]
          /\ lastApplied'[n] > 0 => log'[lastApplied'[n]].last]_vars
    OBVIOUS
<1> HIDE DEF Forward, Ends
<1> QED
    BY <1>1, <1>2, <1>3, Inductive, PTL DEF Spec, AppliedGoesForward

\* The channels fit the rows at every moment between two calls.
THEOREM PendingInductive == Spec => []PendingInv
BY InitPending, NextPending, PTL DEF Spec

\* Whichever of apply_to_state_machine, from_serializable and RegistryStore::new
\* filled the channels, everything the node should mirror is in them, except for
\* rows that an install left behind.
THEOREM PendingIsComplete == Spec => []PendingComplete
<1>1. PendingInv => PendingComplete
    BY DEF PendingInv, PendingOK, Fits, PendingComplete, WantedKeys
<1> QED
    BY <1>1, PendingInductive, PTL

\* A mirror worker that reads the channels between two calls is never sent to
\* fetch what its node already holds.
THEOREM PendingIsNotHeld == Spec => []PendingNotHeld
<1>1. PendingInv => PendingNotHeld
    BY DEF PendingInv, PendingOK, Fits, PendingNotHeld
<1> QED
    BY <1>1, PendingInductive, PTL

\* What is stale where nothing is torn is deleted, in the trees, in the snapshots
\* and at the end of every install under way.
THEOREM StaleInductive == Spec => []StaleInv
BY InitStale, NextStale, PTL DEF Spec

\* An install that runs to its end, from a snapshot that was not read in the middle
\* of another, leaves behind only rows that the log had made and deleted again.
THEOREM LeftoversAreDeleted == Spec => []StaleIsDeleted
<1>1. StaleInv => StaleIsDeleted
    BY DEF StaleInv, NodeStale, StaleOK, OnlyDeleted, Deleted, StaleIsDeleted, Installing
<1> QED
    BY <1>1, StaleInductive, PTL

=============================================================================
