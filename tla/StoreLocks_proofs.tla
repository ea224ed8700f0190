-------------------------- MODULE StoreLocks_proofs --------------------------
(***************************************************************************)
(* Proofs of the safety properties of StoreLocks, for any readers, waiters *)
(* and number of entries.                                                  *)
(***************************************************************************)
EXTENDS StoreLocks, TLAPS

-----------------------------------------------------------------------------
(***************************************************************************)
(* The inductive invariant.                                                *)
(***************************************************************************)

\* How far a reader is, and what it has read.
ReaderOK ==
    \A r \in Reader :
        /\ r \in readers <=> reader[r] = "read"
        /\ reader[r] \in {"idle", "lock"} => got[r] = <<>>
        /\ reader[r] = "read" => Len(got[r]) < Len(Reads[r])
        /\ reader[r] \in {"number", "store"} => Len(got[r]) = Len(Reads[r])

\* The closure has waited for the readers; who comes in later has to wait for
\* the commit with its first read.
CommitOK == worker = "commit" => \A r \in readers : got[r] = <<>>

\* What an install has written so far.
InstallOK ==
    /\ worker = "install" =>
          /\ written < Len(Part)
          /\ \A i \in 1 .. written : part[Part[i]] = target
    /\ worker \in {"swap", "save"} => \A p \in Parts : part[p] = target

\* All the trees belong to one state.
Uniform == \A p, q \in Parts : part[p] = part[q]

\* Only an install that has begun to write, and not ended, mixes states, and it
\* marks the readers it meets.
MixedOK ==
    /\ (worker = "install" /\ written > 0) \/ Uniform
    /\ worker = "install" /\ written > 0 => readers \subseteq mixed

\* What a reader has read and no install has touched is what there is.
ReadOK ==
    \A r \in readers \ mixed : \A i \in DOMAIN got[r] : \A p \in Parts : got[r][i] = part[p]

\* Trees only go forward, and a stored snapshot is no newer than the trees.
SnapshotBehind == \A p \in Parts : snapshot[p] <= part[p] /\ part[p] <= target

ReadsBehind == \A r \in Reader : \A i \in DOMAIN got[r] : got[r][i] <= part[Reads[r][i]]

IInv ==
    /\ TypeOK
    /\ ReaderOK
    /\ CommitOK
    /\ InstallOK
    /\ MixedOK
    /\ ReadOK
    /\ ReadsAreOneState
    /\ SnapshotBehind
    /\ ReadsBehind

-----------------------------------------------------------------------------
LEMMA PartFacts ==
    /\ Len(Part) = 5 /\ DOMAIN Part = 1 .. 5
    /\ Parts = {"blobs", "manifests", "tags", "last_applied", "membership"}
    /\ \A i \in 1 .. 5 : Part[i] \in Parts
    /\ \A p \in Parts : \E i \in 1 .. 5 : Part[i] = p
BY DEF Part, Parts

\* What a reader reads next, and has read, are parts of the trees.
LEMMA ReadsFacts ==
    ASSUME NEW r \in Reader
    PROVE  /\ Reads[r] \in Seq(Parts) /\ Len(Reads[r]) \in Nat
           /\ \A i \in 1 .. Len(Reads[r]) : Reads[r][i] \in Parts
BY ReaderAssumption

LEMMA SeqFacts ==
    ASSUME NEW S, NEW s \in Seq(S)
    PROVE  /\ Len(s) \in Nat /\ DOMAIN s = 1 .. Len(s)
           /\ \A i \in DOMAIN s : s[i] \in S
OBVIOUS

LEMMA GotFacts ==
    ASSUME TypeOK, NEW r \in Reader
    PROVE  /\ got[r] \in Seq(0 .. MaxIndex)
           /\ Len(got[r]) \in Nat /\ DOMAIN got[r] = 1 .. Len(got[r])
           /\ Len(got[r]) <= Len(Reads[r])
           /\ \A i \in DOMAIN got[r] : got[r][i] \in 0 .. MaxIndex /\ Reads[r][i] \in Parts
<1>1. got[r] \in Seq(0 .. MaxIndex) /\ Len(got[r]) <= Len(Reads[r])
    BY DEF TypeOK
<1>2. Len(got[r]) \in Nat /\ DOMAIN got[r] = 1 .. Len(got[r])
    BY <1>1
<1>3. \A i \in DOMAIN got[r] : got[r][i] \in 0 .. MaxIndex
    BY <1>1, SeqFacts
<1>4. \A i \in DOMAIN got[r] : i \in 1 .. Len(Reads[r])
    BY <1>1, <1>2, ReadsFacts
<1> QED
    BY <1>1, <1>2, <1>3, <1>4, ReadsFacts

-----------------------------------------------------------------------------
(***************************************************************************)
(* apply_to_state_machine.                                                 *)
(***************************************************************************)
LEMMA BeginTransactionStep ==
    ASSUME IInv, BeginTransaction
    PROVE  IInv'
<1> USE DEF IInv, BeginTransaction, readerVars
<1>1. TypeOK'
    BY BoundsAssumption DEF TypeOK
<1>2. ReaderOK' /\ CommitOK' /\ InstallOK'
    BY DEF ReaderOK, CommitOK, InstallOK
<1>3. MixedOK' /\ ReadOK' /\ ReadsAreOneState'
    BY DEF MixedOK, Uniform, ReadOK, ReadsAreOneState
<1>4. SnapshotBehind'
    BY BoundsAssumption DEF SnapshotBehind, TypeOK
<1>5. ReadsBehind'
    BY DEF ReadsBehind
<1> QED
    BY <1>1, <1>2, <1>3, <1>4, <1>5

LEMMA RunClosureStep ==
    ASSUME IInv, RunClosure
    PROVE  IInv'
<1> USE DEF IInv, RunClosure, lockVars, readerVars
<1>1. TypeOK'
    BY DEF TypeOK
<1>2. ReaderOK' /\ CommitOK' /\ InstallOK'
    BY DEF ReaderOK, CommitOK, InstallOK, CanWrite
<1>3. MixedOK' /\ ReadOK' /\ ReadsAreOneState'
    BY DEF MixedOK, Uniform, ReadOK, ReadsAreOneState
<1>4. SnapshotBehind' /\ ReadsBehind'
    BY DEF SnapshotBehind, ReadsBehind
<1> QED
    BY <1>1, <1>2, <1>3, <1>4

\* The readers that hold the lock have read nothing, so that they read no
\* mixture of the state before and the state after.
LEMMA CommitTransactionStep ==
    ASSUME IInv, CommitTransaction
    PROVE  IInv'
<1> USE DEF IInv, CommitTransaction, readerVars
<1>1. TypeOK'
    BY DEF TypeOK
<1>2. ReaderOK' /\ CommitOK' /\ InstallOK'
    BY DEF ReaderOK, CommitOK, InstallOK
<1>3. \A p \in Parts : part[p] \in 0 .. MaxIndex /\ part[p] <= target /\ part'[p] = target
    BY DEF TypeOK, SnapshotBehind
<1>4. MixedOK'
    BY <1>3 DEF MixedOK, Uniform
<1>5. \A r \in readers : DOMAIN got[r] = {}
    BY DEF CommitOK
<1>6. ReadOK' /\ ReadsAreOneState'
    BY <1>5 DEF ReadOK, ReadsAreOneState
<1>7. SnapshotBehind'
    BY <1>3, BoundsAssumption DEF TypeOK, SnapshotBehind
<1>8. ReadsBehind'
    <2> SUFFICES ASSUME NEW r \in Reader, NEW i \in DOMAIN got[r]
                 PROVE  got[r][i] <= target
        BY <1>3, GotFacts DEF ReadsBehind
    <2>1. got[r][i] \in 0 .. MaxIndex /\ Reads[r][i] \in Parts
        BY GotFacts
    <2>2. got[r][i] <= part[Reads[r][i]]
        BY DEF ReadsBehind
    <2> QED
        BY <1>3, <2>1, <2>2, BoundsAssumption DEF TypeOK
<1> QED
    BY <1>1, <1>2, <1>4, <1>6, <1>7, <1>8

LEMMA NotifyStep ==
    ASSUME IInv, Notify
    PROVE  IInv'
<1> USE DEF IInv, Notify, lockVars, readerVars
<1>1. TypeOK'
    BY DEF TypeOK
<1>2. ReaderOK' /\ CommitOK' /\ InstallOK'
    BY DEF ReaderOK, CommitOK, InstallOK
<1>3. MixedOK' /\ ReadOK' /\ ReadsAreOneState'
    BY DEF MixedOK, Uniform, ReadOK, ReadsAreOneState
<1>4. SnapshotBehind' /\ ReadsBehind'
    BY DEF SnapshotBehind, ReadsBehind
<1> QED
    BY <1>1, <1>2, <1>3, <1>4

-----------------------------------------------------------------------------
(***************************************************************************)
(* install_snapshot.                                                       *)
(***************************************************************************)
LEMMA BeginInstallStep ==
    ASSUME IInv, NEW index \in 1 .. MaxIndex, BeginInstall(index)
    PROVE  IInv'
<1> USE DEF IInv, BeginInstall, lockVars, readerVars
<1>1. target \in 0 .. MaxIndex /\ target' \in 0 .. MaxIndex /\ target < target'
    BY BoundsAssumption DEF TypeOK
<1>2. TypeOK'
    <2>1. written' \in 0 .. Len(Part)
        BY PartFacts
    <2>2. /\ worker' = "install" /\ worker = "idle"
          /\ UNCHANGED <<readers, writer, transaction, part, reader, got, mixed, waiter, snapshot>>
        OBVIOUS
    <2>3. transaction' <=> worker' \in {"closure", "commit"}
        BY <2>2 DEF TypeOK
    <2> QED
        BY <1>1, <2>1, <2>2, <2>3 DEF TypeOK
<1>3. ReaderOK' /\ CommitOK' /\ InstallOK'
    BY PartFacts DEF ReaderOK, CommitOK, InstallOK
<1>4. MixedOK' /\ ReadOK' /\ ReadsAreOneState'
    BY DEF MixedOK, Uniform, ReadOK, ReadsAreOneState
<1>5. SnapshotBehind'
    BY <1>1, BoundsAssumption DEF SnapshotBehind, TypeOK
<1>6. ReadsBehind'
    BY DEF ReadsBehind
<1> QED
    BY <1>2, <1>3, <1>4, <1>5, <1>6

\* One more tree is ahead of the others: every reader it meets is marked.
LEMMA InstallPartStep ==
    ASSUME IInv, InstallPart
    PROVE  IInv'
<1> USE DEF IInv, InstallPart, lockVars
<1>1. /\ written \in 0 .. 4 /\ written' = written + 1 /\ Part[written'] \in Parts
      /\ target \in 0 .. MaxIndex
      /\ worker' = IF written' = 5 THEN "swap" ELSE "install"
    <2>1. written \in 0 .. 4 /\ target \in 0 .. MaxIndex
        BY PartFacts DEF TypeOK, InstallOK
    <2>2. written' = written + 1 /\ worker' = IF written' = 5 THEN "swap" ELSE "install"
        BY PartFacts
    <2>3. written' \in 1 .. 5
        BY <2>1, <2>2
    <2> QED
        BY <2>1, <2>2, <2>3, PartFacts
<1>2. /\ part' \in [Parts -> 0 .. MaxIndex]
      /\ \A p \in Parts : part'[p] = IF p = Part[written'] THEN target ELSE part[p]
    BY <1>1 DEF TypeOK
<1>3. TypeOK'
    <2>1. written' \in 0 .. Len(Part)
        BY <1>1, PartFacts
    <2>2. /\ worker' \in {"install", "swap"} /\ worker = "install" /\ mixed' \subseteq Reader
          /\ UNCHANGED <<readers, writer, transaction, target, reader, got, waiter, snapshot>>
        BY <1>1 DEF TypeOK
    <2> QED
        BY <1>2, <2>1, <2>2 DEF TypeOK
<1>4. ReaderOK' /\ CommitOK'
    BY DEF ReaderOK, CommitOK
<1>5. \A i \in 1 .. written' : part'[Part[i]] = target
    <2> TAKE i \in 1 .. written'
    <2>1. i \in 1 .. 5 /\ Part[i] \in Parts
        BY <1>1, PartFacts
    <2>2. CASE i = written'
        BY <1>2, <2>1, <2>2
    <2>3. CASE i # written'
        <3>1. i \in 1 .. written
            BY <1>1, <2>3
        <3>2. part[Part[i]] = target
            BY <3>1 DEF InstallOK
        <3> QED
            BY <1>2, <2>1, <3>2
    <2> QED
        BY <2>2, <2>3
<1>6. written' = 5 => \A p \in Parts : part'[p] = target
    BY <1>5, PartFacts
<1>7. InstallOK'
    BY <1>1, <1>5, <1>6, PartFacts DEF InstallOK
<1>8. readers \subseteq mixed'
    BY DEF ReaderOK, TypeOK
<1>9. MixedOK'
    BY <1>1, <1>6, <1>8 DEF MixedOK, Uniform
<1>10. ReadOK' /\ ReadsAreOneState'
    BY <1>8 DEF ReadOK, ReadsAreOneState
<1>11. \A p \in Parts : part[p] \in 0 .. MaxIndex /\ part[p] <= part'[p] /\ part'[p] <= target
    BY <1>1, <1>2, BoundsAssumption DEF TypeOK, SnapshotBehind
<1>12. SnapshotBehind'
    BY <1>2, <1>11, BoundsAssumption DEF TypeOK, SnapshotBehind
<1>13. ReadsBehind'
    <2> SUFFICES ASSUME NEW r \in Reader, NEW i \in DOMAIN got[r]
                 PROVE  got[r][i] <= part'[Reads[r][i]]
        BY DEF ReadsBehind
    <2>1. got[r][i] \in 0 .. MaxIndex /\ Reads[r][i] \in Parts
        BY GotFacts
    <2>2. got[r][i] <= part[Reads[r][i]]
        BY DEF ReadsBehind
    <2> QED
        BY <1>2, <1>11, <2>1, <2>2, BoundsAssumption
<1> QED
    BY <1>3, <1>4, <1>7, <1>9, <1>10, <1>12, <1>13

LEMMA SwapStep ==
    ASSUME IInv, Swap
    PROVE  IInv'
<1> USE DEF IInv, Swap, lockVars, readerVars
<1>1. TypeOK'
    BY DEF TypeOK
<1>2. ReaderOK' /\ CommitOK' /\ InstallOK'
    BY DEF ReaderOK, CommitOK, InstallOK
<1>3. MixedOK' /\ ReadOK' /\ ReadsAreOneState'
    BY DEF MixedOK, Uniform, ReadOK, ReadsAreOneState
<1>4. SnapshotBehind' /\ ReadsBehind'
    BY DEF SnapshotBehind, ReadsBehind
<1> QED
    BY <1>1, <1>2, <1>3, <1>4

\* A build that is under way is marked: it may be older than this snapshot.
LEMMA SaveInstalledStep ==
    ASSUME IInv, SaveInstalled
    PROVE  IInv'
<1> USE DEF IInv, SaveInstalled, lockVars
<1>1. TypeOK'
    BY DEF TypeOK
<1>2. ReaderOK' /\ CommitOK' /\ InstallOK'
    BY DEF ReaderOK, CommitOK, InstallOK
<1>3. mixed \subseteq mixed'
    OBVIOUS
<1>4. MixedOK'
    BY DEF MixedOK, Uniform
<1>5. ReadOK'
    BY <1>3 DEF ReadOK
<1>6. ReadsAreOneState'
    BY <1>3 DEF ReadsAreOneState
<1>7. SnapshotBehind'
    BY BoundsAssumption DEF SnapshotBehind, InstallOK, TypeOK
<1>8. ReadsBehind'
    BY DEF ReadsBehind
<1> QED
    BY <1>1, <1>2, <1>4, <1>5, <1>6, <1>7, <1>8

-----------------------------------------------------------------------------
(***************************************************************************)
(* build_snapshot, GET /export and do_transfer.                            *)
(***************************************************************************)
LEMMA AskStep ==
    ASSUME IInv, NEW r \in Reader, Ask(r)
    PROVE  IInv'
<1> USE DEF IInv, Ask, lockVars, workerVars
<1>1. TypeOK'
    BY DEF TypeOK
<1>2. ReaderOK'
    BY DEF ReaderOK, TypeOK
<1>3. CommitOK' /\ InstallOK' /\ MixedOK' /\ ReadOK' /\ ReadsAreOneState'
    BY DEF CommitOK, InstallOK, MixedOK, Uniform, ReadOK, ReadsAreOneState
<1>4. SnapshotBehind' /\ ReadsBehind'
    BY DEF SnapshotBehind, ReadsBehind
<1> QED
    BY <1>1, <1>2, <1>3, <1>4

LEMMA LockForReadingStep ==
    ASSUME IInv, NEW r \in Reader, LockForReading(r)
    PROVE  IInv'
<1> USE DEF IInv, LockForReading, workerVars
<1>1. /\ got[r] = <<>> /\ Len(got[r]) = 0 /\ DOMAIN got[r] = {}
      /\ Reads[r] # <<>> /\ Len(Reads[r]) > 0
    BY ReaderAssumption DEF ReaderOK
<1>2. TypeOK'
    BY DEF TypeOK, CanRead
<1>3. ReaderOK'
    BY <1>1 DEF ReaderOK, TypeOK
<1>4. CommitOK'
    BY <1>1 DEF CommitOK
<1>5. InstallOK'
    BY DEF InstallOK
<1>6. mixed \subseteq mixed' /\ (worker = "install" => r \in mixed')
    OBVIOUS
<1>7. MixedOK'
    BY <1>6 DEF MixedOK, Uniform
<1>8. ReadOK'
    BY <1>1, <1>6 DEF ReadOK
<1>9. ReadsAreOneState'
    BY <1>6 DEF ReadsAreOneState
<1>10. SnapshotBehind' /\ ReadsBehind'
    BY <1>6 DEF SnapshotBehind, ReadsBehind
<1> QED
    BY <1>2, <1>3, <1>4, <1>5, <1>7, <1>8, <1>9, <1>10

\* A reader that is not marked finds all the trees at the state of its reads.
LEMMA ReadPartStep ==
    ASSUME IInv, NEW r \in Reader, ReadPart(r)
    PROVE  IInv'
<1> USE DEF IInv
<1> DEFINE n == Len(got[r])
           v == part[Reads[r][n + 1]]
<1>1. r \in readers /\ n \in Nat /\ n < Len(Reads[r]) /\ n + 1 \in 1 .. Len(Reads[r])
    BY GotFacts, ReadsFacts DEF ReaderOK, ReadPart
<1>2. Reads[r][n + 1] \in Parts /\ v \in 0 .. MaxIndex
    BY <1>1, ReadsFacts DEF TypeOK
<1>3. got' = [got EXCEPT ![r] = Append(got[r], v)]
    BY DEF ReadPart
<1>4. /\ got' \in [Reader -> Seq(0 .. MaxIndex)]
      /\ got'[r] = Append(got[r], v)
      /\ \A q \in Reader \ {r} : got'[q] = got[q]
    <2>1. got \in [Reader -> Seq(0 .. MaxIndex)]
        BY DEF TypeOK
    <2>2. Append(got[r], v) \in Seq(0 .. MaxIndex)
        BY <1>2, <2>1
    <2> QED
        BY <1>3, <2>1, <2>2
<1>5. /\ Len(got'[r]) = n + 1 /\ DOMAIN got'[r] = 1 .. n + 1 /\ got'[r][n + 1] = v
      /\ \A i \in 1 .. n : got'[r][i] = got[r][i]
    BY <1>1, <1>2, <1>4, GotFacts
<1>6. /\ DOMAIN got[r] = 1 .. n
      /\ \A i \in DOMAIN got'[r] : i \in DOMAIN got[r] \/ i = n + 1
    BY <1>1, <1>5, GotFacts
<1>7. /\ UNCHANGED <<writer, transaction, worker, target, written, mixed, part, waiter, snapshot>>
      /\ IF n + 1 = Len(Reads[r])
         THEN readers' = readers \ {r} /\ reader' = [reader EXCEPT ![r] = "number"]
         ELSE UNCHANGED <<readers, reader>>
      /\ reader[r] = "read" /\ ~transaction
    BY <1>5 DEF ReadPart, workerVars
<1>8. TypeOK'
    <2>1. \A q \in Reader : Len(got'[q]) <= Len(Reads[q])
        <3> TAKE q \in Reader
        <3>1. CASE q = r
            BY <1>1, <1>5, <3>1, ReadsFacts
        <3>2. CASE q # r
            BY <1>4, <3>2 DEF TypeOK
        <3> QED
            BY <3>1, <3>2
    <2>2. readers' \subseteq readers
        BY <1>7
    <2>3. reader' \in [Reader -> {"idle", "lock", "read", "number", "store"}]
        BY <1>7 DEF TypeOK
    <2> QED
        BY <1>4, <1>7, <2>1, <2>2, <2>3 DEF TypeOK
<1>9. ReaderOK'
    BY <1>1, <1>4, <1>5, <1>7 DEF ReaderOK, TypeOK
<1>10. CommitOK' /\ InstallOK' /\ MixedOK' /\ SnapshotBehind'
    BY <1>7 DEF TypeOK, CommitOK, InstallOK, MixedOK, Uniform, SnapshotBehind
<1>11. r \in mixed \/ (\A p \in Parts : v = part[p])
    BY <1>1, <1>2 DEF MixedOK, Uniform
<1>12. \A i \in DOMAIN got'[r] : r \in mixed \/ (\A p \in Parts : got'[r][i] = part[p])
    BY <1>1, <1>5, <1>6, <1>11 DEF ReadOK
<1>13. ReadOK'
    <2> SUFFICES ASSUME NEW q \in readers' \ mixed', NEW i \in DOMAIN got'[q], NEW p \in Parts
                 PROVE  got'[q][i] = part'[p]
        BY DEF ReadOK
    <2>1. q \in readers /\ q \in Reader /\ q \notin mixed /\ part' = part
        BY <1>7 DEF TypeOK
    <2>2. CASE q = r
        BY <1>12, <2>1, <2>2
    <2>3. CASE q # r
        <3>1. got'[q] = got[q]
            BY <1>4, <2>1, <2>3
        <3> QED
            BY <2>1, <3>1 DEF ReadOK
    <2> QED
        BY <2>2, <2>3
<1>14. ReadsAreOneState'
    <2>1. \A i, j \in DOMAIN got'[r] : r \in mixed \/ got'[r][i] = got'[r][j]
        BY <1>2, <1>12
    <2> QED
        <3> SUFFICES ASSUME NEW q \in Reader \ mixed, NEW i \in DOMAIN got'[q],
                            NEW j \in DOMAIN got'[q]
                     PROVE  got'[q][i] = got'[q][j]
            BY <1>7 DEF ReadsAreOneState
        <3>1. CASE q = r
            BY <2>1, <3>1
        <3>2. CASE q # r
            BY <1>4, <3>2 DEF ReadsAreOneState
        <3> QED
            BY <3>1, <3>2
<1>15. \A i \in DOMAIN got'[r] : got'[r][i] <= part[Reads[r][i]]
    <2>1. \A i \in DOMAIN got[r] : got'[r][i] <= part[Reads[r][i]]
        BY <1>5, <1>6 DEF ReadsBehind
    <2>2. got'[r][n + 1] <= part[Reads[r][n + 1]]
        BY <1>2, <1>5, BoundsAssumption
    <2> QED
        BY <1>6, <2>1, <2>2
<1>16. ReadsBehind'
    BY <1>4, <1>7, <1>15 DEF ReadsBehind
<1> QED
    BY <1>8, <1>9, <1>10, <1>13, <1>14, <1>16

\* A reader that is no build forgets what it has read.
LEMMA NumberStep ==
    ASSUME IInv, NEW r \in Reader, Number(r)
    PROVE  IInv'
<1> USE DEF IInv
<1>1. CASE r = Builder
    <2>1. /\ reader[r] = "number" /\ reader' = [reader EXCEPT ![r] = "store"]
          /\ UNCHANGED <<lockVars, workerVars, got, mixed, part, waiter, snapshot>>
        BY <1>1 DEF Number
    <2> USE DEF lockVars, workerVars
    <2>2. TypeOK' /\ ReaderOK'
        BY <2>1 DEF TypeOK, ReaderOK
    <2>3. CommitOK' /\ InstallOK' /\ MixedOK' /\ ReadOK' /\ ReadsAreOneState'
        BY <2>1 DEF CommitOK, InstallOK, MixedOK, Uniform, ReadOK, ReadsAreOneState
    <2>4. SnapshotBehind' /\ ReadsBehind'
        BY <2>1 DEF SnapshotBehind, ReadsBehind
    <2> QED
        BY <2>2, <2>3, <2>4
<1>2. CASE r # Builder
    <2>1. /\ reader[r] = "number" /\ reader' = [reader EXCEPT ![r] = "idle"]
          /\ got' = [got EXCEPT ![r] = <<>>] /\ mixed' = mixed \ {r}
          /\ UNCHANGED <<lockVars, workerVars, part, waiter, snapshot>>
        BY <1>2 DEF Number
    <2> USE DEF lockVars, workerVars
    <2>2. /\ got' \in [Reader -> Seq(0 .. MaxIndex)]
          /\ got'[r] = <<>> /\ Len(got'[r]) = 0 /\ DOMAIN got'[r] = {}
          /\ \A q \in Reader \ {r} : got'[q] = got[q]
        BY <2>1 DEF TypeOK
    <2>3. r \notin readers
        BY <2>1 DEF ReaderOK
    <2>4. TypeOK'
        BY <2>1, <2>2, ReadsFacts DEF TypeOK
    <2>5. ReaderOK'
        BY <2>1, <2>2 DEF TypeOK, ReaderOK
    <2>6. CommitOK' /\ InstallOK' /\ MixedOK'
        BY <2>1, <2>2, <2>3 DEF TypeOK, CommitOK, InstallOK, MixedOK, Uniform
    <2>7. ReadOK'
        BY <2>1, <2>2, <2>3 DEF TypeOK, ReadOK
    <2>8. ReadsAreOneState'
        BY <2>1, <2>2 DEF ReadsAreOneState
    <2>9. SnapshotBehind' /\ ReadsBehind'
        BY <2>1, <2>2 DEF SnapshotBehind, ReadsBehind
    <2> QED
        BY <2>4, <2>5, <2>6, <2>7, <2>8, <2>9
<1> QED
    BY <1>1, <1>2

\* What a build stores is no newer than the trees.
LEMMA SavedPart ==
    ASSUME IInv, SaveBuilt, NEW p \in Parts
    PROVE  /\ snapshot'[p] \in 0 .. MaxIndex
           /\ snapshot'[p] <= part[p]
<1> DEFINE j == CHOOSE i \in DOMAIN Part : Part[i] = p
<1>1. j \in 1 .. 5 /\ Part[j] = p
    BY PartFacts
<1>2. snapshot'[p] = got[Builder][j]
    BY DEF SaveBuilt
<1>3. DOMAIN got[Builder] = 1 .. 5 /\ Reads[Builder] = Part
    BY PartFacts, BuilderAssumption, ReaderAssumption, GotFacts DEF IInv, ReaderOK, SaveBuilt
<1> HIDE DEF j
<1> QED
    BY <1>1, <1>2, <1>3, GotFacts, ReaderAssumption DEF IInv, ReadsBehind

LEMMA SaveBuiltStep ==
    ASSUME IInv, SaveBuilt
    PROVE  IInv'
<1> USE DEF IInv
<1>1. /\ reader[Builder] = "store" /\ reader' = [reader EXCEPT ![Builder] = "idle"]
      /\ got' = [got EXCEPT ![Builder] = <<>>] /\ mixed' = mixed \ {Builder}
      /\ UNCHANGED <<lockVars, workerVars, part, waiter>>
      /\ DOMAIN snapshot' = Parts
    BY DEF SaveBuilt
<1> USE DEF lockVars, workerVars
<1>2. /\ got' \in [Reader -> Seq(0 .. MaxIndex)] /\ Builder \in Reader
      /\ got'[Builder] = <<>> /\ Len(got'[Builder]) = 0 /\ DOMAIN got'[Builder] = {}
      /\ \A q \in Reader \ {Builder} : got'[q] = got[q]
    BY <1>1, ReaderAssumption DEF TypeOK
<1>3. Builder \notin readers
    BY <1>1, <1>2 DEF ReaderOK
<1>4. snapshot' \in [Parts -> 0 .. MaxIndex]
    <2>1. snapshot' = [p \in Parts |-> snapshot'[p]]
        BY DEF SaveBuilt
    <2> QED
        BY <2>1, SavedPart
<1>5. TypeOK'
    BY <1>1, <1>2, <1>4, ReadsFacts DEF TypeOK
<1>6. ReaderOK'
    BY <1>1, <1>2 DEF TypeOK, ReaderOK
<1>7. CommitOK' /\ InstallOK' /\ MixedOK'
    BY <1>1, <1>2, <1>3 DEF TypeOK, CommitOK, InstallOK, MixedOK, Uniform
<1>8. ReadOK'
    BY <1>1, <1>2, <1>3 DEF TypeOK, ReadOK
<1>9. ReadsAreOneState'
    BY <1>1, <1>2 DEF ReadsAreOneState
<1>10. SnapshotBehind'
    BY <1>1, SavedPart DEF SnapshotBehind
<1>11. ReadsBehind'
    BY <1>1, <1>2 DEF ReadsBehind
<1> QED
    BY <1>5, <1>6, <1>7, <1>8, <1>9, <1>10, <1>11

-----------------------------------------------------------------------------
(***************************************************************************)
(* wait_for_blob and wait_for_manifest.                                    *)
(***************************************************************************)
LEMMA WaiterSteps ==
    ASSUME IInv, NEW w \in Waiter, AskToWait(w) \/ LockForWaiting(w) \/ Push(w)
    PROVE  IInv'
<1>1. UNCHANGED <<readers, transaction, workerVars, readerVars, part, snapshot>>
    BY DEF AskToWait, LockForWaiting, Push, lockVars
<1> USE DEF IInv, workerVars, readerVars
<1>2. /\ waiter' \in [Waiter -> {"idle", "lock", "push", "pushed"}]
      /\ writer' \in BOOLEAN /\ (readers = {} \/ ~writer')
    <2>1. /\ waiter \in [Waiter -> {"idle", "lock", "push", "pushed"}]
          /\ writer \in BOOLEAN /\ (readers = {} \/ ~writer)
        BY DEF TypeOK
    <2>2. CASE AskToWait(w)
        BY <2>1, <2>2 DEF AskToWait, lockVars
    <2>3. CASE LockForWaiting(w)
        BY <2>1, <2>3 DEF LockForWaiting, CanWrite
    <2>4. CASE Push(w)
        BY <2>1, <2>4 DEF Push
    <2> QED
        BY <2>2, <2>3, <2>4
<1>3. TypeOK'
    BY <1>1, <1>2 DEF TypeOK
<1>4. ReaderOK' /\ CommitOK' /\ InstallOK' /\ MixedOK' /\ ReadOK' /\ ReadsAreOneState'
    BY <1>1 DEF ReaderOK, CommitOK, InstallOK, MixedOK, Uniform, ReadOK, ReadsAreOneState
<1>5. SnapshotBehind' /\ ReadsBehind'
    BY <1>1 DEF SnapshotBehind, ReadsBehind
<1> QED
    BY <1>3, <1>4, <1>5

-----------------------------------------------------------------------------
(***************************************************************************)
(* The theorems.                                                           *)
(***************************************************************************)
LEMMA InitIInv == Init => IInv
<1> SUFFICES ASSUME Init PROVE IInv
    OBVIOUS
<1> USE DEF Init
<1>1. TypeOK
    <2>1. \A r \in Reader : got[r] = <<>> /\ Len(got[r]) = 0
        OBVIOUS
    <2> QED
        <3>1. /\ target \in 0 .. MaxIndex /\ written \in 0 .. Len(Part)
              /\ part \in [Parts -> 0 .. MaxIndex] /\ snapshot \in [Parts -> 0 .. MaxIndex]
            BY PartFacts, BoundsAssumption
        <3>2. got \in [Reader -> Seq(0 .. MaxIndex)]
            OBVIOUS
        <3>3. \A r \in Reader : Len(got[r]) <= Len(Reads[r])
            <4> TAKE r \in Reader
            <4>1. Len(got[r]) = 0 /\ Len(Reads[r]) \in Nat
                BY <2>1, ReadsFacts
            <4> QED
                BY <4>1
        <3> QED
            BY <3>1, <3>2, <3>3 DEF TypeOK
<1>2. ReaderOK
    BY DEF ReaderOK
<1>3. CommitOK /\ InstallOK /\ MixedOK /\ ReadOK
    BY DEF CommitOK, InstallOK, MixedOK, Uniform, ReadOK
<1>4. \A r \in Reader : DOMAIN got[r] = {}
    <2> TAKE r \in Reader
    <2>1. got[r] = <<>>
        OBVIOUS
    <2> QED
        BY <2>1
<1>5. ReadsAreOneState /\ ReadsBehind
    BY <1>4, ReaderAssumption DEF ReadsAreOneState, ReadsBehind
<1>6. SnapshotBehind
    BY DEF SnapshotBehind
<1> QED
    BY <1>1, <1>2, <1>3, <1>5, <1>6 DEF IInv

LEMMA NextIInv == IInv /\ [Next]_vars => IInv'
<1> SUFFICES ASSUME IInv, [Next]_vars PROVE IInv'
    OBVIOUS
<1>1. CASE BeginTransaction
    BY <1>1, BeginTransactionStep
<1>2. ASSUME NEW index \in 1 .. MaxIndex, BeginInstall(index) PROVE IInv'
    BY <1>2, BeginInstallStep
<1>3. CASE WorkerStep
    BY <1>3, RunClosureStep, CommitTransactionStep, NotifyStep, InstallPartStep, SwapStep,
       SaveInstalledStep DEF WorkerStep
<1>4. ASSUME NEW r \in Reader, Ask(r) \/ ReaderStep(r) PROVE IInv'
    BY <1>4, AskStep, LockForReadingStep, ReadPartStep, NumberStep, SaveBuiltStep DEF ReaderStep
<1>5. ASSUME NEW w \in Waiter, AskToWait(w) \/ WaiterStep(w) PROVE IInv'
    BY <1>5, WaiterSteps DEF WaiterStep
<1>6. CASE UNCHANGED vars
    <2> USE <1>6 DEF vars, lockVars, workerVars, readerVars, IInv
    <2>1. TypeOK' /\ ReaderOK' /\ CommitOK' /\ InstallOK'
        BY DEF TypeOK, ReaderOK, CommitOK, InstallOK
    <2>2. MixedOK' /\ ReadOK' /\ ReadsAreOneState'
        BY DEF MixedOK, Uniform, ReadOK, ReadsAreOneState
    <2>3. SnapshotBehind' /\ ReadsBehind'
        BY DEF SnapshotBehind, ReadsBehind
    <2> QED
        BY <2>1, <2>2, <2>3
<1> QED
    BY <1>1, <1>2, <1>3, <1>4, <1>5, <1>6 DEF Next

\* The invariant is inductive: any number of readers, waiters and entries.
THEOREM Inductive == Spec => []IInv
BY InitIInv, NextIInv, PTL DEF Spec

\* The locks are never held in a way std::sync::RwLock and sled rule out, and
\* everything else keeps its type.
THEOREM TypeCorrect == Spec => []TypeOK
<1>1. IInv => TypeOK
    BY DEF IInv
<1> QED
    BY <1>1, Inductive, PTL

\* build_snapshot, GET /export and do_transfer read one state under the read
\* lock, although a reader may be let in between the closure of a transaction
\* and its commit: its first read then waits for the commit.
THEOREM OneStateRead == Spec => []ReadsAreOneState
<1>1. IInv => ReadsAreOneState
    BY DEF IInv
<1> QED
    BY <1>1, Inductive, PTL

-----------------------------------------------------------------------------
(***************************************************************************)
(* Who waits for whom.                                                     *)
(***************************************************************************)

\* A lock that is held for writing is held by a GET that registers, which waits
\* for nothing while it has it.
WriterOK ==
    /\ writer => \E w \in Waiter : waiter[w] = "push"
    /\ \A r \in Reader : reader[r] = "store" => r = Builder

LockInv == IInv /\ WriterOK

LEMMA InitLock == Init => LockInv
BY InitIInv DEF Init, LockInv, WriterOK

LEMMA NextLock == LockInv /\ [Next]_vars => LockInv'
<1> SUFFICES ASSUME LockInv, [Next]_vars PROVE WriterOK'
    BY NextIInv DEF LockInv
<1> USE DEF LockInv, WriterOK
<1>1. reader \in [Reader -> {"idle", "lock", "read", "number", "store"}]
    BY DEF IInv, TypeOK
<1>2. waiter \in [Waiter -> {"idle", "lock", "push", "pushed"}]
    BY DEF IInv, TypeOK
<1>3. CASE BeginTransaction \/ WorkerStep \/ UNCHANGED vars
    BY <1>3 DEF BeginTransaction, WorkerStep, RunClosure, CommitTransaction, Notify, InstallPart,
       Swap, SaveInstalled, vars, lockVars, readerVars
<1>4. ASSUME NEW index \in 1 .. MaxIndex, BeginInstall(index) PROVE WriterOK'
    BY <1>4 DEF BeginInstall, lockVars, readerVars
<1>5. ASSUME NEW r \in Reader, Ask(r) \/ ReaderStep(r) PROVE WriterOK'
    <2>1. writer' = writer /\ waiter' = waiter
        BY <1>5 DEF Ask, ReaderStep, LockForReading, ReadPart, Number, SaveBuilt, lockVars
    <2>2. \A q \in Reader : reader'[q] = "store" => q = Builder
        BY <1>1, <1>5 DEF Ask, ReaderStep, LockForReading, ReadPart, Number, SaveBuilt
    <2> QED
        BY <2>1, <2>2
<1>6. ASSUME NEW w \in Waiter, AskToWait(w) \/ WaiterStep(w) PROVE WriterOK'
    <2>1. reader' = reader
        BY <1>6 DEF AskToWait, WaiterStep, LockForWaiting, Push, readerVars
    <2>2. CASE AskToWait(w)
        BY <1>2, <2>1, <2>2 DEF AskToWait, lockVars
    <2>3. CASE LockForWaiting(w)
        BY <1>2, <2>1, <2>3 DEF LockForWaiting
    <2>4. CASE Push(w)
        BY <2>1, <2>4 DEF Push
    <2> QED
        BY <1>6, <2>2, <2>3, <2>4 DEF WaiterStep
<1> QED
    BY <1>3, <1>4, <1>5, <1>6 DEF Next

\* Of any number of tasks that apply, install, read and register, one can always
\* go on, unless the closure of apply_to_state_machine waits for the write lock
\* while a reader has the read lock.
THEOREM OnlyDeadlock == Spec => []NoOtherDeadlock
<1>1. ASSUME LockInv, UnderWay, ~Stuck PROVE SomeoneCanGoOn
    <2>1. /\ transaction <=> worker \in {"closure", "commit"}
          /\ worker \in {"idle", "closure", "commit", "notify", "install", "swap", "save"}
          /\ readers \subseteq Reader
          /\ reader \in [Reader -> {"idle", "lock", "read", "number", "store"}]
          /\ \A r \in Reader : r \in readers <=> reader[r] = "read"
        BY <1>1 DEF LockInv, IInv, TypeOK, ReaderOK
    <2>2. CASE writer
        BY <1>1, <2>2 DEF LockInv, WriterOK, SomeoneCanGoOn
    <2>3. CASE ~writer /\ readers # {}
        <3>1. PICK r \in Reader : reader[r] = "read"
            BY <2>1, <2>3
        <3>2. worker # "closure"
            BY <1>1, <2>3 DEF Stuck
        <3> QED
            BY <2>1, <3>1, <3>2 DEF SomeoneCanGoOn
    <2>4. CASE ~writer /\ readers = {}
        <3>1. CanWrite
            BY <2>4 DEF CanWrite
        <3>2. CASE worker # "idle"
            BY <2>1, <3>1, <3>2 DEF SomeoneCanGoOn
        <3>3. CASE \E w \in Waiter : waiter[w] \in {"lock", "push"}
            BY <3>1, <3>3 DEF SomeoneCanGoOn
        <3>4. CASE /\ worker = "idle" /\ ~(\E w \in Waiter : waiter[w] \in {"lock", "push"})
                   /\ \E r \in Reader : reader[r] # "idle"
            <4>1. CanRead /\ ~transaction
                BY <2>1, <2>4, <3>4 DEF CanRead, WriterWaits
            <4>2. PICK r \in Reader : reader[r] \in {"lock", "read", "number", "store"}
                BY <2>1, <3>4
            <4> QED
                BY <4>1, <4>2 DEF SomeoneCanGoOn
        <3> QED
            BY <1>1, <3>2, <3>3, <3>4 DEF UnderWay
    <2> QED
        BY <2>2, <2>3, <2>4
<1>2. LockInv => NoOtherDeadlock
    BY <1>1 DEF NoOtherDeadlock
<1> QED
    BY <1>2, InitLock, NextLock, PTL DEF Spec

\* The closure waits for the readers, and each of them for the transaction: no
\* step of any task ends that wait, so an entry that meets a reader in this way is
\* never applied.
THEOREM DeadlockIsForGood == Spec => StuckForGood
<1>1. ASSUME IInv, [Next]_vars, Stuck PROVE Stuck'
    <2>1. worker = "closure" /\ readers # {} /\ transaction
        BY <1>1 DEF Stuck, IInv, TypeOK
    <2>2. ~CanWrite
        BY <2>1 DEF CanWrite
    <2>3. CASE BeginTransaction \/ WorkerStep \/ UNCHANGED vars
        BY <2>1, <2>2, <2>3 DEF BeginTransaction, WorkerStep, RunClosure, CommitTransaction, Notify,
           InstallPart, Swap, SaveInstalled, vars, lockVars, workerVars, Stuck
    <2>4. ASSUME NEW index \in 1 .. MaxIndex, BeginInstall(index) PROVE FALSE
        BY <2>1, <2>4 DEF BeginInstall
    <2>5. ASSUME NEW r \in Reader, Ask(r) \/ ReaderStep(r) PROVE Stuck'
        BY <2>1, <2>5 DEF Ask, ReaderStep, LockForReading, ReadPart, Number, SaveBuilt, lockVars,
           workerVars, Stuck
    <2>6. ASSUME NEW w \in Waiter, AskToWait(w) \/ WaiterStep(w) PROVE Stuck'
        BY <2>1, <2>6 DEF AskToWait, WaiterStep, LockForWaiting, Push, lockVars, workerVars, Stuck
    <2> QED
        BY <1>1, <2>3, <2>4, <2>5, <2>6 DEF Next
<1>2. IInv /\ [Next]_vars => [Stuck => Stuck']_vars
    BY <1>1
<1> QED
    BY <1>2, Inductive, PTL DEF Spec, StuckForGood

=============================================================================
