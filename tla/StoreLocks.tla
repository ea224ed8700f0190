------------------------------ MODULE StoreLocks ------------------------------
(***************************************************************************)
(* The two locks of one node's store and the tasks that take them          *)
(* (src/store/mod.rs, src/app.rs, src/mirror.rs, src/network/management.rs)*)
(*                                                                         *)
(*  - `state_machine`, a std::sync::RwLock;                                *)
(*  - the lock inside sled (external) that makes transactions serial: a    *)
(*    transaction holds it exclusively from its closure to the end of its  *)
(*    commit, and every single read or insert needs it for a moment.       *)
(*                                                                         *)
(* Of a tree only the number of the state it belongs to is kept, which is  *)
(* the index of the last entry applied to it.  A task that has a lock      *)
(* releases it in the step in which it is done with what it has it for.    *)
(***************************************************************************)
EXTENDS Naturals, Sequences

CONSTANTS
    Reader,         \* tasks that read trees under state_machine.read()
    Reads,          \* per reader: the trees it reads, in their order
    Builder,        \* the reader that is build_snapshot
    Waiter,         \* GET requests that register under state_machine.write()
    MaxIndex        \* bound on the entries

\* What a snapshot is made of: the order is that of
\* SerializableRegistryStateMachine::from, and of from_serializable.
Part == <<"blobs", "manifests", "tags", "last_applied", "membership">>

Parts == {Part[i] : i \in DOMAIN Part}

ASSUME ReaderAssumption == Builder \in Reader /\ Reads \in [Reader -> Seq(Parts) \ {<<>>}]
ASSUME BuilderAssumption == Reads[Builder] = Part
ASSUME BoundsAssumption == MaxIndex \in Nat

VARIABLES
    worker,         \* what the state machine worker of openraft is doing
    target,         \* the index of the entry or the snapshot it works on
    written,        \* how many parts of a snapshot it has installed
    readers,        \* the tasks that hold the RwLock for reading
    writer,         \* it is held for writing
    transaction,    \* a sled transaction is open
    part,           \* the state each part of the trees belongs to
    reader,         \* per reader: what it is doing
    got,            \* per reader: the states of the parts it has read
    mixed,          \* ghost: the readers an install has overlapped
    waiter,         \* per waiter: what it is doing
    snapshot        \* `snapshot` in the tree store: the states of its parts

lockVars == <<readers, writer, transaction>>
workerVars == <<worker, target, written>>
readerVars == <<reader, got, mixed>>
vars == <<lockVars, workerVars, readerVars, part, waiter, snapshot>>

TypeOK ==
    /\ worker \in {"idle", "closure", "commit", "notify", "install", "swap", "save"}
    /\ target \in 0 .. MaxIndex
    /\ written \in 0 .. Len(Part)
    /\ readers \subseteq Reader
    /\ {writer, transaction} \subseteq BOOLEAN
    /\ transaction <=> worker \in {"closure", "commit"}
    /\ readers = {} \/ ~writer
    /\ part \in [Parts -> 0 .. MaxIndex]
    /\ reader \in [Reader -> {"idle", "lock", "read", "number", "store"}]
    /\ got \in [Reader -> Seq(0 .. MaxIndex)]
    /\ \A r \in Reader : Len(got[r]) <= Len(Reads[r])
    /\ mixed \subseteq Reader
    /\ waiter \in [Waiter -> {"idle", "lock", "push", "pushed"}]
    /\ snapshot \in [Parts -> 0 .. MaxIndex]

Init ==
    /\ worker = "idle"
    /\ target = 0
    /\ written = 0
    /\ readers = {}
    /\ writer = FALSE
    /\ transaction = FALSE
    /\ part = [p \in Parts |-> 0]
    /\ reader = [r \in Reader |-> "idle"]
    /\ got = [r \in Reader |-> <<>>]
    /\ mixed = {}
    /\ waiter = [w \in Waiter |-> "idle"]
    /\ snapshot = [p \in Parts |-> 0]

WriterWaits == worker \in {"closure", "notify", "swap"} \/ \E w \in Waiter : waiter[w] = "lock"

\* The RwLock of Linux lets no reader in while a writer waits.
CanRead == ~writer /\ ~WriterWaits
CanWrite == readers = {} /\ ~writer

-----------------------------------------------------------------------------
(***************************************************************************)
(* apply_to_state_machine.                                                 *)
(***************************************************************************)

\* The transaction begins, and its closure asks for the write lock.
BeginTransaction ==
    /\ worker = "idle"
    /\ target < MaxIndex
    /\ transaction' = TRUE
    /\ worker' = "closure"
    /\ target' = target + 1
    /\ UNCHANGED <<readers, writer, written, readerVars, part, waiter, snapshot>>

\* Mutant of RunClosure: the closure does not take the lock.
RunClosureUnlocked ==
    /\ worker = "closure"
    /\ worker' = "commit"
    /\ UNCHANGED <<lockVars, target, written, readerVars, part, waiter, snapshot>>

\* The closure has the lock until it returns; what it wrote is not yet visible.
RunClosure ==
    /\ worker = "closure"
    /\ CanWrite
    /\ worker' = "commit"
    /\ UNCHANGED <<lockVars, target, written, readerVars, part, waiter, snapshot>>

CommitTransaction ==
    /\ worker = "commit"
    /\ transaction' = FALSE
    /\ part' = [p \in Parts |-> target]
    /\ worker' = "notify"
    /\ UNCHANGED <<readers, writer, target, written, readerVars, waiter, snapshot>>

\* The second phase: the rows are read under the write lock.
Notify ==
    /\ worker = "notify"
    /\ CanWrite
    /\ worker' = "idle"
    /\ UNCHANGED <<lockVars, target, written, readerVars, part, waiter, snapshot>>

-----------------------------------------------------------------------------
(***************************************************************************)
(* install_snapshot: a batch for each tree without any lock, then the swap *)
(* of the state machine under the write lock, then the snapshot itself.    *)
(***************************************************************************)

\* openraft calls it with a snapshot that is ahead of what is applied.
BeginInstall(index) ==
    /\ worker = "idle"
    /\ index \in target + 1 .. MaxIndex
    /\ target' = index
    /\ written' = 0
    /\ worker' = "install"
    /\ UNCHANGED <<lockVars, readerVars, part, waiter, snapshot>>

InstallPart ==
    /\ worker = "install"
    /\ part' = [part EXCEPT ![Part[written + 1]] = target]
    /\ written' = written + 1
    /\ worker' = IF written' = Len(Part) THEN "swap" ELSE "install"
    /\ mixed' = mixed \cup {r \in Reader : reader[r] \in {"read", "number", "store"}}
    /\ UNCHANGED <<lockVars, target, reader, got, waiter, snapshot>>

Swap ==
    /\ worker = "swap"
    /\ CanWrite
    /\ worker' = "save"
    /\ UNCHANGED <<lockVars, target, written, readerVars, part, waiter, snapshot>>

SaveInstalled ==
    /\ worker = "save"
    /\ snapshot' = [p \in Parts |-> target]
    /\ mixed' = mixed \cup {r \in Reader : reader[r] \in {"read", "number", "store"}}
    /\ worker' = "idle"
    /\ UNCHANGED <<lockVars, target, written, reader, got, part, waiter>>

-----------------------------------------------------------------------------
(***************************************************************************)
(* build_snapshot, GET /export and do_transfer of the mirror.              *)
(***************************************************************************)
Ask(r) ==
    /\ reader[r] = "idle"
    /\ reader' = [reader EXCEPT ![r] = "lock"]
    /\ UNCHANGED <<lockVars, workerVars, got, mixed, part, waiter, snapshot>>

\* An install that is under way has written part of the trees.
LockForReading(r) ==
    /\ reader[r] = "lock"
    /\ CanRead
    /\ readers' = readers \cup {r}
    /\ reader' = [reader EXCEPT ![r] = "read"]
    /\ mixed' = IF worker \in {"install", "swap", "save"} THEN mixed \cup {r} ELSE mixed
    /\ UNCHANGED <<writer, transaction, workerVars, got, part, waiter, snapshot>>

\* One tree is read, and the lock is released after the last.
ReadPart(r) ==
    /\ reader[r] = "read"
    /\ ~transaction
    /\ got' = [got EXCEPT ![r] = Append(@, part[Reads[r][Len(@) + 1]])]
    /\ IF Len(got'[r]) = Len(Reads[r])
       THEN /\ readers' = readers \ {r}
            /\ reader' = [reader EXCEPT ![r] = "number"]
       ELSE UNCHANGED <<readers, reader>>
    /\ UNCHANGED <<writer, transaction, workerVars, mixed, part, waiter, snapshot>>

\* set_snapshot_index_, in build_snapshot only; the others answer or go on.
Number(r) ==
    /\ reader[r] = "number"
    /\ r = Builder => ~transaction
    /\ reader' = [reader EXCEPT ![r] = IF r = Builder THEN "store" ELSE "idle"]
    /\ got' = IF r = Builder THEN got ELSE [got EXCEPT ![r] = <<>>]
    /\ mixed' = IF r = Builder THEN mixed ELSE mixed \ {r}
    /\ UNCHANGED <<lockVars, workerVars, part, waiter, snapshot>>

\* set_current_snapshot_, whatever snapshot is there by now.
SaveBuilt ==
    /\ reader[Builder] = "store"
    /\ ~transaction
    /\ snapshot' = [p \in Parts |-> got[Builder][CHOOSE i \in DOMAIN Part : Part[i] = p]]
    /\ reader' = [reader EXCEPT ![Builder] = "idle"]
    /\ got' = [got EXCEPT ![Builder] = <<>>]
    /\ mixed' = mixed \ {Builder}
    /\ UNCHANGED <<lockVars, workerVars, part, waiter>>

-----------------------------------------------------------------------------
(***************************************************************************)
(* wait_for_blob and wait_for_manifest.                                    *)
(***************************************************************************)
AskToWait(w) ==
    /\ waiter[w] = "idle"
    /\ waiter' = [waiter EXCEPT ![w] = "lock"]
    /\ UNCHANGED <<lockVars, workerVars, readerVars, part, snapshot>>

LockForWaiting(w) ==
    /\ waiter[w] = "lock"
    /\ CanWrite
    /\ writer' = TRUE
    /\ waiter' = [waiter EXCEPT ![w] = "push"]
    /\ UNCHANGED <<readers, transaction, workerVars, readerVars, part, snapshot>>

\* Mutant of Push: `drop(sm)` is missing, and the guard lives on across the await.
PushWithoutDrop(w) ==
    /\ waiter[w] = "push"
    /\ waiter' = [waiter EXCEPT ![w] = "pushed"]
    /\ UNCHANGED <<lockVars, workerVars, readerVars, part, snapshot>>

Push(w) ==
    /\ waiter[w] = "push"
    /\ writer' = FALSE
    /\ waiter' = [waiter EXCEPT ![w] = "pushed"]
    /\ UNCHANGED <<readers, transaction, workerVars, readerVars, part, snapshot>>

-----------------------------------------------------------------------------
WorkerStep ==
    \/ RunClosure
    \/ CommitTransaction
    \/ Notify
    \/ InstallPart
    \/ Swap
    \/ SaveInstalled

ReaderStep(r) ==
    \/ LockForReading(r)
    \/ ReadPart(r)
    \/ Number(r)
    \/ r = Builder /\ SaveBuilt

WaiterStep(w) == LockForWaiting(w) \/ Push(w)

Next ==
    \/ BeginTransaction
    \/ \E index \in 1 .. MaxIndex : BeginInstall(index)
    \/ WorkerStep
    \/ \E r \in Reader : Ask(r) \/ ReaderStep(r)
    \/ \E w \in Waiter : AskToWait(w) \/ WaiterStep(w)

\* Every thread that can go on does.
Fairness ==
    /\ WF_vars(WorkerStep)
    /\ \A r \in Reader : WF_vars(ReaderStep(r))
    /\ \A w \in Waiter : WF_vars(WaiterStep(w))

Spec == Init /\ [][Next]_vars /\ Fairness

-----------------------------------------------------------------------------
(***************************************************************************)
(* Properties.                                                             *)
(***************************************************************************)

\* What a reader got under the read lock is one state: no transaction commits
\* between two of its reads, because the closure waits for the lock.  The model
\* of build_snapshot as one step rests on this.
ReadsAreOneState ==
    \A r \in Reader \ mixed : \A i, j \in DOMAIN got[r] : got[r][i] = got[r][j]

\* The closure waits for a reader that waits for the transaction.
Stuck == worker = "closure" /\ readers # {}

\* A task has asked for something or has something, and is not done.
UnderWay ==
    \/ worker # "idle"
    \/ \E r \in Reader : reader[r] # "idle"
    \/ \E w \in Waiter : waiter[w] \in {"lock", "push"}

\* One of them has what its next step needs.
SomeoneCanGoOn ==
    \/ worker \in {"commit", "install", "save"}
    \/ worker \in {"closure", "notify", "swap"} /\ CanWrite
    \/ \E r \in Reader : \/ reader[r] = "lock" /\ CanRead
                         \/ reader[r] \in {"read", "number", "store"} /\ ~transaction
                         \/ reader[r] = "number" /\ r # Builder
    \/ \E w \in Waiter : waiter[w] = "push" \/ (waiter[w] = "lock" /\ CanWrite)

\* The tasks of the store never all wait for each other but in that one way,
\* however many exports, transfers and GETs there are.
NoOtherDeadlock == UnderWay => Stuck \/ SomeoneCanGoOn

\* And that one is for good: whatever tasks come, none of them resolves it, so
\* that the state machine of the node is never applied to again.
StuckForGood == [][Stuck => Stuck']_vars

\* There is no other way for the tasks to wait for each other: otherwise every
\* call of the worker, every read and every registration ends.
EndsUnlessStuck ==
    /\ worker # "idle" ~> worker = "idle" \/ Stuck
    /\ \A r \in Reader : reader[r] # "idle" ~> reader[r] = "idle" \/ Stuck
    /\ \A w \in Waiter : waiter[w] = "lock" ~> waiter[w] = "pushed" \/ Stuck

\* RegistryClient::write says that a request "will be replicated to a quorum and
\* then will be applied to state machine": a call of apply_to_state_machine ends.
ApplyEnds == worker = "closure" ~> worker = "idle"

=============================================================================
