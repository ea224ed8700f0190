------------------------------ MODULE NodeMirror ------------------------------
(***************************************************************************)
(* One member, Self: how it gets its copy of an object that is stored      *)
(* elsewhere, and the requests that wait for the copy.                     *)
(*                                                                         *)
(*  - apply_to_state_machine (src/store/mod.rs) changes the row, and in    *)
(*    its second phase the `pending` watch channel and the waiters;        *)
(*  - a loop of do_miroring (src/mirror.rs) watches the channel, downloads *)
(*    what is pending and submits Stored;                                  *)
(*  - GET and HEAD (src/registry/blobs, src/registry/manifests) register a *)
(*    waiter when the row they read does not name this node.               *)
(*                                                                         *)
(* Blobs and manifests have a loop, a channel and waiters each, of the     *)
(* same code: this is one of the two.  Of a row only its locations matter: *)
(* every location is taken to be a member, so that there is a peer to ask, *)
(* and every request has the permission, the repository and the size its   *)
(* handler checks for.                                                     *)
(*                                                                         *)
(* A watch receiver (tokio, external) remembers the version it saw last,   *)
(* which matters only for being the current one or not: `unseen` for the   *)
(* loop's own receiver, `changeUnseen` for the clone in wait_for_change.   *)
(***************************************************************************)
EXTENDS Naturals

CONSTANTS
    Node,
    Self,
    Digest,
    Request,        \* GET and HEAD requests to this node
    None,           \* `None` of an Option
    MaxChanges,     \* bound on what others commit
    MaxFailures,    \* bound on failed downloads and failed submissions
    MaxInstalls,    \* bound on install_snapshot
    MaxDisconnects  \* bound on requests whose client goes away

ASSUME SelfAssumption == Self \in Node
ASSUME NoneAssumption == None \notin Digest /\ \A s \in SUBSET Node : None # s
ASSUME BoundsAssumption ==
    {MaxChanges, MaxFailures, MaxInstalls, MaxDisconnects} \subseteq Nat

VARIABLES
    locations,      \* the row of each digest in the trees of this node
    files,          \* what is in the storage directory of this node
    committed,      \* Stored by Self: in the log, not yet applied here
    worker,         \* what the state machine worker is doing
    moved,          \* the action whose second phase is due
    waiters,        \* blob_waiters: senders, by the request that will receive
    pending,        \* value of the channel the loop has subscribed to
    closed,         \* that channel has lost its sender
    loop,           \* where the loop is
    todo,           \* the digests the `for` has still to visit
    read,           \* pending_blobs: the value read when the loop woke
    unseen,         \* the loop's receiver has not seen the current version
    change,         \* wait_for_change is in the JoinSet
    changeUnseen,   \* its receiver has not seen the current version
    timer,          \* wait_for_time in the JoinSet
    woke,           \* which of the two woke the loop
    current,        \* the digest of the download to be submitted
    req,            \* per request: how far its handler is, and the digest it asks for
    changes, failures, installs, disconnects

storeVars == <<locations, files, committed, worker, moved, waiters, pending, closed>>
loopVars == <<loop, todo, read, change, timer, woke, current>>
counters == <<changes, failures, installs, disconnects>>
vars == <<storeVars, loopVars, unseen, changeUnseen, req, counters>>

NoMove == [digest |-> None, location |-> None]

TypeOK ==
    /\ locations \in [Digest -> (SUBSET Node) \cup {None}]
    /\ files \subseteq Digest
    /\ committed \subseteq Digest
    /\ worker \in {"idle", "notify", "row_panic", "send_panic"}
    /\ moved \in [digest : Digest, location : Node] \cup {NoMove}
    /\ moved # NoMove <=> worker = "notify"
    /\ waiters \in [Digest -> SUBSET Request]
    /\ pending \subseteq Digest
    /\ loop \in {"start", "join", "transfer", "submit", "ended"}
    /\ todo \subseteq Digest
    /\ read \subseteq Digest
    /\ {closed, unseen, change, changeUnseen} \subseteq BOOLEAN
    /\ timer \in {"none", "sleeping", "fired"}
    /\ woke \in {"none", "changed", "timeout"}
    /\ current \in Digest \cup {None}
    /\ req \in [Request -> [state : {"new", "register", "waiting", "serve",
                                     "ok", "not_found", "gone"},
                            digest : Digest \cup {None}]]
    /\ changes \in 0 .. MaxChanges
    /\ failures \in 0 .. MaxFailures
    /\ installs \in 0 .. MaxInstalls
    /\ disconnects \in 0 .. MaxDisconnects

Init ==
    /\ locations = [d \in Digest |-> None]
    /\ files = {}
    /\ committed = {}
    /\ worker = "idle"
    /\ moved = NoMove
    /\ waiters = [d \in Digest |-> {}]
    /\ pending = {}
    /\ closed = FALSE
    /\ loop = "start"
    /\ todo = {}
    /\ read = {}
    /\ unseen = FALSE
    /\ change = FALSE
    /\ changeUnseen = FALSE
    /\ timer = "none"
    /\ woke = "none"
    /\ current = None
    /\ req = [r \in Request |-> [state |-> "new", digest |-> None]]
    /\ changes = 0 /\ failures = 0 /\ installs = 0 /\ disconnects = 0

Wanted(d) ==
    locations[d] # None /\ Self \notin locations[d] /\ locations[d] # {}

\* A panic under the write guard poisons the lock: from then on every task
\* that takes it panics at `.read().unwrap()` or `.write().unwrap()`.
Alive == worker \in {"idle", "notify"}

-----------------------------------------------------------------------------
(***************************************************************************)
(* apply_to_state_machine, first phase: the transaction of one entry.      *)
(***************************************************************************)

Apply(d, n, row) ==
    /\ worker = "idle"
    /\ locations' = [locations EXCEPT ![d] = row]
    /\ worker' = "notify"
    /\ moved' = [digest |-> d, location |-> n]
    /\ UNCHANGED <<waiters, pending, closed, loopVars, unseen, changeUnseen, req>>

\* Mounted and Stored of an upload to n, or Stored of the mirror of another n.
\* An upload has renamed its file before it submits.
Uploaded(d, n) ==
    /\ changes < MaxChanges
    /\ Apply(d, n, (IF locations[d] = None THEN {} ELSE locations[d]) \cup {n})
    /\ changes' = changes + 1
    /\ files' = IF n = Self THEN files \cup {d} ELSE files
    /\ UNCHANGED <<committed, failures, installs, disconnects>>

\* Unstored of the fsck of another node that has lost its file.
Lost(d, n) ==
    /\ changes < MaxChanges
    /\ n # Self
    /\ locations[d] # None
    /\ n \in locations[d]
    /\ Apply(d, n, IF locations[d] = {n} THEN None ELSE locations[d] \ {n})
    /\ changes' = changes + 1
    /\ UNCHANGED <<files, committed, failures, installs, disconnects>>

\* Stored of this node's own loop.
Mirrored(d) ==
    /\ d \in committed
    /\ locations[d] # None
    /\ Apply(d, Self, locations[d] \cup {Self})
    /\ committed' = committed \ {d}
    /\ UNCHANGED <<files, counters>>

\* The same when the row has gone: `.unwrap().unwrap()`.
MirroredPanics(d) ==
    /\ worker = "idle"
    /\ d \in committed
    /\ locations[d] = None
    /\ worker' = "row_panic"
    /\ UNCHANGED <<locations, files, committed, moved, waiters, pending, closed, loopVars,
                   unseen, changeUnseen, req, counters>>

(***************************************************************************)
(* The second phase.  For a location of this node it drains the waiters;   *)
(* send() to a request that is gone is an Err, and unwrap() a panic, with  *)
(* the channel not yet replaced.  The waiters behind it are dropped, and   *)
(* they go on as well: wait_for_blob only logs the error.                  *)
(***************************************************************************)

\* Mutant of Drained: the location is not compared.
DrainedByAnyone == waiters[moved.digest]

Drained == IF moved.location = Self THEN waiters[moved.digest] ELSE {}

GoOn(rs) ==
    req' = [r \in Request |-> IF r \in rs /\ req[r].state = "waiting"
                              THEN [req[r] EXCEPT !.state = "serve"] ELSE req[r]]

SendFails == \E r \in Drained : req[r].state = "gone"

Drain ==
    /\ GoOn(Drained)
    /\ waiters' = [waiters EXCEPT ![moved.digest] = @ \ Drained]
    /\ moved' = NoMove
    /\ UNCHANGED <<locations, files, committed, closed, loopVars, counters>>

\* send_replace counts as a change whatever the new value is.  After an
\* install the channel that is replaced is another one than the loop's.
Notify ==
    /\ worker = "notify"
    /\ ~SendFails
    /\ worker' = "idle"
    /\ LET d == moved.digest IN
       IF closed
       THEN UNCHANGED <<pending, unseen, changeUnseen>>
       ELSE /\ pending' = IF locations[d] = None THEN pending
                          ELSE IF Wanted(d) THEN pending \cup {d} ELSE pending \ {d}
            /\ unseen' = TRUE
            /\ changeUnseen' = TRUE
    /\ Drain

NotifyPanics ==
    /\ worker = "notify"
    /\ SendFails
    /\ worker' = "send_panic"
    /\ UNCHANGED <<pending, unseen, changeUnseen>>
    /\ Drain

(***************************************************************************)
(* install_snapshot: rows from a snapshot that is ahead, and a new         *)
(* RegistryStateMachine without waiters and with new channels.             *)
(***************************************************************************)
Install(d, n) ==
    /\ worker = "idle"
    /\ installs < MaxInstalls
    /\ installs' = installs + 1
    /\ n # Self
    /\ locations' = [locations EXCEPT ![d] = (IF @ = None THEN {} ELSE @) \cup {n}]
    /\ closed' = TRUE
    /\ GoOn(UNION {waiters[e] : e \in Digest})
    /\ waiters' = [e \in Digest |-> {}]
    /\ UNCHANGED <<files, committed, worker, moved, pending, loopVars, unseen, changeUnseen,
                   changes, failures, disconnects>>

-----------------------------------------------------------------------------
(***************************************************************************)
(* The loop of do_miroring.                                                *)
(***************************************************************************)

\* subscriber.borrow_and_update().
Read ==
    /\ read' = pending
    /\ unseen' = FALSE

\* Mutant of SpawnChange: the task's receiver has seen the current version.
SpawnChangeFresh(seen) ==
    /\ change' = TRUE
    /\ changeUnseen' = FALSE

\* The new task's receiver is a clone: it has seen what the loop's has seen.
SpawnChange(seen) ==
    /\ change' = TRUE
    /\ changeUnseen' = ~seen

\* Mutant of NextTimer: the condition the wrong way round.
NextTimerNegated(value) == IF value = {} THEN "sleeping" ELSE "none"

\* `if !pending_blobs.is_empty()`.
NextTimer(value) == IF value = {} THEN "none" ELSE "sleeping"

Subscribe ==
    /\ Alive
    /\ loop = "start"
    /\ ~closed
    /\ Read
    /\ SpawnChange(TRUE)
    /\ timer' = NextTimer(pending)
    /\ loop' = "join"
    /\ UNCHANGED <<storeVars, todo, woke, current, req, counters>>

\* do_miroring only runs after an install: it subscribes to the new channel.
SubscribeAfterInstall ==
    /\ Alive
    /\ loop = "start"
    /\ closed
    /\ closed' = FALSE
    /\ pending' = {d \in Digest : Wanted(d)}
    /\ UNCHANGED <<locations, files, committed, worker, moved, waiters, loopVars, unseen,
                   changeUnseen, req, counters>>

\* The same when the lock is poisoned before the loop has started.
SubscribePanics ==
    /\ ~Alive
    /\ loop = "start"
    /\ loop' = "ended"
    /\ UNCHANGED <<storeVars, todo, read, change, timer, woke, current, unseen, changeUnseen,
                   req, counters>>

TimerFires ==
    /\ timer = "sleeping"
    /\ timer' = "fired"
    /\ UNCHANGED <<storeVars, loop, todo, read, change, woke, current, unseen, changeUnseen,
                   req, counters>>

\* join_next returns a task that has finished.
Wake ==
    /\ loop = "join"
    /\ Read
    /\ todo' = pending
    /\ loop' = "transfer"
    /\ UNCHANGED <<storeVars, current, req, counters>>

JoinChanged ==
    /\ change /\ changeUnseen
    /\ Wake
    /\ woke' = "changed"
    /\ change' = FALSE
    /\ changeUnseen' = FALSE
    /\ UNCHANGED timer

JoinTimeout ==
    /\ timer = "fired"
    /\ Wake
    /\ woke' = "timeout"
    /\ timer' = "none"
    /\ UNCHANGED <<change, changeUnseen>>

JoinClosed ==
    /\ loop = "join"
    /\ change /\ ~changeUnseen /\ closed
    /\ loop' = "ended"
    /\ UNCHANGED <<storeVars, todo, read, change, timer, woke, current, unseen, changeUnseen,
                   req, counters>>

\* One turn of the `for`: do_transfer reads the row now.
Visit(d) ==
    /\ loop = "transfer"
    /\ d \in todo
    /\ todo' = todo \ {d}
    /\ UNCHANGED <<locations, committed, worker, moved, waiters, pending, closed, read, change,
                   timer, woke, unseen, changeUnseen, req, changes, installs, disconnects>>

\* MirrorResult::None.
NothingToDo(d) ==
    /\ ~Wanted(d)
    /\ Visit(d)
    /\ UNCHANGED <<files, loop, current, failures>>

\* Mutant of Download: the file is still under its temporary name.
DownloadUnrenamed(d) ==
    /\ Alive
    /\ Wanted(d)
    /\ Visit(d)
    /\ current' = d
    /\ loop' = "submit"
    /\ UNCHANGED <<files, failures>>

\* The download has the right hash and is renamed to its place.
Download(d) ==
    /\ Alive
    /\ Wanted(d)
    /\ Visit(d)
    /\ files' = files \cup {d}
    /\ current' = d
    /\ loop' = "submit"
    /\ UNCHANGED failures

\* MirrorResult::Retry: any error on the way.  Nobody looks at it.
DownloadFails(d) ==
    /\ Alive
    /\ Wanted(d)
    /\ Visit(d)
    /\ failures < MaxFailures
    /\ failures' = failures + 1
    /\ UNCHANGED <<files, loop, current>>

\* do_transfer takes the lock for the membership: the task of the loop ends.
TransferPanics(d) ==
    /\ ~Alive
    /\ Wanted(d)
    /\ Visit(d)
    /\ loop' = "ended"
    /\ UNCHANGED <<files, current, failures>>

\* submit_write, whose answer is only logged.
Submit(ok) ==
    /\ loop = "submit"
    /\ ok \/ failures < MaxFailures
    /\ committed' = IF ok THEN committed \cup {current} ELSE committed
    /\ failures' = IF ok THEN failures ELSE failures + 1
    /\ current' = None
    /\ loop' = "transfer"
    /\ UNCHANGED <<locations, files, worker, moved, waiters, pending, closed, todo, read,
                   change, timer, woke, unseen, changeUnseen, req, changes, installs,
                   disconnects>>

\* The end of the `for`, and the second match: only what woke the loop is
\* put back into the JoinSet.
EndRound ==
    /\ loop = "transfer"
    /\ todo = {}
    /\ loop' = "join"
    /\ IF woke = "changed"
       THEN SpawnChange(~unseen) /\ UNCHANGED timer
       ELSE timer' = NextTimer(read) /\ UNCHANGED <<change, changeUnseen>>
    /\ UNCHANGED <<storeVars, todo, read, woke, current, unseen, req, counters>>

-----------------------------------------------------------------------------
(***************************************************************************)
(* A GET or HEAD handler: the row is read once, at the beginning.          *)
(***************************************************************************)
SetReq(r, state, d) ==
    req' = [req EXCEPT ![r] = [state |-> state, digest |-> d]]

Get(r, d) ==
    /\ req[r].state = "new"
    /\ SetReq(r, IF locations[d] = None THEN "not_found"
                 ELSE IF Self \in locations[d] THEN "serve" ELSE "register", d)
    /\ UNCHANGED <<storeVars, loopVars, unseen, changeUnseen, counters>>

\* wait_for_blob takes the write lock: a task of its own by then.
Register(r) ==
    /\ Alive
    /\ req[r].state = "register"
    /\ waiters' = [waiters EXCEPT ![req[r].digest] = @ \cup {r}]
    /\ SetReq(r, "waiting", req[r].digest)
    /\ UNCHANGED <<locations, files, committed, worker, moved, pending, closed, loopVars,
                   unseen, changeUnseen, counters>>

\* The same with the lock poisoned: the request ends without an answer.
RegisterPanics(r) ==
    /\ ~Alive
    /\ req[r].state = "register"
    /\ SetReq(r, "gone", req[r].digest)
    /\ UNCHANGED <<storeVars, loopVars, unseen, changeUnseen, counters>>

Serve(r) ==
    /\ req[r].state = "serve"
    /\ SetReq(r, IF req[r].digest \in files THEN "ok" ELSE "not_found", req[r].digest)
    /\ UNCHANGED <<storeVars, loopVars, unseen, changeUnseen, counters>>

\* actix (external) drops the handler's future when its connection fails, and
\* the oneshot receiver with it; the sender stays among the waiters.
Disconnect(r) ==
    /\ disconnects < MaxDisconnects
    /\ disconnects' = disconnects + 1
    /\ req[r].state \in {"register", "waiting", "serve"}
    /\ SetReq(r, "gone", req[r].digest)
    /\ UNCHANGED <<storeVars, loopVars, unseen, changeUnseen, changes, failures, installs>>

-----------------------------------------------------------------------------
ApplyStep == \E d \in Digest : Mirrored(d) \/ MirroredPanics(d)

NotifyStep == Notify \/ NotifyPanics

LoopStep ==
    \/ Subscribe
    \/ SubscribeAfterInstall
    \/ SubscribePanics
    \/ JoinChanged
    \/ JoinTimeout
    \/ JoinClosed
    \/ \E d \in Digest : NothingToDo(d) \/ Download(d) \/ DownloadFails(d) \/ TransferPanics(d)
    \/ \E ok \in BOOLEAN : Submit(ok)
    \/ EndRound

HandlerStep(r) == Register(r) \/ RegisterPanics(r) \/ Serve(r)

Environment ==
    \/ \E d \in Digest, n \in Node : Uploaded(d, n) \/ Lost(d, n) \/ Install(d, n)
    \/ \E r \in Request : Disconnect(r) \/ \E d \in Digest : Get(r, d)

Next ==
    \/ ApplyStep
    \/ NotifyStep
    \/ LoopStep
    \/ TimerFires
    \/ \E r \in Request : HandlerStep(r)
    \/ Environment

\* tokio runs every task that can run, time passes, openraft applies what is
\* committed.  Nothing is assumed of others: uploads, losses, failures.
Fairness ==
    /\ WF_vars(ApplyStep)
    /\ WF_vars(NotifyStep)
    /\ WF_vars(LoopStep)
    /\ WF_vars(TimerFires)
    /\ \A r \in Request : WF_vars(HandlerStep(r))

Spec == Init /\ [][Next]_vars /\ Fairness

-----------------------------------------------------------------------------
(***************************************************************************)
(* Properties.                                                             *)
(***************************************************************************)

\* The loop never sleeps on news: while it is in join_next, the value it acted
\* on is the current one, or a task that is about to finish will tell it.  The
\* clone in wait_for_change must not have seen more than the loop has read.
NoLostChange ==
    loop = "join" /\ ~closed => read = pending \/ (change /\ changeUnseen)

\* A location in the metadata is a file on the disk: the loop and the uploads
\* rename the file before they submit Stored.
HeldHasFile ==
    \A d \in Digest :
        d \in committed \/ (locations[d] # None /\ Self \in locations[d]) => d \in files

\* A handler that goes on to send the file finds it, whether it saw this node
\* in the row or was woken by the second phase.  Only install_snapshot, which
\* drops all senders, sends a handler on that has nothing to serve.
ServeFindsFile ==
    installs = 0 =>
        \A r \in Request : req[r].state = "serve" => req[r].digest \in files

\* What the node sees to be elsewhere it gets, if no download or submission
\* fails and no snapshot is installed: every change wakes the loop of
\* do_miroring or is read by it.
MirroredUnlessDisturbed ==
    \A d \in Digest :
        Wanted(d) ~> ~Wanted(d) \/ ~Alive \/ failures > 0 \/ installs > 0

\* While the ten second timer runs, a download that failed is tried again,
\* until an installed snapshot takes the channel away from the loop.
TimerRetries ==
    \A d \in Digest :
        timer = "sleeping" /\ d \in pending /\ Wanted(d) ~> ~Wanted(d) \/ ~Alive \/ closed

\* A request that waits for a download gets an answer.
WaitEnds ==
    \A r \in Request : req[r].state = "waiting" ~> req[r].state # "waiting" \/ ~Alive

=============================================================================
