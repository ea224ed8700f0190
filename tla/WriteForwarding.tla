--------------------------- MODULE WriteForwarding ---------------------------
(***************************************************************************)
(* How a transaction gets into the log: submit_write and consistent_write  *)
(* (src/app.rs), the client that forwards them to the leader               *)
(* (src/client.rs), POST /write on the leader (src/network/api.rs), and    *)
(* the webhook that a manifest PUT queues afterwards (src/webhook.rs).     *)
(*                                                                         *)
(* openraft (external): `log` is the log of the current leader, `commit`   *)
(* says how much of it is decided.  A new leader keeps what is decided and *)
(* any part of the rest, and brings entries back that the leader before it *)
(* did not have, also when the node that appended them has deleted them:   *)
(* in a cluster of five others may have them.  client_write on a node that *)
(* takes itself for the leader appends an entry and returns when that      *)
(* entry has been applied on the node, or with ForwardToLeader when it is  *)
(* deleted for a conflict; on another node it returns ForwardToLeader at   *)
(* once, with the leader the node believes in or with none.  Blank entries *)
(* are left out.                                                           *)
(***************************************************************************)
EXTENDS Naturals, Sequences, SequencesExt

CONSTANTS
    Node,           \* the members that call and lead; more may only vote
    Call,           \* calls of submit_write and consistent_write, and of bin/main.rs
    Home,           \* the node each call is made on
    Waits,          \* the calls of consistent_write
    Puts,           \* those of them that are made by manifests/put.rs
    Repeats,        \* the calls of bin/main.rs, through a client with a retry policy
    None,           \* `None` of an Option
    Tries,          \* n_retry of send_rpc_to_leader: 3
    Repetitions,    \* build_with_max_retries of bin/main.rs: 3
    QueueSize,      \* capacity of the channel of webhooks: 100
    MaxElections    \* bound on changes of leader

ASSUME HomeAssumption == Home \in [Call -> Node]
ASSUME CallAssumption ==
    Puts \subseteq Waits /\ Waits \cup Repeats \subseteq Call /\ Waits \cap Repeats = {}
ASSUME NoneAssumption == None \notin Node \cup Call
ASSUME BoundsAssumption ==
    {Tries, QueueSize} \subseteq Nat \ {0} /\ {Repetitions, MaxElections} \subseteq Nat

VARIABLES
    leader, elections,
    believes,       \* per node: current_leader of its metrics
    log, commit,
    applied,        \* per node: how much of the log it has applied
    published,      \* per node: last_applied of the metrics channel
    wire,           \* requests POST /write that have not arrived
    stray,          \* entries that nodes have and the leader does not
    deleted,        \* those that the node that appended them deleted for a conflict
    redone,         \* ghost: calls sent again with an attempt already accepted
    call,           \* per call: how far it is
    queue,          \* per node: the channel of webhooks
    worker,         \* per node: the event the webhook worker is posting
    hung            \* the nodes whose receiver of webhooks never answers

raftVars == <<leader, elections, believes, log, commit, applied, published>>
hookVars == <<queue, worker, hung>>
entryVars == <<stray, deleted, redone>>
vars == <<raftVars, wire, entryVars, call, hookVars>>

\* at: the next step.  to: the target of the client.  try: number of the
\* request that is under way, 0 for the call of client_write on this node.
\* index: target_index.  unseen: the metrics channel has a version that the
\* receiver of the call has not seen.
Step == {"none", "client_write", "local", "send", "remote", "check", "changed", "enqueue",
         "ok", "failed"}

CallState ==
    [at : Step, to : Node \cup {None}, try : Nat, tries : 0 .. Tries,
     repetitions : 0 .. Repetitions, index : Nat, unseen : BOOLEAN]

NoCall ==
    [at |-> "none", to |-> None, try |-> 0, tries |-> Tries, repetitions |-> Repetitions,
     index |-> 0, unseen |-> FALSE]

\* An entry, or a request that may become one.
Attempt == [call : Call, try : Nat, on : Node]

TypeOK ==
    /\ leader \in Node
    /\ elections \in 0 .. MaxElections
    /\ believes \in [Node -> Node \cup {None}]
    /\ log \in Seq(Attempt)
    /\ commit \in 0 .. Len(log)
    /\ applied \in [Node -> 0 .. commit]
    /\ published \in [Node -> Nat]
    /\ \A n \in Node : published[n] <= applied[n]
    /\ wire \subseteq Attempt
    /\ stray \cup deleted \subseteq Attempt
    /\ redone \subseteq Call
    /\ call \in [Call -> CallState]
    /\ queue \in [Node -> Seq(Puts)]
    /\ \A n \in Node : Len(queue[n]) <= QueueSize
    /\ worker \in [Node -> Puts \cup {None}]
    /\ hung \subseteq Node

Init ==
    /\ leader \in Node
    /\ elections = 0
    /\ believes = [n \in Node |-> leader]
    /\ log = <<>>
    /\ commit = 0
    /\ applied = [n \in Node |-> 0]
    /\ published = [n \in Node |-> 0]
    /\ wire = {}
    /\ stray = {}
    /\ deleted = {}
    /\ redone = {}
    /\ call = [c \in Call |-> NoCall]
    /\ queue = [n \in Node |-> <<>>]
    /\ worker = [n \in Node |-> None]
    /\ hung = {}

-----------------------------------------------------------------------------
(***************************************************************************)
(* openraft.                                                               *)
(***************************************************************************)
\* A new leader has all that is decided, all that it appended itself and has
\* not deleted, and any part of the rest.
Elect(n, kept, back) ==
    /\ n # leader
    /\ elections < MaxElections
    /\ elections' = elections + 1
    /\ {a \in stray : a.on = n} \subseteq deleted \cup Range(back)
    /\ LET cut == {log[i] : i \in kept + 1 .. Len(log)} IN
       /\ {a \in cut : a.on = n} \subseteq deleted
       /\ stray' = (stray \ Range(back)) \cup cut
    /\ log' = SubSeq(log, 1, kept) \o back
    /\ leader' = n
    /\ believes' = [believes EXCEPT ![n] = n]
    /\ UNCHANGED <<commit, applied, published, wire, deleted, redone, call, hookVars>>

\* A node that believes in an old leader has heard of the new one, or of none.
Learn(n) ==
    /\ believes[n] # leader
    /\ believes' = [believes EXCEPT ![n] = leader]
    /\ UNCHANGED <<leader, elections, log, commit, applied, published, wire, entryVars,
                   call, hookVars>>

Suspect(n) ==
    /\ believes[n] \notin {leader, None}
    /\ believes' = [believes EXCEPT ![n] = None]
    /\ UNCHANGED <<leader, elections, log, commit, applied, published, wire, entryVars,
                   call, hookVars>>

Commit ==
    /\ commit < Len(log)
    /\ commit' = commit + 1
    /\ UNCHANGED <<leader, elections, believes, log, applied, published, wire, entryVars,
                   call, hookVars>>

Apply(n) ==
    /\ applied[n] < commit
    /\ applied' = [applied EXCEPT ![n] = @ + 1]
    /\ UNCHANGED <<leader, elections, believes, log, commit, published, wire, entryVars,
                   call, hookVars>>

Publish(n) ==
    /\ published[n] < applied[n]
    /\ published' = [published EXCEPT ![n] = applied[n]]
    /\ call' = [c \in Call |-> IF Home[c] = n /\ call[c].at \in {"check", "changed"}
                              THEN [call[c] EXCEPT !.unseen = TRUE] ELSE call[c]]
    /\ UNCHANGED <<leader, elections, believes, log, commit, applied, wire, entryVars, hookVars>>

-----------------------------------------------------------------------------
(***************************************************************************)
(* A call, from client_write on its own node to its answer.                *)
(***************************************************************************)
\* A call goes on with what it knows, or ends and forgets.
Goes(c, known, step) ==
    call' = [call EXCEPT ![c] =
                [(IF step \in {"enqueue", "ok", "failed"} THEN NoCall ELSE known) EXCEPT !.at = step]]

\* Mutant of Begin: put.rs queues the event before consistent_write.
BeginAnnounced(c) ==
    /\ call[c].at = "none"
    /\ Goes(c, [call[c] EXCEPT !.to = Home[c]], IF c \in Repeats THEN "send" ELSE "client_write")
    /\ queue' = [queue EXCEPT ![Home[c]] = IF c \in Puts /\ @ = <<>> THEN <<c>> ELSE @]
    /\ UNCHANGED <<raftVars, wire, entryVars, worker, hung>>

Begin(c) ==
    /\ call[c].at = "none"
    /\ IF c \in Repeats
       THEN Goes(c, [call[c] EXCEPT !.to = Home[c]], "send")
       ELSE Goes(c, call[c], "client_write")
    /\ UNCHANGED <<raftVars, wire, entryVars, hookVars>>

\* Whether the node that got the request appends it, and what comes of that.
Accepts(a) ==
    /\ believes[a.on] = a.on
    /\ IF leader = a.on
       THEN log' = Append(log, a) /\ UNCHANGED stray
       ELSE stray' = stray \cup {a} /\ UNCHANGED log
    /\ UNCHANGED <<leader, elections, believes, commit, applied, published, deleted, redone>>

\* ForwardToLeader from this node's own raft, and from the node that was asked
\* to lead.  Without a leader the call has failed.
Refused(c, hint, tries) ==
    Goes(c, [call[c] EXCEPT !.to = hint, !.tries = tries],
         IF hint = None \/ tries = 0 THEN "failed" ELSE "send")

LocalAccepts(c) ==
    /\ call[c].at = "client_write"
    /\ Accepts([call |-> c, try |-> 0, on |-> Home[c]])
    /\ Goes(c, call[c], "local")
    /\ UNCHANGED <<wire, hookVars>>

LocalRefuses(c) ==
    /\ call[c].at = "client_write"
    /\ believes[Home[c]] # Home[c]
    /\ Refused(c, believes[Home[c]], Tries)
    /\ UNCHANGED <<raftVars, wire, entryVars, hookVars>>

\* do_send_rpc_to_leader.
Send(c) ==
    /\ call[c].at = "send"
    /\ wire' = wire \cup {[call |-> c, try |-> call[c].try + 1, on |-> call[c].to]}
    /\ Goes(c, [call[c] EXCEPT !.try = @ + 1], "remote")
    /\ UNCHANGED <<raftVars, entryVars, hookVars>>

\* The caller is still there for an answer to this attempt.
Awaited(a) == call[a.call].at \in {"local", "remote"} /\ call[a.call].try = a.try

\* A request arrives, some time, and POST /write calls client_write.
Deliver(a) ==
    /\ a \in wire
    /\ wire' = wire \ {a}
    /\ IF believes[a.on] = a.on
       THEN Accepts(a) /\ UNCHANGED call
       ELSE /\ IF Awaited(a)
               THEN Refused(a.call, believes[a.on], call[a.call].tries - 1)
               ELSE UNCHANGED call
            /\ UNCHANGED <<raftVars, entryVars>>
    /\ UNCHANGED hookVars

\* The node deletes the entry, and the client_write that waited returns: the
\* call is sent on, though others may have the entry still.
Conflict(a) ==
    /\ a \in stray \ deleted
    /\ believes[a.on] # a.on
    /\ deleted' = deleted \cup {a}
    /\ IF Awaited(a)
       THEN Refused(a.call, believes[a.on],
                    IF a.try = 0 THEN Tries ELSE call[a.call].tries - 1)
       ELSE UNCHANGED call
    /\ redone' = redone \cup {c \in {a.call} : call[c].at # "send" /\ call'[c].at = "send"}
    /\ UNCHANGED <<raftVars, wire, stray, hookVars>>

\* client_write has returned the index of an entry that is applied where the
\* request was accepted.
Returned(c, i) ==
    /\ i \in 1 .. Len(log)
    /\ log[i].call = c
    /\ Awaited(log[i])
    /\ i <= applied[log[i].on]

\* Mutant of Succeeds: the loop waits for a change before it compares.
SucceedsChanged(c, i) ==
    /\ Returned(c, i)
    /\ Goes(c, [NoCall EXCEPT !.index = i], IF c \in Waits THEN "changed" ELSE "ok")
    /\ UNCHANGED <<raftVars, wire, entryVars, hookVars>>

\* raft.metrics() clones a receiver that has seen the first version only.
Succeeds(c, i) ==
    /\ Returned(c, i)
    /\ Goes(c, [NoCall EXCEPT !.index = i, !.unseen = (published[Home[c]] > 0)],
            IF c \in Waits THEN "check" ELSE "ok")
    /\ UNCHANGED <<raftVars, wire, entryVars, hookVars>>

\* Mutant of Fails: a timeout is tried again, like ForwardToLeader.
FailsOver(c) ==
    /\ call[c].at = "remote"
    /\ Goes(c, [call[c] EXCEPT !.tries = @ - 1], IF call[c].tries > 1 THEN "send" ELSE "failed")
    /\ UNCHANGED <<raftVars, wire, entryVars, hookVars>>

\* The three seconds are over, or the connection breaks: not tried again, and
\* the request may be anywhere.
Fails(c) ==
    /\ call[c].at = "remote"
    /\ Goes(c, call[c], "failed")
    /\ UNCHANGED <<raftVars, wire, entryVars, hookVars>>

\* RetryTransientMiddleware (external) sends the same request again.
Repeat(c) ==
    /\ call[c].at = "remote"
    /\ c \in Repeats
    /\ call[c].repetitions > 0
    /\ Goes(c, [call[c] EXCEPT !.repetitions = @ - 1], "send")
    /\ redone' = redone \cup {c}
    /\ UNCHANGED <<raftVars, wire, stray, deleted, hookVars>>

\* The loop of consistent_write: borrow() leaves the version unseen.
Check(c) ==
    /\ call[c].at = "check"
    /\ Goes(c, call[c],
            IF published[Home[c]] < call[c].index THEN "changed"
            ELSE IF c \in Puts THEN "enqueue" ELSE "ok")
    /\ UNCHANGED <<raftVars, wire, entryVars, hookVars>>

\* receiver.changed() returns when there is a version this receiver has not seen.
Changed(c) ==
    /\ call[c].at = "changed"
    /\ call[c].unseen
    /\ Goes(c, [call[c] EXCEPT !.unseen = FALSE], "check")
    /\ UNCHANGED <<raftVars, wire, entryVars, hookVars>>

-----------------------------------------------------------------------------
(***************************************************************************)
(* Webhooks.                                                               *)
(***************************************************************************)

\* Mutant of Enqueue: the channel has no capacity.
EnqueueUnbounded(c) ==
    /\ call[c].at = "enqueue"
    /\ queue' = [queue EXCEPT ![Home[c]] = Append(@, c)]
    /\ Goes(c, call[c], "ok")
    /\ UNCHANGED <<raftVars, wire, entryVars, worker, hung>>

\* webhooks.send(..).await: only then is the PUT answered.
Enqueue(c) ==
    /\ call[c].at = "enqueue"
    /\ Len(queue[Home[c]]) < QueueSize
    /\ queue' = [queue EXCEPT ![Home[c]] = Append(@, c)]
    /\ Goes(c, call[c], "ok")
    /\ UNCHANGED <<raftVars, wire, entryVars, worker, hung>>

Receive(n) ==
    /\ worker[n] = None
    /\ queue[n] # <<>>
    /\ worker' = [worker EXCEPT ![n] = Head(queue[n])]
    /\ queue' = [queue EXCEPT ![n] = Tail(@)]
    /\ UNCHANGED <<raftVars, wire, entryVars, call, hung>>

\* The receiver has answered, whatever it was, or the connection failed.
Posted(n) ==
    /\ worker[n] # None
    /\ n \notin hung
    /\ worker' = [worker EXCEPT ![n] = None]
    /\ UNCHANGED <<raftVars, wire, entryVars, call, queue, hung>>

\* A request without a timeout to a receiver that never answers.
Hang(n) ==
    /\ worker[n] # None
    /\ n \notin hung
    /\ hung' = hung \cup {n}
    /\ UNCHANGED <<raftVars, wire, entryVars, call, queue, worker>>

-----------------------------------------------------------------------------
CallStep(c) ==
    \/ LocalAccepts(c)
    \/ LocalRefuses(c)
    \/ Send(c)
    \/ \E i \in 1 .. Len(log) : Succeeds(c, i)
    \/ Fails(c)
    \/ Check(c)
    \/ Changed(c)
    \/ Enqueue(c)

NodeStep(n) == Learn(n) \/ Apply(n) \/ Publish(n)

HookStep(n) == Receive(n) \/ Posted(n)

Next ==
    \/ \E c \in Call : Begin(c) \/ CallStep(c) \/ Repeat(c)
    \/ \E a \in wire : Deliver(a)
    \/ \E a \in stray : Conflict(a)
    \/ \E n \in Node, kept \in commit .. Len(log), back \in SetToAllKPermutations(stray) :
          Elect(n, kept, back)
    \/ \E n \in Node : NodeStep(n) \/ Suspect(n) \/ HookStep(n) \/ Hang(n)
    \/ Commit

\* tokio runs every task that can run, the timeout of the client ends every
\* request, and openraft commits, replicates and applies while the leader stays.
\* A request need not arrive and a receiver of webhooks need not answer.
Fairness ==
    /\ \A c \in Call : WF_vars(CallStep(c))
    /\ \A n \in Node : WF_vars(Learn(n)) /\ WF_vars(Apply(n)) /\ WF_vars(Publish(n))
    /\ \A n \in Node : WF_vars(HookStep(n))
    /\ WF_vars(\E a \in stray : Conflict(a))
    /\ WF_vars(Commit)

Spec == Init /\ [][Next]_vars /\ Fairness

-----------------------------------------------------------------------------
(***************************************************************************)
(* Properties.                                                             *)
(***************************************************************************)
Outcome(c) ==
    CASE call[c].at = "none" -> "none"
      [] call[c].at = "failed" -> "failed"
      [] call[c].at \in {"enqueue", "ok"} -> "ok"
      [] OTHER -> "open"

Promise == INSTANCE RegistryWrite WITH
    outcome <- [c \in Call |-> Outcome(c)],
    decided <- [i \in 1 .. commit |-> log[i].call]

\* submit_write and consistent_write keep what RegistryWrite promises, through
\* changes of leader, forwarding, retries and lost answers: `true` only for a
\* transaction that is decided (and applied here), and a transaction is decided
\* twice only if it was sent again after a node had accepted it.  A node that
\* did not accept it, a timeout and a broken connection never lead to that; a
\* deposed leader that deleted the entry may, and so may the retry policy of
\* bin/main.rs.
KeepsPromise == Promise!Spec

\* Whoever is told of a push by a webhook finds the manifest on the node that
\* told it: put.rs queues the event after consistent_write.
EventIsVisible ==
    \A n \in Node : \A c \in (Range(queue[n]) \cup {worker[n]}) \ {None} :
        \E i \in 1 .. applied[n] : log[i].call = c

\* consistent_write never waits for news that it has got: once the metrics of its
\* node are as far as its index, receiver.changed() returns, whenever the receiver
\* was cloned and whatever was published between the comparison and the wait.
WaitMissesNothing ==
    \A c \in Call :
        call[c].at = "changed" /\ published[Home[c]] >= call[c].index => call[c].unseen

\* Every call ends, with an answer to its client in the case of a PUT, unless a
\* receiver of webhooks hangs: the wait for the metrics misses no change, and a
\* full queue empties.
CallEnds ==
    \A c \in Call :
        call[c].at # "none" ~> call[c].at \in {"ok", "failed"} \/ hung # {}

=============================================================================
