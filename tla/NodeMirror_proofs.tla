--------------------------- MODULE NodeMirror_proofs ---------------------------
(***************************************************************************)
(* Proofs of the safety properties of NodeMirror, for any digests, nodes,  *)
(* requests and bounds.                                                    *)
(***************************************************************************)
EXTENDS NodeMirror, TLAPS

-----------------------------------------------------------------------------
(***************************************************************************)
(* The inductive invariant.                                                *)
(***************************************************************************)

\* What is about to be submitted, and the move whose second phase is due, have
\* their file as well.
SubmitHasFile == loop = "submit" => current \in files

MoveHasFile == worker = "notify" /\ moved.location = Self => moved.digest \in files

\* A request has a digest from its first step on, and it is registered only
\* under that digest.
WaitersOK ==
    /\ \A r \in Request : req[r].state # "new" => req[r].digest \in Digest
    /\ \A d \in Digest : \A r \in waiters[d] : req[r].state # "new" /\ req[r].digest = d

\* While its receiver has seen the current version, the loop has read the
\* current value.
ReadIsSeen ==
    loop \in {"join", "transfer", "submit"} /\ ~closed /\ ~unseen => read = pending

\* wait_for_change is in the JoinSet except while the loop handles the change
\* it has returned, and its receiver has not seen more than the loop's has.
ChangeArmed ==
    loop = "join" \/ (loop \in {"transfer", "submit"} /\ woke # "changed") =>
        change /\ (unseen => changeUnseen)

IInv ==
    /\ TypeOK
    /\ HeldHasFile
    /\ SubmitHasFile
    /\ MoveHasFile
    /\ WaitersOK
    /\ ServeFindsFile
    /\ ReadIsSeen
    /\ ChangeArmed

-----------------------------------------------------------------------------
(***************************************************************************)
(* Types.                                                                  *)
(***************************************************************************)

\* What the first phase of apply_to_state_machine does to the types.
LEMMA ApplyType ==
    ASSUME TypeOK, NEW d \in Digest, NEW n \in Node, NEW row \in (SUBSET Node) \cup {None},
           Apply(d, n, row),
           files' \subseteq Digest, committed' \subseteq Digest, changes' \in 0 .. MaxChanges,
           UNCHANGED <<failures, installs, disconnects>>
    PROVE  TypeOK'
<1>1. moved' \in [digest : Digest, location : Node] /\ moved' # NoMove
    BY NoneAssumption DEF Apply, NoMove
<1>2. locations' \in [Digest -> (SUBSET Node) \cup {None}]
    BY DEF Apply, TypeOK
<1> QED
    BY <1>1, <1>2 DEF Apply, TypeOK, loopVars

LEMMA GoOnType ==
    ASSUME TypeOK, NEW rs, GoOn(rs)
    PROVE  /\ req' \in [Request -> [state : {"new", "register", "waiting", "serve",
                                             "ok", "not_found", "gone"},
                                    digest : Digest \cup {None}]]
           /\ \A r \in Request :
                 /\ req'[r].digest = req[r].digest
                 /\ req'[r].state # req[r].state =>
                       req'[r].state = "serve" /\ req[r].state = "waiting" /\ r \in rs
BY DEF GoOn, TypeOK

LEMMA SetReqType ==
    ASSUME TypeOK, NEW r \in Request, NEW d \in Digest \cup {None},
           NEW state \in {"register", "waiting", "serve", "ok", "not_found", "gone"},
           SetReq(r, state, d)
    PROVE  /\ req' \in [Request -> [state : {"new", "register", "waiting", "serve",
                                             "ok", "not_found", "gone"},
                                    digest : Digest \cup {None}]]
           /\ req'[r].state = state /\ req'[r].digest = d
           /\ \A q \in Request \ {r} : req'[q] = req[q]
BY DEF SetReq, TypeOK

\* In the second phase `moved` is a move.
LEMMA MovedType ==
    ASSUME TypeOK, worker = "notify"
    PROVE  moved.digest \in Digest /\ moved.location \in Node
BY DEF TypeOK

LEMMA DrainType ==
    ASSUME TypeOK, worker = "notify", Drain
    PROVE  /\ waiters' \in [Digest -> SUBSET Request]
           /\ \A d \in Digest : waiters'[d] \subseteq waiters[d]
BY MovedType DEF Drain, TypeOK

LEMMA TypeStep ==
    ASSUME TypeOK, SubmitHasFile, WaitersOK, [Next]_vars
    PROVE  TypeOK'
<1> USE BoundsAssumption
<1>1. ASSUME NEW d \in Digest, NEW n \in Node, Uploaded(d, n) PROVE TypeOK'
    <2>1. (IF locations[d] = None THEN {} ELSE locations[d]) \cup {n} \in (SUBSET Node) \cup {None}
        BY DEF TypeOK
    <2>2. /\ files' \subseteq Digest /\ committed' \subseteq Digest /\ changes' \in 0 .. MaxChanges
          /\ UNCHANGED <<failures, installs, disconnects>>
        BY <1>1 DEF Uploaded, TypeOK
    <2> QED
        BY <1>1, <2>1, <2>2, ApplyType DEF Uploaded
<1>2. ASSUME NEW d \in Digest, NEW n \in Node, Lost(d, n) PROVE TypeOK'
    <2>1. (IF locations[d] = {n} THEN None ELSE locations[d] \ {n}) \in (SUBSET Node) \cup {None}
        <3>1. locations[d] \in SUBSET Node
            BY <1>2 DEF Lost, TypeOK
        <3> QED
            BY <3>1
    <2>2. /\ files' \subseteq Digest /\ committed' \subseteq Digest /\ changes' \in 0 .. MaxChanges
          /\ UNCHANGED <<failures, installs, disconnects>>
        BY <1>2 DEF Lost, TypeOK
    <2> QED
        BY <1>2, <2>1, <2>2, ApplyType DEF Lost
<1>3. ASSUME NEW d \in Digest, Mirrored(d) PROVE TypeOK'
    <2>1. locations[d] \cup {Self} \in (SUBSET Node) \cup {None}
        BY <1>3, SelfAssumption DEF Mirrored, TypeOK
    <2>2. /\ files' \subseteq Digest /\ committed' \subseteq Digest /\ changes' \in 0 .. MaxChanges
          /\ UNCHANGED <<failures, installs, disconnects>>
        BY <1>3 DEF Mirrored, TypeOK, counters
    <2> QED
        BY <1>3, <2>1, <2>2, ApplyType, SelfAssumption DEF Mirrored
<1>4. ASSUME NEW d \in Digest, MirroredPanics(d) PROVE TypeOK'
    BY <1>4 DEF MirroredPanics, TypeOK, loopVars, counters
<1>5. CASE NotifyStep
    <2>1. worker = "notify" /\ Drain /\ worker' \in {"idle", "send_panic"}
        BY <1>5 DEF NotifyStep, Notify, NotifyPanics
    <2>2. moved' = NoMove /\ UNCHANGED <<locations, files, committed, closed, loopVars, counters>>
        BY <2>1 DEF Drain
    <2>3. /\ pending' \subseteq Digest
          /\ unseen' \in BOOLEAN /\ changeUnseen' \in BOOLEAN
        BY <1>5, <2>1, MovedType DEF NotifyStep, Notify, NotifyPanics, TypeOK
    <2>4. req' \in [Request -> [state : {"new", "register", "waiting", "serve",
                                         "ok", "not_found", "gone"},
                                digest : Digest \cup {None}]]
        BY <2>1, GoOnType DEF Drain
    <2> QED
        BY <2>1, <2>2, <2>3, <2>4, DrainType DEF TypeOK, loopVars, counters
<1>6. ASSUME NEW d \in Digest, NEW n \in Node, Install(d, n) PROVE TypeOK'
    <2>1. locations' \in [Digest -> (SUBSET Node) \cup {None}]
        BY <1>6 DEF Install, TypeOK
    <2>2. req' \in [Request -> [state : {"new", "register", "waiting", "serve",
                                         "ok", "not_found", "gone"},
                                digest : Digest \cup {None}]]
        BY <1>6, GoOnType DEF Install
    <2> QED
        BY <1>6, <2>1, <2>2 DEF Install, TypeOK, loopVars
<1>7. CASE Subscribe
    BY <1>7 DEF Subscribe, Read, SpawnChange, NextTimer, TypeOK, storeVars, counters
<1>8. CASE SubscribeAfterInstall
    BY <1>8 DEF SubscribeAfterInstall, TypeOK, loopVars, counters
<1>9. CASE SubscribePanics \/ JoinClosed
    BY <1>9 DEF SubscribePanics, JoinClosed, TypeOK, storeVars, counters
<1>10. CASE JoinChanged \/ JoinTimeout
    BY <1>10 DEF JoinChanged, JoinTimeout, Wake, Read, TypeOK, storeVars, counters
<1>11. ASSUME NEW d \in Digest, NothingToDo(d) \/ Download(d) \/ DownloadFails(d) \/ TransferPanics(d)
       PROVE  TypeOK'
    <2>1. Visit(d)
        BY <1>11 DEF NothingToDo, Download, DownloadFails, TransferPanics
    <2>2. /\ files' \subseteq Digest /\ current' \in Digest \cup {None}
          /\ loop' \in {"transfer", "submit", "ended"} /\ failures' \in 0 .. MaxFailures
        BY <1>11, <2>1 DEF NothingToDo, Download, DownloadFails, TransferPanics, Visit, TypeOK
    <2> QED
        BY <2>1, <2>2 DEF Visit, TypeOK
<1>12. ASSUME NEW ok \in BOOLEAN, Submit(ok) PROVE TypeOK'
    BY <1>12 DEF Submit, SubmitHasFile, TypeOK
<1>13. CASE EndRound
    BY <1>13 DEF EndRound, SpawnChange, NextTimer, TypeOK, storeVars, counters
<1>14. CASE TimerFires
    BY <1>14 DEF TimerFires, TypeOK, storeVars, counters
<1>15. ASSUME NEW r \in Request, NEW d \in Digest, Get(r, d) PROVE TypeOK'
    <2>1. PICK state \in {"not_found", "serve", "register"} : SetReq(r, state, d)
        BY <1>15 DEF Get
    <2> QED
        BY <1>15, <2>1, SetReqType DEF Get, TypeOK, storeVars, loopVars, counters
<1>16. ASSUME NEW r \in Request, HandlerStep(r) \/ Disconnect(r) PROVE TypeOK'
    <2>1. req[r].digest \in Digest
        BY <1>16 DEF HandlerStep, Register, RegisterPanics, Serve, Disconnect, WaitersOK
    <2>2. PICK state \in {"waiting", "ok", "not_found", "gone"} : SetReq(r, state, req[r].digest)
        BY <1>16 DEF HandlerStep, Register, RegisterPanics, Serve, Disconnect
    <2>3. req' \in [Request -> [state : {"new", "register", "waiting", "serve",
                                         "ok", "not_found", "gone"},
                                digest : Digest \cup {None}]]
        BY <2>1, <2>2, SetReqType
    <2>4. waiters' \in [Digest -> SUBSET Request] /\ disconnects' \in 0 .. MaxDisconnects
        BY <1>16, <2>1 DEF HandlerStep, Register, RegisterPanics, Serve, Disconnect, TypeOK,
                           storeVars, counters
    <2>5. UNCHANGED <<locations, files, committed, worker, moved, pending, closed, loopVars,
                      unseen, changeUnseen, changes, failures, installs>>
        BY <1>16 DEF HandlerStep, Register, RegisterPanics, Serve, Disconnect, storeVars, counters
    <2> QED
        BY <2>3, <2>4, <2>5 DEF TypeOK, loopVars
<1>17. CASE UNCHANGED vars
    BY <1>17 DEF vars, TypeOK, storeVars, loopVars, counters
<1> QED
    BY <1>1, <1>2, <1>3, <1>4, <1>5, <1>6, <1>7, <1>8, <1>9, <1>10, <1>11, <1>12, <1>13, <1>14,
       <1>15, <1>16, <1>17 DEF Next, ApplyStep, LoopStep, Environment

-----------------------------------------------------------------------------
(***************************************************************************)
(* Files.                                                                  *)
(***************************************************************************)
HasFile == HeldHasFile /\ SubmitHasFile /\ MoveHasFile

\* An applied entry that adds this node is about a file that is there.
LEMMA ApplyFiles ==
    ASSUME TypeOK, HasFile, NEW d \in Digest, NEW n \in Node, NEW row,
           Apply(d, n, row), files \subseteq files', committed' \subseteq committed,
           n = Self => d \in files',
           row # None /\ Self \in row =>
               n = Self \/ (locations[d] # None /\ Self \in locations[d])
    PROVE  HasFile'
<1>1. /\ \A e \in Digest \ {d} : locations'[e] = locations[e]
      /\ locations'[d] = row
    BY DEF Apply, TypeOK
<1>2. HeldHasFile'
    BY <1>1 DEF HasFile, HeldHasFile
<1>3. SubmitHasFile'
    BY DEF Apply, HasFile, SubmitHasFile, loopVars
<1>4. MoveHasFile'
    BY DEF Apply, MoveHasFile
<1> QED
    BY <1>2, <1>3, <1>4 DEF HasFile

LEMMA FileStep ==
    ASSUME TypeOK, HasFile, [Next]_vars
    PROVE  HasFile'
<1>1. ASSUME NEW d \in Digest, NEW n \in Node, Uploaded(d, n) PROVE HasFile'
    <2> DEFINE row == (IF locations[d] = None THEN {} ELSE locations[d]) \cup {n}
    <2>1. /\ Apply(d, n, row) /\ files \subseteq files' /\ committed' = committed
          /\ n = Self => d \in files'
        BY <1>1 DEF Uploaded
    <2>2. Self \in row => n = Self \/ (locations[d] # None /\ Self \in locations[d])
        OBVIOUS
    <2> QED
        BY <2>1, <2>2, ApplyFiles
<1>2. ASSUME NEW d \in Digest, NEW n \in Node, Lost(d, n) PROVE HasFile'
    <2> DEFINE row == IF locations[d] = {n} THEN None ELSE locations[d] \ {n}
    <2>1. Apply(d, n, row) /\ UNCHANGED <<files, committed>> /\ n # Self /\ locations[d] # None
        BY <1>2 DEF Lost
    <2>2. row # None /\ Self \in row => Self \in locations[d]
        OBVIOUS
    <2> QED
        BY <2>1, <2>2, ApplyFiles
<1>3. ASSUME NEW d \in Digest, Mirrored(d) PROVE HasFile'
    <2>1. /\ Apply(d, Self, locations[d] \cup {Self})
          /\ UNCHANGED files /\ committed' \subseteq committed /\ d \in files
        BY <1>3 DEF Mirrored, HasFile, HeldHasFile
    <2> QED
        BY <2>1, ApplyFiles, SelfAssumption
<1>4. ASSUME NEW d \in Digest, NEW n \in Node, Install(d, n) PROVE HasFile'
    <2>1. /\ \A e \in Digest \ {d} : locations'[e] = locations[e]
          /\ Self \in locations'[d] => locations[d] # None /\ Self \in locations[d]
        BY <1>4 DEF Install, TypeOK
    <2>2. UNCHANGED <<files, committed, worker, moved, loop, current>>
        BY <1>4 DEF Install, loopVars
    <2> QED
        BY <2>1, <2>2 DEF HasFile, HeldHasFile, SubmitHasFile, MoveHasFile
<1>5. CASE NotifyStep
    <2>1. UNCHANGED <<locations, files, committed, loop, current>> /\ worker' # "notify"
        BY <1>5 DEF NotifyStep, Notify, NotifyPanics, Drain, loopVars
    <2> QED
        BY <2>1 DEF HasFile, HeldHasFile, SubmitHasFile, MoveHasFile
<1>6. ASSUME NEW d \in Digest, NothingToDo(d) \/ Download(d) \/ DownloadFails(d) \/ TransferPanics(d)
      PROVE  HasFile'
    <2>1. UNCHANGED <<locations, committed, worker, moved>> /\ files \subseteq files'
        BY <1>6 DEF NothingToDo, Download, DownloadFails, TransferPanics, Visit
    <2>2. loop' = "submit" => current' \in files'
        BY <1>6 DEF NothingToDo, Download, DownloadFails, TransferPanics, Visit
    <2> QED
        BY <2>1, <2>2 DEF HasFile, HeldHasFile, SubmitHasFile, MoveHasFile
<1>7. ASSUME NEW ok \in BOOLEAN, Submit(ok) PROVE HasFile'
    <2>1. /\ UNCHANGED <<locations, files, worker, moved>> /\ loop' = "transfer"
          /\ committed' \subseteq committed \cup {current} /\ current \in files
        BY <1>7 DEF Submit, HasFile, SubmitHasFile
    <2> QED
        BY <2>1 DEF HasFile, HeldHasFile, SubmitHasFile, MoveHasFile
<1>8. CASE /\ UNCHANGED <<locations, files, committed>>
           /\ loop' = "submit" => loop = "submit" /\ UNCHANGED current
           /\ worker' = "notify" => worker = "notify" /\ UNCHANGED moved
    BY <1>8 DEF HasFile, HeldHasFile, SubmitHasFile, MoveHasFile
<1>9. CASE \E d \in Digest : MirroredPanics(d)
    BY <1>8, <1>9 DEF MirroredPanics, loopVars
<1>10. CASE \/ Subscribe \/ SubscribeAfterInstall \/ SubscribePanics \/ JoinChanged \/ JoinTimeout
            \/ JoinClosed \/ EndRound \/ TimerFires
    BY <1>8, <1>10 DEF Subscribe, SubscribeAfterInstall, SubscribePanics, JoinChanged, JoinTimeout,
                       Wake, JoinClosed, EndRound, TimerFires, storeVars, loopVars
<1>11. ASSUME NEW r \in Request, HandlerStep(r) \/ Disconnect(r) \/ \E d \in Digest : Get(r, d)
       PROVE  HasFile'
    BY <1>8, <1>11 DEF HandlerStep, Register, RegisterPanics, Serve, Disconnect, Get,
                       storeVars, loopVars
<1>12. CASE UNCHANGED vars
    BY <1>8, <1>12 DEF vars, storeVars, loopVars
<1> QED
    BY <1>1, <1>2, <1>3, <1>4, <1>5, <1>6, <1>7, <1>9, <1>10, <1>11, <1>12
    DEF Next, ApplyStep, LoopStep, Environment

-----------------------------------------------------------------------------
(***************************************************************************)
(* Requests.                                                               *)
(***************************************************************************)

\* Whoever is sent on keeps the digest, and nobody is registered anew.
LEMMA GoOnWaiters ==
    ASSUME TypeOK, WaitersOK, NEW rs, GoOn(rs),
           \A d \in Digest : waiters'[d] \subseteq waiters[d]
    PROVE  WaitersOK'
<1>1. \A r \in Request : req'[r].digest = req[r].digest /\ (req'[r].state = "new" <=> req[r].state = "new")
    BY GoOnType
<1>2. \A d \in Digest : waiters[d] \subseteq Request
    BY DEF TypeOK
<1> QED
    BY <1>1, <1>2 DEF WaitersOK

LEMMA SetReqWaiters ==
    ASSUME TypeOK, WaitersOK, NEW r \in Request, NEW d \in Digest,
           NEW state \in {"register", "waiting", "serve", "ok", "not_found", "gone"},
           SetReq(r, state, d),
           req[r].state = "new" \/ req[r].digest = d,
           \A e \in Digest : waiters'[e] \subseteq IF e = d THEN waiters[e] \cup {r} ELSE waiters[e]
    PROVE  WaitersOK'
<1>1. \A q \in Request : req'[q].state # "new" => req'[q].digest \in Digest
    BY SetReqType DEF WaitersOK
<1>2. ASSUME NEW e \in Digest, NEW q \in waiters'[e]
      PROVE  req'[q].state # "new" /\ req'[q].digest = e
    <2>1. q \in Request /\ (q = r \/ q \in waiters[e])
        BY DEF TypeOK
    <2>2. CASE q # r
        BY <2>1, <2>2, SetReqType DEF WaitersOK
    <2>3. CASE q = r
        <3>1. e = d
            BY <2>3 DEF WaitersOK
        <3> QED
            BY <2>3, <3>1, SetReqType
    <2> QED
        BY <2>2, <2>3
<1> QED
    BY <1>1, <1>2 DEF WaitersOK

LEMMA WaitersStep ==
    ASSUME TypeOK, WaitersOK, [Next]_vars
    PROVE  WaitersOK'
<1>1. CASE UNCHANGED <<req, waiters>>
    BY <1>1 DEF WaitersOK
<1>2. CASE NotifyStep
    BY <1>2, DrainType, GoOnWaiters DEF NotifyStep, Notify, NotifyPanics, Drain
<1>3. ASSUME NEW d \in Digest, NEW n \in Node, Install(d, n) PROVE WaitersOK'
    BY <1>3, GoOnWaiters DEF Install
<1>4. ASSUME NEW r \in Request, NEW d \in Digest, Get(r, d) PROVE WaitersOK'
    <2>1. PICK state \in {"not_found", "serve", "register"} : SetReq(r, state, d)
        BY <1>4 DEF Get
    <2> QED
        BY <1>4, <2>1, SetReqWaiters DEF Get, storeVars
<1>5. ASSUME NEW r \in Request, HandlerStep(r) \/ Disconnect(r) PROVE WaitersOK'
    <2>1. req[r].digest \in Digest
        BY <1>5 DEF HandlerStep, Register, RegisterPanics, Serve, Disconnect, WaitersOK
    <2>2. PICK state \in {"waiting", "ok", "not_found", "gone"} : SetReq(r, state, req[r].digest)
        BY <1>5 DEF HandlerStep, Register, RegisterPanics, Serve, Disconnect
    <2>3. \A e \in Digest :
              waiters'[e] \subseteq IF e = req[r].digest THEN waiters[e] \cup {r} ELSE waiters[e]
        BY <1>5, <2>1 DEF HandlerStep, Register, RegisterPanics, Serve, Disconnect, storeVars, TypeOK
    <2> QED
        BY <2>1, <2>2, <2>3, SetReqWaiters
<1>6. ASSUME NEW d \in Digest, \/ Mirrored(d) \/ MirroredPanics(d)
                               \/ \E n \in Node : Uploaded(d, n) \/ Lost(d, n)
      PROVE  UNCHANGED <<req, waiters>>
    BY <1>6 DEF Mirrored, MirroredPanics, Uploaded, Lost, Apply
<1>7. CASE LoopStep
    BY <1>1, <1>7 DEF LoopStep, Subscribe, SubscribeAfterInstall, SubscribePanics, JoinChanged,
       JoinTimeout, Wake, JoinClosed, NothingToDo, Download, DownloadFails, TransferPanics, Visit,
       Submit, EndRound, storeVars
<1>8. CASE TimerFires \/ UNCHANGED vars
    BY <1>1, <1>8 DEF TimerFires, vars, storeVars
<1> QED
    BY <1>1, <1>2, <1>3, <1>4, <1>5, <1>6, <1>7, <1>8 DEF Next, ApplyStep, Environment

\* Who is sent on by the second phase is served the file of the move.
LEMMA ServeStep ==
    ASSUME TypeOK, HasFile, WaitersOK, ServeFindsFile, [Next]_vars
    PROVE  ServeFindsFile'
<1>1. CASE UNCHANGED <<req, installs>> /\ files \subseteq files'
    BY <1>1 DEF ServeFindsFile
<1>2. CASE NotifyStep
    <2>1. /\ worker = "notify" /\ GoOn(Drained) /\ UNCHANGED <<files, installs>>
          /\ moved.digest \in Digest
        BY <1>2, MovedType DEF NotifyStep, Notify, NotifyPanics, Drain, counters
    <2> SUFFICES ASSUME installs = 0, NEW r \in Request, req'[r].state = "serve"
                 PROVE  req[r].digest \in files
        BY <2>1, GoOnType DEF ServeFindsFile
    <2>2. CASE req[r].state = "serve"
        BY <2>2 DEF ServeFindsFile
    <2>3. CASE req[r].state # "serve"
        <3>1. r \in Drained
            BY <2>1, <2>3, GoOnType
        <3>2. moved.location = Self /\ r \in waiters[moved.digest]
            BY <3>1 DEF Drained
        <3> QED
            BY <2>1, <3>2 DEF HasFile, MoveHasFile, WaitersOK
    <2> QED
        BY <2>2, <2>3
<1>3. ASSUME NEW d \in Digest, NEW n \in Node, Install(d, n) PROVE ServeFindsFile'
    <2>1. installs' # 0
        BY <1>3, BoundsAssumption DEF Install, TypeOK
    <2> QED
        BY <2>1 DEF ServeFindsFile
<1>4. ASSUME NEW r \in Request, NEW d \in Digest, Get(r, d) PROVE ServeFindsFile'
    <2> DEFINE state == IF locations[d] = None THEN "not_found"
                        ELSE IF Self \in locations[d] THEN "serve" ELSE "register"
    <2>1. SetReq(r, state, d) /\ UNCHANGED <<files, installs>>
        BY <1>4 DEF Get, storeVars, counters
    <2>2. state = "serve" => d \in files
        BY DEF HasFile, HeldHasFile
    <2>3. state \in {"not_found", "serve", "register"}
        OBVIOUS
    <2> HIDE DEF state
    <2> QED
        BY <2>1, <2>2, <2>3, SetReqType DEF ServeFindsFile
<1>5. ASSUME NEW r \in Request, HandlerStep(r) \/ Disconnect(r) PROVE ServeFindsFile'
    <2>1. req[r].digest \in Digest
        BY <1>5 DEF HandlerStep, Register, RegisterPanics, Serve, Disconnect, WaitersOK
    <2>2. PICK state \in {"waiting", "ok", "not_found", "gone"} : SetReq(r, state, req[r].digest)
        BY <1>5 DEF HandlerStep, Register, RegisterPanics, Serve, Disconnect
    <2>3. UNCHANGED <<files, installs>>
        BY <1>5 DEF HandlerStep, Register, RegisterPanics, Serve, Disconnect, storeVars, counters
    <2> QED
        BY <2>1, <2>2, <2>3, SetReqType DEF ServeFindsFile
<1>6. ASSUME NEW d \in Digest, \/ Mirrored(d) \/ MirroredPanics(d)
                               \/ \E n \in Node : Uploaded(d, n) \/ Lost(d, n)
      PROVE  UNCHANGED <<req, installs>> /\ files \subseteq files'
    BY <1>6 DEF Mirrored, MirroredPanics, Uploaded, Lost, Apply, counters
<1>7. CASE LoopStep
    BY <1>1, <1>7 DEF LoopStep, Subscribe, SubscribeAfterInstall, SubscribePanics, JoinChanged,
       JoinTimeout, Wake, JoinClosed, NothingToDo, Download, DownloadFails, TransferPanics, Visit,
       Submit, EndRound, storeVars, counters
<1>8. CASE TimerFires \/ UNCHANGED vars
    BY <1>1, <1>8 DEF TimerFires, vars, storeVars, counters
<1> QED
    BY <1>1, <1>2, <1>3, <1>4, <1>5, <1>6, <1>7, <1>8 DEF Next, ApplyStep, Environment

-----------------------------------------------------------------------------
(***************************************************************************)
(* Waking the loop.                                                        *)
(***************************************************************************)
WakeOK == ReadIsSeen /\ ChangeArmed

LEMMA WakeStep ==
    ASSUME TypeOK, WakeOK, [Next]_vars
    PROVE  WakeOK'
<1> USE DEF WakeOK
<1>1. CASE /\ UNCHANGED <<loop, read, woke, change, pending, unseen, changeUnseen>>
           /\ closed' = closed \/ closed' = TRUE
    BY <1>1 DEF ReadIsSeen, ChangeArmed
<1>2. CASE Notify
    <2>1. UNCHANGED <<closed, loop, read, woke, change>>
        BY <1>2 DEF Notify, Drain, loopVars
    <2>2. CASE closed
        BY <1>1, <1>2, <2>1, <2>2 DEF Notify
    <2>3. CASE ~closed
        <3>1. unseen' = TRUE /\ changeUnseen' = TRUE
            BY <1>2, <2>3 DEF Notify
        <3> QED
            BY <2>1, <3>1 DEF ReadIsSeen, ChangeArmed
    <2> QED
        BY <2>2, <2>3
<1>3. CASE NotifyPanics
    BY <1>1, <1>3 DEF NotifyPanics, Drain, loopVars
<1>4. ASSUME NEW d \in Digest, \/ Mirrored(d) \/ MirroredPanics(d)
                               \/ \E n \in Node : Uploaded(d, n) \/ Lost(d, n) \/ Install(d, n)
      PROVE  WakeOK'
    BY <1>1, <1>4 DEF Mirrored, MirroredPanics, Uploaded, Lost, Install, Apply, loopVars
<1>5. CASE Subscribe
    <2>1. /\ read' = pending /\ unseen' = FALSE /\ change' = TRUE /\ loop' = "join"
          /\ pending' = pending
        BY <1>5 DEF Subscribe, Read, SpawnChange, storeVars
    <2> QED
        BY <2>1 DEF ReadIsSeen, ChangeArmed
<1>6. CASE SubscribeAfterInstall
    <2>1. loop' = "start"
        BY <1>6 DEF SubscribeAfterInstall, loopVars
    <2> QED
        BY <2>1 DEF ReadIsSeen, ChangeArmed
<1>7. CASE SubscribePanics \/ JoinClosed
    <2>1. loop' = "ended"
        BY <1>7 DEF SubscribePanics, JoinClosed
    <2> QED
        BY <2>1 DEF ReadIsSeen, ChangeArmed
<1>8. CASE JoinChanged
    <2>1. /\ read' = pending /\ pending' = pending /\ loop' = "transfer" /\ woke' = "changed"
        BY <1>8 DEF JoinChanged, Wake, Read, storeVars
    <2> QED
        BY <2>1 DEF ReadIsSeen, ChangeArmed
<1>9. CASE JoinTimeout
    <2>1. /\ read' = pending /\ pending' = pending /\ loop = "join" /\ loop' = "transfer"
          /\ unseen' = FALSE /\ change' = change
        BY <1>9 DEF JoinTimeout, Wake, Read, storeVars
    <2> QED
        BY <2>1 DEF ReadIsSeen, ChangeArmed
<1>10. ASSUME NEW d \in Digest, NothingToDo(d) \/ Download(d) \/ DownloadFails(d) \/ TransferPanics(d)
       PROVE  WakeOK'
    <2>1. /\ UNCHANGED <<read, woke, change, pending, closed, unseen, changeUnseen>>
          /\ loop = "transfer" /\ loop' \in {"transfer", "submit", "ended"}
        BY <1>10 DEF NothingToDo, Download, DownloadFails, TransferPanics, Visit
    <2> QED
        BY <2>1 DEF ReadIsSeen, ChangeArmed
<1>11. ASSUME NEW ok \in BOOLEAN, Submit(ok) PROVE WakeOK'
    <2>1. /\ UNCHANGED <<read, woke, change, pending, closed, unseen, changeUnseen>>
          /\ loop = "submit" /\ loop' = "transfer"
        BY <1>11 DEF Submit
    <2> QED
        BY <2>1 DEF ReadIsSeen, ChangeArmed
<1>12. CASE EndRound
    <2>1. /\ UNCHANGED <<read, woke, pending, closed, unseen>> /\ loop = "transfer" /\ loop' = "join"
        BY <1>12 DEF EndRound, storeVars
    <2>2. CASE woke = "changed"
        <3>1. change' = TRUE /\ changeUnseen' = ~~unseen
            BY <1>12, <2>2 DEF EndRound, SpawnChange
        <3> QED
            BY <2>1, <3>1 DEF ReadIsSeen, ChangeArmed
    <2>3. CASE woke # "changed"
        <3>1. UNCHANGED <<change, changeUnseen>>
            BY <1>12, <2>3 DEF EndRound
        <3> QED
            BY <2>1, <2>3, <3>1 DEF ReadIsSeen, ChangeArmed
    <2> QED
        BY <2>2, <2>3
<1>13. CASE TimerFires \/ UNCHANGED vars
    BY <1>1, <1>13 DEF TimerFires, vars, storeVars, loopVars
<1>14. ASSUME NEW r \in Request, HandlerStep(r) \/ Disconnect(r) \/ \E d \in Digest : Get(r, d)
       PROVE  WakeOK'
    BY <1>1, <1>14 DEF HandlerStep, Register, RegisterPanics, Serve, Disconnect, Get,
                       storeVars, loopVars
<1> QED
    BY <1>2, <1>3, <1>4, <1>5, <1>6, <1>7, <1>8, <1>9, <1>10, <1>11, <1>12, <1>13, <1>14
    DEF Next, ApplyStep, NotifyStep, LoopStep, Environment

-----------------------------------------------------------------------------
(***************************************************************************)
(* The theorems.                                                           *)
(***************************************************************************)
LEMMA InitIInv == Init => IInv
<1> SUFFICES ASSUME Init PROVE IInv
    OBVIOUS
<1> USE DEF Init
<1>1. TypeOK
    <2>1. req \in [Request -> [state : {"new", "register", "waiting", "serve",
                                        "ok", "not_found", "gone"},
                               digest : Digest \cup {None}]]
        OBVIOUS
    <2>2. /\ locations \in [Digest -> (SUBSET Node) \cup {None}]
          /\ waiters \in [Digest -> SUBSET Request]
        OBVIOUS
    <2>3. /\ changes \in 0 .. MaxChanges /\ failures \in 0 .. MaxFailures
          /\ installs \in 0 .. MaxInstalls /\ disconnects \in 0 .. MaxDisconnects
        BY BoundsAssumption
    <2> QED
        BY <2>1, <2>2, <2>3 DEF TypeOK
<1>2. HeldHasFile /\ SubmitHasFile /\ MoveHasFile
    BY DEF HeldHasFile, SubmitHasFile, MoveHasFile
<1>3. WaitersOK /\ ServeFindsFile
    BY DEF WaitersOK, ServeFindsFile
<1>4. ReadIsSeen /\ ChangeArmed
    BY DEF ReadIsSeen, ChangeArmed
<1> QED
    BY <1>1, <1>2, <1>3, <1>4 DEF IInv

\* The invariant is inductive, whatever the bounds on changes, failed
\* downloads, installed snapshots and lost clients are.
THEOREM Inductive == Spec => []IInv
<1>1. IInv /\ [Next]_vars => IInv'
    <2> SUFFICES ASSUME IInv, [Next]_vars PROVE IInv'
        OBVIOUS
    <2>1. TypeOK' /\ WaitersOK' /\ ServeFindsFile'
        BY TypeStep, WaitersStep, ServeStep DEF IInv, HasFile
    <2>2. HasFile' /\ WakeOK'
        BY FileStep, WakeStep DEF IInv, HasFile, WakeOK
    <2> QED
        BY <2>1, <2>2 DEF IInv, HasFile, WakeOK
<1> QED
    BY <1>1, InitIInv, PTL DEF Spec

\* The mirror loop never sleeps on a change of the pending set: the receiver
\* that wait_for_change has cloned has seen no version the loop has not read.
THEOREM NoLostWakeup == Spec => []NoLostChange
<1>1. IInv => NoLostChange
    BY DEF IInv, TypeOK, ReadIsSeen, ChangeArmed, NoLostChange
<1> QED
    BY <1>1, Inductive, PTL

\* A row of this node never names it as a location without its file in the
\* storage directory, and neither does a Stored in the log.
THEOREM LocationsAreFiles == Spec => []HeldHasFile
<1>1. IInv => HeldHasFile
    BY DEF IInv
<1> QED
    BY <1>1, Inductive, PTL

\* A GET or HEAD that goes on to send the file finds it, as long as no snapshot
\* is installed, even when clients disconnect and the second phase panics.
THEOREM ServedFilesExist == Spec => []ServeFindsFile
<1>1. IInv => ServeFindsFile
    BY DEF IInv
<1> QED
    BY <1>1, Inductive, PTL

=============================================================================
