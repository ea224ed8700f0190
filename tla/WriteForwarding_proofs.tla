------------------------ MODULE WriteForwarding_proofs ------------------------
(***************************************************************************)
(* Proofs that submit_write and consistent_write keep what RegistryWrite   *)
(* promises, and that a webhook never tells of a manifest that its node    *)
(* has not applied, for any nodes, calls, elections and bounds.            *)
(***************************************************************************)
EXTENDS WriteForwarding, FiniteSetTheorems, SequenceTheorems, TLAPS

-----------------------------------------------------------------------------
(***************************************************************************)
(* The inductive invariant.  What is decided is never taken back, so what  *)
(* a call or a webhook has been told of the log stays true; and a call     *)
(* that was not sent again after it was accepted has at most one attempt   *)
(* alive, on the wire, in the log of the leader or in that of another, and *)
(* none when it is about to make one.                                      *)
(***************************************************************************)
In(attempts, c) == \E a \in attempts : a.call = c

InLog(c, upto) == \E i \in 1 .. upto : log[i].call = c

Dead(c) == ~In(wire, c) /\ ~In(stray, c) /\ ~InLog(c, Len(log))

CallOK(c) ==
    /\ call[c].tries > 0
    /\ call[c].at \in {"send", "remote"} => call[c].to \in Node
    /\ call[c].at \in {"check", "changed"} =>
          call[c].index \in 1 .. commit /\ log[call[c].index].call = c
    /\ call[c].at = "enqueue" => c \in Puts /\ InLog(c, applied[Home[c]])

OnceOK(c) ==
    /\ call[c].at = "none" => Dead(c)
    /\ c \notin redone =>
          /\ call[c].at \in {"client_write", "send"} => Dead(c)
          /\ ~(In(wire, c) /\ In(stray, c))
          /\ ~((In(wire, c) \/ In(stray, c)) /\ InLog(c, Len(log)))
          /\ \A a, b \in wire : a.call = c /\ b.call = c => a = b
          /\ \A a, b \in stray : a.call = c /\ b.call = c => a = b
          /\ \A i, j \in 1 .. Len(log) : log[i].call = c /\ log[j].call = c => i = j

EventOK(n) == \A c \in Call : c \in Range(queue[n]) \/ c = worker[n] => InLog(c, applied[n])

IInv ==
    /\ TypeOK /\ IsFiniteSet(stray)
    /\ \A c \in Call : CallOK(c) /\ OnceOK(c)
    /\ \A n \in Node : EventOK(n)

-----------------------------------------------------------------------------
(***************************************************************************)
(* Sequences and sets.                                                     *)
(***************************************************************************)

\* What SetToAllKPermutations lists: some of the set, without repetition.
LEMMA PermutationLists ==
    ASSUME NEW S, IsFiniteSet(S), NEW s \in SetToAllKPermutations(S)
    PROVE  s \in Seq(S) /\ \A i, j \in 1 .. Len(s) : s[i] = s[j] => i = j
<1>1. PICK T \in SUBSET S : s \in SetToSeqs(T)
    BY DEF SetToAllKPermutations
<1> DEFINE n == Cardinality(T)
<1>2. IsFiniteSet(T)
    BY FS_Subset
<1>3. n \in Nat
    BY <1>2, FS_CardinalityType
<1>4. s \in [1 .. n -> T] /\ \A i, j \in 1 .. n : i # j => s[i] # s[j]
    BY <1>1 DEF SetToSeqs
<1> HIDE DEF n
<1>5. s \in Seq(S) /\ Len(s) = n
    BY <1>3, <1>4
<1> QED
    BY <1>4, <1>5

\* The items of a sequence from some index on are a finite set.
LEMMA SuffixFinite ==
    ASSUME NEW S, NEW s \in Seq(S), NEW k \in Nat
    PROVE  IsFiniteSet({s[i] : i \in k + 1 .. Len(s)})
<1> DEFINE T == {s[i] : i \in k + 1 .. Len(s)}
           f == [i \in k + 1 .. Len(s) |-> s[i]]
<1>1. IsFiniteSet(k + 1 .. Len(s))
    BY FS_Interval
<1>2. f \in Surjection(k + 1 .. Len(s), T)
    BY DEF Surjection
<1> HIDE DEF T, f
<1>3. IsFiniteSet(T)
    BY <1>1, <1>2, FS_Surjection
<1> QED
    BY <1>3 DEF T

LEMMA RangeAppend ==
    ASSUME NEW S, NEW q \in Seq(S), NEW x \in S
    PROVE  \A y \in Range(Append(q, x)) : y \in Range(q) \/ y = x
BY DEF Range

LEMMA RangeTail ==
    ASSUME NEW S, NEW q \in Seq(S), q # <<>>
    PROVE  Range(Tail(q)) \subseteq Range(q) /\ Head(q) \in Range(q) /\ Head(q) \in S
BY DEF Range

-----------------------------------------------------------------------------
(***************************************************************************)
(* Calls.                                                                  *)
(***************************************************************************)
LEMMA NoCallType == NoCall \in CallState /\ NoCall.tries > 0
BY BoundsAssumption DEF NoCall, CallState, Step

\* What Goes does to the call it is about, and to the others.
LEMMA GoesEffect ==
    ASSUME TypeOK, NEW c \in Call, NEW known \in CallState, NEW step \in Step, Goes(c, known, step)
    PROVE  /\ call' \in [Call -> CallState]
           /\ \A d \in Call \ {c} : call'[d] = call[d]
           /\ call'[c].at = step
           /\ step \notin {"enqueue", "ok", "failed"} =>
                 /\ call'[c].to = known.to /\ call'[c].tries = known.tries
                 /\ call'[c].index = known.index /\ call'[c].try = known.try
           /\ step \in {"enqueue", "ok", "failed"} => call'[c].tries > 0
<1> DEFINE old == IF step \in {"enqueue", "ok", "failed"} THEN NoCall ELSE known
           new == [old EXCEPT !.at = step]
<1>1. old \in CallState
    BY NoCallType
<1>2. new \in CallState /\ new.at = step /\ new.to = old.to /\ new.tries = old.tries
      /\ new.index = old.index /\ new.try = old.try
    <2> HIDE DEF old
    <2> QED
        BY <1>1 DEF CallState
<1>3. call' = [call EXCEPT ![c] = new]
    BY DEF Goes
<1>4. call \in [Call -> CallState]
    BY DEF TypeOK
<1>5. step \in {"enqueue", "ok", "failed"} => old.tries > 0
    BY NoCallType
<1>6. step \notin {"enqueue", "ok", "failed"} => old = known
    OBVIOUS
<1> HIDE DEF old, new
<1> QED
    BY <1>2, <1>3, <1>4, <1>5, <1>6

-----------------------------------------------------------------------------
(***************************************************************************)
(* What stays true while the decided part of the log only grows.           *)
(***************************************************************************)
LogKept ==
    /\ log' \in Seq(Attempt) /\ commit' \in 0 .. Len(log') /\ commit <= commit'
    /\ \A i \in 1 .. commit : log'[i] = log[i]
    /\ applied' \in [Node -> 0 .. commit'] /\ \A n \in Node : applied[n] <= applied'[n]

LEMMA SameLogKept ==
    ASSUME TypeOK, UNCHANGED <<log, commit, applied>>
    PROVE  LogKept
BY DEF TypeOK, LogKept

LEMMA InLogStays ==
    ASSUME TypeOK, LogKept, NEW n \in Node, NEW c, InLog(c, applied[n])
    PROVE  InLog(c, applied[n])'
<1>1. applied[n] \in Nat /\ commit \in Nat /\ applied[n] <= commit
    BY DEF TypeOK
<1>2. PICK i \in 1 .. applied[n] : log[i].call = c
    BY DEF InLog
<1>3. applied'[n] \in Nat /\ applied[n] <= applied'[n]
    BY DEF LogKept
<1>4. i \in 1 .. applied'[n] /\ log'[i] = log[i]
    BY <1>1, <1>3 DEF LogKept
<1> QED
    BY <1>2, <1>4 DEF InLog

LEMMA CallOKStays ==
    ASSUME TypeOK, LogKept, NEW c \in Call, CallOK(c),
           call'[c].at = call[c].at, call'[c].to = call[c].to,
           call'[c].tries = call[c].tries, call'[c].index = call[c].index
    PROVE  CallOK(c)'
<1>1. Home[c] \in Node /\ commit \in Nat /\ commit' \in Nat /\ commit <= commit'
    BY HomeAssumption DEF TypeOK, LogKept
<1>2. call[c].index \in 1 .. commit =>
         call'[c].index \in 1 .. commit' /\ log'[call'[c].index] = log[call[c].index]
    BY <1>1 DEF LogKept
<1>3. InLog(c, applied[Home[c]]) => InLog(c, applied[Home[c]])'
    BY <1>1, InLogStays
<1> QED
    BY <1>2, <1>3 DEF CallOK

LEMMA EventOKStays ==
    ASSUME TypeOK, LogKept, NEW n \in Node, EventOK(n),
           queue'[n] = queue[n], worker'[n] = worker[n]
    PROVE  EventOK(n)'
BY InLogStays DEF EventOK

\* A call none of whose attempts has come or gone.
LEMMA OnceOKStays ==
    ASSUME NEW c \in Call, OnceOK(c), call'[c].at = call[c].at,
           \A a : a.call = c => (a \in wire' <=> a \in wire) /\ (a \in stray' <=> a \in stray),
           \A i : i \in 1 .. Len(log') /\ log'[i].call = c
                     <=> i \in 1 .. Len(log) /\ log[i].call = c,
           c \in redone => c \in redone'
    PROVE  OnceOK(c)'
BY DEF OnceOK, Dead, In, InLog

\* What a call knows when it takes the step.
GoesOK(c, known, step) ==
    /\ step \notin {"enqueue", "ok", "failed"} => known.tries > 0
    /\ step \in {"send", "remote"} => known.to \in Node
    /\ step \in {"check", "changed"} =>
          known.index \in 1 .. commit /\ log[known.index].call = c
    /\ step = "enqueue" => c \in Puts /\ InLog(c, applied[Home[c]])

LEMMA GoesKeepsCalls ==
    ASSUME TypeOK, \A d \in Call : CallOK(d), LogKept, NEW c \in Call, NEW known \in CallState,
           NEW step \in Step, Goes(c, known, step), GoesOK(c, known, step)
    PROVE  \A d \in Call : CallOK(d)'
<1>1. /\ \A d \in Call \ {c} : call'[d] = call[d]
      /\ call'[c].at = step
      /\ step \notin {"enqueue", "ok", "failed"} =>
            /\ call'[c].to = known.to /\ call'[c].tries = known.tries
            /\ call'[c].index = known.index
      /\ step \in {"enqueue", "ok", "failed"} => call'[c].tries > 0
    BY GoesEffect
<1>2. ASSUME NEW d \in Call, d # c PROVE CallOK(d)'
    BY <1>1, <1>2, CallOKStays
<1>3. CallOK(c)'
    <2>1. Home[c] \in Node /\ commit \in Nat /\ commit' \in Nat /\ commit <= commit'
        BY HomeAssumption DEF TypeOK, LogKept
    <2>2. known.index \in 1 .. commit =>
             known.index \in 1 .. commit' /\ log'[known.index] = log[known.index]
        BY <2>1 DEF LogKept
    <2>3. InLog(c, applied[Home[c]]) => InLog(c, applied[Home[c]])'
        BY <2>1, InLogStays
    <2>4. call'[c].tries > 0
        BY <1>1 DEF GoesOK
    <2>5. step \in {"send", "remote", "check", "changed"} => step \notin {"enqueue", "ok", "failed"}
        OBVIOUS
    <2> QED
        BY <1>1, <2>2, <2>3, <2>4, <2>5 DEF CallOK, GoesOK
<1> QED
    BY <1>2, <1>3

\* The steps that only change what the call knows.
LEMMA CallOnlyKeeps ==
    ASSUME IInv, NEW c \in Call, NEW known \in CallState, NEW step \in Step \ {"none"},
           Goes(c, known, step), GoesOK(c, known, step),
           step \in {"client_write", "send"} /\ c \notin redone' => Dead(c),
           UNCHANGED <<raftVars, wire, stray, deleted, hookVars>>,
           redone' \in {redone, redone \cup {c}}
    PROVE  IInv'
<1> USE DEF raftVars, hookVars
<1>1. TypeOK /\ LogKept /\ (\A d \in Call : CallOK(d) /\ OnceOK(d)) /\ \A n \in Node : EventOK(n)
    BY SameLogKept DEF IInv
<1>2. /\ call' \in [Call -> CallState] /\ \A d \in Call \ {c} : call'[d] = call[d]
      /\ call'[c].at = step
    BY <1>1, GoesEffect
<1>3. TypeOK'
    BY <1>1, <1>2 DEF TypeOK
<1>4. \A d \in Call : CallOK(d)'
    BY <1>1, GoesKeepsCalls
<1>5. ASSUME NEW d \in Call PROVE OnceOK(d)'
    <2>1. CASE d # c
        BY <1>1, <1>2, <2>1, OnceOKStays
    <2>2. CASE d = c
        BY <1>1, <1>2, <2>2 DEF OnceOK, Dead, In, InLog
    <2> QED
        BY <2>1, <2>2
<1>6. \A n \in Node : EventOK(n)'
    BY <1>1, EventOKStays
<1> QED
    BY <1>3, <1>4, <1>5, <1>6 DEF IInv

\* ForwardToLeader sends the call on to a node it can name, or ends it.
LEMMA RefusedGoes ==
    ASSUME TypeOK, NEW c \in Call, NEW hint \in Node \cup {None}, NEW tries \in 0 .. Tries,
           Refused(c, hint, tries)
    PROVE  \E k \in CallState, step \in {"send", "failed"} :
              Goes(c, k, step) /\ (step = "send" => k.to \in Node /\ k.tries > 0)
<1> DEFINE k == [call[c] EXCEPT !.to = hint, !.tries = tries]
           step == IF hint = None \/ tries = 0 THEN "failed" ELSE "send"
<1>1. call[c] \in CallState
    BY DEF TypeOK
<1>2. k \in CallState /\ k.to = hint /\ k.tries = tries
    BY <1>1 DEF CallState
<1>3. Goes(c, k, step)
    BY DEF Refused
<1>4. step \in {"send", "failed"} /\ (step = "send" => hint \in Node /\ tries > 0)
    BY BoundsAssumption
<1> HIDE DEF k, step
<1> QED
    BY <1>2, <1>3, <1>4

LEMMA RepeatedFacts ==
    ASSUME NEW q \in CallState, NEW m \in 0 .. Repetitions, NEW k,
           k = [q EXCEPT !.repetitions = m]
    PROVE  k \in CallState /\ k.to = q.to /\ k.tries = q.tries
BY DEF CallState

\* Each of them.
LEMMA CallKeeps ==
    ASSUME IInv, NEW c \in Call,
           \/ Begin(c) \/ LocalRefuses(c) \/ Fails(c) \/ Repeat(c) \/ Check(c) \/ Changed(c)
           \/ \E i \in 1 .. Len(log) : Succeeds(c, i)
    PROVE  IInv'
<1>1. TypeOK /\ CallOK(c) /\ OnceOK(c) /\ call[c] \in CallState /\ Home[c] \in Node
    BY HomeAssumption DEF IInv, TypeOK
<1>2. /\ leader \in Node /\ believes[Home[c]] \in Node \cup {None} /\ Tries \in Nat \ {0}
      /\ published[Home[c]] \in Nat /\ applied[Home[c]] \in 0 .. commit
      /\ published[Home[c]] <= applied[Home[c]] /\ commit \in Nat
    BY <1>1, BoundsAssumption DEF TypeOK
<1>3. CASE Begin(c)
    <2> DEFINE k == [call[c] EXCEPT !.to = Home[c]]
    <2>1. k \in CallState /\ k.to = Home[c] /\ k.tries = call[c].tries
        BY <1>1 DEF CallState
    <2>2. /\ UNCHANGED <<raftVars, wire, stray, deleted, redone, hookVars>> /\ call[c].at = "none"
          /\ c \in Repeats => Goes(c, k, "send")
          /\ c \notin Repeats => Goes(c, call[c], "client_write")
        BY <1>3 DEF Begin, entryVars
    <2> HIDE DEF k
    <2>3. Dead(c) /\ call[c].tries > 0
        BY <1>1, <2>2 DEF OnceOK, CallOK
    <2>4. GoesOK(c, k, "send") /\ GoesOK(c, call[c], "client_write")
        BY <1>1, <2>1, <2>3 DEF GoesOK
    <2>5. "send" \in Step \ {"none"} /\ "client_write" \in Step \ {"none"}
        BY DEF Step
    <2> QED
        BY <1>1, <2>1, <2>2, <2>3, <2>4, <2>5, CallOnlyKeeps
<1>4. CASE LocalRefuses(c)
    <2>1. /\ UNCHANGED <<raftVars, wire, stray, deleted, redone, hookVars>> /\ call[c].at = "client_write"
          /\ Refused(c, believes[Home[c]], Tries) /\ Tries \in 0 .. Tries
        BY <1>2, <1>4 DEF LocalRefuses, entryVars
    <2>2. PICK k \in CallState, step \in {"send", "failed"} :
             Goes(c, k, step) /\ (step = "send" => k.to \in Node /\ k.tries > 0)
        BY <1>1, <1>2, <2>1, RefusedGoes
    <2>3. c \notin redone => Dead(c)
        BY <1>1, <2>1 DEF OnceOK
    <2>4. step \in Step \ {"none"} /\ GoesOK(c, k, step)
        BY <2>2 DEF Step, GoesOK
    <2> QED
        BY <2>1, <2>2, <2>3, <2>4, CallOnlyKeeps
<1>5. CASE Fails(c)
    <2>1. Goes(c, call[c], "failed") /\ UNCHANGED <<raftVars, wire, stray, deleted, redone, hookVars>>
        BY <1>5 DEF Fails, entryVars
    <2>2. GoesOK(c, call[c], "failed") /\ "failed" \in Step \ {"none"}
        BY DEF GoesOK, Step
    <2> QED
        BY <1>1, <2>1, <2>2, CallOnlyKeeps
<1>6. CASE Repeat(c)
    <2> DEFINE k == [call[c] EXCEPT !.repetitions = call[c].repetitions - 1]
    <2>1. /\ call[c].at = "remote" /\ c \in Repeats /\ call[c].repetitions > 0
          /\ Goes(c, k, "send") /\ UNCHANGED <<raftVars, wire, stray, deleted, hookVars>>
          /\ redone' = redone \cup {c} /\ c \in redone'
        BY <1>6 DEF Repeat
    <2>2. k \in CallState /\ k.to = call[c].to /\ k.tries = call[c].tries
        <3> DEFINE m == call[c].repetitions - 1
        <3>1. call[c].repetitions \in 0 .. Repetitions
            BY <1>1 DEF CallState
        <3>2. m \in 0 .. Repetitions
            BY <2>1, <3>1, BoundsAssumption
        <3>3. k = [call[c] EXCEPT !.repetitions = m]
            OBVIOUS
        <3> HIDE DEF k, m
        <3> QED
            BY <1>1, <3>2, <3>3, RepeatedFacts
    <2> HIDE DEF k
    <2>3. GoesOK(c, k, "send") /\ "send" \in Step \ {"none"}
        BY <1>1, <2>1, <2>2 DEF GoesOK, CallOK, Step
    <2> QED
        BY <2>1, <2>2, <2>3, CallOnlyKeeps
<1>7. CASE Check(c)
    <2> DEFINE step == IF published[Home[c]] < call[c].index THEN "changed"
                       ELSE IF c \in Puts THEN "enqueue" ELSE "ok"
    <2>1. /\ call[c].at = "check" /\ Goes(c, call[c], step)
          /\ UNCHANGED <<raftVars, wire, stray, deleted, redone, hookVars>>
        BY <1>7 DEF Check, entryVars
    <2>2. call[c].index \in 1 .. commit /\ log[call[c].index].call = c /\ call[c].tries > 0
        BY <1>1, <2>1 DEF CallOK
    <2>3. step = "enqueue" => c \in Puts /\ InLog(c, applied[Home[c]])
        <3>1. step = "enqueue" => call[c].index \in 1 .. applied[Home[c]] /\ c \in Puts
            BY <1>2, <2>2
        <3> QED
            BY <2>2, <3>1 DEF InLog
    <2>4. step \in {"changed", "enqueue", "ok"} /\ step \in Step \ {"none"}
        BY DEF Step
    <2> HIDE DEF step
    <2>5. GoesOK(c, call[c], step)
        BY <2>2, <2>3, <2>4 DEF GoesOK
    <2> QED
        BY <1>1, <2>1, <2>4, <2>5, CallOnlyKeeps
<1>8. CASE Changed(c)
    <2> DEFINE k == [call[c] EXCEPT !.unseen = FALSE]
    <2>1. /\ call[c].at = "changed" /\ Goes(c, k, "check")
          /\ UNCHANGED <<raftVars, wire, stray, deleted, redone, hookVars>>
        BY <1>8 DEF Changed, entryVars
    <2>2. k \in CallState /\ k.index = call[c].index /\ k.tries = call[c].tries
        BY <1>1 DEF CallState
    <2> HIDE DEF k
    <2>3. GoesOK(c, k, "check") /\ "check" \in Step \ {"none"}
        BY <1>1, <2>1, <2>2 DEF GoesOK, CallOK, Step
    <2> QED
        BY <2>1, <2>2, <2>3, CallOnlyKeeps
<1>9. ASSUME NEW i \in 1 .. Len(log), Succeeds(c, i) PROVE IInv'
    <2> DEFINE seen == (published[Home[c]] > 0)
               k == [NoCall EXCEPT !.index = i, !.unseen = seen]
               step == IF c \in Waits THEN "check" ELSE "ok"
    <2>1. /\ Returned(c, i) /\ Goes(c, k, step)
          /\ UNCHANGED <<raftVars, wire, stray, deleted, redone, hookVars>>
        BY <1>9 DEF Succeeds, entryVars
    <2>2. seen \in BOOLEAN /\ i \in Nat
        OBVIOUS
    <2> HIDE DEF seen
    <2>3. k \in CallState /\ k.index = i /\ k.tries = NoCall.tries
        BY <2>2, NoCallType DEF CallState
    <2>4. i \in 1 .. commit /\ log[i].call = c
        <3>1. log[i] \in Attempt
            BY <1>1 DEF TypeOK
        <3>2. log[i].on \in Node /\ i <= applied[log[i].on] /\ log[i].call = c
            BY <2>1, <3>1 DEF Attempt, Returned
        <3>3. applied[log[i].on] \in 0 .. commit
            BY <1>1, <3>2 DEF TypeOK
        <3> QED
            BY <1>2, <3>2, <3>3
    <2>5. step \in {"check", "ok"} /\ step \in Step \ {"none"}
        BY DEF Step
    <2> HIDE DEF k, step
    <2>6. GoesOK(c, k, step)
        BY <2>3, <2>4, <2>5, NoCallType DEF GoesOK
    <2> QED
        BY <2>1, <2>3, <2>5, <2>6, CallOnlyKeeps
<1> QED
    BY <1>3, <1>4, <1>5, <1>6, <1>7, <1>8, <1>9

-----------------------------------------------------------------------------
(***************************************************************************)
(* The life of an attempt.                                                 *)
(***************************************************************************)

\* client_write appends the attempt to the log, or to one that will be cut.
LEMMA AcceptsLog ==
    ASSUME TypeOK, NEW a \in Attempt, Accepts(a)
    PROVE  /\ \/ log' = Append(log, a) /\ stray' = stray
              \/ log' = log /\ stray' = stray \cup {a}
           /\ UNCHANGED <<leader, elections, believes, commit, applied, published, deleted, redone>>
           /\ \A i \in 1 .. Len(log') : i \in 1 .. Len(log) \/ (i = Len(log) + 1 /\ log'[i] = a)
           /\ \A i \in 1 .. Len(log) : i \in 1 .. Len(log') /\ log'[i] = log[i]
           /\ LogKept
<1>1. /\ \/ log' = Append(log, a) /\ stray' = stray
         \/ log' = log /\ stray' = stray \cup {a}
      /\ UNCHANGED <<leader, elections, believes, commit, applied, published, deleted, redone>>
    BY DEF Accepts
<1>2. /\ log \in Seq(Attempt) /\ Len(log) \in Nat /\ commit \in 0 .. Len(log)
      /\ applied \in [Node -> 0 .. commit]
    BY DEF TypeOK
<1>3. /\ log' \in Seq(Attempt) /\ Len(log') \in Nat /\ Len(log) <= Len(log')
      /\ \A i \in 1 .. Len(log') : i \in 1 .. Len(log) \/ (i = Len(log) + 1 /\ log'[i] = a)
      /\ \A i \in 1 .. Len(log) : i \in 1 .. Len(log') /\ log'[i] = log[i]
    <2>1. CASE log' = Append(log, a)
        BY <1>2, <2>1
    <2>2. CASE log' = log
        BY <1>2, <2>2
    <2> QED
        BY <1>1, <2>1, <2>2
<1>4. LogKept
    BY <1>1, <1>2, <1>3 DEF LogKept
<1> QED
    BY <1>1, <1>3, <1>4

LEMMA AcceptsKeeps ==
    ASSUME IInv, NEW a \in Attempt, Accepts(a), UNCHANGED hookVars,
           \A b : b # a => (b \in wire' <=> b \in wire), wire' \subseteq Attempt,
           call' \in [Call -> CallState], \A d \in Call : CallOK(d)',
           \A d \in Call \ {a.call} : call'[d] = call[d], call'[a.call].at # "none",
           a.call \notin redone =>
              /\ call'[a.call].at \notin {"client_write", "send"}
              /\ a \notin wire' /\ \A b \in wire : b.call = a.call => b = a
              /\ ~In(stray, a.call) /\ ~InLog(a.call, Len(log))
    PROVE  IInv'
<1>1. TypeOK /\ IsFiniteSet(stray) /\ \A d \in Call : OnceOK(d)
    BY DEF IInv
<1>2. /\ \/ log' = Append(log, a) /\ stray' = stray
         \/ log' = log /\ stray' = stray \cup {a}
      /\ UNCHANGED <<leader, elections, believes, commit, applied, published, deleted, redone>>
    BY <1>1, AcceptsLog
<1>3. /\ \A i \in 1 .. Len(log') : i \in 1 .. Len(log) \/ (i = Len(log) + 1 /\ log'[i] = a)
      /\ \A i \in 1 .. Len(log) : i \in 1 .. Len(log') /\ log'[i] = log[i]
    BY <1>1, AcceptsLog
<1>4. IsFiniteSet(stray')
    BY <1>1, <1>2, FS_AddElement
<1>5. LogKept
    BY <1>1, AcceptsLog
<1>6. TypeOK'
    <2>1. stray' \subseteq Attempt
        BY <1>1, <1>2 DEF TypeOK
    <2> QED
        BY <1>1, <1>2, <1>5, <2>1 DEF TypeOK, LogKept, hookVars
<1>7. ASSUME NEW d \in Call, d # a.call PROVE OnceOK(d)'
    <2>1. \A b : b.call = d => (b \in wire' <=> b \in wire) /\ (b \in stray' <=> b \in stray)
        BY <1>2, <1>7
    <2>2. \A i : i \in 1 .. Len(log') /\ log'[i].call = d
                    <=> i \in 1 .. Len(log) /\ log[i].call = d
        BY <1>1, <1>3, <1>7
    <2> QED
        BY <1>1, <1>2, <1>7, <2>1, <2>2, OnceOKStays
<1>8. OnceOK(a.call)'
    <2>1. CASE a.call \in redone
        BY <1>2, <2>1 DEF OnceOK
    <2>2. CASE a.call \notin redone
        <3>1. ~In(wire', a.call)
            BY <2>2 DEF In
        <3>2. CASE log' = Append(log, a) /\ stray' = stray
            <4>1. \A i \in 1 .. Len(log') : log'[i].call = a.call => i = Len(log) + 1
                BY <1>3, <2>2 DEF InLog
            <4>2. ~In(stray', a.call)
                BY <2>2, <3>2
            <4> QED
                BY <2>2, <3>1, <4>1, <4>2 DEF OnceOK, In
        <3>3. CASE log' = log /\ stray' = stray \cup {a}
            <4>1. \A b \in stray' : b.call = a.call => b = a
                BY <2>2, <3>3 DEF In
            <4>2. \A i \in 1 .. Len(log') : log'[i].call # a.call
                BY <2>2, <3>3 DEF InLog
            <4> QED
                BY <2>2, <3>1, <4>1, <4>2 DEF OnceOK, In, InLog
        <3> QED
            BY <1>2, <3>2, <3>3
    <2> QED
        BY <2>1, <2>2
<1>9. \A n \in Node : EventOK(n)'
    BY <1>1, <1>5, EventOKStays DEF IInv, hookVars
<1> QED
    BY <1>4, <1>6, <1>7, <1>8, <1>9 DEF IInv

LEMMA LocalAcceptsKeeps ==
    ASSUME IInv, NEW c \in Call, LocalAccepts(c)
    PROVE  IInv'
<1> DEFINE a == [call |-> c, try |-> 0, on |-> Home[c]]
<1>1. /\ TypeOK /\ (\A d \in Call : CallOK(d)) /\ OnceOK(c) /\ call[c] \in CallState
      /\ a \in Attempt /\ a.call = c
    BY HomeAssumption DEF IInv, TypeOK, Attempt
<1>2. /\ call[c].at = "client_write" /\ Accepts(a) /\ Goes(c, call[c], "local")
      /\ UNCHANGED <<wire, hookVars>>
    BY DEF LocalAccepts
<1> HIDE DEF a
<1>3. GoesOK(c, call[c], "local") /\ "local" \in Step
    BY <1>1 DEF GoesOK, CallOK, Step
<1>4. LogKept
    BY <1>1, <1>2, AcceptsLog
<1>5. \A d \in Call : CallOK(d)'
    BY <1>1, <1>2, <1>3, <1>4, GoesKeepsCalls
<1>6. /\ call' \in [Call -> CallState] /\ \A d \in Call \ {c} : call'[d] = call[d]
      /\ call'[c].at = "local"
    BY <1>1, <1>2, <1>3, GoesEffect
<1>7. c \notin redone => Dead(c)
    BY <1>1, <1>2 DEF OnceOK
<1>8. wire' = wire /\ wire \subseteq Attempt
    BY <1>1, <1>2 DEF TypeOK
<1>9. c \notin redone =>
        /\ a \notin wire' /\ \A b \in wire : b.call = a.call => b = a
        /\ ~In(stray, c) /\ ~InLog(c, Len(log))
    BY <1>1, <1>7, <1>8 DEF Dead, In
<1> QED
    BY <1>1, <1>2, <1>5, <1>6, <1>8, <1>9, AcceptsKeeps

LEMMA SendKeeps ==
    ASSUME IInv, NEW c \in Call, Send(c)
    PROVE  IInv'
<1> DEFINE a == [call |-> c, try |-> call[c].try + 1, on |-> call[c].to]
           k == [call[c] EXCEPT !.try = call[c].try + 1]
<1>1. /\ TypeOK /\ (\A d \in Call : CallOK(d) /\ OnceOK(d)) /\ call[c] \in CallState
    BY DEF IInv, TypeOK
<1>2. /\ call[c].at = "send" /\ wire' = wire \cup {a} /\ Goes(c, k, "remote")
      /\ UNCHANGED <<raftVars, stray, deleted, redone, hookVars>>
    BY DEF Send, entryVars
<1>3. /\ k \in CallState /\ k.to = call[c].to /\ k.tries = call[c].tries
      /\ a \in Attempt /\ a.call = c /\ call[c].to \in Node
    BY <1>1, <1>2 DEF CallOK, CallState, Attempt
<1> HIDE DEF a, k
<1>4. GoesOK(c, k, "remote") /\ "remote" \in Step
    BY <1>1, <1>3 DEF GoesOK, CallOK, Step
<1>5. LogKept
    BY <1>1, <1>2, SameLogKept DEF raftVars
<1>6. \A d \in Call : CallOK(d)'
    BY <1>1, <1>2, <1>3, <1>4, <1>5, GoesKeepsCalls
<1>7. /\ call' \in [Call -> CallState] /\ \A d \in Call \ {c} : call'[d] = call[d]
      /\ call'[c].at = "remote"
    BY <1>1, <1>2, <1>3, <1>4, GoesEffect
<1>8. TypeOK'
    BY <1>1, <1>2, <1>3, <1>7 DEF TypeOK, raftVars, hookVars
<1>9. ASSUME NEW d \in Call PROVE OnceOK(d)'
    <2>1. CASE d # c
        <3>1. \A b : b.call = d => (b \in wire' <=> b \in wire) /\ (b \in stray' <=> b \in stray)
            BY <1>2, <1>3, <2>1
        <3>2. log' = log
            BY <1>2 DEF raftVars
        <3> QED
            BY <1>1, <1>2, <1>7, <2>1, <3>1, <3>2, OnceOKStays
    <2>2. CASE d = c
        <3>1. c \notin redone => Dead(c)
            BY <1>1, <1>2 DEF OnceOK
        <3>2. log' = log /\ stray' = stray
            BY <1>2 DEF raftVars
        <3> QED
            BY <1>2, <1>7, <2>2, <3>1, <3>2 DEF OnceOK, Dead, In, InLog
    <2> QED
        BY <2>1, <2>2
<1>10. \A n \in Node : EventOK(n)'
    BY <1>1, <1>2, <1>5, EventOKStays DEF IInv, hookVars
<1>11. IsFiniteSet(stray')
    BY <1>2 DEF IInv
<1> QED
    BY <1>6, <1>8, <1>9, <1>10, <1>11 DEF IInv

\* A call that gets no answer, or ForwardToLeader.
LEMMA AnswerKeepsCalls ==
    ASSUME IInv, NEW c \in Call, UNCHANGED raftVars,
           \/ UNCHANGED call
           \/ \E hint \in Node \cup {None}, tries \in 0 .. Tries : Refused(c, hint, tries)
    PROVE  /\ call' \in [Call -> CallState] /\ \A d \in Call : CallOK(d)'
           /\ \A d \in Call \ {c} : call'[d] = call[d]
           /\ call'[c].at \in {call[c].at, "send", "failed"}
           /\ UNCHANGED call \/ call'[c].at \in {"send", "failed"}
<1>1. TypeOK /\ (\A d \in Call : CallOK(d)) /\ call \in [Call -> CallState]
    BY DEF IInv, TypeOK
<1>2. LogKept
    BY <1>1, SameLogKept DEF raftVars
<1>3. CASE UNCHANGED call
    BY <1>1, <1>2, <1>3, CallOKStays
<1>4. CASE \E hint \in Node \cup {None}, tries \in 0 .. Tries : Refused(c, hint, tries)
    <2>1. PICK k \in CallState, step \in {"send", "failed"} :
             Goes(c, k, step) /\ (step = "send" => k.to \in Node /\ k.tries > 0)
        BY <1>1, <1>4, RefusedGoes
    <2>2. step \in Step /\ GoesOK(c, k, step)
        BY <2>1 DEF Step, GoesOK
    <2> QED
        BY <1>1, <1>2, <2>1, <2>2, GoesKeepsCalls, GoesEffect
<1> QED
    BY <1>3, <1>4

\* A request is gone from the wire without an entry: its call may make another,
\* because this was the only attempt.
LEMMA RemoveKeeps ==
    ASSUME IInv, NEW a \in wire, wire' = wire \ {a},
           UNCHANGED <<raftVars, stray, deleted, redone, hookVars>>,
           \/ UNCHANGED call
           \/ \E hint \in Node \cup {None}, tries \in 0 .. Tries : Refused(a.call, hint, tries)
    PROVE  IInv'
<1> DEFINE c == a.call
<1>1. /\ TypeOK /\ (\A d \in Call : OnceOK(d)) /\ c \in Call /\ log' = log
      /\ IsFiniteSet(stray)
    BY DEF IInv, TypeOK, Attempt, raftVars
<1>2. LogKept
    BY <1>1, SameLogKept DEF raftVars
<1>3. /\ call' \in [Call -> CallState] /\ \A d \in Call : CallOK(d)'
      /\ \A d \in Call \ {c} : call'[d] = call[d]
      /\ call'[c].at \in {call[c].at, "send", "failed"}
    BY <1>1, AnswerKeepsCalls
<1> HIDE DEF c
<1>4. TypeOK'
    BY <1>1, <1>3 DEF TypeOK, raftVars, hookVars
<1>5. ASSUME NEW d \in Call, d # c PROVE OnceOK(d)'
    <2>1. \A b : b.call = d => (b \in wire' <=> b \in wire) /\ (b \in stray' <=> b \in stray)
        BY <1>5 DEF c
    <2> QED
        BY <1>1, <1>3, <1>5, <2>1, OnceOKStays
<1>6. OnceOK(c)'
    <2>1. call[c].at # "none"
        BY <1>1 DEF OnceOK, Dead, In, c
    <2>2. c \notin redone => Dead(c)'
        BY <1>1 DEF OnceOK, Dead, In, InLog, c
    <2> QED
        BY <1>3, <2>1, <2>2 DEF OnceOK, Dead, In, InLog
<1>7. \A n \in Node : EventOK(n)'
    BY <1>1, <1>2, EventOKStays DEF IInv, hookVars
<1> QED
    BY <1>1, <1>3, <1>4, <1>5, <1>6, <1>7 DEF IInv

LEMMA TriesLeft ==
    ASSUME NEW c \in Call, call \in [Call -> CallState], CallOK(c)
    PROVE  call[c].tries - 1 \in 0 .. Tries /\ Tries \in 0 .. Tries
<1>1. Tries \in Nat
    BY BoundsAssumption
<1>2. call[c].tries \in 0 .. Tries /\ call[c].tries > 0
    BY DEF CallOK, CallState
<1> QED
    BY <1>1, <1>2

LEMMA DeliverKeeps ==
    ASSUME IInv, NEW a \in wire, Deliver(a)
    PROVE  IInv'
<1>1. /\ TypeOK /\ (\A d \in Call : CallOK(d) /\ OnceOK(d)) /\ a \in Attempt /\ a.call \in Call
      /\ a.on \in Node /\ wire \subseteq Attempt /\ call \in [Call -> CallState]
    BY DEF IInv, TypeOK, Attempt
<1>2. wire' = wire \ {a} /\ UNCHANGED hookVars
    BY DEF Deliver
<1>3. CASE believes[a.on] = a.on
    <2>1. Accepts(a) /\ UNCHANGED call
        BY <1>3 DEF Deliver
    <2>2. call[a.call].at # "none"
        BY <1>1 DEF OnceOK, Dead, In
    <2>3. a.call \notin redone =>
             /\ call[a.call].at \notin {"client_write", "send"}
             /\ \A b \in wire : b.call = a.call => b = a
             /\ ~In(stray, a.call) /\ ~InLog(a.call, Len(log))
        BY <1>1 DEF OnceOK, Dead, In
    <2>4. LogKept
        BY <1>1, <2>1, AcceptsLog
    <2>5. \A d \in Call : CallOK(d)'
        BY <1>1, <2>1, <2>4, CallOKStays
    <2> QED
        BY <1>1, <1>2, <2>1, <2>2, <2>3, <2>5, AcceptsKeeps
<1>4. CASE believes[a.on] # a.on
    <2>1. UNCHANGED <<raftVars, stray, deleted, redone>>
        BY <1>4 DEF Deliver, entryVars
    <2>2. believes[a.on] \in Node \cup {None} /\ call[a.call].tries - 1 \in 0 .. Tries
        BY <1>1, TriesLeft DEF TypeOK
    <2>3. \/ UNCHANGED call
          \/ Refused(a.call, believes[a.on], call[a.call].tries - 1)
        BY <1>4 DEF Deliver
    <2> QED
        BY <1>1, <1>2, <2>1, <2>2, <2>3, RemoveKeeps
<1> QED
    BY <1>3, <1>4

\* An entry is deleted where it was appended, and may be alive elsewhere: a call
\* that is sent on is sent again.
LEMMA ConflictKeeps ==
    ASSUME IInv, NEW a \in stray, Conflict(a)
    PROVE  IInv'
<1> DEFINE c == a.call
           tries == IF a.try = 0 THEN Tries ELSE call[c].tries - 1
<1>1. /\ TypeOK /\ (\A d \in Call : CallOK(d) /\ OnceOK(d)) /\ a \in Attempt /\ c \in Call
      /\ a.on \in Node /\ call \in [Call -> CallState] /\ IsFiniteSet(stray)
    BY DEF IInv, TypeOK, Attempt
<1>2. /\ deleted' = deleted \cup {a} /\ UNCHANGED <<raftVars, wire, stray, hookVars>>
      /\ UNCHANGED call \/ Refused(c, believes[a.on], tries)
      /\ redone' = redone \cup {d \in {c} : call[d].at # "send" /\ call'[d].at = "send"}
    BY DEF Conflict
<1>3. believes[a.on] \in Node \cup {None} /\ tries \in 0 .. Tries
    <2>1. call[c].tries - 1 \in 0 .. Tries /\ Tries \in 0 .. Tries
        BY <1>1, TriesLeft
    <2> QED
        BY <1>1, <2>1 DEF TypeOK
<1> HIDE DEF c, tries
<1>4. /\ call' \in [Call -> CallState] /\ \A d \in Call : CallOK(d)'
      /\ \A d \in Call \ {c} : call'[d] = call[d]
      /\ UNCHANGED call \/ call'[c].at \in {"send", "failed"}
    BY <1>1, <1>2, <1>3, AnswerKeepsCalls
<1>5. LogKept /\ log' = log
    BY <1>1, <1>2, SameLogKept DEF raftVars
<1>6. TypeOK'
    BY <1>1, <1>2, <1>4 DEF TypeOK, raftVars, hookVars
<1>7. ASSUME NEW d \in Call, call'[d].at = call[d].at PROVE OnceOK(d)'
    BY <1>1, <1>2, <1>5, <1>7, OnceOKStays
<1>8. ASSUME call'[c].at # call[c].at PROVE OnceOK(c)'
    <2>1. call'[c].at \in {"send", "failed"}
        BY <1>4, <1>8
    <2>2. call'[c].at = "send" => c \in redone'
        BY <1>2, <1>8
    <2>3. c \in redone => c \in redone'
        BY <1>2
    <2> QED
        BY <1>1, <1>2, <1>5, <2>1, <2>2, <2>3 DEF OnceOK, Dead, In, InLog
<1>9. \A d \in Call : OnceOK(d)'
    BY <1>4, <1>7, <1>8
<1>10. \A n \in Node : EventOK(n)'
    BY <1>1, <1>2, <1>5, EventOKStays DEF IInv, hookVars
<1> QED
    BY <1>1, <1>2, <1>4, <1>6, <1>9, <1>10 DEF IInv

-----------------------------------------------------------------------------
(***************************************************************************)
(* openraft.                                                               *)
(***************************************************************************)

\* A sequence that is cut and gets a new end.
LEMMA CutAndExtend ==
    ASSUME NEW S, NEW old \in Seq(S), NEW k \in 0 .. Len(old), NEW s \in Seq(S),
           NEW new, new = SubSeq(old, 1, k) \o s
    PROVE  /\ new \in Seq(S) /\ Len(new) = k + Len(s)
           /\ \A i \in 1 .. k : new[i] = old[i]
           /\ \A i \in k + 1 .. Len(new) : i - k \in 1 .. Len(s) /\ new[i] = s[i - k]
<1>1. SubSeq(old, 1, k) \in Seq(S) /\ Len(SubSeq(old, 1, k)) = k
    OBVIOUS
<1>2. \A i \in 1 .. k : SubSeq(old, 1, k)[i] = old[i]
    OBVIOUS
<1> QED
    BY <1>1, <1>2

\* A change of leader moves an attempt into the log or out of it, and never
\* doubles it.
LEMMA ElectMoves ==
    ASSUME TypeOK, IsFiniteSet(stray), NEW n \in Node, NEW kept \in commit .. Len(log),
           NEW back \in SetToAllKPermutations(stray), Elect(n, kept, back)
    PROVE  /\ IsFiniteSet(stray') /\ stray' \subseteq Attempt /\ LogKept
           /\ \A a \in stray' : \/ a \in stray \ Range(back)
                                \/ \E i \in kept + 1 .. Len(log) : a = log[i]
           /\ \A i \in 1 .. Len(log') :
                 \/ i \in 1 .. kept /\ log'[i] = log[i]
                 \/ i \notin 1 .. kept /\ log'[i] \in stray \cap Range(back)
           /\ \A i, j \in 1 .. Len(log') :
                 i \notin 1 .. kept /\ j \notin 1 .. kept /\ log'[i] = log'[j] => i = j
<1> DEFINE cut == {log[i] : i \in kept + 1 .. Len(log)}
<1>1. /\ log \in Seq(Attempt) /\ Len(log) \in Nat /\ commit \in 0 .. Len(log)
      /\ stray \subseteq Attempt /\ applied \in [Node -> 0 .. commit] /\ kept \in 0 .. Len(log)
      /\ kept \in Nat /\ commit <= kept
    BY DEF TypeOK
<1>2. /\ log' = SubSeq(log, 1, kept) \o back /\ stray' = (stray \ Range(back)) \cup cut
      /\ UNCHANGED <<commit, applied>>
    BY DEF Elect
<1>3. /\ back \in Seq(stray)
      /\ \A i, j \in 1 .. Len(back) : back[i] = back[j] => i = j
    BY PermutationLists
<1>4. /\ back \in Seq(Attempt) /\ Len(back) \in Nat
      /\ \A i \in 1 .. Len(back) : back[i] \in stray \cap Range(back)
    BY <1>1, <1>3 DEF Range
<1>5. IsFiniteSet(cut) /\ IsFiniteSet(stray \ Range(back))
    <2>1. IsFiniteSet(cut)
        BY <1>1, SuffixFinite, Zenon
    <2>2. IsFiniteSet(stray \ Range(back))
        BY FS_Subset
    <2> QED
        BY <2>1, <2>2
<1>6. IsFiniteSet(stray')
    <2> HIDE DEF cut
    <2> QED
        BY <1>2, <1>5, FS_Union
<1>7. cut \subseteq Attempt
    BY <1>1
<1>8. stray' \subseteq Attempt
    BY <1>1, <1>2, <1>7
<1>9. /\ log' \in Seq(Attempt) /\ Len(log') = kept + Len(back)
      /\ \A i \in 1 .. kept : log'[i] = log[i]
      /\ \A i \in kept + 1 .. Len(log') : i - kept \in 1 .. Len(back) /\ log'[i] = back[i - kept]
    BY <1>1, <1>2, <1>4, CutAndExtend
<1>10. LogKept
    BY <1>1, <1>2, <1>4, <1>9 DEF LogKept
<1>11. \A a \in stray' : \/ a \in stray \ Range(back)
                         \/ \E i \in kept + 1 .. Len(log) : a = log[i]
    BY <1>2
<1>12. \A i \in 1 .. Len(log') : i \notin 1 .. kept => i \in kept + 1 .. Len(log')
    BY <1>1, <1>4, <1>9
<1>13. \A i \in 1 .. Len(log') : i \notin 1 .. kept => log'[i] \in stray \cap Range(back)
    BY <1>4, <1>9, <1>12
<1>14. \A i, j \in 1 .. Len(log') :
          i \notin 1 .. kept /\ j \notin 1 .. kept /\ log'[i] = log'[j] => i = j
    <2> SUFFICES ASSUME NEW i \in 1 .. Len(log'), NEW j \in 1 .. Len(log'),
                        i \notin 1 .. kept, j \notin 1 .. kept, log'[i] = log'[j]
                 PROVE  i = j
        OBVIOUS
    <2>1. i \in kept + 1 .. Len(log') /\ j \in kept + 1 .. Len(log')
        BY <1>12
    <2>2. /\ i - kept \in 1 .. Len(back) /\ j - kept \in 1 .. Len(back)
          /\ back[i - kept] = back[j - kept]
        BY <1>9, <2>1
    <2>3. i - kept = j - kept
        BY <1>3, <2>2
    <2> QED
        BY <1>1, <2>1, <2>3
<1> QED
    BY <1>6, <1>8, <1>9, <1>10, <1>11, <1>13, <1>14

LEMMA ElectKeeps ==
    ASSUME IInv, NEW n \in Node, NEW kept \in commit .. Len(log),
           NEW back \in SetToAllKPermutations(stray), Elect(n, kept, back)
    PROVE  IInv'
<1>1. /\ TypeOK /\ (\A d \in Call : CallOK(d) /\ OnceOK(d)) /\ IsFiniteSet(stray)
      /\ \A m \in Node : EventOK(m)
    BY DEF IInv
<1>2. /\ IsFiniteSet(stray') /\ stray' \subseteq Attempt /\ LogKept
    BY <1>1, ElectMoves
<1>3. \A a \in stray' : \/ a \in stray \ Range(back)
                         \/ \E i \in kept + 1 .. Len(log) : a = log[i]
    BY <1>1, ElectMoves
<1>4. \A i \in 1 .. Len(log') :
         \/ i \in 1 .. kept /\ log'[i] = log[i]
         \/ i \notin 1 .. kept /\ log'[i] \in stray \cap Range(back)
    BY <1>1, ElectMoves
<1>5. \A i, j \in 1 .. Len(log') :
         i \notin 1 .. kept /\ j \notin 1 .. kept /\ log'[i] = log'[j] => i = j
    BY <1>1, ElectMoves
<1>6. /\ leader' = n /\ elections < MaxElections /\ elections' = elections + 1
      /\ believes' = [believes EXCEPT ![n] = n]
      /\ UNCHANGED <<commit, applied, published, wire, deleted, redone, call, queue, worker, hung>>
    BY DEF Elect, hookVars
<1>7. TypeOK'
    <2>1. elections' \in 0 .. MaxElections
        BY <1>1, <1>6, BoundsAssumption DEF TypeOK
    <2>2. believes' \in [Node -> Node \cup {None}]
        BY <1>1, <1>6 DEF TypeOK
    <2> QED
        BY <1>1, <1>2, <1>6, <2>1, <2>2 DEF TypeOK, LogKept
<1>8. \A d \in Call : CallOK(d)'
    BY <1>1, <1>2, <1>6, CallOKStays
<1>9. \A m \in Node : EventOK(m)'
    BY <1>1, <1>2, <1>6, EventOKStays
<1>10. /\ 1 .. kept \subseteq 1 .. Len(log) /\ kept + 1 .. Len(log) \subseteq 1 .. Len(log)
       /\ 1 .. kept \cap kept + 1 .. Len(log) = {}
    BY <1>1 DEF TypeOK
<1>11. ASSUME NEW c \in Call PROVE OnceOK(c)'
    <2>1. In(stray', c) => In(stray, c) \/ InLog(c, Len(log))
        BY <1>3, <1>10 DEF In, InLog
    <2>2. InLog(c, Len(log))' => In(stray, c) \/ InLog(c, Len(log))
        BY <1>4, <1>10 DEF In, InLog
    <2>3. Dead(c) => Dead(c)'
        BY <1>6, <2>1, <2>2 DEF Dead, In, InLog
    <2>4. CASE c \in redone
        BY <1>1, <1>6, <2>3, <2>4 DEF OnceOK
    <2>5. CASE c \notin redone
        <3>1. /\ ~((In(wire, c) \/ In(stray, c)) /\ InLog(c, Len(log)))
              /\ ~(In(wire, c) /\ In(stray, c))
              /\ \A a, b \in wire : a.call = c /\ b.call = c => a = b
              /\ \A a, b \in stray : a.call = c /\ b.call = c => a = b
              /\ \A i, j \in 1 .. Len(log) : log[i].call = c /\ log[j].call = c => i = j
              /\ call[c].at \in {"none", "client_write", "send"} => Dead(c)
            BY <1>1, <2>5 DEF OnceOK
        <3>2. ~(In(wire', c) /\ (In(stray', c) \/ InLog(c, Len(log))'))
            BY <1>6, <2>1, <2>2, <3>1
        <3>3. \A a, b \in stray' : a.call = c /\ b.call = c => a = b
            <4> SUFFICES ASSUME NEW a \in stray', NEW b \in stray', a.call = c, b.call = c
                         PROVE  a = b
                OBVIOUS
            <4>1. CASE a \in stray /\ b \in stray
                BY <3>1, <4>1
            <4>2. CASE ~(a \in stray /\ b \in stray)
                <5>1. InLog(c, Len(log)) /\ ~In(stray, c)
                    BY <1>3, <1>10, <3>1, <4>2 DEF InLog
                <5>2. a \notin stray /\ b \notin stray
                    BY <5>1 DEF In
                <5> QED
                    BY <1>3, <1>10, <3>1, <5>2
            <4> QED
                BY <4>1, <4>2
        <3>4. \A i, j \in 1 .. Len(log') : log'[i].call = c /\ log'[j].call = c => i = j
            <4> SUFFICES ASSUME NEW i \in 1 .. Len(log'), NEW j \in 1 .. Len(log'),
                                log'[i].call = c, log'[j].call = c
                         PROVE  i = j
                OBVIOUS
            <4>1. CASE i \in 1 .. kept
                <5>1. InLog(c, Len(log)) /\ ~In(stray, c) /\ log'[i] = log[i]
                    BY <1>4, <1>10, <3>1, <4>1 DEF InLog
                <5>2. j \in 1 .. kept /\ log'[j] = log[j]
                    BY <1>4, <5>1 DEF In
                <5> QED
                    BY <1>10, <3>1, <4>1, <5>1, <5>2
            <4>2. CASE i \notin 1 .. kept
                <5>1. log'[i] \in stray /\ In(stray, c) /\ ~InLog(c, Len(log))
                    BY <1>4, <3>1, <4>2 DEF In
                <5>2. j \notin 1 .. kept /\ log'[j] \in stray
                    BY <1>4, <1>10, <5>1 DEF InLog
                <5> QED
                    BY <1>5, <3>1, <4>2, <5>1, <5>2
            <4> QED
                BY <4>1, <4>2
        <3>5. ~(In(stray', c) /\ InLog(c, Len(log))')
            <4> SUFFICES ASSUME NEW a \in stray', NEW i \in 1 .. Len(log'),
                                a.call = c, log'[i].call = c
                         PROVE  FALSE
                BY DEF In, InLog
            <4>1. CASE i \in 1 .. kept
                <5>1. log[i].call = c /\ InLog(c, Len(log)) /\ ~In(stray, c)
                    BY <1>4, <1>10, <3>1, <4>1 DEF InLog
                <5>2. PICK j \in kept + 1 .. Len(log) : a = log[j]
                    BY <1>3, <5>1 DEF In
                <5> QED
                    BY <1>10, <3>1, <4>1, <5>1, <5>2
            <4>2. CASE i \notin 1 .. kept
                <5>1. log'[i] \in stray \cap Range(back) /\ In(stray, c) /\ ~InLog(c, Len(log))
                    BY <1>4, <3>1, <4>2 DEF In
                <5>2. a \in stray \ Range(back)
                    BY <1>3, <1>10, <5>1 DEF InLog
                <5> QED
                    BY <3>1, <5>1, <5>2
            <4> QED
                BY <4>1, <4>2
        <3> QED
            BY <1>6, <2>3, <3>1, <3>2, <3>3, <3>4, <3>5 DEF OnceOK
    <2> QED
        BY <2>4, <2>5
<1> QED
    BY <1>2, <1>7, <1>8, <1>9, <1>11 DEF IInv

\* What the nodes learn, decide, apply and publish by themselves.
LEMMA NodeKeeps ==
    ASSUME IInv, (\E n \in Node : NodeStep(n) \/ Suspect(n)) \/ Commit
    PROVE  IInv'
<1>1. /\ TypeOK /\ (\A d \in Call : CallOK(d) /\ OnceOK(d)) /\ IsFiniteSet(stray)
      /\ (\A m \in Node : EventOK(m)) /\ call \in [Call -> CallState]
    BY DEF IInv, TypeOK
<1>2. UNCHANGED <<leader, elections, log, wire, stray, deleted, redone, queue, worker, hung>>
    BY DEF NodeStep, Learn, Apply, Publish, Suspect, Commit, hookVars, entryVars
<1>3. /\ commit' \in 0 .. Len(log) /\ commit <= commit' /\ applied' \in [Node -> 0 .. commit']
      /\ \A n \in Node : applied[n] <= applied'[n]
    <2>1. CASE Commit
        BY <1>1, <2>1 DEF TypeOK, Commit
    <2>2. ASSUME NEW n \in Node, Apply(n)
          PROVE  /\ commit' = commit /\ applied' \in [Node -> 0 .. commit]
                 /\ \A m \in Node : applied[m] <= applied'[m]
        BY <1>1, <2>2 DEF TypeOK, Apply
    <2>3. ASSUME NEW n \in Node, Learn(n) \/ Publish(n) \/ Suspect(n)
          PROVE  commit' = commit /\ applied' = applied
        BY <2>3 DEF Learn, Publish, Suspect
    <2>4. /\ commit \in 0 .. Len(log) /\ commit <= commit /\ applied \in [Node -> 0 .. commit]
          /\ \A n \in Node : applied[n] <= applied[n]
        BY <1>1 DEF TypeOK
    <2> QED
        BY <2>1, <2>2, <2>3, <2>4 DEF NodeStep
<1>4. /\ published' \in [Node -> Nat] /\ \A n \in Node : published'[n] <= applied'[n]
    <2>1. ASSUME NEW n \in Node, Publish(n)
          PROVE  published' \in [Node -> Nat] /\ \A m \in Node : published'[m] <= applied'[m]
        BY <1>1, <2>1 DEF TypeOK, Publish
    <2>2. CASE published' = published
        <3>1. /\ published \in [Node -> Nat] /\ \A n \in Node : published[n] <= applied[n]
              /\ applied \in [Node -> 0 .. commit] /\ commit \in Nat
            BY <1>1 DEF TypeOK
        <3>2. \A n \in Node : published[n] \in Nat /\ applied[n] \in Nat /\ applied'[n] \in Nat
                              /\ applied[n] <= applied'[n] /\ published[n] <= applied[n]
            BY <1>3, <3>1
        <3> QED
            BY <2>2, <3>1, <3>2
    <2>3. (\E n \in Node : Publish(n)) \/ published' = published
        BY DEF NodeStep, Learn, Apply, Suspect, Commit
    <2> QED
        BY <2>1, <2>2, <2>3
<1>5. believes' \in [Node -> Node \cup {None}]
    BY <1>1 DEF TypeOK, NodeStep, Learn, Apply, Publish, Suspect, Commit
<1>6. /\ call' \in [Call -> CallState]
      /\ \A d \in Call : /\ call'[d].at = call[d].at /\ call'[d].to = call[d].to
                         /\ call'[d].tries = call[d].tries /\ call'[d].index = call[d].index
    <2>1. ASSUME NEW n \in Node, Publish(n)
          PROVE  /\ call' \in [Call -> CallState]
                 /\ \A d \in Call :
                       /\ call'[d].at = call[d].at /\ call'[d].to = call[d].to
                       /\ call'[d].tries = call[d].tries /\ call'[d].index = call[d].index
        <3>1. call' = [c \in Call |-> IF Home[c] = n /\ call[c].at \in {"check", "changed"}
                                      THEN [call[c] EXCEPT !.unseen = TRUE] ELSE call[c]]
            BY <2>1 DEF Publish
        <3>2. \A r \in CallState :
                 LET k == [r EXCEPT !.unseen = TRUE] IN
                 /\ k \in CallState
                 /\ k.at = r.at /\ k.to = r.to /\ k.tries = r.tries /\ k.index = r.index
            BY DEF CallState
        <3> QED
            BY <1>1, <3>1, <3>2
    <2>2. (\E n \in Node : Publish(n)) \/ call' = call
        BY DEF NodeStep, Learn, Apply, Suspect, Commit
    <2> QED
        BY <1>1, <2>1, <2>2
<1>7. LogKept
    BY <1>1, <1>2, <1>3 DEF LogKept, TypeOK
<1>8. TypeOK'
    BY <1>1, <1>2, <1>3, <1>4, <1>5, <1>6 DEF TypeOK
<1>9. \A d \in Call : CallOK(d)'
    BY <1>1, <1>6, <1>7, CallOKStays
<1>10. \A d \in Call : OnceOK(d)'
    BY <1>1, <1>2, <1>6, OnceOKStays
<1>11. \A m \in Node : EventOK(m)'
    BY <1>1, <1>2, <1>7, EventOKStays
<1> QED
    BY <1>1, <1>2, <1>8, <1>9, <1>10, <1>11 DEF IInv

-----------------------------------------------------------------------------
(***************************************************************************)
(* Webhooks.                                                               *)
(***************************************************************************)
LEMMA EnqueueKeeps ==
    ASSUME IInv, NEW c \in Call, Enqueue(c)
    PROVE  IInv'
<1>1. /\ TypeOK /\ (\A d \in Call : CallOK(d) /\ OnceOK(d)) /\ IsFiniteSet(stray)
      /\ (\A m \in Node : EventOK(m)) /\ call[c] \in CallState /\ Home[c] \in Node
    BY HomeAssumption DEF IInv, TypeOK
<1>2. /\ call[c].at = "enqueue" /\ Len(queue[Home[c]]) < QueueSize
      /\ queue' = [queue EXCEPT ![Home[c]] = Append(queue[Home[c]], c)]
      /\ Goes(c, call[c], "ok")
      /\ UNCHANGED <<raftVars, wire, stray, deleted, redone, worker, hung>>
    BY DEF Enqueue, entryVars
<1>3. c \in Puts /\ InLog(c, applied[Home[c]])
    BY <1>1, <1>2 DEF CallOK
<1>4. LogKept
    BY <1>1, <1>2, SameLogKept DEF raftVars
<1>5. GoesOK(c, call[c], "ok") /\ "ok" \in Step
    BY DEF GoesOK, Step
<1>6. \A d \in Call : CallOK(d)'
    BY <1>1, <1>2, <1>4, <1>5, GoesKeepsCalls
<1>7. /\ call' \in [Call -> CallState] /\ \A d \in Call \ {c} : call'[d] = call[d]
      /\ call'[c].at = "ok"
    BY <1>1, <1>2, <1>5, GoesEffect
<1>8. queue \in [Node -> Seq(Puts)] /\ (\A n \in Node : Len(queue[n]) <= QueueSize)
      /\ QueueSize \in Nat
    BY <1>1, BoundsAssumption DEF TypeOK
<1>9. queue' \in [Node -> Seq(Puts)] /\ \A n \in Node : Len(queue'[n]) <= QueueSize
    BY <1>1, <1>2, <1>3, <1>8
<1>10. TypeOK'
    BY <1>1, <1>2, <1>7, <1>9 DEF TypeOK, raftVars
<1>11. ASSUME NEW d \in Call PROVE OnceOK(d)'
    <2>1. wire' = wire /\ stray' = stray /\ log' = log /\ redone' = redone
        BY <1>2 DEF raftVars
    <2>2. CASE d # c
        BY <1>1, <1>7, <2>1, <2>2, OnceOKStays
    <2>3. CASE d = c
        BY <1>1, <1>7, <2>1, <2>3 DEF OnceOK, Dead, In, InLog
    <2> QED
        BY <2>2, <2>3
<1>12. ASSUME NEW n \in Node PROVE EventOK(n)'
    <2>1. CASE n # Home[c]
        <3>1. queue'[n] = queue[n] /\ worker'[n] = worker[n]
            BY <1>1, <1>2, <1>8, <2>1
        <3> QED
            BY <1>1, <1>4, <3>1, EventOKStays
    <2>2. CASE n = Home[c]
        <3>1. queue'[n] = Append(queue[n], c) /\ queue[n] \in Seq(Puts) /\ worker'[n] = worker[n]
            BY <1>1, <1>2, <1>8, <2>2
        <3>2. \A y \in Range(queue'[n]) : y \in Range(queue[n]) \/ y = c
            BY <1>3, <3>1, RangeAppend
        <3>3. \A d : InLog(d, applied[n]) => InLog(d, applied[n])'
            BY <1>1, <1>4, InLogStays
        <3> QED
            BY <1>1, <1>3, <2>2, <3>1, <3>2, <3>3 DEF EventOK
    <2> QED
        BY <2>1, <2>2
<1>13. IsFiniteSet(stray')
    BY <1>1, <1>2
<1> QED
    BY <1>6, <1>10, <1>11, <1>12, <1>13 DEF IInv

\* The worker of the webhooks.
LEMMA HookKeeps ==
    ASSUME IInv, NEW n \in Node, HookStep(n) \/ Hang(n)
    PROVE  IInv'
<1>1. /\ TypeOK /\ (\A d \in Call : CallOK(d) /\ OnceOK(d)) /\ IsFiniteSet(stray)
      /\ (\A m \in Node : EventOK(m)) /\ queue \in [Node -> Seq(Puts)]
      /\ worker \in [Node -> Puts \cup {None}] /\ hung \subseteq Node
      /\ \A m \in Node : Len(queue[m]) <= QueueSize
    BY DEF IInv, TypeOK
<1>2. UNCHANGED <<raftVars, wire, stray, deleted, redone, call>>
    BY DEF HookStep, Receive, Posted, Hang, entryVars
<1>3. LogKept
    BY <1>1, <1>2, SameLogKept DEF raftVars
<1>4. /\ queue' \in [Node -> Seq(Puts)] /\ worker' \in [Node -> Puts \cup {None}]
      /\ hung' \subseteq Node /\ (\A m \in Node : Len(queue'[m]) <= QueueSize)
      /\ \A m \in Node : /\ Range(queue'[m]) \subseteq Range(queue[m])
                         /\ worker'[m] \in {worker[m], None} \cup Range(queue[m])
    <2>1. CASE Receive(n)
        <3>1. /\ queue[n] # <<>> /\ worker' = [worker EXCEPT ![n] = Head(queue[n])]
              /\ queue' = [queue EXCEPT ![n] = Tail(queue[n])] /\ hung' = hung
            BY <2>1 DEF Receive
        <3>2. /\ Range(Tail(queue[n])) \subseteq Range(queue[n])
              /\ Head(queue[n]) \in Range(queue[n]) /\ Head(queue[n]) \in Puts
            BY <1>1, <3>1, RangeTail
        <3>3. Tail(queue[n]) \in Seq(Puts) /\ Len(Tail(queue[n])) <= QueueSize
            BY <1>1, <3>1, BoundsAssumption
        <3> QED
            BY <1>1, <3>1, <3>2, <3>3
    <2>2. CASE Posted(n) \/ Hang(n)
        <3>1. /\ queue' = queue /\ (hung' = hung \/ hung' = hung \cup {n})
              /\ worker' = worker \/ worker' = [worker EXCEPT ![n] = None]
            BY <2>2 DEF Posted, Hang
        <3> QED
            BY <1>1, <3>1
    <2> QED
        BY <2>1, <2>2 DEF HookStep
<1>5. TypeOK'
    BY <1>1, <1>2, <1>4 DEF TypeOK, raftVars
<1>6. \A d \in Call : CallOK(d)'
    BY <1>1, <1>2, <1>3, CallOKStays
<1>7. \A d \in Call : OnceOK(d)'
    BY <1>1, <1>2, OnceOKStays DEF raftVars
<1>8. ASSUME NEW m \in Node PROVE EventOK(m)'
    <2>1. \A d : InLog(d, applied[m]) => InLog(d, applied[m])'
        BY <1>1, <1>3, InLogStays
    <2>2. None \notin Call
        BY NoneAssumption
    <2> QED
        BY <1>1, <1>4, <2>1, <2>2 DEF EventOK
<1>9. IsFiniteSet(stray')
    BY <1>1, <1>2
<1> QED
    BY <1>5, <1>6, <1>7, <1>8, <1>9 DEF IInv

-----------------------------------------------------------------------------
(***************************************************************************)
(* The invariant, and what follows from it.                                *)
(***************************************************************************)
LEMMA InitIInv == Init => IInv
<1> SUFFICES ASSUME Init PROVE IInv
    OBVIOUS
<1>1. /\ leader \in Node /\ elections = 0 /\ believes = [n \in Node |-> leader] /\ log = <<>>
      /\ commit = 0 /\ applied = [n \in Node |-> 0] /\ published = [n \in Node |-> 0]
      /\ wire = {} /\ stray = {} /\ deleted = {} /\ redone = {}
      /\ call = [c \in Call |-> NoCall]
      /\ queue = [n \in Node |-> <<>>] /\ worker = [n \in Node |-> None] /\ hung = {}
    BY DEF Init
<1>2. TypeOK
    BY <1>1, NoCallType, BoundsAssumption DEF TypeOK
<1>3. \A c \in Call : call[c].at = "none" /\ call[c].tries > 0
    BY <1>1, NoCallType DEF NoCall
<1>4. \A c \in Call : CallOK(c)
    BY <1>3 DEF CallOK
<1>5. \A c \in Call : OnceOK(c)
    <2>1. 1 .. Len(log) = {}
        BY <1>1
    <2> QED
        BY <1>1, <1>3, <2>1 DEF OnceOK, Dead, In, InLog
<1>6. \A n \in Node : EventOK(n)
    <2>1. \A n \in Node : Range(queue[n]) = {} /\ worker[n] = None
        BY <1>1 DEF Range
    <2> QED
        BY <2>1, NoneAssumption DEF EventOK
<1> QED
    BY <1>1, <1>2, <1>4, <1>5, <1>6, FS_EmptySet DEF IInv

LEMMA StutterIInv ==
    ASSUME IInv, UNCHANGED vars
    PROVE  IInv'
BY DEF IInv, TypeOK, CallOK, OnceOK, EventOK, Dead, In, InLog, vars, raftVars, hookVars, entryVars

LEMMA NextIInv ==
    ASSUME IInv, [Next]_vars
    PROVE  IInv'
<1>1. ASSUME NEW c \in Call, Begin(c) \/ CallStep(c) \/ Repeat(c) PROVE IInv'
    BY <1>1, CallKeeps, LocalAcceptsKeeps, SendKeeps, EnqueueKeeps DEF CallStep
<1>2. ASSUME NEW n \in Node, NodeStep(n) \/ Suspect(n) \/ HookStep(n) \/ Hang(n) PROVE IInv'
    BY <1>2, NodeKeeps, HookKeeps
<1>3. CASE Commit
    BY <1>3, NodeKeeps
<1> QED
    BY <1>1, <1>2, <1>3, DeliverKeeps, ConflictKeeps, ElectKeeps, StutterIInv DEF Next

\* The invariant of the proofs holds in every state that calls, messages,
\* elections and webhooks can reach.
THEOREM Inductive == Spec => []IInv
<1>1. Init => IInv
    BY InitIInv
<1>2. IInv /\ [Next]_vars => IInv'
    BY NextIInv
<1> QED
    BY <1>1, <1>2, PTL DEF Spec

\* Calls, logs and queues keep their types and bounds: in particular
\* send_rpc_to_leader never counts n_retry below zero, only names a node it was
\* told of, and no channel of webhooks holds more than its capacity.
THEOREM TypeCorrect == Spec => []TypeOK
<1>1. IInv => TypeOK
    BY DEF IInv
<1> QED
    BY <1>1, Inductive, PTL

\* put.rs queues the event after consistent_write: whoever is told of a push
\* finds it on the node that told it, whatever leaders come and go meanwhile.
THEOREM EventsAreVisible == Spec => []EventIsVisible
<1>1. IInv => EventIsVisible
    <2> SUFFICES ASSUME IInv, NEW n \in Node,
                        NEW c \in (Range(queue[n]) \cup {worker[n]}) \ {None}
                 PROVE  \E i \in 1 .. applied[n] : log[i].call = c
        BY DEF EventIsVisible
    <2>1. queue[n] \in Seq(Puts) /\ worker[n] \in Puts \cup {None} /\ EventOK(n)
        BY DEF IInv, TypeOK
    <2>2. c \in Call
        BY <2>1, CallAssumption DEF Range
    <2> QED
        BY <2>1, <2>2 DEF EventOK, InLog
<1> QED
    BY <1>1, Inductive, PTL

-----------------------------------------------------------------------------
(***************************************************************************)
(* The wait of consistent_write.                                           *)
(***************************************************************************)

\* A call waits only after a comparison that found the metrics behind.
LEMMA GoesWait ==
    ASSUME TypeOK, WaitMissesNothing, UNCHANGED published,
           NEW c \in Call, NEW known \in CallState, NEW step \in Step, Goes(c, known, step),
           step = "changed" => published[Home[c]] < known.index
    PROVE  WaitMissesNothing'
<1>1. /\ \A d \in Call \ {c} : call'[d] = call[d]
      /\ call'[c].at = step
      /\ step = "changed" => call'[c].index = known.index
    BY GoesEffect
<1>2. published[Home[c]] \in Nat /\ known.index \in Nat
    BY HomeAssumption DEF TypeOK, CallState
<1>3. ~(call'[c].at = "changed" /\ published[Home[c]] >= call'[c].index)
    BY <1>1, <1>2
<1> QED
    BY <1>1, <1>3 DEF WaitMissesNothing

LEMMA RefusedWait ==
    ASSUME TypeOK, WaitMissesNothing, UNCHANGED published,
           NEW c \in Call, NEW hint \in Node \cup {None}, NEW tries \in 0 .. Tries,
           Refused(c, hint, tries)
    PROVE  WaitMissesNothing'
<1>1. PICK k \in CallState, step \in {"send", "failed"} : Goes(c, k, step)
    BY RefusedGoes
<1>2. step \in Step /\ step # "changed"
    BY DEF Step
<1> QED
    BY <1>1, <1>2, GoesWait

LEMMA CallWait ==
    ASSUME IInv, WaitMissesNothing, NEW c \in Call, Begin(c) \/ CallStep(c) \/ Repeat(c)
    PROVE  WaitMissesNothing'
<1>1. TypeOK /\ call[c] \in CallState /\ Home[c] \in Node /\ published[Home[c]] \in Nat
    BY HomeAssumption DEF IInv, TypeOK
<1>2. published' = published
    BY DEF Begin, CallStep, LocalAccepts, Accepts, LocalRefuses, Send, Succeeds, Fails, Check,
       Changed, Enqueue, Repeat, raftVars
<1>3. Step = {"none", "client_write", "local", "send", "remote", "check", "changed", "enqueue",
              "ok", "failed"}
    BY DEF Step
<1>4. CASE Begin(c)
    <2> DEFINE k == [call[c] EXCEPT !.to = Home[c]]
    <2>1. k \in CallState
        BY <1>1 DEF CallState
    <2>2. Goes(c, k, "send") \/ Goes(c, call[c], "client_write")
        BY <1>4 DEF Begin
    <2> HIDE DEF k
    <2> QED
        BY <1>1, <1>2, <1>3, <2>1, <2>2, GoesWait
<1>5. CASE LocalAccepts(c)
    BY <1>1, <1>2, <1>3, <1>5, GoesWait DEF LocalAccepts
<1>6. CASE LocalRefuses(c)
    <2>1. believes[Home[c]] \in Node \cup {None} /\ Tries \in 0 .. Tries
        BY <1>1, BoundsAssumption DEF TypeOK
    <2> QED
        BY <1>1, <1>2, <1>6, <2>1, RefusedWait DEF LocalRefuses
<1>7. CASE Send(c)
    <2> DEFINE k == [call[c] EXCEPT !.try = call[c].try + 1]
    <2>1. k \in CallState
        BY <1>1 DEF CallState
    <2>2. Goes(c, k, "remote")
        BY <1>7 DEF Send
    <2> HIDE DEF k
    <2> QED
        BY <1>1, <1>2, <1>3, <2>1, <2>2, GoesWait
<1>8. ASSUME NEW i \in 1 .. Len(log), Succeeds(c, i) PROVE WaitMissesNothing'
    <2> DEFINE seen == (published[Home[c]] > 0)
               k == [NoCall EXCEPT !.index = i, !.unseen = seen]
    <2>1. seen \in BOOLEAN /\ i \in Nat
        OBVIOUS
    <2>2. Goes(c, k, IF c \in Waits THEN "check" ELSE "ok")
        BY <1>8 DEF Succeeds
    <2> HIDE DEF seen
    <2>3. k \in CallState
        BY <2>1, NoCallType DEF CallState
    <2> HIDE DEF k
    <2> QED
        BY <1>1, <1>2, <1>3, <2>2, <2>3, GoesWait
<1>9. CASE Fails(c)
    BY <1>1, <1>2, <1>3, <1>9, GoesWait DEF Fails
<1>10. CASE Check(c)
    <2> DEFINE step == IF published[Home[c]] < call[c].index THEN "changed"
                       ELSE IF c \in Puts THEN "enqueue" ELSE "ok"
    <2>1. Goes(c, call[c], step)
        BY <1>10 DEF Check
    <2>2. step \in Step /\ (step = "changed" => published[Home[c]] < call[c].index)
        BY <1>3
    <2> HIDE DEF step
    <2> QED
        BY <1>1, <1>2, <2>1, <2>2, GoesWait
<1>11. CASE Changed(c)
    <2> DEFINE k == [call[c] EXCEPT !.unseen = FALSE]
    <2>1. k \in CallState
        BY <1>1 DEF CallState
    <2>2. Goes(c, k, "check")
        BY <1>11 DEF Changed
    <2> HIDE DEF k
    <2> QED
        BY <1>1, <1>2, <1>3, <2>1, <2>2, GoesWait
<1>12. CASE Enqueue(c)
    BY <1>1, <1>2, <1>3, <1>12, GoesWait DEF Enqueue
<1>13. CASE Repeat(c)
    <2> DEFINE k == [call[c] EXCEPT !.repetitions = call[c].repetitions - 1]
    <2>1. Goes(c, k, "send") /\ call[c].repetitions > 0
        BY <1>13 DEF Repeat
    <2>2. k \in CallState
        BY <1>1, <2>1, BoundsAssumption DEF CallState
    <2> HIDE DEF k
    <2> QED
        BY <1>1, <1>2, <1>3, <2>1, <2>2, GoesWait
<1> QED
    BY <1>4, <1>5, <1>6, <1>7, <1>8, <1>9, <1>10, <1>11, <1>12, <1>13 DEF CallStep

\* What is published wakes whoever compares or waits.
LEMMA PublishWait ==
    ASSUME IInv, WaitMissesNothing, NEW n \in Node, Publish(n)
    PROVE  WaitMissesNothing'
<1> SUFFICES ASSUME NEW c \in Call, call'[c].at = "changed", published'[Home[c]] >= call'[c].index
             PROVE  call'[c].unseen
    BY DEF WaitMissesNothing
<1>1. call[c] \in CallState /\ published \in [Node -> Nat] /\ Home[c] \in Node
    BY HomeAssumption DEF IInv, TypeOK
<1>2. CASE Home[c] = n /\ call[c].at \in {"check", "changed"}
    <2>1. call'[c] = [call[c] EXCEPT !.unseen = TRUE]
        BY <1>2 DEF Publish
    <2> QED
        BY <1>1, <2>1 DEF CallState
<1>3. CASE ~(Home[c] = n /\ call[c].at \in {"check", "changed"})
    <2>1. call'[c] = call[c]
        BY <1>3 DEF Publish
    <2>2. Home[c] # n
        BY <1>3, <2>1
    <2>3. published'[Home[c]] = published[Home[c]]
        BY <1>1, <2>2 DEF Publish
    <2> QED
        BY <2>1, <2>3 DEF WaitMissesNothing
<1> QED
    BY <1>2, <1>3

LEMMA NextWait ==
    ASSUME IInv, WaitMissesNothing, [Next]_vars
    PROVE  WaitMissesNothing'
<1>1. TypeOK
    BY DEF IInv
<1>2. CASE UNCHANGED <<call, published>>
    BY <1>2 DEF WaitMissesNothing
<1>3. ASSUME NEW a \in wire, Deliver(a) PROVE WaitMissesNothing'
    <2>1. a \in Attempt /\ a.call \in Call /\ a.on \in Node
        BY <1>1 DEF TypeOK, Attempt
    <2>2. published' = published
        BY <1>3 DEF Deliver, Accepts, raftVars
    <2>3. CASE call' = call
        BY <1>2, <2>2, <2>3
    <2>4. CASE Awaited(a) /\ Refused(a.call, believes[a.on], call[a.call].tries - 1)
        <3>1. believes[a.on] \in Node \cup {None} /\ call[a.call].tries - 1 \in 0 .. Tries
            BY <2>1, <2>4, TriesLeft DEF IInv, TypeOK
        <3> QED
            BY <1>1, <2>1, <2>2, <2>4, <3>1, RefusedWait
    <2> QED
        BY <1>3, <2>3, <2>4 DEF Deliver
<1>4. ASSUME NEW a \in stray, Conflict(a) PROVE WaitMissesNothing'
    <2>1. a \in Attempt /\ a.call \in Call /\ a.on \in Node
        BY <1>1 DEF TypeOK, Attempt
    <2>2. published' = published
        BY <1>4 DEF Conflict, raftVars
    <2>3. CASE call' = call
        BY <1>2, <2>2, <2>3
    <2> DEFINE tries == IF a.try = 0 THEN Tries ELSE call[a.call].tries - 1
    <2>4. CASE Awaited(a) /\ Refused(a.call, believes[a.on], tries)
        <3>1. believes[a.on] \in Node \cup {None} /\ tries \in 0 .. Tries
            BY <2>1, <2>4, TriesLeft, BoundsAssumption DEF IInv, TypeOK
        <3> HIDE DEF tries
        <3> QED
            BY <1>1, <2>1, <2>2, <2>4, <3>1, RefusedWait
    <2> QED
        BY <1>4, <2>3, <2>4 DEF Conflict
<1>5. ASSUME NEW n \in Node, NodeStep(n) \/ Suspect(n) \/ HookStep(n) \/ Hang(n)
      PROVE  WaitMissesNothing'
    BY <1>2, <1>5, PublishWait
       DEF NodeStep, Learn, Apply, Suspect, HookStep, Receive, Posted, Hang, raftVars
<1>6. CASE \/ Commit \/ UNCHANGED vars
           \/ \E n \in Node, kept \in commit .. Len(log), back \in SetToAllKPermutations(stray) :
                 Elect(n, kept, back)
    BY <1>2, <1>6 DEF Commit, Elect, vars, raftVars
<1> QED
    BY <1>3, <1>4, <1>5, <1>6, CallWait DEF Next

\* The loop of consistent_write has no lost wake-up: a call whose index the metrics
\* of its node have reached is not left waiting, for any number of calls and
\* whatever leaders come and go.
THEOREM NoLostMetrics == Spec => []WaitMissesNothing
<1>1. Init => WaitMissesNothing
    BY DEF Init, NoCall, WaitMissesNothing
<1>2. IInv /\ WaitMissesNothing /\ [Next]_vars => WaitMissesNothing'
    BY NextWait
<1> QED
    BY <1>1, <1>2, Inductive, PTL DEF Spec

-----------------------------------------------------------------------------
(***************************************************************************)
(* The refinement: every step is a step of RegistryWrite or leaves what it *)
(* speaks of alone.                                                        *)
(***************************************************************************)
OutcomeOf(step) ==
    IF step = "none" THEN "none"
    ELSE IF step = "failed" THEN "failed"
    ELSE IF step \in {"enqueue", "ok"} THEN "ok" ELSE "open"

Outcomes == [c \in Call |-> Outcome(c)]

Decisions == [i \in 1 .. commit |-> log[i].call]

LEMMA OutcomesAre == Outcomes = [c \in Call |-> OutcomeOf(call[c].at)]
BY DEF Outcomes, Outcome, OutcomeOf

LEMMA DecisionsAre ==
    ASSUME TypeOK
    PROVE  /\ Decisions \in Seq(Call) /\ Len(Decisions) = commit
           /\ \A i \in 1 .. commit : Decisions[i] = log[i].call
<1>1. commit \in Nat /\ commit <= Len(log) /\ log \in Seq(Attempt)
    BY DEF TypeOK
<1>2. \A i \in 1 .. commit : log[i] \in Attempt
    BY <1>1
<1>3. \A i \in 1 .. commit : log[i].call \in Call
    BY <1>2 DEF Attempt
<1> QED
    BY <1>1, <1>3 DEF Decisions

LEMMA DecisionsStay ==
    ASSUME LogKept, commit' = commit
    PROVE  Decisions' = Decisions
BY DEF LogKept, Decisions

\* A step that moves no call to another outcome.
LEMMA Stutters ==
    ASSUME LogKept, UNCHANGED <<commit, applied, redone>>,
           \A d \in Call : OutcomeOf(call'[d].at) = OutcomeOf(call[d].at)
    PROVE  UNCHANGED Promise!vars
<1>1. Outcomes' = Outcomes
    <2>1. Outcomes' = [c \in Call |-> OutcomeOf(call'[c].at)]
        BY DEF Outcomes, Outcome, OutcomeOf
    <2> QED
        BY <2>1, OutcomesAre
<1>2. Decisions' = Decisions
    BY DecisionsStay
<1> QED
    BY <1>1, <1>2 DEF Promise!vars, Outcomes, Decisions

\* A call that takes a step: it is asked, is still open, fails, or succeeds with
\* its transaction where RegistryWrite wants it; or it is sent again.
LEMMA GoesRefines ==
    ASSUME TypeOK, LogKept, UNCHANGED <<commit, applied>>, NEW c \in Call, NEW known \in CallState,
           NEW step \in Step, Goes(c, known, step),
           \/ OutcomeOf(step) = OutcomeOf(call[c].at)
           \/ OutcomeOf(call[c].at) = "none" /\ OutcomeOf(step) = "open"
           \/ OutcomeOf(call[c].at) = "open" /\ OutcomeOf(step) = "failed"
           \/ /\ OutcomeOf(call[c].at) = "open" /\ OutcomeOf(step) = "ok"
              /\ InLog(c, IF c \in Waits THEN applied[Home[c]] ELSE commit),
           \/ UNCHANGED redone
           \/ /\ redone' = redone \cup {c}
              /\ OutcomeOf(call[c].at) = "open" /\ OutcomeOf(step) = "open"
    PROVE  [Promise!Next]_(Promise!vars)
<1>1. /\ call' \in [Call -> CallState] /\ (\A d \in Call \ {c} : call'[d] = call[d])
      /\ call'[c].at = step
    BY GoesEffect
<1>2. Outcomes' = [Outcomes EXCEPT ![c] = OutcomeOf(step)]
    <2>1. Outcomes' = [d \in Call |-> OutcomeOf(call'[d].at)]
        BY DEF Outcomes, Outcome, OutcomeOf
    <2> QED
        BY <1>1, <2>1, OutcomesAre
<1>3. Decisions' = Decisions /\ applied' = applied
    BY DecisionsStay
<1>4. Outcomes[c] = OutcomeOf(call[c].at)
    BY OutcomesAre
<1>5. CASE OutcomeOf(step) = OutcomeOf(call[c].at)
    <2>1. \A d \in Call : OutcomeOf(call'[d].at) = OutcomeOf(call[d].at)
        BY <1>1, <1>5
    <2>2. CASE UNCHANGED redone
        BY <2>1, <2>2, Stutters
    <2>3. CASE redone' = redone \cup {c} /\ OutcomeOf(call[c].at) = "open"
        <3>1. Outcomes' = Outcomes
            <4>1. Outcomes' = [d \in Call |-> OutcomeOf(call'[d].at)]
                BY DEF Outcomes, Outcome, OutcomeOf
            <4> QED
                BY <2>1, <4>1, OutcomesAre
        <3>2. Promise!Redo(c)
            BY <1>3, <1>4, <2>3, <3>1 DEF Promise!Redo, Outcomes, Decisions
        <3> QED
            BY <3>2 DEF Promise!Next
    <2> QED
        BY <2>2, <2>3
<1>6. CASE OutcomeOf(call[c].at) = "none" /\ OutcomeOf(step) = "open"
    <2>1. Promise!Ask(c)
        BY <1>2, <1>3, <1>4, <1>6 DEF Promise!Ask, Outcomes, Decisions
    <2> QED
        BY <2>1 DEF Promise!Next
<1>7. CASE OutcomeOf(call[c].at) = "open" /\ OutcomeOf(step) = "failed"
    <2>1. Promise!Fail(c)
        BY <1>2, <1>3, <1>4, <1>7 DEF Promise!Fail, Outcomes, Decisions
    <2> QED
        BY <2>1 DEF Promise!Next
<1>8. CASE /\ OutcomeOf(call[c].at) = "open" /\ OutcomeOf(step) = "ok"
           /\ InLog(c, IF c \in Waits THEN applied[Home[c]] ELSE commit)
    <2>1. Len(Decisions) = commit /\ \A i \in 1 .. commit : Decisions[i] = log[i].call
        BY DecisionsAre
    <2>2. applied[Home[c]] \in Nat /\ applied[Home[c]] <= commit /\ commit \in Nat
        BY HomeAssumption DEF TypeOK
    <2>3. Promise!Decided(c, IF c \in Waits THEN applied[Home[c]] ELSE Len(Decisions))
        BY <1>8, <2>1, <2>2 DEF InLog, Promise!Decided, Decisions
    <2>4. Promise!Succeed(c)
        BY <1>2, <1>3, <1>4, <1>8, <2>3 DEF Promise!Succeed, Outcomes, Decisions
    <2> QED
        BY <2>4 DEF Promise!Next
<1> QED
    BY <1>5, <1>6, <1>7, <1>8

\* ForwardToLeader leaves the call open, or fails it.
LEMMA RefusedRefines ==
    ASSUME TypeOK, LogKept, UNCHANGED <<commit, applied>>, NEW c \in Call,
           NEW hint \in Node \cup {None}, NEW tries \in 0 .. Tries, Refused(c, hint, tries),
           OutcomeOf(call[c].at) = "open",
           UNCHANGED redone \/ (redone' = redone \cup {c} /\ call'[c].at = "send")
    PROVE  [Promise!Next]_(Promise!vars)
<1>1. PICK k \in CallState, step \in {"send", "failed"} : Goes(c, k, step)
    BY RefusedGoes
<1>2. /\ step \in Step /\ OutcomeOf(step) \in {"open", "failed"}
      /\ step = "send" => OutcomeOf(step) = "open"
    BY DEF Step, OutcomeOf
<1>3. call'[c].at = step
    BY <1>1, <1>2, GoesEffect
<1> QED
    BY <1>1, <1>2, <1>3, GoesRefines

LEMMA CallRefines ==
    ASSUME IInv, NEW c \in Call, Begin(c) \/ CallStep(c) \/ Repeat(c)
    PROVE  [Promise!Next]_(Promise!vars)
<1>1. /\ TypeOK /\ CallOK(c) /\ call[c] \in CallState /\ Home[c] \in Node /\ commit \in Nat
      /\ applied[Home[c]] \in 0 .. commit /\ published[Home[c]] \in Nat
      /\ published[Home[c]] <= applied[Home[c]] /\ believes[Home[c]] \in Node \cup {None}
      /\ Tries \in 0 .. Tries
    <2>1. TypeOK /\ CallOK(c) /\ Home[c] \in Node
        BY HomeAssumption DEF IInv
    <2>2. call[c] \in CallState /\ commit \in Nat /\ applied[Home[c]] \in 0 .. commit
        BY <2>1 DEF TypeOK
    <2>3. /\ published[Home[c]] \in Nat /\ published[Home[c]] <= applied[Home[c]]
          /\ believes[Home[c]] \in Node \cup {None}
        BY <2>1 DEF TypeOK
    <2>4. Tries \in 0 .. Tries
        BY BoundsAssumption
    <2> QED
        BY <2>1, <2>2, <2>3, <2>4
<1>2. CASE UNCHANGED <<log, commit, applied>>
    <2>1. LogKept
        BY <1>1, <1>2, SameLogKept
    <2>2. CASE Begin(c)
        <3>10. UNCHANGED redone
            BY <2>2 DEF Begin, entryVars
        <3> DEFINE k == [call[c] EXCEPT !.to = Home[c]]
        <3>1. /\ k \in CallState /\ call[c].at = "none"
              /\ Goes(c, k, "send") \/ Goes(c, call[c], "client_write")
            BY <1>1, <2>2 DEF Begin, CallState
        <3>2. "send" \in Step /\ "client_write" \in Step /\ OutcomeOf(call[c].at) = "none"
              /\ OutcomeOf("send") = "open" /\ OutcomeOf("client_write") = "open"
            BY <3>1 DEF Step, OutcomeOf
        <3> HIDE DEF k
        <3> QED
            BY <1>1, <1>2, <2>1, <3>10, <3>1, <3>2, GoesRefines
    <2>3. CASE LocalRefuses(c)
        <3>10. UNCHANGED redone
            BY <2>3 DEF LocalRefuses, entryVars
        <3>1. Refused(c, believes[Home[c]], Tries) /\ OutcomeOf(call[c].at) = "open"
            BY <2>3 DEF LocalRefuses, OutcomeOf
        <3> QED
            BY <1>1, <1>2, <2>1, <3>10, <3>1, RefusedRefines
    <2>4. CASE Send(c)
        <3>10. UNCHANGED redone
            BY <2>4 DEF Send, entryVars
        <3> DEFINE k == [call[c] EXCEPT !.try = call[c].try + 1]
        <3>1. k \in CallState /\ call[c].at = "send" /\ Goes(c, k, "remote")
            BY <1>1, <2>4 DEF Send, CallState
        <3>2. "remote" \in Step /\ OutcomeOf("remote") = OutcomeOf(call[c].at)
            BY <3>1 DEF Step, OutcomeOf
        <3> HIDE DEF k
        <3> QED
            BY <1>1, <1>2, <2>1, <3>10, <3>1, <3>2, GoesRefines
    <2>5. ASSUME NEW i \in 1 .. Len(log), Succeeds(c, i) PROVE [Promise!Next]_(Promise!vars)
        <3>10. UNCHANGED redone
            BY <2>5 DEF Succeeds, entryVars
        <3> DEFINE seen == (published[Home[c]] > 0)
                   k == [NoCall EXCEPT !.index = i, !.unseen = seen]
                   step == IF c \in Waits THEN "check" ELSE "ok"
        <3>1. Returned(c, i) /\ Goes(c, k, step)
            BY <2>5 DEF Succeeds
        <3>2. seen \in BOOLEAN /\ i \in Nat
            OBVIOUS
        <3> HIDE DEF seen
        <3>3. k \in CallState
            BY <3>2, NoCallType DEF CallState
        <3>4. log[i] \in Attempt
            BY <1>1 DEF TypeOK
        <3>5. /\ log[i].on \in Node /\ i <= applied[log[i].on] /\ log[i].call = c
              /\ call[c].at \in {"local", "remote"}
            BY <3>1, <3>4 DEF Attempt, Returned, Awaited
        <3>6. InLog(c, commit)
            <4>1. applied[log[i].on] \in 0 .. commit
                BY <1>1, <3>5 DEF TypeOK
            <4> QED
                BY <1>1, <3>5, <4>1 DEF InLog
        <3>7. /\ step \in Step /\ OutcomeOf(call[c].at) = "open"
              /\ \/ OutcomeOf(step) = "open"
                 \/ OutcomeOf(step) = "ok" /\ c \notin Waits
            BY <3>5 DEF Step, OutcomeOf
        <3> HIDE DEF k, step
        <3> QED
            BY <1>1, <1>2, <2>1, <3>10, <3>1, <3>3, <3>6, <3>7, GoesRefines
    <2>6. CASE Fails(c)
        <3>10. UNCHANGED redone
            BY <2>6 DEF Fails, entryVars
        <3>1. call[c].at = "remote" /\ Goes(c, call[c], "failed")
            BY <2>6 DEF Fails
        <3>2. "failed" \in Step /\ OutcomeOf("failed") = "failed" /\ OutcomeOf(call[c].at) = "open"
            BY <3>1 DEF Step, OutcomeOf
        <3> QED
            BY <1>1, <1>2, <2>1, <3>10, <3>1, <3>2, GoesRefines
    <2>7. CASE Check(c)
        <3>10. UNCHANGED redone
            BY <2>7 DEF Check, entryVars
        <3> DEFINE step == IF published[Home[c]] < call[c].index THEN "changed"
                           ELSE IF c \in Puts THEN "enqueue" ELSE "ok"
        <3>1. call[c].at = "check" /\ Goes(c, call[c], step)
            BY <2>7 DEF Check
        <3>2. call[c].index \in 1 .. commit /\ log[call[c].index].call = c
            BY <1>1, <3>1 DEF CallOK
        <3>3. step # "changed" => call[c].index \in 1 .. applied[Home[c]]
            BY <1>1, <3>2
        <3>4. InLog(c, commit) /\ (step # "changed" => InLog(c, applied[Home[c]]))
            BY <3>2, <3>3 DEF InLog
        <3>5. /\ step \in Step /\ OutcomeOf(call[c].at) = "open"
              /\ \/ OutcomeOf(step) = "open"
                 \/ OutcomeOf(step) = "ok" /\ step # "changed"
            BY <3>1 DEF Step, OutcomeOf
        <3> HIDE DEF step
        <3> QED
            BY <1>1, <1>2, <2>1, <3>10, <3>1, <3>4, <3>5, GoesRefines
    <2>8. CASE Changed(c)
        <3>10. UNCHANGED redone
            BY <2>8 DEF Changed, entryVars
        <3> DEFINE k == [call[c] EXCEPT !.unseen = FALSE]
        <3>1. k \in CallState /\ call[c].at = "changed" /\ Goes(c, k, "check")
            BY <1>1, <2>8 DEF Changed, CallState
        <3>2. "check" \in Step /\ OutcomeOf("check") = OutcomeOf(call[c].at)
            BY <3>1 DEF Step, OutcomeOf
        <3> HIDE DEF k
        <3> QED
            BY <1>1, <1>2, <2>1, <3>10, <3>1, <3>2, GoesRefines
    <2>9. CASE Enqueue(c)
        <3>10. UNCHANGED redone
            BY <2>9 DEF Enqueue, entryVars
        <3>1. call[c].at = "enqueue" /\ Goes(c, call[c], "ok")
            BY <2>9 DEF Enqueue
        <3>2. "ok" \in Step /\ OutcomeOf("ok") = OutcomeOf(call[c].at)
            BY <3>1 DEF Step, OutcomeOf
        <3> QED
            BY <1>1, <1>2, <2>1, <3>10, <3>1, <3>2, GoesRefines
    <2>10. CASE Repeat(c)
        <3> DEFINE k == [call[c] EXCEPT !.repetitions = call[c].repetitions - 1]
        <3>1. /\ call[c].at = "remote" /\ call[c].repetitions > 0 /\ Goes(c, k, "send")
              /\ redone' = redone \cup {c}
            BY <2>10 DEF Repeat
        <3>2. k \in CallState
            BY <1>1, <3>1, BoundsAssumption DEF CallState
        <3>3. "send" \in Step /\ OutcomeOf("send") = "open" /\ OutcomeOf(call[c].at) = "open"
            BY <3>1 DEF Step, OutcomeOf
        <3> HIDE DEF k
        <3> QED
            BY <1>1, <1>2, <2>1, <3>1, <3>2, <3>3, GoesRefines
    <2>11. CASE LocalAccepts(c)
        <3>10. UNCHANGED redone
            BY <2>11 DEF LocalAccepts, Accepts
        <3>1. call[c].at = "client_write" /\ Goes(c, call[c], "local")
            BY <2>11 DEF LocalAccepts
        <3>2. "local" \in Step /\ OutcomeOf("local") = OutcomeOf(call[c].at)
            BY <3>1 DEF Step, OutcomeOf
        <3> QED
            BY <1>1, <1>2, <2>1, <3>10, <3>1, <3>2, GoesRefines
    <2> QED
        BY <2>2, <2>3, <2>4, <2>5, <2>6, <2>7, <2>8, <2>9, <2>10, <2>11 DEF CallStep
<1>3. CASE LocalAccepts(c)
    <2> DEFINE a == [call |-> c, try |-> 0, on |-> Home[c]]
    <2>1. a \in Attempt
        BY <1>1 DEF Attempt
    <2>2. call[c].at = "client_write" /\ Goes(c, call[c], "local") /\ Accepts(a)
        BY <1>3 DEF LocalAccepts
    <2> HIDE DEF a
    <2>3. LogKept /\ UNCHANGED <<commit, applied, redone>>
        BY <1>1, <2>1, <2>2, AcceptsLog
    <2>4. "local" \in Step /\ OutcomeOf("local") = OutcomeOf(call[c].at)
        BY <2>2 DEF Step, OutcomeOf
    <2> QED
        BY <1>1, <2>2, <2>3, <2>4, GoesRefines
<1>4. LocalAccepts(c) \/ UNCHANGED <<log, commit, applied>>
    BY DEF Begin, CallStep, Repeat, LocalRefuses, Send, Succeeds, Fails, Check, Changed, Enqueue,
           raftVars
<1> QED
    BY <1>2, <1>3, <1>4

LEMMA DeliverRefines ==
    ASSUME IInv, NEW a \in wire, Deliver(a)
    PROVE  [Promise!Next]_(Promise!vars)
<1>1. /\ TypeOK /\ CallOK(a.call) /\ a \in Attempt /\ a.call \in Call /\ a.on \in Node
      /\ call \in [Call -> CallState]
    BY DEF IInv, TypeOK, Attempt
<1>2. CASE UNCHANGED call
    <2>1. LogKept /\ UNCHANGED <<commit, applied, redone>>
        <3>1. Accepts(a) \/ UNCHANGED <<raftVars, redone>>
            BY DEF Deliver, entryVars
        <3> QED
            BY <1>1, <3>1, AcceptsLog, SameLogKept DEF raftVars
    <2> QED
        BY <1>2, <2>1, Stutters
<1>3. CASE ~UNCHANGED call
    <2>1. /\ UNCHANGED <<raftVars, redone>> /\ Awaited(a)
          /\ Refused(a.call, believes[a.on], call[a.call].tries - 1)
        BY <1>3 DEF Deliver, entryVars
    <2>2. believes[a.on] \in Node \cup {None} /\ call[a.call].tries - 1 \in 0 .. Tries
        BY <1>1, TriesLeft DEF TypeOK
    <2>3. OutcomeOf(call[a.call].at) = "open"
        BY <2>1 DEF Awaited, OutcomeOf
    <2>4. LogKept /\ UNCHANGED <<commit, applied>>
        BY <1>1, <2>1, SameLogKept DEF raftVars
    <2> QED
        BY <1>1, <2>1, <2>2, <2>3, <2>4, RefusedRefines
<1> QED
    BY <1>2, <1>3

LEMMA ConflictRefines ==
    ASSUME IInv, NEW a \in stray, Conflict(a)
    PROVE  [Promise!Next]_(Promise!vars)
<1>1. /\ TypeOK /\ CallOK(a.call) /\ a \in Attempt /\ a.call \in Call /\ a.on \in Node
      /\ call \in [Call -> CallState]
    BY DEF IInv, TypeOK, Attempt
<1>2. LogKept /\ UNCHANGED <<commit, applied>>
    BY <1>1, SameLogKept DEF Conflict, raftVars
<1>3. redone' = redone \cup {d \in {a.call} : call[d].at # "send" /\ call'[d].at = "send"}
    BY DEF Conflict
<1>4. CASE UNCHANGED call
    <2>1. UNCHANGED redone
        BY <1>4, <1>3
    <2> QED
        BY <1>2, <1>4, <2>1, Stutters
<1>5. CASE ~UNCHANGED call
    <2> DEFINE tries == IF a.try = 0 THEN Tries ELSE call[a.call].tries - 1
    <2>1. Awaited(a) /\ Refused(a.call, believes[a.on], tries)
        BY <1>5 DEF Conflict
    <2>2. believes[a.on] \in Node \cup {None} /\ tries \in 0 .. Tries
        <3>1. call[a.call].tries - 1 \in 0 .. Tries /\ Tries \in 0 .. Tries
            BY <1>1, TriesLeft
        <3> QED
            BY <1>1, <3>1 DEF TypeOK
    <2>3. OutcomeOf(call[a.call].at) = "open"
        BY <2>1 DEF Awaited, OutcomeOf
    <2>4. UNCHANGED redone \/ (redone' = redone \cup {a.call} /\ call'[a.call].at = "send")
        BY <1>3
    <2> HIDE DEF tries
    <2> QED
        BY <1>1, <1>2, <2>1, <2>2, <2>3, <2>4, RefusedRefines
<1> QED
    BY <1>4, <1>5

\* A decision is new: the entry that is decided belongs to a call that was made,
\* and unless that call was sent again, to no other entry's call.
LEMMA CommitRefines ==
    ASSUME IInv, Commit
    PROVE  [Promise!Next]_(Promise!vars)
<1>1. /\ TypeOK /\ (\A d \in Call : OnceOK(d)) /\ log \in Seq(Attempt) /\ Len(log) \in Nat
      /\ commit \in Nat
    BY DEF IInv, TypeOK
<1>2. /\ commit < Len(log) /\ commit' = commit + 1 /\ log' = log /\ call' = call
      /\ applied' = applied /\ redone' = redone
    BY DEF Commit, entryVars
<1>3. PICK c \in Call : log[commit + 1].call = c
    <2>1. log[commit + 1] \in Attempt
        BY <1>1, <1>2
    <2> QED
        BY <2>1 DEF Attempt
<1>4. Len(Decisions) = commit /\ \A i \in 1 .. commit : Decisions[i] = log[i].call
    BY <1>1, DecisionsAre
<1>5. commit + 1 \in 1 .. Len(log) /\ 1 .. commit \subseteq 1 .. Len(log)
    BY <1>1, <1>2
<1>6. Decisions' = Append(Decisions, c)
    <2>1. Decisions' = [i \in 1 .. commit + 1 |-> log[i].call]
        BY <1>2 DEF Decisions
    <2>2. Decisions \in Seq(Call)
        BY <1>1, DecisionsAre
    <2>3. \A i \in 1 .. commit + 1 : Append(Decisions, c)[i] = log[i].call
        <3>1. /\ Append(Decisions, c)[Len(Decisions) + 1] = c
              /\ \A i \in 1 .. Len(Decisions) : Append(Decisions, c)[i] = Decisions[i]
            BY <2>2
        <3>2. \A i \in 1 .. commit + 1 : i \in 1 .. commit \/ i = commit + 1
            BY <1>1
        <3> QED
            BY <1>3, <1>4, <3>1, <3>2
    <2>4. Append(Decisions, c) \in Seq(Call) /\ Len(Append(Decisions, c)) = commit + 1
        BY <1>4, <2>2
    <2>5. Append(Decisions, c) \in [1 .. commit + 1 -> Call]
        BY <2>4, LenProperties
    <2> QED
        BY <2>1, <2>3, <2>5
<1>7. Outcomes[c] # "none"
    <2>1. call[c].at # "none"
        BY <1>1, <1>3, <1>5 DEF OnceOK, Dead, InLog
    <2> QED
        BY <2>1, OutcomesAre DEF OutcomeOf
<1>8. c \in redone \/ ~Promise!Decided(c, Len(Decisions))
    <2> SUFFICES ASSUME c \notin redone, NEW i \in 1 .. commit, log[i].call = c PROVE FALSE
        BY <1>4 DEF Promise!Decided, Decisions
    <2>1. i = commit + 1
        BY <1>1, <1>3, <1>5 DEF OnceOK
    <2> QED
        BY <1>1, <2>1
<1>9. Outcomes' = Outcomes
    BY <1>2 DEF Outcomes, Outcome
<1>10. Promise!Decide(c)
    BY <1>2, <1>6, <1>7, <1>8, <1>9 DEF Promise!Decide, Outcomes, Decisions
<1> QED
    BY <1>10 DEF Promise!Next

LEMMA ApplyRefines ==
    ASSUME IInv, NEW n \in Node, Apply(n)
    PROVE  [Promise!Next]_(Promise!vars)
<1>1. Len(Decisions) = commit
    BY DecisionsAre DEF IInv
<1>2. /\ applied[n] < commit /\ applied' = [applied EXCEPT ![n] = applied[n] + 1]
      /\ log' = log /\ commit' = commit /\ call' = call /\ redone' = redone
    BY DEF Apply, entryVars
<1>3. Outcomes' = Outcomes /\ Decisions' = Decisions
    BY <1>2 DEF Outcomes, Outcome, Decisions
<1>4. Promise!Apply(n)
    BY <1>1, <1>2, <1>3 DEF Promise!Apply, Outcomes, Decisions
<1> QED
    BY <1>4 DEF Promise!Next

\* The steps RegistryWrite does not see.
LEMMA OthersRefine ==
    ASSUME IInv,
           \/ \E n \in Node, kept \in commit .. Len(log), back \in SetToAllKPermutations(stray) :
                 Elect(n, kept, back)
           \/ \E n \in Node : Learn(n) \/ Publish(n) \/ Suspect(n) \/ HookStep(n) \/ Hang(n)
           \/ UNCHANGED vars
    PROVE  UNCHANGED Promise!vars
<1>1. TypeOK /\ call \in [Call -> CallState] /\ IsFiniteSet(stray)
    BY DEF IInv, TypeOK
<1>2. UNCHANGED <<commit, applied, redone>>
    BY DEF Elect, Learn, Publish, Suspect, HookStep, Receive, Posted, Hang, vars, raftVars, entryVars
<1>3. LogKept
    <2>1. \/ \E n \in Node, kept \in commit .. Len(log), back \in SetToAllKPermutations(stray) :
                Elect(n, kept, back)
          \/ log' = log
        BY DEF Learn, Publish, Suspect, HookStep, Receive, Posted, Hang, vars, raftVars
    <2> QED
        BY <1>1, <1>2, <2>1, ElectMoves, SameLogKept
<1>4. \A d \in Call : call'[d].at = call[d].at
    <2>1. ASSUME NEW n \in Node, Publish(n) PROVE \A d \in Call : call'[d].at = call[d].at
        <3>1. call' = [c \in Call |-> IF Home[c] = n /\ call[c].at \in {"check", "changed"}
                                      THEN [call[c] EXCEPT !.unseen = TRUE] ELSE call[c]]
            BY <2>1 DEF Publish
        <3>2. \A r \in CallState : [r EXCEPT !.unseen = TRUE].at = r.at
            BY DEF CallState
        <3> QED
            BY <1>1, <3>1, <3>2
    <2>2. (\E n \in Node : Publish(n)) \/ call' = call
        BY DEF Elect, Learn, Suspect, HookStep, Receive, Posted, Hang, vars
    <2> QED
        BY <2>1, <2>2
<1> QED
    BY <1>2, <1>3, <1>4, Stutters

LEMMA InitRefines == Init => Promise!Init
<1> SUFFICES ASSUME Init PROVE Promise!Init
    OBVIOUS
<1>1. /\ commit = 0 /\ applied = [n \in Node |-> 0] /\ call = [c \in Call |-> NoCall]
      /\ redone = {}
    BY DEF Init
<1>2. Outcomes = [c \in Call |-> "none"]
    BY <1>1, OutcomesAre DEF OutcomeOf, NoCall
<1>3. Decisions = <<>>
    BY <1>1 DEF Decisions
<1> QED
    BY <1>1, <1>2, <1>3 DEF Promise!Init, Outcomes, Decisions

LEMMA NextRefines ==
    ASSUME IInv, [Next]_vars
    PROVE  [Promise!Next]_(Promise!vars)
BY CallRefines, DeliverRefines, ConflictRefines, CommitRefines, ApplyRefines, OthersRefine
   DEF Next, NodeStep

\* submit_write, consistent_write, send_rpc_to_leader and POST /write implement
\* RegistryWrite, for any number of nodes, calls, elections and retries: `true` is
\* answered only for a transaction that is decided, to consistent_write only when
\* it is applied on this node, and a transaction is decided twice only if it was
\* sent again after a node had accepted it: ForwardToLeader from a node that did
\* not take it, a timeout and a broken connection never lead to that.
THEOREM Refinement == Spec => KeepsPromise
<1>1. Init => Promise!Init
    BY InitRefines
<1>2. IInv /\ [Next]_vars => [Promise!Next]_(Promise!vars)
    BY NextRefines
<1> QED
    BY <1>1, <1>2, Inductive, PTL DEF Spec, KeepsPromise, Promise!Spec

=============================================================================
