------------------------ MODULE RegistryCluster_proofs ------------------------
(***************************************************************************)
(* Proofs of the safety properties of RegistryCluster, for any nodes,      *)
(* repositories, tags and contents of objects and for any number of tasks  *)
(* and of workers.                                                         *)
(***************************************************************************)
EXTENDS RegistryCluster, FiniteSetTheorems, WellFoundedInduction, TLAPS

-----------------------------------------------------------------------------
(***************************************************************************)
(* What Closure computes.                                                  *)
(***************************************************************************)

\* Induction over the natural numbers, with a set in the place of a predicate.
LEMMA SetInduction ==
    ASSUME NEW T, 0 \in T, \A n \in Nat : n \in T => n + 1 \in T
    PROVE  Nat \subseteq T
<1> DEFINE less == {p \in Nat \X Nat : p[1] < p[2]}
           rest == Nat \ T
<1>1. IsWellFoundedOn(less, Nat)
    BY NatLessThanWellFounded DEF OpToRel
<1>2. ASSUME rest # {} PROVE FALSE
    <2>1. PICK x \in rest : \A y \in rest : <<y, x>> \notin less
        BY <1>1, <1>2, WFMin
    <2>2. x # 0 /\ x - 1 \in Nat
        OBVIOUS
    <2>3. <<x - 1, x>> \in less
        BY <2>2
    <2>4. x - 1 \in T
        BY <2>1, <2>2, <2>3
    <2> QED
        BY <2>2, <2>4
<1> QED
    BY <1>2

\* One step of Closure.
Wider(X, deps) == X \cup UNION {deps[d] : d \in X}

\* r is the chain of sets that Closure defines, up to k.
IsChain(r, k, S, deps) ==
    r = [n \in 0 .. k |-> IF n = 0 THEN S ELSE Wider(r[n - 1], deps)]

LEMMA ChainExists ==
    ASSUME NEW k \in Nat, NEW S, NEW deps \in [Digest -> SUBSET Digest]
    PROVE  \E r : IsChain(r, k, S, deps)
<1> DEFINE T == {n \in Nat : \E r : IsChain(r, n, S, deps)}
<1>1. 0 \in T
    <2>1. IsChain([n \in 0 .. 0 |-> S], 0, S, deps)
        BY DEF IsChain
    <2> QED
        BY <2>1
<1>2. ASSUME NEW n \in Nat, n \in T PROVE n + 1 \in T
    <2>1. PICK r : IsChain(r, n, S, deps)
        BY <1>2
    <2> DEFINE q == [i \in 0 .. n + 1 |-> IF i = n + 1 THEN Wider(r[n], deps) ELSE r[i]]
    <2>2. ASSUME NEW i \in 0 .. n + 1
          PROVE  q[i] = IF i = 0 THEN S ELSE Wider(q[i - 1], deps)
        <3>1. CASE i = n + 1
            <4>1. q[i] = Wider(r[n], deps) /\ q[i - 1] = r[n] /\ i # 0
                BY <3>1
            <4> QED
                BY <4>1
        <3>2. CASE i # n + 1
            <4>1. i \in 0 .. n /\ q[i] = r[i]
                BY <3>2
            <4>2. r[i] = IF i = 0 THEN S ELSE Wider(r[i - 1], deps)
                BY <2>1, <4>1 DEF IsChain
            <4>3. i # 0 => q[i - 1] = r[i - 1]
                BY <3>2
            <4> QED
                BY <4>1, <4>2, <4>3
        <3> QED
            BY <3>1, <3>2
    <2>3. q = [i \in 0 .. n + 1 |-> q[i]]
        OBVIOUS
    <2> HIDE DEF q
    <2>4. IsChain(q, n + 1, S, deps)
        BY <2>2, <2>3 DEF IsChain
    <2> QED
        BY <2>4
<1> HIDE DEF T
<1>3. Nat \subseteq T
    BY <1>1, <1>2, SetInduction
<1> QED
    BY <1>3 DEF T

LEMMA ClosureIsChain ==
    ASSUME NEW S, NEW deps \in [Digest -> SUBSET Digest], Cardinality(Digest) \in Nat
    PROVE  \E r : IsChain(r, Cardinality(Digest), S, deps)
                  /\ Closure(S, deps) = r[Cardinality(Digest)]
<1> DEFINE N == Cardinality(Digest)
           r == CHOOSE f : IsChain(f, N, S, deps)
<1>1. IsChain(r, N, S, deps)
    BY ChainExists
<1>2. Closure(S, deps) = r[N]
    BY DEF Closure, IsChain, Wider
<1> QED
    BY <1>1, <1>2

\* A step adds what the members name, and stays among the digests.
LEMMA WiderAdds ==
    ASSUME NEW X \in SUBSET Digest, NEW deps \in [Digest -> SUBSET Digest]
    PROVE  /\ X \subseteq Wider(X, deps) /\ Wider(X, deps) \subseteq Digest
           /\ \A d \in X : deps[d] \subseteq Wider(X, deps)
           /\ \A V : X \subseteq V /\ (\A d \in X : deps[d] \subseteq V)
                        => Wider(X, deps) \subseteq V
BY DEF Wider

LEMMA ChainTypes ==
    ASSUME NEW S \in SUBSET Digest, NEW deps \in [Digest -> SUBSET Digest], NEW k \in Nat,
           NEW r, IsChain(r, k, S, deps)
    PROVE  /\ r[0] = S
           /\ \A n \in Nat : n + 1 <= k => r[n + 1] = Wider(r[n], deps)
           /\ \A n \in 0 .. k : r[n] \in SUBSET Digest
<1>1. r[0] = S /\ \A n \in Nat : n + 1 <= k => r[n + 1] = Wider(r[n], deps)
    <2>1. \A n \in 0 .. k : r[n] = IF n = 0 THEN S ELSE Wider(r[n - 1], deps)
        BY DEF IsChain
    <2>2. ASSUME NEW n \in Nat, n + 1 <= k PROVE r[n + 1] = Wider(r[n], deps)
        <3>1. n + 1 \in 0 .. k /\ n + 1 # 0 /\ (n + 1) - 1 = n
            BY <2>2
        <3> QED
            BY <2>1, <3>1
    <2> QED
        BY <2>1, <2>2
<1> DEFINE T == {n \in Nat : n <= k => r[n] \in SUBSET Digest}
<1>2. 0 \in T
    BY <1>1
<1>3. \A n \in Nat : n \in T => n + 1 \in T
    <2> SUFFICES ASSUME NEW n \in Nat, n \in T, n + 1 <= k PROVE r[n + 1] \in SUBSET Digest
        OBVIOUS
    <2>1. r[n] \in SUBSET Digest /\ r[n + 1] = Wider(r[n], deps)
        BY <1>1
    <2> QED
        BY <2>1, WiderAdds
<1> HIDE DEF T
<1>4. Nat \subseteq T
    BY <1>2, <1>3, SetInduction
<1> QED
    BY <1>1, <1>4 DEF T

\* The chain is increasing, and has come to its end after as many steps as
\* there are digests: a step that adds nothing is the last that matters, and
\* every other one adds a digest.
LEMMA ChainEnds ==
    ASSUME NEW S \in SUBSET Digest, NEW deps \in [Digest -> SUBSET Digest], NEW r,
           IsChain(r, Cardinality(Digest), S, deps), IsFiniteSet(Digest)
    PROVE  Wider(r[Cardinality(Digest)], deps) = r[Cardinality(Digest)]
<1>1. PICK N \in Nat : N = Cardinality(Digest)
    BY FS_CardinalityType
<1>2. /\ r[0] = S
      /\ \A n \in Nat : n + 1 <= N => r[n + 1] = Wider(r[n], deps)
      /\ \A n \in 0 .. N : r[n] \in SUBSET Digest
    <2>1. IsChain(r, N, S, deps)
        BY <1>1
    <2> QED
        BY <2>1, ChainTypes
<1>3. \A X \in SUBSET Digest : IsFiniteSet(X) /\ Cardinality(X) \in Nat
    BY FS_Subset, FS_CardinalityType
<1> DEFINE T == {n \in Nat : n <= N => Cardinality(r[n]) >= n \/ Wider(r[n], deps) = r[n]}
<1>4. 0 \in T
    BY <1>2, <1>3
<1>5. \A n \in Nat : n \in T => n + 1 \in T
    <2> SUFFICES ASSUME NEW n \in Nat, n \in T, n + 1 <= N
                 PROVE  Cardinality(r[n + 1]) >= n + 1 \/ Wider(r[n + 1], deps) = r[n + 1]
        OBVIOUS
    <2>1. r[n + 1] = Wider(r[n], deps) /\ r[n] \in SUBSET Digest /\ r[n + 1] \in SUBSET Digest
        BY <1>2
    <2>2. CASE Wider(r[n], deps) = r[n]
        BY <2>1, <2>2
    <2>3. CASE Wider(r[n], deps) # r[n]
        <3>1. Cardinality(r[n]) >= n
            BY <2>3
        <3>2. r[n] \subseteq r[n + 1]
            BY <2>1, WiderAdds
        <3>3. /\ IsFiniteSet(r[n + 1]) /\ Cardinality(r[n + 1]) \in Nat
              /\ Cardinality(r[n]) \in Nat
            BY <1>3, <2>1
        <3>4. Cardinality(r[n]) <= Cardinality(r[n + 1]) /\ Cardinality(r[n]) # Cardinality(r[n + 1])
            BY <2>1, <2>3, <3>2, <3>3, FS_Subset
        <3> QED
            BY <3>1, <3>3, <3>4
    <2> QED
        BY <2>2, <2>3
<1> HIDE DEF T
<1>6. Nat \subseteq T
    BY <1>4, <1>5, SetInduction
<1>7. Cardinality(r[N]) >= N \/ Wider(r[N], deps) = r[N]
    BY <1>6 DEF T
<1>8. r[N] \in SUBSET Digest
    BY <1>2
<1>9. ASSUME Cardinality(r[N]) >= N PROVE Wider(r[N], deps) = r[N]
    <2>1. Cardinality(r[N]) \in Nat /\ Cardinality(r[N]) <= N
        BY <1>1, <1>3, <1>8, FS_Subset
    <2>2. Cardinality(Digest) = Cardinality(r[N])
        BY <1>1, <1>9, <2>1
    <2>3. r[N] = Digest
        BY <1>8, <2>2, FS_Subset
    <2>4. r[N] \subseteq Wider(r[N], deps) /\ Wider(r[N], deps) \subseteq Digest
        BY <1>8, WiderAdds
    <2> QED
        BY <2>3, <2>4
<1> QED
    BY <1>1, <1>7, <1>9

\* Closure is the least set that holds S and, with a digest, what it names.
LEMMA ClosureIsLeast ==
    ASSUME NEW S \in SUBSET Digest, NEW deps \in [Digest -> SUBSET Digest]
    PROVE  /\ S \subseteq Closure(S, deps) /\ Closure(S, deps) \subseteq Digest
           /\ \A d \in Closure(S, deps) : deps[d] \subseteq Closure(S, deps)
           /\ \A V : /\ S \subseteq V
                     /\ \A d \in V \cap Closure(S, deps) : deps[d] \subseteq V
                     => Closure(S, deps) \subseteq V
<1>1. IsFiniteSet(Digest) /\ Cardinality(Digest) \in Nat
    BY FiniteAssumption, FS_CardinalityType
<1>2. PICK r : IsChain(r, Cardinality(Digest), S, deps)
               /\ Closure(S, deps) = r[Cardinality(Digest)]
    BY <1>1, ClosureIsChain
<1>3. PICK N \in Nat : N = Cardinality(Digest)
    BY <1>1
<1>4. PICK R : R = Closure(S, deps)
    OBVIOUS
<1>5. /\ r[0] = S
      /\ \A n \in Nat : n + 1 <= N => r[n + 1] = Wider(r[n], deps)
      /\ \A n \in 0 .. N : r[n] \in SUBSET Digest
    <2>1. IsChain(r, N, S, deps)
        BY <1>2, <1>3
    <2> QED
        BY <2>1, ChainTypes
<1>6. R = r[N] /\ R \in SUBSET Digest /\ Wider(R, deps) = R
    BY <1>1, <1>2, <1>3, <1>4, <1>5, ChainEnds
<1>7. \A d \in R : deps[d] \subseteq R
    BY <1>6, WiderAdds
<1>8. \A n \in 0 .. N : r[n] \subseteq R
    <2> DEFINE Under(i) == r[N - i] \subseteq R
               T == {i \in Nat : i <= N => Under(i)}
    <2>1. Under(0)
        BY <1>6
    <2>2. ASSUME NEW i \in Nat, Under(i), i + 1 <= N PROVE Under(i + 1)
        <3>1. PICK n \in Nat : n = N - (i + 1)
            BY <2>2
        <3>2. n + 1 = N - i /\ n + 1 <= N /\ n \in 0 .. N
            BY <3>1
        <3>3. r[n + 1] \subseteq R /\ r[n + 1] = Wider(r[n], deps) /\ r[n] \in SUBSET Digest
            BY <1>5, <2>2, <3>2
        <3>4. r[n] \subseteq Wider(r[n], deps)
            BY <3>3, WiderAdds
        <3> QED
            BY <3>1, <3>3, <3>4
    <2> HIDE DEF Under
    <2>3. 0 \in T /\ \A i \in Nat : i \in T => i + 1 \in T
        BY <2>1, <2>2
    <2> HIDE DEF T
    <2>4. Nat \subseteq T
        BY <2>3, SetInduction
    <2> SUFFICES ASSUME NEW n \in 0 .. N PROVE r[n] \subseteq R
        OBVIOUS
    <2>5. N - n \in Nat /\ N - n <= N /\ N - (N - n) = n
        OBVIOUS
    <2>6. Under(N - n)
        BY <2>4, <2>5 DEF T
    <2> QED
        BY <2>5, <2>6 DEF Under
<1>9. ASSUME NEW V, S \subseteq V,
             \A d \in V \cap R : deps[d] \subseteq V
      PROVE  R \subseteq V
    <2> DEFINE T == {n \in Nat : n <= N => r[n] \subseteq V}
    <2>1. 0 \in T
        BY <1>5, <1>9
    <2>2. \A n \in Nat : n \in T => n + 1 \in T
        <3> SUFFICES ASSUME NEW n \in Nat, n \in T, n + 1 <= N PROVE r[n + 1] \subseteq V
            OBVIOUS
        <3>1. /\ r[n] \subseteq V /\ r[n + 1] = Wider(r[n], deps) /\ r[n] \in SUBSET Digest
              /\ r[n] \subseteq R
            BY <1>5, <1>8
        <3>2. \A d \in r[n] : deps[d] \subseteq V
            BY <1>9, <3>1
        <3>3. Wider(r[n], deps) \subseteq V
            <4>1. \A W : r[n] \subseteq W /\ (\A d \in r[n] : deps[d] \subseteq W)
                            => Wider(r[n], deps) \subseteq W
                BY <3>1, WiderAdds
            <4> QED
                BY <3>1, <3>2, <4>1
        <3> QED
            BY <3>1, <3>3
    <2> HIDE DEF T
    <2>3. Nat \subseteq T
        BY <2>1, <2>2, SetInduction
    <2> QED
        BY <1>6, <2>3 DEF T
<1>10. S \subseteq R
    BY <1>5, <1>8
<1> QED
    BY <1>4, <1>6, <1>7, <1>9, <1>10

-----------------------------------------------------------------------------
(***************************************************************************)
(* What a transaction does to the tables.                                  *)
(***************************************************************************)

\* f is the run that Applying defines, up to k.
IsRun(f, k, t, acts) ==
    f = [i \in 0 .. k |-> IF i = 0 THEN [tables |-> t, panics |-> FALSE]
                          ELSE ApplyNext(f[i - 1], acts[i])]

LEMMA RunExists ==
    ASSUME NEW k \in Nat, NEW t, NEW acts
    PROVE  \E f : IsRun(f, k, t, acts)
<1> DEFINE T == {n \in Nat : \E f : IsRun(f, n, t, acts)}
<1>1. 0 \in T
    <2>1. IsRun([n \in 0 .. 0 |-> [tables |-> t, panics |-> FALSE]], 0, t, acts)
        BY DEF IsRun
    <2> QED
        BY <2>1
<1>2. ASSUME NEW n \in Nat, n \in T PROVE n + 1 \in T
    <2>1. PICK f : IsRun(f, n, t, acts)
        BY <1>2
    <2> DEFINE q == [i \in 0 .. n + 1 |-> IF i = n + 1 THEN ApplyNext(f[n], acts[n + 1]) ELSE f[i]]
    <2>2. ASSUME NEW i \in 0 .. n + 1
          PROVE  q[i] = IF i = 0 THEN [tables |-> t, panics |-> FALSE]
                        ELSE ApplyNext(q[i - 1], acts[i])
        <3>1. CASE i = n + 1
            <4>1. q[i] = ApplyNext(f[n], acts[n + 1]) /\ q[i - 1] = f[n] /\ i # 0
                BY <3>1
            <4> QED
                BY <3>1, <4>1
        <3>2. CASE i # n + 1
            <4>1. i \in 0 .. n /\ q[i] = f[i]
                BY <3>2
            <4>2. f[i] = IF i = 0 THEN [tables |-> t, panics |-> FALSE]
                         ELSE ApplyNext(f[i - 1], acts[i])
                BY <2>1, <4>1 DEF IsRun
            <4>3. i # 0 => q[i - 1] = f[i - 1]
                BY <3>2
            <4> QED
                BY <4>1, <4>2, <4>3
        <3> QED
            BY <3>1, <3>2
    <2>3. q = [i \in 0 .. n + 1 |-> q[i]]
        OBVIOUS
    <2> HIDE DEF q
    <2>4. IsRun(q, n + 1, t, acts)
        BY <2>2, <2>3 DEF IsRun
    <2> QED
        BY <2>4
<1> HIDE DEF T
<1>3. Nat \subseteq T
    BY <1>1, <1>2, SetInduction
<1> QED
    BY <1>3 DEF T

LEMMA ApplyingIsRun ==
    ASSUME NEW t, NEW acts, Len(acts) \in Nat
    PROVE  \E f : /\ f[0] = [tables |-> t, panics |-> FALSE]
                  /\ \A i \in Nat : i + 1 <= Len(acts) => f[i + 1] = ApplyNext(f[i], acts[i + 1])
                  /\ Applying(t, acts) = f[Len(acts)]
<1> DEFINE f == CHOOSE g : IsRun(g, Len(acts), t, acts)
<1>1. IsRun(f, Len(acts), t, acts)
    BY RunExists
<1>2. Applying(t, acts) = f[Len(acts)]
    BY DEF Applying, IsRun
<1> HIDE DEF f
<1>3. \A i \in 0 .. Len(acts) : f[i] = IF i = 0 THEN [tables |-> t, panics |-> FALSE]
                                       ELSE ApplyNext(f[i - 1], acts[i])
    BY <1>1 DEF IsRun
<1>4. ASSUME NEW i \in Nat, i + 1 <= Len(acts) PROVE f[i + 1] = ApplyNext(f[i], acts[i + 1])
    <2>1. i + 1 \in 0 .. Len(acts) /\ i + 1 # 0 /\ (i + 1) - 1 = i
        BY <1>4
    <2> QED
        BY <1>3, <2>1
<1>5. f[0] = [tables |-> t, panics |-> FALSE]
    <2>1. 0 \in 0 .. Len(acts)
        OBVIOUS
    <2> QED
        BY <1>3, <2>1, Zenon
<1> QED
    BY <1>2, <1>4, <1>5

\* An action is the record of its fields.
LEMMA ActionFields ==
    ASSUME NEW a \in Action
    PROVE  /\ a.type \in RowActionType => a.key \in Key
           /\ a.type = "Stored" => a = Storing(a.key, a.location) /\ a.location \in Node
           /\ a.type = "Unstored" => a = Unstoring(a.key, a.location) /\ a.location \in Node
           /\ a.type = "Mounted" => a.repository \in Repository /\ a.timestamp \in Timestamp
           /\ a.type = "Unmounted" => a.repository \in Repository
           /\ a.type = "Info" => a.dependencies \in SUBSET Digest
           /\ a.type = "HashTagged" =>
                 a.digest \in Digest /\ a.repository \in Repository /\ a.tag \in Tag
           /\ a.type = "Membership" => a.members \in SUBSET Node
BY DEF Action, RowAction, OtherAction, RowActionType, Storing, Unstoring

\* Every arm of the match leaves a row, or none.
LEMMA RowAfterType ==
    ASSUME NEW a \in Action, a.type \in RowActionType, NEW r \in Row \cup {NoRow}
    PROVE  RowAfter(r, a) \in Row \cup {NoRow}
<1>1. CASE a.type = "Stored"
    BY <1>1, ActionFields DEF RowAfter, Stored, Row
<1>2. CASE a.type = "Unstored"
    BY <1>2, ActionFields DEF RowAfter, Unstored, Row
<1>3. CASE a.type = "Mounted"
    <2>1. a.repository \in Repository /\ a.timestamp \in Timestamp
        BY <1>3, ActionFields
    <2>2. CASE r = NoRow
        <3>1. RowAfter(r, a) = [created |-> a.timestamp, typed |-> FALSE, sized |-> FALSE,
                                dependencies |-> {}, repositories |-> {a.repository},
                                locations |-> {}]
            BY <1>3, <2>2 DEF RowAfter, Mounted, FreshRow
        <3> QED
            BY <2>1, <3>1 DEF Row
    <2>3. CASE r # NoRow
        <3>1. RowAfter(r, a) = [r EXCEPT !.repositories = @ \cup {a.repository}]
            BY <1>3, <2>3 DEF RowAfter, Mounted
        <3> QED
            BY <2>1, <2>3, <3>1 DEF Row
    <2> QED
        BY <2>2, <2>3
<1>4. CASE a.type = "Unmounted"
    BY <1>4, ActionFields DEF RowAfter, Unmounted, Row
<1>5. CASE a.type = "Info"
    BY <1>5, ActionFields DEF RowAfter, Info, Row
<1>6. CASE a.type = "Stat"
    BY <1>6 DEF RowAfter, Stat, Row
<1> QED
    BY <1>1, <1>2, <1>3, <1>4, <1>5, <1>6 DEF RowActionType

\* The tables after one action, row by row and tag by tag.
LEMMA ApplyFacts ==
    ASSUME NEW t \in Tables, NEW a \in Action
    PROVE  /\ ApplyAction(t, a) \in Tables
           /\ a.type \in RowActionType =>
                 /\ a.key \in Key /\ ApplyAction(t, a).row[a.key] = RowAfter(t.row[a.key], a)
                 /\ \A k \in Key \ {a.key} : ApplyAction(t, a).row[k] = t.row[k]
                 /\ ApplyAction(t, a).tag = t.tag
           /\ a.type \notin RowActionType => ApplyAction(t, a).row = t.row
           /\ \A u \in TagKey :
                 \/ ApplyAction(t, a).tag[u] = t.tag[u]
                 \/ a.type = "HashTagged" /\ ApplyAction(t, a).tag[u] = a.digest
<1>1. CASE a.type \in RowActionType
    <2>1. a.key \in Key /\ RowAfter(t.row[a.key], a) \in Row \cup {NoRow}
        BY <1>1, ActionFields, RowAfterType DEF Tables
    <2>2. ApplyAction(t, a) = [t EXCEPT !.row[a.key] = RowAfter(@, a)]
        BY <1>1 DEF ApplyAction, RowActionType
    <2> HIDE DEF RowAfter
    <2> QED
        BY <1>1, <2>1, <2>2 DEF Tables, RowActionType
<1>2. CASE a.type = "HashTagged"
    <2>1. <<a.repository, a.tag>> \in TagKey /\ a.digest \in Digest
        BY <1>2, ActionFields DEF TagKey
    <2>2. ApplyAction(t, a) = [t EXCEPT !.tag[<<a.repository, a.tag>>] = a.digest]
        BY <1>2 DEF ApplyAction, RowActionType
    <2> QED
        BY <1>2, <2>1, <2>2 DEF Tables, RowActionType
<1>3. CASE a.type = "Membership"
    <2>1. ApplyAction(t, a) = [t EXCEPT !.membership = a.members]
        BY <1>3 DEF ApplyAction, RowActionType
    <2> QED
        BY <1>3, <2>1, ActionFields DEF Tables, RowActionType
<1>4. CASE a.type \notin RowActionType \cup {"HashTagged", "Membership"}
    BY <1>4 DEF ApplyAction, RowActionType
<1> QED
    BY <1>1, <1>2, <1>3, <1>4

\* The actions among the first i.
Before(acts, i) == {acts[j] : j \in 1 .. i}

Names(B, type, k) == \E a \in B : a.type = type /\ a.key = k

\* What a row r0 has become by actions B, none of which takes a location away.
GrownRow(r0, r, k, B) ==
    /\ r0 # NoRow => r # NoRow /\ (r0.typed => r.typed)
    /\ r0 # NoRow /\ Names(B, "Info", k) => r.typed
    /\ Names(B, "Mounted", k) => r # NoRow
    /\ r # NoRow /\ r0 = NoRow => Names(B, "Mounted", k)
    /\ r # NoRow /\ r.typed => (r0 # NoRow /\ r0.typed) \/ Names(B, "Info", k)
    /\ r # NoRow => \A n \in r.locations : (r0 # NoRow /\ n \in r0.locations) \/ Storing(k, n) \in B
    /\ r0 # NoRow => r0.locations \subseteq r.locations
    /\ r # NoRow =>
          \/ r.dependencies = {}
          \/ r0 # NoRow /\ r.dependencies = r0.dependencies
          \/ \E a \in B : a.type = "Info" /\ a.key = k /\ a.dependencies = r.dependencies

NewTags(t0, t, B) ==
    \A u \in TagKey : t.tag[u] = t0.tag[u] \/ \E a \in B : a.type = "HashTagged" /\ a.digest = t.tag[u]

Grown(t0, t, B) ==
    /\ t \in Tables
    /\ \A k \in Key : GrownRow(t0.row[k], t.row[k], k, B)
    /\ NewTags(t0, t, B)

\* Another action of its own row, and one that is not about the row.
LEMMA GrownRowStep ==
    ASSUME NEW r0 \in Row \cup {NoRow}, NEW r \in Row \cup {NoRow}, NEW B, NEW a \in Action,
           a.type \in RowActionType \ {"Unstored"}, ~Panics(r, a), GrownRow(r0, r, a.key, B)
    PROVE  GrownRow(r0, RowAfter(r, a), a.key, B \cup {a})
<1>1. CASE a.type = "Stored"
    <2>1. RowAfter(r, a) = [r EXCEPT !.locations = @ \cup {a.location}] /\ r # NoRow
        BY <1>1 DEF RowAfter, Stored, Panics
    <2>2. a = Storing(a.key, a.location) /\ RowAfter(r, a) \in Row
        BY <1>1, <2>1, ActionFields DEF Row
    <2>3. /\ RowAfter(r, a) # NoRow /\ RowAfter(r, a).locations = r.locations \cup {a.location}
          /\ RowAfter(r, a).typed = r.typed /\ RowAfter(r, a).dependencies = r.dependencies
        BY <2>1, <2>2, NoRowAssumption DEF Row
    <2>4. \A type \in {"Info", "Mounted"} : Names(B \cup {a}, type, a.key) <=> Names(B, type, a.key)
        BY <1>1 DEF Names
    <2> QED
        BY <2>1, <2>2, <2>3, <2>4 DEF GrownRow
<1>2. CASE a.type = "Mounted"
    <2>1. CASE r = NoRow
        <3>1. RowAfter(r, a) = [created |-> a.timestamp, typed |-> FALSE, sized |-> FALSE,
                                dependencies |-> {}, repositories |-> {a.repository},
                                locations |-> {}]
            BY <1>2, <2>1 DEF RowAfter, Mounted, FreshRow
        <3>2. RowAfter(r, a) \in Row
            BY <1>2, <3>1, ActionFields DEF Row
        <3>3. /\ RowAfter(r, a) # NoRow /\ RowAfter(r, a).locations = {}
              /\ ~RowAfter(r, a).typed /\ RowAfter(r, a).dependencies = {}
            <4>1. RowAfter(r, a) # NoRow
                BY <3>2, NoRowAssumption
            <4>2. RowAfter(r, a).locations = {} /\ RowAfter(r, a).dependencies = {}
                BY <3>1
            <4>3. RowAfter(r, a).typed = FALSE
                BY <3>1
            <4> QED
                BY <4>1, <4>2, <4>3
        <3>4. r0 = NoRow
            BY <2>1 DEF GrownRow
        <3> QED
            BY <1>2, <3>3, <3>4 DEF GrownRow, Names
    <2>2. CASE r # NoRow
        <3>1. RowAfter(r, a) = [r EXCEPT !.repositories = @ \cup {a.repository}]
            BY <1>2, <2>2 DEF RowAfter, Mounted
        <3>2. RowAfter(r, a) \in Row
            BY <1>2, <2>2, <3>1, ActionFields DEF Row
        <3> QED
            BY <1>2, <2>2, <3>1, <3>2, NoRowAssumption DEF GrownRow, Names, Row
    <2> QED
        BY <2>1, <2>2
<1>3. CASE a.type = "Unmounted"
    BY <1>3, NoRowAssumption DEF RowAfter, Unmounted, GrownRow, Names, Row
<1>4. CASE a.type = "Info"
    <2>1. CASE r = NoRow
        BY <1>4, <2>1 DEF RowAfter, Info, GrownRow, Names
    <2>2. CASE r # NoRow
        <3>1. /\ RowAfter(r, a) = [r EXCEPT !.dependencies = a.dependencies, !.typed = TRUE]
              /\ a.dependencies \in SUBSET Digest
            BY <1>4, <2>2, ActionFields DEF RowAfter, Info
        <3>2. /\ RowAfter(r, a) \in Row /\ RowAfter(r, a).typed = TRUE
              /\ RowAfter(r, a).dependencies = a.dependencies
              /\ RowAfter(r, a).locations = r.locations
            BY <2>2, <3>1 DEF Row
        <3> QED
            BY <1>4, <2>2, <3>2, NoRowAssumption DEF GrownRow, Names
    <2> QED
        BY <2>1, <2>2
<1>5. CASE a.type = "Stat"
    <2>1. CASE r = NoRow
        BY <1>5, <2>1 DEF RowAfter, Stat, GrownRow, Names
    <2>2. CASE r # NoRow
        <3>1. RowAfter(r, a) = [r EXCEPT !.sized = TRUE]
            BY <1>5, <2>2 DEF RowAfter, Stat
        <3>2. /\ RowAfter(r, a) \in Row /\ RowAfter(r, a).typed = r.typed
              /\ RowAfter(r, a).dependencies = r.dependencies
              /\ RowAfter(r, a).locations = r.locations
            BY <2>2, <3>1 DEF Row
        <3> QED
            BY <1>5, <2>2, <3>2, NoRowAssumption DEF GrownRow, Names
    <2> QED
        BY <2>1, <2>2
<1> QED
    BY <1>1, <1>2, <1>3, <1>4, <1>5 DEF RowActionType

LEMMA GrownRowOther ==
    ASSUME NEW r0, NEW r, NEW k \in Key, NEW B, NEW a \in Action,
           a.type \notin RowActionType \/ a.key # k, GrownRow(r0, r, k, B)
    PROVE  GrownRow(r0, r, k, B \cup {a})
<1>1. \A type \in {"Info", "Mounted"} : Names(B \cup {a}, type, k) <=> Names(B, type, k)
    BY DEF Names, RowActionType
<1>2. \A n : Storing(k, n) \in B => Storing(k, n) \in B \cup {a}
    OBVIOUS
<1> QED
    BY <1>1, <1>2 DEF GrownRow

LEMMA GrownStep ==
    ASSUME NEW t0 \in Tables, NEW t, NEW B, NEW a \in Action, Grown(t0, t, B),
           a.type # "Unstored", ~PanicsOn(t, a)
    PROVE  Grown(t0, ApplyAction(t, a), B \cup {a})
<1> DEFINE t1 == ApplyAction(t, a)
<1>1. t \in Tables
    BY DEF Grown
<1>2. /\ t1 \in Tables
      /\ a.type \in RowActionType =>
            /\ a.key \in Key /\ t1.row[a.key] = RowAfter(t.row[a.key], a)
            /\ \A k \in Key \ {a.key} : t1.row[k] = t.row[k]
            /\ t1.tag = t.tag
      /\ a.type \notin RowActionType => t1.row = t.row
      /\ \A u \in TagKey : t1.tag[u] = t.tag[u] \/ (a.type = "HashTagged" /\ t1.tag[u] = a.digest)
    BY <1>1, ApplyFacts
<1> HIDE DEF t1
<1>3. NewTags(t0, t1, B \cup {a})
    BY <1>2 DEF Grown, NewTags
<1>4. ASSUME NEW k \in Key PROVE GrownRow(t0.row[k], t1.row[k], k, B \cup {a})
    <2>1. GrownRow(t0.row[k], t.row[k], k, B) /\ t0.row[k] \in Row \cup {NoRow}
          /\ t.row[k] \in Row \cup {NoRow}
        BY <1>1 DEF Grown, Tables
    <2>2. CASE a.type \in RowActionType /\ a.key = k
        <3>1. ~Panics(t.row[k], a)
            BY <2>2 DEF PanicsOn
        <3> QED
            BY <1>2, <2>1, <2>2, <3>1, GrownRowStep
    <2>3. CASE ~(a.type \in RowActionType /\ a.key = k)
        <3>1. t1.row[k] = t.row[k]
            BY <1>2, <2>3
        <3> QED
            BY <2>1, <2>3, <3>1, GrownRowOther
    <2> QED
        BY <2>2, <2>3
<1> QED
    BY <1>2, <1>3, <1>4 DEF Grown, t1

\* A transaction that takes no location away.
LEMMA GrownRun ==
    ASSUME NEW t0 \in Tables, NEW acts \in Seq(Action),
           \A i \in DOMAIN acts : acts[i].type # "Unstored"
    PROVE  /\ Applying(t0, acts).panics \in BOOLEAN
           /\ ~Applying(t0, acts).panics => Grown(t0, Applying(t0, acts).tables, Range(acts))
           /\ (\A i \in DOMAIN acts : acts[i].type = "Stored" =>
                  \E j \in 1 .. i - 1 : acts[j].type = "Mounted" /\ acts[j].key = acts[i].key)
              => ~Applying(t0, acts).panics
<1> DEFINE N == Len(acts)
<1>1. N \in Nat /\ DOMAIN acts = 1 .. N
    OBVIOUS
<1>2. PICK f : /\ f[0] = [tables |-> t0, panics |-> FALSE]
               /\ \A i \in Nat : i + 1 <= N => f[i + 1] = ApplyNext(f[i], acts[i + 1])
               /\ Applying(t0, acts) = f[N]
    BY ApplyingIsRun
<1> HIDE DEF N
<1> DEFINE Safe == \A i \in DOMAIN acts : acts[i].type = "Stored" =>
                      \E j \in 1 .. i - 1 : acts[j].type = "Mounted" /\ acts[j].key = acts[i].key
           Good(i) == /\ f[i] = [tables |-> f[i].tables, panics |-> f[i].panics]
                      /\ f[i].panics \in BOOLEAN
                      /\ ~f[i].panics => Grown(t0, f[i].tables, Before(acts, i))
                      /\ Safe => ~f[i].panics
           T == {i \in Nat : i <= N => Good(i)}
<1>3. Good(0)
    <2>1. Before(acts, 0) = {}
        BY DEF Before
    <2>2. Grown(t0, t0, {})
        BY DEF Grown, GrownRow, NewTags, Names
    <2>3. f[0].tables = t0 /\ f[0].panics = FALSE
        BY <1>2
    <2> HIDE DEF Safe
    <2> QED
        BY <1>2, <2>1, <2>2, <2>3
<1>4. ASSUME NEW i \in Nat, Good(i), i + 1 <= N PROVE Good(i + 1)
    <2>1. PICK a : a = acts[i + 1]
        OBVIOUS
    <2>2. i + 1 \in DOMAIN acts /\ a \in Action /\ a.type # "Unstored"
        BY <1>1, <1>4, <2>1
    <2>3. f[i + 1] = ApplyNext(f[i], a) /\ Before(acts, i + 1) = Before(acts, i) \cup {a}
        <3>1. \A j : j \in 1 .. i + 1 <=> j \in 1 .. i \/ j = i + 1
            OBVIOUS
        <3> QED
            BY <1>2, <1>4, <2>1, <3>1 DEF Before
    <2>4. CASE f[i].panics
        <3>1. f[i + 1] = [tables |-> f[i].tables, panics |-> TRUE]
            BY <1>4, <2>3, <2>4 DEF ApplyNext
        <3> QED
            BY <1>4, <2>4, <3>1
    <2>5. CASE ~f[i].panics /\ PanicsOn(f[i].tables, a)
        <3>1. f[i + 1] = [tables |-> f[i].tables, panics |-> TRUE]
            BY <1>4, <2>3, <2>5 DEF ApplyNext
        <3>2. a.type = "Stored" /\ f[i].tables.row[a.key] = NoRow /\ a.key \in Key
            BY <2>2, <2>5, ActionFields DEF PanicsOn, Panics
        <3>3. ASSUME Safe PROVE FALSE
            <4>1. PICK j \in 1 .. i : acts[j].type = "Mounted" /\ acts[j].key = a.key
                BY <2>1, <2>2, <3>2, <3>3
            <4>2. Names(Before(acts, i), "Mounted", a.key)
                BY <4>1 DEF Names, Before
            <4>3. Grown(t0, f[i].tables, Before(acts, i))
                BY <1>4, <2>5
            <4>4. f[i].tables.row[a.key] # NoRow
                BY <3>2, <4>2, <4>3 DEF Grown, GrownRow
            <4> QED
                BY <3>2, <4>4
        <3> HIDE DEF Safe
        <3> QED
            BY <3>1, <3>3
    <2>6. CASE ~f[i].panics /\ ~PanicsOn(f[i].tables, a)
        <3>1. f[i + 1] = [tables |-> ApplyAction(f[i].tables, a), panics |-> FALSE]
            BY <1>4, <2>3, <2>6 DEF ApplyNext
        <3>2. Grown(t0, f[i].tables, Before(acts, i))
            BY <1>4, <2>6
        <3>3. Grown(t0, ApplyAction(f[i].tables, a), Before(acts, i) \cup {a})
            BY <2>2, <2>6, <3>2, GrownStep
        <3>4. f[i + 1].tables = ApplyAction(f[i].tables, a) /\ f[i + 1].panics = FALSE
            BY <3>1
        <3> HIDE DEF Safe
        <3> QED
            BY <2>3, <3>1, <3>3, <3>4
    <2> QED
        BY <1>4, <2>4, <2>5, <2>6
<1> HIDE DEF Good
<1>5. 0 \in T /\ \A i \in Nat : i \in T => i + 1 \in T
    BY <1>1, <1>3, <1>4
<1> HIDE DEF T
<1>6. Nat \subseteq T
    BY <1>5, SetInduction
<1>7. Good(N)
    BY <1>1, <1>6 DEF T
<1>8. Before(acts, N) = Range(acts)
    BY <1>1 DEF Before, Range
<1> QED
    BY <1>2, <1>7, <1>8 DEF Good

\* What a row r0 has become by actions B, all of which take a location away: it
\* goes with its last location.
ShrunkRow(r0, r, k, B) ==
    /\ r # NoRow =>
          /\ r0 # NoRow /\ r.typed = r0.typed /\ r.dependencies = r0.dependencies
          /\ r.locations = {n \in r0.locations : Unstoring(k, n) \notin B}
    /\ r = NoRow /\ r0 # NoRow =>
          /\ \E n \in Node : Unstoring(k, n) \in B
          /\ \A n \in r0.locations : Unstoring(k, n) \in B

Shrunk(t0, t, B) ==
    /\ t \in Tables /\ t.tag = t0.tag
    /\ \A k \in Key : ShrunkRow(t0.row[k], t.row[k], k, B)

LEMMA ShrunkStep ==
    ASSUME NEW t0 \in Tables, NEW t, NEW B, NEW a \in Action, Shrunk(t0, t, B),
           a.type = "Unstored"
    PROVE  Shrunk(t0, ApplyAction(t, a), B \cup {a}) /\ ~PanicsOn(t, a)
<1> DEFINE t1 == ApplyAction(t, a)
<1>1. t \in Tables
    BY DEF Shrunk
<1>2. /\ t1 \in Tables
      /\ a.type \in RowActionType =>
            /\ a.key \in Key /\ t1.row[a.key] = RowAfter(t.row[a.key], a)
            /\ \A k \in Key \ {a.key} : t1.row[k] = t.row[k]
            /\ t1.tag = t.tag
    BY <1>1, ApplyFacts
<1>3. /\ t1 \in Tables /\ a.key \in Key /\ t1.row[a.key] = Unstored(t.row[a.key], a.location)
      /\ \A k \in Key \ {a.key} : t1.row[k] = t.row[k]
      /\ t1.tag = t.tag
    BY <1>2 DEF RowActionType, RowAfter
<1>4. a = Unstoring(a.key, a.location) /\ a.location \in Node
    BY ActionFields
<1> HIDE DEF t1
<1>5. ASSUME NEW k \in Key PROVE ShrunkRow(t0.row[k], t1.row[k], k, B \cup {a})
    <2>1. ShrunkRow(t0.row[k], t.row[k], k, B) /\ t0.row[k] \in Row \cup {NoRow}
          /\ t.row[k] \in Row \cup {NoRow}
        BY <1>1 DEF Shrunk, Tables
    <2>2. \A n : Unstoring(k, n) = a <=> k = a.key /\ n = a.location
        BY <1>4 DEF Unstoring
    <2>3. CASE k # a.key
        <3>1. t1.row[k] = t.row[k] /\ \A n : Unstoring(k, n) \in B \cup {a} <=> Unstoring(k, n) \in B
            BY <1>3, <2>2, <2>3
        <3> QED
            BY <2>1, <3>1 DEF ShrunkRow
    <2>4. CASE k = a.key
        <3>1. t1.row[k] = Unstored(t.row[k], a.location)
            BY <1>3, <2>4
        <3>2. \A n : Unstoring(k, n) \in B \cup {a} <=> Unstoring(k, n) \in B \/ n = a.location
            BY <2>2, <2>4
        <3>3. CASE t.row[k] = NoRow \/ t.row[k].locations \subseteq {a.location}
            <4>1. t1.row[k] = NoRow
                BY <3>1, <3>3 DEF Unstored
            <4> QED
                BY <1>4, <2>1, <3>2, <3>3, <4>1 DEF ShrunkRow
        <3>4. CASE ~(t.row[k] = NoRow \/ t.row[k].locations \subseteq {a.location})
            <4>1. t1.row[k] = [t.row[k] EXCEPT !.locations = @ \ {a.location}] /\ t.row[k] \in Row
                BY <2>1, <3>1, <3>4 DEF Unstored
            <4>2. /\ t1.row[k] \in Row /\ t1.row[k].locations = t.row[k].locations \ {a.location}
                  /\ t1.row[k].typed = t.row[k].typed
                  /\ t1.row[k].dependencies = t.row[k].dependencies
                BY <4>1 DEF Row
            <4> QED
                BY <2>1, <3>2, <3>4, <4>2, NoRowAssumption DEF ShrunkRow
        <3> QED
            BY <3>3, <3>4
    <2> QED
        BY <2>3, <2>4
<1>6. ~PanicsOn(t, a)
    BY DEF PanicsOn, Panics
<1> QED
    BY <1>3, <1>5, <1>6 DEF Shrunk, t1

\* A transaction of a sweep or of fsck.
LEMMA ShrunkRun ==
    ASSUME NEW t0 \in Tables, NEW acts \in Seq(Action),
           \A i \in DOMAIN acts : acts[i].type = "Unstored"
    PROVE  ~Applying(t0, acts).panics /\ Shrunk(t0, Applying(t0, acts).tables, Range(acts))
<1> DEFINE N == Len(acts)
<1>1. N \in Nat /\ DOMAIN acts = 1 .. N
    OBVIOUS
<1>2. PICK f : /\ f[0] = [tables |-> t0, panics |-> FALSE]
               /\ \A i \in Nat : i + 1 <= N => f[i + 1] = ApplyNext(f[i], acts[i + 1])
               /\ Applying(t0, acts) = f[N]
    BY ApplyingIsRun
<1> HIDE DEF N
<1> DEFINE Good(i) == /\ f[i] = [tables |-> f[i].tables, panics |-> f[i].panics]
                      /\ f[i].panics \in BOOLEAN /\ ~f[i].panics
                      /\ Shrunk(t0, f[i].tables, Before(acts, i))
           T == {i \in Nat : i <= N => Good(i)}
<1>3. Good(0)
    <2>1. Before(acts, 0) = {}
        BY DEF Before
    <2>2. Shrunk(t0, t0, {})
        BY DEF Shrunk, ShrunkRow
    <2>3. f[0].tables = t0 /\ f[0].panics = FALSE
        BY <1>2
    <2> QED
        BY <1>2, <2>1, <2>2, <2>3
<1>4. ASSUME NEW i \in Nat, Good(i), i + 1 <= N PROVE Good(i + 1)
    <2>1. PICK a : a = acts[i + 1]
        OBVIOUS
    <2>2. i + 1 \in DOMAIN acts /\ a \in Action /\ a.type = "Unstored"
        BY <1>1, <1>4, <2>1
    <2>3. f[i + 1] = ApplyNext(f[i], a) /\ Before(acts, i + 1) = Before(acts, i) \cup {a}
        <3>1. \A j : j \in 1 .. i + 1 <=> j \in 1 .. i \/ j = i + 1
            OBVIOUS
        <3> QED
            BY <1>2, <1>4, <2>1, <3>1 DEF Before
    <2>4. Shrunk(t0, ApplyAction(f[i].tables, a), Before(acts, i) \cup {a}) /\ ~PanicsOn(f[i].tables, a)
        BY <1>4, <2>2, ShrunkStep
    <2>5. f[i + 1] = [tables |-> ApplyAction(f[i].tables, a), panics |-> FALSE]
        BY <1>4, <2>3, <2>4 DEF ApplyNext
    <2>6. f[i + 1].tables = ApplyAction(f[i].tables, a) /\ f[i + 1].panics = FALSE
        BY <2>5
    <2> QED
        BY <2>3, <2>4, <2>5, <2>6
<1> HIDE DEF Good
<1>5. 0 \in T /\ \A i \in Nat : i \in T => i + 1 \in T
    BY <1>1, <1>3, <1>4
<1> HIDE DEF T
<1>6. Nat \subseteq T
    BY <1>5, SetInduction
<1>7. Good(N)
    BY <1>1, <1>6 DEF T
<1>8. Before(acts, N) = Range(acts)
    BY <1>1 DEF Before, Range
<1>9. ~f[N].panics
    BY <1>7 DEF Good
<1> QED
    BY <1>2, <1>7, <1>8, <1>9 DEF Good

-----------------------------------------------------------------------------
(***************************************************************************)
(* What objects and tags lead to.                                          *)
(***************************************************************************)
LEMMA ContentType ==
    /\ Content \in [Digest -> SUBSET Digest]
    /\ \A d \in Digest : Content[d] = DigestsIn(Found[d]) /\ Found[d] \in SUBSET Extraction
BY FoundAssumption DEF Content, DigestsIn, Extraction

LEMMA BelowFacts ==
    ASSUME NEW d \in Digest
    PROVE  /\ Content[d] \subseteq Below[d] /\ Below[d] \subseteq Digest
           /\ \A e \in Below[d] : Content[e] \subseteq Below[d]
           /\ \A V : /\ Content[d] \subseteq V
                     /\ \A e \in V \cap Below[d] : Content[e] \subseteq V
                     => Below[d] \subseteq V
<1>1. Content \in [Digest -> SUBSET Digest] /\ Content[d] \in SUBSET Digest
    BY ContentType
<1>2. Below[d] = Closure(Content[d], Content)
    BY DEF Below
<1> QED
    BY <1>1, <1>2, ClosureIsLeast

LEMMA BelowBelow ==
    ASSUME NEW d \in Digest, NEW e \in Below[d]
    PROVE  e \in Digest /\ Below[e] \subseteq Below[d]
<1>1. e \in Digest
    BY BelowFacts
<1>2. Content[e] \subseteq Below[d] /\ \A c \in Below[d] : Content[c] \subseteq Below[d]
    BY BelowFacts
<1> QED
    BY <1>1, <1>2, BelowFacts

LEMMA KeyFacts ==
    /\ \A d \in Digest : BlobOf(d) \in Key /\ ImageOf(d) \in Key
    /\ \A d : BlobOf(d)[1] = "blob" /\ BlobOf(d)[2] = d
    /\ \A d : ImageOf(d)[1] = "manifest" /\ ImageOf(d)[2] = d
    /\ \A k \in Key : k[2] \in Digest /\ (k[1] = "blob" => k = BlobOf(k[2]))
                      /\ (k[1] # "blob" => k[1] = "manifest" /\ k = ImageOf(k[2]))
BY DEF BlobOf, ImageOf, Key, Kind

\* The dependencies, tags and all they lead to, of any tables.
DepsIn(t, k) == IF t.row[k] # NoRow THEN t.row[k].dependencies ELSE {}

TaggedIn(t) == {ImageOf(t.tag[u]) : u \in {v \in TagKey : t.tag[v] # NoDigest}}

VisitedIn(t, images) ==
    Closure(UNION {DepsIn(t, k) : k \in images}, [d \in Digest |-> DepsIn(t, BlobOf(d))])

ReachedIn(t) == TaggedIn(t) \cup {BlobOf(d) : d \in VisitedIn(t, TaggedIn(t))}

LEMMA ReachedIsIn ==
    /\ Reached = ReachedIn(tables) /\ Reached' = ReachedIn(tables')
    /\ \A k : DependenciesOf(k) = DepsIn(tables, k) /\ DependenciesOf(k)' = DepsIn(tables', k)
    /\ \A images : Visited(images) = VisitedIn(tables, images)
    /\ Tagged = TaggedIn(tables)
BY DEF Reached, ReachedIn, Tagged, TaggedIn, Visited, VisitedIn, DependenciesOf, DepsIn,
       Present, row

LEMMA DepsType ==
    ASSUME NEW t \in Tables
    PROVE  /\ \A k \in Key : DepsIn(t, k) \in SUBSET Digest
           /\ [d \in Digest |-> DepsIn(t, BlobOf(d))] \in [Digest -> SUBSET Digest]
           /\ TaggedIn(t) \subseteq Key
           /\ \A m \in TaggedIn(t) : m[1] = "manifest"
<1>1. \A k \in Key : DepsIn(t, k) \in SUBSET Digest
    BY DEF DepsIn, Tables, Row
<1>2. [d \in Digest |-> DepsIn(t, BlobOf(d))] \in [Digest -> SUBSET Digest]
    BY <1>1, KeyFacts
<1>3. ASSUME NEW m \in TaggedIn(t) PROVE m \in Key /\ m[1] = "manifest"
    <2>1. PICK u \in TagKey : t.tag[u] # NoDigest /\ m = ImageOf(t.tag[u])
        BY DEF TaggedIn
    <2>2. t.tag[u] \in Digest
        BY <2>1 DEF Tables
    <2> QED
        BY <2>1, <2>2, KeyFacts
<1> QED
    BY <1>1, <1>2, <1>3

LEMMA VisitedFacts ==
    ASSUME NEW t \in Tables, NEW images \in SUBSET Key
    PROVE  /\ VisitedIn(t, images) \subseteq Digest
           /\ \A m \in images : DepsIn(t, m) \subseteq VisitedIn(t, images)
           /\ \A d \in VisitedIn(t, images) : DepsIn(t, BlobOf(d)) \subseteq VisitedIn(t, images)
           /\ \A V : /\ \A m \in images : DepsIn(t, m) \subseteq V
                     /\ \A d \in V \cap VisitedIn(t, images) : DepsIn(t, BlobOf(d)) \subseteq V
                     => VisitedIn(t, images) \subseteq V
<1>1. PICK S : S = UNION {DepsIn(t, k) : k \in images}
    OBVIOUS
<1>2. PICK deps : deps = [d \in Digest |-> DepsIn(t, BlobOf(d))]
    OBVIOUS
<1>3. S \in SUBSET Digest /\ deps \in [Digest -> SUBSET Digest]
    BY <1>1, <1>2, DepsType
<1>4. VisitedIn(t, images) = Closure(S, deps)
    BY <1>1, <1>2 DEF VisitedIn
<1>5. PICK R : R = Closure(S, deps)
    OBVIOUS
<1>6. /\ S \subseteq R /\ R \subseteq Digest
      /\ \A d \in R : deps[d] \subseteq R
      /\ \A V : S \subseteq V /\ (\A d \in V \cap R : deps[d] \subseteq V) => R \subseteq V
    BY <1>3, <1>5, ClosureIsLeast
<1>7. \A d \in Digest : deps[d] = DepsIn(t, BlobOf(d))
    BY <1>2
<1>8. \A m \in images : DepsIn(t, m) \subseteq S
    BY <1>1
<1>9. ASSUME NEW V, \A m \in images : DepsIn(t, m) \subseteq V,
             \A d \in V \cap R : DepsIn(t, BlobOf(d)) \subseteq V
      PROVE  R \subseteq V
    <2>1. S \subseteq V
        BY <1>1, <1>9
    <2> QED
        BY <1>6, <1>7, <1>9, <2>1
<1>10. /\ \A m \in images : DepsIn(t, m) \subseteq R
       /\ \A d \in R : DepsIn(t, BlobOf(d)) \subseteq R
    BY <1>6, <1>7, <1>8
<1> QED
    BY <1>4, <1>5, <1>6, <1>9, <1>10

\* Tags come to lead only to what is pushed, if only that gets dependencies.
LEMMA ReachedGrows ==
    ASSUME NEW t0 \in Tables, NEW t \in Tables, NEW P \in SUBSET Key,
           \A k \in P : \A d \in Content[k[2]] : BlobOf(d) \in P,
           \A k \in Key : DepsIn(t0, k) \subseteq Content[k[2]],
           \A k \in Key : \/ DepsIn(t, k) \subseteq DepsIn(t0, k)
                          \/ k \in P /\ DepsIn(t, k) \subseteq Content[k[2]],
           TaggedIn(t) \subseteq TaggedIn(t0) \cup P
    PROVE  ReachedIn(t) \subseteq ReachedIn(t0) \cup P
<1> DEFINE R0 == VisitedIn(t0, TaggedIn(t0))
           V == {d \in Digest : d \in R0 \/ BlobOf(d) \in P}
<1>1. /\ R0 \subseteq Digest
      /\ \A m \in TaggedIn(t0) : DepsIn(t0, m) \subseteq R0
      /\ \A d \in R0 : DepsIn(t0, BlobOf(d)) \subseteq R0
    BY DepsType, VisitedFacts
<1> HIDE DEF R0
<1>2. TaggedIn(t) \subseteq Key /\ \A k \in Key : DepsIn(t, k) \in SUBSET Digest
    BY DepsType
<1>3. ASSUME NEW k \in Key, k \in P PROVE DepsIn(t, k) \subseteq V
    <2>1. DepsIn(t, k) \subseteq Content[k[2]]
        BY <1>3
    <2> QED
        BY <1>2, <1>3, <2>1
<1>4. ASSUME NEW k \in Key, k \notin P, DepsIn(t0, k) \subseteq R0 PROVE DepsIn(t, k) \subseteq V
    BY <1>1, <1>4
<1>5. \A m \in TaggedIn(t) : DepsIn(t, m) \subseteq V
    BY <1>1, <1>2, <1>3, <1>4
<1>6. ASSUME NEW d \in V PROVE DepsIn(t, BlobOf(d)) \subseteq V
    <2>1. BlobOf(d) \in Key
        BY KeyFacts
    <2>2. BlobOf(d) \in P \/ DepsIn(t0, BlobOf(d)) \subseteq R0
        BY <1>1
    <2> QED
        BY <1>3, <1>4, <2>1, <2>2
<1> HIDE DEF V
<1>7. VisitedIn(t, TaggedIn(t)) \subseteq V
    BY <1>2, <1>5, <1>6, VisitedFacts
<1> QED
    BY <1>7 DEF ReachedIn, V, R0

-----------------------------------------------------------------------------
(***************************************************************************)
(* The inductive invariant.                                                *)
(***************************************************************************)

\* What each kind of task puts into its transaction.
TypesOf(op) ==
    CASE op = "upload"   -> {"Mounted", "Stat", "Stored"}
      [] op = "put"      -> {"Mounted", "Stored", "Stat", "Info", "HashTagged"}
      [] op = "mount"    -> {"Mounted"}
      [] op = "transfer" -> {"Stored"}
      [] op \in Deleter  -> {"Unstored"}
      [] OTHER           -> {"Unmounted"}

\* The action with number i of a transaction.
ActionOK(t, i) ==
    LET a == t.actions[i]
    IN  /\ a.type \in TypesOf(t.op)
        /\ a.type \in {"Mounted", "Stored"} => a.key = t.key
        /\ a.type \in {"Stored", "Unstored"} => a.location = t.node
        /\ a.type = "Info" => a.key \in PushedBy(t) /\ a.dependencies \subseteq Content[a.key[2]]
        /\ a.type = "HashTagged" => a.digest = t.key[2]

\* A task that is running.
ShapeOK(t) ==
    /\ \A i \in DOMAIN t.actions : ActionOK(t, i)
    /\ t.op \in {"upload", "put"} => t.actions # <<>> /\ t.actions[1].type = "Mounted"
    /\ t.op \in {"upload", "mount"} => t.key[1] = "blob"
    /\ t.at = "extract" => t.op = "put"
    /\ t.at = "fetch" => t.op = "transfer"
    /\ t.at \in {"clean_images", "clean_blobs"} => t.op = "sweep2"
    /\ t.at = "check" => t.op = "fsck"
    /\ t.op \in {"upload", "mount"} => t.at = "submit"
    /\ t.op = "put" => t.key[1] = "manifest" /\ \A x \in t.pending : x.digest \in Below[t.key[2]]
    /\ t.op = "put" /\ t.at # "extract" => t.pending = {}

Stores(t, n, k) == Storing(k, n) \in Range(t.actions)

Unstores(t, n, k) == Unstoring(k, n) \in Range(t.actions)

\* What is about to be logged is there.
StoreOK(t) ==
    t.at = "submit" => \A n \in Node, k \in Key :
        Stores(t, n, k) => k \in files[n] \/ <<n, k>> \in crossed

\* The file of what is unlogged will be logged by a sweep, or never.
UnloggedOK ==
    \A n \in Node, k \in Key : <<n, k>> \in unlogged =>
        k \in botched \/ \E t \in RunningTasks : t.op = "sweep2" /\ Unstores(t, n, k)

CrossedOK == \A n \in Node, k \in Key : <<n, k>> \in crossed => k \in botched

\* No row has a dependency that is not in the bytes.
DependenciesOK == \A k \in Key : DependenciesOf(k) \subseteq Content[k[2]]

OverlapOK ==
    \A t, u \in RunningTasks : t.op \in Deleter => PushedBy(u) \subseteq overlapped

\* A deletion takes nothing a tag leads to.
Spared(k) == k \in overlapped \cup botched \/ k \notin Reached

DeleterOK(t) ==
    /\ t.op \in Deleter => \A n \in Node, k \in Key : Unstores(t, n, k) => Spared(k)
    /\ t.op = "sweep2" => \A k \in t.todo : Spared(k)
    /\ t.op = "fsck" =>
          \A k \in t.todo : Spared(k) \/ (Present(k) /\ t.node \in row(k).locations)

\* What a dependency is recorded of is analysed, or was.
AnalysedOK == \A k \in Key : \A d \in DependenciesOf(k) : Done(d)

\* What a push has found is pending, seen, or need not be looked at.
PushOK(t) ==
    t.op = "put" =>
        /\ \A k \in Seen(t) \ {t.key} : Present(k) \/ k \in dropped
        /\ \A a \in Range(t.actions) : a.type = "Info" => \A d \in a.dependencies :
              BlobOf(d) \in Seen(t) \/ Done(d) \/ \E x \in t.pending : x.digest = d

TaskOK(t) == ShapeOK(t) /\ StoreOK(t) /\ DeleterOK(t) /\ PushOK(t)

IInv ==
    /\ TypeOK
    /\ \A t \in RunningTasks : TaskOK(t)
    /\ LocationHasFile
    /\ UnloggedOK /\ CrossedOK
    /\ DependenciesOK /\ OverlapOK
    /\ AnalysedOK
    /\ PoisonIsATransfer

-----------------------------------------------------------------------------
(***************************************************************************)
(* Steps that leave the tables alone.                                      *)
(***************************************************************************)
LEMMA RunningStep ==
    ASSUME TypeOK, NEW w \in Worker, NEW u, task' = [task EXCEPT ![w] = u]
    PROVE  /\ \A t \in RunningTasks' : t \in RunningTasks \/ (t = u /\ u # NoTask)
           /\ \A t \in RunningTasks : t # task[w] => t \in RunningTasks'
           /\ u # NoTask => u \in RunningTasks'
           /\ task[w] # NoTask => task[w] \in RunningTasks
           /\ RunningTasks \subseteq Task
BY DEF RunningTasks, TypeOK

\* A push that runs at the time of a deletion is overlapped.
LEMMA OverlapStep ==
    ASSUME TypeOK, OverlapOK, NEW w \in Worker, NEW u, task' = [task EXCEPT ![w] = u],
           overlapped \subseteq overlapped',
           \/ u = NoTask
           \/ task[w] # NoTask /\ u.op = task[w].op /\ u.key = task[w].key
           \/ overlapped' = overlapped \cup OverlapOf(RunningTasks \cup {u})
    PROVE  OverlapOK'
<1> SUFFICES ASSUME NEW t \in RunningTasks', NEW v \in RunningTasks', t.op \in Deleter
             PROVE  PushedBy(v) \subseteq overlapped'
    BY DEF OverlapOK, Deleter, PushedBy, Below
<1>1. /\ t \in RunningTasks \/ (t = u /\ u # NoTask)
      /\ v \in RunningTasks \/ (v = u /\ u # NoTask)
      /\ task[w] # NoTask => task[w] \in RunningTasks
    BY RunningStep
<1>2. CASE t \in RunningTasks /\ v \in RunningTasks
    BY <1>2 DEF OverlapOK
<1>3. CASE overlapped' = overlapped \cup OverlapOf(RunningTasks \cup {u})
    BY <1>1, <1>3 DEF OverlapOf
<1>4. CASE task[w] # NoTask /\ u.op = task[w].op /\ u.key = task[w].key
    <2>1. PushedBy(u) = PushedBy(task[w])
        BY <1>4 DEF PushedBy
    <2> QED
        BY <1>1, <1>4, <2>1 DEF OverlapOK
<1> QED
    BY <1>1, <1>2, <1>3, <1>4

\* What a step that leaves the tables alone may do to files and ghosts.
FilesKept(w, u) ==
    /\ \A n \in Node, k \in Key :
          (k \in files[n] \/ <<n, k>> \in crossed) /\ AboutToStore(n, k)
             => k \in files'[n] \/ <<n, k>> \in crossed'
    /\ \A n \in Node, k \in Key :
          k \in files[n] \/ <<n, k>> \in unlogged \cup crossed
             => k \in files'[n] \/ <<n, k>> \in unlogged' \cup crossed'
    /\ \A n \in Node, k \in Key : <<n, k>> \in crossed' => <<n, k>> \in crossed \/ k \in botched'
    /\ \A n \in Node, k \in Key : <<n, k>> \in unlogged' =>
          \/ k \in botched'
          \/ u # NoTask /\ u.op = "sweep2" /\ Unstores(u, n, k)
          \/ /\ <<n, k>> \in unlogged
             /\ ~(task[w] # NoTask /\ task[w].op = "sweep2" /\ Unstores(task[w], n, k))

LEMMA QuietStep ==
    ASSUME IInv, TypeOK', NEW w \in Worker, NEW u, task' = [task EXCEPT ![w] = u],
           UNCHANGED <<tables, poison, dropped>>,
           overlapped \subseteq overlapped', botched \subseteq botched',
           \/ u = NoTask
           \/ task[w] # NoTask /\ u.op = task[w].op /\ u.key = task[w].key
           \/ overlapped' = overlapped \cup OverlapOf(RunningTasks \cup {u}),
           FilesKept(w, u),
           u # NoTask => ShapeOK(u) /\ StoreOK(u)' /\ DeleterOK(u) /\ PushOK(u)
    PROVE  IInv'
<1> USE DEF IInv
<1>1. /\ \A t \in RunningTasks' : t \in RunningTasks \/ (t = u /\ u # NoTask)
      /\ \A t \in RunningTasks : t # task[w] => t \in RunningTasks'
      /\ u # NoTask => u \in RunningTasks'
      /\ task[w] # NoTask => task[w] \in RunningTasks
      /\ RunningTasks \subseteq Task
    BY RunningStep
<1>2. OverlapOK'
    BY OverlapStep
<1>3. Reached' = Reached /\ \A k : Present(k)' <=> Present(k)
    BY ReachedIsIn DEF Present, row
<1>4. \A k : Spared(k) => Spared(k)'
    BY <1>3 DEF Spared
<1>5. \A d : Done(d)' <=> Done(d)
    BY DEF Done, Present, row
<1>7. ASSUME NEW t, ShapeOK(t) /\ StoreOK(t)' /\ DeleterOK(t) /\ PushOK(t) PROVE TaskOK(t)'
    <2>1. ShapeOK(t)'
        BY <1>7 DEF ShapeOK, ActionOK, PushedBy, Below
    <2>2. DeleterOK(t)'
        BY <1>4, <1>7 DEF DeleterOK, Present, row, Unstores, Unstoring
    <2>3. PushOK(t)'
        BY <1>5, <1>7 DEF PushOK, Present, row, Seen
    <2> QED
        BY <1>7, <2>1, <2>2, <2>3 DEF TaskOK
<1>8. \A t \in RunningTasks' : TaskOK(t)'
    <2>1. ASSUME NEW t \in RunningTasks PROVE StoreOK(t)'
        <3>1. \A n \in Node, k \in Key : t.at = "submit" /\ Stores(t, n, k) => AboutToStore(n, k)
            BY DEF AboutToStore, Stores
        <3> QED
            BY <3>1 DEF TaskOK, StoreOK, FilesKept, Stores, Storing
    <2> QED
        BY <1>1, <1>7, <2>1 DEF TaskOK
<1>9. LocationHasFile'
    BY DEF LocationHasFile, FilesKept, Present, row
<1>10. CrossedOK'
    BY DEF CrossedOK, FilesKept
<1>11. UnloggedOK'
    <2> SUFFICES ASSUME NEW n \in Node, NEW k \in Key, <<n, k>> \in unlogged', k \notin botched'
                 PROVE  \E t \in RunningTasks' : t.op = "sweep2" /\ Unstores(t, n, k)
        BY DEF UnloggedOK, Unstores, Unstoring
    <2>1. CASE u # NoTask /\ u.op = "sweep2" /\ Unstores(u, n, k)
        BY <1>1, <2>1
    <2>2. CASE /\ <<n, k>> \in unlogged
               /\ ~(task[w] # NoTask /\ task[w].op = "sweep2" /\ Unstores(task[w], n, k))
        <3>1. PICK t \in RunningTasks : t.op = "sweep2" /\ Unstores(t, n, k)
            BY <2>2 DEF UnloggedOK
        <3>2. t # task[w]
            BY <2>2, <3>1 DEF RunningTasks
        <3> QED
            BY <1>1, <3>1, <3>2
    <2> QED
        BY <2>1, <2>2 DEF FilesKept
<1>12. DependenciesOK'
    BY DEF DependenciesOK, DependenciesOf, Present, row
<1>13. AnalysedOK'
    BY <1>5 DEF AnalysedOK, DependenciesOf, Present, row
<1>14. PoisonIsATransfer'
    BY DEF PoisonIsATransfer
<1> QED
    BY <1>2, <1>8, <1>9, <1>10, <1>11, <1>12, <1>13, <1>14

\* What a task submits has been placed; nothing else happens to the files.
PlacesOrNot == UNCHANGED <<files, removals>> \/ \E n \in Node, k \in Key : Place(n, k)

LEMMA PlaceKeeps ==
    ASSUME TypeOK, PlacesOrNot, NEW w, NEW u,
           \A n \in Node, k \in Key :
              task[w] # NoTask /\ task[w].op = "sweep2" /\ Unstores(task[w], n, k)
                 => u # NoTask /\ u.op = "sweep2" /\ Unstores(u, n, k)
    PROVE  /\ FilesKept(w, u) /\ UNCHANGED <<dropped, botched>>
           /\ files' \in [Node -> SUBSET Key] /\ unlogged' \cup crossed' \subseteq Node \X Key
<1>1. CASE UNCHANGED <<files, removals>>
    BY <1>1 DEF FilesKept, removals, TypeOK
<1>2. CASE \E n \in Node, k \in Key : Place(n, k)
    <2>1. PICK n \in Node, k \in Key : Place(n, k)
        BY <1>2
    <2>2. /\ files' = [files EXCEPT ![n] = @ \cup {k}] /\ unlogged' = unlogged \ {<<n, k>>}
          /\ crossed' = crossed \ {<<n, k>>} /\ UNCHANGED <<dropped, botched>>
        BY <2>1 DEF Place
    <2>3. \A m \in Node, j \in Key : j \in files'[m] <=> j \in files[m] \/ <<m, j>> = <<n, k>>
        BY <2>2 DEF TypeOK
    <2> QED
        BY <2>2, <2>3 DEF FilesKept, TypeOK
<1> QED
    BY <1>1, <1>2 DEF PlacesOrNot

LEMMA BeginStep ==
    ASSUME IInv, NEW w \in Worker, NEW u \in Task, Begin(w, u), PlacesOrNot,
           UNCHANGED <<tables, clock, poison>>,
           ShapeOK(u), StoreOK(u)', DeleterOK(u), PushOK(u)
    PROVE  IInv'
<1>1. TypeOK
    BY DEF IInv
<1>2. /\ task[w] = NoTask /\ task' = [task EXCEPT ![w] = u] /\ begun' = begun + 1
      /\ begun < MaxTasks /\ overlapped' = overlapped \cup OverlapOf(RunningTasks \cup {u})
    BY DEF Begin
<1>3. /\ FilesKept(w, u) /\ UNCHANGED <<dropped, botched>>
      /\ files' \in [Node -> SUBSET Key] /\ unlogged' \cup crossed' \subseteq Node \X Key
    BY <1>1, <1>2, PlaceKeeps
<1>4. OverlapOf(RunningTasks \cup {u}) \subseteq Key
    <2>1. RunningTasks \subseteq Task
        BY <1>1 DEF TypeOK, RunningTasks
    <2>2. ASSUME NEW t \in Task PROVE PushedBy(t) \subseteq Key
        <3>1. t.key \in Key /\ t.key[2] \in Digest
            BY KeyFacts DEF Task
        <3> QED
            BY <3>1, KeyFacts, BelowFacts DEF PushedBy
    <2> QED
        BY <2>1, <2>2 DEF OverlapOf
<1>5. TypeOK'
    <2>1. begun' \in 0 .. MaxTasks
        BY <1>1, <1>2, TaskAssumption DEF TypeOK
    <2> QED
        BY <1>1, <1>2, <1>3, <1>4, <2>1 DEF TypeOK
<1>6. UNCHANGED <<tables, poison, dropped>> /\ overlapped \subseteq overlapped'
      /\ botched \subseteq botched'
    BY <1>2, <1>3
<1> QED
    BY <1>2, <1>3, <1>5, <1>6, QuietStep

LEMMA GoStep ==
    ASSUME IInv, NEW w \in Worker, NEW u \in Task \cup {NoTask}, Go(w, u), PlacesOrNot,
           UNCHANGED <<tables, clock, poison>>, task[w] # NoTask,
           u # NoTask => /\ u.op = task[w].op /\ u.key = task[w].key
                         /\ ShapeOK(u) /\ StoreOK(u)' /\ DeleterOK(u) /\ PushOK(u),
           \A n \in Node, k \in Key :
              task[w].op = "sweep2" /\ Unstores(task[w], n, k) => u # NoTask /\ Unstores(u, n, k)
    PROVE  IInv'
<1>1. TypeOK
    BY DEF IInv
<1>2. task' = [task EXCEPT ![w] = u] /\ UNCHANGED <<begun, overlapped>>
    BY DEF Go
<1>3. /\ FilesKept(w, u) /\ UNCHANGED <<dropped, botched>>
      /\ files' \in [Node -> SUBSET Key] /\ unlogged' \cup crossed' \subseteq Node \X Key
    BY <1>1, <1>2, PlaceKeeps
<1>4. TypeOK'
    BY <1>1, <1>2, <1>3 DEF TypeOK
<1>5. UNCHANGED <<tables, poison, dropped>> /\ overlapped \subseteq overlapped'
      /\ botched \subseteq botched'
    BY <1>2, <1>3
<1> QED
    BY <1>2, <1>3, <1>4, <1>5, QuietStep

\* A task that gives up, and has removed no file.
LEMMA QuitStep ==
    ASSUME IInv, NEW w \in Worker, Quit(w), UNCHANGED <<tables, clock, poison, files, removals>>,
           task[w] # NoTask, task[w].op # "sweep2" \/ task[w].actions = <<>>
    PROVE  IInv'
<1>1. \A n \in Node, k \in Key : ~(task[w].op = "sweep2" /\ Unstores(task[w], n, k))
    BY DEF Unstores, Range
<1>2. PlacesOrNot /\ Go(w, NoTask)
    BY DEF PlacesOrNot, Quit
<1> QED
    BY <1>1, <1>2, GoStep

-----------------------------------------------------------------------------
(***************************************************************************)
(* Tasks begin.                                                            *)
(***************************************************************************)
LEMMA MadeActions ==
    ASSUME TypeOK, NEW k \in Key
    PROVE  /\ \A r \in Repository : Mounting(k, r) \in Action
           /\ \A r \in Repository : [type |-> "Unmounted", key |-> k, repository |-> r] \in Action
           /\ \A n \in Node : Storing(k, n) \in Action /\ Unstoring(k, n) \in Action
           /\ Sizing(k) \in Action
           /\ \A deps \in SUBSET Digest : Describing(k, deps) \in Action
<1>1. clock \in Timestamp
    BY DEF TypeOK
<1> QED
    BY <1>1 DEF Mounting, Storing, Unstoring, Sizing, Describing, Action, RowAction

\* What the sequences a task submits are made of.
LEMMA MadeFields ==
    /\ \A k, r : /\ Mounting(k, r).type = "Mounted" /\ Mounting(k, r).key = k
                 /\ Mounting(k, r).repository = r
    /\ \A k, n : /\ Storing(k, n).type = "Stored" /\ Storing(k, n).key = k
                 /\ Storing(k, n).location = n
    /\ \A k, n : /\ Unstoring(k, n).type = "Unstored" /\ Unstoring(k, n).key = k
                 /\ Unstoring(k, n).location = n
    /\ \A k : Sizing(k).type = "Stat" /\ Sizing(k).key = k
    /\ \A k, deps : /\ Describing(k, deps).type = "Info" /\ Describing(k, deps).key = k
                    /\ Describing(k, deps).dependencies = deps
BY DEF Mounting, Storing, Unstoring, Sizing, Describing

LEMMA TypesOfFacts ==
    /\ TypesOf("upload") = {"Mounted", "Stat", "Stored"}
    /\ TypesOf("put") = {"Mounted", "Stored", "Stat", "Info", "HashTagged"}
    /\ TypesOf("mount") = {"Mounted"} /\ TypesOf("transfer") = {"Stored"}
    /\ TypesOf("sweep2") = {"Unstored"} /\ TypesOf("fsck") = {"Unstored"}
    /\ TypesOf("delete") = {"Unmounted"} /\ TypesOf("sweep1") = {"Unmounted"}
BY DEF TypesOf, Deleter

LEMMA NewTaskType ==
    ASSUME NEW op \in Op, NEW n \in Node, NEW k \in Key, NEW todo \in SUBSET Key,
           NEW actions \in Seq(Action),
           NEW at \in {"extract", "fetch", "clean_images", "blobs", "clean_blobs", "check", "submit"}
    PROVE  /\ NewTask(op, n, k, at, todo, actions) \in Task
           /\ NewTask(op, n, k, at, todo, actions).op = op
           /\ NewTask(op, n, k, at, todo, actions).node = n
           /\ NewTask(op, n, k, at, todo, actions).key = k
           /\ NewTask(op, n, k, at, todo, actions).at = at
           /\ NewTask(op, n, k, at, todo, actions).todo = todo
           /\ NewTask(op, n, k, at, todo, actions).actions = actions
BY DEF NewTask, Task

LEMMA UploadStep ==
    ASSUME IInv, NEW w \in Worker, NEW n \in Node, NEW d \in Digest, NEW r \in Repository,
           FinishUpload(w, n, d, r)
    PROVE  IInv'
<1>1. PICK k \in Key : k = BlobOf(d)
    BY KeyFacts
<1>2. PICK acts : acts = <<Mounting(k, r), Sizing(k), Storing(k, n)>>
    OBVIOUS
<1>3. acts \in Seq(Action) /\ DOMAIN acts = 1 .. 3
    BY <1>2, MadeActions DEF IInv
<1>4. PICK u \in Task : u = NewTask("upload", n, k, "submit", {}, acts)
    BY <1>3, NewTaskType DEF Op
<1>5. /\ u.op = "upload" /\ u.node = n /\ u.key = k /\ u.at = "submit" /\ u.todo = {}
      /\ u.actions = acts
    BY <1>3, <1>4, NewTaskType DEF Op
<1>6. Begin(w, u) /\ Place(n, k) /\ UNCHANGED <<tables, clock, poison>>
    BY <1>1, <1>2, <1>4 DEF FinishUpload
<1>7. ShapeOK(u)
    <2>1. ASSUME NEW i \in DOMAIN acts PROVE ActionOK(u, i)
        BY <1>2, <1>3, <1>5, MadeFields, TypesOfFacts DEF ActionOK
    <2> QED
        BY <1>1, <1>2, <1>3, <1>5, <2>1, MadeFields, KeyFacts DEF ShapeOK
<1>8. StoreOK(u)'
    <2>1. k \in files'[n]
        BY <1>6 DEF Place, IInv, TypeOK
    <2>2. ASSUME NEW m \in Node, NEW j \in Key, Storing(j, m) \in Range(acts) PROVE j = k /\ m = n
        BY <1>2, <1>3, <2>2, MadeFields DEF Range
    <2> QED
        BY <1>5, <2>1, <2>2 DEF StoreOK, Stores, Storing
<1>9. DeleterOK(u) /\ PushOK(u)
    BY <1>5 DEF DeleterOK, PushOK, Deleter
<1> QED
    BY <1>6, <1>7, <1>8, <1>9, BeginStep DEF PlacesOrNot

LEMMA MountStep ==
    ASSUME IInv, NEW w \in Worker, NEW n \in Node, NEW d \in Digest, NEW from \in Repository,
           NEW r \in Repository, MountBlob(w, n, d, from, r)
    PROVE  IInv'
<1>1. PICK k \in Key : k = BlobOf(d)
    BY KeyFacts
<1>2. PICK acts : acts = <<Mounting(k, r)>>
    OBVIOUS
<1>3. acts \in Seq(Action) /\ DOMAIN acts = 1 .. 1
    BY <1>2, MadeActions DEF IInv
<1>4. PICK u \in Task : u = NewTask("mount", n, k, "submit", {}, acts)
    BY <1>3, NewTaskType DEF Op
<1>5. /\ u.op = "mount" /\ u.node = n /\ u.key = k /\ u.at = "submit" /\ u.todo = {}
      /\ u.actions = acts
    BY <1>3, <1>4, NewTaskType DEF Op
<1>6. Begin(w, u) /\ UNCHANGED <<tables, files, clock, poison, removals>>
    BY <1>1, <1>2, <1>4 DEF MountBlob
<1>7. ShapeOK(u)
    <2>1. ASSUME NEW i \in DOMAIN acts PROVE ActionOK(u, i)
        BY <1>2, <1>3, <1>5, MadeFields, TypesOfFacts DEF ActionOK
    <2> QED
        BY <1>1, <1>2, <1>3, <1>5, <2>1, MadeFields, KeyFacts DEF ShapeOK
<1>8. StoreOK(u)'
    <2>1. ASSUME NEW m \in Node, NEW j \in Key PROVE Storing(j, m) \notin Range(acts)
        BY <1>2, <1>3, MadeFields DEF Range
    <2> QED
        BY <1>5, <2>1 DEF StoreOK, Stores, Storing
<1>9. DeleterOK(u) /\ PushOK(u)
    BY <1>5 DEF DeleterOK, PushOK, Deleter
<1> QED
    BY <1>6, <1>7, <1>8, <1>9, BeginStep DEF PlacesOrNot

LEMMA UnmountStep ==
    ASSUME IInv, NEW w \in Worker, NEW n \in Node, NEW k \in Key, NEW r \in Repository,
           Unmount(w, n, k, r)
    PROVE  IInv'
<1>2. PICK acts : acts = <<[type |-> "Unmounted", key |-> k, repository |-> r]>>
    OBVIOUS
<1>3. acts \in Seq(Action) /\ DOMAIN acts = 1 .. 1
    BY <1>2, MadeActions DEF IInv
<1>4. PICK u \in Task : u = NewTask("delete", n, k, "submit", {}, acts)
    BY <1>3, NewTaskType DEF Op
<1>5. /\ u.op = "delete" /\ u.node = n /\ u.key = k /\ u.at = "submit" /\ u.todo = {}
      /\ u.actions = acts
    BY <1>3, <1>4, NewTaskType DEF Op
<1>6. Begin(w, u) /\ UNCHANGED <<tables, files, clock, poison, removals>>
    BY <1>2, <1>4 DEF Unmount
<1>7. ShapeOK(u)
    <2>1. ASSUME NEW i \in DOMAIN acts PROVE ActionOK(u, i)
        BY <1>2, <1>3, <1>5 DEF ActionOK, TypesOf, Deleter
    <2> QED
        BY <1>2, <1>3, <1>5, <2>1 DEF ShapeOK
<1>8. StoreOK(u)'
    <2>1. ASSUME NEW m \in Node, NEW j \in Key PROVE Storing(j, m) \notin Range(acts)
        BY <1>2, <1>3, MadeFields DEF Range
    <2> QED
        BY <1>5, <2>1 DEF StoreOK, Stores, Storing
<1>9. DeleterOK(u) /\ PushOK(u)
    BY <1>5 DEF DeleterOK, PushOK, Deleter
<1> QED
    BY <1>6, <1>7, <1>8, <1>9, BeginStep DEF PlacesOrNot

LEMMA TransferStep ==
    ASSUME IInv, NEW w \in Worker, NEW n \in Node, NEW source \in Node, NEW k \in Key,
           StartTransfer(w, n, k, source)
    PROVE  IInv'
<1>2. PICK acts : acts = <<Storing(k, n)>>
    OBVIOUS
<1>3. acts \in Seq(Action) /\ DOMAIN acts = 1 .. 1
    BY <1>2, MadeActions DEF IInv
<1>4. PICK u : u = [NewTask("transfer", n, k, "fetch", {}, acts) EXCEPT !.source = source]
    OBVIOUS
<1>5. /\ u \in Task /\ u.op = "transfer" /\ u.node = n /\ u.key = k /\ u.at = "fetch"
      /\ u.todo = {} /\ u.actions = acts
    BY <1>3, <1>4 DEF NewTask, Task, Op
<1>6. Begin(w, u) /\ UNCHANGED <<tables, files, clock, poison, removals>>
    BY <1>2, <1>4 DEF StartTransfer
<1>7. ShapeOK(u)
    <2>1. ASSUME NEW i \in DOMAIN acts PROVE ActionOK(u, i)
        BY <1>2, <1>3, <1>5, MadeFields, TypesOfFacts DEF ActionOK
    <2> QED
        BY <1>2, <1>3, <1>5, <2>1 DEF ShapeOK
<1>8. StoreOK(u)' /\ DeleterOK(u) /\ PushOK(u)
    BY <1>5 DEF StoreOK, DeleterOK, PushOK, Deleter
<1> QED
    BY <1>5, <1>6, <1>7, <1>8, BeginStep DEF PlacesOrNot

\* A set as a sequence has every element once.
LEMMA RangeOfSetToSeq ==
    ASSUME NEW S, IsFiniteSet(S)
    PROVE  /\ SetToSeq(S) \in Seq(S)
           /\ Range(SetToSeq(S)) = S
           /\ \A i, j \in DOMAIN SetToSeq(S) : i # j => SetToSeq(S)[i] # SetToSeq(S)[j]
<1> DEFINE n == Cardinality(S)
<1>1. n \in Nat /\ Bijection(1 .. n, S) # {}
    BY FS_CardinalityType DEF ExistsBijection
<1>2. PICK g \in [1 .. n -> S] : IsInjective(g)
    BY <1>1 DEF Bijection, Injection
<1>3. SetToSeq(S) \in [1 .. n -> S] /\ IsInjective(SetToSeq(S))
    BY <1>2 DEF SetToSeq
<1>4. PICK f : f = SetToSeq(S)
    OBVIOUS
<1>5. f \in Injection(1 .. n, S)
    BY <1>3, <1>4 DEF Injection, IsInjective
<1>6. IsFiniteSet(1 .. n) /\ Cardinality(1 .. n) = n
    BY <1>1, FS_Interval
<1>7. f \in Surjection(1 .. n, S)
    BY <1>5, <1>6, FS_Injection
<1>8. f \in Seq(S) /\ DOMAIN f = 1 .. n
    BY <1>1, <1>3, <1>4
<1>9. Range(f) = S
    BY <1>7, <1>8 DEF Surjection, Range
<1>10. \A i, j \in DOMAIN f : i # j => f[i] # f[j]
    BY <1>3, <1>4 DEF IsInjective
<1> QED
    BY <1>4, <1>8, <1>9, <1>10

LEMMA KeyIsFinite == IsFiniteSet(Key)
<1>1. IsFiniteSet({} \cup {"blob"})
    BY FS_EmptySet, FS_AddElement
<1>2. IsFiniteSet(({} \cup {"blob"}) \cup {"manifest"})
    BY <1>1, FS_AddElement
<1>3. Kind = ({} \cup {"blob"}) \cup {"manifest"}
    BY DEF Kind
<1> QED
    BY <1>2, <1>3, FiniteAssumption, FS_Product DEF Key

\* The transaction of phase 1.
LEMMA UnmountsType ==
    ASSUME TypeOK, NEW keys \in SUBSET Key, \A k \in keys : Present(k)
    PROVE  /\ Unmounts(keys) \in Seq(Action)
           /\ \A i \in DOMAIN Unmounts(keys) : Unmounts(keys)[i].type = "Unmounted"
<1> DEFINE All == {[type |-> "Unmounted", key |-> p[1], repository |-> p[2]] : p \in Key \X Repository}
           f == [p \in Key \X Repository |-> [type |-> "Unmounted", key |-> p[1], repository |-> p[2]]]
<1>1. PICK S : S = UNION {{[type |-> "Unmounted", key |-> k, repository |-> r] :
                              r \in row(k).repositories} : k \in keys}
    OBVIOUS
<1>2. IsFiniteSet(Key \X Repository)
    BY KeyIsFinite, FiniteAssumption, FS_Product
<1>3. f \in Surjection(Key \X Repository, All)
    BY DEF Surjection
<1>4. IsFiniteSet(All)
    BY <1>2, <1>3, FS_Surjection
<1>5. S \subseteq All
    <2>1. ASSUME NEW a \in S PROVE a \in All
        <3>1. PICK k \in keys : a \in {[type |-> "Unmounted", key |-> k, repository |-> r] :
                                          r \in row(k).repositories}
            BY <1>1, <2>1
        <3>2. PICK r \in row(k).repositories : a = [type |-> "Unmounted", key |-> k, repository |-> r]
            BY <3>1
        <3>3. r \in Repository
            <4>1. row(k) \in Row
                BY DEF TypeOK, Tables, Present, row
            <4> QED
                BY <3>2, <4>1 DEF Row
        <3>4. <<k, r>> \in Key \X Repository /\ <<k, r>>[1] = k /\ <<k, r>>[2] = r
            BY <3>3
        <3> QED
            BY <3>2, <3>4
    <2> QED
        BY <2>1
<1>6. All \subseteq Action /\ \A a \in All : a.type = "Unmounted"
    BY DEF Action, RowAction
<1> HIDE DEF All
<1>7. SetToSeq(S) \in Seq(S)
    BY <1>4, <1>5, FS_Subset, RangeOfSetToSeq
<1>8. Unmounts(keys) = SetToSeq(S)
    BY <1>1 DEF Unmounts
<1> QED
    BY <1>5, <1>6, <1>7, <1>8

LEMMA PutStep ==
    ASSUME IInv, NEW w \in Worker, NEW n \in Node, NEW d \in Digest, NEW r \in Repository,
           PutManifest(w, n, d, r)
    PROVE  IInv'
<1>1. PICK k \in Key : k = ImageOf(d)
    BY KeyFacts
<1>2. PICK acts : acts = <<Mounting(k, r), Storing(k, n), Sizing(k), Describing(k, Content[d])>>
    OBVIOUS
<1>3. acts \in Seq(Action) /\ DOMAIN acts = 1 .. 4
    BY <1>2, MadeActions, ContentType DEF IInv
<1>4. Found[d] \in SUBSET Extraction /\ Content[d] = DigestsIn(Found[d])
    BY ContentType
<1>5. PICK u : u = [NewTask("put", n, k, "extract", {}, acts) EXCEPT !.pending = Found[d]]
    OBVIOUS
<1>6. u \in Task
    BY <1>3, <1>4, <1>5 DEF NewTask, Task, Op
<1>7. /\ u.op = "put" /\ u.node = n /\ u.key = k /\ u.at = "extract" /\ u.todo = {}
      /\ u.pending = Found[d] /\ u.actions = acts
    BY <1>5 DEF NewTask
<1>8. Begin(w, u) /\ UNCHANGED <<tables, files, clock, poison, removals>>
    BY <1>1, <1>2, <1>5 DEF PutManifest
<1>9. k[1] = "manifest" /\ k[2] = d
    BY <1>1, KeyFacts
<1>10. PushedBy(u) = {k} \cup {BlobOf(e) : e \in Below[d]}
    BY <1>7, <1>9 DEF PushedBy
<1>11. ShapeOK(u)
    <2>1. ASSUME NEW i \in DOMAIN acts PROVE ActionOK(u, i)
        BY <1>2, <1>3, <1>7, <1>9, <1>10, MadeFields, TypesOfFacts DEF ActionOK
    <2>2. \A x \in u.pending : x.digest \in Below[u.key[2]]
        BY <1>4, <1>7, <1>9, BelowFacts DEF DigestsIn
    <2>3. acts # <<>> /\ acts[1].type = "Mounted"
        BY <1>2, MadeFields
    <2> QED
        BY <1>7, <1>9, <2>1, <2>2, <2>3 DEF ShapeOK
<1>12. StoreOK(u)' /\ DeleterOK(u)
    BY <1>7 DEF StoreOK, DeleterOK, Deleter
<1>13. PushOK(u)
    <2>1. Seen(u) = {k}
        <3>1. \A i \in DOMAIN acts : acts[i].key = k /\ (acts[i].type = "Info" <=> i = 4)
            BY <1>2, <1>3, MadeFields
        <3> QED
            BY <1>3, <1>7, <3>1 DEF Seen
    <2>2. ASSUME NEW a \in Range(u.actions), a.type = "Info" PROVE a.dependencies = Content[d]
        BY <1>2, <1>3, <1>7, <2>2, MadeFields DEF Range
    <2> QED
        BY <1>4, <1>7, <2>1, <2>2 DEF PushOK, DigestsIn
<1> QED
    BY <1>6, <1>8, <1>11, <1>12, <1>13, BeginStep DEF PlacesOrNot

LEMMA SomeKey == (CHOOSE k \in Key : TRUE) \in Key
<1>1. PICK d \in Digest : TRUE
    BY FiniteAssumption
<1>2. BlobOf(d) \in Key
    BY KeyFacts
<1> QED
    BY <1>2

\* What an action of a task that only unmounts or unstores must be.
LEMMA TakingShape ==
    ASSUME NEW u \in Task, u.op \in {"sweep1", "sweep2", "fsck"},
           u.op = "sweep1" => u.at \in {"blobs", "submit"},
           u.op = "sweep2" => u.at \in {"clean_images", "clean_blobs", "submit"},
           u.op = "fsck" => u.at \in {"check", "submit"},
           u.op = "sweep1" => \A i \in DOMAIN u.actions : u.actions[i].type = "Unmounted",
           u.op # "sweep1" => \A i \in DOMAIN u.actions :
              u.actions[i].type = "Unstored" /\ u.actions[i].location = u.node
    PROVE  ShapeOK(u) /\ StoreOK(u)' /\ PushOK(u)
<1>1. ASSUME NEW i \in DOMAIN u.actions PROVE ActionOK(u, i)
    BY TypesOfFacts DEF ActionOK
<1>2. ShapeOK(u)
    BY <1>1 DEF ShapeOK
<1>3. \A n, k : ~Stores(u, n, k)
    <2>1. \A i \in DOMAIN u.actions : u.actions[i].type # "Stored"
        OBVIOUS
    <2> QED
        BY <2>1, MadeFields DEF Stores, Range
<1>4. StoreOK(u)'
    BY <1>3 DEF StoreOK, Stores, Storing
<1>5. PushOK(u)
    BY DEF PushOK
<1> QED
    BY <1>2, <1>4, <1>5

LEMMA Sweep1Step ==
    ASSUME IInv, NEW w \in Worker, NEW n \in Node, StartSweep1(w, n)
    PROVE  IInv'
<1>1. PICK k \in Key : k = CHOOSE j \in Key : TRUE
    BY SomeKey
<1>2. PICK keys : keys = {j \in OrphanedManifests : Old(j)}
    OBVIOUS
<1>3. keys \in SUBSET Key /\ \A j \in keys : Present(j)
    BY <1>2 DEF OrphanedManifests, Rows
<1>4. PICK acts : acts = Unmounts(keys)
    OBVIOUS
<1>5. acts \in Seq(Action) /\ \A i \in DOMAIN acts : acts[i].type = "Unmounted"
    BY <1>3, <1>4, UnmountsType DEF IInv
<1>6. PICK u \in Task : u = NewTask("sweep1", n, k, "blobs", {}, acts)
    BY <1>5, NewTaskType DEF Op
<1>7. /\ u.op = "sweep1" /\ u.node = n /\ u.key = k /\ u.at = "blobs" /\ u.todo = {}
      /\ u.actions = acts
    BY <1>5, <1>6, NewTaskType DEF Op
<1>8. Begin(w, u) /\ UNCHANGED <<tables, files, clock, poison, removals>>
    BY <1>1, <1>2, <1>4, <1>6 DEF StartSweep1
<1>9. ShapeOK(u) /\ StoreOK(u)' /\ PushOK(u)
    BY <1>5, <1>7, TakingShape
<1>10. DeleterOK(u)
    BY <1>7 DEF DeleterOK, Deleter
<1> QED
    BY <1>8, <1>9, <1>10, BeginStep DEF PlacesOrNot

\* No tag leads to an orphan.
LEMMA OrphansAreSpared ==
    ASSUME TypeOK
    PROVE  /\ OrphanedManifests \subseteq Key /\ \A k \in OrphanedManifests : Spared(k)
           /\ OrphanedBlobs \subseteq Key /\ \A k \in OrphanedBlobs : Spared(k)
<1>1. Reached = ReachedIn(tables) /\ Tagged = TaggedIn(tables)
      /\ \A images : Visited(images) = VisitedIn(tables, images)
      /\ \A k : DependenciesOf(k) = DepsIn(tables, k)
    BY ReachedIsIn
<1>2. tables \in Tables
    BY DEF TypeOK
<1>3. TaggedIn(tables) \in SUBSET Key /\ \A m \in TaggedIn(tables) : m[1] = "manifest"
    BY <1>2, DepsType
<1>4. ASSUME NEW k \in OrphanedManifests PROVE k \in Key /\ k \notin Reached
    <2>1. k \in Key /\ k[1] = "manifest" /\ \A t \in TagKey : tables.tag[t] # k[2]
        BY DEF OrphanedManifests, Rows
    <2>2. k \notin TaggedIn(tables)
        BY <2>1, KeyFacts DEF TaggedIn
    <2>3. \A d : BlobOf(d) # k
        BY <2>1, KeyFacts
    <2> QED
        BY <1>1, <2>1, <2>2, <2>3 DEF ReachedIn
<1>5. ASSUME NEW k \in OrphanedBlobs PROVE k \in Key /\ k \notin Reached
    <2>1. PICK images : images = Rows("manifest")
        OBVIOUS
    <2>2. images \in SUBSET Key
        BY <2>1 DEF Rows
    <2>3. k \in Key /\ k[1] = "blob" /\ k[2] \notin VisitedIn(tables, images)
        BY <1>1, <2>1 DEF OrphanedBlobs, Rows
    <2>4. PICK V : V = VisitedIn(tables, images)
        OBVIOUS
    <2>5. /\ \A m \in images : DepsIn(tables, m) \subseteq V
          /\ \A d \in V : DepsIn(tables, BlobOf(d)) \subseteq V
        BY <1>2, <2>2, <2>4, VisitedFacts
    <2>6. ASSUME NEW m \in TaggedIn(tables) PROVE DepsIn(tables, m) \subseteq V
        <3>1. m \in images \/ DepsIn(tables, m) = {}
            BY <1>3, <2>1 DEF Rows, DepsIn, Present, row
        <3> QED
            BY <2>5, <3>1
    <2>7. VisitedIn(tables, TaggedIn(tables)) \subseteq V
        BY <1>2, <1>3, <2>5, <2>6, VisitedFacts
    <2>8. k \notin TaggedIn(tables)
        BY <1>3, <2>3
    <2>9. \A d : k = BlobOf(d) => d = k[2]
        BY KeyFacts
    <2> QED
        BY <1>1, <2>3, <2>4, <2>7, <2>8, <2>9 DEF ReachedIn
<1> QED
    BY <1>4, <1>5 DEF Spared

LEMMA Sweep2Step ==
    ASSUME IInv, NEW w \in Worker, NEW n \in Node, StartSweep2(w, n)
    PROVE  IInv'
<1>1. PICK k \in Key : k = CHOOSE j \in Key : TRUE
    BY SomeKey
<1>2. PICK todo : todo = Collectable(n, OrphanedManifests)
    OBVIOUS
<1>3. todo \in SUBSET Key /\ \A j \in todo : Spared(j)
    BY <1>2, OrphansAreSpared DEF Collectable, IInv
<1>4. PICK acts : acts = <<>>
    OBVIOUS
<1>5. acts \in Seq(Action)
    BY <1>4
<1>6. PICK u \in Task : u = NewTask("sweep2", n, k, "clean_images", todo, acts)
    BY <1>3, <1>5, NewTaskType DEF Op
<1>7. /\ u.op = "sweep2" /\ u.node = n /\ u.key = k /\ u.at = "clean_images" /\ u.todo = todo
      /\ u.actions = acts
    BY <1>3, <1>5, <1>6, NewTaskType DEF Op
<1>8. Begin(w, u) /\ UNCHANGED <<tables, files, clock, poison, removals>>
    BY <1>1, <1>2, <1>4, <1>6 DEF StartSweep2
<1>9. ShapeOK(u) /\ StoreOK(u)' /\ PushOK(u)
    BY <1>4, <1>7, TakingShape
<1>10. DeleterOK(u)
    BY <1>3, <1>4, <1>7 DEF DeleterOK, Unstores, Range
<1> QED
    BY <1>8, <1>9, <1>10, BeginStep DEF PlacesOrNot

LEMMA FsckStep ==
    ASSUME IInv, NEW w \in Worker, NEW n \in Node, StartFsck(w, n)
    PROVE  IInv'
<1>1. PICK k \in Key : k = CHOOSE j \in Key : TRUE
    BY SomeKey
<1>2. PICK todo : todo = {j \in Key : Present(j) /\ n \in row(j).locations}
    OBVIOUS
<1>3. todo \in SUBSET Key
    BY <1>2
<1>4. PICK acts : acts = <<>>
    OBVIOUS
<1>5. acts \in Seq(Action)
    BY <1>4
<1>6. PICK u \in Task : u = NewTask("fsck", n, k, "check", todo, acts)
    BY <1>3, <1>5, NewTaskType DEF Op
<1>7. /\ u.op = "fsck" /\ u.node = n /\ u.key = k /\ u.at = "check" /\ u.todo = todo
      /\ u.actions = acts
    BY <1>3, <1>5, <1>6, NewTaskType DEF Op
<1>8. Begin(w, u) /\ UNCHANGED <<tables, files, clock, poison, removals>>
    BY <1>1, <1>2, <1>4, <1>6 DEF StartFsck
<1>9. ShapeOK(u) /\ StoreOK(u)' /\ PushOK(u)
    BY <1>4, <1>7, TakingShape
<1>10. DeleterOK(u)
    BY <1>2, <1>4, <1>7 DEF DeleterOK, Unstores, Range
<1> QED
    BY <1>8, <1>9, <1>10, BeginStep DEF PlacesOrNot

-----------------------------------------------------------------------------
(***************************************************************************)
(* Tasks go on.                                                            *)
(***************************************************************************)
LEMMA OneRuns ==
    ASSUME IInv, NEW w \in Worker, task[w] # NoTask
    PROVE  /\ task[w] \in RunningTasks /\ task[w] \in Task
           /\ ShapeOK(task[w]) /\ StoreOK(task[w]) /\ DeleterOK(task[w]) /\ PushOK(task[w])
<1>1. task[w] \in RunningTasks /\ task[w] \in Task
    BY DEF RunningTasks, IInv, TypeOK
<1> QED
    BY <1>1 DEF IInv, TaskOK

LEMMA AppendFacts ==
    ASSUME NEW S, NEW s \in Seq(S), NEW a
    PROVE  /\ DOMAIN Append(s, a) = 1 .. Len(s) + 1 /\ DOMAIN s = 1 .. Len(s) /\ Len(s) \in Nat
           /\ \A i \in DOMAIN s : i \in DOMAIN Append(s, a) /\ Append(s, a)[i] = s[i]
           /\ Append(s, a)[Len(s) + 1] = a
           /\ \A i \in DOMAIN Append(s, a) : i \in DOMAIN s \/ i = Len(s) + 1
           /\ Range(Append(s, a)) = Range(s) \cup {a}
<1>1. /\ DOMAIN Append(s, a) = 1 .. Len(s) + 1 /\ DOMAIN s = 1 .. Len(s) /\ Len(s) \in Nat
      /\ \A i \in DOMAIN s : i \in DOMAIN Append(s, a) /\ Append(s, a)[i] = s[i]
      /\ Append(s, a)[Len(s) + 1] = a
      /\ \A i \in DOMAIN Append(s, a) : i \in DOMAIN s \/ i = Len(s) + 1
    OBVIOUS
<1>2. Len(s) + 1 \in DOMAIN Append(s, a)
    BY <1>1
<1>3. Range(Append(s, a)) = Range(s) \cup {a}
    BY <1>1, <1>2 DEF Range
<1> QED
    BY <1>1, <1>3

\* A turn of the loop that drops what is pending.
LEMMA SkipStep ==
    ASSUME IInv, NEW w \in Worker, NEW x \in Extraction, task[w] # NoTask,
           task[w].at = "extract", x \in task[w].pending, Skipped(task[w], BlobOf(x.digest)),
           Go(w, [task[w] EXCEPT !.pending = @ \ {x}]),
           UNCHANGED <<tables, files, clock, poison, removals>>
    PROVE  IInv'
<1>1. PICK t : t = task[w]
    OBVIOUS
<1>2. t \in Task /\ ShapeOK(t) /\ PushOK(t)
    BY <1>1, OneRuns
<1>3. t.op = "put" /\ t.at = "extract"
    BY <1>1, <1>2 DEF ShapeOK
<1>4. PICK u : u = [t EXCEPT !.pending = @ \ {x}]
    OBVIOUS
<1>5. /\ u \in Task /\ u.op = t.op /\ u.key = t.key /\ u.at = t.at /\ u.actions = t.actions
      /\ u.node = t.node /\ u.todo = t.todo /\ u.pending = t.pending \ {x}
    BY <1>2, <1>4 DEF Task
<1>6. PushedBy(u) = PushedBy(t)
    BY <1>5 DEF PushedBy
<1>7. ShapeOK(u)
    BY <1>2, <1>3, <1>5, <1>6 DEF ShapeOK, ActionOK
<1>8. StoreOK(u)' /\ DeleterOK(u)
    BY <1>3, <1>5 DEF StoreOK, DeleterOK, Deleter
<1>9. PushOK(u)
    <2>1. Seen(u) = Seen(t)
        BY <1>5 DEF Seen
    <2>2. BlobOf(x.digest) \in Seen(t) \/ Done(x.digest)
        BY <1>1 DEF Skipped, Done
    <2> QED
        BY <1>2, <1>3, <1>5, <2>1, <2>2 DEF PushOK
<1> QED
    BY <1>1, <1>4, <1>5, <1>7, <1>8, <1>9, <1>3, GoStep DEF PlacesOrNot

\* A turn that analyses a blob.
LEMMA AnalyseStep ==
    ASSUME IInv, NEW w \in Worker, NEW x \in Extraction, task[w] # NoTask,
           task[w].at = "extract", x \in task[w].pending, Allowed(task[w], x),
           Go(w, Analysed(task[w], x)),
           UNCHANGED <<tables, files, clock, poison, removals>>
    PROVE  IInv'
<1>1. PICK t : t = task[w]
    OBVIOUS
<1>2. t \in Task /\ ShapeOK(t) /\ PushOK(t)
    BY <1>1, OneRuns
<1>3. /\ t.op = "put" /\ t.at = "extract" /\ x \in t.pending /\ t.key \in Key
      /\ t.actions \in Seq(Action) /\ t.pending \in SUBSET Extraction
      /\ t.key[1] = "manifest" /\ x.digest \in Below[t.key[2]]
    BY <1>1, <1>2 DEF ShapeOK, Task
<1>4. t.key[2] \in Digest /\ x.digest \in Digest
    BY <1>3, KeyFacts DEF Extraction
<1>5. PICK k \in Key : k = BlobOf(x.digest) /\ k[1] = "blob" /\ k[2] = x.digest
    BY <1>4, KeyFacts
<1>6. PICK found : found = Extracted(x)
    OBVIOUS
<1>7. /\ found \in SUBSET Extraction /\ DigestsIn(found) \in SUBSET Digest
      /\ DigestsIn(found) \subseteq Content[x.digest]
      /\ \A y \in found : y.digest \in Below[t.key[2]]
    <2>1. found \subseteq Found[x.digest]
        BY <1>6 DEF Extracted
    <2>2. DigestsIn(found) \subseteq DigestsIn(Found[x.digest])
        BY <2>1 DEF DigestsIn
    <2>3. Content[x.digest] \subseteq Below[t.key[2]]
        BY <1>3, <1>4, BelowFacts
    <2>4. \A y \in found : y.digest \in DigestsIn(found)
        BY DEF DigestsIn
    <2> QED
        BY <1>4, <2>1, <2>2, <2>3, <2>4, ContentType
<1>8. PICK a : a = Describing(k, DigestsIn(found))
    OBVIOUS
<1>9. a \in Action /\ a.type = "Info" /\ a.key = k /\ a.dependencies = DigestsIn(found)
    BY <1>7, <1>8, MadeActions, MadeFields DEF IInv
<1>10. PICK u : u = [t EXCEPT !.actions = Append(@, a), !.pending = (@ \ {x}) \cup found]
    OBVIOUS
<1>11. u = Analysed(t, x) /\ Append(t.actions, a) \in Seq(Action)
    BY <1>3, <1>5, <1>6, <1>8, <1>9, <1>10 DEF Analysed
<1>12. /\ u \in Task /\ u.op = t.op /\ u.key = t.key /\ u.at = t.at /\ u.node = t.node
       /\ u.todo = t.todo /\ u.actions = Append(t.actions, a)
       /\ u.pending = (t.pending \ {x}) \cup found
    BY <1>2, <1>3, <1>7, <1>10, <1>11 DEF Task
<1>13. PushedBy(u) = PushedBy(t) /\ k \in PushedBy(t)
    BY <1>3, <1>5, <1>12 DEF PushedBy
<1>14. /\ DOMAIN Append(t.actions, a) = 1 .. Len(t.actions) + 1
       /\ DOMAIN t.actions = 1 .. Len(t.actions) /\ Len(t.actions) \in Nat
       /\ \A i \in DOMAIN t.actions :
             i \in DOMAIN Append(t.actions, a) /\ Append(t.actions, a)[i] = t.actions[i]
       /\ Append(t.actions, a)[Len(t.actions) + 1] = a
       /\ \A i \in DOMAIN Append(t.actions, a) : i \in DOMAIN t.actions \/ i = Len(t.actions) + 1
       /\ Range(Append(t.actions, a)) = Range(t.actions) \cup {a}
    BY <1>3, AppendFacts
<1>15. ShapeOK(u)
    <2>1. ASSUME NEW i \in DOMAIN u.actions PROVE ActionOK(u, i)
        <3>1. CASE i \in DOMAIN t.actions
            <4>1. ActionOK(t, i) /\ u.actions[i] = t.actions[i]
                BY <1>2, <1>12, <1>14, <3>1 DEF ShapeOK
            <4> QED
                BY <1>12, <1>13, <4>1 DEF ActionOK
        <3>2. CASE i = Len(t.actions) + 1
            <4>1. u.actions[i] = a /\ "Info" \in TypesOf(u.op)
                BY <1>3, <1>12, <1>14, <3>2, TypesOfFacts
            <4> QED
                BY <1>5, <1>7, <1>9, <1>13, <4>1 DEF ActionOK
        <3> QED
            BY <1>12, <1>14, <3>1, <3>2
    <2>2. u.actions # <<>> /\ u.actions[1].type = "Mounted"
        <3>1. t.actions # <<>> /\ t.actions[1].type = "Mounted"
            BY <1>2, <1>3 DEF ShapeOK
        <3>2. 1 \in DOMAIN t.actions
            BY <1>3, <3>1
        <3> QED
            BY <1>12, <1>14, <3>1, <3>2
    <2>3. \A y \in u.pending : y.digest \in Below[u.key[2]]
        BY <1>2, <1>3, <1>7, <1>12 DEF ShapeOK
    <2> QED
        BY <1>3, <1>12, <2>1, <2>2, <2>3 DEF ShapeOK
<1>16. StoreOK(u)' /\ DeleterOK(u)
    BY <1>3, <1>12 DEF StoreOK, DeleterOK, Deleter
<1>17. PushOK(u)
    <2>1. Seen(u) = Seen(t) \cup {k}
        <3>1. \A i \in DOMAIN t.actions : u.actions[i] = t.actions[i] /\ i \in DOMAIN u.actions
            BY <1>12, <1>14
        <3>2. Len(t.actions) + 1 \in DOMAIN u.actions /\ u.actions[Len(t.actions) + 1] = a
            BY <1>12, <1>14
        <3>3. \A i \in DOMAIN u.actions : i \in DOMAIN t.actions \/ i = Len(t.actions) + 1
            BY <1>12, <1>14
        <3> QED
            BY <1>9, <3>1, <3>2, <3>3 DEF Seen
    <2>2. Present(k)
        BY <1>5 DEF Allowed
    <2>3. \A d \in a.dependencies : \E y \in u.pending : y.digest = d
        BY <1>9, <1>12 DEF DigestsIn
    <2>4. ASSUME NEW b \in Range(t.actions), b.type = "Info", NEW d \in b.dependencies
          PROVE  BlobOf(d) \in Seen(u) \/ Done(d) \/ \E y \in u.pending : y.digest = d
        <3>1. BlobOf(d) \in Seen(t) \/ Done(d) \/ \E y \in t.pending : y.digest = d
            BY <1>2, <1>3, <2>4 DEF PushOK
        <3> QED
            BY <1>5, <1>12, <2>1, <3>1
    <2> QED
        BY <1>2, <1>3, <1>12, <1>14, <2>1, <2>2, <2>3, <2>4 DEF PushOK
<1> QED
    BY <1>1, <1>3, <1>11, <1>12, <1>15, <1>16, <1>17, GoStep DEF PlacesOrNot

LEMMA ExtractStep ==
    ASSUME IInv, NEW w \in Worker, NEW x \in Extraction, ExtractOne(w, x)
    PROVE  IInv'
<1>1. /\ task[w] # NoTask /\ task[w].at = "extract" /\ x \in task[w].pending
      /\ UNCHANGED <<tables, files, clock, poison, removals>>
    BY DEF ExtractOne
<1>2. CASE /\ Skipped(task[w], BlobOf(x.digest))
           /\ Go(w, [task[w] EXCEPT !.pending = @ \ {x}])
    BY <1>1, <1>2, SkipStep
<1>3. CASE Allowed(task[w], x) /\ Go(w, Analysed(task[w], x))
    BY <1>1, <1>3, AnalyseStep
<1>4. CASE Quit(w)
    <2>1. task[w].op = "put"
        BY <1>1, OneRuns DEF ShapeOK
    <2> QED
        BY <1>1, <1>4, <2>1, QuitStep
<1> QED
    BY <1>2, <1>3, <1>4 DEF ExtractOne

\* The file of what a push, a download stores is in place when it is submitted.
LEMMA SubmitStores ==
    ASSUME TypeOK, NEW u \in Task, ShapeOK(u), u.op \notin Deleter, u.op \notin {"sweep1", "delete"},
           Place(u.node, u.key)
    PROVE  StoreOK(u)' /\ PlacesOrNot
<1>1. u.node \in Node /\ u.key \in Key
    BY DEF Task
<1>2. u.key \in files'[u.node]
    BY <1>1 DEF Place, TypeOK
<1>3. ASSUME NEW n \in Node, NEW k \in Key, Stores(u, n, k) PROVE k = u.key /\ n = u.node
    <2>1. PICK i \in DOMAIN u.actions : u.actions[i] = Storing(k, n)
        BY <1>3 DEF Stores, Range
    <2>2. ActionOK(u, i)
        BY DEF ShapeOK
    <2> QED
        BY <2>1, <2>2, MadeFields DEF ActionOK
<1>4. StoreOK(u)'
    BY <1>2, <1>3 DEF StoreOK, Stores, Storing
<1> QED
    BY <1>1, <1>4 DEF PlacesOrNot

LEMMA FinishPutStep ==
    ASSUME IInv, NEW w \in Worker, NEW tag \in Tag, FinishPut(w, tag)
    PROVE  IInv'
<1>1. PICK t : t = task[w]
    OBVIOUS
<1>2. task[w] # NoTask /\ t.at = "extract" /\ t.pending = {} /\ Place(t.node, t.key)
      /\ UNCHANGED <<tables, clock, poison>>
    BY <1>1 DEF FinishPut
<1>3. t \in Task /\ ShapeOK(t) /\ PushOK(t)
    BY <1>1, <1>2, OneRuns
<1>4. /\ t.op = "put" /\ t.key \in Key /\ t.actions \in Seq(Action) /\ t.key[1] = "manifest"
      /\ t.actions # <<>> /\ t.actions[1].type = "Mounted"
    BY <1>2, <1>3 DEF ShapeOK, Task
<1>5. PICK a : a = [type |-> "HashTagged", repository |-> RepositoryOf(t), tag |-> tag,
                    digest |-> t.key[2]]
    OBVIOUS
<1>6. a \in Action /\ a.type = "HashTagged" /\ a.digest = t.key[2]
    <2>1. t.actions[1] \in Action
        BY <1>4
    <2>2. RepositoryOf(t) \in Repository /\ t.key[2] \in Digest
        BY <1>4, <2>1, ActionFields, KeyFacts DEF RepositoryOf
    <2> QED
        BY <1>5, <2>2 DEF Action, OtherAction
<1>7. PICK u : u = [t EXCEPT !.at = "submit", !.actions = Append(@, a)]
    OBVIOUS
<1>8. Append(t.actions, a) \in Seq(Action)
    BY <1>4, <1>6
<1>9. /\ u \in Task /\ u.op = t.op /\ u.key = t.key /\ u.at = "submit" /\ u.node = t.node
      /\ u.actions = Append(t.actions, a) /\ u.todo = t.todo /\ u.pending = t.pending
    BY <1>3, <1>7, <1>8 DEF Task
<1>10. Go(w, u)
    BY <1>1, <1>5, <1>7 DEF FinishPut
<1>11. PushedBy(u) = PushedBy(t)
    BY <1>9 DEF PushedBy
<1>12. /\ DOMAIN Append(t.actions, a) = 1 .. Len(t.actions) + 1
       /\ DOMAIN t.actions = 1 .. Len(t.actions) /\ Len(t.actions) \in Nat
       /\ \A i \in DOMAIN t.actions :
             i \in DOMAIN Append(t.actions, a) /\ Append(t.actions, a)[i] = t.actions[i]
       /\ Append(t.actions, a)[Len(t.actions) + 1] = a
       /\ \A i \in DOMAIN Append(t.actions, a) : i \in DOMAIN t.actions \/ i = Len(t.actions) + 1
    BY <1>4, AppendFacts
<1>13. ShapeOK(u)
    <2>1. ASSUME NEW i \in DOMAIN u.actions PROVE ActionOK(u, i)
        <3>1. CASE i \in DOMAIN t.actions
            <4>1. ActionOK(t, i) /\ u.actions[i] = t.actions[i]
                BY <1>3, <1>9, <1>12, <3>1 DEF ShapeOK
            <4> QED
                BY <1>9, <1>11, <4>1 DEF ActionOK
        <3>2. CASE i = Len(t.actions) + 1
            BY <1>4, <1>6, <1>9, <1>12, <3>2, TypesOfFacts DEF ActionOK
        <3> QED
            BY <1>9, <1>12, <3>1, <3>2
    <2>2. u.actions # <<>> /\ u.actions[1].type = "Mounted"
        <3>1. 1 \in DOMAIN t.actions
            BY <1>4
        <3> QED
            BY <1>4, <1>9, <1>12, <3>1
    <2> QED
        BY <1>2, <1>4, <1>9, <2>1, <2>2 DEF ShapeOK
<1>14. StoreOK(u)' /\ PlacesOrNot
    <2>1. u.op \notin Deleter /\ u.op \notin {"sweep1", "delete"} /\ Place(u.node, u.key)
        BY <1>2, <1>4, <1>9 DEF Deleter
    <2> QED
        BY <1>9, <1>13, <2>1, SubmitStores DEF IInv
<1>15. DeleterOK(u)
    BY <1>4, <1>9 DEF DeleterOK, Deleter
<1>16. PushOK(u)
    <2>1. Seen(u) = Seen(t)
        <3>1. \A i \in DOMAIN t.actions : u.actions[i] = t.actions[i] /\ i \in DOMAIN u.actions
            BY <1>9, <1>12
        <3>2. u.actions[Len(t.actions) + 1] = a
            BY <1>9, <1>12
        <3>3. \A i \in DOMAIN u.actions : i \in DOMAIN t.actions \/ i = Len(t.actions) + 1
            BY <1>9, <1>12
        <3> QED
            BY <1>6, <3>1, <3>2, <3>3 DEF Seen
    <2>2. Range(u.actions) = Range(t.actions) \cup {a}
        BY <1>4, <1>9, AppendFacts
    <2> QED
        BY <1>3, <1>6, <1>9, <2>1, <2>2 DEF PushOK
<1> QED
    BY <1>1, <1>2, <1>4, <1>9, <1>10, <1>13, <1>14, <1>15, <1>16, GoStep

LEMMA FetchStep ==
    ASSUME IInv, NEW w \in Worker, Fetch(w)
    PROVE  IInv'
<1>1. PICK t : t = task[w]
    OBVIOUS
<1>2. task[w] # NoTask /\ t.at = "fetch" /\ Place(t.node, t.key)
      /\ UNCHANGED <<tables, clock, poison>>
    BY <1>1 DEF Fetch
<1>3. t \in Task /\ ShapeOK(t)
    BY <1>1, <1>2, OneRuns
<1>4. t.op = "transfer"
    BY <1>2, <1>3 DEF ShapeOK
<1>5. PICK u : u = [t EXCEPT !.at = "submit"]
    OBVIOUS
<1>6. /\ u \in Task /\ u.op = t.op /\ u.key = t.key /\ u.at = "submit" /\ u.node = t.node
      /\ u.actions = t.actions /\ u.todo = t.todo
    BY <1>3, <1>5 DEF Task
<1>7. Go(w, u)
    BY <1>1, <1>5 DEF Fetch
<1>8. PushedBy(u) = PushedBy(t)
    BY <1>6 DEF PushedBy
<1>9. ShapeOK(u)
    BY <1>3, <1>4, <1>6, <1>8 DEF ShapeOK, ActionOK
<1>10. StoreOK(u)' /\ PlacesOrNot
    <2>1. u.op \notin Deleter /\ u.op \notin {"sweep1", "delete"} /\ Place(u.node, u.key)
        BY <1>2, <1>4, <1>6 DEF Deleter
    <2> QED
        BY <1>6, <1>9, <2>1, SubmitStores DEF IInv
<1>11. DeleterOK(u) /\ PushOK(u)
    BY <1>4, <1>6 DEF DeleterOK, Deleter, PushOK
<1> QED
    BY <1>1, <1>2, <1>4, <1>6, <1>7, <1>9, <1>10, <1>11, GoStep

LEMMA FetchFailsStep ==
    ASSUME IInv, NEW w \in Worker, FetchFails(w)
    PROVE  IInv'
<1>1. task[w] # NoTask /\ task[w].at = "fetch" /\ Quit(w)
      /\ UNCHANGED <<tables, files, clock, poison, removals>>
    BY DEF FetchFails
<1>2. task[w].op = "transfer"
    BY <1>1, OneRuns DEF ShapeOK
<1> QED
    BY <1>1, <1>2, QuitStep

LEMMA SweepBlobs1Step ==
    ASSUME IInv, NEW w \in Worker, SweepBlobs1(w)
    PROVE  IInv'
<1>1. PICK t : t = task[w]
    OBVIOUS
<1>2. PICK keys : keys = {j \in OrphanedBlobs : Old(j)}
    OBVIOUS
<1>3. keys \in SUBSET Key /\ \A j \in keys : Present(j)
    BY <1>2 DEF OrphanedBlobs, Rows
<1>4. PICK more : more = Unmounts(keys)
    OBVIOUS
<1>5. more \in Seq(Action) /\ \A i \in DOMAIN more : more[i].type = "Unmounted"
    BY <1>3, <1>4, UnmountsType DEF IInv
<1>6. task[w] # NoTask /\ t.op = "sweep1" /\ t.at = "blobs"
      /\ SubmitOrQuit(w, [t EXCEPT !.actions = @ \o more])
      /\ UNCHANGED <<tables, files, clock, poison, removals>>
    BY <1>1, <1>2, <1>4 DEF SweepBlobs1
<1>7. t \in Task /\ ShapeOK(t) /\ t.actions \in Seq(Action)
    BY <1>1, <1>6, OneRuns DEF Task
<1>8. CASE Quit(w)
    BY <1>1, <1>6, <1>8, QuitStep
<1>9. CASE Go(w, [[t EXCEPT !.actions = @ \o more] EXCEPT !.at = "submit"])
    <2>1. PICK acts : acts = t.actions \o more
        OBVIOUS
    <2>2. acts \in Seq(Action) /\ \A i \in DOMAIN acts : acts[i].type = "Unmounted"
        <3>1. \A i \in DOMAIN t.actions : t.actions[i].type = "Unmounted"
            BY <1>6, <1>7, TypesOfFacts DEF ShapeOK, ActionOK
        <3>2. ASSUME NEW i \in DOMAIN acts PROVE acts[i].type = "Unmounted"
            <4>1. CASE i <= Len(t.actions)
                BY <1>5, <1>7, <2>1, <3>1, <4>1
            <4>2. CASE i > Len(t.actions)
                BY <1>5, <1>7, <2>1, <4>2
            <4> QED
                BY <1>5, <1>7, <2>1, <4>1, <4>2
        <3> QED
            BY <1>5, <1>7, <2>1, <3>2
    <2>3. PICK u : u = [[t EXCEPT !.actions = @ \o more] EXCEPT !.at = "submit"]
        OBVIOUS
    <2>4. /\ u \in Task /\ u.op = t.op /\ u.key = t.key /\ u.at = "submit" /\ u.node = t.node
          /\ u.actions = acts
        BY <1>7, <2>1, <2>2, <2>3 DEF Task
    <2>5. ShapeOK(u) /\ StoreOK(u)' /\ PushOK(u)
        BY <1>6, <2>2, <2>4, TakingShape
    <2>6. DeleterOK(u)
        BY <1>6, <2>4 DEF DeleterOK, Deleter
    <2> QED
        BY <1>1, <1>6, <1>9, <2>3, <2>4, <2>5, <2>6, GoStep DEF PlacesOrNot
<1> QED
    BY <1>6, <1>8, <1>9 DEF SubmitOrQuit

\* The transaction of a sweep or of fsck takes locations of its node away.
LEMMA DeleterActions ==
    ASSUME NEW t \in Task, ShapeOK(t), t.op \in Deleter
    PROVE  /\ \A i \in DOMAIN t.actions :
                 /\ t.actions[i].type = "Unstored" /\ t.actions[i].location = t.node
                 /\ t.actions[i].key \in Key /\ t.actions[i] = Unstoring(t.actions[i].key, t.node)
           /\ t.actions \in Seq(Action) /\ t.node \in Node
<1>1. t.actions \in Seq(Action) /\ t.node \in Node
    BY DEF Task
<1>2. ASSUME NEW i \in DOMAIN t.actions
      PROVE  /\ t.actions[i].type = "Unstored" /\ t.actions[i].location = t.node
             /\ t.actions[i].key \in Key /\ t.actions[i] = Unstoring(t.actions[i].key, t.node)
    <2>1. ActionOK(t, i) /\ t.actions[i] \in Action
        BY <1>1 DEF ShapeOK
    <2>2. t.actions[i].type = "Unstored"
        BY <2>1, TypesOfFacts DEF ActionOK, Deleter
    <2> QED
        BY <2>1, <2>2, ActionFields DEF ActionOK, RowActionType
<1> QED
    BY <1>1, <1>2

\* One more.
LEMMA AppendUnstoring ==
    ASSUME NEW t \in Task, ShapeOK(t), t.op \in Deleter, NEW k \in Key, TypeOK
    PROVE  /\ Append(t.actions, Unstoring(k, t.node)) \in Seq(Action)
           /\ \A i \in DOMAIN Append(t.actions, Unstoring(k, t.node)) :
                 /\ Append(t.actions, Unstoring(k, t.node))[i].type = "Unstored"
                 /\ Append(t.actions, Unstoring(k, t.node))[i].location = t.node
           /\ \A n, j : Unstoring(j, n) \in Range(Append(t.actions, Unstoring(k, t.node)))
                           <=> Unstores(t, n, j) \/ (n = t.node /\ j = k)
<1>1. /\ \A i \in DOMAIN t.actions :
            t.actions[i].type = "Unstored" /\ t.actions[i].location = t.node
      /\ t.actions \in Seq(Action) /\ t.node \in Node
    BY DeleterActions
<1>2. PICK a : a = Unstoring(k, t.node)
    OBVIOUS
<1>3. a \in Action /\ a.type = "Unstored" /\ a.location = t.node
    BY <1>1, <1>2, MadeActions, MadeFields
<1>4. /\ \A i \in DOMAIN t.actions :
            i \in DOMAIN Append(t.actions, a) /\ Append(t.actions, a)[i] = t.actions[i]
      /\ Append(t.actions, a)[Len(t.actions) + 1] = a
      /\ \A i \in DOMAIN Append(t.actions, a) : i \in DOMAIN t.actions \/ i = Len(t.actions) + 1
      /\ Range(Append(t.actions, a)) = Range(t.actions) \cup {a}
    BY <1>1, AppendFacts
<1>5. \A n, j : Unstoring(j, n) = a <=> n = t.node /\ j = k
    BY <1>2, MadeFields
<1>6. Append(t.actions, a) \in Seq(Action)
    BY <1>1, <1>3
<1>7. \A i \in DOMAIN Append(t.actions, a) :
          Append(t.actions, a)[i].type = "Unstored" /\ Append(t.actions, a)[i].location = t.node
    BY <1>1, <1>3, <1>4
<1>8. \A n, j : Unstoring(j, n) \in Range(Append(t.actions, a))
                   <=> Unstores(t, n, j) \/ (n = t.node /\ j = k)
    BY <1>4, <1>5 DEF Unstores
<1> QED
    BY <1>2, <1>6, <1>7, <1>8

LEMMA SweepBlobs2Step ==
    ASSUME IInv, NEW w \in Worker, SweepBlobs2(w)
    PROVE  IInv'
<1>1. PICK t : t = task[w]
    OBVIOUS
<1>2. PICK todo : todo = Collectable(t.node, OrphanedBlobs)
    OBVIOUS
<1>3. todo \in SUBSET Key /\ \A j \in todo : Spared(j)
    BY <1>2, OrphansAreSpared DEF Collectable, IInv
<1>4. task[w] # NoTask /\ t.at = "clean_images"
      /\ Go(w, [t EXCEPT !.at = "clean_blobs", !.todo = todo])
      /\ UNCHANGED <<tables, files, clock, poison, removals>>
    BY <1>1, <1>2 DEF SweepBlobs2
<1>5. t \in Task /\ ShapeOK(t) /\ DeleterOK(t)
    BY <1>1, <1>4, OneRuns
<1>6. t.op = "sweep2" /\ t.op \in Deleter
    BY <1>4, <1>5 DEF ShapeOK, Deleter
<1>7. PICK u : u = [t EXCEPT !.at = "clean_blobs", !.todo = todo]
    OBVIOUS
<1>8. /\ u \in Task /\ u.op = t.op /\ u.key = t.key /\ u.at = "clean_blobs" /\ u.node = t.node
      /\ u.actions = t.actions /\ u.todo = todo
    BY <1>3, <1>5, <1>7 DEF Task
<1>9. \A i \in DOMAIN t.actions : t.actions[i].type = "Unstored" /\ t.actions[i].location = t.node
    BY <1>5, <1>6, DeleterActions
<1>10. ShapeOK(u) /\ StoreOK(u)' /\ PushOK(u)
    BY <1>6, <1>8, <1>9, TakingShape
<1>11. DeleterOK(u) /\ \A n, k : Unstores(t, n, k) => Unstores(u, n, k)
    BY <1>3, <1>5, <1>6, <1>8 DEF DeleterOK, Unstores
<1> QED
    BY <1>1, <1>4, <1>7, <1>8, <1>10, <1>11, GoStep, TaskAssumption DEF PlacesOrNot

\* A task that has looked at everything submits.
LEMMA SubmitStep ==
    ASSUME IInv, NEW w \in Worker, task[w] # NoTask, task[w].op \in Deleter, task[w].todo = {},
           Go(w, [task[w] EXCEPT !.at = "submit"]),
           UNCHANGED <<tables, files, clock, poison, removals>>
    PROVE  IInv'
<1>1. PICK t : t = task[w]
    OBVIOUS
<1>2. t \in Task /\ ShapeOK(t) /\ DeleterOK(t)
    BY <1>1, OneRuns
<1>3. PICK u : u = [t EXCEPT !.at = "submit"]
    OBVIOUS
<1>4. /\ u \in Task /\ u.op = t.op /\ u.key = t.key /\ u.at = "submit" /\ u.node = t.node
      /\ u.actions = t.actions /\ u.todo = {}
    BY <1>1, <1>2, <1>3 DEF Task
<1>5. \A i \in DOMAIN t.actions : t.actions[i].type = "Unstored" /\ t.actions[i].location = t.node
    BY <1>1, <1>2, DeleterActions
<1>6. ShapeOK(u) /\ StoreOK(u)' /\ PushOK(u)
    BY <1>1, <1>4, <1>5, TakingShape DEF Deleter
<1>7. DeleterOK(u) /\ \A n, k : Unstores(t, n, k) => Unstores(u, n, k)
    BY <1>1, <1>2, <1>4 DEF DeleterOK, Unstores
<1> QED
    BY <1>1, <1>3, <1>4, <1>6, <1>7, GoStep, TaskAssumption DEF PlacesOrNot

LEMMA FinishSweep2Step ==
    ASSUME IInv, NEW w \in Worker, FinishSweep2(w)
    PROVE  IInv'
<1>1. /\ task[w] # NoTask /\ task[w].at = "clean_blobs" /\ task[w].todo = {}
      /\ SubmitOrQuit(w, task[w]) /\ UNCHANGED <<tables, files, clock, poison, removals>>
    BY DEF FinishSweep2
<1>2. task[w].op = "sweep2" /\ task[w].op \in Deleter
    BY <1>1, OneRuns DEF ShapeOK, Deleter
<1>3. CASE task[w].actions = <<>> /\ Quit(w)
    BY <1>1, <1>3, QuitStep
<1>4. CASE Go(w, [task[w] EXCEPT !.at = "submit"])
    BY <1>1, <1>2, <1>4, SubmitStep
<1> QED
    BY <1>1, <1>3, <1>4 DEF SubmitOrQuit

LEMMA FinishFsckStep ==
    ASSUME IInv, NEW w \in Worker, NEW repair \in BOOLEAN, FinishFsck(w, repair)
    PROVE  IInv'
<1>1. /\ task[w] # NoTask /\ task[w].at = "check" /\ task[w].todo = {}
      /\ Quit(w) \/ Go(w, [task[w] EXCEPT !.at = "submit"])
      /\ UNCHANGED <<tables, files, clock, poison, removals>>
    BY DEF FinishFsck
<1>2. task[w].op = "fsck" /\ task[w].op \in Deleter
    BY <1>1, OneRuns DEF ShapeOK, Deleter
<1>3. CASE Quit(w)
    BY <1>1, <1>2, <1>3, QuitStep
<1>4. CASE Go(w, [task[w] EXCEPT !.at = "submit"])
    BY <1>1, <1>2, <1>4, SubmitStep
<1> QED
    BY <1>1, <1>3, <1>4

\* What fsck misses, a sweep has removed.
LEMMA MissingIsSpared ==
    ASSUME IInv, NEW n \in Node, NEW k \in Key, Present(k), n \in row(k).locations,
           k \notin files[n]
    PROVE  Spared(k)
<1>1. <<n, k>> \in unlogged \cup crossed
    BY DEF IInv, LocationHasFile
<1>2. CASE k \in botched
    BY <1>2 DEF Spared
<1>3. CASE \E t \in RunningTasks : t.op = "sweep2" /\ Unstores(t, n, k)
    <2>1. PICK t \in RunningTasks : t.op = "sweep2" /\ Unstores(t, n, k)
        BY <1>3
    <2>2. DeleterOK(t)
        BY DEF IInv, TaskOK
    <2> QED
        BY <2>1, <2>2 DEF DeleterOK, Deleter
<1> QED
    BY <1>1, <1>2, <1>3 DEF IInv, UnloggedOK, CrossedOK

LEMMA CheckFileStep ==
    ASSUME IInv, NEW w \in Worker, NEW k \in Key, CheckFile(w, k)
    PROVE  IInv'
<1>1. PICK t : t = task[w]
    OBVIOUS
<1>2. PICK acts : acts = IF k \in files[t.node] THEN t.actions
                         ELSE Append(t.actions, Unstoring(k, t.node))
    OBVIOUS
<1>3. task[w] # NoTask /\ t.at = "check" /\ k \in t.todo
      /\ Go(w, [t EXCEPT !.todo = @ \ {k}, !.actions = acts])
      /\ UNCHANGED <<tables, files, clock, poison, removals>>
    BY <1>1, <1>2 DEF CheckFile
<1>4. t \in Task /\ ShapeOK(t) /\ DeleterOK(t)
    BY <1>1, <1>3, OneRuns
<1>5. t.op = "fsck" /\ t.op \in Deleter /\ t.node \in Node
    BY <1>3, <1>4 DEF ShapeOK, Deleter, Task
<1>6. /\ acts \in Seq(Action)
      /\ \A i \in DOMAIN acts : acts[i].type = "Unstored" /\ acts[i].location = t.node
      /\ \A n, j : Unstoring(j, n) \in Range(acts) =>
            Unstores(t, n, j) \/ (n = t.node /\ j = k /\ k \notin files[t.node])
    <2>1. CASE k \in files[t.node]
        <3>1. acts = t.actions
            BY <1>2, <2>1
        <3> QED
            BY <1>4, <1>5, <3>1, DeleterActions DEF Unstores
    <2>2. CASE k \notin files[t.node]
        <3>1. acts = Append(t.actions, Unstoring(k, t.node))
            BY <1>2, <2>2
        <3> QED
            BY <1>4, <1>5, <2>2, <3>1, AppendUnstoring DEF IInv
    <2> QED
        BY <2>1, <2>2
<1>7. PICK u : u = [t EXCEPT !.todo = @ \ {k}, !.actions = acts]
    OBVIOUS
<1>8. /\ u \in Task /\ u.op = t.op /\ u.key = t.key /\ u.at = "check" /\ u.node = t.node
      /\ u.actions = acts /\ u.todo = t.todo \ {k}
    BY <1>3, <1>4, <1>6, <1>7 DEF Task
<1>9. ShapeOK(u) /\ StoreOK(u)' /\ PushOK(u)
    BY <1>5, <1>6, <1>8, TakingShape
<1>10. DeleterOK(u)
    <2>1. k \notin files[t.node] => Spared(k)
        BY <1>3, <1>4, <1>5, MissingIsSpared DEF DeleterOK
    <2> QED
        BY <1>4, <1>5, <1>6, <1>8, <2>1 DEF DeleterOK, Unstores
<1> QED
    BY <1>1, <1>3, <1>5, <1>7, <1>8, <1>9, <1>10, GoStep DEF PlacesOrNot

LEMMA CleanUpStep ==
    ASSUME IInv, NEW w \in Worker, NEW k \in Key, NEW removed \in BOOLEAN, NEW logged \in BOOLEAN,
           CleanUp(w, k, removed, logged)
    PROVE  IInv'
<1>1. PICK t : t = task[w]
    OBVIOUS
<1>2. PICK acts : acts = IF logged THEN Append(t.actions, Unstoring(k, t.node)) ELSE t.actions
    OBVIOUS
<1>3. PICK u : u = [t EXCEPT !.todo = @ \ {k}, !.actions = acts]
    OBVIOUS
<1>4. /\ task[w] # NoTask /\ t.at \in {"clean_images", "clean_blobs"} /\ k \in t.todo
      /\ logged => removed
      /\ UNCHANGED <<tables, clock, poison, dropped>> /\ Go(w, u)
    BY <1>1, <1>2, <1>3 DEF CleanUp
<1>5. /\ files' = IF removed THEN [files EXCEPT ![t.node] = @ \ {k}] ELSE files
      /\ unlogged' = IF removed THEN unlogged \cup {<<t.node, k>>} ELSE unlogged
      /\ crossed' = IF removed /\ AboutToStore(t.node, k) THEN crossed \cup {<<t.node, k>>}
                    ELSE crossed
      /\ botched' = IF removed /\ (~logged \/ AboutToStore(t.node, k))
                    THEN botched \cup {k} ELSE botched
    BY <1>1 DEF CleanUp
<1>6. t \in Task /\ ShapeOK(t) /\ DeleterOK(t) /\ TypeOK
    BY <1>1, <1>4, OneRuns DEF IInv
<1>7. t.op = "sweep2" /\ t.op \in Deleter /\ t.node \in Node
    BY <1>4, <1>6 DEF ShapeOK, Deleter, Task
<1>8. /\ acts \in Seq(Action)
      /\ \A i \in DOMAIN acts : acts[i].type = "Unstored" /\ acts[i].location = t.node
      /\ \A n, j : Unstoring(j, n) \in Range(acts) <=>
            Unstores(t, n, j) \/ (n = t.node /\ j = k /\ logged)
    <2>1. CASE ~logged
        <3>1. acts = t.actions
            BY <1>2, <2>1
        <3> QED
            BY <1>6, <1>7, <2>1, <3>1, DeleterActions DEF Unstores
    <2>2. CASE logged
        <3>1. acts = Append(t.actions, Unstoring(k, t.node))
            BY <1>2, <2>2
        <3> QED
            BY <1>6, <1>7, <2>2, <3>1, AppendUnstoring
    <2> QED
        BY <2>1, <2>2
<1>9. /\ u \in Task /\ u.op = t.op /\ u.key = t.key /\ u.at = t.at /\ u.node = t.node
      /\ u.actions = acts /\ u.todo = t.todo \ {k}
    BY <1>3, <1>6, <1>8 DEF Task
<1>10. ShapeOK(u) /\ StoreOK(u)' /\ PushOK(u)
    BY <1>4, <1>7, <1>8, <1>9, TakingShape
<1>11. DeleterOK(u)
    BY <1>4, <1>6, <1>7, <1>8, <1>9 DEF DeleterOK, Unstores
<1>12. u # NoTask /\ task' = [task EXCEPT ![w] = u] /\ UNCHANGED <<begun, overlapped>>
    BY <1>4, <1>9, TaskAssumption DEF Go
<1>13. FilesKept(w, u)
    <2>1. \A n \in Node, j \in Key :
             /\ j \in files'[n] <=> j \in files[n] /\ ~(removed /\ <<n, j>> = <<t.node, k>>)
             /\ <<n, j>> \in unlogged' <=> <<n, j>> \in unlogged \/ (removed /\ <<n, j>> = <<t.node, k>>)
             /\ <<n, j>> \in crossed' <=>
                   \/ <<n, j>> \in crossed
                   \/ removed /\ <<n, j>> = <<t.node, k>> /\ AboutToStore(n, j)
             /\ j \in botched' <=>
                   j \in botched \/ (removed /\ j = k /\ (~logged \/ AboutToStore(t.node, k)))
        BY <1>5, <1>6, <1>7 DEF TypeOK
    <2>2. \A n, j : Unstores(u, n, j) <=> Unstores(t, n, j) \/ (n = t.node /\ j = k /\ logged)
        BY <1>8, <1>9 DEF Unstores
    <2>3. ASSUME NEW n \in Node, NEW j \in Key
          PROVE  /\ (j \in files[n] \/ <<n, j>> \in crossed) /\ AboutToStore(n, j)
                       => j \in files'[n] \/ <<n, j>> \in crossed'
                 /\ j \in files[n] \/ <<n, j>> \in unlogged \cup crossed
                       => j \in files'[n] \/ <<n, j>> \in unlogged' \cup crossed'
                 /\ <<n, j>> \in crossed' => <<n, j>> \in crossed \/ j \in botched'
        BY <2>1
    <2>4. ASSUME NEW n \in Node, NEW j \in Key, <<n, j>> \in unlogged'
          PROVE  \/ j \in botched'
                 \/ u # NoTask /\ u.op = "sweep2" /\ Unstores(u, n, j)
                 \/ <<n, j>> \in unlogged /\ ~(task[w] # NoTask /\ task[w].op = "sweep2" /\ Unstores(task[w], n, j))
        BY <1>1, <1>7, <1>9, <1>12, <2>1, <2>2, <2>4
    <2> QED
        BY <2>3, <2>4 DEF FilesKept
<1>14. TypeOK'
    BY <1>4, <1>5, <1>6, <1>7, <1>9, <1>12 DEF TypeOK
<1>15. botched \subseteq botched'
    BY <1>5
<1> QED
    BY <1>1, <1>4, <1>9, <1>10, <1>11, <1>12, <1>13, <1>14, <1>15, QuietStep

LEMMA WriteFailsStep ==
    ASSUME IInv, NEW w \in Worker, WriteFails(w)
    PROVE  IInv'
<1>1. PICK t : t = task[w]
    OBVIOUS
<1>2. /\ task[w] # NoTask /\ Go(w, NoTask)
      /\ botched' = IF t.op = "sweep2" THEN botched \cup {a.key : a \in Range(t.actions)} ELSE botched
      /\ UNCHANGED <<tables, files, clock, poison, dropped, unlogged, crossed>>
    BY <1>1 DEF WriteFails, Quit
<1>3. t \in Task /\ ShapeOK(t) /\ TypeOK
    BY <1>1, <1>2, OneRuns DEF IInv
<1>4. task' = [task EXCEPT ![w] = NoTask] /\ UNCHANGED <<begun, overlapped>>
    BY <1>2 DEF Go
<1>5. botched \subseteq botched' /\ botched' \subseteq Key
    <2>1. t.op = "sweep2" => {a.key : a \in Range(t.actions)} \subseteq Key
        BY <1>3, DeleterActions DEF Range, Deleter
    <2> QED
        BY <1>2, <1>3, <2>1 DEF TypeOK
<1>6. TypeOK'
    BY <1>2, <1>3, <1>4, <1>5 DEF TypeOK
<1>7. FilesKept(w, NoTask)
    <2>1. ASSUME NEW n \in Node, NEW k \in Key, t.op = "sweep2", Unstores(t, n, k)
          PROVE  k \in botched'
        <3>1. Unstoring(k, n) \in Range(t.actions) /\ Unstoring(k, n).key = k
            BY <2>1, MadeFields DEF Unstores
        <3> QED
            BY <1>2, <2>1, <3>1
    <2> QED
        BY <1>1, <1>2, <2>1 DEF FilesKept
<1> QED
    BY <1>2, <1>4, <1>5, <1>6, <1>7, QuietStep

LEMMA TimeStep ==
    ASSUME IInv, clock' \in Timestamp, UNCHANGED <<tables, files, task, begun, poison, ghosts>>
    PROVE  IInv'
<1> USE DEF ghosts
<1>1. TypeOK'
    BY DEF IInv, TypeOK
<1>2. Reached' = Reached /\ (\A k : Present(k)' <=> Present(k)) /\ RunningTasks' = RunningTasks
    BY ReachedIsIn DEF Present, row, RunningTasks
<1>3. \A k : Spared(k) => Spared(k)'
    BY <1>2 DEF Spared
<1>4. \A d : Done(d)' <=> Done(d)
    BY DEF Done, Present, row
<1>6. ASSUME NEW t \in RunningTasks PROVE TaskOK(t)'
    <2>1. TaskOK(t)
        BY DEF IInv
    <2>2. ShapeOK(t)'
        BY <2>1 DEF TaskOK, ShapeOK, ActionOK, PushedBy, Below
    <2>3. StoreOK(t)'
        BY <2>1 DEF TaskOK, StoreOK, Stores, Storing
    <2>4. DeleterOK(t)'
        BY <1>3, <2>1 DEF TaskOK, DeleterOK, Present, row, Unstores, Unstoring
    <2>5. PushOK(t)'
        BY <1>4, <2>1 DEF TaskOK, PushOK, Present, row, Seen
    <2> QED
        BY <2>2, <2>3, <2>4, <2>5 DEF TaskOK
<1>7. LocationHasFile' /\ CrossedOK' /\ DependenciesOK' /\ PoisonIsATransfer'
    BY DEF IInv, LocationHasFile, CrossedOK, DependenciesOK, PoisonIsATransfer, DependenciesOf,
           Present, row
<1>8. UnloggedOK'
    BY <1>2 DEF IInv, UnloggedOK, Unstores, Unstoring
<1>9. OverlapOK'
    BY <1>2 DEF IInv, OverlapOK, PushedBy, Below, Deleter
<1>10. AnalysedOK'
    BY <1>4 DEF IInv, AnalysedOK, DependenciesOf, Present, row
<1> QED
    BY <1>1, <1>2, <1>6, <1>7, <1>8, <1>9, <1>10 DEF IInv

-----------------------------------------------------------------------------
(***************************************************************************)
(* A transaction is committed.                                             *)
(***************************************************************************)

\* What the tables become.  Every Stored follows the Mounted of its row, but for
\* that of a transfer, so no other transaction panics.
LEMMA CommitTables ==
    ASSUME IInv, NEW w \in Worker, Commit(w)
    PROVE  /\ task[w].op \in Deleter =>
                 Shrunk(tables, tables', Range(task[w].actions)) /\ poison' = poison
           /\ task[w].op \notin Deleter =>
                 \/ UNCHANGED tables /\ poison' = {"transfer"} /\ task[w].op = "transfer"
                 \/ Grown(tables, tables', Range(task[w].actions)) /\ poison' = poison
<1>1. PICK t : t = task[w]
    OBVIOUS
<1>2. /\ task[w] # NoTask /\ poison = {}
      /\ Applying(tables, t.actions).panics => poison' = {t.op} /\ UNCHANGED tables
      /\ ~Applying(tables, t.actions).panics =>
            tables' = Applying(tables, t.actions).tables /\ poison' = poison
    BY <1>1 DEF Commit
<1>3. t \in Task /\ ShapeOK(t) /\ tables \in Tables
    BY <1>1, <1>2, OneRuns DEF IInv, TypeOK
<1>4. t.actions \in Seq(Action) /\ t.op \in Op
    BY <1>3 DEF Task
<1>5. CASE t.op \in Deleter
    <2>1. \A i \in DOMAIN t.actions : t.actions[i].type = "Unstored"
        BY <1>3, <1>5, DeleterActions
    <2>2. ~Applying(tables, t.actions).panics
          /\ Shrunk(tables, Applying(tables, t.actions).tables, Range(t.actions))
        BY <1>3, <1>4, <2>1, ShrunkRun
    <2> QED
        BY <1>1, <1>2, <1>5, <2>2
<1>6. CASE t.op \notin Deleter
    <2>1. ASSUME NEW i \in DOMAIN t.actions PROVE t.actions[i].type # "Unstored"
        <3>1. ActionOK(t, i)
            BY <1>3 DEF ShapeOK
        <3> QED
            BY <1>4, <1>6, <3>1, TypesOfFacts DEF ActionOK, Op, Deleter
    <2>2. /\ Applying(tables, t.actions).panics \in BOOLEAN
          /\ ~Applying(tables, t.actions).panics =>
                Grown(tables, Applying(tables, t.actions).tables, Range(t.actions))
          /\ (\A i \in DOMAIN t.actions : t.actions[i].type = "Stored" =>
                 \E j \in 1 .. i - 1 : /\ t.actions[j].type = "Mounted"
                                       /\ t.actions[j].key = t.actions[i].key)
             => ~Applying(tables, t.actions).panics
        BY <1>3, <1>4, <2>1, GrownRun
    <2>3. ASSUME t.op # "transfer", NEW i \in DOMAIN t.actions, t.actions[i].type = "Stored"
          PROVE  \E j \in 1 .. i - 1 : /\ t.actions[j].type = "Mounted"
                                       /\ t.actions[j].key = t.actions[i].key
        <3>1. ActionOK(t, i)
            BY <1>3 DEF ShapeOK
        <3>2. t.op \in {"upload", "put"}
            BY <1>4, <1>6, <2>3, <3>1, TypesOfFacts DEF ActionOK, Op, Deleter
        <3>3. t.actions # <<>> /\ t.actions[1].type = "Mounted"
            BY <1>3, <3>2 DEF ShapeOK
        <3>4. 1 \in DOMAIN t.actions /\ i # 1 /\ i \in 1 .. Len(t.actions) /\ Len(t.actions) \in Nat
            BY <1>4, <2>3, <3>3
        <3>5. 1 \in 1 .. i - 1
            BY <3>4
        <3>6. ActionOK(t, 1)
            BY <1>3, <3>4 DEF ShapeOK
        <3>7. t.actions[1].key = t.key /\ t.actions[i].key = t.key
            BY <2>3, <3>1, <3>3, <3>6 DEF ActionOK
        <3> QED
            BY <3>3, <3>5, <3>7
    <2>4. t.op # "transfer" => ~Applying(tables, t.actions).panics
        BY <2>2, <2>3
    <2>5. CASE Applying(tables, t.actions).panics
        BY <1>1, <1>2, <1>6, <2>4, <2>5
    <2>6. CASE ~Applying(tables, t.actions).panics
        BY <1>1, <1>2, <1>6, <2>2, <2>6
    <2> QED
        BY <2>5, <2>6
<1> QED
    BY <1>1, <1>5, <1>6

\* What a commit may do to the tables, for the tasks that go on.
LEMMA TablesStep ==
    ASSUME IInv, TypeOK', NEW w \in Worker, task' = [task EXCEPT ![w] = NoTask],
           UNCHANGED <<files, crossed, overlapped, botched>>,
           \A v \in RunningTasks' : v.op \in Deleter => \A k \in Key : Spared(k) => Spared(k)',
           \A n \in Node, k \in Key : Present(k) /\ n \in row(k).locations =>
              (Present(k)' /\ n \in row(k).locations') \/ Spared(k),
           \A d \in Digest : Done(d) => Done(d)',
           \A k \in Key : Present(k) \/ k \in dropped => Present(k)' \/ k \in dropped',
           LocationHasFile', UnloggedOK', DependenciesOK', AnalysedOK', PoisonIsATransfer'
    PROVE  IInv'
<1>1. /\ \A t \in RunningTasks' : t \in RunningTasks /\ t \in Task
      /\ RunningTasks \subseteq Task
    BY RunningStep DEF IInv
<1>3. ASSUME NEW t \in RunningTasks' PROVE TaskOK(t)'
    <2>1. TaskOK(t) /\ t \in Task
        BY <1>1 DEF IInv
    <2>2. ShapeOK(t)'
        BY <2>1 DEF TaskOK, ShapeOK, ActionOK, PushedBy, Below
    <2>3. StoreOK(t)'
        BY <2>1 DEF TaskOK, StoreOK, Stores, Storing
    <2>4. DeleterOK(t)'
        <3>1. CASE t.op \notin Deleter
            BY <3>1 DEF DeleterOK, Deleter
        <3>2. CASE t.op \in Deleter
            <4>1. \A k \in Key : Spared(k) => Spared(k)'
                BY <3>2
            <4>2. t.todo \subseteq Key /\ t.node \in Node
                BY <2>1 DEF Task
            <4>3. DeleterOK(t)
                BY <2>1 DEF TaskOK
            <4> QED
                BY <4>1, <4>2, <4>3 DEF DeleterOK, Unstores, Unstoring, Deleter
        <3> QED
            BY <3>1, <3>2
    <2>5. PushOK(t)'
        <3>1. CASE t.op # "put"
            BY <3>1 DEF PushOK
        <3>2. CASE t.op = "put"
            <4>1. ASSUME NEW k \in Seen(t) PROVE k \in Key
                <5>1. PICK i \in DOMAIN t.actions : t.actions[i].type = "Info" /\ k = t.actions[i].key
                    BY DEF Seen
                <5>2. t.actions[i] \in Action
                    BY <2>1 DEF Task
                <5> QED
                    BY <5>1, <5>2, ActionFields DEF RowActionType
            <4>2. ASSUME NEW a \in Range(t.actions), a.type = "Info" PROVE a.dependencies \subseteq Digest
                <5>1. a \in Action
                    BY <2>1 DEF Task, Range
                <5> QED
                    BY <4>2, <5>1, ActionFields
            <4>3. PushOK(t)
                BY <2>1 DEF TaskOK
            <4>4. \A a \in Range(t.actions) : a.type = "Info" =>
                     \A d \in a.dependencies : Done(d) => Done(d)'
                BY <4>2
            <4>5. Seen(t)' = Seen(t)
                BY DEF Seen
            <4> QED
                BY <3>2, <4>1, <4>3, <4>4, <4>5 DEF PushOK
        <3> QED
            BY <3>1, <3>2
    <2> QED
        BY <2>2, <2>3, <2>4, <2>5 DEF TaskOK
<1>4. CrossedOK'
    BY DEF IInv, CrossedOK
<1>5. OverlapOK'
    BY <1>1 DEF IInv, OverlapOK, PushedBy, Below, Deleter
<1> QED
    BY <1>3, <1>4, <1>5 DEF IInv

LEMMA CommitFrame ==
    ASSUME IInv, NEW w \in Worker, Commit(w)
    PROVE  /\ task[w] # NoTask /\ task[w].at = "submit"
           /\ task' = [task EXCEPT ![w] = NoTask]
           /\ UNCHANGED <<files, clock, begun, crossed, overlapped, botched>>
           /\ dropped' = dropped \cup {k \in Key : Present(k) /\ tables'.row[k] = NoRow}
           /\ \A n \in Node, k \in Key :
                 <<n, k>> \in unlogged' <=> <<n, k>> \in unlogged /\ ~Unstores(task[w], n, k)
           /\ unlogged' \subseteq unlogged
           /\ tables' \in Tables => TypeOK'
<1>1. /\ task[w] # NoTask /\ task[w].at = "submit"
      /\ task' = [task EXCEPT ![w] = NoTask]
      /\ UNCHANGED <<files, clock, begun, crossed, overlapped, botched>>
      /\ dropped' = dropped \cup {k \in Key : Present(k) /\ tables'.row[k] = NoRow}
    BY DEF Commit, Quit, Go
<1>2. PICK t : t = task[w]
    OBVIOUS
<1>3. unlogged' = {f \in unlogged : ~ \E i \in DOMAIN t.actions :
          t.actions[i].type = "Unstored" /\ f = <<t.actions[i].location, t.actions[i].key>>}
    BY <1>2 DEF Commit
<1>4. t \in Task /\ t.actions \in Seq(Action) /\ t.op \in Op
    BY <1>1, <1>2, OneRuns DEF Task
<1>5. ASSUME NEW n \in Node, NEW k \in Key
      PROVE  Unstores(t, n, k) <=> \E i \in DOMAIN t.actions :
                t.actions[i].type = "Unstored" /\ <<n, k>> = <<t.actions[i].location, t.actions[i].key>>
    <2>1. ASSUME NEW i \in DOMAIN t.actions
          PROVE  t.actions[i] = Unstoring(k, n) <=>
                   t.actions[i].type = "Unstored" /\ <<n, k>> = <<t.actions[i].location, t.actions[i].key>>
        <3>1. t.actions[i] \in Action
            BY <1>4
        <3> QED
            BY <3>1, ActionFields, MadeFields
    <2> QED
        BY <2>1 DEF Unstores, Range
<1>6. \A n \in Node, k \in Key :
          <<n, k>> \in unlogged' <=> <<n, k>> \in unlogged /\ ~Unstores(task[w], n, k)
    BY <1>2, <1>3, <1>5
<1>7. ASSUME tables' \in Tables PROVE TypeOK'
    <2>1. poison' \subseteq Op
        BY <1>2, <1>4 DEF Commit, IInv, TypeOK
    <2> QED
        BY <1>1, <1>3, <1>7, <2>1 DEF IInv, TypeOK
<1> QED
    BY <1>1, <1>3, <1>6, <1>7

\* A transfer whose object is gone.
LEMMA PoisonStep ==
    ASSUME IInv, NEW w \in Worker, Commit(w), task[w].op = "transfer", UNCHANGED tables,
           poison' = {"transfer"}
    PROVE  IInv'
<1>1. /\ task[w] # NoTask /\ task[w].at = "submit"
      /\ task' = [task EXCEPT ![w] = NoTask]
      /\ UNCHANGED <<files, clock, begun, crossed, overlapped, botched>>
      /\ dropped' = dropped \cup {k \in Key : Present(k) /\ tables'.row[k] = NoRow}
      /\ \A n \in Node, k \in Key :
            <<n, k>> \in unlogged' <=> <<n, k>> \in unlogged /\ ~Unstores(task[w], n, k)
      /\ unlogged' \subseteq unlogged
      /\ tables' \in Tables => TypeOK'
    BY CommitFrame
<1>2. TypeOK'
    BY <1>1 DEF IInv, TypeOK
<1>3. \A n \in Node, k \in Key : ~Unstores(task[w], n, k)
    <2>1. task[w] \in Task /\ ShapeOK(task[w])
        BY <1>1, OneRuns
    <2>2. ASSUME NEW i \in DOMAIN task[w].actions PROVE task[w].actions[i].type # "Unstored"
        BY <2>1, TypesOfFacts DEF ShapeOK, ActionOK
    <2> QED
        BY <2>2, MadeFields DEF Unstores, Range
<1>4. dropped' = dropped
    BY <1>1 DEF Present, row
<1>5. Reached' = Reached /\ \A k : Present(k)' <=> Present(k)
    BY ReachedIsIn DEF Present, row
<1>6. \A k : Spared(k) => Spared(k)'
    BY <1>1, <1>5 DEF Spared
<1>7. \A d : Done(d)' <=> Done(d)
    BY <1>4 DEF Done, Present, row
<1>8. LocationHasFile'
    BY <1>1, <1>3 DEF IInv, LocationHasFile, Present, row
<1>9. UnloggedOK'
    <2> SUFFICES ASSUME NEW n \in Node, NEW k \in Key, <<n, k>> \in unlogged', k \notin botched'
                 PROVE  \E t \in RunningTasks' : t.op = "sweep2" /\ Unstores(t, n, k)
        BY DEF UnloggedOK, Unstores, Unstoring
    <2>1. PICK t \in RunningTasks : t.op = "sweep2" /\ Unstores(t, n, k)
        BY <1>1 DEF IInv, UnloggedOK
    <2>2. t # task[w]
        BY <2>1
    <2> QED
        BY <1>1, <2>1, <2>2, RunningStep DEF IInv
<1>10. DependenciesOK' /\ PoisonIsATransfer'
    BY DEF IInv, DependenciesOK, DependenciesOf, Present, row, PoisonIsATransfer
<1>11. AnalysedOK'
    BY <1>7 DEF IInv, AnalysedOK, DependenciesOf, Present, row
<1>12. \A n \in Node, k \in Key : Present(k) /\ n \in row(k).locations =>
           (Present(k)' /\ n \in row(k).locations') \/ Spared(k)
    BY DEF Present, row
<1>13. \A k \in Key : Present(k) \/ k \in dropped => Present(k)' \/ k \in dropped'
    BY <1>4, <1>5
<1> QED
    BY <1>1, <1>2, <1>6, <1>7, <1>8, <1>9, <1>10, <1>11, <1>12, <1>13, TablesStep

\* A sweep or fsck: tags come to lead to nothing more, and what is lost is spared.
LEMMA ShrinkStep ==
    ASSUME IInv, NEW w \in Worker, Commit(w), task[w].op \in Deleter
    PROVE  IInv'
<1>1. /\ task[w] # NoTask /\ task[w].at = "submit"
      /\ task' = [task EXCEPT ![w] = NoTask]
      /\ UNCHANGED <<files, clock, begun, crossed, overlapped, botched>>
      /\ dropped' = dropped \cup {k \in Key : Present(k) /\ tables'.row[k] = NoRow}
      /\ \A n \in Node, k \in Key :
            <<n, k>> \in unlogged' <=> <<n, k>> \in unlogged /\ ~Unstores(task[w], n, k)
      /\ unlogged' \subseteq unlogged
      /\ tables' \in Tables => TypeOK'
    BY CommitFrame
<1>2. PICK B : B = Range(task[w].actions)
    OBVIOUS
<1>3. Shrunk(tables, tables', B) /\ poison' = poison
    BY <1>2, CommitTables
<1>4. /\ tables' \in Tables /\ tables'.tag = tables.tag
      /\ \A k \in Key : ShrunkRow(tables.row[k], tables'.row[k], k, B)
    BY <1>3 DEF Shrunk
<1>5. TypeOK' /\ tables \in Tables
    BY <1>1, <1>4 DEF IInv, TypeOK
<1>6. \A n, k : Unstores(task[w], n, k) <=> Unstoring(k, n) \in B
    BY <1>2 DEF Unstores
<1>7. \A k \in Key : DepsIn(tables', k) \subseteq DepsIn(tables, k)
    BY <1>4 DEF DepsIn, ShrunkRow
<1>8. \A k \in Key : DepsIn(tables, k) \subseteq Content[k[2]]
    BY ReachedIsIn DEF IInv, DependenciesOK
<1>9. Reached' \subseteq Reached
    <2>1. TaggedIn(tables') = TaggedIn(tables)
        BY <1>4 DEF TaggedIn
    <2>2. PICK P : P = {}
        OBVIOUS
    <2>3. P \in SUBSET Key /\ \A k \in P : \A d \in Content[k[2]] : BlobOf(d) \in P
        BY <2>2
    <2>4. /\ TaggedIn(tables') \subseteq TaggedIn(tables) \cup P
          /\ \A k \in Key : \/ DepsIn(tables', k) \subseteq DepsIn(tables, k)
                            \/ k \in P /\ DepsIn(tables', k) \subseteq Content[k[2]]
        BY <1>7, <2>1
    <2>5. ReachedIn(tables') \subseteq ReachedIn(tables) \cup P
        BY <1>4, <1>5, <1>8, <2>3, <2>4, ReachedGrows
    <2> QED
        BY <2>2, <2>5, ReachedIsIn
<1>10. \A k : Spared(k) => Spared(k)'
    BY <1>1, <1>9 DEF Spared
<1>11. \A k \in Key : Present(k)' => Present(k) /\ row(k).typed' = row(k).typed
    BY <1>4 DEF Present, row, ShrunkRow
<1>12. \A k \in Key : Present(k) \/ k \in dropped => Present(k)' \/ k \in dropped'
    BY <1>1 DEF Present, row
<1>13. ASSUME NEW d \in Digest, Done(d) PROVE Done(d)'
    <2>1. BlobOf(d) \in Key
        BY KeyFacts
    <2>2. (Present(BlobOf(d)) \/ BlobOf(d) \in dropped => Present(BlobOf(d))' \/ BlobOf(d) \in dropped')
          /\ (Present(BlobOf(d))' => Present(BlobOf(d)) /\ row(BlobOf(d)).typed' = row(BlobOf(d)).typed)
        BY <1>11, <1>12, <2>1
    <2> QED
        BY <1>1, <1>13, <2>2 DEF Done, BlobOf
<1>14. LocationHasFile'
    <2> SUFFICES ASSUME NEW n \in Node, NEW k \in Key,
                        tables'.row[k] # NoRow, n \in tables'.row[k].locations, k \notin files'[n]
                 PROVE  <<n, k>> \in unlogged' \cup crossed'
        BY DEF LocationHasFile, Present, row
    <2>1. /\ tables.row[k] # NoRow /\ n \in tables.row[k].locations /\ Unstoring(k, n) \notin B
        BY <1>4 DEF ShrunkRow
    <2>2. <<n, k>> \in unlogged \cup crossed
        BY <1>1, <2>1 DEF IInv, LocationHasFile, Present, row
    <2> QED
        BY <1>1, <1>6, <2>1, <2>2
<1>15. UnloggedOK'
    <2> SUFFICES ASSUME NEW n \in Node, NEW k \in Key, <<n, k>> \in unlogged', k \notin botched'
                 PROVE  \E t \in RunningTasks' : t.op = "sweep2" /\ Unstores(t, n, k)
        BY DEF UnloggedOK, Unstores, Unstoring
    <2>1. PICK t \in RunningTasks : t.op = "sweep2" /\ Unstores(t, n, k)
        BY <1>1 DEF IInv, UnloggedOK
    <2>2. t # task[w]
        BY <1>1, <2>1
    <2> QED
        BY <1>1, <2>1, <2>2, RunningStep DEF IInv
<1>16. DependenciesOK'
    <2>1. \A k \in Key : DepsIn(tables', k) \subseteq Content[k[2]]
        BY <1>7, <1>8
    <2> QED
        BY <2>1, ReachedIsIn DEF DependenciesOK
<1>17. AnalysedOK'
    <2> SUFFICES ASSUME NEW k \in Key, NEW d \in DepsIn(tables', k) PROVE Done(d)'
        BY ReachedIsIn DEF AnalysedOK
    <2>1. d \in DepsIn(tables, k) /\ DepsIn(tables, k) \subseteq Digest
        BY <1>7, <1>8, KeyFacts, ContentType
    <2>2. Done(d)
        BY <2>1, ReachedIsIn DEF IInv, AnalysedOK
    <2> QED
        BY <1>13, <2>1, <2>2
<1>18. PoisonIsATransfer'
    BY <1>3 DEF IInv, PoisonIsATransfer
<1>19. ASSUME NEW n \in Node, NEW k \in Key, Present(k), n \in row(k).locations
       PROVE  (Present(k)' /\ n \in row(k).locations') \/ Spared(k)
    <2>1. CASE Unstoring(k, n) \in B
        <3>1. DeleterOK(task[w])
            BY <1>1, OneRuns
        <3> QED
            BY <1>6, <2>1, <3>1 DEF DeleterOK
    <2>2. CASE Unstoring(k, n) \notin B
        BY <1>4, <1>19, <2>2 DEF Present, row, ShrunkRow
    <2> QED
        BY <2>1, <2>2
<1> QED
    BY <1>1, <1>5, <1>10, <1>12, <1>13, <1>14, <1>15, <1>16, <1>17, <1>18, <1>19, TablesStep

\* What a push has found is analysed, once it is applied.
LEMMA PushedIsDone ==
    ASSUME NEW t \in Task, ShapeOK(t), PushOK(t), t.op = "put", t.pending = {},
           \A d \in Digest : Done(d) => Done(d)',
           \A d \in Digest : BlobOf(d) \in Seen(t) /\ Present(BlobOf(d)) => Done(d)'
    PROVE  \A a \in Range(t.actions) : a.type = "Info" => \A d \in a.dependencies : Done(d)'
<1> SUFFICES ASSUME NEW a \in Range(t.actions), a.type = "Info", NEW d \in a.dependencies
             PROVE  Done(d)'
    OBVIOUS
<1>1. d \in Digest
    <2>1. a \in Action
        BY DEF Task, Range
    <2> QED
        BY <2>1, ActionFields
<1>2. CASE Done(d)
    BY <1>1, <1>2
<1>3. CASE BlobOf(d) \in Seen(t)
    <2>1. BlobOf(d) # t.key
        BY KeyFacts DEF ShapeOK
    <2>2. Present(BlobOf(d)) \/ BlobOf(d) \in dropped
        BY <1>3, <2>1 DEF PushOK
    <2>3. CASE BlobOf(d) \in dropped
        <3>1. Done(d)
            BY <2>3 DEF Done
        <3> QED
            BY <1>1, <3>1
    <2> QED
        BY <1>1, <1>3, <2>2, <2>3
<1> QED
    BY <1>2, <1>3 DEF PushOK

\* Any other transaction: tags come to lead to what the push names, at most.
LEMMA GrowStep ==
    ASSUME IInv, NEW w \in Worker, Commit(w), task[w].op \notin Deleter,
           Grown(tables, tables', Range(task[w].actions)), poison' = poison
    PROVE  IInv'
<1>1. /\ task[w] # NoTask /\ task[w].at = "submit"
      /\ task' = [task EXCEPT ![w] = NoTask]
      /\ UNCHANGED <<files, clock, begun, crossed, overlapped, botched>>
      /\ dropped' = dropped \cup {k \in Key : Present(k) /\ tables'.row[k] = NoRow}
      /\ \A n \in Node, k \in Key :
            <<n, k>> \in unlogged' <=> <<n, k>> \in unlogged /\ ~Unstores(task[w], n, k)
      /\ unlogged' \subseteq unlogged
      /\ tables' \in Tables => TypeOK'
    BY CommitFrame
<1>2. PICK t : t = task[w]
    OBVIOUS
<1>3. PICK B : B = Range(t.actions)
    OBVIOUS
<1>4. /\ t \in RunningTasks /\ t \in Task /\ ShapeOK(t) /\ StoreOK(t) /\ PushOK(t)
      /\ t.op \in Op \ Deleter /\ t.at = "submit"
    BY <1>1, <1>2, OneRuns DEF Task
<1>5. /\ tables' \in Tables
      /\ \A k \in Key : GrownRow(tables.row[k], tables'.row[k], k, B)
      /\ NewTags(tables, tables', B)
    BY <1>2, <1>3 DEF Grown
<1>6. TypeOK' /\ tables \in Tables
    BY <1>1, <1>5 DEF IInv, TypeOK
<1>7. ASSUME NEW a \in B
      PROVE  /\ a.type \in TypesOf(t.op) /\ a.type # "Unstored"
             /\ a.type \in {"Mounted", "Stored"} => a.key = t.key
             /\ a.type = "Info" =>
                   /\ a.key \in PushedBy(t) /\ a.dependencies \subseteq Content[a.key[2]]
                   /\ a.key \in Seen(t) /\ t.op = "put"
             /\ a.type = "HashTagged" => a.digest = t.key[2] /\ t.op = "put"
             /\ a.type = "Mounted" => t.op \in {"upload", "put", "mount"}
    <2>1. PICK i \in DOMAIN t.actions : a = t.actions[i]
        BY <1>3 DEF Range
    <2>2. /\ a.type \in TypesOf(t.op)
          /\ a.type \in {"Mounted", "Stored"} => a.key = t.key
          /\ a.type = "Info" => a.key \in PushedBy(t) /\ a.dependencies \subseteq Content[a.key[2]]
          /\ a.type = "HashTagged" => a.digest = t.key[2]
        BY <1>4, <2>1 DEF ShapeOK, ActionOK
    <2>3. /\ a.type # "Unstored" /\ (a.type \in {"Info", "HashTagged"} => t.op = "put")
          /\ a.type = "Mounted" => t.op \in {"upload", "put", "mount"}
        BY <1>4, <2>2, TypesOfFacts DEF Op, Deleter
    <2>4. a.type = "Info" => a.key \in Seen(t)
        BY <2>1 DEF Seen
    <2> QED
        BY <2>2, <2>3, <2>4
<1>8. \A n, k : ~Unstores(task[w], n, k)
    BY <1>2, <1>3, <1>7, MadeFields DEF Unstores
<1>9. \A n \in Node, k \in Key : <<n, k>> \in unlogged' <=> <<n, k>> \in unlogged
    BY <1>1, <1>8
<1>10. \A k \in Key : Present(k) => Present(k)' /\ row(k).locations \subseteq row(k).locations'
    BY <1>5 DEF GrownRow, Present, row
<1>11. \A k \in Key : DepsIn(tables, k) \subseteq Content[k[2]]
    BY ReachedIsIn DEF IInv, DependenciesOK
<1>12. ASSUME NEW k \in Key
       PROVE  \/ DepsIn(tables', k) \subseteq DepsIn(tables, k)
              \/ k \in PushedBy(t) /\ DepsIn(tables', k) \subseteq Content[k[2]]
    <2>1. GrownRow(tables.row[k], tables'.row[k], k, B)
        BY <1>5
    <2>2. CASE tables'.row[k] = NoRow \/ tables'.row[k].dependencies = {}
        BY <2>2 DEF DepsIn
    <2>3. CASE tables'.row[k] # NoRow /\ tables.row[k] # NoRow
               /\ tables'.row[k].dependencies = tables.row[k].dependencies
        BY <2>3 DEF DepsIn
    <2>4. CASE /\ tables'.row[k] # NoRow
               /\ \E a \in B : a.type = "Info" /\ a.key = k /\ a.dependencies = tables'.row[k].dependencies
        BY <1>7, <2>4 DEF DepsIn
    <2> QED
        BY <2>1, <2>2, <2>3, <2>4 DEF GrownRow
<1>13. DependenciesOK'
    <2>1. \A k \in Key : DepsIn(tables', k) \subseteq Content[k[2]]
        BY <1>11, <1>12
    <2> QED
        BY <2>1, ReachedIsIn DEF DependenciesOK
<1>14. Reached' \subseteq Reached \cup PushedBy(t)
    <2>1. PICK P : P = PushedBy(t)
        OBVIOUS
    <2>2. t.key \in Key /\ t.key[2] \in Digest
        BY <1>4, KeyFacts DEF Task
    <2>3. P \in SUBSET Key /\ \A k \in P : \A d \in Content[k[2]] : BlobOf(d) \in P
        <3>1. CASE t.op # "put"
            BY <2>1, <3>1 DEF PushedBy
        <3>2. CASE t.op = "put"
            <4>1. P = {t.key} \cup {BlobOf(d) : d \in Below[t.key[2]]}
                BY <2>1, <3>2 DEF PushedBy
            <4>2. /\ Content[t.key[2]] \subseteq Below[t.key[2]] /\ Below[t.key[2]] \subseteq Digest
                  /\ \A e \in Below[t.key[2]] : Content[e] \subseteq Below[t.key[2]]
                BY <2>2, BelowFacts
            <4>3. ASSUME NEW k \in P PROVE k \in Key /\ Content[k[2]] \subseteq Below[t.key[2]]
                <5>1. CASE k = t.key
                    BY <2>2, <4>2, <5>1
                <5>2. CASE \E d \in Below[t.key[2]] : k = BlobOf(d)
                    BY <4>2, <5>2, KeyFacts
                <5> QED
                    BY <4>1, <5>1, <5>2
            <4> QED
                BY <4>1, <4>3
        <3> QED
            BY <3>1, <3>2
    <2>4. ASSUME NEW m \in TaggedIn(tables') PROVE m \in TaggedIn(tables) \cup P
        <3>1. PICK u \in TagKey : tables'.tag[u] # NoDigest /\ m = ImageOf(tables'.tag[u])
            BY DEF TaggedIn
        <3>2. CASE tables'.tag[u] = tables.tag[u]
            BY <3>1, <3>2 DEF TaggedIn
        <3>3. CASE \E a \in B : a.type = "HashTagged" /\ a.digest = tables'.tag[u]
            <4>1. m = ImageOf(t.key[2]) /\ t.op = "put"
                BY <1>7, <3>1, <3>3
            <4>2. m = t.key
                BY <1>4, <2>2, <4>1, KeyFacts DEF ShapeOK
            <4> QED
                BY <2>1, <4>1, <4>2 DEF PushedBy
        <3> QED
            BY <1>5, <3>2, <3>3 DEF NewTags
    <2>5. \A k \in Key : \/ DepsIn(tables', k) \subseteq DepsIn(tables, k)
                         \/ k \in P /\ DepsIn(tables', k) \subseteq Content[k[2]]
        BY <1>12, <2>1
    <2>6. TaggedIn(tables') \subseteq TaggedIn(tables) \cup P
        BY <2>4
    <2>7. ReachedIn(tables') \subseteq ReachedIn(tables) \cup P
        BY <1>5, <1>6, <1>11, <2>3, <2>5, <2>6, ReachedGrows
    <2> QED
        BY <2>1, <2>7, ReachedIsIn
<1>15. ASSUME NEW v \in RunningTasks', v.op \in Deleter, NEW k \in Key, Spared(k) PROVE Spared(k)'
    <2>1. v \in RunningTasks
        BY <1>1, RunningStep DEF IInv
    <2>2. PushedBy(t) \subseteq overlapped
        BY <1>4, <1>15, <2>1 DEF IInv, OverlapOK
    <2> QED
        BY <1>1, <1>14, <1>15, <2>2 DEF Spared
<1>16. \A k \in Key : k \in dropped => k \in dropped'
    BY <1>1
<1>17. \A k \in Key : Present(k) \/ k \in dropped => Present(k)' \/ k \in dropped'
    BY <1>10, <1>16
<1>18. ASSUME NEW d \in Digest, Done(d) PROVE Done(d)'
    <2>1. PICK k \in Key : k = BlobOf(d)
        BY KeyFacts
    <2>2. GrownRow(tables.row[k], tables'.row[k], k, B)
        BY <1>5
    <2> QED
        BY <1>16, <1>18, <2>1, <2>2 DEF Done, Present, row, GrownRow, BlobOf
<1>19. LocationHasFile'
    <2> SUFFICES ASSUME NEW n \in Node, NEW k \in Key,
                        tables'.row[k] # NoRow, n \in tables'.row[k].locations, k \notin files'[n]
                 PROVE  <<n, k>> \in unlogged' \cup crossed'
        BY DEF LocationHasFile, Present, row
    <2>1. \/ tables.row[k] # NoRow /\ n \in tables.row[k].locations
          \/ Storing(k, n) \in B
        BY <1>5 DEF GrownRow
    <2>2. CASE tables.row[k] # NoRow /\ n \in tables.row[k].locations
        BY <1>1, <1>9, <2>2 DEF IInv, LocationHasFile, Present, row
    <2>3. CASE Storing(k, n) \in B
        BY <1>1, <1>3, <1>4, <2>3 DEF StoreOK, Stores
    <2> QED
        BY <2>1, <2>2, <2>3
<1>20. UnloggedOK'
    <2> SUFFICES ASSUME NEW n \in Node, NEW k \in Key, <<n, k>> \in unlogged', k \notin botched'
                 PROVE  \E v \in RunningTasks' : v.op = "sweep2" /\ Unstores(v, n, k)
        BY DEF UnloggedOK, Unstores, Unstoring
    <2>1. PICK v \in RunningTasks : v.op = "sweep2" /\ Unstores(v, n, k)
        BY <1>1 DEF IInv, UnloggedOK
    <2>2. v # task[w]
        BY <1>8, <2>1
    <2> QED
        BY <1>1, <2>1, <2>2, RunningStep DEF IInv
<1>21. t.op = "put" => \A a \in B : a.type = "Info" => \A d \in a.dependencies : Done(d)'
    <2>1. ASSUME NEW d \in Digest, t.op = "put", BlobOf(d) \in Seen(t), Present(BlobOf(d))
          PROVE  Done(d)'
        <3>1. PICK k \in Key : k = BlobOf(d)
            BY KeyFacts
        <3>2. PICK i \in DOMAIN t.actions : t.actions[i].type = "Info" /\ t.actions[i].key = k
            BY <2>1, <3>1 DEF Seen
        <3>3. Names(B, "Info", k)
            BY <1>3, <3>2 DEF Names, Range
        <3>4. GrownRow(tables.row[k], tables'.row[k], k, B)
            BY <1>5
        <3> QED
            BY <2>1, <3>1, <3>3, <3>4 DEF Done, Present, row, GrownRow, BlobOf
    <2>2. t.op = "put" => t.pending = {}
        BY <1>4 DEF ShapeOK
    <2> QED
        BY <1>3, <1>4, <1>18, <2>1, <2>2, PushedIsDone
<1>22. AnalysedOK'
    <2> SUFFICES ASSUME NEW k \in Key, NEW d \in DepsIn(tables', k) PROVE Done(d)'
        BY ReachedIsIn DEF AnalysedOK
    <2>1. GrownRow(tables.row[k], tables'.row[k], k, B)
        BY <1>5
    <2>2. CASE /\ tables'.row[k] # NoRow /\ tables.row[k] # NoRow
               /\ tables'.row[k].dependencies = tables.row[k].dependencies
        <3>1. d \in DepsIn(tables, k) /\ d \in Digest
            BY <1>6, <2>2, DepsType DEF DepsIn
        <3>2. Done(d)
            BY <3>1, ReachedIsIn DEF IInv, AnalysedOK
        <3> QED
            BY <1>18, <3>1, <3>2
    <2>3. CASE /\ tables'.row[k] # NoRow
               /\ \E a \in B : a.type = "Info" /\ a.key = k /\ a.dependencies = tables'.row[k].dependencies
        BY <1>7, <1>21, <2>3 DEF DepsIn
    <2> QED
        BY <2>1, <2>2, <2>3 DEF GrownRow, DepsIn
<1>23. PoisonIsATransfer'
    BY DEF IInv, PoisonIsATransfer
<1>24. \A n \in Node, k \in Key : Present(k) /\ n \in row(k).locations =>
           (Present(k)' /\ n \in row(k).locations') \/ Spared(k)
    BY <1>10
<1> QED
    BY <1>1, <1>6, <1>13, <1>15, <1>17, <1>18, <1>19, <1>20, <1>22, <1>23, <1>24, TablesStep

LEMMA CommitStep ==
    ASSUME IInv, NEW w \in Worker, Commit(w)
    PROVE  IInv'
<1>1. CASE task[w].op \in Deleter
    BY <1>1, ShrinkStep
<1>2. CASE task[w].op \notin Deleter
    BY <1>2, CommitTables, PoisonStep, GrowStep
<1> QED
    BY <1>1, <1>2

-----------------------------------------------------------------------------
(***************************************************************************)
(* Theorems.                                                               *)
(***************************************************************************)
LEMMA InitIInv == Init => IInv
<1> SUFFICES ASSUME Init PROVE IInv
    OBVIOUS
<1>1. PICK members \in SUBSET Node : tables = [EmptyTables EXCEPT !.membership = members]
    BY DEF Init
<1>2. /\ tables \in Tables /\ (\A k \in Key : tables.row[k] = NoRow)
    BY <1>1 DEF EmptyTables, Tables
<1>3. RunningTasks = {}
    BY DEF Init, RunningTasks
<1>4. TypeOK
    BY <1>2, TimestampAssumption, TaskAssumption DEF Init, TypeOK
<1>5. \A k \in Key : ~Present(k)
    BY <1>2 DEF Present, row
<1>6. LocationHasFile /\ AnalysedOK /\ DependenciesOK
    BY <1>5 DEF LocationHasFile, AnalysedOK, DependenciesOK, DependenciesOf
<1>7. UnloggedOK /\ CrossedOK /\ PoisonIsATransfer
    BY DEF Init, UnloggedOK, CrossedOK, PoisonIsATransfer
<1>8. OverlapOK
    BY <1>3 DEF OverlapOK
<1> QED
    BY <1>3, <1>4, <1>6, <1>7, <1>8 DEF IInv

LEMMA WorkerStep ==
    ASSUME IInv, NEW w \in Worker, WorkerNext(w)
    PROVE  IInv'
<1>1. CASE Commit(w)
    BY <1>1, CommitStep
<1>2. CASE WriteFails(w)
    BY <1>2, WriteFailsStep
<1>3. CASE \E n \in Node, d \in Digest, r \in Repository :
              FinishUpload(w, n, d, r) \/ PutManifest(w, n, d, r)
    BY <1>3, UploadStep, PutStep
<1>4. CASE \E n \in Node, d \in Digest, from, r \in Repository : MountBlob(w, n, d, from, r)
    BY <1>4, MountStep
<1>5. CASE \E n \in Node, d \in Digest, r \in Repository :
              DeleteBlob(w, n, d, r) \/ DeleteManifest(w, n, d, r)
    BY <1>5, UnmountStep, KeyFacts DEF DeleteBlob, DeleteManifest
<1>6. CASE \E n, source \in Node, k \in Key : StartTransfer(w, n, k, source)
    BY <1>6, TransferStep
<1>7. CASE \E n \in Node : StartSweep1(w, n) \/ StartSweep2(w, n) \/ StartFsck(w, n)
    BY <1>7, Sweep1Step, Sweep2Step, FsckStep
<1>8. CASE (\E x \in Extraction : ExtractOne(w, x)) \/ \E k \in Key : CheckFile(w, k)
    BY <1>8, ExtractStep, CheckFileStep
<1>9. CASE \E k \in Key, removed, logged \in BOOLEAN : CleanUp(w, k, removed, logged)
    BY <1>9, CleanUpStep
<1>10. CASE \E tag \in Tag : FinishPut(w, tag)
    BY <1>10, FinishPutStep
<1>11. CASE \E repair \in BOOLEAN : FinishFsck(w, repair)
    BY <1>11, FinishFsckStep
<1>12. CASE Fetch(w)
    BY <1>12, FetchStep
<1>13. CASE FetchFails(w)
    BY <1>13, FetchFailsStep
<1>14. CASE SweepBlobs1(w)
    BY <1>14, SweepBlobs1Step
<1>15. CASE SweepBlobs2(w)
    BY <1>15, SweepBlobs2Step
<1>16. CASE FinishSweep2(w)
    BY <1>16, FinishSweep2Step
<1> QED
    BY <1>1, <1>2, <1>3, <1>4, <1>5, <1>6, <1>7, <1>8, <1>9, <1>10, <1>11, <1>12, <1>13,
       <1>14, <1>15, <1>16 DEF WorkerNext

\* Every step of every task, in any order, keeps the invariant.
THEOREM Inductive == Spec => []IInv
<1>1. Init => IInv
    BY InitIInv
<1>2. IInv /\ [Next]_vars => IInv'
    <2> SUFFICES ASSUME IInv, [Next]_vars PROVE IInv'
        OBVIOUS
    <2>1. CASE TimePasses
        <3>1. clock' \in Timestamp /\ UNCHANGED <<tables, files, task, begun, poison, ghosts>>
            BY <2>1 DEF TimePasses
        <3> QED
            BY <3>1, TimeStep
    <2>2. CASE \E w \in Worker : WorkerNext(w)
        BY <2>2, WorkerStep
    <2>3. CASE UNCHANGED vars
        <3>1. clock' \in Timestamp /\ UNCHANGED <<tables, files, task, begun, poison, ghosts>>
            BY <2>3 DEF vars, IInv, TypeOK
        <3> QED
            BY <3>1, TimeStep
    <2> QED
        BY <2>1, <2>2, <2>3 DEF Next
<1> QED
    BY <1>1, <1>2, PTL DEF Spec

\* The tables, the files and the tasks of a cluster keep their types.
THEOREM TypeCorrect == Spec => []TypeOK
<1>1. IInv => TypeOK
    BY DEF IInv
<1> QED
    BY <1>1, Inductive, PTL

\* A row names a node that has no such file only where a sweep of phase 2 has
\* removed it and the entry that says so has not been applied, or removed it
\* under a task that was about to log it: neither an upload, a push, the mirror
\* nor fsck ever logs a location before the file has its name.
THEOREM LocationsHaveFiles == Spec => []LocationHasFile
<1>1. IInv => LocationHasFile
    BY DEF IInv
<1> QED
    BY <1>1, Inductive, PTL

\* Whatever a search for orphans visits has been analysed, however the pushes that
\* analysed it interleaved with each other and with deletions, and under whatever
\* content types they named it.
THEOREM ClosuresAreAnalysed == Spec => []ClosureAnalysed
<1>1. IInv => ClosureAnalysed
    <2> SUFFICES ASSUME IInv PROVE \A d \in Visited(Rows("manifest")) : Done(d)
        BY DEF ClosureAnalysed
    <2>1. tables \in Tables /\ Rows("manifest") \in SUBSET Key
        BY DEF IInv, TypeOK, Rows
    <2>2. \A k \in Key : DepsIn(tables, k) \subseteq {d \in Digest : Done(d)}
        BY <2>1, DepsType, ReachedIsIn DEF IInv, AnalysedOK
    <2>3. \A d \in Digest : DepsIn(tables, BlobOf(d)) \subseteq {e \in Digest : Done(e)}
        BY <2>2, KeyFacts
    <2>4. VisitedIn(tables, Rows("manifest")) \subseteq {d \in Digest : Done(d)}
        BY <2>1, <2>2, <2>3, VisitedFacts
    <2> QED
        BY <2>4, ReachedIsIn
<1> QED
    BY <1>1, Inductive, PTL

\* No upload, push, mount, DELETE, sweep or fsck commits an entry that panics.
THEOREM OnlyTransfersPoison == Spec => []PoisonIsATransfer
<1>1. IInv => PoisonIsATransfer
    BY DEF IInv
<1> QED
    BY <1>1, Inductive, PTL

\* Only a transaction changes the tables.
LEMMA TablesChange ==
    ASSUME [Next]_vars, ~ \E w \in Worker : Commit(w)
    PROVE  UNCHANGED tables
<1>1. ASSUME NEW w \in Worker
      PROVE  /\ WriteFails(w) \/ Fetch(w) \/ FetchFails(w) => UNCHANGED tables
             /\ SweepBlobs1(w) \/ SweepBlobs2(w) \/ FinishSweep2(w) => UNCHANGED tables
             /\ \A n, k, r, j : Unmount(w, n, k, r) \/ StartTransfer(w, n, k, j) => UNCHANGED tables
             /\ \A n : StartSweep1(w, n) \/ StartSweep2(w, n) \/ StartFsck(w, n) => UNCHANGED tables
             /\ \A k : ExtractOne(w, k) \/ CheckFile(w, k) => UNCHANGED tables
    BY DEF WriteFails, Fetch, FetchFails, SweepBlobs1, SweepBlobs2, FinishSweep2, Unmount,
           StartTransfer, StartSweep1, StartSweep2, StartFsck, ExtractOne, CheckFile
<1>2. ASSUME NEW w \in Worker
      PROVE  /\ \A n, d, r : FinishUpload(w, n, d, r) \/ PutManifest(w, n, d, r) => UNCHANGED tables
             /\ \A n, d, r, from : MountBlob(w, n, d, from, r) => UNCHANGED tables
             /\ \A k, x, y : CleanUp(w, k, x, y) => UNCHANGED tables
             /\ \A x : FinishPut(w, x) \/ FinishFsck(w, x) => UNCHANGED tables
    BY DEF FinishUpload, PutManifest, MountBlob, CleanUp, FinishPut, FinishFsck
<1>3. ASSUME NEW w \in Worker, WorkerNext(w), ~Commit(w) PROVE UNCHANGED tables
    BY <1>1, <1>2, <1>3 DEF WorkerNext, DeleteBlob, DeleteManifest
<1>4. TimePasses \/ UNCHANGED vars => UNCHANGED tables
    BY DEF TimePasses, vars
<1> QED
    BY <1>3, <1>4 DEF Next

\* Garbage collection and fsck delete no row that a tag leads to, although both
\* work from what they have read long before their transaction is applied,
\* except where a push of it ran at the same time, or a sweep took its file
\* without logging it or under a task about to log it.
THEOREM ReachedAreKept == Spec => ReachedIsKept
<1>1. ASSUME IInv, [Next]_vars, NEW k \in Reached, Present(k)
      PROVE  Present(k)' \/ k \in overlapped \cup botched
    <2>1. CASE ~ \E w \in Worker : Commit(w)
        BY <1>1, <2>1, TablesChange DEF Present, row
    <2>2. CASE \E w \in Worker : Commit(w)
        <3>1. PICK w \in Worker : Commit(w)
            BY <2>2
        <3>2. k \in Key
            <4>1. tables \in Tables /\ Reached = ReachedIn(tables)
                BY <1>1, ReachedIsIn DEF IInv, TypeOK
            <4>2. TaggedIn(tables) \in SUBSET Key
                BY <4>1, DepsType
            <4>3. VisitedIn(tables, TaggedIn(tables)) \subseteq Digest
                BY <4>1, <4>2, VisitedFacts
            <4> QED
                BY <1>1, <4>1, <4>2, <4>3, KeyFacts DEF ReachedIn
        <3>3. CASE task[w].op \in Deleter
            <4>1. Shrunk(tables, tables', Range(task[w].actions))
                BY <1>1, <3>1, <3>3, CommitTables
            <4>2. ShrunkRow(tables.row[k], tables'.row[k], k, Range(task[w].actions))
                BY <3>2, <4>1 DEF Shrunk
            <4>3. DeleterOK(task[w])
                BY <1>1, <3>1, CommitFrame, OneRuns
            <4> QED
                BY <1>1, <3>2, <3>3, <4>2, <4>3
                DEF ShrunkRow, Present, row, DeleterOK, Unstores, Spared
        <3>4. CASE task[w].op \notin Deleter
            BY <1>1, <3>1, <3>2, <3>4, CommitTables DEF Grown, GrownRow, Present, row
        <3> QED
            BY <3>3, <3>4
    <2> QED
        BY <2>1, <2>2
<1>2. IInv /\ [Next]_vars =>
          [\A k \in Reached : Present(k) => Present(k)' \/ k \in overlapped \cup botched]_vars
    BY <1>1
<1> QED
    BY <1>2, Inductive, PTL DEF Spec, ReachedIsKept

-----------------------------------------------------------------------------
(***************************************************************************)
(* What an import makes of a dump.                                         *)
(***************************************************************************)
Mounting0(k, r) == [type |-> "Mounted", key |-> k, repository |-> r, timestamp |-> 0]
Tagging(u, d) == [type |-> "HashTagged", repository |-> u[1], tag |-> u[2], digest |-> d]

ImportType == {"Mounted", "Stored", "Info", "Stat"}

\* A transaction that mounts an object before it does anything else with it, and
\* says each thing once.
IsImport(acts) ==
    /\ acts \in Seq(Action)
    /\ \A i \in DOMAIN acts :
          /\ acts[i].type \in ImportType \cup {"HashTagged"}
          /\ acts[i].type = "Mounted" => acts[i].timestamp = 0
    /\ \A i, j \in DOMAIN acts :
          acts[i].type \in ImportType \ {"Mounted"} /\ acts[j].type = "Mounted"
             /\ acts[i].key = acts[j].key => j < i
    /\ \A i, j \in DOMAIN acts :
          acts[i].type = "Info" /\ acts[j].type = "Info" /\ acts[i].key = acts[j].key
             => acts[i].dependencies = acts[j].dependencies
    /\ \A i, j \in DOMAIN acts :
          acts[i].type = "HashTagged" /\ acts[j].type = "HashTagged"
             /\ acts[i].repository = acts[j].repository /\ acts[i].tag = acts[j].tag
             => acts[i].digest = acts[j].digest

\* The row r of k that actions B have made, from none.
MadeRow(r, k, B) ==
    /\ r # NoRow <=> Names(B, "Mounted", k)
    /\ r # NoRow =>
          /\ r.created = 0
          /\ r.repositories = {p \in Repository : Mounting0(k, p) \in B}
          /\ r.locations = {n \in Node : Storing(k, n) \in B}
          /\ r.typed = TRUE <=> Names(B, "Info", k)
          /\ r.sized = TRUE <=> Names(B, "Stat", k)
          /\ ~Names(B, "Info", k) => r.dependencies = {}
          /\ \A a \in B : a.type = "Info" /\ a.key = k => a.dependencies = r.dependencies

MadeTag(d, u, B) ==
    /\ \A a \in B : a.type = "HashTagged" /\ a.repository = u[1] /\ a.tag = u[2] => a.digest = d
    /\ d # NoDigest => \E a \in B : a.type = "HashTagged" /\ a.repository = u[1] /\ a.tag = u[2]

Made(members, t, B) ==
    /\ t \in Tables
    /\ t.membership = members
    /\ \A k \in Key : MadeRow(t.row[k], k, B)
    /\ \A u \in TagKey : MadeTag(t.tag[u], u, B)

LEMMA MadeRowStep ==
    ASSUME NEW r \in Row \cup {NoRow}, NEW B, NEW a \in Action, a.type \in ImportType,
           ~Panics(r, a), MadeRow(r, a.key, B),
           a.type = "Mounted" =>
              a.timestamp = 0 /\ \A b \in B : b.type \in ImportType /\ b.key = a.key => b.type = "Mounted",
           a.type = "Info" => \A b \in B : b.type = "Info" /\ b.key = a.key => b.dependencies = a.dependencies,
           a.type # "Mounted" /\ a.type # "Stored" => r # NoRow \/ ~Names(B \cup {a}, "Mounted", a.key)
    PROVE  MadeRow(RowAfter(r, a), a.key, B \cup {a})
<1>1. CASE a.type = "Mounted"
    <2>1. a = Mounting0(a.key, a.repository) /\ a.repository \in Repository
        BY <1>1 DEF Action, RowAction, OtherAction, Mounting0
    <2>2. \A p \in Repository : Mounting0(a.key, p) = a <=> p = a.repository
        BY <2>1 DEF Mounting0
    <2>3. \A n \in Node : Storing(a.key, n) # a
        BY <1>1 DEF Storing
    <2>4. /\ Names(B \cup {a}, "Mounted", a.key)
          /\ Names(B \cup {a}, "Info", a.key) <=> Names(B, "Info", a.key)
          /\ Names(B \cup {a}, "Stat", a.key) <=> Names(B, "Stat", a.key)
        BY <1>1 DEF Names
    <2>5. CASE r = NoRow
        <3>1. RowAfter(r, a) = [FreshRow(0) EXCEPT !.repositories = @ \cup {a.repository}]
            BY <1>1, <2>5 DEF RowAfter, Mounted
        <3>2. /\ RowAfter(r, a).created = 0 /\ RowAfter(r, a).repositories = {a.repository}
              /\ RowAfter(r, a).typed = FALSE /\ RowAfter(r, a).sized = FALSE
              /\ RowAfter(r, a).dependencies = {} /\ RowAfter(r, a).locations = {}
            BY <3>1 DEF FreshRow
        <3>3. RowAfter(r, a) # NoRow
            <4>1. RowAfter(r, a) = [created |-> 0, typed |-> FALSE, sized |-> FALSE,
                     dependencies |-> {}, repositories |-> {a.repository}, locations |-> {}]
                BY <3>1 DEF FreshRow
            <4>2. RowAfter(r, a) \in Row
                BY <2>1, <4>1, TimestampAssumption DEF Row
            <4> QED
                BY <4>2, NoRowAssumption
        <3>4. ~Names(B, "Mounted", a.key)
            BY <2>5 DEF MadeRow
        <3>5. \A b \in B : b.type \in ImportType => b.key # a.key
            BY <1>1, <3>4 DEF Names
        <3>6. /\ ~Names(B, "Info", a.key) /\ ~Names(B, "Stat", a.key)
              /\ \A p \in Repository : Mounting0(a.key, p) \notin B
              /\ \A n \in Node : Storing(a.key, n) \notin B
            BY <3>5 DEF Names, Mounting0, Storing, ImportType
        <3> HIDE DEF RowAfter
        <3> QED
            BY <1>1, <2>1, <2>2, <2>3, <2>4, <3>2, <3>3, <3>5, <3>6 DEF MadeRow, ImportType
    <2>6. CASE r # NoRow
        <3>1. RowAfter(r, a) = [r EXCEPT !.repositories = @ \cup {a.repository}]
            BY <1>1, <2>6 DEF RowAfter, Mounted
        <3>2. RowAfter(r, a) \in Row /\ RowAfter(r, a) # NoRow
            BY <2>1, <2>6, <3>1, NoRowAssumption DEF Row
        <3>3. /\ RowAfter(r, a).created = r.created
              /\ RowAfter(r, a).repositories = r.repositories \cup {a.repository}
              /\ RowAfter(r, a).typed = r.typed /\ RowAfter(r, a).sized = r.sized
              /\ RowAfter(r, a).dependencies = r.dependencies
              /\ RowAfter(r, a).locations = r.locations
            BY <2>6, <3>1 DEF Row
        <3> HIDE DEF RowAfter
        <3> QED
            BY <1>1, <2>1, <2>2, <2>3, <2>4, <2>6, <3>2, <3>3 DEF MadeRow
    <2> QED
        BY <2>5, <2>6
<1>2. CASE a.type = "Stored"
    <2>1. a = Storing(a.key, a.location) /\ a.location \in Node /\ r # NoRow
        BY <1>2, ActionFields DEF Panics
    <2>2. \A n \in Node : Storing(a.key, n) = a <=> n = a.location
        BY <2>1 DEF Storing
    <2>3. \A p \in Repository : Mounting0(a.key, p) # a
        BY <1>2 DEF Mounting0
    <2>4. /\ Names(B \cup {a}, "Mounted", a.key) <=> Names(B, "Mounted", a.key)
          /\ Names(B \cup {a}, "Info", a.key) <=> Names(B, "Info", a.key)
          /\ Names(B \cup {a}, "Stat", a.key) <=> Names(B, "Stat", a.key)
        BY <1>2 DEF Names
    <2>5. RowAfter(r, a) = [r EXCEPT !.locations = @ \cup {a.location}]
        BY <1>2, <2>1 DEF RowAfter, Stored
    <2>6. RowAfter(r, a) \in Row /\ RowAfter(r, a) # NoRow
        BY <2>1, <2>5, NoRowAssumption DEF Row
    <2>7. /\ RowAfter(r, a).created = r.created
          /\ RowAfter(r, a).repositories = r.repositories
          /\ RowAfter(r, a).typed = r.typed /\ RowAfter(r, a).sized = r.sized
          /\ RowAfter(r, a).dependencies = r.dependencies
          /\ RowAfter(r, a).locations = r.locations \cup {a.location}
        BY <2>1, <2>5 DEF Row
    <2> HIDE DEF RowAfter
    <2> QED
        BY <1>2, <2>1, <2>2, <2>3, <2>4, <2>6, <2>7 DEF MadeRow
<1>3. CASE a.type \in {"Info", "Stat"} /\ r = NoRow
    <2>1. RowAfter(r, a) = NoRow
        BY <1>3 DEF RowAfter, Info, Stat
    <2>2. ~Names(B \cup {a}, "Mounted", a.key)
        BY <1>3
    <2> QED
        BY <2>1, <2>2 DEF MadeRow
<1>4. CASE a.type = "Info" /\ r # NoRow
    <2>1. \A p \in Repository : Mounting0(a.key, p) # a
        BY <1>4 DEF Mounting0
    <2>2. \A n \in Node : Storing(a.key, n) # a
        BY <1>4 DEF Storing
    <2>3. /\ Names(B \cup {a}, "Mounted", a.key) <=> Names(B, "Mounted", a.key)
          /\ Names(B \cup {a}, "Info", a.key)
          /\ Names(B \cup {a}, "Stat", a.key) <=> Names(B, "Stat", a.key)
        BY <1>4 DEF Names
    <2>4. RowAfter(r, a) = [r EXCEPT !.dependencies = a.dependencies, !.typed = TRUE]
        BY <1>4 DEF RowAfter, Info
    <2>5. RowAfter(r, a) \in Row /\ RowAfter(r, a) # NoRow
        BY <1>4, <2>4, ActionFields, NoRowAssumption DEF Row
    <2>6. /\ RowAfter(r, a).created = r.created
          /\ RowAfter(r, a).repositories = r.repositories
          /\ RowAfter(r, a).typed = TRUE /\ RowAfter(r, a).sized = r.sized
          /\ RowAfter(r, a).dependencies = a.dependencies
          /\ RowAfter(r, a).locations = r.locations
        BY <1>4, <2>4 DEF Row
    <2> HIDE DEF RowAfter
    <2> QED
        BY <1>4, <2>1, <2>2, <2>3, <2>5, <2>6 DEF MadeRow
<1>5. CASE a.type = "Stat" /\ r # NoRow
    <2>1. \A p \in Repository : Mounting0(a.key, p) # a
        BY <1>5 DEF Mounting0
    <2>2. \A n \in Node : Storing(a.key, n) # a
        BY <1>5 DEF Storing
    <2>3. /\ Names(B \cup {a}, "Mounted", a.key) <=> Names(B, "Mounted", a.key)
          /\ Names(B \cup {a}, "Info", a.key) <=> Names(B, "Info", a.key)
          /\ Names(B \cup {a}, "Stat", a.key)
        BY <1>5 DEF Names
    <2>4. RowAfter(r, a) = [r EXCEPT !.sized = TRUE]
        BY <1>5 DEF RowAfter, Stat
    <2>5. RowAfter(r, a) \in Row /\ RowAfter(r, a) # NoRow
        BY <1>5, <2>4, NoRowAssumption DEF Row
    <2>6. /\ RowAfter(r, a).created = r.created
          /\ RowAfter(r, a).repositories = r.repositories
          /\ RowAfter(r, a).typed = r.typed /\ RowAfter(r, a).sized = TRUE
          /\ RowAfter(r, a).dependencies = r.dependencies
          /\ RowAfter(r, a).locations = r.locations
        BY <1>5, <2>4 DEF Row
    <2> HIDE DEF RowAfter
    <2> QED
        BY <1>5, <2>1, <2>2, <2>3, <2>5, <2>6 DEF MadeRow
<1> QED
    BY <1>1, <1>2, <1>3, <1>4, <1>5 DEF ImportType

\* An action that is not about the row of k.
LEMMA MadeRowOther ==
    ASSUME NEW r, NEW k, NEW B, NEW a, MadeRow(r, k, B),
           a.type \notin ImportType \/ a.key # k
    PROVE  MadeRow(r, k, B \cup {a})
<1>1. /\ \A p \in Repository : Mounting0(k, p) # a
      /\ \A n \in Node : Storing(k, n) # a
    BY DEF Mounting0, Storing, ImportType
<1>2. \A type \in ImportType : Names(B \cup {a}, type, k) <=> Names(B, type, k)
    BY DEF Names
<1>3. {"Mounted", "Info", "Stat"} \subseteq ImportType
    BY DEF ImportType
<1> QED
    BY <1>1, <1>2, <1>3 DEF MadeRow
LEMMA MadeTagOther ==
    ASSUME NEW d, NEW u, NEW B, NEW a, MadeTag(d, u, B),
           ~(a.type = "HashTagged" /\ a.repository = u[1] /\ a.tag = u[2])
    PROVE  MadeTag(d, u, B \cup {a})
BY DEF MadeTag

LEMMA MadeStep ==
    ASSUME NEW members, NEW t, NEW B, NEW a \in Action, a.type \in ImportType \cup {"HashTagged"},
           ~PanicsOn(t, a), Made(members, t, B),
           a.type = "Mounted" =>
              a.timestamp = 0 /\ \A b \in B : b.type \in ImportType /\ b.key = a.key => b.type = "Mounted",
           a.type = "Info" => \A b \in B : b.type = "Info" /\ b.key = a.key => b.dependencies = a.dependencies,
           a.type \in {"Info", "Stat"} => t.row[a.key] # NoRow \/ ~Names(B \cup {a}, "Mounted", a.key),
           a.type = "HashTagged" =>
              \A b \in B : b.type = "HashTagged" /\ b.repository = a.repository /\ b.tag = a.tag
                 => b.digest = a.digest
    PROVE  Made(members, ApplyAction(t, a), B \cup {a})
<1>1. t \in Tables /\ t.membership = members
    BY DEF Made
<1>2. ApplyAction(t, a) \in Tables
    BY <1>1, ApplyFacts
<1>3. CASE a.type \in ImportType
    <2>1. a.type \in RowActionType /\ a.type # "HashTagged"
        BY <1>3 DEF RowActionType, ImportType
    <2>2. /\ a.key \in Key /\ ApplyAction(t, a).row[a.key] = RowAfter(t.row[a.key], a)
          /\ \A k \in Key \ {a.key} : ApplyAction(t, a).row[k] = t.row[k]
          /\ ApplyAction(t, a).tag = t.tag
        BY <1>1, <2>1, ApplyFacts
    <2>3. ApplyAction(t, a).membership = members
        <3>1. ApplyAction(t, a) = [t EXCEPT !.row[a.key] = RowAfter(@, a)]
            BY <1>3, <2>1 DEF ApplyAction, ImportType, RowActionType
        <3> HIDE DEF RowAfter
        <3> QED
            BY <1>1, <3>1 DEF Tables
    <2>4. MadeRow(RowAfter(t.row[a.key], a), a.key, B \cup {a})
        <3>1. t.row[a.key] \in Row \cup {NoRow} /\ ~Panics(t.row[a.key], a) /\ MadeRow(t.row[a.key], a.key, B)
            BY <1>1, <2>1, <2>2 DEF Tables, PanicsOn, Made
        <3>2. a.type # "Mounted" /\ a.type # "Stored" => a.type \in {"Info", "Stat"}
            BY <1>3 DEF ImportType
        <3> QED
            BY <1>3, <3>1, <3>2, MadeRowStep
    <2>5. ASSUME NEW k \in Key PROVE MadeRow(ApplyAction(t, a).row[k], k, B \cup {a})
        <3>1. CASE k = a.key
            BY <2>2, <2>4, <3>1
        <3>2. CASE k # a.key
            <4>1. MadeRow(t.row[k], k, B)
                BY DEF Made
            <4> QED
                BY <2>2, <3>2, <4>1, MadeRowOther
        <3> QED
            BY <3>1, <3>2
    <2>6. ASSUME NEW u \in TagKey PROVE MadeTag(ApplyAction(t, a).tag[u], u, B \cup {a})
        <3>1. MadeTag(t.tag[u], u, B)
            BY DEF Made
        <3> QED
            BY <2>1, <2>2, <3>1, MadeTagOther
    <2> QED
        BY <1>2, <2>3, <2>5, <2>6 DEF Made
<1>4. CASE a.type = "HashTagged"
    <2>1. a.type \notin RowActionType /\ a.type \notin ImportType
        BY <1>4 DEF RowActionType, ImportType
    <2>2. ApplyAction(t, a) = [t EXCEPT !.tag[<<a.repository, a.tag>>] = a.digest]
        BY <1>4, <2>1 DEF ApplyAction
    <2>3. <<a.repository, a.tag>> \in TagKey /\ a.digest \in Digest
        BY <1>4, ActionFields DEF TagKey
    <2>4. /\ ApplyAction(t, a).membership = members /\ ApplyAction(t, a).row = t.row
          /\ ApplyAction(t, a).tag[<<a.repository, a.tag>>] = a.digest
          /\ \A u \in TagKey \ {<<a.repository, a.tag>>} : ApplyAction(t, a).tag[u] = t.tag[u]
        BY <1>1, <2>2, <2>3 DEF Tables
    <2>5. ASSUME NEW k \in Key PROVE MadeRow(ApplyAction(t, a).row[k], k, B \cup {a})
        <3>1. MadeRow(t.row[k], k, B)
            BY DEF Made
        <3> QED
            BY <2>1, <2>4, <3>1, MadeRowOther
    <2>6. ASSUME NEW u \in TagKey PROVE MadeTag(ApplyAction(t, a).tag[u], u, B \cup {a})
        <3>1. MadeTag(t.tag[u], u, B) /\ u = <<u[1], u[2]>>
            BY DEF Made, TagKey
        <3>2. CASE u = <<a.repository, a.tag>>
            BY <1>4, <2>4, <3>2 DEF MadeTag
        <3>3. CASE u # <<a.repository, a.tag>>
            BY <2>4, <3>1, <3>3, MadeTagOther
        <3> QED
            BY <3>2, <3>3
    <2> QED
        BY <1>2, <2>4, <2>5, <2>6 DEF Made
<1> QED
    BY <1>3, <1>4

EmptyOf(members) == [EmptyTables EXCEPT !.membership = members]

\* The transaction panics where it stores what it does not mount, and only there.
Bare(acts) ==
    \E i \in DOMAIN acts : acts[i].type = "Stored" /\ ~Names(Range(acts), "Mounted", acts[i].key)

LEMMA ImportRun ==
    ASSUME NEW members \in SUBSET Node, NEW acts, IsImport(acts)
    PROVE  /\ Applying(EmptyOf(members), acts).panics \in BOOLEAN
           /\ Applying(EmptyOf(members), acts).panics <=> Bare(acts)
           /\ ~Applying(EmptyOf(members), acts).panics
                 => Made(members, Applying(EmptyOf(members), acts).tables, Range(acts))
<1> DEFINE N == Len(acts)
<1>0. acts \in Seq(Action)
    BY DEF IsImport
<1>1. N \in Nat /\ DOMAIN acts = 1 .. N
    BY <1>0
<1>2. PICK f : /\ f[0] = [tables |-> EmptyOf(members), panics |-> FALSE]
               /\ \A i \in Nat : i + 1 <= N => f[i + 1] = ApplyNext(f[i], acts[i + 1])
               /\ Applying(EmptyOf(members), acts) = f[N]
    BY <1>1, ApplyingIsRun
<1> HIDE DEF N
<1> DEFINE Bad(j) == acts[j].type = "Stored" /\ ~Names(Range(acts), "Mounted", acts[j].key)
           Good(i) == /\ f[i] = [tables |-> f[i].tables, panics |-> f[i].panics]
                      /\ f[i].panics \in BOOLEAN
                      /\ f[i].panics <=> \E j \in 1 .. i : Bad(j)
                      /\ ~f[i].panics => Made(members, f[i].tables, Before(acts, i))
           T == {i \in Nat : i <= N => Good(i)}
<1>3. Good(0)
    <2>1. Before(acts, 0) = {}
        BY DEF Before
    <2>2. EmptyOf(members) \in Tables /\ EmptyOf(members).membership = members
        BY DEF EmptyOf, EmptyTables, Tables
    <2>3. /\ \A k \in Key : EmptyOf(members).row[k] = NoRow
          /\ \A u \in TagKey : EmptyOf(members).tag[u] = NoDigest
        BY DEF EmptyOf, EmptyTables
    <2>4. Made(members, EmptyOf(members), {})
        BY <2>2, <2>3 DEF Made, MadeRow, MadeTag, Names
    <2>5. f[0].tables = EmptyOf(members) /\ f[0].panics = FALSE
        BY <1>2
    <2>6. ~ \E j \in 1 .. 0 : Bad(j)
        OBVIOUS
    <2> HIDE DEF Bad
    <2> QED
        BY <1>2, <2>1, <2>4, <2>5, <2>6
<1>4. ASSUME NEW i \in Nat, Good(i), i + 1 <= N PROVE Good(i + 1)
    <2>1. PICK a : a = acts[i + 1]
        OBVIOUS
    <2>2. i + 1 \in DOMAIN acts /\ a \in Action /\ a.type \in ImportType \cup {"HashTagged"}
        BY <1>0, <1>1, <1>4, <2>1 DEF IsImport
    <2>3. \A j : j \in 1 .. i + 1 <=> j \in 1 .. i \/ j = i + 1
        OBVIOUS
    <2>4. f[i + 1] = ApplyNext(f[i], a) /\ Before(acts, i + 1) = Before(acts, i) \cup {a}
        BY <1>2, <1>4, <2>1, <2>3 DEF Before
    <2>5. \A j \in 1 .. i : j \in DOMAIN acts /\ acts[j] \in Range(acts)
        BY <1>1, <1>4 DEF Range
    <2>6. a.type \in ImportType \ {"Mounted"} =>
             (Names(Range(acts), "Mounted", a.key) <=> Names(Before(acts, i), "Mounted", a.key))
        <3>1. ASSUME a.type \in ImportType \ {"Mounted"}, Names(Range(acts), "Mounted", a.key)
              PROVE  Names(Before(acts, i), "Mounted", a.key)
            <4>1. PICK j \in DOMAIN acts : acts[j].type = "Mounted" /\ acts[j].key = a.key
                BY <3>1 DEF Names, Range
            <4>2. j < i + 1
                BY <2>1, <2>2, <3>1, <4>1 DEF IsImport
            <4>3. j \in 1 .. i
                BY <1>1, <4>1, <4>2
            <4> QED
                BY <4>1, <4>3 DEF Names, Before
        <3>2. Before(acts, i) \subseteq Range(acts)
            BY <2>5 DEF Before
        <3> QED
            BY <3>1, <3>2 DEF Names
    <2>7. CASE f[i].panics
        <3>1. f[i + 1] = [tables |-> f[i].tables, panics |-> TRUE]
            BY <1>4, <2>4, <2>7 DEF ApplyNext
        <3>2. \E j \in 1 .. i + 1 : Bad(j)
            BY <1>4, <2>3, <2>7
        <3> HIDE DEF Bad
        <3> QED
            BY <3>1, <3>2
    <2>8. CASE f[i].panics = FALSE
        <3>1. Made(members, f[i].tables, Before(acts, i))
            BY <1>4, <2>8
        <3>2. ~ \E j \in 1 .. i : Bad(j)
            BY <1>4, <2>8
        <3>3. PanicsOn(f[i].tables, a) <=> Bad(i + 1)
            <4>1. CASE a.type = "Stored"
                <5>1. a.key \in Key /\ a.type \in RowActionType /\ a.type \in ImportType \ {"Mounted"}
                    BY <2>2, <4>1, ActionFields DEF RowActionType, ImportType
                <5>2. f[i].tables.row[a.key] # NoRow <=> Names(Before(acts, i), "Mounted", a.key)
                    BY <3>1, <5>1 DEF Made, MadeRow
                <5> QED
                    BY <2>1, <2>6, <4>1, <5>1, <5>2 DEF PanicsOn, Panics
            <4>2. CASE a.type # "Stored"
                BY <2>1, <4>2 DEF PanicsOn, Panics
            <4> QED
                BY <4>1, <4>2
        <3>4. (\E j \in 1 .. i + 1 : Bad(j)) <=> Bad(i + 1)
            BY <2>3, <3>2
        <3>5. CASE PanicsOn(f[i].tables, a)
            <4>1. f[i + 1] = [tables |-> f[i].tables, panics |-> TRUE]
                BY <1>4, <2>4, <2>8, <3>5 DEF ApplyNext
            <4> HIDE DEF Bad
            <4> QED
                BY <3>3, <3>4, <3>5, <4>1
        <3>6. CASE ~PanicsOn(f[i].tables, a)
            <4>1. f[i + 1] = [tables |-> ApplyAction(f[i].tables, a), panics |-> FALSE]
                BY <1>4, <2>4, <2>8, <3>6 DEF ApplyNext
            <4>2. ASSUME a.type = "Mounted"
                  PROVE  /\ a.timestamp = 0
                         /\ \A b \in Before(acts, i) :
                               b.type \in ImportType /\ b.key = a.key => b.type = "Mounted"
                <5>1. ASSUME NEW j \in 1 .. i, acts[j].type \in ImportType \ {"Mounted"}, acts[j].key = a.key
                      PROVE  FALSE
                    BY <2>1, <2>2, <2>5, <4>2, <5>1 DEF IsImport
                <5> QED
                    BY <2>1, <2>2, <4>2, <5>1 DEF IsImport, Before
            <4>3. a.type = "Info" => \A b \in Before(acts, i) :
                     b.type = "Info" /\ b.key = a.key => b.dependencies = a.dependencies
                BY <2>1, <2>2, <2>5 DEF IsImport, Before
            <4>4. a.type = "HashTagged" => \A b \in Before(acts, i) :
                     b.type = "HashTagged" /\ b.repository = a.repository /\ b.tag = a.tag
                        => b.digest = a.digest
                BY <2>1, <2>2, <2>5 DEF IsImport, Before
            <4>5. ASSUME a.type \in {"Info", "Stat"}
                  PROVE  f[i].tables.row[a.key] # NoRow \/ ~Names(Before(acts, i) \cup {a}, "Mounted", a.key)
                <5>1. a.key \in Key /\ a.type # "Mounted"
                    BY <2>2, <4>5, ActionFields DEF RowActionType
                <5>2. f[i].tables.row[a.key] # NoRow <=> Names(Before(acts, i), "Mounted", a.key)
                    BY <3>1, <5>1 DEF Made, MadeRow
                <5> QED
                    BY <5>1, <5>2 DEF Names
            <4>6. Made(members, ApplyAction(f[i].tables, a), Before(acts, i) \cup {a})
                BY <2>2, <3>1, <3>6, <4>2, <4>3, <4>4, <4>5, MadeStep
            <4>7. f[i + 1].tables = ApplyAction(f[i].tables, a) /\ f[i + 1].panics = FALSE
                BY <4>1
            <4> HIDE DEF Bad
            <4> QED
                BY <2>4, <3>3, <3>4, <3>6, <4>1, <4>6, <4>7
        <3> QED
            BY <3>5, <3>6
    <2> HIDE DEF Bad
    <2>9. f[i].panics \in BOOLEAN
        BY <1>4
    <2> QED
        BY <2>7, <2>8, <2>9
<1> HIDE DEF Good
<1>5. 0 \in T /\ \A i \in Nat : i \in T => i + 1 \in T
    BY <1>1, <1>3, <1>4
<1> HIDE DEF T
<1>6. Nat \subseteq T
    BY <1>5, SetInduction
<1>7. Good(N)
    BY <1>1, <1>6 DEF T
<1>8. Before(acts, N) = Range(acts)
    BY <1>1 DEF Before, Range
<1>9. (\E j \in 1 .. N : Bad(j)) <=> Bare(acts)
    BY <1>1 DEF Bare
<1> HIDE DEF Bad
<1> QED
    BY <1>2, <1>7, <1>8, <1>9 DEF Good
-----------------------------------------------------------------------------
(***************************************************************************)
(* The transaction POST /import puts together has that shape.              *)
(***************************************************************************)

\* What may come before b, in an import.
MayPrecede(a, b) ==
    /\ a.type \in ImportType \ {"Mounted"} /\ b.type = "Mounted" => a.key # b.key
    /\ a.type = "Info" /\ b.type = "Info" /\ a.key = b.key => a.dependencies = b.dependencies
    /\ a.type = "HashTagged" /\ b.type = "HashTagged" /\ a.repository = b.repository /\ a.tag = b.tag
          => a.digest = b.digest

LEMMA RangeOfConcat ==
    ASSUME NEW S, NEW s \in Seq(S), NEW t \in Seq(S)
    PROVE  /\ s \o t \in Seq(S)
           /\ Range(s \o t) = Range(s) \cup Range(t)
           /\ Range(s) \subseteq S /\ Range(t) \subseteq S
<1>1. /\ s \o t \in Seq(S) /\ Len(s \o t) = Len(s) + Len(t)
      /\ \A i \in 1 .. Len(s) : (s \o t)[i] = s[i]
      /\ \A i \in 1 .. Len(t) : (s \o t)[Len(s) + i] = t[i]
      /\ Len(s) \in Nat /\ Len(t) \in Nat
    OBVIOUS
<1>2. DOMAIN (s \o t) = 1 .. Len(s) + Len(t) /\ DOMAIN s = 1 .. Len(s) /\ DOMAIN t = 1 .. Len(t)
    BY <1>1
<1>3. ASSUME NEW i \in DOMAIN (s \o t) PROVE (s \o t)[i] \in Range(s) \cup Range(t)
    <2>1. CASE i <= Len(s)
        BY <1>1, <1>2, <2>1 DEF Range
    <2>2. CASE i > Len(s)
        <3>1. i - Len(s) \in 1 .. Len(t) /\ Len(s) + (i - Len(s)) = i
            BY <1>1, <1>2, <2>2
        <3>2. (s \o t)[i] = t[i - Len(s)]
            BY <1>1, <3>1
        <3> QED
            BY <1>2, <3>1, <3>2 DEF Range
    <2> QED
        BY <1>1, <1>2, <2>1, <2>2
<1>4. ASSUME NEW i \in DOMAIN s PROVE s[i] \in Range(s \o t)
    <2>1. i \in DOMAIN (s \o t) /\ (s \o t)[i] = s[i]
        BY <1>1, <1>2
    <2> QED
        BY <2>1 DEF Range
<1>5. ASSUME NEW i \in DOMAIN t PROVE t[i] \in Range(s \o t)
    <2>1. Len(s) + i \in DOMAIN (s \o t) /\ (s \o t)[Len(s) + i] = t[i]
        BY <1>1, <1>2
    <2> QED
        BY <2>1 DEF Range
<1>6. Range(s) \subseteq S /\ Range(t) \subseteq S
    BY DEF Range
<1>7. Range(s \o t) \subseteq Range(s) \cup Range(t)
    BY <1>3 DEF Range
<1>8. Range(s) \subseteq Range(s \o t)
    BY <1>4 DEF Range
<1>9. Range(t) \subseteq Range(s \o t)
    BY <1>5 DEF Range
<1> QED
    BY <1>1, <1>6, <1>7, <1>8, <1>9

LEMMA ImportOfConcat ==
    ASSUME NEW s, NEW t, IsImport(s), IsImport(t),
           \A a \in Range(s), b \in Range(t) : MayPrecede(a, b)
    PROVE  IsImport(s \o t) /\ Range(s \o t) = Range(s) \cup Range(t)
<1>1. s \in Seq(Action) /\ t \in Seq(Action)
    BY DEF IsImport
<1>2. /\ s \o t \in Seq(Action) /\ Len(s \o t) = Len(s) + Len(t)
      /\ \A i \in 1 .. Len(s) : (s \o t)[i] = s[i]
      /\ \A i \in 1 .. Len(t) : (s \o t)[Len(s) + i] = t[i]
      /\ Len(s) \in Nat /\ Len(t) \in Nat
    BY <1>1
<1>3. DOMAIN (s \o t) = 1 .. Len(s) + Len(t) /\ DOMAIN s = 1 .. Len(s) /\ DOMAIN t = 1 .. Len(t)
    BY <1>1, <1>2
<1> DEFINE c == s \o t
           InS(i) == i \in DOMAIN s /\ c[i] = s[i]
           InT(i) == i > Len(s) /\ i - Len(s) \in DOMAIN t /\ c[i] = t[i - Len(s)]
<1>4. ASSUME NEW i \in DOMAIN c PROVE InS(i) \/ InT(i)
    <2>1. CASE i <= Len(s)
        BY <1>2, <1>3, <2>1
    <2>2. CASE i > Len(s)
        <3>1. i - Len(s) \in 1 .. Len(t) /\ Len(s) + (i - Len(s)) = i
            BY <1>2, <1>3, <2>2
        <3> QED
            BY <1>2, <1>3, <2>2, <3>1
    <2> QED
        BY <1>2, <1>3, <2>1, <2>2
<1>5. c \in Seq(Action) /\ DOMAIN c \subseteq Nat /\ DOMAIN s \subseteq 1 .. Len(s)
    BY <1>2, <1>3
<1>6. \A i \in DOMAIN c : /\ InS(i) => c[i] \in Range(s)
                          /\ InT(i) => c[i] \in Range(t)
    BY DEF Range
<1> HIDE DEF c
<1>7. ASSUME NEW i \in DOMAIN c
      PROVE  /\ c[i].type \in ImportType \cup {"HashTagged"}
             /\ c[i].type = "Mounted" => c[i].timestamp = 0
    BY <1>4, <1>7 DEF IsImport
<1>8. ASSUME NEW i \in DOMAIN c, NEW j \in DOMAIN c,
             c[i].type \in ImportType \ {"Mounted"}, c[j].type = "Mounted", c[i].key = c[j].key
      PROVE  j < i
    <2>1. CASE InS(i) /\ InS(j)
        BY <1>8, <2>1 DEF IsImport
    <2>2. CASE InT(i) /\ InT(j)
        <3>1. j - Len(s) < i - Len(s)
            BY <1>8, <2>2 DEF IsImport
        <3> QED
            BY <1>2, <1>5, <3>1
    <2>3. CASE InS(i) /\ InT(j)
        BY <1>6, <1>8, <2>3 DEF MayPrecede
    <2>4. CASE InT(i) /\ InS(j)
        BY <1>2, <1>5, <2>4
    <2> QED
        BY <1>4, <2>1, <2>2, <2>3, <2>4
<1>9. ASSUME NEW i \in DOMAIN c, NEW j \in DOMAIN c
      PROVE  /\ c[i].type = "Info" /\ c[j].type = "Info" /\ c[i].key = c[j].key
                   => c[i].dependencies = c[j].dependencies
             /\ c[i].type = "HashTagged" /\ c[j].type = "HashTagged"
                   /\ c[i].repository = c[j].repository /\ c[i].tag = c[j].tag
                   => c[i].digest = c[j].digest
    <2>1. CASE InS(i) /\ InS(j)
        BY <2>1 DEF IsImport
    <2>2. CASE InT(i) /\ InT(j)
        BY <2>2 DEF IsImport
    <2>3. CASE InS(i) /\ InT(j)
        BY <1>6, <2>3 DEF MayPrecede
    <2>4. CASE InT(i) /\ InS(j)
        BY <1>6, <2>4 DEF MayPrecede
    <2> QED
        BY <1>4, <2>1, <2>2, <2>3, <2>4
<1>10. IsImport(c)
    BY <1>5, <1>7, <1>8, <1>9 DEF IsImport
<1> QED
    BY <1>1, <1>10, RangeOfConcat DEF c

\* f is the function that FlattenSeq defines, up to k.
IsFlat(f, k, seqs) == f = [i \in 1 .. k |-> IF i = 1 THEN seqs[i] ELSE f[i - 1] \o seqs[i]]

LEMMA FlatExists ==
    ASSUME NEW k \in Nat, NEW seqs
    PROVE  \E f : IsFlat(f, k, seqs)
<1> DEFINE T == {n \in Nat : \E f : IsFlat(f, n, seqs)}
<1>1. 0 \in T
    <2>1. IsFlat([n \in 1 .. 0 |-> seqs], 0, seqs)
        BY DEF IsFlat
    <2> QED
        BY <2>1
<1>2. ASSUME NEW n \in Nat, n \in T PROVE n + 1 \in T
    <2>1. PICK f : IsFlat(f, n, seqs)
        BY <1>2
    <2> DEFINE q == [i \in 1 .. n + 1 |->
                        IF i = 1 THEN seqs[1]
                        ELSE IF i = n + 1 THEN f[n] \o seqs[n + 1] ELSE f[i]]
    <2>2. ASSUME NEW i \in 1 .. n + 1
          PROVE  q[i] = IF i = 1 THEN seqs[i] ELSE q[i - 1] \o seqs[i]
        <3>1. CASE i = 1
            BY <3>1
        <3>2. CASE i # 1
            <4>1. i - 1 \in 1 .. n /\ i - 1 \in 1 .. n + 1
                BY <3>2
            <4>2. f[i - 1] = IF i - 1 = 1 THEN seqs[i - 1] ELSE f[(i - 1) - 1] \o seqs[i - 1]
                BY <2>1, <4>1 DEF IsFlat
            <4>3. q[i - 1] = f[i - 1]
                BY <3>2, <4>1, <4>2
            <4>4. q[i] = f[i - 1] \o seqs[i]
                <5>1. CASE i = n + 1
                    <6>1. i - 1 = n /\ n + 1 \in 1 .. n + 1 /\ n + 1 # 1
                        BY <3>2, <5>1
                    <6>2. q[n + 1] = f[n] \o seqs[n + 1]
                        BY <6>1
                    <6> HIDE DEF q
                    <6> QED
                        BY <5>1, <6>1, <6>2
                <5>2. CASE i # n + 1
                    <6>1. i \in 1 .. n /\ q[i] = f[i]
                        BY <3>2, <5>2
                    <6> QED
                        BY <2>1, <3>2, <6>1 DEF IsFlat
                <5> QED
                    BY <5>1, <5>2
            <4> HIDE DEF q
            <4> QED
                BY <3>2, <4>3, <4>4
        <3> QED
            BY <3>1, <3>2
    <2>3. q = [i \in 1 .. n + 1 |-> q[i]]
        OBVIOUS
    <2> HIDE DEF q
    <2>4. IsFlat(q, n + 1, seqs)
        BY <2>2, <2>3 DEF IsFlat
    <2> QED
        BY <2>4
<1> HIDE DEF T
<1>3. Nat \subseteq T
    BY <1>1, <1>2, SetInduction
<1> QED
    BY <1>3 DEF T

\* Imports one after the other, where each may precede the later ones.
LEMMA ImportOfFlat ==
    ASSUME NEW seqs \in Seq(Seq(Action)),
           \A i \in DOMAIN seqs : IsImport(seqs[i]),
           \A i, j \in DOMAIN seqs : i < j =>
              \A a \in Range(seqs[i]), b \in Range(seqs[j]) : MayPrecede(a, b)
    PROVE  /\ IsImport(FlattenSeq(seqs))
           /\ Range(FlattenSeq(seqs)) = UNION {Range(seqs[i]) : i \in DOMAIN seqs}
<1> DEFINE N == Len(seqs)
<1>1. N \in Nat /\ DOMAIN seqs = 1 .. N
    OBVIOUS
<1>2. CASE N = 0
    <2>1. FlattenSeq(seqs) = seqs /\ seqs = <<>>
        BY <1>2 DEF FlattenSeq
    <2>2. IsImport(<<>>) /\ Range(<<>>) = {} /\ DOMAIN seqs = {}
        BY <1>1, <1>2 DEF IsImport, Range
    <2> QED
        BY <2>1, <2>2
<1>3. CASE N # 0
    <2> DEFINE f == CHOOSE g : IsFlat(g, N, seqs)
    <2>1. IsFlat(f, N, seqs)
        BY <1>1, FlatExists
    <2>2. FlattenSeq(seqs) = f[N]
        BY <1>3 DEF FlattenSeq, IsFlat
    <2> HIDE DEF f, N
    <2>3. \A i \in 1 .. N : f[i] = IF i = 1 THEN seqs[i] ELSE f[i - 1] \o seqs[i]
        BY <2>1 DEF IsFlat
    <2> DEFINE Below1(i) == {Range(seqs[j]) : j \in 1 .. i}
               Good(i) == IsImport(f[i]) /\ Range(f[i]) = UNION Below1(i)
               T == {i \in Nat : i + 1 <= N => Good(i + 1)}
    <2>4. Good(1)
        <3>1. f[1] = seqs[1] /\ 1 \in DOMAIN seqs
            BY <1>1, <1>3, <2>3
        <3>2. Below1(1) = {Range(seqs[1])}
            OBVIOUS
        <3> HIDE DEF Below1
        <3> QED
            BY <3>1, <3>2
    <2>5. ASSUME NEW i \in Nat, i # 0, Good(i), i + 1 <= N PROVE Good(i + 1)
        <3>1. f[i + 1] = f[i] \o seqs[i + 1] /\ i + 1 \in DOMAIN seqs
            <4>1. i + 1 \in 1 .. N /\ i + 1 # 1 /\ (i + 1) - 1 = i
                BY <1>1, <2>5
            <4> QED
                BY <1>1, <2>3, <4>1
        <3>2. Below1(i + 1) = Below1(i) \cup {Range(seqs[i + 1])}
            <4>1. \A j : j \in 1 .. i + 1 <=> j \in 1 .. i \/ j = i + 1
                OBVIOUS
            <4> QED
                BY <4>1
        <3>3. ASSUME NEW a \in Range(f[i]), NEW b \in Range(seqs[i + 1]) PROVE MayPrecede(a, b)
            <4>1. PICK j \in 1 .. i : a \in Range(seqs[j])
                BY <2>5
            <4>2. j \in DOMAIN seqs /\ j < i + 1
                BY <1>1, <2>5
            <4> QED
                BY <3>1, <4>1, <4>2
        <3>4. IsImport(f[i]) /\ IsImport(seqs[i + 1])
            BY <2>5, <3>1
        <3>5. IsImport(f[i] \o seqs[i + 1]) /\ Range(f[i] \o seqs[i + 1]) = Range(f[i]) \cup Range(seqs[i + 1])
            BY <3>3, <3>4, ImportOfConcat
        <3>6. Range(f[i]) = UNION Below1(i)
            BY <2>5
        <3> HIDE DEF Below1
        <3> QED
            BY <3>1, <3>2, <3>5, <3>6
    <2> HIDE DEF Good
    <2>6. 0 \in T
        BY <2>4
    <2>7. ASSUME NEW i \in Nat, i \in T PROVE i + 1 \in T
        <3>1. ASSUME (i + 1) + 1 <= N PROVE Good((i + 1) + 1)
            <4>1. i + 1 <= N /\ i + 1 \in Nat /\ i + 1 # 0
                BY <1>1, <3>1
            <4>2. Good(i + 1)
                BY <2>7, <4>1
            <4> QED
                BY <2>5, <3>1, <4>1, <4>2
        <3> QED
            BY <3>1
    <2> HIDE DEF T
    <2>8. Nat \subseteq T
        BY <2>6, <2>7, SetInduction
    <2>9. Good(N)
        <3>1. N - 1 \in Nat /\ (N - 1) + 1 = N
            BY <1>1, <1>3
        <3>2. N - 1 \in T
            BY <2>8, <3>1
        <3> QED
            BY <1>1, <3>1, <3>2 DEF T
    <2> QED
        BY <1>1, <2>2, <2>9 DEF Good
<1> QED
    BY <1>2, <1>3

\* What an import says of a row, and of a tag.
RowActions(k, r) ==
    {Mounting0(k, p) : p \in r.repositories} \cup {Storing(k, n) : n \in r.locations}
    \cup (IF r.typed THEN {Describing(k, r.dependencies)} ELSE {})
    \cup (IF r.sized THEN {Sizing(k)} ELSE {})

TagsIn(t) == {u \in TagKey : t.tag[u] # NoDigest}

TagActions(t) == {Tagging(u, t.tag[u]) : u \in TagsIn(t)}

\* The actions of one kind on one object, in any order.
LEMMA ImportOfOneKind ==
    ASSUME NEW acts \in Seq(Action), NEW type \in ImportType,
           \A a \in Range(acts) : a.type = type /\ (type = "Mounted" => a.timestamp = 0),
           type = "Info" => \A a, b \in Range(acts) : a = b
    PROVE  IsImport(acts)
<1>1. \A i \in DOMAIN acts : acts[i] \in Range(acts)
    BY DEF Range
<1> QED
    BY <1>1 DEF IsImport, ImportType

LEMMA OneAction ==
    ASSUME NEW a
    PROVE  Range(<<a>>) = {a} /\ Range(<<>>) = {}
BY DEF Range

LEMMA ImportOfRow ==
    ASSUME NEW k \in Key, NEW r \in Row, IsFiniteSet(r.locations)
    PROVE  IsImport(ImportRow(k, r, 0)) /\ Range(ImportRow(k, r, 0)) = RowActions(k, r)
<1> DEFINE M == {Mounting0(k, p) : p \in r.repositories}
           S == {Storing(k, n) : n \in r.locations}
           I == IF r.typed THEN <<Describing(k, r.dependencies)>> ELSE <<>>
           Z == IF r.sized THEN <<Sizing(k)>> ELSE <<>>
           setI == IF r.typed THEN {Describing(k, r.dependencies)} ELSE {}
           setZ == IF r.sized THEN {Sizing(k)} ELSE {}
<1>1. /\ r.repositories \in SUBSET Repository /\ r.locations \in SUBSET Node
      /\ r.dependencies \in SUBSET Digest
    BY DEF Row
<1>2. IsFiniteSet(M)
    <2> DEFINE g == [p \in r.repositories |-> Mounting0(k, p)]
    <2>1. IsFiniteSet(r.repositories)
        BY <1>1, FiniteAssumption, FS_Subset
    <2>2. g \in Surjection(r.repositories, M)
        BY DEF Surjection
    <2> QED
        BY <2>1, <2>2, FS_Surjection
<1>3. IsFiniteSet(S)
    <2> DEFINE g == [n \in r.locations |-> Storing(k, n)]
    <2>1. g \in Surjection(r.locations, S)
        BY DEF Surjection
    <2> QED
        BY <2>1, FS_Surjection
<1>4. M \subseteq Action /\ \A a \in M : a.type = "Mounted" /\ a.timestamp = 0 /\ a.key = k
    BY <1>1, TimestampAssumption DEF Mounting0, Action, RowAction
<1>5. S \subseteq Action /\ \A a \in S : a.type = "Stored" /\ a.key = k
    BY <1>1 DEF Storing, Action, RowAction
<1>6. /\ Describing(k, r.dependencies) \in Action /\ Describing(k, r.dependencies).type = "Info"
      /\ Sizing(k) \in Action /\ Sizing(k).type = "Stat"
    BY <1>1 DEF Describing, Sizing, Action, RowAction
<1>7. I \in Seq(Action) /\ Z \in Seq(Action)
    BY <1>6
<1>8. Range(I) = setI /\ Range(Z) = setZ
    BY OneAction
<1>9. /\ \A a \in setI : a = Describing(k, r.dependencies)
      /\ \A a \in setZ : a = Sizing(k)
    OBVIOUS
<1>10. PICK m : m = SetToSeq(M)
    OBVIOUS
<1>11. PICK s : s = SetToSeq(S)
    OBVIOUS
<1>12. ImportRow(k, r, 0) = ((m \o s) \o I) \o Z
    BY <1>10, <1>11 DEF ImportRow, Mounting0
<1>13. RowActions(k, r) = ((M \cup S) \cup setI) \cup setZ
    BY DEF RowActions
<1> HIDE DEF M, S, I, Z, setI, setZ
<1>14. m \in Seq(Action) /\ Range(m) = M /\ s \in Seq(Action) /\ Range(s) = S
    BY <1>2, <1>3, <1>4, <1>5, <1>10, <1>11, RangeOfSetToSeq
<1>15. IsImport(m)
    <2>1. "Mounted" \in ImportType /\ "Mounted" # "Info"
        BY DEF ImportType
    <2> QED
        BY <1>4, <1>14, <2>1, ImportOfOneKind
<1>16. IsImport(s)
    <2>1. "Stored" \in ImportType /\ "Stored" # "Info" /\ "Stored" # "Mounted"
        BY DEF ImportType
    <2> QED
        BY <1>5, <1>14, <2>1, ImportOfOneKind
<1>17. IsImport(I)
    <2>1. "Info" \in ImportType /\ "Info" # "Mounted"
        BY DEF ImportType
    <2> QED
        BY <1>6, <1>7, <1>8, <1>9, <2>1, ImportOfOneKind
<1>18. IsImport(Z)
    <2>1. "Stat" \in ImportType /\ "Stat" # "Mounted" /\ "Stat" # "Info"
        BY DEF ImportType
    <2> QED
        BY <1>6, <1>7, <1>8, <1>9, <2>1, ImportOfOneKind
<1>19. IsImport(m \o s) /\ Range(m \o s) = M \cup S
    <2>1. \A a \in Range(m), b \in Range(s) : MayPrecede(a, b)
        BY <1>4, <1>5, <1>14 DEF MayPrecede
    <2> QED
        BY <1>14, <1>15, <1>16, <2>1, ImportOfConcat
<1>20. IsImport((m \o s) \o I) /\ Range((m \o s) \o I) = (M \cup S) \cup setI
    <2>1. \A a \in Range(m \o s), b \in Range(I) : MayPrecede(a, b)
        BY <1>4, <1>5, <1>6, <1>8, <1>9, <1>19 DEF MayPrecede
    <2> QED
        BY <1>8, <1>17, <1>19, <2>1, ImportOfConcat
<1>21. IsImport(((m \o s) \o I) \o Z) /\ Range(((m \o s) \o I) \o Z) = ((M \cup S) \cup setI) \cup setZ
    <2>1. \A a \in Range((m \o s) \o I), b \in Range(Z) : MayPrecede(a, b)
        BY <1>6, <1>8, <1>9 DEF MayPrecede
    <2> QED
        BY <1>8, <1>18, <1>20, <2>1, ImportOfConcat
<1> QED
    BY <1>12, <1>13, <1>21

\* What the tables of a registry are like, besides their type: a row that has
\* not been analysed names nothing, and there are finitely many locations and
\* tags.
Tidy(t) ==
    /\ \A k \in Key : t.row[k] # NoRow =>
          /\ t.row[k].typed = FALSE => t.row[k].dependencies = {}
          /\ IsFiniteSet(t.row[k].locations)
    /\ IsFiniteSet(TagsIn(t))

\* Everything the import of t says.
AllActions(t) ==
    (UNION {RowActions(k, t.row[k]) : k \in {j \in Key : t.row[j] # NoRow}}) \cup TagActions(t)

LEMMA RowActionsFacts ==
    ASSUME NEW k \in Key, NEW r \in Row, NEW a \in RowActions(k, r)
    PROVE  a.key = k /\ a.type \in ImportType
BY DEF RowActions, Mounting0, Storing, Describing, Sizing, ImportType

LEMMA TagActionsFacts ==
    ASSUME NEW t \in Tables, NEW a \in TagActions(t)
    PROVE  /\ a \in Action /\ a.type = "HashTagged"
           /\ \E u \in TagsIn(t) : a.repository = u[1] /\ a.tag = u[2] /\ a.digest = t.tag[u]
<1>1. PICK u \in TagsIn(t) : a = Tagging(u, t.tag[u])
    BY DEF TagActions
<1>2. u \in TagKey /\ t.tag[u] \in Digest
    BY DEF TagsIn, Tables
<1>3. u[1] \in Repository /\ u[2] \in Tag
    BY <1>2 DEF TagKey
<1> QED
    BY <1>1, <1>2, <1>3 DEF Tagging, Action, OtherAction

LEMMA ImportOfTags ==
    ASSUME NEW t \in Tables, Tidy(t)
    PROVE  IsImport(SetToSeq(TagActions(t))) /\ Range(SetToSeq(TagActions(t))) = TagActions(t)
<1> DEFINE g == [u \in TagsIn(t) |-> Tagging(u, t.tag[u])]
<1>1. g \in Surjection(TagsIn(t), TagActions(t))
    BY DEF Surjection, TagActions
<1>2. IsFiniteSet(TagActions(t))
    BY <1>1, FS_Surjection DEF Tidy
<1>3. PICK s : s = SetToSeq(TagActions(t))
    OBVIOUS
<1>4. s \in Seq(TagActions(t)) /\ Range(s) = TagActions(t)
    BY <1>2, <1>3, RangeOfSetToSeq
<1>5. TagActions(t) \subseteq Action
    BY TagActionsFacts
<1>6. s \in Seq(Action) /\ \A i \in DOMAIN s : s[i] \in TagActions(t)
    BY <1>4, <1>5
<1>7. \A i \in DOMAIN s : s[i].type = "HashTagged"
    BY <1>6, TagActionsFacts
<1>8. ASSUME NEW i \in DOMAIN s, NEW j \in DOMAIN s,
             s[i].repository = s[j].repository, s[i].tag = s[j].tag
      PROVE  s[i].digest = s[j].digest
    <2>1. PICK u \in TagsIn(t) : s[i].repository = u[1] /\ s[i].tag = u[2] /\ s[i].digest = t.tag[u]
        BY <1>6, TagActionsFacts
    <2>2. PICK v \in TagsIn(t) : s[j].repository = v[1] /\ s[j].tag = v[2] /\ s[j].digest = t.tag[v]
        BY <1>6, TagActionsFacts
    <2>3. u = <<u[1], u[2]>> /\ v = <<v[1], v[2]>>
        BY DEF TagsIn, TagKey
    <2> QED
        BY <1>8, <2>1, <2>2, <2>3
<1>9. IsImport(s)
    BY <1>6, <1>7, <1>8 DEF IsImport, ImportType
<1> QED
    BY <1>3, <1>4, <1>9

LEMMA ImportOfTables ==
    ASSUME NEW t \in Tables, Tidy(t)
    PROVE  IsImport(ImportActions(t, 0)) /\ Range(ImportActions(t, 0)) = AllActions(t)
<1> DEFINE P == {k \in Key : t.row[k] # NoRow}
           R == {ImportRow(k, t.row[k], 0) : k \in P}
           g == [k \in P |-> ImportRow(k, t.row[k], 0)]
<1>1. P \subseteq Key /\ \A k \in P : t.row[k] \in Row /\ IsFiniteSet(t.row[k].locations)
    BY DEF Tables, Tidy
<1>2. \A k \in P : /\ IsImport(ImportRow(k, t.row[k], 0))
                   /\ Range(ImportRow(k, t.row[k], 0)) = RowActions(k, t.row[k])
    BY <1>1, ImportOfRow
<1>3. IsFiniteSet(R)
    <2>1. g \in Surjection(P, R)
        BY DEF Surjection
    <2>2. IsFiniteSet(P)
        BY <1>1, KeyIsFinite, FS_Subset
    <2> QED
        BY <2>1, <2>2, FS_Surjection
<1>4. PICK seqs : seqs = SetToSeq(R)
    OBVIOUS
<1>5. /\ seqs \in Seq(R) /\ Range(seqs) = R
      /\ \A i, j \in DOMAIN seqs : i # j => seqs[i] # seqs[j]
    BY <1>3, <1>4, RangeOfSetToSeq
<1>6. \A i \in DOMAIN seqs : \E k \in P : seqs[i] = ImportRow(k, t.row[k], 0)
    BY <1>5
<1>7. \A k \in P : \E i \in DOMAIN seqs : seqs[i] = ImportRow(k, t.row[k], 0)
    BY <1>5 DEF Range
<1>8. ImportActions(t, 0) = FlattenSeq(seqs) \o SetToSeq(TagActions(t))
    BY <1>4 DEF ImportActions, TagActions, Tagging, TagsIn
<1>9. \A i \in DOMAIN seqs : IsImport(seqs[i])
    BY <1>2, <1>6
<1>10. seqs \in Seq(Seq(Action))
    BY <1>5, <1>9 DEF IsImport
<1>0. AllActions(t) = (UNION {RowActions(k, t.row[k]) : k \in P}) \cup TagActions(t)
    BY DEF AllActions
<1> HIDE DEF P, R, g
<1>11. ASSUME NEW i \in DOMAIN seqs, NEW j \in DOMAIN seqs, i < j,
              NEW a \in Range(seqs[i]), NEW b \in Range(seqs[j])
       PROVE  MayPrecede(a, b)
    <2>1. PICK k \in P : seqs[i] = ImportRow(k, t.row[k], 0)
        BY <1>6
    <2>2. PICK l \in P : seqs[j] = ImportRow(l, t.row[l], 0)
        BY <1>6
    <2>3. i # j
        BY <1>5, <1>11
    <2>4. k # l
        BY <1>5, <2>1, <2>2, <2>3
    <2>5. a \in RowActions(k, t.row[k]) /\ b \in RowActions(l, t.row[l])
        BY <1>2, <2>1, <2>2
    <2>6. k \in Key /\ l \in Key /\ t.row[k] \in Row /\ t.row[l] \in Row
        BY <1>1
    <2>7. a.key = k /\ b.key = l /\ a.type \in ImportType
        BY <2>5, <2>6, RowActionsFacts
    <2> QED
        BY <2>4, <2>7 DEF MayPrecede, ImportType
<1>12. /\ IsImport(FlattenSeq(seqs))
       /\ Range(FlattenSeq(seqs)) = UNION {Range(seqs[i]) : i \in DOMAIN seqs}
    BY <1>9, <1>10, <1>11, ImportOfFlat
<1>13. UNION {Range(seqs[i]) : i \in DOMAIN seqs} = UNION {RowActions(k, t.row[k]) : k \in P}
    <2>1. ASSUME NEW a, NEW i \in DOMAIN seqs, a \in Range(seqs[i])
          PROVE  \E k \in P : a \in RowActions(k, t.row[k])
        BY <1>2, <1>6, <2>1
    <2>2. ASSUME NEW a, NEW k \in P, a \in RowActions(k, t.row[k])
          PROVE  \E i \in DOMAIN seqs : a \in Range(seqs[i])
        BY <1>2, <1>7, <2>2
    <2> QED
        BY <2>1, <2>2
<1>14. IsImport(SetToSeq(TagActions(t))) /\ Range(SetToSeq(TagActions(t))) = TagActions(t)
    BY ImportOfTags
<1>15. \A a \in Range(FlattenSeq(seqs)), b \in TagActions(t) : MayPrecede(a, b)
    <2>1. ASSUME NEW a \in Range(FlattenSeq(seqs)), NEW b \in TagActions(t) PROVE MayPrecede(a, b)
        <3>1. PICK k \in P : a \in RowActions(k, t.row[k])
            BY <1>12, <1>13
        <3>2. a.type \in ImportType /\ b.type = "HashTagged"
            BY <1>1, <3>1, RowActionsFacts, TagActionsFacts
        <3> QED
            BY <3>2 DEF MayPrecede, ImportType
    <2> QED
        BY <2>1
<1>16. /\ IsImport(FlattenSeq(seqs) \o SetToSeq(TagActions(t)))
       /\ Range(FlattenSeq(seqs) \o SetToSeq(TagActions(t))) = Range(FlattenSeq(seqs)) \cup TagActions(t)
    BY <1>12, <1>14, <1>15, ImportOfConcat
<1> QED
    BY <1>0, <1>8, <1>12, <1>13, <1>16

\* What AllActions says of one row and one tag.
LEMMA AllActionsFacts ==
    ASSUME NEW t \in Tables, NEW k \in Key, t.row[k] # NoRow
    PROVE  /\ \A p \in Repository : Mounting0(k, p) \in AllActions(t) <=> p \in t.row[k].repositories
           /\ \A n \in Node : Storing(k, n) \in AllActions(t) <=> n \in t.row[k].locations
           /\ Names(AllActions(t), "Mounted", k) <=> t.row[k].repositories # {}
           /\ Names(AllActions(t), "Info", k) <=> t.row[k].typed
           /\ Names(AllActions(t), "Stat", k) <=> t.row[k].sized
           /\ t.row[k].typed => Describing(k, t.row[k].dependencies) \in AllActions(t)
<1> DEFINE A == AllActions(t)
           r == t.row[k]
<1>1. r \in Row
    BY DEF Tables
<1>2. \A a \in RowActions(k, r) : a \in A
    BY DEF AllActions
<1>3. ASSUME NEW a \in A, a.type \in ImportType, a.key = k PROVE a \in RowActions(k, r)
    <2>1. a \notin TagActions(t)
        BY <1>3, TagActionsFacts DEF ImportType
    <2>2. PICK j \in Key : t.row[j] # NoRow /\ a \in RowActions(j, t.row[j])
        <3>1. a \in UNION {RowActions(j, t.row[j]) : j \in {i \in Key : t.row[i] # NoRow}}
            BY <2>1 DEF AllActions
        <3> QED
            BY <3>1
    <2>3. t.row[j] \in Row
        BY <2>2 DEF Tables
    <2>4. a.key = j
        BY <2>2, <2>3, RowActionsFacts
    <2> QED
        BY <1>3, <2>2, <2>4
<1> HIDE DEF A
<1>4. ASSUME NEW p \in Repository PROVE Mounting0(k, p) \in A <=> p \in r.repositories
    <2>1. Mounting0(k, p).type = "Mounted" /\ Mounting0(k, p).key = k /\ Mounting0(k, p).repository = p
        BY DEF Mounting0
    <2>2. "Mounted" \in ImportType
        BY DEF ImportType
    <2>3. \A a \in RowActions(k, r) : a.type = "Mounted" => a.repository \in r.repositories
        BY DEF RowActions, Mounting0, Storing, Describing, Sizing
    <2>4. p \in r.repositories => Mounting0(k, p) \in RowActions(k, r)
        BY DEF RowActions
    <2> QED
        BY <1>2, <1>3, <2>1, <2>2, <2>3, <2>4
<1>5. ASSUME NEW n \in Node PROVE Storing(k, n) \in A <=> n \in r.locations
    <2>1. Storing(k, n).type = "Stored" /\ Storing(k, n).key = k /\ Storing(k, n).location = n
        BY DEF Storing
    <2>2. "Stored" \in ImportType
        BY DEF ImportType
    <2>3. \A a \in RowActions(k, r) : a.type = "Stored" => a.location \in r.locations
        BY DEF RowActions, Mounting0, Storing, Describing, Sizing
    <2>4. n \in r.locations => Storing(k, n) \in RowActions(k, r)
        BY DEF RowActions
    <2> QED
        BY <1>2, <1>3, <2>1, <2>2, <2>3, <2>4
<1>6. \A type \in ImportType : Names(A, type, k) <=> \E a \in RowActions(k, r) : a.type = type
    <2>1. \A a \in RowActions(k, r) : a.key = k
        BY <1>1, RowActionsFacts
    <2> QED
        BY <1>2, <1>3, <2>1 DEF Names
<1>7. {"Mounted", "Info", "Stat"} \subseteq ImportType
    BY DEF ImportType
<1>13. \A a \in RowActions(k, r) :
          /\ a.type = "Mounted" => a.repository \in r.repositories
          /\ a.type = "Info" => r.typed
          /\ a.type = "Stat" => r.sized
    BY DEF RowActions, Mounting0, Storing, Describing, Sizing
<1>14. /\ \A p \in r.repositories : Mounting0(k, p) \in RowActions(k, r)
       /\ r.typed => Describing(k, r.dependencies) \in RowActions(k, r)
       /\ r.sized => Sizing(k) \in RowActions(k, r)
    BY DEF RowActions
<1>15. /\ \A p : Mounting0(k, p).type = "Mounted"
       /\ Describing(k, r.dependencies).type = "Info" /\ Sizing(k).type = "Stat"
    BY DEF Mounting0, Describing, Sizing
<1>8. (\E a \in RowActions(k, r) : a.type = "Mounted") <=> r.repositories # {}
    BY <1>13, <1>14, <1>15
<1>9. (\E a \in RowActions(k, r) : a.type = "Info") <=> r.typed
    BY <1>13, <1>14, <1>15
<1>10. (\E a \in RowActions(k, r) : a.type = "Stat") <=> r.sized
    BY <1>13, <1>14, <1>15
<1>11. r.typed => Describing(k, r.dependencies) \in A
    BY <1>2 DEF RowActions
<1> HIDE DEF r
<1>12. /\ Names(A, "Mounted", k) <=> r.repositories # {}
       /\ Names(A, "Info", k) <=> r.typed
       /\ Names(A, "Stat", k) <=> r.sized
    BY <1>6, <1>7, <1>8, <1>9, <1>10
<1> QED
    BY <1>4, <1>5, <1>11, <1>12 DEF A, r
\* Where nothing is stored that is not mounted, the import restores the tables,
\* but for the age of the rows.
AgedRow(r) == IF r # NoRow /\ r.repositories # {} THEN [r EXCEPT !.created = 0] ELSE NoRow

LEMMA RestoredRow ==
    ASSUME NEW t \in Tables, Tidy(t), NEW k \in Key, NEW r \in Row \cup {NoRow},
           MadeRow(r, k, AllActions(t))
    PROVE  r = AgedRow(t.row[k])
<1> DEFINE q == t.row[k]
<1>1. CASE q = NoRow
    <2>1. ASSUME NEW a \in AllActions(t), a.type = "Mounted", a.key = k PROVE FALSE
        <3>1. a \notin TagActions(t)
            BY <2>1, TagActionsFacts
        <3>2. a \in UNION {RowActions(j, t.row[j]) : j \in {i \in Key : t.row[i] # NoRow}}
            BY <3>1 DEF AllActions
        <3>3. PICK j \in Key : t.row[j] # NoRow /\ a \in RowActions(j, t.row[j])
            BY <3>2
        <3>4. t.row[j] \in Row
            BY <3>3 DEF Tables
        <3>5. a.key = j
            BY <3>3, <3>4, RowActionsFacts
        <3> QED
            BY <1>1, <2>1, <3>3, <3>5
    <2>2. r = NoRow
        BY <2>1 DEF MadeRow, Names
    <2> QED
        BY <1>1, <2>2 DEF AgedRow
<1>2. CASE q # NoRow /\ q.repositories = {}
    <2>1. r = NoRow
        BY <1>2, AllActionsFacts DEF MadeRow
    <2> QED
        BY <1>2, <2>1 DEF AgedRow
<1>3. CASE q # NoRow /\ q.repositories # {}
    <2>1. q \in Row /\ (q.typed = FALSE => q.dependencies = {})
        BY <1>3 DEF Tables, Tidy
    <2>2. r # NoRow /\ r \in Row
        BY <1>3, AllActionsFacts DEF MadeRow
    <2>3. r.created = 0
        BY <2>2 DEF MadeRow
    <2>4. r.repositories = q.repositories
        <3>1. \A p \in Repository : Mounting0(k, p) \in AllActions(t) <=> p \in q.repositories
            BY <1>3, AllActionsFacts
        <3>2. r.repositories = {p \in Repository : Mounting0(k, p) \in AllActions(t)}
            BY <2>2 DEF MadeRow
        <3>3. q.repositories \subseteq Repository
            BY <2>1 DEF Row
        <3> QED
            BY <3>1, <3>2, <3>3
    <2>5. r.locations = q.locations
        <3>1. \A n \in Node : Storing(k, n) \in AllActions(t) <=> n \in q.locations
            BY <1>3, AllActionsFacts
        <3>2. r.locations = {n \in Node : Storing(k, n) \in AllActions(t)}
            BY <2>2 DEF MadeRow
        <3>3. q.locations \subseteq Node
            BY <2>1 DEF Row
        <3> QED
            BY <3>1, <3>2, <3>3
    <2>6. q.typed \in BOOLEAN /\ q.sized \in BOOLEAN /\ r.typed \in BOOLEAN /\ r.sized \in BOOLEAN
        BY <2>1, <2>2 DEF Row
    <2>7. (r.typed = TRUE <=> q.typed) /\ (r.sized = TRUE <=> q.sized)
        BY <1>3, <2>2, AllActionsFacts DEF MadeRow
    <2>8. r.dependencies = q.dependencies
        <3>1. CASE q.typed
            <4>1. Describing(k, q.dependencies) \in AllActions(t)
                BY <1>3, <3>1, AllActionsFacts
            <4>2. /\ Describing(k, q.dependencies).type = "Info" /\ Describing(k, q.dependencies).key = k
                  /\ Describing(k, q.dependencies).dependencies = q.dependencies
                BY DEF Describing
            <4> QED
                BY <2>2, <4>1, <4>2 DEF MadeRow
        <3>2. CASE q.typed = FALSE
            <4>1. ~Names(AllActions(t), "Info", k)
                BY <1>3, <3>2, AllActionsFacts
            <4> QED
                BY <2>1, <2>2, <3>2, <4>1 DEF MadeRow
        <3> QED
            BY <2>6, <3>1, <3>2
    <2>9. r.typed = q.typed /\ r.sized = q.sized
        BY <2>6, <2>7
    <2> HIDE DEF q
    <2>10. r = [q EXCEPT !.created = 0]
        BY <2>1, <2>2, <2>3, <2>4, <2>5, <2>8, <2>9 DEF Row
    <2> QED
        BY <1>3, <2>10 DEF AgedRow, q
<1> QED
    BY <1>1, <1>2, <1>3

LEMMA RestoredTag ==
    ASSUME NEW t \in Tables, NEW u \in TagKey, NEW d \in Digest \cup {NoDigest},
           MadeTag(d, u, AllActions(t))
    PROVE  d = t.tag[u]
<1>1. u = <<u[1], u[2]>>
    BY DEF TagKey
<1>2. CASE t.tag[u] # NoDigest
    <2>1. Tagging(u, t.tag[u]) \in AllActions(t)
        BY <1>2 DEF AllActions, TagActions, TagsIn
    <2>2. /\ Tagging(u, t.tag[u]).type = "HashTagged" /\ Tagging(u, t.tag[u]).digest = t.tag[u]
          /\ Tagging(u, t.tag[u]).repository = u[1] /\ Tagging(u, t.tag[u]).tag = u[2]
        BY DEF Tagging
    <2> QED
        BY <2>1, <2>2 DEF MadeTag
<1>3. CASE t.tag[u] = NoDigest
    <2>1. ASSUME d # NoDigest PROVE FALSE
        <3>1. PICK a \in AllActions(t) : a.type = "HashTagged" /\ a.repository = u[1] /\ a.tag = u[2]
            BY <2>1 DEF MadeTag
        <3>2. ASSUME NEW j \in Key, t.row[j] # NoRow, a \in RowActions(j, t.row[j]) PROVE FALSE
            <4>1. t.row[j] \in Row
                BY <3>2 DEF Tables
            <4>2. a.type \in ImportType
                BY <3>2, <4>1, RowActionsFacts
            <4> QED
                BY <3>1, <4>2 DEF ImportType
        <3>3. a \notin UNION {RowActions(j, t.row[j]) : j \in {i \in Key : t.row[i] # NoRow}}
            BY <3>2
        <3>4. a \in TagActions(t)
            BY <3>3 DEF AllActions
        <3>5. PICK v \in TagsIn(t) : a.repository = v[1] /\ a.tag = v[2]
            BY <3>4, TagActionsFacts
        <3>6. v = <<v[1], v[2]>> /\ t.tag[v] # NoDigest
            BY DEF TagsIn, TagKey
        <3> QED
            BY <1>1, <1>3, <3>1, <3>5, <3>6
    <2> QED
        BY <1>3, <2>1
<1> QED
    BY <1>2, <1>3

LEMMA ImportOfTidy ==
    ASSUME NEW t \in Tables, Tidy(t)
    PROVE  /\ Applying(EmptyOf(t.membership), ImportActions(t, 0)).panics \in BOOLEAN
           /\ Applying(EmptyOf(t.membership), ImportActions(t, 0)).panics <=>
                 \E k \in Key : t.row[k] # NoRow /\ t.row[k].repositories = {} /\ t.row[k].locations # {}
           /\ ~Applying(EmptyOf(t.membership), ImportActions(t, 0)).panics =>
                 Applying(EmptyOf(t.membership), ImportActions(t, 0)).tables
                    = [t EXCEPT !.row = [k \in Key |-> AgedRow(t.row[k])]]
<1>1. PICK acts : acts = ImportActions(t, 0)
    OBVIOUS
<1>2. IsImport(acts) /\ Range(acts) = AllActions(t)
    BY <1>1, ImportOfTables
<1>3. t.membership \in SUBSET Node
    BY DEF Tables
<1>4. PICK run : run = Applying(EmptyOf(t.membership), acts)
    OBVIOUS
<1>5. /\ run.panics \in BOOLEAN
      /\ run.panics <=> Bare(acts)
      /\ ~run.panics => Made(t.membership, run.tables, AllActions(t))
    BY <1>2, <1>3, <1>4, ImportRun
<1>6. Bare(acts) <=> \E k \in Key : t.row[k] # NoRow /\ t.row[k].repositories = {} /\ t.row[k].locations # {}
    <2>1. ASSUME Bare(acts)
          PROVE  \E k \in Key : t.row[k] # NoRow /\ t.row[k].repositories = {} /\ t.row[k].locations # {}
        <3>1. PICK i \in DOMAIN acts :
                 acts[i].type = "Stored" /\ ~Names(AllActions(t), "Mounted", acts[i].key)
            BY <1>2, <2>1 DEF Bare
        <3>2. PICK a : a = acts[i]
            OBVIOUS
        <3>3. a \in AllActions(t) /\ a \in Action
            BY <1>2, <3>2 DEF Range, IsImport
        <3>4. a.key \in Key /\ a = Storing(a.key, a.location) /\ a.location \in Node
            BY <3>1, <3>2, <3>3, ActionFields DEF RowActionType
        <3>5. t.row[a.key] # NoRow
            <4>1. a \notin TagActions(t)
                BY <3>1, <3>2, TagActionsFacts
            <4>2. a \in UNION {RowActions(j, t.row[j]) : j \in {l \in Key : t.row[l] # NoRow}}
                BY <3>3, <4>1 DEF AllActions
            <4>3. PICK j \in Key : t.row[j] # NoRow /\ a \in RowActions(j, t.row[j])
                BY <4>2
            <4>4. t.row[j] \in Row
                BY <4>3 DEF Tables
            <4>5. a.key = j
                BY <4>3, <4>4, RowActionsFacts
            <4> QED
                BY <4>3, <4>5
        <3>6. a.location \in t.row[a.key].locations
            BY <3>3, <3>4, <3>5, AllActionsFacts
        <3>7. t.row[a.key].repositories = {}
            BY <3>1, <3>2, <3>4, <3>5, AllActionsFacts
        <3> QED
            BY <3>4, <3>5, <3>6, <3>7
    <2>2. ASSUME NEW k \in Key, t.row[k] # NoRow, t.row[k].repositories = {}, t.row[k].locations # {}
          PROVE  Bare(acts)
        <3>1. PICK n \in t.row[k].locations : TRUE
            BY <2>2
        <3>2. n \in Node
            <4>1. t.row[k] \in Row
                BY <2>2 DEF Tables
            <4> QED
                BY <3>1, <4>1 DEF Row
        <3>3. Storing(k, n) \in Range(acts)
            BY <1>2, <2>2, <3>1, <3>2, AllActionsFacts
        <3>4. PICK i \in DOMAIN acts : acts[i] = Storing(k, n)
            BY <3>3 DEF Range
        <3>5. acts[i].type = "Stored" /\ acts[i].key = k
            BY <3>4 DEF Storing
        <3>6. ~Names(Range(acts), "Mounted", k)
            BY <1>2, <2>2, AllActionsFacts
        <3> QED
            BY <3>5, <3>6 DEF Bare
    <2> QED
        BY <2>1, <2>2
<1>7. ASSUME ~run.panics
      PROVE  run.tables = [t EXCEPT !.row = [k \in Key |-> AgedRow(t.row[k])]]
    <2>1. PICK m : m = run.tables
        OBVIOUS
    <2>2. /\ m \in Tables /\ m.membership = t.membership
          /\ \A k \in Key : MadeRow(m.row[k], k, AllActions(t))
          /\ \A u \in TagKey : MadeTag(m.tag[u], u, AllActions(t))
        BY <1>5, <1>7, <2>1 DEF Made
    <2>3. \A k \in Key : m.row[k] \in Row \cup {NoRow}
        BY <2>2 DEF Tables
    <2>4. \A k \in Key : m.row[k] = AgedRow(t.row[k])
        BY <2>2, <2>3, RestoredRow
    <2>5. \A u \in TagKey : m.tag[u] \in Digest \cup {NoDigest}
        BY <2>2 DEF Tables
    <2>6. \A u \in TagKey : m.tag[u] = t.tag[u]
        BY <2>2, <2>5, RestoredTag
    <2>7. m.row = [k \in Key |-> AgedRow(t.row[k])]
        BY <2>2, <2>4 DEF Tables
    <2>8. m.tag = t.tag
        BY <2>2, <2>6 DEF Tables
    <2>9. /\ m = [row |-> m.row, tag |-> m.tag, membership |-> m.membership]
          /\ t = [row |-> t.row, tag |-> t.tag, membership |-> t.membership]
        BY <2>2 DEF Tables
    <2> QED
        BY <2>1, <2>2, <2>7, <2>8, <2>9
<1> QED
    BY <1>1, <1>4, <1>5, <1>6, <1>7
\* No action makes the tables untidy.
LEMMA TidyStep ==
    ASSUME NEW t \in Tables, Tidy(t), NEW a \in Action
    PROVE  ApplyAction(t, a) \in Tables /\ Tidy(ApplyAction(t, a))
<1>1. ApplyAction(t, a) \in Tables
    BY ApplyFacts
<1>2. PICK t1 : t1 = ApplyAction(t, a)
    OBVIOUS
<1>3. IsFiniteSet(TagsIn(t1))
    <2>1. CASE a.type = "HashTagged"
        <3>1. t1 = [t EXCEPT !.tag[<<a.repository, a.tag>>] = a.digest]
            BY <1>2, <2>1 DEF ApplyAction, RowActionType
        <3>2. TagsIn(t1) \subseteq TagsIn(t) \cup {<<a.repository, a.tag>>}
            BY <3>1 DEF TagsIn, Tables
        <3>3. IsFiniteSet(TagsIn(t) \cup {<<a.repository, a.tag>>})
            BY FS_AddElement DEF Tidy
        <3> QED
            BY <3>2, <3>3, FS_Subset
    <2>2. CASE a.type # "HashTagged"
        <3>1. \A u \in TagKey : t1.tag[u] = t.tag[u]
            BY <1>2, <2>2, ApplyFacts
        <3>2. TagsIn(t1) = TagsIn(t)
            BY <3>1 DEF TagsIn
        <3> QED
            BY <3>2 DEF Tidy
    <2> QED
        BY <2>1, <2>2
<1>4. ASSUME NEW k \in Key, t1.row[k] # NoRow
      PROVE  /\ t1.row[k].typed = FALSE => t1.row[k].dependencies = {}
             /\ IsFiniteSet(t1.row[k].locations)
    <2>1. CASE a.type \in RowActionType /\ a.key = k
        <3>1. t1.row[k] = RowAfter(t.row[k], a) /\ t.row[k] \in Row \cup {NoRow}
            BY <1>2, <2>1, ApplyFacts DEF Tables
        <3>2. PICK r : r = t.row[k]
            OBVIOUS
        <3>3. r # NoRow => r \in Row /\ (r.typed = FALSE => r.dependencies = {}) /\ IsFiniteSet(r.locations)
            BY <3>1, <3>2 DEF Tidy
        <3>4. CASE a.type = "Mounted"
            <4>1. CASE r = NoRow
                <5>1. t1.row[k] = [FreshRow(a.timestamp) EXCEPT !.repositories = @ \cup {a.repository}]
                    BY <3>1, <3>2, <3>4, <4>1 DEF RowAfter, Mounted
                <5>2. t1.row[k].dependencies = {} /\ t1.row[k].locations = {}
                    BY <5>1 DEF FreshRow
                <5> QED
                    BY <5>2, FS_EmptySet
            <4>2. CASE r # NoRow
                <5>1. t1.row[k] = [r EXCEPT !.repositories = @ \cup {a.repository}]
                    BY <3>1, <3>2, <3>4, <4>2 DEF RowAfter, Mounted
                <5>2. /\ t1.row[k].typed = r.typed /\ t1.row[k].dependencies = r.dependencies
                      /\ t1.row[k].locations = r.locations
                    BY <3>3, <4>2, <5>1 DEF Row
                <5> QED
                    BY <3>3, <4>2, <5>2
            <4> QED
                BY <4>1, <4>2
        <3>5. CASE a.type = "Stored"
            <4>1. r # NoRow /\ t1.row[k] = [r EXCEPT !.locations = @ \cup {a.location}]
                BY <1>4, <3>1, <3>2, <3>5 DEF RowAfter, Stored
            <4>2. /\ t1.row[k].typed = r.typed /\ t1.row[k].dependencies = r.dependencies
                  /\ t1.row[k].locations = r.locations \cup {a.location}
                BY <3>3, <4>1 DEF Row
            <4>3. IsFiniteSet(r.locations \cup {a.location})
                BY <3>3, <4>1, FS_AddElement
            <4> QED
                BY <3>3, <4>1, <4>2, <4>3
        <3>6. CASE a.type = "Unstored"
            <4>1. r # NoRow /\ t1.row[k] = [r EXCEPT !.locations = @ \ {a.location}]
                BY <1>4, <3>1, <3>2, <3>6 DEF RowAfter, Unstored
            <4>2. /\ t1.row[k].typed = r.typed /\ t1.row[k].dependencies = r.dependencies
                  /\ t1.row[k].locations = r.locations \ {a.location}
                BY <3>3, <4>1 DEF Row
            <4>3. IsFiniteSet(r.locations \ {a.location})
                BY <3>3, <4>1, FS_RemoveElement
            <4> QED
                BY <3>3, <4>1, <4>2, <4>3
        <3>7. CASE a.type = "Unmounted"
            <4>1. r # NoRow /\ t1.row[k] = [r EXCEPT !.repositories = @ \ {a.repository}]
                BY <1>4, <3>1, <3>2, <3>7 DEF RowAfter, Unmounted
            <4>2. /\ t1.row[k].typed = r.typed /\ t1.row[k].dependencies = r.dependencies
                  /\ t1.row[k].locations = r.locations
                BY <3>3, <4>1 DEF Row
            <4> QED
                BY <3>3, <4>1, <4>2
        <3>8. CASE a.type = "Info"
            <4>1. r # NoRow /\ t1.row[k] = [r EXCEPT !.dependencies = a.dependencies, !.typed = TRUE]
                BY <1>4, <3>1, <3>2, <3>8 DEF RowAfter, Info
            <4>2. t1.row[k].typed = TRUE /\ t1.row[k].locations = r.locations
                BY <3>3, <4>1 DEF Row
            <4> QED
                BY <3>3, <4>1, <4>2
        <3>9. CASE a.type = "Stat"
            <4>1. r # NoRow /\ t1.row[k] = [r EXCEPT !.sized = TRUE]
                BY <1>4, <3>1, <3>2, <3>9 DEF RowAfter, Stat
            <4>2. /\ t1.row[k].typed = r.typed /\ t1.row[k].dependencies = r.dependencies
                  /\ t1.row[k].locations = r.locations
                BY <3>3, <4>1 DEF Row
            <4> QED
                BY <3>3, <4>1, <4>2
        <3> QED
            BY <2>1, <3>4, <3>5, <3>6, <3>7, <3>8, <3>9 DEF RowActionType
    <2>2. CASE a.type \notin RowActionType \/ a.key # k
        <3>1. t1.row[k] = t.row[k]
            BY <1>2, <2>2, ApplyFacts
        <3> QED
            BY <1>4, <3>1 DEF Tidy
    <2> QED
        BY <2>1, <2>2
<1> QED
    BY <1>1, <1>2, <1>3, <1>4 DEF Tidy

LEMMA TidyRun ==
    ASSUME NEW t0 \in Tables, Tidy(t0), NEW acts \in Seq(Action)
    PROVE  Applying(t0, acts).tables \in Tables /\ Tidy(Applying(t0, acts).tables)
<1> DEFINE N == Len(acts)
<1>1. N \in Nat /\ DOMAIN acts = 1 .. N
    OBVIOUS
<1>2. PICK f : /\ f[0] = [tables |-> t0, panics |-> FALSE]
               /\ \A i \in Nat : i + 1 <= N => f[i + 1] = ApplyNext(f[i], acts[i + 1])
               /\ Applying(t0, acts) = f[N]
    BY ApplyingIsRun
<1> HIDE DEF N
<1> DEFINE Good(i) == /\ f[i] = [tables |-> f[i].tables, panics |-> f[i].panics]
                      /\ f[i].tables \in Tables /\ Tidy(f[i].tables)
           T == {i \in Nat : i <= N => Good(i)}
<1>3. Good(0)
    BY <1>2
<1>4. ASSUME NEW i \in Nat, Good(i), i + 1 <= N PROVE Good(i + 1)
    <2>1. acts[i + 1] \in Action /\ f[i + 1] = ApplyNext(f[i], acts[i + 1])
        BY <1>1, <1>2, <1>4
    <2>2. /\ ApplyAction(f[i].tables, acts[i + 1]) \in Tables
          /\ Tidy(ApplyAction(f[i].tables, acts[i + 1]))
        BY <1>4, <2>1, TidyStep
    <2>3. \/ f[i + 1] = [tables |-> f[i].tables, panics |-> TRUE]
          \/ f[i + 1] = [tables |-> ApplyAction(f[i].tables, acts[i + 1]), panics |-> f[i].panics]
        BY <1>4, <2>1 DEF ApplyNext
    <2> QED
        BY <1>4, <2>2, <2>3
<1> HIDE DEF Good
<1>5. 0 \in T /\ \A i \in Nat : i \in T => i + 1 \in T
    BY <1>1, <1>3, <1>4
<1> HIDE DEF T
<1>6. Nat \subseteq T
    BY <1>5, SetInduction
<1>7. Good(N)
    BY <1>1, <1>6 DEF T
<1> QED
    BY <1>2, <1>7 DEF Good

\* A row that has not been analysed names nothing, and there are finitely many
\* locations and tags: what an import relies on that the type does not say.
THEOREM TablesAreTidy == Spec => []Tidy(tables)
<1>1. Init => Tidy(tables)
    <2> SUFFICES ASSUME Init PROVE Tidy(tables)
        OBVIOUS
    <2>1. PICK members \in SUBSET Node : tables = [EmptyTables EXCEPT !.membership = members]
        BY DEF Init
    <2>2. /\ \A k \in Key : tables.row[k] = NoRow
          /\ \A u \in TagKey : tables.tag[u] = NoDigest
        BY <2>1 DEF EmptyTables
    <2>3. TagsIn(tables) = {}
        BY <2>2 DEF TagsIn
    <2> QED
        BY <2>2, <2>3, FS_EmptySet DEF Tidy
<1>2. TypeOK /\ Tidy(tables) /\ [Next]_vars => Tidy(tables')
    <2> SUFFICES ASSUME TypeOK, Tidy(tables), [Next]_vars PROVE Tidy(tables')
        OBVIOUS
    <2>1. CASE \E w \in Worker : Commit(w)
        <3>1. PICK w \in Worker : Commit(w)
            BY <2>1
        <3>2. task[w] \in Task
            BY <3>1 DEF TypeOK, Commit
        <3>3. task[w].actions \in Seq(Action) /\ tables \in Tables
            BY <3>2 DEF Task, TypeOK
        <3>4. tables' = tables \/ tables' = Applying(tables, task[w].actions).tables
            BY <3>1 DEF Commit
        <3> QED
            BY <3>3, <3>4, TidyRun
    <2>2. CASE ~ \E w \in Worker : Commit(w)
        BY <2>2, TablesChange
    <2> QED
        BY <2>1, <2>2
<1>3. Tidy(tables') <=> Tidy(tables)'
    BY DEF Tidy, TagsIn
<1> QED
    BY <1>1, <1>2, <1>3, TypeCorrect, PTL DEF Spec

\* Whatever a registry holds, an import of its dump into an empty one gives the
\* same rows and tags with new ages, and panics exactly where a row has a
\* location and no repository.
THEOREM ImportsRestore == Spec => []ImportRestores
<1>1. TypeOK /\ Tidy(tables) => ImportRestores
    <2> SUFFICES ASSUME TypeOK, Tidy(tables) PROVE ImportRestores
        OBVIOUS
    <2>1. tables \in Tables
        BY DEF TypeOK
    <2>2. PICK import : import = Applying(EmptyOf(tables.membership), ImportActions(tables, 0))
        OBVIOUS
    <2>3. /\ import.panics <=>
                \E k \in Key : tables.row[k] # NoRow /\ tables.row[k].repositories = {}
                                  /\ tables.row[k].locations # {}
          /\ ~import.panics =>
                import.tables = [tables EXCEPT !.row = [k \in Key |-> AgedRow(tables.row[k])]]
        BY <2>1, <2>2, ImportOfTidy
    <2> QED
        BY <2>2, <2>3 DEF ImportRestores, EmptyOf, AgedRow, Present, row
<1> QED
    BY <1>1, TablesAreTidy, TypeCorrect, PTL

=============================================================================
