---------------------------- MODULE Queries_proofs ----------------------------
(***************************************************************************)
(* Proofs about the two queries that read the trees row by row without a   *)
(* lock.  The garbage collector is told of nothing that was in use when it *)
(* began to search, for any contents, rows, tags and number of entries     *)
(* applied during the search.  A client that lists tags by pages gets all  *)
(* of them in order, for any nodes, tags and page size, or its listing     *)
(* ends in a panic exactly when the last page is not full.                 *)
(***************************************************************************)
EXTENDS TagListing, OrphanSearch, FiniteSetTheorems, WellFoundedInduction, TLAPS

-----------------------------------------------------------------------------
(***************************************************************************)
(* What ReachableFrom computes.                                            *)
(***************************************************************************)

\* Induction over the natural numbers, with a set in the place of a predicate.
LEMMA SetInduction ==
    ASSUME NEW T, 0 \in T, \A n \in Nat : n \in T => n + 1 \in T
    PROVE  Nat \subseteq T
<1> DEFINE less == {p \in Nat \X Nat : p[1] < p[2]}
           rest == Nat \ T
<1>1. IsWellFoundedOn(less, Nat)
    BY NatLessThanWellFounded DEF OpToRel
<1>2. ASSUME rest # {} PROVE FALSE
    <2>1. PICK x \in rest : \A y \in rest : <<y, x>> \notin less
        BY <1>1, <1>2, WFMin
    <2>2. x # 0 /\ x - 1 \in Nat
        OBVIOUS
    <2>3. <<x - 1, x>> \in less
        BY <2>2
    <2>4. x - 1 \in T
        BY <2>1, <2>2, <2>3
    <2> QED
        BY <2>2, <2>4
<1> QED
    BY <1>2

\* r is the chain of sets that ReachableFrom defines, up to k.
IsChain(r, k, S, rows) ==
    r = [n \in 0 .. k |-> IF n = 0 THEN S ELSE Step(r[n - 1], rows)]

LEMMA ChainExists ==
    ASSUME NEW k \in Nat, NEW S, NEW rows
    PROVE  \E r : IsChain(r, k, S, rows)
<1> DEFINE T == {n \in Nat : \E r : IsChain(r, n, S, rows)}
<1>1. 0 \in T
    <2>1. IsChain([n \in 0 .. 0 |-> S], 0, S, rows)
        BY DEF IsChain
    <2> QED
        BY <2>1
<1>2. ASSUME NEW n \in Nat, n \in T PROVE n + 1 \in T
    <2>1. PICK r : IsChain(r, n, S, rows)
        BY <1>2
    <2> DEFINE q == [i \in 0 .. n + 1 |-> IF i = n + 1 THEN Step(r[n], rows) ELSE r[i]]
    <2>2. ASSUME NEW i \in 0 .. n + 1
          PROVE  q[i] = IF i = 0 THEN S ELSE Step(q[i - 1], rows)
        <3>1. CASE i = n + 1
            <4>1. q[i] = Step(r[n], rows) /\ q[i - 1] = r[n] /\ i # 0
                BY <3>1
            <4> QED
                BY <4>1
        <3>2. CASE i # n + 1
            <4>1. i \in 0 .. n /\ q[i] = r[i]
                BY <3>2
            <4>2. r[i] = IF i = 0 THEN S ELSE Step(r[i - 1], rows)
                BY <2>1, <4>1 DEF IsChain
            <4>3. i # 0 => q[i - 1] = r[i - 1]
                BY <3>2
            <4> QED
                BY <4>1, <4>2, <4>3
        <3> QED
            BY <3>1, <3>2
    <2>3. q = [i \in 0 .. n + 1 |-> q[i]]
        OBVIOUS
    <2> HIDE DEF q
    <2>4. IsChain(q, n + 1, S, rows)
        BY <2>2, <2>3 DEF IsChain
    <2> QED
        BY <2>4
<1> HIDE DEF T
<1>3. Nat \subseteq T
    BY <1>1, <1>2, SetInduction
<1> QED
    BY <1>3 DEF T

LEMMA ReachableIsChain ==
    ASSUME NEW S, NEW rows, Cardinality(Blob) \in Nat
    PROVE  \E r : IsChain(r, Cardinality(Blob), S, rows)
                  /\ ReachableFrom(S, rows) = r[Cardinality(Blob)]
<1> DEFINE N == Cardinality(Blob)
           r == CHOOSE f : IsChain(f, N, S, rows)
<1>1. IsChain(r, N, S, rows)
    BY ChainExists
<1>2. ReachableFrom(S, rows) = r[N]
    BY DEF ReachableFrom, IsChain
<1> QED
    BY <1>1, <1>2

\* A step of the chain adds what the full rows name, and stays among the blobs.
LEMMA StepAdds ==
    ASSUME content \in [Object -> SUBSET Blob], NEW X \in SUBSET Blob, NEW rows
    PROVE  /\ X \subseteq Step(X, rows) /\ Step(X, rows) \subseteq Blob
           /\ \A b \in X : rows[b] = "full" => content[b] \subseteq Step(X, rows)
           /\ \A V : X \subseteq V /\ (\A b \in X : rows[b] = "full" => content[b] \subseteq V)
                        => Step(X, rows) \subseteq V
BY DEF Step, Object

LEMMA ChainTypes ==
    ASSUME content \in [Object -> SUBSET Blob], NEW S \in SUBSET Blob, NEW rows, NEW k \in Nat,
           NEW r, IsChain(r, k, S, rows)
    PROVE  /\ r[0] = S
           /\ \A n \in Nat : n + 1 <= k => r[n + 1] = Step(r[n], rows)
           /\ \A n \in 0 .. k : r[n] \in SUBSET Blob
<1>1. r[0] = S /\ \A n \in Nat : n + 1 <= k => r[n + 1] = Step(r[n], rows)
    <2>1. \A n \in 0 .. k : r[n] = IF n = 0 THEN S ELSE Step(r[n - 1], rows)
        BY DEF IsChain
    <2>2. ASSUME NEW n \in Nat, n + 1 <= k PROVE r[n + 1] = Step(r[n], rows)
        <3>1. n + 1 \in 0 .. k /\ n + 1 # 0 /\ (n + 1) - 1 = n
            BY <2>2
        <3> QED
            BY <2>1, <3>1
    <2> QED
        BY <2>1, <2>2
<1> DEFINE T == {n \in Nat : n <= k => r[n] \in SUBSET Blob}
<1>2. 0 \in T
    BY <1>1
<1>3. \A n \in Nat : n \in T => n + 1 \in T
    <2> SUFFICES ASSUME NEW n \in Nat, n \in T, n + 1 <= k PROVE r[n + 1] \in SUBSET Blob
        OBVIOUS
    <2>1. r[n] \in SUBSET Blob /\ r[n + 1] = Step(r[n], rows)
        BY <1>1
    <2> QED
        BY <2>1, StepAdds
<1> HIDE DEF T
<1>4. Nat \subseteq T
    BY <1>2, <1>3, SetInduction
<1> QED
    BY <1>1, <1>4 DEF T

\* The chain is increasing, and has come to its end after as many steps as
\* there are blobs: a step that adds nothing is the last that matters, and
\* every other one adds a blob.
LEMMA ChainEnds ==
    ASSUME content \in [Object -> SUBSET Blob], NEW S \in SUBSET Blob, NEW rows, NEW r,
           IsChain(r, Cardinality(Blob), S, rows), IsFiniteSet(Blob)
    PROVE  Step(r[Cardinality(Blob)], rows) = r[Cardinality(Blob)]
<1>1. PICK N \in Nat : N = Cardinality(Blob)
    BY FS_CardinalityType
<1>2. /\ r[0] = S
      /\ \A n \in Nat : n + 1 <= N => r[n + 1] = Step(r[n], rows)
      /\ \A n \in 0 .. N : r[n] \in SUBSET Blob
    <2>1. IsChain(r, N, S, rows)
        BY <1>1
    <2> QED
        BY <2>1, ChainTypes
<1>3. \A X \in SUBSET Blob : IsFiniteSet(X) /\ Cardinality(X) \in Nat
    BY FS_Subset, FS_CardinalityType
<1> DEFINE T == {n \in Nat : n <= N => Cardinality(r[n]) >= n \/ Step(r[n], rows) = r[n]}
<1>4. 0 \in T
    BY <1>2, <1>3
<1>5. \A n \in Nat : n \in T => n + 1 \in T
    <2> SUFFICES ASSUME NEW n \in Nat, n \in T, n + 1 <= N
                 PROVE  Cardinality(r[n + 1]) >= n + 1 \/ Step(r[n + 1], rows) = r[n + 1]
        OBVIOUS
    <2>1. r[n + 1] = Step(r[n], rows) /\ r[n] \in SUBSET Blob /\ r[n + 1] \in SUBSET Blob
        BY <1>2
    <2>2. CASE Step(r[n], rows) = r[n]
        BY <2>1, <2>2
    <2>3. CASE Step(r[n], rows) # r[n]
        <3>1. Cardinality(r[n]) >= n
            BY <2>3
        <3>2. r[n] \subseteq r[n + 1]
            BY <2>1, StepAdds
        <3>3. /\ IsFiniteSet(r[n + 1]) /\ Cardinality(r[n + 1]) \in Nat
              /\ Cardinality(r[n]) \in Nat
            BY <1>3, <2>1
        <3>4. Cardinality(r[n]) <= Cardinality(r[n + 1]) /\ Cardinality(r[n]) # Cardinality(r[n + 1])
            BY <2>1, <2>3, <3>2, <3>3, FS_Subset
        <3> QED
            BY <3>1, <3>3, <3>4
    <2> QED
        BY <2>2, <2>3
<1> HIDE DEF T
<1>6. Nat \subseteq T
    BY <1>4, <1>5, SetInduction
<1>7. Cardinality(r[N]) >= N \/ Step(r[N], rows) = r[N]
    BY <1>6 DEF T
<1>8. r[N] \in SUBSET Blob
    BY <1>2
<1>9. ASSUME Cardinality(r[N]) >= N PROVE Step(r[N], rows) = r[N]
    <2>1. Cardinality(r[N]) \in Nat /\ Cardinality(r[N]) <= N
        BY <1>1, <1>3, <1>8, FS_Subset
    <2>2. Cardinality(Blob) = Cardinality(r[N])
        BY <1>1, <1>9, <2>1
    <2>3. r[N] = Blob
        BY <1>8, <2>2, FS_Subset
    <2>4. r[N] \subseteq Step(r[N], rows) /\ Step(r[N], rows) \subseteq Blob
        BY <1>8, StepAdds
    <2> QED
        BY <2>3, <2>4
<1> QED
    BY <1>1, <1>7, <1>9

\* ReachableFrom is the least set that holds S and, with a blob whose row has
\* its dependencies, what the blob names.
LEMMA ReachableIsLeast ==
    ASSUME content \in [Object -> SUBSET Blob], NEW S \in SUBSET Blob, NEW rows
    PROVE  /\ S \subseteq ReachableFrom(S, rows) /\ ReachableFrom(S, rows) \subseteq Blob
           /\ \A b \in ReachableFrom(S, rows) :
                 rows[b] = "full" => content[b] \subseteq ReachableFrom(S, rows)
           /\ \A V : /\ S \subseteq V
                     /\ \A b \in V \cap ReachableFrom(S, rows) :
                           rows[b] = "full" => content[b] \subseteq V
                     => ReachableFrom(S, rows) \subseteq V
<1>1. IsFiniteSet(Blob) /\ Cardinality(Blob) \in Nat
    BY FiniteAssumption, FS_CardinalityType
<1>2. PICK r : IsChain(r, Cardinality(Blob), S, rows)
               /\ ReachableFrom(S, rows) = r[Cardinality(Blob)]
    BY <1>1, ReachableIsChain
<1>3. PICK N \in Nat : N = Cardinality(Blob)
    BY <1>1
<1>4. PICK R : R = ReachableFrom(S, rows)
    OBVIOUS
<1>5. /\ r[0] = S
      /\ \A n \in Nat : n + 1 <= N => r[n + 1] = Step(r[n], rows)
      /\ \A n \in 0 .. N : r[n] \in SUBSET Blob
    <2>1. IsChain(r, N, S, rows)
        BY <1>2, <1>3
    <2> QED
        BY <2>1, ChainTypes
<1>6. R = r[N] /\ R \in SUBSET Blob /\ Step(R, rows) = R
    BY <1>1, <1>2, <1>3, <1>4, <1>5, ChainEnds
<1>7. \A b \in R : rows[b] = "full" => content[b] \subseteq R
    BY <1>6, StepAdds
<1>8. \A n \in 0 .. N : r[n] \subseteq R
    <2> DEFINE Under(i) == r[N - i] \subseteq R
               T == {i \in Nat : i <= N => Under(i)}
    <2>1. Under(0)
        BY <1>6
    <2>2. ASSUME NEW i \in Nat, Under(i), i + 1 <= N PROVE Under(i + 1)
        <3>1. PICK n \in Nat : n = N - (i + 1)
            BY <2>2
        <3>2. n + 1 = N - i /\ n + 1 <= N /\ n \in 0 .. N
            BY <3>1
        <3>3. r[n + 1] \subseteq R /\ r[n + 1] = Step(r[n], rows) /\ r[n] \in SUBSET Blob
            BY <1>5, <2>2, <3>2
        <3>4. r[n] \subseteq Step(r[n], rows)
            BY <3>3, StepAdds
        <3> QED
            BY <3>1, <3>3, <3>4
    <2> HIDE DEF Under
    <2>3. 0 \in T /\ \A i \in Nat : i \in T => i + 1 \in T
        BY <2>1, <2>2
    <2> HIDE DEF T
    <2>4. Nat \subseteq T
        BY <2>3, SetInduction
    <2> SUFFICES ASSUME NEW n \in 0 .. N PROVE r[n] \subseteq R
        OBVIOUS
    <2>5. N - n \in Nat /\ N - n <= N /\ N - (N - n) = n
        OBVIOUS
    <2>6. Under(N - n)
        BY <2>4, <2>5 DEF T
    <2> QED
        BY <2>5, <2>6 DEF Under
<1>9. ASSUME NEW V, S \subseteq V,
             \A b \in V \cap R : rows[b] = "full" => content[b] \subseteq V
      PROVE  R \subseteq V
    <2> DEFINE T == {n \in Nat : n <= N => r[n] \subseteq V}
    <2>1. 0 \in T
        BY <1>5, <1>9
    <2>2. \A n \in Nat : n \in T => n + 1 \in T
        <3> SUFFICES ASSUME NEW n \in Nat, n \in T, n + 1 <= N PROVE r[n + 1] \subseteq V
            OBVIOUS
        <3>1. /\ r[n] \subseteq V /\ r[n + 1] = Step(r[n], rows) /\ r[n] \in SUBSET Blob
              /\ r[n] \subseteq R
            BY <1>5, <1>8
        <3>2. \A b \in r[n] : rows[b] = "full" => content[b] \subseteq V
            BY <1>9, <3>1
        <3>3. Step(r[n], rows) \subseteq V
            BY <3>1, <3>2, StepAdds
        <3> QED
            BY <3>1, <3>3
    <2> HIDE DEF T
    <2>3. Nat \subseteq T
        BY <2>1, <2>2, SetInduction
    <2> QED
        BY <1>6, <2>3 DEF T
<1>10. S \subseteq R
    BY <1>5, <1>8
<1> QED
    BY <1>4, <1>6, <1>7, <1>9, <1>10

-----------------------------------------------------------------------------
(***************************************************************************)
(* The inductive invariant.  What was reachable at the beginning is the    *)
(* least set that holds what some manifests name and is closed under the   *)
(* rows that were full; as long as no row is deleted these manifests and   *)
(* rows stay, so the search comes upon all of it; and while nothing is     *)
(* applied it comes upon nothing else.                                     *)
(***************************************************************************)
Least(images, full) ==
    \A V \in SUBSET Object :
        /\ Named(images) \subseteq V
        /\ \A b \in V \cap full : content[b] \subseteq V
        => atStart \subseteq V

RowRead(b) == search # "blobs" \/ b \notin unread

RootRead(m) == search = "visit" \/ (search = "roots" /\ m \notin unread)

VisitOK ==
    /\ visiting \subseteq Blob /\ visited \subseteq Blob
    /\ search = "blobs" => visited = {}
    /\ \A b \in visited : found[b] = "full" => content[b] \subseteq visiting \cup visited

RowKept(b) == blobRow[b] = "full" /\ (RowRead(b) => found[b] = "full")

RootsKept ==
    \E images \in SUBSET imageRow, full \in SUBSET Blob :
        /\ Least(images, full)
        /\ \A b \in full : RowKept(b)
        /\ \A m \in images : RootRead(m) => content[m] \subseteq visiting \cup visited

Exact ==
    /\ ~lost /\ atStart = Reachable
    /\ visiting \cup visited \subseteq atStart
    /\ \A b \in Blob : RowRead(b) => found[b] = blobRow[b]

BlobInv ==
    search \in {"blobs", "roots", "visit"} =>
        /\ atStart \subseteq Blob /\ steady = {}
        /\ VisitOK
        /\ ~lost => RootsKept
        /\ changes = 0 => Exact

ImageInv ==
    search \in {"images", "tags"} =>
        /\ atStart = {} /\ visiting \subseteq Image
        /\ changes = 0 => steady = Label
        /\ search = "tags" =>
              \A l \in steady : l \in unread \/ label[l] = Missing \/ label[l] \in visited

IdleInv ==
    search = "idle" =>
        /\ visiting = {} /\ visited = {} /\ atStart = {} /\ steady = {} /\ ~lost /\ changes = 0

SInv ==
    /\ SearchTypeOK /\ BlobInv /\ ImageInv /\ IdleInv
    /\ OrphansAreUnreachable /\ TaggedIsNoOrphan

-----------------------------------------------------------------------------
(***************************************************************************)
(* What other requests commit.                                             *)
(***************************************************************************)
LEMMA ContentType ==
    ASSUME SearchTypeOK
    PROVE  /\ content \in [Object -> SUBSET Blob]
           /\ \A images \in SUBSET Image : Named(images) \in SUBSET Blob
<1>1. content \in [Object -> SUBSET Blob]
    BY ContentsAssumption DEF SearchTypeOK
<1> QED
    BY <1>1 DEF Named, Object

\* Entries that delete nothing keep full rows full and manifests in their tree;
\* one that deletes a row is noticed, and so is every tag that moves.
LEMMA OthersKeep ==
    ASSUME SInv, Running, UNCHANGED Others, changes' = changes + 1,
           blobRow' \in [Blob -> RowOf], imageRow' \subseteq Image,
           label' \in [Label -> Image \cup {Missing}], steady' \subseteq steady,
           \A l \in steady' : label'[l] = label[l],
           \/ lost' = TRUE
           \/ /\ lost' = lost /\ imageRow \subseteq imageRow'
              /\ \A b \in Blob : blobRow[b] = "full" => blobRow'[b] = "full"
    PROVE  SInv'
<1> USE DEF Others
<1>1. SearchTypeOK /\ BlobInv /\ ImageInv /\ search \notin {"idle", "end"}
    BY DEF SInv, Running
<1>2. changes' \in 0 .. MaxChanges /\ changes' # 0
    BY <1>1, FiniteAssumption DEF SearchTypeOK, Running
<1>3. SearchTypeOK'
    BY <1>1, <1>2 DEF SearchTypeOK
<1>4. BlobInv'
    <2> SUFFICES ASSUME search \in {"blobs", "roots", "visit"}
                 PROVE  /\ atStart' \subseteq Blob /\ steady' = {}
                        /\ VisitOK'
                        /\ ~lost' => RootsKept'
        BY <1>2 DEF BlobInv
    <2>1. atStart \subseteq Blob /\ steady = {} /\ VisitOK /\ (~lost => RootsKept)
        BY <1>1 DEF BlobInv
    <2>2. VisitOK'
        BY <2>1 DEF VisitOK
    <2>3. ASSUME ~lost' PROVE RootsKept'
        <3>1. /\ ~lost /\ imageRow \subseteq imageRow'
              /\ \A b \in Blob : blobRow[b] = "full" => blobRow'[b] = "full"
            BY <2>3
        <3>2. \A b \in Blob : RowKept(b) => RowKept(b)'
            BY <3>1 DEF RowKept, RowRead
        <3>3. PICK images \in SUBSET imageRow, full \in SUBSET Blob :
                 /\ Least(images, full)
                 /\ \A b \in full : RowKept(b)
                 /\ \A m \in images : RootRead(m) => content[m] \subseteq visiting \cup visited
            BY <2>1, <3>1 DEF RootsKept
        <3>4. Least(images, full)' /\ \A b \in full : RowKept(b)'
            BY <3>2, <3>3 DEF Least, Named
        <3>5. \A m \in images : RootRead(m)' => content'[m] \subseteq visiting' \cup visited'
            BY <3>3 DEF RootRead
        <3>6. images \in SUBSET imageRow'
            BY <3>1
        <3> QED
            BY <3>4, <3>5, <3>6 DEF RootsKept
    <2> QED
        BY <2>1, <2>2, <2>3
<1>5. ImageInv'
    BY <1>1, <1>2 DEF ImageInv
<1>6. IdleInv' /\ OrphansAreUnreachable' /\ TaggedIsNoOrphan'
    BY <1>1 DEF IdleInv, OrphansAreUnreachable, TaggedIsNoOrphan
<1> QED
    BY <1>3, <1>4, <1>5, <1>6 DEF SInv

LEMMA EntriesKeep ==
    ASSUME SInv,
           \/ \E b \in Blob : AddBlob(b) \/ DropBlob(b)
           \/ \E m \in Image : DropImage(m)
           \/ \E m \in Image, l \in Label, analysed, typed \in SUBSET Blob :
                 AddImage(m, l, analysed, typed)
    PROVE  SInv'
<1>1. /\ blobRow \in [Blob -> RowOf] /\ imageRow \subseteq Image
      /\ label \in [Label -> Image \cup {Missing}] /\ steady \subseteq Label
    BY DEF SInv, SearchTypeOK
<1>2. Running /\ UNCHANGED Others /\ changes' = changes + 1
    BY DEF AddBlob, DropBlob, DropImage, AddImage
<1>3. ASSUME NEW b \in Blob, AddBlob(b) PROVE SInv'
    <2>1. /\ blobRow[b] = Missing /\ blobRow' = [blobRow EXCEPT ![b] = "bare"]
          /\ UNCHANGED <<imageRow, label, lost, steady>>
        BY <1>3 DEF AddBlob
    <2>2. blobRow' \in [Blob -> RowOf] /\ \A c \in Blob : blobRow[c] = "full" => blobRow'[c] = "full"
        BY <1>1, <2>1, MissingAssumption DEF RowOf
    <2> QED
        BY <1>1, <1>2, <2>1, <2>2, OthersKeep
<1>4. ASSUME NEW b \in Blob, DropBlob(b) PROVE SInv'
    <2>1. /\ blobRow' = [blobRow EXCEPT ![b] = Missing] /\ lost' = TRUE
          /\ UNCHANGED <<imageRow, label, steady>>
        BY <1>4 DEF DropBlob
    <2>2. blobRow' \in [Blob -> RowOf]
        BY <1>1, <2>1 DEF RowOf
    <2> QED
        BY <1>1, <1>2, <2>1, <2>2, OthersKeep
<1>5. ASSUME NEW m \in Image, DropImage(m) PROVE SInv'
    <2>1. imageRow' = imageRow \ {m} /\ lost' = TRUE /\ UNCHANGED <<blobRow, label, steady>>
        BY <1>5 DEF DropImage
    <2> QED
        BY <1>1, <1>2, <2>1, OthersKeep
<1>6. ASSUME NEW m \in Image, NEW l \in Label, NEW analysed \in SUBSET Blob,
             NEW typed \in SUBSET Blob, AddImage(m, l, analysed, typed)
      PROVE  SInv'
    <2>1. /\ analysed \cap typed = {}
          /\ blobRow' = [b \in Blob |->
                IF blobRow[b] = Missing THEN Missing
                ELSE IF b \in analysed THEN "full"
                ELSE IF b \in typed THEN "bare" ELSE blobRow[b]]
        BY <1>6 DEF AddImage
    <2>2. /\ imageRow' = imageRow \cup {m} /\ label' = [label EXCEPT ![l] = m]
          /\ lost' = (lost \/ \E b \in typed : blobRow[b] = "full")
          /\ steady' = IF label[l] = m THEN steady ELSE steady \ {l}
        BY <1>6 DEF AddImage
    <2>3. blobRow' \in [Blob -> RowOf]
        BY <1>1, <2>1 DEF RowOf
    <2>5. ASSUME \A b \in typed : blobRow[b] # "full"
          PROVE  \A b \in Blob : blobRow[b] = "full" => blobRow'[b] = "full"
        BY <2>1, <2>5, MissingAssumption
    <2>6. lost \in BOOLEAN
        BY DEF SInv, SearchTypeOK
    <2>7. \/ lost' = TRUE
          \/ /\ lost' = lost
             /\ \A b \in Blob : blobRow[b] = "full" => blobRow'[b] = "full"
        <3>1. CASE \E b \in typed : blobRow[b] = "full"
            BY <2>2, <3>1
        <3>2. CASE ~\E b \in typed : blobRow[b] = "full"
            BY <2>2, <2>5, <2>6, <3>2
        <3> QED
            BY <3>1, <3>2
    <2>4. /\ label' \in [Label -> Image \cup {Missing}] /\ steady' \subseteq steady
          /\ \A k \in steady' : label'[k] = label[k]
        BY <1>1, <2>2
    <2> QED
        BY <1>1, <1>2, <2>2, <2>3, <2>4, <2>7, OthersKeep
<1> QED
    BY <1>3, <1>4, <1>5, <1>6

-----------------------------------------------------------------------------
(***************************************************************************)
(* get_orphaned_blobs.                                                     *)
(***************************************************************************)
LEMMA TreesStay ==
    ASSUME UNCHANGED treeVars
    PROVE  /\ Reachable' = Reachable
           /\ \A images : Named(images)' = Named(images)
BY DEF treeVars, Reachable, ReachableFrom, Named, Step

LEMMA FindBlobsKeeps ==
    ASSUME SInv, FindBlobs
    PROVE  SInv'
<1>1. /\ SearchTypeOK /\ search = "idle" /\ visiting = {} /\ visited = {} /\ steady = {} /\ ~lost
      /\ changes = 0
    BY DEF SInv, IdleInv, FindBlobs
<1>2. /\ search' = "blobs" /\ unread' = Blob /\ atStart' = Reachable
      /\ UNCHANGED <<treeVars, changes, lost, steady, found, visiting, visited, result>>
    BY DEF FindBlobs
<1>3. content \in [Object -> SUBSET Blob] /\ Named(imageRow) \in SUBSET Blob
    BY <1>1, ContentType DEF SearchTypeOK
<1>4. /\ Reachable \subseteq Blob
      /\ \A V : /\ Named(imageRow) \subseteq V
                /\ \A b \in V \cap Reachable : blobRow[b] = "full" => content[b] \subseteq V
                => Reachable \subseteq V
    BY <1>3, ReachableIsLeast DEF Reachable
<1> DEFINE full == {b \in Reachable : blobRow[b] = "full"}
<1>6. Reachable' = Reachable /\ Named(imageRow)' = Named(imageRow)
    BY <1>2, TreesStay DEF treeVars
<1>7. SearchTypeOK'
    BY <1>1, <1>2, <1>4 DEF SearchTypeOK, treeVars, Object
<1>8. RootsKept'
    <2>1. Least(imageRow, full)'
        BY <1>2, <1>4, <1>6 DEF Least, treeVars
    <2>2. \A m \in imageRow' : ~RootRead(m)'
        BY <1>2 DEF RootRead
    <2>3. imageRow' = imageRow /\ full' = full /\ full \in SUBSET Blob
        BY <1>2, <1>4, <1>6 DEF treeVars
    <2>4. \A b \in full : RowKept(b)'
        BY <1>2, <1>4 DEF RowKept, RowRead, treeVars
    <2> HIDE DEF full
    <2> QED
        BY <2>1, <2>2, <2>3, <2>4 DEF RootsKept
<1>9. VisitOK' /\ Exact'
    <2>1. \A b \in Blob : ~RowRead(b)'
        BY <1>2 DEF RowRead
    <2>3. VisitOK'
        BY <1>1, <1>2 DEF VisitOK
    <2>4. Exact'
        BY <1>1, <1>2, <1>6, <2>1 DEF Exact
    <2> QED
        BY <2>3, <2>4
<1>10. BlobInv'
    BY <1>1, <1>2, <1>4, <1>8, <1>9 DEF BlobInv
<1>11. ImageInv' /\ IdleInv' /\ OrphansAreUnreachable' /\ TaggedIsNoOrphan'
    BY <1>2 DEF ImageInv, IdleInv, OrphansAreUnreachable, TaggedIsNoOrphan
<1> QED
    BY <1>7, <1>10, <1>11 DEF SInv

\* A step of the search for blobs that leaves trees and ghosts alone.
LEMMA BlobSearchKeeps ==
    ASSUME SInv, UNCHANGED <<treeVars, ghostVars, result>>,
           search \in {"blobs", "roots", "visit"}, search' \in {"blobs", "roots", "visit"},
           SearchTypeOK', VisitOK',
           \A b \in Blob : RowKept(b) => RowKept(b)',
           \A m : RootRead(m) /\ content[m] \subseteq visiting \cup visited
                     => content[m] \subseteq visiting' \cup visited',
           \A m \in imageRow : ~RootRead(m) /\ RootRead(m)' => content[m] \subseteq visiting' \cup visited',
           Exact => /\ visiting' \cup visited' \subseteq atStart
                    /\ \A b \in Blob : RowRead(b)' => found'[b] = blobRow[b]
    PROVE  SInv'
<1> USE DEF ghostVars
<1>1. BlobInv
    BY DEF SInv
<1>2. atStart \subseteq Blob /\ steady = {} /\ (~lost => RootsKept) /\ (changes = 0 => Exact)
    BY <1>1 DEF BlobInv
<1>3. Reachable' = Reachable
    BY TreesStay
<1>4. ~lost => RootsKept'
    <2> SUFFICES ASSUME ~lost PROVE RootsKept'
        OBVIOUS
    <2>1. PICK images \in SUBSET imageRow, full \in SUBSET Blob :
             /\ Least(images, full)
             /\ \A b \in full : RowKept(b)
             /\ \A m \in images : RootRead(m) => content[m] \subseteq visiting \cup visited
        BY <1>2 DEF RootsKept
    <2>2. Least(images, full)' /\ \A b \in full : RowKept(b)'
        BY <2>1, TreesStay DEF Least, treeVars
    <2>3. \A m \in images : RootRead(m)' => content'[m] \subseteq visiting' \cup visited'
        BY <2>1 DEF treeVars
    <2>4. imageRow' = imageRow
        BY DEF treeVars
    <2> QED
        BY <2>2, <2>3, <2>4 DEF RootsKept
<1>5. changes = 0 => Exact'
    BY <1>2, <1>3 DEF Exact, treeVars
<1>6. BlobInv'
    BY <1>2, <1>4, <1>5 DEF BlobInv
<1>7. ImageInv' /\ IdleInv' /\ OrphansAreUnreachable' /\ TaggedIsNoOrphan'
    BY DEF ImageInv, IdleInv, OrphansAreUnreachable, TaggedIsNoOrphan
<1> QED
    BY <1>6, <1>7 DEF SInv

LEMMA ReadBlobKeeps ==
    ASSUME SInv, NEW b \in Blob, ReadBlob(b)
    PROVE  SInv'
<1>1. /\ search = "blobs" /\ search' = "blobs" /\ unread' = unread \ {b}
      /\ found' = [found EXCEPT ![b] = blobRow[b]]
      /\ UNCHANGED <<treeVars, ghostVars, visiting, visited, result>>
    BY DEF ReadBlob
<1>2. SearchTypeOK /\ found \in [Blob -> RowOf] /\ blobRow \in [Blob -> RowOf] /\ VisitOK
      /\ atStart \subseteq Blob
    BY <1>1 DEF SInv, BlobInv, SearchTypeOK
<1>3. SearchTypeOK'
    BY <1>1, <1>2 DEF SearchTypeOK, treeVars, ghostVars
<1>4. VisitOK'
    BY <1>1, <1>2 DEF VisitOK
<1>5. \A c \in Blob : RowKept(c) => RowKept(c)'
    BY <1>1, <1>2 DEF RowKept, RowRead, treeVars, ghostVars
<1>6. Exact => \A c \in Blob : RowRead(c)' => found'[c] = blobRow[c]
    BY <1>1, <1>2 DEF Exact, RowRead
<1>7. \A m : ~RootRead(m)'
    BY <1>1 DEF RootRead
<1>8. Exact => visiting' \cup visited' \subseteq atStart
    BY <1>1 DEF Exact
<1> QED
    BY <1>1, <1>3, <1>4, <1>5, <1>6, <1>7, <1>8, BlobSearchKeeps

LEMMA BlobsReadKeeps ==
    ASSUME SInv, BlobsRead
    PROVE  SInv'
<1>1. /\ search = "blobs" /\ unread = {} /\ search' = "roots" /\ unread' = Image
      /\ UNCHANGED <<treeVars, ghostVars, found, visiting, visited, result>>
    BY DEF BlobsRead
<1>2. SearchTypeOK /\ VisitOK
    BY <1>1 DEF SInv, BlobInv
<1>3. SearchTypeOK'
    BY <1>1, <1>2 DEF SearchTypeOK, treeVars, ghostVars, Object
<1>4. VisitOK'
    BY <1>1, <1>2 DEF VisitOK, treeVars
<1>5. \A b : RowRead(b)
    BY <1>1 DEF RowRead
<1>6. (\A b \in Blob : RowKept(b) => RowKept(b)') /\ (Exact => \A b \in Blob : found'[b] = blobRow[b])
    BY <1>1, <1>5 DEF RowKept, Exact, treeVars, ghostVars
<1>7. \A m \in imageRow : ~RootRead(m)'
    BY <1>1, <1>2 DEF RootRead, SearchTypeOK
<1>8. Exact => visiting' \cup visited' \subseteq atStart
    BY <1>1 DEF Exact
<1> QED
    BY <1>1, <1>3, <1>4, <1>6, <1>7, <1>8, BlobSearchKeeps

LEMMA ReadRootKeeps ==
    ASSUME SInv, NEW m \in Image, ReadRoot(m)
    PROVE  SInv'
<1>1. /\ search = "roots" /\ search' = "roots" /\ m \in unread /\ unread' = unread \ {m}
      /\ visiting' = IF m \in imageRow THEN visiting \cup content[m] ELSE visiting
      /\ UNCHANGED <<treeVars, ghostVars, found, visited, result>>
    BY DEF ReadRoot
<1>2. SearchTypeOK /\ VisitOK /\ content[m] \subseteq Blob
    BY <1>1, ContentType DEF SInv, BlobInv, Object
<1>3. visiting \subseteq visiting' /\ visiting' \subseteq Blob
    BY <1>1, <1>2 DEF VisitOK
<1>4. SearchTypeOK'
    BY <1>1, <1>2, <1>3 DEF SearchTypeOK, treeVars, ghostVars, Object
<1>5. VisitOK'
    BY <1>1, <1>2, <1>3 DEF VisitOK, treeVars
<1>6. \A c \in Blob : RowKept(c) => RowKept(c)'
    BY <1>1 DEF RowKept, RowRead, treeVars, ghostVars
<1>7. ASSUME Exact
      PROVE  /\ visiting' \cup visited' \subseteq atStart
             /\ \A b \in Blob : RowRead(b)' => found'[b] = blobRow[b]
    <2>1. Named(imageRow) \subseteq atStart
        <3>1. Named(imageRow) \in SUBSET Blob /\ content \in [Object -> SUBSET Blob]
            BY <1>2, ContentType DEF SearchTypeOK
        <3> QED
            BY <1>7, <3>1, ReachableIsLeast DEF Exact, Reachable
    <2>2. m \in imageRow => content[m] \subseteq Named(imageRow)
        BY DEF Named
    <2> QED
        BY <1>1, <1>7, <2>1, <2>2 DEF Exact, RowRead
<1>8. \A i \in imageRow : ~RootRead(i) /\ RootRead(i)' => content[i] \subseteq visiting' \cup visited'
    BY <1>1 DEF RootRead
<1> QED
    BY <1>1, <1>3, <1>4, <1>5, <1>6, <1>7, <1>8, BlobSearchKeeps

LEMMA RootsReadKeeps ==
    ASSUME SInv, RootsRead
    PROVE  SInv'
<1>1. /\ search = "roots" /\ unread = {} /\ search' = "visit"
      /\ UNCHANGED <<treeVars, ghostVars, unread, found, visiting, visited, result>>
    BY DEF RootsRead
<1>2. SearchTypeOK /\ VisitOK
    BY <1>1 DEF SInv, BlobInv
<1>3. SearchTypeOK'
    BY <1>1, <1>2 DEF SearchTypeOK, treeVars, ghostVars
<1>4. VisitOK'
    BY <1>1, <1>2 DEF VisitOK, treeVars
<1>5. \A c \in Blob : RowKept(c) => RowKept(c)'
    BY <1>1 DEF RowKept, RowRead, treeVars, ghostVars
<1>6. \A m : RootRead(m)
    BY <1>1 DEF RootRead
<1>7. Exact => /\ visiting' \cup visited' \subseteq atStart
               /\ \A b \in Blob : RowRead(b)' => found'[b] = blobRow[b]
    BY <1>1 DEF Exact, RowRead
<1> QED
    BY <1>1, <1>3, <1>4, <1>5, <1>6, <1>7, BlobSearchKeeps

LEMMA VisitKeeps ==
    ASSUME SInv, NEW b \in Blob, Visit(b)
    PROVE  SInv'
<1>1. PICK more : /\ more = IF found[b] = "full" THEN content[b] \ visited ELSE {}
                  /\ visiting' = (visiting \cup more) \ {b}
    BY DEF Visit
<1>2. /\ search = "visit" /\ search' = "visit" /\ b \in visiting /\ visited' = visited \cup {b}
      /\ UNCHANGED <<treeVars, ghostVars, unread, found, result>>
    BY DEF Visit
<1>3. SearchTypeOK /\ VisitOK /\ content[b] \subseteq Blob /\ content \in [Object -> SUBSET Blob]
    BY <1>2, ContentType DEF SInv, BlobInv, Object
<1>4. /\ visiting \cup visited \subseteq visiting' \cup visited'
      /\ visiting' \cup visited' \subseteq visiting \cup visited \cup more
      /\ visiting' \subseteq Blob /\ visited' \subseteq Blob
    BY <1>1, <1>2, <1>3 DEF VisitOK
<1>5. SearchTypeOK'
    BY <1>2, <1>3, <1>4 DEF SearchTypeOK, treeVars, ghostVars, Object
<1>6. VisitOK'
    <2>1. found[b] = "full" => content[b] \subseteq visiting' \cup visited'
        BY <1>1, <1>2
    <2>2. \A c \in visited : found[c] = "full" => content[c] \subseteq visiting' \cup visited'
        BY <1>3, <1>4 DEF VisitOK
    <2> QED
        BY <1>2, <1>4, <2>1, <2>2 DEF VisitOK, treeVars
<1>7. \A c \in Blob : RowKept(c) => RowKept(c)'
    BY <1>2 DEF RowKept, RowRead, treeVars, ghostVars
<1>8. \A m : RootRead(m)
    BY <1>2 DEF RootRead
<1>9. ASSUME Exact
      PROVE  /\ visiting' \cup visited' \subseteq atStart
             /\ \A c \in Blob : RowRead(c)' => found'[c] = blobRow[c]
    <2>1. \A c \in Blob : found[c] = blobRow[c]
        BY <1>2, <1>9 DEF Exact, RowRead
    <2>2. more \subseteq atStart
        <3>1. Named(imageRow) \in SUBSET Blob
            BY <1>3, ContentType DEF SearchTypeOK
        <3>2. \A c \in atStart : blobRow[c] = "full" => content[c] \subseteq atStart
            BY <1>3, <1>9, <3>1, ReachableIsLeast DEF Exact, Reachable
        <3>3. b \in atStart
            BY <1>2, <1>9 DEF Exact
        <3> QED
            BY <1>1, <2>1, <3>2, <3>3
    <2> QED
        BY <1>2, <1>4, <1>9, <2>1, <2>2 DEF Exact
<1> QED
    BY <1>2, <1>4, <1>5, <1>6, <1>7, <1>8, <1>9, BlobSearchKeeps

\* Nothing is left to visit: what was visited holds all that was reachable.
LEMMA ReturnBlobsKeeps ==
    ASSUME SInv, ReturnBlobs
    PROVE  SInv'
<1>1. /\ search = "visit" /\ visiting = {} /\ search' = "end"
      /\ result' = {b \in Blob : found[b] # Missing} \ visited
      /\ UNCHANGED <<treeVars, ghostVars, unread, found, visiting, visited>>
    BY DEF ReturnBlobs
<1>2. /\ SearchTypeOK /\ VisitOK /\ atStart \subseteq Blob /\ steady = {}
      /\ (~lost => RootsKept) /\ (changes = 0 => Exact)
    BY <1>1 DEF SInv, BlobInv
<1>3. SearchTypeOK'
    BY <1>1, <1>2 DEF SearchTypeOK, treeVars, ghostVars, Object
<1>4. ASSUME ~lost PROVE atStart \subseteq visited
    <2>1. PICK images \in SUBSET imageRow, full \in SUBSET Blob :
             /\ Least(images, full)
             /\ \A b \in full : RowKept(b)
             /\ \A m \in images : RootRead(m) => content[m] \subseteq visiting \cup visited
        BY <1>2, <1>4 DEF RootsKept
    <2>2. Named(images) \subseteq visited
        BY <1>1, <2>1 DEF Named, RootRead
    <2>3. \A b \in visited \cap full : content[b] \subseteq visited
        BY <1>1, <1>2, <2>1 DEF RowKept, RowRead, VisitOK
    <2>4. visited \in SUBSET Object
        BY <1>2 DEF VisitOK, Object
    <2> QED
        BY <2>1, <2>2, <2>3, <2>4 DEF Least
<1>5. ASSUME changes = 0
      PROVE  result' = {b \in Blob : blobRow[b] # Missing} \ Reachable
    <2>1. Exact
        BY <1>2, <1>5
    <2>2. visited = Reachable
        BY <1>4, <2>1 DEF Exact
    <2>3. \A b \in Blob : found[b] = blobRow[b]
        BY <1>1, <2>1 DEF Exact, RowRead
    <2> QED
        BY <1>1, <2>2, <2>3
<1>6. OrphansAreUnreachable'
    <2>1. Reachable' = Reachable
        BY <1>1, TreesStay
    <2>2. ~lost => result' \cap atStart = {}
        BY <1>1, <1>4
    <2> QED
        BY <1>1, <1>5, <2>1, <2>2 DEF OrphansAreUnreachable, treeVars, ghostVars
<1>7. BlobInv' /\ ImageInv' /\ IdleInv' /\ TaggedIsNoOrphan'
    BY <1>1, <1>2 DEF BlobInv, ImageInv, IdleInv, TaggedIsNoOrphan, ghostVars
<1> QED
    BY <1>3, <1>6, <1>7 DEF SInv

-----------------------------------------------------------------------------
(***************************************************************************)
(* get_orphaned_manifests.                                                 *)
(***************************************************************************)
LEMMA ImageSearchKeeps ==
    ASSUME SInv,
           \/ FindImages \/ ImagesRead
           \/ \E m \in Image : ReadImage(m)
           \/ \E l \in Label : ReadTag(l)
    PROVE  SInv'
<1> USE DEF treeVars, ghostVars
<1>1. SearchTypeOK /\ IdleInv /\ ImageInv
    BY DEF SInv
<1>2. search' \in {"images", "tags"} /\ UNCHANGED <<treeVars, changes, atStart, lost, found, result>>
    BY DEF FindImages, ImagesRead, ReadImage, ReadTag
<1>3. ImageInv'
    <2>1. CASE FindImages
        BY <1>1, <2>1 DEF FindImages, IdleInv, ImageInv
    <2>2. CASE ImagesRead
        BY <1>1, <2>2 DEF ImagesRead, ImageInv, SearchTypeOK
    <2>3. ASSUME NEW m \in Image, ReadImage(m) PROVE ImageInv'
        BY <1>1, <2>3 DEF ReadImage, ImageInv
    <2>4. ASSUME NEW l \in Label, ReadTag(l) PROVE ImageInv'
        BY <1>1, <2>4 DEF ReadTag, ImageInv
    <2> QED
        BY <2>1, <2>2, <2>3, <2>4
<1>4. SearchTypeOK'
    <2>1. unread' \subseteq Object \cup Label /\ visiting' \subseteq Object /\ steady' \subseteq Label
        BY <1>1 DEF SearchTypeOK, FindImages, ImagesRead, ReadImage, ReadTag, Object
    <2>2. visited' \subseteq Object
        BY <1>1 DEF SearchTypeOK, FindImages, ImagesRead, ReadImage, ReadTag, Object
    <2> QED
        BY <1>1, <1>2, <2>1, <2>2 DEF SearchTypeOK
<1>5. BlobInv' /\ IdleInv' /\ OrphansAreUnreachable' /\ TaggedIsNoOrphan'
    BY <1>2 DEF BlobInv, IdleInv, OrphansAreUnreachable, TaggedIsNoOrphan
<1> QED
    BY <1>3, <1>4, <1>5 DEF SInv

LEMMA ReturnImagesKeeps ==
    ASSUME SInv, ReturnImages
    PROVE  SInv'
<1> USE DEF treeVars, ghostVars
<1>1. /\ search = "tags" /\ unread = {} /\ result' = visiting \ visited /\ search' = "end"
      /\ UNCHANGED <<treeVars, ghostVars, unread, found, visiting, visited>>
    BY DEF ReturnImages
<1>2. /\ SearchTypeOK /\ atStart = {} /\ visiting \subseteq Image /\ (changes = 0 => steady = Label)
      /\ \A l \in steady : label[l] = Missing \/ label[l] \in visited
    BY <1>1 DEF SInv, ImageInv
<1>3. SearchTypeOK'
    BY <1>1, <1>2 DEF SearchTypeOK, Object
<1>4. TaggedIsNoOrphan'
    BY <1>1, <1>2, DigestAssumption DEF TaggedIsNoOrphan
<1>5. OrphansAreUnreachable'
    BY <1>1, <1>2, FiniteAssumption DEF OrphansAreUnreachable
<1>6. BlobInv' /\ ImageInv' /\ IdleInv'
    BY <1>1 DEF BlobInv, ImageInv, IdleInv
<1> QED
    BY <1>3, <1>4, <1>5, <1>6 DEF SInv

-----------------------------------------------------------------------------
(***************************************************************************)
(* The invariant, and what follows from it.                                *)
(***************************************************************************)
LEMMA IdleSInv == SearchIdle => SInv
<1> SUFFICES ASSUME SearchIdle PROVE SInv
    OBVIOUS
<1>1. SearchTypeOK
    <2>1. label \in [Label -> Image \cup {Missing}] /\ imageRow \subseteq Image
        BY DEF SearchIdle
    <2>2. label \in [Label -> Image \cup {Missing}]
        BY <2>1
    <2>3. content \in Contents /\ blobRow \in [Blob -> RowOf] /\ search = "idle"
        BY DEF SearchIdle
    <2>4. changes = 0 /\ unread = {} /\ visiting = {} /\ visited = {} /\ result = {} /\ atStart = {}
          /\ steady = {} /\ lost = FALSE
        BY DEF SearchIdle
    <2>5. found \in [Blob -> RowOf]
        BY DEF SearchIdle, RowOf
    <2>6. changes \in 0 .. MaxChanges
        BY <2>4, FiniteAssumption
    <2>7. {visiting, visited} \subseteq SUBSET Object /\ {result, atStart} \subseteq SUBSET Object
        BY <2>4
    <2> QED
        BY <2>1, <2>2, <2>3, <2>4, <2>5, <2>6, <2>7 DEF SearchTypeOK
<1>2. IdleInv
    BY DEF SearchIdle, IdleInv
<1>3. search = "idle"
    BY DEF SearchIdle
<1> QED
    BY <1>1, <1>2, <1>3 DEF SInv, BlobInv, ImageInv, OrphansAreUnreachable, TaggedIsNoOrphan

LEMMA StutterSInv ==
    ASSUME SInv, UNCHANGED searchVars
    PROVE  SInv'
<1> USE DEF searchVars, treeVars, ghostVars
<1>1. Reachable' = Reachable
    BY TreesStay
<1>2. SearchTypeOK'
    BY DEF SInv, SearchTypeOK
<1>3. RootsKept => RootsKept'
    <2>1. \A images, full : Least(images, full)' <=> Least(images, full)
        BY DEF Least, Named
    <2>2. \A b : RowKept(b)' <=> RowKept(b)
        BY DEF RowKept, RowRead
    <2> QED
        BY <2>1, <2>2 DEF RootsKept, RootRead
<1>4. VisitOK' = VisitOK
    BY DEF VisitOK
<1>5. Exact => Exact'
    BY <1>1 DEF Exact, RowRead
<1>6. BlobInv'
    BY <1>3, <1>4, <1>5 DEF SInv, BlobInv
<1>7. ImageInv'
    BY DEF SInv, ImageInv
<1>8. IdleInv'
    BY DEF SInv, IdleInv
<1>9. OrphansAreUnreachable' /\ TaggedIsNoOrphan'
    BY <1>1 DEF SInv, OrphansAreUnreachable, TaggedIsNoOrphan
<1> QED
    BY <1>2, <1>6, <1>7, <1>8, <1>9 DEF SInv

LEMMA NextSInv ==
    ASSUME SInv, [SearchNext]_searchVars
    PROVE  SInv'
BY EntriesKeep, FindBlobsKeeps, ReadBlobKeeps, BlobsReadKeeps, ReadRootKeeps, RootsReadKeeps,
   VisitKeeps, ReturnBlobsKeeps, ImageSearchKeeps, ReturnImagesKeeps, StutterSInv
   DEF SearchNext

\* The invariant of the proofs holds in every state of a search.
THEOREM SearchIsInductive == SearchSpec => []SInv
<1>1. SearchIdle => SInv
    BY IdleSInv
<1>2. SInv /\ [SearchNext]_searchVars => SInv'
    BY NextSInv
<1> QED
    BY <1>1, <1>2, PTL DEF SearchSpec

\* get_orphaned_blobs returns nothing that a manifest led to when the search
\* began, unless a row or its dependencies were deleted meanwhile, and returns every row that no
\* manifest leads to when nothing was applied meanwhile.
THEOREM BlobsAreOrphans == SearchSpec => []OrphansAreUnreachable
<1>1. SInv => OrphansAreUnreachable
    BY DEF SInv
<1> QED
    BY <1>1, SearchIsInductive, PTL

\* get_orphaned_manifests returns no manifest that one tag has named all along.
THEOREM TaggedAreKept == SearchSpec => []TaggedIsNoOrphan
<1>1. SInv => TaggedIsNoOrphan
    BY DEF SInv
<1> QED
    BY <1>1, SearchIsInductive, PTL

-----------------------------------------------------------------------------
(***************************************************************************)
(* The inductive invariant of a listing.                                   *)
(***************************************************************************)
Increasing(s) == \A i, j \in DOMAIN s : i < j => s[i] < s[j]

Distinct(s) == \A i, j \in DOMAIN s : i # j => s[i] # s[j]

\* A request is under way, or the next one is about to be made.
Busy == listing \in {"asking", "scanning", "scanned"}

\* Every node still has the tags that all of them had when the listing began.
CommonOK == listing # "idle" => \A s \in Server : common \subseteq TagsOf(s)

\* The row of tag t in the tree, between two places of the order.
RowBetween(t, i, j) == \E k \in i .. j : KeyOrder[k] = <<Listed, t>>

\* A scan has every tag of its repository that was there when it began and
\* whose row it has passed, each of them once.
ScanOK ==
    listing \in {"scanning", "scanned"} =>
        /\ \E i \in DOMAIN KeyOrder : i <= cursor /\ KeyOrder[i][1] = Listed
        /\ Distinct(scanned)
        /\ \A t \in Range(scanned) : RowBetween(t, 1, cursor - 1) /\ t \in TagsOf(server)
        /\ \A t \in common :
              \/ t \in Range(scanned)
              \/ listing = "scanning" /\ RowBetween(t, cursor, Len(KeyOrder))

\* The client has every common tag up to the last it has, in their order.
PagesOK ==
    /\ Increasing(pages)
    /\ listing = "idle" => pages = <<>>
    /\ Busy =>
          \/ query.last = None /\ pages = <<>>
          \/ /\ query.last # None
             /\ query.n \notin {None, 0}
             /\ pages # <<>>
             /\ Last(pages) = query.last
             /\ \A t \in common : t <= query.last => t \in Range(pages)
    /\ listing = "done" => common \subseteq Range(pages)

\* Nothing has been tagged, and every node has everything.
Still == \A s \in Server : TagsOf(s) = common

\* Then pages of n tags have given the client n tags and n - 1 more each time,
\* and all of them only if their number is right.
FullPages(n, m) == \E i \in Nat : m = n + i * (n - 1)

SteadyOK ==
    Still /\ query.n \notin {None, 0, 1} =>
        /\ Busy /\ query.last # None =>
              /\ Range(pages) = {t \in common : t <= query.last}
              /\ FullPages(query.n, Len(pages))
              /\ Len(pages) < Cardinality(common)
        /\ listing = "done" => FullPages(query.n, Cardinality(common))
        /\ listing = "panicked" =>
              /\ Cardinality(common) \in Nat
              /\ \/ Cardinality(common) < query.n
                 \/ \E m \in Nat : /\ FullPages(query.n, m)
                                   /\ m < Cardinality(common)
                                   /\ Cardinality(common) < m + (query.n - 1)

ListInv == ListTypeOK /\ CommonOK /\ ScanOK /\ PagesOK /\ SteadyOK

-----------------------------------------------------------------------------
(***************************************************************************)
(* What sorting computes, and a page.                                      *)
(***************************************************************************)

\* A set of numbers has its elements in their order.
LEMMA InOrder ==
    ASSUME NEW n \in Nat, NEW S \in SUBSET Nat, IsFiniteSet(S), Cardinality(S) = n
    PROVE  \E f \in [1 .. n -> S] : \A i, j \in 1 .. n : i < j => f[i] < f[j]
<1> DEFINE Ordered(X, m) == \E f \in [1 .. m -> X] : \A i, j \in 1 .. m : i < j => f[i] < f[j]
           T == {m \in Nat : \A X \in SUBSET Nat :
                                IsFiniteSet(X) /\ Cardinality(X) = m => Ordered(X, m)}
           less == {p \in Nat \X Nat : p[1] < p[2]}
<1>1. 0 \in T
    <2>1. ASSUME NEW X PROVE Ordered(X, 0)
        <3> DEFINE f == [i \in 1 .. 0 |-> 0]
        <3>1. f \in [1 .. 0 -> X]
            OBVIOUS
        <3>2. \A i, j \in 1 .. 0 : i < j => f[i] < f[j]
            OBVIOUS
        <3> QED
            BY <3>1, <3>2
    <2> HIDE DEF Ordered
    <2> QED
        BY <2>1
<1>2. ASSUME NEW m \in Nat, m \in T PROVE m + 1 \in T
    <2> SUFFICES ASSUME NEW X \in SUBSET Nat, IsFiniteSet(X), Cardinality(X) = m + 1
                 PROVE  Ordered(X, m + 1)
        OBVIOUS
    <2>1. X # {}
        BY FS_EmptySet
    <2>2. IsWellFoundedOn(less, Nat)
        BY NatLessThanWellFounded DEF OpToRel
    <2>3. PICK x \in X : \A y \in X : <<y, x>> \notin less
        BY <2>1, <2>2, WFMin
    <2>4. ASSUME NEW y \in X \ {x} PROVE x < y
        <3>1. x \in Nat /\ y \in Nat /\ <<y, x>> \notin less /\ y # x
            BY <2>3
        <3>2. ~(y < x)
            BY <3>1
        <3> QED
            BY <3>1, <3>2
    <2>5. IsFiniteSet(X \ {x}) /\ Cardinality(X \ {x}) = m
        BY FS_RemoveElement
    <2>6. Ordered(X \ {x}, m)
        BY <1>2, <2>5
    <2>7. PICK f \in [1 .. m -> X \ {x}] : \A i, j \in 1 .. m : i < j => f[i] < f[j]
        BY <2>6
    <2> DEFINE g == [i \in 1 .. m + 1 |-> IF i = 1 THEN x ELSE f[i - 1]]
    <2>8. g \in [1 .. m + 1 -> X]
        OBVIOUS
    <2>9. ASSUME NEW i \in 1 .. m + 1, NEW j \in 1 .. m + 1, i < j PROVE g[i] < g[j]
        <3>1. j - 1 \in 1 .. m /\ g[j] = f[j - 1]
            BY <2>9
        <3>2. CASE i = 1
            BY <2>4, <3>1, <3>2
        <3>3. CASE i # 1
            <4>1. i - 1 \in 1 .. m /\ g[i] = f[i - 1] /\ i - 1 < j - 1
                BY <2>9, <3>3
            <4> QED
                BY <2>7, <3>1, <4>1
        <3> QED
            BY <3>2, <3>3
    <2> QED
        BY <2>8, <2>9
<1> HIDE DEF T
<1>3. Nat \subseteq T
    BY <1>1, <1>2, SetInduction
<1> QED
    BY <1>3 DEF T

\* A sequence without repetitions has as many elements as places.
LEMMA DistinctCardinality ==
    ASSUME NEW S, NEW s \in Seq(S), Distinct(s)
    PROVE  IsFiniteSet(Range(s)) /\ Cardinality(Range(s)) = Len(s)
<1>1. Len(s) \in Nat /\ DOMAIN s = 1 .. Len(s)
    OBVIOUS
<1>2. s \in Bijection(1 .. Len(s), Range(s))
    <2>1. s \in [1 .. Len(s) -> Range(s)]
        BY <1>1 DEF Range
    <2>2. s \in Injection(1 .. Len(s), Range(s))
        BY <1>1, <2>1 DEF Injection, IsInjective, Distinct
    <2>3. s \in Surjection(1 .. Len(s), Range(s))
        BY <1>1, <2>1 DEF Surjection, Range
    <2> QED
        BY <2>2, <2>3 DEF Bijection
<1>3. IsFiniteSet(1 .. Len(s)) /\ Cardinality(1 .. Len(s)) = Len(s)
    BY <1>1, FS_Interval
<1>4. ExistsBijection(1 .. Len(s), Range(s))
    BY <1>2 DEF ExistsBijection
<1> QED
    BY <1>3, <1>4, FS_Bijection

LEMMA IncreasingIsDistinct ==
    ASSUME NEW s \in Seq(Nat), Increasing(s)
    PROVE  Distinct(s)
<1> SUFFICES ASSUME NEW i \in DOMAIN s, NEW j \in DOMAIN s, i # j PROVE s[i] # s[j]
    BY DEF Distinct
<1>1. i \in Nat /\ j \in Nat /\ s[i] \in Nat /\ s[j] \in Nat
    OBVIOUS
<1>2. i < j \/ j < i
    BY <1>1
<1> QED
    BY <1>1, <1>2 DEF Increasing

LEMMA SortedFacts ==
    ASSUME NEW tags \in Seq(TagName), Distinct(tags)
    PROVE  /\ Sorted(tags) \in Seq(TagName)
           /\ Len(Sorted(tags)) = Len(tags)
           /\ Increasing(Sorted(tags))
           /\ Range(Sorted(tags)) = Range(tags)
<1>1. Len(tags) \in Nat /\ DOMAIN tags = 1 .. Len(tags) /\ Range(tags) \subseteq TagName
    BY DEF Range
<1>2. IsFiniteSet(Range(tags)) /\ Cardinality(Range(tags)) = Len(tags)
    BY DistinctCardinality
<1>3. Range(tags) \in SUBSET Nat
    BY <1>1, TagNameAssumption
<1>4. PICK f \in [1 .. Len(tags) -> Range(tags)] : \A i, j \in 1 .. Len(tags) : i < j => f[i] < f[j]
    BY <1>1, <1>2, <1>3, InOrder
<1>5. PICK s : s = Sorted(tags)
    OBVIOUS
<1>6. s \in [1 .. Len(tags) -> Range(tags)] /\ \A i, j \in 1 .. Len(tags) : i < j => s[i] < s[j]
    BY <1>1, <1>4, <1>5 DEF Sorted
<1>7. s \in Seq(Range(tags)) /\ Len(s) = Len(tags) /\ DOMAIN s = 1 .. Len(tags)
    BY <1>1, <1>6
<1>8. \A R : Range(tags) \subseteq R => s \in [1 .. Len(tags) -> R]
    BY <1>6
<1>9. \A R : Range(tags) \subseteq R => s \in Seq(R)
    BY <1>1, <1>8
<1>10. s \in Seq(TagName) /\ s \in Seq(Nat) /\ Len(s) = Len(tags) /\ Increasing(s)
    BY <1>1, <1>3, <1>6, <1>7, <1>9 DEF Increasing
<1>11. Range(s) \subseteq Range(tags)
    BY <1>6 DEF Range
<1>12. Distinct(s)
    BY <1>10, IncreasingIsDistinct
<1>13. Cardinality(Range(s)) = Cardinality(Range(tags))
    BY <1>2, <1>10, <1>12, DistinctCardinality
<1>14. Range(s) = Range(tags)
    BY <1>2, <1>11, <1>13, FS_Subset
<1> QED
    BY <1>5, <1>10, <1>14

\* The tags from `last` on: the sorted ones without the first p.
LEMMA FromLastFacts ==
    ASSUME NEW tags \in Seq(TagName), Distinct(tags), NEW last \in TagName \cup {None},
           last = None \/ last \in Range(tags)
    PROVE  \E p \in Nat :
              /\ p <= Len(tags)
              /\ FromLast(tags, last) \in Seq(TagName)
              /\ Len(FromLast(tags, last)) = Len(tags) - p
              /\ \A i \in 1 .. Len(tags) - p : FromLast(tags, last)[i] = Sorted(tags)[p + i]
              /\ last = None => p = 0
              /\ last # None => p + 1 <= Len(tags) /\ Sorted(tags)[p + 1] = last
<1>1. PICK s : s = Sorted(tags)
    OBVIOUS
<1>2. s \in Seq(TagName) /\ Len(s) = Len(tags) /\ Range(s) = Range(tags) /\ Len(tags) \in Nat
    BY <1>1, SortedFacts
<1>3. CASE last = None
    <2>1. FromLast(tags, last) = s
        BY <1>1, <1>3 DEF FromLast
    <2>2. \A i \in 1 .. Len(tags) - 0 : s[i] = s[0 + i]
        BY <1>2
    <2> QED
        BY <1>1, <1>2, <1>3, <2>1, <2>2
<1>4. CASE last # None
    <2>1. PICK q : q = Position(s, last)
        OBVIOUS
    <2>2. \E i \in DOMAIN s : s[i] = last
        BY <1>2, <1>4 DEF Range
    <2>3. q \in DOMAIN s /\ s[q] = last
        BY <2>1, <2>2 DEF Position
    <2>4. q \in 1 .. Len(tags) /\ q - 1 \in Nat /\ (q - 1) + 1 = q
        BY <1>2, <2>3
    <2>5. FromLast(tags, last) = SubSeq(s, q, Len(s))
        BY <1>1, <1>4, <2>1 DEF FromLast
    <2>6. /\ SubSeq(s, q, Len(s)) \in Seq(TagName)
          /\ Len(SubSeq(s, q, Len(s))) = Len(tags) - (q - 1)
          /\ \A i \in 1 .. Len(tags) - (q - 1) : SubSeq(s, q, Len(s))[i] = s[(q - 1) + i]
        BY <1>2, <2>3, <2>4
    <2>7. PICK p \in Nat : p = q - 1
        BY <2>4
    <2>8. p <= Len(tags) /\ p + 1 <= Len(tags) /\ s[p + 1] = last
        BY <1>2, <2>3, <2>4, <2>7
    <2> QED
        BY <1>1, <1>4, <2>5, <2>6, <2>7, <2>8
<1> QED
    BY <1>3, <1>4

PageOf(tags, last, n) ==
    IF n = None THEN FromLast(tags, last) ELSE SubSeq(FromLast(tags, last), 1, n)

\* A page has the sorted tags behind the first p of them.
LEMMA PageFacts ==
    ASSUME NEW tags \in Seq(TagName), Distinct(tags), NEW last \in TagName \cup {None},
           NEW n \in PageSize \cup {None}, ~PagePanics(tags, [last |-> last, n |-> n])
    PROVE  \E p \in Nat :
              /\ p <= Len(tags)
              /\ Len(FromLast(tags, last)) = Len(tags) - p
              /\ PageOf(tags, last, n) \in Seq(TagName)
              /\ Len(PageOf(tags, last, n)) = IF n = None THEN Len(tags) - p ELSE n
              /\ p + Len(PageOf(tags, last, n)) <= Len(tags)
              /\ \A i \in 1 .. Len(PageOf(tags, last, n)) : PageOf(tags, last, n)[i] = Sorted(tags)[p + i]
              /\ last = None => p = 0
              /\ last # None => p + 1 <= Len(tags) /\ Sorted(tags)[p + 1] = last
<1>1. last = None \/ last \in Range(tags)
    BY DEF PagePanics
<1>2. PICK left : left = FromLast(tags, last)
    OBVIOUS
<1>3. PICK p \in Nat :
              /\ p <= Len(tags)
              /\ left \in Seq(TagName)
              /\ Len(left) = Len(tags) - p
              /\ \A i \in 1 .. Len(tags) - p : left[i] = Sorted(tags)[p + i]
              /\ last = None => p = 0
              /\ last # None => p + 1 <= Len(tags) /\ Sorted(tags)[p + 1] = last
    BY <1>1, <1>2, FromLastFacts
<1>4. Len(tags) \in Nat
    OBVIOUS
<1>5. PICK page : page = PageOf(tags, last, n)
    OBVIOUS
<1>6. CASE n = None
    <2>1. page = left
        BY <1>2, <1>5, <1>6 DEF PageOf
    <2> QED
        BY <1>2, <1>3, <1>4, <1>5, <1>6, <2>1
<1>7. CASE n # None
    <2>1. n \in Nat
        BY <1>7, TagNameAssumption
    <2>2. n <= Len(left)
        BY <1>2, <1>3, <1>4, <1>7, <2>1 DEF PagePanics
    <2>3. page = SubSeq(left, 1, n)
        BY <1>2, <1>5, <1>7 DEF PageOf
    <2>4. page \in Seq(TagName) /\ Len(page) = n /\ \A i \in 1 .. n : page[i] = left[i]
        BY <1>3, <2>1, <2>2, <2>3
    <2>5. \A i \in 1 .. n : i \in 1 .. Len(tags) - p
        BY <1>3, <1>4, <2>1, <2>2
    <2>6. \A i \in 1 .. Len(page) : page[i] = Sorted(tags)[p + i]
        BY <1>3, <2>4, <2>5
    <2>7. p + Len(page) <= Len(tags)
        BY <1>3, <1>4, <2>1, <2>2, <2>4
    <2> QED
        BY <1>2, <1>3, <1>5, <1>7, <2>4, <2>6, <2>7
<1> QED
    BY <1>6, <1>7

\* What the client has after a page that continues what it had.
LEMMA JoinedFacts ==
    ASSUME NEW had \in Seq(TagName), NEW page \in Seq(TagName), Increasing(had), Increasing(page),
           \/ had = <<>>
           \/ had # <<>> /\ page # <<>> /\ page[1] = Last(had)
    PROVE  /\ Joined(had, page) \in Seq(TagName)
           /\ Increasing(Joined(had, page))
           /\ Range(Joined(had, page)) = Range(had) \cup Range(page)
           /\ Len(Joined(had, page)) = IF had = <<>> THEN Len(page) ELSE Len(had) + Len(page) - 1
           /\ page # <<>> => Joined(had, page) # <<>> /\ Last(Joined(had, page)) = Last(page)
<1>1. /\ Len(had) \in Nat /\ Len(page) \in Nat
      /\ DOMAIN had = 1 .. Len(had) /\ DOMAIN page = 1 .. Len(page)
    OBVIOUS
<1>2. CASE had = <<>>
    <2>1. Joined(had, page) = page
        BY <1>2 DEF Joined
    <2>2. Range(had) = {}
        BY <1>2 DEF Range
    <2> QED
        BY <1>2, <2>1, <2>2
<1>3. CASE had # <<>> /\ page # <<>> /\ page[1] = Last(had)
    <2>1. PICK h : h = Len(had)
        OBVIOUS
    <2>2. PICK m : m = Len(page)
        OBVIOUS
    <2>3. h \in Nat /\ m \in Nat /\ h >= 1 /\ m >= 1 /\ had[h] = page[1]
        BY <1>1, <1>3, <2>1, <2>2 DEF Last
    <2>4. PICK c : c = Joined(had, page)
        OBVIOUS
    <2>5. c = had \o Tail(page)
        BY <1>3, <2>4 DEF Joined
    <2>6. Tail(page) \in Seq(TagName) /\ Len(Tail(page)) = m - 1 /\ \A i \in 1 .. m - 1 : Tail(page)[i] = page[i + 1]
        BY <1>3, <2>2, <2>3
    <2>7. c \in Seq(TagName) /\ Len(c) = h + (m - 1) /\ DOMAIN c = 1 .. h + (m - 1)
        <3>1. c \in Seq(TagName) /\ Len(c) = Len(had) + Len(Tail(page))
            BY <2>5, <2>6
        <3> QED
            BY <2>1, <2>6, <3>1
    <2>8. \A i \in 1 .. h : c[i] = had[i]
        BY <2>1, <2>5, <2>6
    <2>9. ASSUME NEW i \in h .. h + (m - 1) PROVE i - h + 1 \in 1 .. m /\ c[i] = page[i - h + 1]
        <3>1. i - h + 1 \in 1 .. m
            BY <2>3
        <3>2. CASE i = h
            <4>1. i - h + 1 = 1 /\ i \in 1 .. h
                BY <2>3, <3>2
            <4> QED
                BY <2>3, <2>8, <3>1, <3>2, <4>1
        <3>3. CASE i # h
            <4>1. i - h \in 1 .. m - 1 /\ h + (i - h) = i
                BY <2>3, <3>3
            <4>2. c[h + (i - h)] = Tail(page)[i - h]
                BY <2>1, <2>5, <2>6, <4>1
            <4> QED
                BY <2>6, <3>1, <4>1, <4>2
        <3> QED
            BY <3>2, <3>3
    <2>10. \A i \in DOMAIN c : c[i] \in Nat
        <3>1. \A i \in DOMAIN c : c[i] \in TagName
            BY <2>7
        <3> QED
            BY <3>1, TagNameAssumption
    <2>11. ASSUME NEW i \in DOMAIN c, NEW j \in DOMAIN c, i < j PROVE c[i] < c[j]
        <3>1. CASE j <= h
            BY <1>1, <2>1, <2>3, <2>7, <2>8, <2>11, <3>1 DEF Increasing
        <3>2. CASE h <= i
            <4>1. i \in h .. h + (m - 1) /\ j \in h .. h + (m - 1)
                BY <2>3, <2>7, <2>11, <3>2
            <4>2. i - h + 1 \in DOMAIN page /\ j - h + 1 \in DOMAIN page /\ i - h + 1 < j - h + 1
                BY <1>1, <2>2, <2>3, <2>9, <2>11, <4>1
            <4> QED
                BY <2>9, <4>1, <4>2 DEF Increasing
        <3>3. CASE i < h /\ h < j
            <4>1. c[i] < c[h]
                <5>1. i \in DOMAIN had /\ h \in DOMAIN had /\ c[i] = had[i] /\ c[h] = had[h]
                    BY <1>1, <2>1, <2>3, <2>7, <2>8, <3>3
                <5> QED
                    BY <3>3, <5>1 DEF Increasing
            <4>2. c[h] < c[j]
                <5>1. h \in h .. h + (m - 1) /\ j \in h .. h + (m - 1)
                    BY <2>3, <2>7, <3>3
                <5>2. h - h + 1 \in DOMAIN page /\ j - h + 1 \in DOMAIN page /\ h - h + 1 < j - h + 1
                    BY <1>1, <2>2, <2>3, <2>9, <3>3, <5>1
                <5> QED
                    BY <2>9, <5>1, <5>2 DEF Increasing
            <4>3. h \in DOMAIN c
                BY <2>3, <2>7
            <4> QED
                BY <2>10, <4>1, <4>2, <4>3
        <3> QED
            BY <2>3, <2>7, <3>1, <3>2, <3>3
    <2>12. Range(c) \subseteq Range(had) \cup Range(page)
        <3>1. ASSUME NEW i \in DOMAIN c PROVE c[i] \in Range(had) \cup Range(page)
            <4>1. CASE i <= h
                <5>1. i \in DOMAIN had /\ c[i] = had[i]
                    BY <1>1, <2>1, <2>3, <2>7, <2>8, <4>1
                <5> QED
                    BY <5>1 DEF Range
            <4>2. CASE i > h
                <5>1. i \in h .. h + (m - 1)
                    BY <2>3, <2>7, <4>2
                <5>2. i - h + 1 \in DOMAIN page /\ c[i] = page[i - h + 1]
                    BY <1>1, <2>2, <2>9, <5>1
                <5> QED
                    BY <5>2 DEF Range
            <4> QED
                BY <2>3, <2>7, <4>1, <4>2
        <3> QED
            BY <3>1 DEF Range
    <2>13. Range(had) \subseteq Range(c)
        <3>1. ASSUME NEW i \in DOMAIN had PROVE had[i] \in Range(c)
            <4>1. i \in DOMAIN c /\ c[i] = had[i]
                BY <1>1, <2>1, <2>3, <2>7, <2>8
            <4> QED
                BY <4>1 DEF Range
        <3> QED
            BY <3>1 DEF Range
    <2>14. Range(page) \subseteq Range(c)
        <3>1. ASSUME NEW i \in DOMAIN page PROVE page[i] \in Range(c)
            <4>1. h + i - 1 \in h .. h + (m - 1) /\ (h + i - 1) - h + 1 = i /\ h + i - 1 \in DOMAIN c
                BY <1>1, <2>2, <2>3, <2>7
            <4>2. c[h + i - 1] = page[i]
                BY <2>9, <4>1
            <4> QED
                BY <4>1, <4>2 DEF Range
        <3> QED
            BY <3>1 DEF Range
    <2>15. c # <<>> /\ Last(c) = Last(page)
        <3>1. h + (m - 1) \in h .. h + (m - 1) /\ (h + (m - 1)) - h + 1 = m /\ Len(c) # 0
            BY <2>3, <2>7
        <3>2. c[h + (m - 1)] = page[m]
            BY <2>9, <3>1
        <3> QED
            BY <2>2, <2>7, <3>1, <3>2 DEF Last
    <2>16. Increasing(c)
        BY <2>11 DEF Increasing
    <2>17. Len(c) = Len(had) + Len(page) - 1
        BY <2>1, <2>2, <2>3, <2>7
    <2> QED
        BY <1>3, <2>4, <2>7, <2>12, <2>13, <2>14, <2>15, <2>16, <2>17
<1> QED
    BY <1>2, <1>3

\* The remainder of a number that lies between two multiples.
LEMMA Remainder ==
    ASSUME NEW m \in Nat, m >= 1, NEW i \in Nat, NEW r \in Nat, r < m
    PROVE  (i * m + r) % m = r
<1>1. PICK x \in Nat : x = i * m + r
    OBVIOUS
<1>2. PICK q \in Int : q = x \div m
    OBVIOUS
<1>3. PICK s \in Int : s = x % m
    OBVIOUS
<1>4. x = m * q + s /\ 0 <= s /\ s < m
    BY <1>2, <1>3
<1>5. m * q + s = m * i + r
    BY <1>1, <1>4
<1>6. CASE q >= i + 1
    <2>1. m * q >= m * (i + 1)
        BY <1>6
    <2>2. m * (i + 1) = m * i + m
        OBVIOUS
    <2>3. m * q \in Int /\ m * i \in Int
        OBVIOUS
    <2> QED
        BY <1>4, <1>5, <2>1, <2>2, <2>3
<1>7. CASE i >= q + 1
    <2>1. m * i >= m * (q + 1)
        BY <1>7
    <2>2. m * (q + 1) = m * q + m
        OBVIOUS
    <2>3. m * q \in Int /\ m * i \in Int
        OBVIOUS
    <2> QED
        BY <1>4, <1>5, <2>1, <2>2, <2>3
<1>8. CASE q = i
    BY <1>1, <1>3, <1>5, <1>8
<1> QED
    BY <1>6, <1>7, <1>8

-----------------------------------------------------------------------------
(***************************************************************************)
(* The steps of a listing.                                                 *)
(***************************************************************************)

\* Entries that are applied add tags and do not disturb a listing.
LEMMA GrownTags ==
    ASSUME ListInv, ListTypeOK', UNCHANGED <<listing, server, cursor, scanned, clientVars>>,
           \A s \in Server : TagsOf(s) \subseteq TagsOf(s)'
    PROVE  ListInv'
<1>1. UNCHANGED <<listing, server, cursor, scanned, query, pages, common>>
    BY DEF clientVars
<1>2. CommonOK'
    BY <1>1 DEF ListInv, CommonOK
<1>3. ScanOK'
    <2>1. server \in Server
        BY DEF ListInv, ListTypeOK
    <2> QED
        BY <1>1, <2>1 DEF ListInv, ScanOK, RowBetween
<1>4. PagesOK'
    BY <1>1 DEF ListInv, PagesOK, Busy
<1>5. SteadyOK'
    <2>1. CASE listing = "idle"
        BY <1>1, <2>1 DEF SteadyOK, Busy
    <2>2. CASE listing # "idle"
        <3>1. \A s \in Server : common \subseteq TagsOf(s)
            BY <2>2 DEF ListInv, CommonOK
        <3>2. Still' => Still
            BY <1>1, <3>1 DEF Still
        <3> QED
            BY <1>1, <3>2 DEF ListInv, SteadyOK, Busy
    <2> QED
        BY <2>1, <2>2
<1> QED
    BY <1>2, <1>3, <1>4, <1>5 DEF ListInv

LEMMA CommitTagStep ==
    ASSUME ListInv, NEW k \in TagKeys, CommitTag(k)
    PROVE  ListInv'
<1>1. /\ tagLog' = Append(tagLog, k) /\ appliedTags' = appliedTags
      /\ UNCHANGED <<listing, server, cursor, scanned, clientVars>>
    BY DEF CommitTag
<1>2. tagLog \in Seq(TagKeys) /\ appliedTags \in [Server -> 0 .. Len(tagLog)]
    BY DEF ListInv, ListTypeOK
<1>3. tagLog' \in Seq(TagKeys) /\ Len(tagLog') = Len(tagLog) + 1 /\ Len(tagLog) \in Nat
    BY <1>1, <1>2
<1>4. \A i \in 1 .. Len(tagLog) : tagLog'[i] = tagLog[i]
    BY <1>1, <1>2
<1>5. appliedTags' \in [Server -> 0 .. Len(tagLog')]
    BY <1>1, <1>2, <1>3
<1>6. ListTypeOK'
    BY <1>1, <1>3, <1>5 DEF ListInv, ListTypeOK, clientVars
<1>7. ASSUME NEW s \in Server PROVE TagsOf(s) \subseteq TagsOf(s)'
    <2>1. \A i \in 1 .. appliedTags[s] : i \in 1 .. Len(tagLog)
        BY <1>2, <1>3
    <2>2. TreeOf(s)' = TreeOf(s)
        BY <1>1, <1>4, <2>1 DEF TreeOf
    <2> QED
        BY <2>2 DEF TagsOf
<1> QED
    BY <1>1, <1>6, <1>7, GrownTags

LEMMA ApplyTagStep ==
    ASSUME ListInv, NEW n \in Server, ApplyTag(n)
    PROVE  ListInv'
<1>1. /\ appliedTags[n] < Len(tagLog) /\ tagLog' = tagLog
      /\ appliedTags' = [appliedTags EXCEPT ![n] = @ + 1]
      /\ UNCHANGED <<listing, server, cursor, scanned, clientVars>>
    BY DEF ApplyTag
<1>2. tagLog \in Seq(TagKeys) /\ appliedTags \in [Server -> 0 .. Len(tagLog)] /\ Len(tagLog) \in Nat
    BY DEF ListInv, ListTypeOK
<1>3. appliedTags' \in [Server -> 0 .. Len(tagLog')]
    BY <1>1, <1>2
<1>4. ListTypeOK'
    BY <1>1, <1>3 DEF ListInv, ListTypeOK, clientVars
<1>5. ASSUME NEW s \in Server PROVE TagsOf(s) \subseteq TagsOf(s)'
    <2>1. \A i \in 1 .. appliedTags[s] : i \in 1 .. appliedTags'[s]
        BY <1>1, <1>2
    <2>2. TreeOf(s) \subseteq TreeOf(s)'
        BY <1>1, <2>1 DEF TreeOf
    <2> QED
        BY <2>2 DEF TagsOf
<1> QED
    BY <1>1, <1>4, <1>5, GrownTags

LEMMA SameTags ==
    ASSUME UNCHANGED <<tagLog, appliedTags>>
    PROVE  \A s \in Server : TagsOf(s)' = TagsOf(s)
BY DEF TagsOf, TreeOf

LEMMA StartListingStep ==
    ASSUME ListInv, NEW n \in PageSize \cup {None}, StartListing(n)
    PROVE  ListInv'
<1>1. /\ listing = "idle" /\ listing' = "asking"
      /\ query' = [last |-> None, n |-> n]
      /\ common' = {t \in TagName : \A s \in Server : t \in TagsOf(s)}
      /\ UNCHANGED <<tagLog, appliedTags, server, cursor, scanned, pages>>
    BY DEF StartListing
<1>2. query'.last = None /\ query'.n = n
    BY <1>1
<1>3. ListTypeOK'
    BY <1>1 DEF ListInv, ListTypeOK
<1>4. CommonOK'
    BY <1>1, SameTags DEF CommonOK
<1>5. ScanOK' /\ SteadyOK'
    BY <1>1, <1>2 DEF ScanOK, SteadyOK
<1>6. pages = <<>>
    BY <1>1 DEF ListInv, PagesOK
<1>7. PagesOK'
    BY <1>1, <1>2, <1>6 DEF PagesOK, Increasing
<1> QED
    BY <1>3, <1>4, <1>5, <1>7 DEF ListInv

\* The last step of a listing that the client does not go on with.
LEMMA RefuseListingStep ==
    ASSUME ListInv, RefuseListing
    PROVE  ListInv'
<1>1. /\ listing' = "refused" /\ listing = "asking"
      /\ UNCHANGED <<tagLog, appliedTags, server, cursor, scanned, query, pages, common>>
    BY DEF RefuseListing, clientVars
<1>2. ListTypeOK'
    BY <1>1 DEF ListInv, ListTypeOK, Ended
<1>3. CommonOK'
    BY <1>1, SameTags DEF ListInv, CommonOK
<1>4. ScanOK' /\ SteadyOK'
    BY <1>1 DEF ScanOK, SteadyOK, Busy
<1>5. PagesOK'
    BY <1>1 DEF ListInv, PagesOK, Busy
<1> QED
    BY <1>2, <1>3, <1>4, <1>5 DEF ListInv

\* A step within a request leaves what the client has, and what it asks for.
LEMMA WithinRequest ==
    ASSUME ListInv, UNCHANGED <<tagLog, appliedTags, query, pages, common>>,
           Busy, Busy'
    PROVE  CommonOK' /\ PagesOK' /\ SteadyOK'
<1>1. CommonOK'
    BY SameTags DEF ListInv, CommonOK, Busy
<1>2. PagesOK'
    BY DEF ListInv, PagesOK, Busy
<1>3. Still' <=> Still
    BY SameTags DEF Still
<1>4. SteadyOK'
    BY <1>3 DEF ListInv, SteadyOK, Busy
<1> QED
    BY <1>1, <1>2, <1>4

\* Where the row of a tag is.
LEMMA RowOfTag ==
    ASSUME NEW t \in TagName
    PROVE  \E i \in DOMAIN KeyOrder : KeyOrder[i] = <<Listed, t>>
<1>1. <<Listed, t>> \in TagKeys
    BY DEF TagKeys
<1> QED
    BY <1>1, KeyOrderAssumption DEF Range

LEMMA KeyOrderFacts ==
    /\ Len(KeyOrder) \in Nat /\ DOMAIN KeyOrder = 1 .. Len(KeyOrder)
    /\ \A i \in DOMAIN KeyOrder : KeyOrder[i] = <<KeyOrder[i][1], KeyOrder[i][2]>> /\ KeyOrder[i][2] \in TagName
<1>1. KeyOrder \in Seq(TagKeys)
    BY KeyOrderAssumption
<1>2. \A i \in DOMAIN KeyOrder : KeyOrder[i] \in TagKeys
    BY <1>1
<1> QED
    BY <1>1, <1>2 DEF TagKeys

LEMMA BeginScanStep ==
    ASSUME ListInv, NEW s \in Server, BeginScan(s)
    PROVE  ListInv'
<1> DEFINE First(i) == KeyOrder[i][1] = Listed /\ \A j \in 1 .. i - 1 : KeyOrder[j][1] # Listed
           At == {i \in Nat : i \in DOMAIN KeyOrder /\ KeyOrder[i][1] = Listed}
           less == {p \in Nat \X Nat : p[1] < p[2]}
<1>1. /\ listing = "asking" /\ listing' = "scanning" /\ server' = s /\ scanned' = <<>>
      /\ cursor' = CHOOSE i \in DOMAIN KeyOrder : First(i)
      /\ UNCHANGED <<tagLog, appliedTags, query, pages, common>>
    BY DEF BeginScan, clientVars
<1>2. \E i \in DOMAIN KeyOrder : First(i)
    <2>1. PICK t \in TagName : TRUE
        BY TagNameAssumption
    <2>2. At # {}
        BY <2>1, RowOfTag, KeyOrderFacts
    <2>3. IsWellFoundedOn(less, Nat)
        BY NatLessThanWellFounded DEF OpToRel
    <2>4. PICK i \in At : \A j \in At : <<j, i>> \notin less
        BY <2>2, <2>3, WFMin
    <2>5. ASSUME NEW j \in 1 .. i - 1, KeyOrder[j][1] = Listed PROVE FALSE
        <3>1. j \in At /\ j < i /\ i \in Nat /\ j \in Nat
            BY <2>4, <2>5, KeyOrderFacts
        <3>2. <<j, i>> \in less
            BY <3>1
        <3> QED
            BY <2>4, <3>1, <3>2
    <2>6. i \in DOMAIN KeyOrder /\ First(i)
        BY <2>4, <2>5
    <2> HIDE DEF First
    <2> QED
        BY <2>6
<1>3. cursor' \in DOMAIN KeyOrder /\ First(cursor')
    <2> HIDE DEF First
    <2> QED
        BY <1>1, <1>2
<1>4. cursor' \in 1 .. Len(KeyOrder) + 1 /\ cursor' \in Nat
    BY <1>3, KeyOrderFacts
<1>5. ListTypeOK'
    BY <1>1, <1>4 DEF ListInv, ListTypeOK
<1>6. CommonOK' /\ PagesOK' /\ SteadyOK'
    BY <1>1, WithinRequest DEF Busy
<1>7. ASSUME NEW t \in common' PROVE RowBetween(t, cursor, Len(KeyOrder))'
    <2>1. t \in TagName
        BY <1>1, <1>7 DEF ListInv, ListTypeOK
    <2>2. PICK i \in DOMAIN KeyOrder : KeyOrder[i] = <<Listed, t>>
        BY <2>1, RowOfTag
    <2>3. KeyOrder[i][1] = Listed
        BY <2>2
    <2>4. ~(i \in 1 .. cursor' - 1)
        BY <1>3, <2>3
    <2>5. i \in cursor' .. Len(KeyOrder)
        BY <1>4, <2>2, <2>4, KeyOrderFacts
    <2> QED
        BY <2>2, <2>5 DEF RowBetween
<1>8. Distinct(scanned)' /\ Range(scanned)' = {}
    BY <1>1 DEF Distinct, Range
<1>9. cursor' <= cursor' /\ KeyOrder[cursor'][1] = Listed
    BY <1>3, <1>4
<1>10. ScanOK'
    BY <1>1, <1>3, <1>7, <1>8, <1>9 DEF ScanOK
<1> QED
    BY <1>5, <1>6, <1>10 DEF ListInv

\* The next row is the first of those ahead.
LEMMA NextRowFacts ==
    ASSUME ListInv, RowsAhead # {}
    PROVE  /\ NextRow \in cursor .. Len(KeyOrder) /\ NextRow \in DOMAIN KeyOrder
           /\ KeyOrder[NextRow] \in TreeOf(server)
           /\ \A i \in RowsAhead : NextRow <= i
<1> DEFINE less == {p \in Nat \X Nat : p[1] < p[2]}
<1>1. cursor \in Nat /\ cursor >= 1
    BY KeyOrderFacts DEF ListInv, ListTypeOK
<1>2. RowsAhead \subseteq Nat
    BY <1>1, KeyOrderFacts DEF RowsAhead
<1>3. IsWellFoundedOn(less, Nat)
    BY NatLessThanWellFounded DEF OpToRel
<1>4. PICK x \in RowsAhead : \A y \in RowsAhead : <<y, x>> \notin less
    BY <1>2, <1>3, WFMin
<1>5. ASSUME NEW y \in RowsAhead PROVE x <= y
    <2>1. x \in Nat /\ y \in Nat /\ <<y, x>> \notin less
        BY <1>2, <1>4
    <2>2. ~(y < x)
        BY <2>1
    <2> QED
        BY <2>1, <2>2
<1>6. NextRow \in RowsAhead /\ \A i \in RowsAhead : NextRow <= i
    BY <1>4, <1>5 DEF NextRow
<1> QED
    BY <1>1, <1>6, KeyOrderFacts DEF RowsAhead

\* A row that was there when the scan began is ahead of it, or in its result.
LEMMA CommonIsAhead ==
    ASSUME ListInv, listing = "scanning", NEW t \in common, t \notin Range(scanned)
    PROVE  \E i \in RowsAhead : KeyOrder[i] = <<Listed, t>>
<1>1. PICK i \in cursor .. Len(KeyOrder) : KeyOrder[i] = <<Listed, t>>
    BY DEF ListInv, ScanOK, RowBetween
<1>2. t \in TagsOf(server)
    BY DEF ListInv, CommonOK, ListTypeOK
<1>3. PICK k \in TreeOf(server) : k[1] = Listed /\ k[2] = t
    BY <1>2 DEF TagsOf
<1>4. k \in TagKeys
    <2>1. server \in Server /\ tagLog \in Seq(TagKeys) /\ appliedTags \in [Server -> 0 .. Len(tagLog)]
        BY DEF ListInv, ListTypeOK
    <2>2. PICK j \in 1 .. appliedTags[server] : k = tagLog[j]
        BY <1>3 DEF TreeOf
    <2>3. j \in 1 .. Len(tagLog)
        BY <2>1
    <2> QED
        BY <2>1, <2>2, <2>3
<1>5. k = <<Listed, t>>
    BY <1>3, <1>4 DEF TagKeys
<1> QED
    BY <1>1, <1>3, <1>5 DEF RowsAhead

LEMMA ScanEnds ==
    ASSUME ListInv, listing = "scanning", ScanIsOver
    PROVE  common \subseteq Range(scanned)
<1> SUFFICES ASSUME NEW t \in common, t \notin Range(scanned) PROVE FALSE
    OBVIOUS
<1>1. PICK i \in RowsAhead : KeyOrder[i] = <<Listed, t>>
    BY CommonIsAhead
<1>2. RowsAhead # {} /\ KeyOrder[NextRow][1] # Listed
    BY <1>1 DEF ScanIsOver
<1>3. /\ NextRow \in cursor .. Len(KeyOrder) /\ NextRow \in DOMAIN KeyOrder
      /\ NextRow <= i
    BY <1>1, <1>2, NextRowFacts
<1>4. PICK j \in DOMAIN KeyOrder : j <= cursor /\ KeyOrder[j][1] = Listed
    BY DEF ListInv, ScanOK
<1>5. i \in DOMAIN KeyOrder /\ KeyOrder[i][1] = Listed
    <2>1. cursor \in Nat /\ cursor >= 1
        BY KeyOrderFacts DEF ListInv, ListTypeOK
    <2> QED
        BY <1>1, <2>1, KeyOrderFacts DEF RowsAhead
<1>6. j # NextRow /\ NextRow # i
    BY <1>2, <1>4, <1>5
<1>7. cursor \in Nat
    BY KeyOrderFacts DEF ListInv, ListTypeOK
<1>8. j < NextRow /\ NextRow < i
    BY <1>3, <1>4, <1>5, <1>6, <1>7, KeyOrderFacts
<1> QED
    BY <1>2, <1>3, <1>4, <1>5, <1>8, ContiguousAssumption

LEMMA ScanRowStep ==
    ASSUME ListInv, ScanRow
    PROVE  ListInv'
<1>1. listing = "scanning" /\ UNCHANGED <<tagLog, appliedTags, server, query, pages, common>>
    BY DEF ScanRow, clientVars
<1>2. CASE ScanIsOver
    <2>1. listing' = "scanned" /\ UNCHANGED <<cursor, scanned>>
        BY <1>2 DEF ScanRow
    <2>2. CommonOK' /\ PagesOK' /\ SteadyOK'
        BY <1>1, <2>1, WithinRequest DEF Busy
    <2>3. ListTypeOK'
        BY <1>1, <2>1 DEF ListInv, ListTypeOK
    <2>4. common \subseteq Range(scanned)
        BY <1>1, <1>2, ScanEnds
    <2>5. TagsOf(server)' = TagsOf(server)
        BY <1>1 DEF TagsOf, TreeOf
    <2>6. ScanOK'
        BY <1>1, <2>1, <2>4, <2>5 DEF ListInv, ScanOK, RowBetween
    <2> QED
        BY <2>2, <2>3, <2>6 DEF ListInv
<1>3. CASE ~ScanIsOver
    <2>1. PICK r : r = NextRow
        OBVIOUS
    <2>2. PICK t : t = KeyOrder[r][2]
        OBVIOUS
    <2>3. scanned' = Append(scanned, t) /\ cursor' = r + 1 /\ listing' = listing
        BY <1>3, <2>1, <2>2 DEF ScanRow
    <2>4. RowsAhead # {} /\ KeyOrder[r][1] = Listed
        BY <1>3, <2>1 DEF ScanIsOver
    <2>5. /\ r \in cursor .. Len(KeyOrder) /\ r \in DOMAIN KeyOrder /\ KeyOrder[r] \in TreeOf(server)
          /\ \A i \in RowsAhead : r <= i
        BY <2>1, <2>4, NextRowFacts
    <2>6. t \in TagName /\ KeyOrder[r] = <<Listed, t>>
        BY <2>2, <2>4, <2>5, KeyOrderFacts
    <2>7. cursor \in Nat /\ cursor >= 1 /\ r \in Nat /\ cursor <= r /\ r <= Len(KeyOrder)
        BY <2>5, KeyOrderFacts DEF ListInv, ListTypeOK
    <2>8. cursor' \in 1 .. Len(KeyOrder) + 1
        BY <2>3, <2>7, KeyOrderFacts
    <2>9. scanned \in Seq(TagName)
        BY DEF ListInv, ListTypeOK
    <2>10. scanned' \in Seq(TagName)
        BY <2>3, <2>6, <2>9
    <2>11. ListTypeOK'
        BY <1>1, <2>3, <2>8, <2>10 DEF ListInv, ListTypeOK
    <2>12. CommonOK' /\ PagesOK' /\ SteadyOK'
        BY <1>1, <2>3, WithinRequest DEF Busy
    <2>13. /\ Len(scanned) \in Nat /\ DOMAIN scanned = 1 .. Len(scanned)
           /\ DOMAIN scanned' = 1 .. Len(scanned) + 1
           /\ scanned'[Len(scanned) + 1] = t
           /\ \A i \in 1 .. Len(scanned) : scanned'[i] = scanned[i]
        BY <2>3, <2>9
    <2>14. Range(scanned') = Range(scanned) \cup {t}
        <3>1. \A i : i \in 1 .. Len(scanned) + 1 <=> i \in 1 .. Len(scanned) \/ i = Len(scanned) + 1
            BY <2>13
        <3> QED
            BY <2>13, <3>1 DEF Range
    <2>15. t \notin Range(scanned)
        <3>1. ASSUME t \in Range(scanned) PROVE FALSE
            <4>1. PICK j \in 1 .. cursor - 1 : KeyOrder[j] = <<Listed, t>>
                BY <1>1, <3>1 DEF ListInv, ScanOK, RowBetween
            <4>2. j \in DOMAIN KeyOrder /\ j # r
                BY <2>7, KeyOrderFacts
            <4> QED
                BY <2>5, <2>6, <4>1, <4>2, KeyOrderAssumption DEF IsInjective
        <3> QED
            BY <3>1
    <2>16. Distinct(scanned')
        <3> SUFFICES ASSUME NEW i \in DOMAIN scanned', NEW j \in DOMAIN scanned', i # j
                     PROVE  scanned'[i] # scanned'[j]
            BY DEF Distinct
        <3>1. Distinct(scanned)
            BY <1>1 DEF ListInv, ScanOK
        <3>2. CASE i \in DOMAIN scanned /\ j \in DOMAIN scanned
            BY <2>13, <3>1, <3>2 DEF Distinct
        <3>3. CASE i = Len(scanned) + 1 /\ j \in DOMAIN scanned
            BY <2>13, <2>15, <3>3 DEF Range
        <3>4. CASE i \in DOMAIN scanned /\ j = Len(scanned) + 1
            BY <2>13, <2>15, <3>4 DEF Range
        <3> QED
            BY <2>13, <3>2, <3>3, <3>4
    <2>17. TagsOf(server)' = TagsOf(server)
        BY <1>1 DEF TagsOf, TreeOf
    <2>18. ASSUME NEW u \in Range(scanned') PROVE RowBetween(u, 1, cursor - 1)' /\ u \in TagsOf(server)'
        <3>1. CASE u = t
            <4>1. r \in 1 .. cursor' - 1
                BY <2>3, <2>7
            <4>2. t \in TagsOf(server)
                <5>1. <<Listed, t>>[1] = Listed /\ <<Listed, t>>[2] = t /\ <<Listed, t>> \in TreeOf(server)
                    BY <2>5, <2>6
                <5> QED
                    BY <5>1 DEF TagsOf
            <4> QED
                BY <2>6, <2>17, <3>1, <4>1, <4>2 DEF RowBetween
        <3>2. CASE u \in Range(scanned)
            <4>1. RowBetween(u, 1, cursor - 1) /\ u \in TagsOf(server)
                BY <1>1, <3>2 DEF ListInv, ScanOK
            <4>2. \A j \in 1 .. cursor - 1 : j \in 1 .. cursor' - 1
                BY <2>3, <2>7
            <4> QED
                BY <2>17, <4>1, <4>2 DEF RowBetween
        <3> QED
            BY <2>14, <3>1, <3>2
    <2>19. ASSUME NEW u \in common', u \notin Range(scanned') PROVE RowBetween(u, cursor, Len(KeyOrder))'
        <3>1. u \in common /\ u \notin Range(scanned) /\ u # t
            BY <1>1, <2>14, <2>19
        <3>2. PICK i \in RowsAhead : KeyOrder[i] = <<Listed, u>>
            BY <1>1, <3>1, CommonIsAhead
        <3>3. r <= i /\ i # r
            BY <2>5, <2>6, <3>1, <3>2
        <3>4. i \in cursor' .. Len(KeyOrder)
            BY <2>3, <2>7, <3>2, <3>3, KeyOrderFacts DEF RowsAhead
        <3> QED
            BY <3>2, <3>4 DEF RowBetween
    <2>20. \E i \in DOMAIN KeyOrder : i <= cursor' /\ KeyOrder[i][1] = Listed
        BY <2>3, <2>4, <2>5, <2>7
    <2>21. ScanOK'
        BY <1>1, <2>3, <2>16, <2>18, <2>19, <2>20 DEF ScanOK
    <2> QED
        BY <2>11, <2>12, <2>21 DEF ListInv
<1> QED
    BY <1>2, <1>3

\* As many elements of an increasing sequence are at most its k-th as are up to it.
LEMMA UpToPlace ==
    ASSUME NEW s \in Seq(Nat), Increasing(s), NEW k \in 1 .. Len(s)
    PROVE  Cardinality({t \in Range(s) : t <= s[k]}) = k
<1>1. PICK q : q = SubSeq(s, 1, k)
    OBVIOUS
<1>2. Len(s) \in Nat /\ DOMAIN s = 1 .. Len(s) /\ k \in Nat /\ k <= Len(s) /\ 1 <= k
    OBVIOUS
<1>3. q \in Seq(Nat) /\ Len(q) = k /\ DOMAIN q = 1 .. k /\ \A i \in 1 .. k : q[i] = s[i]
    BY <1>1, <1>2
<1>4. \A i \in 1 .. k : i \in DOMAIN s
    BY <1>2
<1>5. Increasing(q)
    BY <1>3, <1>4 DEF Increasing
<1>6. Cardinality(Range(q)) = k
    BY <1>3, <1>5, IncreasingIsDistinct, DistinctCardinality
<1>7. ASSUME NEW i \in DOMAIN s PROVE s[i] <= s[k] <=> i <= k
    <2>1. s[i] \in Nat /\ s[k] \in Nat /\ k \in DOMAIN s /\ i \in Nat
        BY <1>2
    <2>2. CASE i = k
        BY <2>1, <2>2
    <2>3. CASE i < k
        <3>1. s[i] < s[k]
            BY <2>1, <2>3 DEF Increasing
        <3> QED
            BY <2>1, <2>3, <3>1
    <2>4. CASE k < i
        <3>1. s[k] < s[i]
            BY <2>1, <2>4 DEF Increasing
        <3> QED
            BY <1>2, <2>1, <2>4, <3>1
    <2> QED
        BY <1>2, <2>1, <2>2, <2>3, <2>4
<1>8. \A i \in DOMAIN s : i <= k => i \in 1 .. k
    BY <1>2
<1>9. {t \in Range(s) : t <= s[k]} = Range(q)
    <2>1. ASSUME NEW t \in Range(s), t <= s[k] PROVE t \in Range(q)
        <3>1. PICK i \in DOMAIN s : s[i] = t
            BY DEF Range
        <3>2. i \in 1 .. k
            BY <1>7, <1>8, <2>1, <3>1
        <3> QED
            BY <1>3, <3>1, <3>2 DEF Range
    <2>2. ASSUME NEW t \in Range(q) PROVE t \in Range(s) /\ t <= s[k]
        <3>1. PICK i \in 1 .. k : q[i] = t
            BY <1>3 DEF Range
        <3>2. i \in DOMAIN s /\ s[i] = t /\ i <= k
            BY <1>2, <1>3, <1>4, <3>1
        <3> QED
            BY <1>7, <3>2 DEF Range
    <2> QED
        BY <2>1, <2>2
<1> QED
    BY <1>6, <1>9

\* A page has the sorted tags from `last` on, and the client has every common
\* tag before it.
LEMMA AnsweredPage ==
    ASSUME ListInv, listing = "scanned", ~PagePanics(scanned, query),
           NEW page, page = PageOf(scanned, query.last, query.n)
    PROVE  \E p \in Nat :
              /\ Len(FromLast(scanned, query.last)) = Len(scanned) - p
              /\ page \in Seq(TagName) /\ Increasing(page)
              /\ Len(page) = IF query.n = None THEN Len(scanned) - p ELSE query.n
              /\ p + Len(page) <= Len(scanned)
              /\ \A i \in 1 .. Len(page) : page[i] = Sorted(scanned)[p + i]
              /\ query.last = None => p = 0 /\ pages = <<>>
              /\ query.last # None =>
                    /\ pages # <<>> /\ page # <<>> /\ page[1] = Last(pages)
                    /\ p + 1 <= Len(scanned) /\ Sorted(scanned)[p + 1] = query.last
<1>1. /\ scanned \in Seq(TagName) /\ pages \in Seq(TagName)
      /\ query.last \in TagName \cup {None} /\ query.n \in PageSize \cup {None}
      /\ query = [last |-> query.last, n |-> query.n]
    BY DEF ListInv, ListTypeOK
<1>2. Distinct(scanned)
    BY DEF ListInv, ScanOK
<1>3. PICK l \in TagName \cup {None} : l = query.last
    BY <1>1
<1>4. PICK n \in PageSize \cup {None} : n = query.n
    BY <1>1
<1>5. ~PagePanics(scanned, [last |-> l, n |-> n]) /\ page = PageOf(scanned, l, n)
    BY <1>1, <1>3, <1>4
<1>6. PICK tags : tags = scanned
    OBVIOUS
<1>7. tags \in Seq(TagName) /\ Distinct(tags) /\ ~PagePanics(tags, [last |-> l, n |-> n])
    BY <1>1, <1>2, <1>5, <1>6
<1>8. PICK p \in Nat :
              /\ p <= Len(tags)
              /\ Len(FromLast(tags, l)) = Len(tags) - p
              /\ PageOf(tags, l, n) \in Seq(TagName)
              /\ Len(PageOf(tags, l, n)) = IF n = None THEN Len(tags) - p ELSE n
              /\ p + Len(PageOf(tags, l, n)) <= Len(tags)
              /\ \A i \in 1 .. Len(PageOf(tags, l, n)) : PageOf(tags, l, n)[i] = Sorted(tags)[p + i]
              /\ l = None => p = 0
              /\ l # None => p + 1 <= Len(tags) /\ Sorted(tags)[p + 1] = l
    BY <1>7, PageFacts
<1>9. /\ p <= Len(scanned)
      /\ Len(FromLast(scanned, l)) = Len(scanned) - p
      /\ page \in Seq(TagName)
      /\ Len(page) = IF n = None THEN Len(scanned) - p ELSE n
      /\ p + Len(page) <= Len(scanned)
      /\ \A i \in 1 .. Len(page) : page[i] = Sorted(scanned)[p + i]
      /\ l = None => p = 0
      /\ l # None => p + 1 <= Len(scanned) /\ Sorted(scanned)[p + 1] = l
    BY <1>5, <1>6, <1>8
<1>10. PICK s : s = Sorted(scanned)
    OBVIOUS
<1>11. s \in Seq(TagName) /\ Len(s) = Len(scanned) /\ Increasing(s)
    BY <1>1, <1>2, <1>10, SortedFacts
<1>12. Len(page) \in Nat /\ Len(s) \in Nat /\ DOMAIN page = 1 .. Len(page) /\ DOMAIN s = 1 .. Len(s)
    BY <1>9, <1>11
<1>13. Increasing(page)
    <2> SUFFICES ASSUME NEW i \in 1 .. Len(page), NEW j \in 1 .. Len(page), i < j
                 PROVE  page[i] < page[j]
        BY <1>12 DEF Increasing
    <2>1. p + i \in DOMAIN s /\ p + j \in DOMAIN s /\ p + i < p + j
        BY <1>9, <1>11, <1>12
    <2>2. page[i] = s[p + i] /\ page[j] = s[p + j]
        BY <1>9, <1>10
    <2> QED
        BY <1>11, <2>1, <2>2 DEF Increasing
<1>14. l = None => pages = <<>>
    BY <1>3 DEF ListInv, PagesOK, Busy
<1>15. ASSUME l # None PROVE pages # <<>> /\ page # <<>> /\ page[1] = Last(pages)
    <2>1. n \notin {None, 0} /\ pages # <<>> /\ Last(pages) = l
        BY <1>3, <1>4, <1>15 DEF ListInv, PagesOK, Busy
    <2>2. n \in Nat /\ n >= 1 /\ Len(page) = n
        BY <1>9, <2>1, TagNameAssumption
    <2>3. 1 \in 1 .. Len(page) /\ page # <<>>
        BY <1>9, <2>2
    <2> QED
        BY <1>9, <1>15, <2>1, <2>3
<1> QED
    BY <1>3, <1>4, <1>9, <1>13, <1>14, <1>15

\* What the client has after it.
LEMMA AfterPage ==
    ASSUME ListInv, listing = "scanned", ~PagePanics(scanned, query),
           NEW page, page = PageOf(scanned, query.last, query.n),
           NEW now, now = Joined(pages, page)
    PROVE  /\ now \in Seq(TagName) /\ Increasing(now)
           /\ page # <<>> =>
                 /\ now # <<>> /\ Last(now) = Last(page) /\ Last(page) \in TagName
                 /\ \A t \in common : t <= Last(page) => t \in Range(now)
           /\ page = <<>> => now = <<>> /\ (query.n # None => query.n = 0)
           /\ (query.n # None => ~(query.n < Len(FromLast(scanned, query.last))))
                 => common \subseteq Range(now)
<1>1. PICK p \in Nat :
              /\ Len(FromLast(scanned, query.last)) = Len(scanned) - p
              /\ page \in Seq(TagName) /\ Increasing(page)
              /\ Len(page) = IF query.n = None THEN Len(scanned) - p ELSE query.n
              /\ p + Len(page) <= Len(scanned)
              /\ \A i \in 1 .. Len(page) : page[i] = Sorted(scanned)[p + i]
              /\ query.last = None => p = 0 /\ pages = <<>>
              /\ query.last # None =>
                    /\ pages # <<>> /\ page # <<>> /\ page[1] = Last(pages)
                    /\ p + 1 <= Len(scanned) /\ Sorted(scanned)[p + 1] = query.last
    BY AnsweredPage
<1>2. /\ scanned \in Seq(TagName) /\ pages \in Seq(TagName) /\ Increasing(pages)
      /\ Distinct(scanned) /\ common \subseteq TagName
    BY DEF ListInv, ListTypeOK, PagesOK, ScanOK
<1>3. \/ pages = <<>>
      \/ pages # <<>> /\ page # <<>> /\ page[1] = Last(pages)
    BY <1>1
<1>4. /\ now \in Seq(TagName) /\ Increasing(now)
      /\ Range(now) = Range(pages) \cup Range(page)
      /\ page # <<>> => now # <<>> /\ Last(now) = Last(page)
    BY <1>1, <1>2, <1>3, JoinedFacts
<1>5. PICK s : s = Sorted(scanned)
    OBVIOUS
<1>6. s \in Seq(TagName) /\ Len(s) = Len(scanned) /\ Increasing(s) /\ Range(s) = Range(scanned)
    BY <1>2, <1>5, SortedFacts
<1>7. /\ Len(page) \in Nat /\ Len(s) \in Nat /\ DOMAIN s = 1 .. Len(s)
      /\ DOMAIN page = 1 .. Len(page)
    BY <1>1, <1>6
<1>8. common \subseteq Range(s)
    BY <1>6 DEF ListInv, ScanOK
<1>9. \A i \in DOMAIN s : s[i] \in Nat
    <2>1. \A i \in DOMAIN s : s[i] \in TagName
        BY <1>6
    <2> QED
        BY <2>1, TagNameAssumption
<1>10. ASSUME NEW k \in DOMAIN s, s[k] \in common, k <= p + Len(page) PROVE s[k] \in Range(now)
    <2>1. CASE k <= p
        <3>1. query.last # None
            BY <1>1, <1>7, <2>1
        <3>2. p + 1 \in DOMAIN s /\ k < p + 1 /\ s[p + 1] = query.last
            BY <1>1, <1>5, <1>6, <1>7, <2>1, <3>1
        <3>3. s[k] < s[p + 1]
            BY <1>6, <3>2 DEF Increasing
        <3>4. s[k] <= query.last
            BY <1>9, <3>2, <3>3
        <3>5. \A t \in common : t <= query.last => t \in Range(pages)
            BY <3>1 DEF ListInv, PagesOK, Busy
        <3> QED
            BY <1>4, <1>10, <3>4, <3>5
    <2>2. CASE k > p
        <3>1. k - p \in 1 .. Len(page) /\ p + (k - p) = k
            BY <1>7, <1>10, <2>2
        <3>2. page[k - p] = s[k]
            BY <1>1, <1>5, <3>1
        <3> QED
            BY <1>4, <1>7, <3>1, <3>2 DEF Range
    <2> QED
        BY <1>7, <2>1, <2>2
<1>11. ASSUME page # <<>>
       PROVE  /\ Last(page) \in TagName
              /\ \A t \in common : t <= Last(page) => t \in Range(now)
    <2>1. Len(page) >= 1 /\ Len(page) \in 1 .. Len(page)
        BY <1>1, <1>7, <1>11
    <2>2. Last(page) = s[p + Len(page)] /\ p + Len(page) \in DOMAIN s
        BY <1>1, <1>5, <1>6, <1>7, <2>1 DEF Last
    <2>3. Last(page) \in TagName
        BY <1>6, <2>2
    <2>4. ASSUME NEW t \in common, t <= Last(page) PROVE t \in Range(now)
        <3>1. PICK k \in DOMAIN s : s[k] = t
            BY <1>8 DEF Range
        <3>2. ~(p + Len(page) < k)
            <4>1. ASSUME p + Len(page) < k PROVE FALSE
                <5>1. s[p + Len(page)] < s[k]
                    BY <1>6, <2>2, <4>1 DEF Increasing
                <5> QED
                    BY <1>9, <2>2, <2>4, <3>1, <5>1
            <4> QED
                BY <4>1
        <3>3. k <= p + Len(page)
            BY <1>7, <3>2
        <3> QED
            BY <1>10, <3>1, <3>3
    <2> QED
        BY <2>3, <2>4
<1>12. ASSUME page = <<>> PROVE now = <<>> /\ (query.n # None => query.n = 0)
    <2>1. pages = <<>> /\ Len(page) = 0
        BY <1>1, <1>12
    <2>2. now = <<>>
        BY <1>12, <2>1 DEF Joined
    <2> QED
        BY <1>1, <2>1, <2>2
<1>13. ASSUME query.n # None => ~(query.n < Len(FromLast(scanned, query.last)))
       PROVE  common \subseteq Range(now)
    <2>1. query.n # None => query.n \in Nat
        BY TagNameAssumption DEF ListInv, ListTypeOK
    <2>2. p + Len(page) >= Len(s)
        BY <1>1, <1>6, <1>7, <1>13, <2>1
    <2>3. ASSUME NEW t \in common PROVE t \in Range(now)
        <3>1. PICK k \in DOMAIN s : s[k] = t
            BY <1>8 DEF Range
        <3>2. k <= p + Len(page)
            BY <1>7, <2>2
        <3> QED
            BY <1>10, <3>1, <3>2
    <2> QED
        BY <2>3
<1> QED
    BY <1>4, <1>11, <1>12, <1>13

\* When nothing is tagged, a scan has found exactly the common tags.
LEMMA StillScanned ==
    ASSUME ListInv, listing = "scanned", Still
    PROVE  /\ Range(scanned) = common
           /\ Cardinality(common) = Len(scanned)
<1>1. scanned \in Seq(TagName) /\ Distinct(scanned) /\ server \in Server
    BY DEF ListInv, ListTypeOK, ScanOK
<1>2. Range(scanned) = common
    BY <1>1 DEF ListInv, ScanOK, Still
<1>3. Cardinality(Range(scanned)) = Len(scanned)
    BY <1>1, DistinctCardinality
<1> QED
    BY <1>2, <1>3

\* The client then has exactly the common tags up to `last`, one more than the
\* p tags in front of the page.
LEMMA StillPlace ==
    ASSUME ListInv, listing = "scanned", Still, query.n \notin {None, 0, 1}, query.last # None,
           NEW p \in Nat, p + 1 <= Len(scanned), Sorted(scanned)[p + 1] = query.last
    PROVE  /\ FullPages(query.n, Len(pages)) /\ Len(pages) = p + 1
           /\ Range(pages) \subseteq common /\ Len(pages) < Cardinality(common)
<1>1. /\ Range(pages) = {t \in common : t <= query.last}
      /\ FullPages(query.n, Len(pages)) /\ Len(pages) < Cardinality(common)
    BY DEF ListInv, SteadyOK, Busy
<1>2. pages \in Seq(TagName) /\ Increasing(pages) /\ scanned \in Seq(TagName) /\ Distinct(scanned)
    BY DEF ListInv, ListTypeOK, PagesOK, ScanOK
<1>3. ASSUME NEW x \in Seq(TagName) PROVE x \in Seq(Nat)
    <2>1. x \in [1 .. Len(x) -> TagName] /\ Len(x) \in Nat
        OBVIOUS
    <2>2. x \in [1 .. Len(x) -> Nat]
        BY <2>1, TagNameAssumption
    <2> QED
        BY <2>1, <2>2
<1>4. Cardinality(Range(pages)) = Len(pages)
    BY <1>2, <1>3, IncreasingIsDistinct, DistinctCardinality
<1>5. PICK s : s = Sorted(scanned)
    OBVIOUS
<1>6. s \in Seq(Nat) /\ Len(s) = Len(scanned) /\ Increasing(s) /\ Range(s) = common
    BY <1>2, <1>3, <1>5, SortedFacts, StillScanned
<1>7. p + 1 \in 1 .. Len(s) /\ s[p + 1] = query.last
    BY <1>5, <1>6
<1>8. Cardinality({t \in Range(s) : t <= s[p + 1]}) = p + 1
    BY <1>6, <1>7, UpToPlace
<1> QED
    BY <1>1, <1>4, <1>6, <1>7, <1>8

\* The pages of a listing are full as long as it goes on.
LEMMA SteadyPage ==
    ASSUME ListInv, listing = "scanned", Still, query.n \notin {None, 0, 1},
           ~PagePanics(scanned, query),
           NEW page, page = PageOf(scanned, query.last, query.n),
           NEW now, now = Joined(pages, page)
    PROVE  /\ page # <<>> /\ Range(now) = {t \in common : t <= Last(page)}
           /\ FullPages(query.n, Len(now))
           /\ query.n < Len(FromLast(scanned, query.last)) => Len(now) < Cardinality(common)
           /\ ~(query.n < Len(FromLast(scanned, query.last))) => Len(now) = Cardinality(common)
<1>1. PICK p \in Nat :
              /\ Len(FromLast(scanned, query.last)) = Len(scanned) - p
              /\ page \in Seq(TagName) /\ Increasing(page)
              /\ Len(page) = IF query.n = None THEN Len(scanned) - p ELSE query.n
              /\ p + Len(page) <= Len(scanned)
              /\ \A i \in 1 .. Len(page) : page[i] = Sorted(scanned)[p + i]
              /\ query.last = None => p = 0 /\ pages = <<>>
              /\ query.last # None =>
                    /\ pages # <<>> /\ page # <<>> /\ page[1] = Last(pages)
                    /\ p + 1 <= Len(scanned) /\ Sorted(scanned)[p + 1] = query.last
    BY AnsweredPage
<1>2. PICK n \in Nat : n = query.n
    BY TagNameAssumption DEF ListInv, ListTypeOK
<1>3. n >= 2 /\ Len(page) = n /\ page # <<>>
    BY <1>1, <1>2
<1>4. /\ pages \in Seq(TagName) /\ Increasing(pages)
      /\ scanned \in Seq(TagName) /\ Distinct(scanned) /\ Len(scanned) \in Nat
    BY DEF ListInv, ListTypeOK, PagesOK, ScanOK
<1>5. \/ pages = <<>>
      \/ pages # <<>> /\ page # <<>> /\ page[1] = Last(pages)
    BY <1>1
<1>6. /\ now \in Seq(TagName) /\ Increasing(now)
      /\ Range(now) = Range(pages) \cup Range(page)
      /\ Len(now) = IF pages = <<>> THEN Len(page) ELSE Len(pages) + Len(page) - 1
      /\ now # <<>> /\ Last(now) = Last(page)
    BY <1>1, <1>3, <1>4, <1>5, JoinedFacts
<1>7. /\ \A t \in common : t <= Last(page) => t \in Range(now)
      /\ Last(page) \in TagName
    BY <1>3, AfterPage
<1>8. PICK s : s = Sorted(scanned)
    OBVIOUS
<1>9. Range(scanned) = common /\ Cardinality(common) = Len(scanned)
    BY StillScanned
<1>10. s \in Seq(TagName) /\ Len(s) = Len(scanned) /\ Range(s) = common
    BY <1>4, <1>8, <1>9, SortedFacts
<1>11. Range(page) \subseteq common
    <2>1. ASSUME NEW i \in 1 .. Len(page) PROVE page[i] \in common
        <3>1. page[i] = s[p + i]
            BY <1>1, <1>8
        <3>2. Len(page) \in Nat /\ p + Len(page) <= Len(s) /\ Len(s) \in Nat
            BY <1>1, <1>2, <1>3, <1>4, <1>10
        <3>3. p + i \in 1 .. Len(s)
            BY <3>2
        <3>4. DOMAIN s = 1 .. Len(s)
            BY <1>10
        <3> QED
            BY <1>10, <3>1, <3>3, <3>4 DEF Range
    <2>2. DOMAIN page = 1 .. Len(page)
        BY <1>1
    <2> QED
        BY <2>1, <2>2 DEF Range
<1>12. /\ query.last # None => FullPages(n, Len(pages)) /\ Len(pages) = p + 1
       /\ Range(pages) \subseteq common
    <2>1. CASE query.last = None
        BY <1>1, <2>1 DEF Range
    <2>2. CASE query.last # None
        BY <1>1, <1>2, <2>2, StillPlace
    <2> QED
        BY <2>1, <2>2
<1>13. Len(now) = p + n /\ FullPages(n, Len(now))
    <2>1. CASE query.last = None
        <3>1. p = 0 /\ Len(now) = n
            BY <1>1, <1>3, <1>6, <2>1
        <3>2. n = n + 0 * (n - 1)
            OBVIOUS
        <3> QED
            BY <3>1, <3>2 DEF FullPages
    <2>2. CASE query.last # None
        <3>1. Len(now) = (p + 1) + n - 1
            BY <1>1, <1>3, <1>6, <1>12, <2>2
        <3>2. PICK i \in Nat : p + 1 = n + i * (n - 1)
            BY <1>12, <2>2 DEF FullPages
        <3>3. (i + 1) * (n - 1) = i * (n - 1) + (n - 1)
            OBVIOUS
        <3>4. i * (n - 1) \in Int
            OBVIOUS
        <3>5. Len(now) = n + (i + 1) * (n - 1)
            BY <3>1, <3>2, <3>3, <3>4
        <3>6. Len(now) = p + n
            BY <3>1
        <3>7. i + 1 \in Nat
            OBVIOUS
        <3>8. FullPages(n, Len(now))
            BY <3>5, <3>7 DEF FullPages
        <3> QED
            BY <3>6, <3>8
    <2> QED
        BY <2>1, <2>2
<1>14. Range(now) = {t \in common : t <= Last(page)}
    <2>1. ASSUME NEW t \in Range(now) PROVE t <= Last(page)
        <3>1. PICK i \in DOMAIN now : now[i] = t
            BY DEF Range
        <3>2. Len(now) \in DOMAIN now /\ now[Len(now)] = Last(page) /\ i \in Nat /\ i <= Len(now)
            BY <1>6 DEF Last
        <3>3. now[i] \in Nat /\ now[Len(now)] \in Nat
            <4>1. now[i] \in TagName /\ now[Len(now)] \in TagName
                BY <1>6, <3>1, <3>2
            <4> QED
                BY <4>1, TagNameAssumption
        <3>4. i = Len(now) \/ i < Len(now)
            BY <1>2, <1>13, <3>2
        <3>5. i < Len(now) => now[i] < now[Len(now)]
            BY <1>6, <3>2 DEF Increasing
        <3> QED
            BY <3>1, <3>2, <3>3, <3>4, <3>5
    <2>2. Range(now) \subseteq common
        BY <1>6, <1>11, <1>12
    <2> QED
        BY <1>7, <2>1, <2>2
<1>15. n < Len(scanned) - p <=> Len(now) < Len(scanned)
    BY <1>4, <1>13
<1>16. Len(now) <= Len(scanned)
    BY <1>1, <1>2, <1>3, <1>13
<1>17. ~(n < Len(scanned) - p) => Len(now) = Len(scanned)
    BY <1>4, <1>13, <1>16
<1> QED
    BY <1>1, <1>2, <1>3, <1>9, <1>13, <1>14, <1>15, <1>17

\* And a listing that panics has a last page that is not full.
LEMMA SteadyPanic ==
    ASSUME ListInv, listing = "scanned", Still, query.n \notin {None, 0, 1},
           PagePanics(scanned, query)
    PROVE  /\ Cardinality(common) \in Nat
           /\ \/ Cardinality(common) < query.n
              \/ \E m \in Nat : /\ FullPages(query.n, m)
                                /\ m < Cardinality(common)
                                /\ Cardinality(common) < m + (query.n - 1)
<1>1. /\ scanned \in Seq(TagName) /\ Distinct(scanned) /\ Len(scanned) \in Nat
      /\ pages \in Seq(TagName) /\ query.last \in TagName \cup {None}
    BY DEF ListInv, ListTypeOK, ScanOK
<1>2. Range(scanned) = common /\ Cardinality(common) = Len(scanned)
    BY StillScanned
<1>3. PICK n \in Nat : n = query.n
    BY TagNameAssumption DEF ListInv, ListTypeOK
<1>4. query.last = None \/ query.last \in Range(scanned)
    <2>1. CASE query.last # None
        <3>1. pages # <<>> /\ Last(pages) = query.last
            BY <2>1 DEF ListInv, PagesOK, Busy
        <3>2. Last(pages) \in Range(pages)
            BY <1>1, <3>1 DEF Last, Range
        <3>3. Range(pages) \subseteq common
            BY <2>1 DEF ListInv, SteadyOK, Busy
        <3> QED
            BY <1>2, <3>1, <3>2, <3>3
    <2> QED
        BY <2>1
<1>5. PICK tags : tags = scanned
    OBVIOUS
<1>6. PICK l : l = query.last
    OBVIOUS
<1>7. tags \in Seq(TagName) /\ Distinct(tags) /\ l \in TagName \cup {None} /\ (l = None \/ l \in Range(tags))
    BY <1>1, <1>4, <1>5, <1>6
<1>8. PICK p \in Nat :
              /\ p <= Len(tags)
              /\ FromLast(tags, l) \in Seq(TagName)
              /\ Len(FromLast(tags, l)) = Len(tags) - p
              /\ \A i \in 1 .. Len(tags) - p : FromLast(tags, l)[i] = Sorted(tags)[p + i]
              /\ l = None => p = 0
              /\ l # None => p + 1 <= Len(tags) /\ Sorted(tags)[p + 1] = l
    BY <1>7, FromLastFacts
<1>9. n > Len(scanned) - p
    BY <1>3, <1>4, <1>5, <1>6, <1>8 DEF PagePanics
<1>10. CASE l = None
    BY <1>1, <1>2, <1>3, <1>8, <1>9, <1>10
<1>11. CASE l # None
    <2>1. p + 1 <= Len(scanned) /\ Sorted(scanned)[p + 1] = query.last /\ query.last # None
        BY <1>5, <1>6, <1>8, <1>11
    <2>2. FullPages(query.n, Len(pages)) /\ Len(pages) = p + 1 /\ Len(pages) < Cardinality(common)
        BY <2>1, StillPlace
    <2>3. Len(scanned) < (p + 1) + (n - 1)
        BY <1>1, <1>9
    <2> QED
        BY <1>1, <1>2, <1>3, <2>2, <2>3
<1> QED
    BY <1>10, <1>11

LEMMA AnswerPageStep ==
    ASSUME ListInv, AnswerPage
    PROVE  ListInv'
<1>1. PICK page : page = PageOf(scanned, query.last, query.n)
    OBVIOUS
<1>2. PICK more \in BOOLEAN : more = (query.n # None /\ query.n < Len(FromLast(scanned, query.last)))
    OBVIOUS
<1>3. /\ listing = "scanned" /\ scanned' = <<>> /\ cursor' = 1
      /\ UNCHANGED <<tagLog, appliedTags, server, common>>
    BY DEF AnswerPage
<1>4. CASE PagePanics(scanned, query)
    <2>1. listing' = "panicked" /\ query' = query /\ pages' = pages
        BY <1>4 DEF AnswerPage
    <2>2. ListTypeOK'
        BY <1>3, <2>1, KeyOrderFacts DEF ListInv, ListTypeOK, Ended
    <2>3. CommonOK'
        BY <1>3, SameTags DEF ListInv, CommonOK
    <2>4. ScanOK'
        BY <2>1 DEF ScanOK
    <2>5. PagesOK'
        BY <2>1 DEF ListInv, PagesOK, Busy
    <2>6. Still' <=> Still
        BY <1>3, SameTags DEF Still
    <2>7. ASSUME Still, query.n \notin {None, 0, 1}
          PROVE  /\ Cardinality(common) \in Nat
                 /\ \/ Cardinality(common) < query.n
                    \/ \E m \in Nat : /\ FullPages(query.n, m)
                                      /\ m < Cardinality(common)
                                      /\ Cardinality(common) < m + (query.n - 1)
        BY <1>3, <1>4, <2>7, SteadyPanic
    <2>8. SteadyOK'
        BY <1>3, <2>1, <2>6, <2>7 DEF SteadyOK, Busy, FullPages
    <2> QED
        BY <2>2, <2>3, <2>4, <2>5, <2>8 DEF ListInv
<1>5. CASE ~PagePanics(scanned, query)
    <2>1. PICK now : now = Joined(pages, page)
        OBVIOUS
    <2>2. /\ pages' = now
          /\ more => query' = LinkOf(page, query) /\ listing' = "asking"
          /\ ~more => query' = query /\ listing' = "done"
        BY <1>1, <1>2, <1>5, <2>1 DEF AnswerPage, PageOf
    <2>3. /\ now \in Seq(TagName) /\ Increasing(now)
          /\ page # <<>> =>
                /\ now # <<>> /\ Last(now) = Last(page) /\ Last(page) \in TagName
                /\ \A t \in common : t <= Last(page) => t \in Range(now)
          /\ page = <<>> => now = <<>> /\ (query.n # None => query.n = 0)
          /\ (query.n # None => ~(query.n < Len(FromLast(scanned, query.last))))
                => common \subseteq Range(now)
        BY <1>1, <1>3, <1>5, <2>1, AfterPage
    <2>4. ~more => common \subseteq Range(now)
        BY <1>2, <2>3
    <2>5. /\ query'.n = query.n
          /\ more => query'.last = IF page = <<>> THEN None ELSE Last(page)
        <3>1. CASE more
            BY <2>2, <3>1 DEF LinkOf
        <3>2. CASE ~more
            BY <2>2, <3>2
        <3> QED
            BY <3>1, <3>2
    <2>6. ListTypeOK'
        <3>1. query \in [last : TagName \cup {None}, n : PageSize \cup {None}]
            BY DEF ListInv, ListTypeOK
        <3>2. query' \in [last : TagName \cup {None}, n : PageSize \cup {None}]
            <4>1. CASE more
                BY <2>2, <2>3, <3>1, <4>1 DEF LinkOf
            <4>2. CASE ~more
                BY <2>2, <3>1, <4>2
            <4> QED
                BY <4>1, <4>2
        <3>3. listing' \in {"asking", "done"}
            BY <2>2
        <3> QED
            BY <1>3, <2>2, <2>3, <3>2, <3>3, KeyOrderFacts DEF ListInv, ListTypeOK, Ended
    <2>7. CommonOK'
        BY <1>3, SameTags DEF ListInv, CommonOK
    <2>8. ScanOK'
        BY <2>2 DEF ScanOK
    <2>9. PagesOK'
        <3>1. CASE more
            <4>1. listing' = "asking" /\ query.n # None /\ Increasing(pages')
                BY <1>2, <2>2, <2>3, <3>1
            <4>2. CASE page = <<>>
                BY <2>2, <2>3, <2>5, <3>1, <4>1, <4>2 DEF PagesOK
            <4>3. CASE page # <<>>
                <5>1. Last(page) # None
                    BY <2>3, <4>3, NoneAssumption
                <5>2. query.n # 0
                    <6>1. PICK n \in Nat : n = query.n
                        BY <4>1, TagNameAssumption DEF ListInv, ListTypeOK
                    <6>2. PICK p \in Nat :
                              /\ page \in Seq(TagName)
                              /\ Len(page) = IF query.n = None THEN Len(scanned) - p ELSE query.n
                        BY <1>1, <1>3, <1>5, AnsweredPage
                    <6> QED
                        BY <4>1, <4>3, <6>1, <6>2
                <5>3. /\ query'.last = Last(page) /\ query'.n \notin {None, 0}
                      /\ pages' # <<>> /\ Last(pages') = Last(page)
                      /\ \A t \in common' : t <= Last(page) => t \in Range(pages')
                    BY <1>3, <2>2, <2>3, <2>5, <3>1, <4>1, <4>3, <5>2
                <5> QED
                    BY <4>1, <5>1, <5>3 DEF PagesOK
            <4> QED
                BY <4>2, <4>3
        <3>2. CASE ~more
            BY <1>3, <2>2, <2>3, <2>4, <3>2 DEF PagesOK, Busy
        <3> QED
            BY <3>1, <3>2
    <2>10. SteadyOK'
        <3>1. Still' <=> Still
            BY <1>3, SameTags DEF Still
        <3>2. CASE ~(Still /\ query.n \notin {None, 0, 1})
            BY <2>5, <3>1, <3>2 DEF SteadyOK
        <3>3. CASE Still /\ query.n \notin {None, 0, 1}
            <4>1. /\ page # <<>> /\ Range(now) = {t \in common : t <= Last(page)}
                  /\ FullPages(query.n, Len(now))
                  /\ query.n < Len(FromLast(scanned, query.last)) => Len(now) < Cardinality(common)
                  /\ ~(query.n < Len(FromLast(scanned, query.last))) => Len(now) = Cardinality(common)
                BY <1>1, <1>3, <1>5, <2>1, <3>3, SteadyPage
            <4>2. CASE more
                <5>1. /\ listing' = "asking" /\ query'.last = Last(page)
                      /\ Len(now) < Cardinality(common)
                    BY <1>2, <2>2, <2>5, <4>1, <4>2
                <5> QED
                    BY <1>3, <2>2, <2>5, <4>1, <5>1 DEF SteadyOK, FullPages
            <4>3. CASE ~more
                <5>1. listing' = "done" /\ Len(now) = Cardinality(common)
                    BY <1>2, <2>2, <3>3, <4>1, <4>3
                <5> QED
                    BY <1>3, <2>5, <4>1, <5>1 DEF SteadyOK, Busy, FullPages
            <4> QED
                BY <4>2, <4>3
        <3> QED
            BY <3>2, <3>3
    <2> QED
        BY <2>6, <2>7, <2>8, <2>9, <2>10 DEF ListInv
<1> QED
    BY <1>4, <1>5

LEMMA ListInit ==
    ASSUME ListIdle
    PROVE  ListInv
<1>1. ListTypeOK
    <2>1. tagLog = <<>> /\ appliedTags = [s \in Server |-> 0]
        BY DEF ListIdle
    <2>2. tagLog \in Seq(TagKeys) /\ Len(tagLog) = 0
        BY <2>1
    <2>3. appliedTags \in [Server -> 0 .. Len(tagLog)]
        BY <2>1, <2>2
    <2>4. scanned \in Seq(TagName) /\ pages \in Seq(TagName)
        BY DEF ListIdle
    <2> QED
        BY <2>2, <2>3, <2>4, KeyOrderFacts DEF ListIdle, ListTypeOK
<1>2. CommonOK /\ ScanOK /\ SteadyOK
    BY DEF ListIdle, CommonOK, ScanOK, SteadyOK, Busy
<1>3. PagesOK
    BY DEF ListIdle, PagesOK, Busy, Increasing
<1> QED
    BY <1>1, <1>2, <1>3 DEF ListInv

-----------------------------------------------------------------------------
\* The invariant of a listing, for every number of nodes, tags and page sizes:
\* what the client has, what the scan of get_tags has found so far, and how full
\* the pages of `tags[..n]` are.
THEOREM ListingIsInductive == ListSpec => []ListInv
<1>1. ASSUME ListInv, [ListNext]_listVars PROVE ListInv'
    <2>1. CASE \E k \in TagKeys : CommitTag(k)
        BY <1>1, <2>1, CommitTagStep
    <2>2. CASE \E s \in Server : ApplyTag(s)
        BY <1>1, <2>2, ApplyTagStep
    <2>3. CASE \E n \in PageSize \cup {None} : StartListing(n)
        BY <1>1, <2>3, StartListingStep
    <2>4. CASE RefuseListing
        BY <1>1, <2>4, RefuseListingStep
    <2>5. CASE \E s \in Server : BeginScan(s)
        BY <1>1, <2>5, BeginScanStep
    <2>6. CASE ScanRow
        BY <1>1, <2>6, ScanRowStep
    <2>7. CASE AnswerPage
        BY <1>1, <2>7, AnswerPageStep
    <2>8. CASE UNCHANGED listVars
        <3>1. UNCHANGED <<tagLog, appliedTags, listing, query, server, cursor, scanned, pages, common>>
            BY <2>8 DEF listVars
        <3>2. ListTypeOK'
            BY <1>1, <3>1 DEF ListInv, ListTypeOK
        <3>3. \A s \in Server : TagsOf(s) \subseteq TagsOf(s)'
            BY <3>1, SameTags
        <3> QED
            BY <1>1, <3>1, <3>2, <3>3, GrownTags DEF clientVars
    <2> QED
        BY <1>1, <2>1, <2>2, <2>3, <2>4, <2>5, <2>6, <2>7, <2>8 DEF ListNext, RequestStep
<1> QED
    BY <1>1, ListInit, PTL DEF ListSpec

\* The variables of the handler, of the scan and of the client keep their types;
\* a scan of get_tags never leaves the tree.
THEOREM ListTypeCorrect == ListSpec => []ListTypeOK
<1>1. ListInv => ListTypeOK
    BY DEF ListInv
<1> QED
    BY <1>1, ListingIsInductive, PTL

\* A client that follows the Link of every page of GET tags/list to the last one
\* has every tag that was on all nodes when it began, in order and none twice,
\* though the scan takes no lock, each page may come from another node, and tags
\* are written meanwhile.
THEOREM ListingsAreComplete == ListSpec => []ListingIsComplete
<1>1. ListInv => ListingIsComplete
    BY DEF ListInv, PagesOK, ListingIsComplete, Increasing
<1> QED
    BY <1>1, ListingIsInductive, PTL

\* With nothing written meanwhile, `tags[..n]` panics on the last page of a listing
\* by pages of n >= 2 tags exactly if the tags do not fill it: for every n and
\* every number of tags.
THEOREM LastPagesAreFull == ListSpec => []LastPageIsFull
<1>1. ASSUME ListInv, listing \in {"done", "panicked"}, query.n \notin {None, 0, 1}, Still
      PROVE  LET t == Cardinality(common)
             IN  listing = "done" <=> t >= query.n /\ (t - query.n) % (query.n - 1) = 0
    <2>1. PICK n \in Nat : n = query.n
        BY <1>1, TagNameAssumption DEF ListInv, ListTypeOK
    <2>2. n - 1 \in Nat /\ n - 1 >= 1
        BY <1>1, <2>1
    <2>3. CASE listing = "done"
        <3>1. PICK i \in Nat : Cardinality(common) = n + i * (n - 1)
            BY <1>1, <2>1, <2>3 DEF ListInv, SteadyOK, FullPages
        <3>2. (i * (n - 1) + 0) % (n - 1) = 0
            BY <2>2, Remainder
        <3>3. PICK x \in Nat : x = i * (n - 1)
            BY <2>2
        <3>4. Cardinality(common) >= n /\ Cardinality(common) - n = x /\ x + 0 = x
            BY <3>1, <3>3
        <3> QED
            BY <2>1, <2>3, <3>2, <3>3, <3>4
    <2>4. CASE listing = "panicked" /\ Cardinality(common) \in Nat /\ Cardinality(common) < n
        BY <2>1, <2>4
    <2>5. CASE /\ listing = "panicked"
               /\ Cardinality(common) \in Nat
               /\ \E m \in Nat : /\ FullPages(n, m)
                                 /\ m < Cardinality(common)
                                 /\ Cardinality(common) < m + (n - 1)
        <3>1. PICK t \in Nat : t = Cardinality(common)
            BY <2>5
        <3>2. PICK m \in Nat : FullPages(n, m) /\ m < t /\ t < m + (n - 1)
            BY <2>5, <3>1
        <3>3. PICK i \in Nat : m = n + i * (n - 1)
            BY <3>2 DEF FullPages
        <3>4. PICK r \in Nat : r = t - m
            BY <3>2
        <3>5. 0 < r /\ r < n - 1
            BY <3>2, <3>4
        <3>6. (i * (n - 1) + r) % (n - 1) = r
            BY <2>2, <3>5, Remainder
        <3>7. PICK x \in Nat : x = i * (n - 1)
            BY <2>2
        <3>8. t - n = x + r
            BY <3>3, <3>4, <3>7
        <3>9. (t - n) % (n - 1) # 0
            BY <3>5, <3>6, <3>7, <3>8
        <3> QED
            BY <2>1, <2>5, <3>1, <3>9
    <2> QED
        BY <1>1, <2>1, <2>3, <2>4, <2>5 DEF ListInv, SteadyOK
<1>2. ListInv => LastPageIsFull
    BY <1>1 DEF LastPageIsFull, Still
<1> QED
    BY <1>2, ListingIsInductive, PTL

\* The Link of a page of two tags or more names a later tag than the request did,
\* for any nodes, tags and page size: this is why following the links ends.
THEOREM LinksForward == ListSpec => LinksGoForward
<1>1. ASSUME ListInv, AnswerPage, listing' = "asking", query.n \notin {0, 1}, query.last # None
      PROVE  query'.last > query.last
    <2>1. PICK page : page = PageOf(scanned, query.last, query.n)
        OBVIOUS
    <2>2. listing = "scanned" /\ ~PagePanics(scanned, query)
        BY <1>1 DEF AnswerPage
    <2>3. query.n # None /\ query' = LinkOf(page, query)
        BY <1>1, <2>1, <2>2 DEF AnswerPage, PageOf
    <2>4. PICK p \in Nat :
              /\ page \in Seq(TagName) /\ Increasing(page)
              /\ Len(page) = IF query.n = None THEN Len(scanned) - p ELSE query.n
              /\ query.last # None => pages # <<>> /\ page # <<>> /\ page[1] = Last(pages)
        BY <1>1, <2>1, <2>2, AnsweredPage
    <2>5. Last(pages) = query.last
        BY <1>1, <2>2 DEF ListInv, PagesOK, Busy
    <2>6. Len(page) \in Nat /\ Len(page) >= 2
        BY <1>1, <2>3, <2>4
    <2>7. 1 \in DOMAIN page /\ Len(page) \in DOMAIN page /\ 1 < Len(page)
        BY <2>4, <2>6
    <2>8. page[1] < page[Len(page)]
        BY <2>4, <2>7 DEF Increasing
    <2>9. page # <<>> /\ page[1] \in Nat /\ page[Len(page)] \in Nat
        <3>1. page[1] \in TagName /\ page[Len(page)] \in TagName
            BY <2>4, <2>7
        <3> QED
            BY <1>1, <2>4, <3>1, TagNameAssumption
    <2>10. query'.last = page[Len(page)]
        BY <2>3, <2>9 DEF LinkOf, Last
    <2> QED
        BY <1>1, <2>4, <2>5, <2>8, <2>9, <2>10
<1>2. ASSUME [ListNext]_listVars, listing = "scanned", listing' = "asking" PROVE AnswerPage
    BY <1>2 DEF ListNext, RequestStep, CommitTag, ApplyTag, StartListing, RefuseListing, BeginScan,
       ScanRow, listVars
<1>3. ListInv /\ [ListNext]_listVars
         => [listing = "scanned" /\ listing' = "asking" /\ query.n \notin {0, 1}
                => query.last = None \/ query'.last > query.last]_listVars
    BY <1>1, <1>2
<1> QED
    BY <1>3, ListingIsInductive, PTL DEF ListSpec, LinksGoForward

=============================================================================
