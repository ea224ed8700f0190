----------------------------- MODULE OrphanSearch -----------------------------
(***************************************************************************)
(* get_orphaned_blobs and get_orphaned_manifests (src/store/mod.rs), which *)
(* the garbage collector calls while the state machine goes on applying.   *)
(*                                                                         *)
(* A search reads its trees one after the other and each of them row by    *)
(* row, without a lock.  The order of the rows is that of their digests,   *)
(* which has nothing to do with what refers to what: any order will do.    *)
(***************************************************************************)
EXTENDS Naturals, FiniteSets, Functions

CONSTANTS
    Blob,           \* digests of blobs
    Image,          \* digests of manifests
    Label,          \* keys of the tree `tags`
    Contents,       \* what the objects may name: functions from digests
    Missing,        \* no row, no tag
    MaxChanges      \* bound on the entries applied during a search

Object == Blob \cup Image

ASSUME ContentsAssumption == Contents \subseteq [Object -> SUBSET Blob]
ASSUME DigestAssumption == Blob \cap Image = {} /\ Missing \notin Image
ASSUME FiniteAssumption == IsFiniteSet(Blob) /\ Label # {} /\ MaxChanges \in Nat
ASSUME MissingAssumption == Missing \notin {"bare", "full"}

VARIABLES
    content,        \* what each object names; a digest fixes it
    blobRow,        \* the tree `blobs`: "bare" rows have no dependencies
    imageRow,       \* the tree `manifests`: the digests that have a row
    label,          \* the tree `tags`
    changes,        \* how many entries have been applied during the search
    search,         \* what the search is doing
    unread,         \* the rows of the tree being read that are still to come
    found,          \* rows read: `blobs`, or `manifests`
    visiting,       \* the local variables of the same names
    visited,
    result,         \* what the search has returned
    atStart,        \* ghost: what was reachable when the search began
    lost,           \* ghost: a row has been deleted, or its dependencies, since
    steady          \* ghost: the tags that have not been moved since

treeVars == <<content, blobRow, imageRow, label>>
ghostVars == <<changes, atStart, lost, steady>>
searchVars == <<treeVars, ghostVars, search, unread, found, visiting, visited, result>>

RowOf == {"bare", "full", Missing}

SearchTypeOK ==
    /\ content \in Contents
    /\ blobRow \in [Blob -> RowOf]
    /\ imageRow \subseteq Image
    /\ label \in [Label -> Image \cup {Missing}]
    /\ changes \in 0 .. MaxChanges
    /\ search \in {"idle", "blobs", "roots", "visit", "images", "tags", "end"}
    /\ unread \subseteq Object \cup Label
    /\ found \in [Blob -> RowOf]
    /\ {visiting, visited} \subseteq SUBSET Object
    /\ {result, atStart} \subseteq SUBSET Object
    /\ lost \in BOOLEAN
    /\ steady \subseteq Label

\* What a set of objects leads to through rows that have their dependencies.
\* Paths in a content graph are no longer than there are blobs.
Step(S, rows) == S \cup UNION {content[b] : b \in {c \in S \cap Blob : rows[c] = "full"}}

ReachableFrom(S, rows) ==
    LET reach[n \in 0 .. Cardinality(Blob)] == IF n = 0 THEN S ELSE Step(reach[n - 1], rows)
    IN  reach[Cardinality(Blob)]

Named(images) == UNION {content[m] : m \in images}

Reachable == ReachableFrom(Named(imageRow), blobRow)

\* Any trees: a manifest stays when a row it leads to is deleted, a tag when
\* its manifest is, and a row whose type has no schema is never analysed.
SearchIdle ==
    /\ content \in Contents
    /\ blobRow \in [Blob -> RowOf]
    /\ imageRow \in SUBSET Image
    /\ label \in [Label -> Image \cup {Missing}]
    /\ changes = 0
    /\ search = "idle"
    /\ unread = {}
    /\ found = [b \in Blob |-> Missing]
    /\ visiting = {}
    /\ visited = {}
    /\ result = {}
    /\ atStart = {}
    /\ lost = FALSE
    /\ steady = {}

-----------------------------------------------------------------------------
(***************************************************************************)
(* What other requests commit while the search runs.                       *)
(***************************************************************************)
Running == search \notin {"idle", "end"} /\ changes < MaxChanges

Others == <<content, search, unread, found, visiting, visited, result, atStart>>

\* BlobMounted and BlobStored of an upload.
AddBlob(b) ==
    /\ Running
    /\ blobRow[b] = Missing
    /\ blobRow' = [blobRow EXCEPT ![b] = "bare"]
    /\ changes' = changes + 1
    /\ UNCHANGED <<imageRow, label, lost, steady, Others>>

\* A manifest with what extract has found out about the blobs below it, and
\* its tag, which may have named another manifest.  extract goes on below the
\* `analysed` blobs, records the `typed` ones, whose type has no schema, as
\* having no dependencies, and skips others; the rows it has looked at may be
\* gone by now, or analysed by a push that named them with another type.
AddImage(m, l, analysed, typed) ==
    /\ Running
    /\ analysed \cap typed = {}
    /\ analysed \cup typed \subseteq
          ReachableFrom(content[m], [b \in Blob |-> IF b \in analysed THEN "full" ELSE "bare"])
    /\ blobRow' = [b \in Blob |->
          IF blobRow[b] = Missing THEN Missing
          ELSE IF b \in analysed THEN "full"
          ELSE IF b \in typed THEN "bare" ELSE blobRow[b]]
    /\ imageRow' = imageRow \cup {m}
    /\ label' = [label EXCEPT ![l] = m]
    /\ steady' = IF label[l] = m THEN steady ELSE steady \ {l}
    /\ lost' = (lost \/ \E b \in typed : blobRow[b] = "full")
    /\ changes' = changes + 1
    /\ UNCHANGED Others

\* The last location of a row is unstored.
DropBlob(b) ==
    /\ Running
    /\ blobRow[b] # Missing
    /\ blobRow' = [blobRow EXCEPT ![b] = Missing]
    /\ lost' = TRUE
    /\ changes' = changes + 1
    /\ UNCHANGED <<imageRow, label, steady, Others>>

DropImage(m) ==
    /\ Running
    /\ m \in imageRow
    /\ imageRow' = imageRow \ {m}
    /\ lost' = TRUE
    /\ changes' = changes + 1
    /\ UNCHANGED <<blobRow, label, steady, Others>>

-----------------------------------------------------------------------------
(***************************************************************************)
(* get_orphaned_blobs.                                                     *)
(***************************************************************************)
FindBlobs ==
    /\ search = "idle"
    /\ search' = "blobs"
    /\ unread' = Blob
    /\ atStart' = Reachable
    /\ UNCHANGED <<treeVars, changes, lost, steady, found, visiting, visited, result>>

\* One row of get_blobs.
ReadBlob(b) ==
    /\ search = "blobs"
    /\ b \in unread
    /\ unread' = unread \ {b}
    /\ found' = [found EXCEPT ![b] = blobRow[b]]
    /\ UNCHANGED <<treeVars, ghostVars, search, visiting, visited, result>>

BlobsRead ==
    /\ search = "blobs"
    /\ unread = {}
    /\ search' = "roots"
    /\ unread' = Image
    /\ UNCHANGED <<treeVars, ghostVars, found, visiting, visited, result>>

\* One row of get_manifests; the blobs it names are to be visited.
ReadRoot(m) ==
    /\ search = "roots"
    /\ m \in unread
    /\ unread' = unread \ {m}
    /\ visiting' = IF m \in imageRow THEN visiting \cup content[m] ELSE visiting
    /\ UNCHANGED <<treeVars, ghostVars, search, found, visited, result>>

RootsRead ==
    /\ search = "roots"
    /\ unread = {}
    /\ search' = "visit"
    /\ UNCHANGED <<treeVars, ghostVars, unread, found, visiting, visited, result>>

\* Mutant of Visit: the dependencies of a blob are not followed.
VisitOnly(b) ==
    /\ search = "visit"
    /\ b \in visiting
    /\ visiting' = visiting \ {b}
    /\ visited' = visited \cup {b}
    /\ UNCHANGED <<treeVars, ghostVars, search, unread, found, result>>

\* One turn of the loop, in the order of a hash set.
Visit(b) ==
    /\ search = "visit"
    /\ b \in visiting
    /\ LET more == IF found[b] = "full" THEN content[b] \ visited ELSE {}
       IN  visiting' = (visiting \cup more) \ {b}
    /\ visited' = visited \cup {b}
    /\ UNCHANGED <<treeVars, ghostVars, search, unread, found, result>>

ReturnBlobs ==
    /\ search = "visit"
    /\ visiting = {}
    /\ result' = {b \in Blob : found[b] # Missing} \ visited
    /\ search' = "end"
    /\ UNCHANGED <<treeVars, ghostVars, unread, found, visiting, visited>>

-----------------------------------------------------------------------------
(***************************************************************************)
(* get_orphaned_manifests.  `visiting` holds the manifests, `visited` the  *)
(* digests that have a tag.                                                *)
(***************************************************************************)
FindImages ==
    /\ search = "idle"
    /\ search' = "images"
    /\ unread' = Image
    /\ steady' = Label
    /\ UNCHANGED <<treeVars, changes, atStart, lost, found, visiting, visited, result>>

ReadImage(m) ==
    /\ search = "images"
    /\ m \in unread
    /\ unread' = unread \ {m}
    /\ visiting' = IF m \in imageRow THEN visiting \cup {m} ELSE visiting
    /\ UNCHANGED <<treeVars, ghostVars, search, found, visited, result>>

ImagesRead ==
    /\ search = "images"
    /\ unread = {}
    /\ search' = "tags"
    /\ unread' = Label
    /\ UNCHANGED <<treeVars, ghostVars, found, visiting, visited, result>>

\* Mutant of ReadTag: one tag stands for all that name the same manifest.
ReadTagOnce(l) ==
    /\ search = "tags"
    /\ l \in unread
    /\ unread' = {}
    /\ visited' = visited \cup ({label[l]} \ {Missing})
    /\ UNCHANGED <<treeVars, ghostVars, search, found, visiting, result>>

\* One row of get_all_tags.
ReadTag(l) ==
    /\ search = "tags"
    /\ l \in unread
    /\ unread' = unread \ {l}
    /\ visited' = visited \cup ({label[l]} \ {Missing})
    /\ UNCHANGED <<treeVars, ghostVars, search, found, visiting, result>>

ReturnImages ==
    /\ search = "tags"
    /\ unread = {}
    /\ result' = visiting \ visited
    /\ search' = "end"
    /\ UNCHANGED <<treeVars, ghostVars, unread, found, visiting, visited>>

-----------------------------------------------------------------------------
SearchNext ==
    \/ \E b \in Blob : AddBlob(b) \/ DropBlob(b) \/ ReadBlob(b) \/ Visit(b)
    \/ \E m \in Image : DropImage(m) \/ ReadRoot(m) \/ ReadImage(m)
    \/ \E m \in Image, l \in Label, analysed, typed \in SUBSET Blob :
          AddImage(m, l, analysed, typed)
    \/ \E l \in Label : ReadTag(l)
    \/ FindBlobs
    \/ FindImages
    \/ BlobsRead
    \/ RootsRead
    \/ ReturnBlobs
    \/ ImagesRead
    \/ ReturnImages

SearchSpec == SearchIdle /\ [][SearchNext]_searchVars

-----------------------------------------------------------------------------
(***************************************************************************)
(* Properties.                                                             *)
(***************************************************************************)

\* What get_orphaned_blobs returns was not reachable from a manifest when the
\* search began, unless a row or its dependencies were deleted meanwhile; and
\* when nothing was applied meanwhile it returns every row that is not
\* reachable.  Both hold of trees with dangling dependencies too.
OrphansAreUnreachable ==
    search = "end" /\ steady = {} =>
        /\ ~lost => result \cap atStart = {}
        /\ changes = 0 => result = {b \in Blob : blobRow[b] # Missing} \ Reachable

\* A manifest that one tag has named since the search began is not returned by
\* get_orphaned_manifests.  (It may be when a tag that was read has been moved
\* to it and another one away from it: it never was without a tag.)
TaggedIsNoOrphan ==
    search = "end" => \A l \in steady : label[l] \notin result

=============================================================================
