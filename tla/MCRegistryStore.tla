--------------------------- MODULE MCRegistryStore ---------------------------
(***************************************************************************)
(* RegistryStore on two nodes, with the transactions the handlers submit   *)
(* for one blob and one manifest that names it.                            *)
(***************************************************************************)
EXTENDS RegistryStore, TLC

CONSTANTS n1, n2, repo, blobDigest, manifestDigest, latest

VARIABLE workload   \* whose transactions are committed: "blobs" or "manifests"

BlobKey == <<"blob", blobDigest>>

ManifestKey == <<"manifest", manifestDigest>>

\* uploads/put.rs on node n.
Upload(n) ==
    <<[type |-> "Mounted", key |-> BlobKey, repository |-> repo, timestamp |-> 0],
      [type |-> "Stat", key |-> BlobKey],
      [type |-> "Stored", key |-> BlobKey, location |-> n]>>

\* mirror.rs, and fsck in bin/main.rs or garbage.rs.
StoredAt(key, n) == <<[type |-> "Stored", key |-> key, location |-> n]>>
UnstoredAt(key, n) == <<[type |-> "Unstored", key |-> key, location |-> n]>>

\* manifests/put.rs on node n.
PutManifest(n) ==
    <<[type |-> "Mounted", key |-> ManifestKey, repository |-> repo, timestamp |-> 0],
      [type |-> "Stored", key |-> ManifestKey, location |-> n],
      [type |-> "Stat", key |-> ManifestKey],
      [type |-> "Info", key |-> ManifestKey, dependencies |-> {blobDigest}],
      [type |-> "Info", key |-> BlobKey, dependencies |-> {}],
      [type |-> "HashTagged", repository |-> repo, tag |-> latest, digest |-> manifestDigest]>>

Unmount(key) == <<[type |-> "Unmounted", key |-> key, repository |-> repo]>>

\* The `mount` branch of uploads/post.rs.
Mount(key) == <<[type |-> "Mounted", key |-> key, repository |-> repo, timestamp |-> 0]>>

\* The life of a blob: uploaded, mirrored, lost on one node or both, mounted.
BlobTransactions ==
    {Upload(n1), StoredAt(BlobKey, n2), UnstoredAt(BlobKey, n1), UnstoredAt(BlobKey, n2),
     Mount(BlobKey)}

\* A manifest, its tag, a change of membership, the blank entry of a new leader.
ManifestTransactions ==
    {Upload(n1), PutManifest(n1), StoredAt(ManifestKey, n2), Unmount(ManifestKey),
     <<[type |-> "Membership", members |-> {n1, n2}]>>, <<[type |-> "Blank"]>>,
     <<[type |-> "Empty"]>>}

\* The transactions and the bounds of a workload.  The last transaction of a
\* manifest is longer than the whole log of a blob; a snapshot is of all but the
\* last item.
Workload ==
    [blobs     |-> [transactions |-> BlobTransactions, log |-> 5, crashes |-> 2, gap |-> 4],
     manifests |-> [transactions |-> ManifestTransactions, log |-> 10, crashes |-> 1, gap |-> 9]]

AllTransactions == BlobTransactions \cup ManifestTransactions

Mine == Workload[workload]

\* The next action of a transaction of this workload.
OfWorkload(a, last) ==
    \E tr \in Mine.transactions :
        LET m == Len(entry) + 1
        IN  m <= Len(tr) /\ SubSeq(tr, 1, m) = Append(entry, a) /\ (last <=> m = Len(tr))

WithinBounds ==
    /\ crashes' <= Mine.crashes
    /\ \A n \in Node : snapshot'[n] # snapshot[n] => snapshot'[n].index >= Mine.gap

\* Who submits an action on a row has seen the row, or mounts it first.
Seen(a, last) ==
    a.type \in RowActionType /\ (a.type = "Mounted" => entry = <<>> /\ last)
        => \E i \in DOMAIN hist : hist[i].row[a.key] # NoRow

\* Only what moves a location is worth committing twice.
Fresh(a, last) ==
    \/ a.type \in {"Stored", "Unstored"}
    \/ \A i \in DOMAIN log : log[i] # [act |-> a, last |-> last]

\* A node may lag behind the log by any distance, and a longer log disables no
\* step of a node: it is enough to let the nodes run once the log has its full
\* length, and it keeps the prefixes of one log from being explored again.
MCNext ==
    /\ \/ /\ Len(log) < Mine.log
          /\ \E a \in CommittedAction, last \in BOOLEAN :
                OfWorkload(a, last) /\ Seen(a, last) /\ Fresh(a, last) /\ Commit(a, last)
       \/ /\ Len(log) = Mine.log
          /\ \E n \in Node : NodeStep(n)
          /\ WithinBounds
    /\ UNCHANGED workload

MCInit == Init /\ workload \in DOMAIN Workload

MCSpec == MCInit /\ [][MCNext]_<<vars, workload>>

=============================================================================
