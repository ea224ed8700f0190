--------------------------- MODULE RegistryTables ---------------------------
(***************************************************************************)
(* The replicated data of distribd: the sled trees `blobs`, `manifests`    *)
(* and `tags`, the last membership, and what each RegistryAction does to   *)
(* them inside apply_to_state_machine (src/store/mod.rs).                  *)
(*                                                                         *)
(* Blob and Manifest are the same record in the source and their actions   *)
(* are the same code twice, so both trees are one function on Key ==       *)
(* Kind \X Digest.  A content type and a size only matter for being there  *)
(* or not, hence `typed` and `sized`; `updated` is written and never read. *)
(***************************************************************************)

CONSTANTS
    Node,           \* ids of the members of the cluster
    Repository,     \* repository names
    Digest,         \* digests of blobs and manifests
    Tag,            \* tag names
    Timestamp,      \* the instants a handler stamps on its actions
    NoRow,          \* `None` of a lookup in blobs or manifests
    NoDigest        \* `None` of a lookup in tags

Kind == {"blob", "manifest"}

Key == Kind \X Digest

TagKey == Repository \X Tag

Row == [created : Timestamp, typed : BOOLEAN, sized : BOOLEAN,
        dependencies : SUBSET Digest, repositories : SUBSET Repository,
        locations : SUBSET Node]

ASSUME NoRowAssumption == NoRow \notin Row
ASSUME NoDigestAssumption == NoDigest \notin Digest

Tables == [row : [Key -> Row \cup {NoRow}],
           tag : [TagKey -> Digest \cup {NoDigest}],
           membership : SUBSET Node]

EmptyTables == [row |-> [k \in Key |-> NoRow],
                tag |-> [k \in TagKey |-> NoDigest],
                membership |-> {}]

-----------------------------------------------------------------------------
(***************************************************************************)
(* The actions.  `Blank` and `Membership` are the two payloads of a log    *)
(* entry that carry no RegistryAction.                                     *)
(***************************************************************************)
RowAction ==
    [type : {"Stored", "Unstored"}, key : Key, location : Node]
    \cup [type : {"Mounted"}, key : Key, repository : Repository, timestamp : Timestamp]
    \cup [type : {"Unmounted"}, key : Key, repository : Repository]
    \cup [type : {"Info"}, key : Key, dependencies : SUBSET Digest]
    \cup [type : {"Stat"}, key : Key]

OtherAction ==
    [type : {"HashTagged"}, repository : Repository, tag : Tag, digest : Digest]
    \cup [type : {"Membership"}, members : SUBSET Node]
    \cup [type : {"Empty", "Blank"}]

Action == RowAction \cup OtherAction

RowActionType == {"Stored", "Unstored", "Mounted", "Unmounted", "Info", "Stat"}

-----------------------------------------------------------------------------
(***************************************************************************)
(* What an action does to the row it names.                                *)
(***************************************************************************)

\* `.unwrap().unwrap()` on the lookup: Stored of a row that is not there
\* panics inside the transaction, which leaves the trees as they were.
Panics(row, a) == a.type = "Stored" /\ row = NoRow

Stored(row, n) ==
    IF row = NoRow THEN NoRow ELSE [row EXCEPT !.locations = @ \cup {n}]

\* The row goes with its last location, whatever repositories it is in.
Unstored(row, n) ==
    IF row = NoRow \/ row.locations \subseteq {n}
    THEN NoRow
    ELSE [row EXCEPT !.locations = @ \ {n}]

FreshRow(ts) ==
    [created |-> ts, typed |-> FALSE, sized |-> FALSE,
     dependencies |-> {}, repositories |-> {}, locations |-> {}]

\* The only action that makes a row; an old row keeps its `created`.
Mounted(row, r, ts) ==
    [(IF row = NoRow THEN FreshRow(ts) ELSE row) EXCEPT !.repositories = @ \cup {r}]

Unmounted(row, r) ==
    IF row = NoRow THEN NoRow ELSE [row EXCEPT !.repositories = @ \ {r}]

Info(row, deps) ==
    IF row = NoRow THEN NoRow
    ELSE [row EXCEPT !.dependencies = deps, !.typed = TRUE]

Stat(row) ==
    IF row = NoRow THEN NoRow ELSE [row EXCEPT !.sized = TRUE]

\* The arms of the match for one tree; the arms of the other are the same.
RowAfter(row, a) ==
    CASE a.type = "Stored"    -> Stored(row, a.location)
      [] a.type = "Unstored"  -> Unstored(row, a.location)
      [] a.type = "Mounted"   -> Mounted(row, a.repository, a.timestamp)
      [] a.type = "Unmounted" -> Unmounted(row, a.repository)
      [] a.type = "Info"      -> Info(row, a.dependencies)
      [] a.type = "Stat"      -> Stat(row)

PanicsOn(t, a) == a.type \in RowActionType /\ Panics(t.row[a.key], a)

\* The tables after one action.
ApplyAction(t, a) ==
    CASE a.type \in RowActionType -> [t EXCEPT !.row[a.key] = RowAfter(@, a)]
      [] a.type = "HashTagged"    -> [t EXCEPT !.tag[<<a.repository, a.tag>>] = a.digest]
      [] a.type = "Membership"    -> [t EXCEPT !.membership = a.members]
      [] OTHER                    -> t

-----------------------------------------------------------------------------
(***************************************************************************)
(* Queries on the tables.                                                  *)
(***************************************************************************)

\* A node wants to mirror what someone holds and it does not.
Wanted(n, row) ==
    row # NoRow /\ n \notin row.locations /\ row.locations # {}

WantedKeys(n, rows) == {k \in Key : Wanted(n, rows[k])}

=============================================================================
