------------------------------ MODULE TagListing ------------------------------
(***************************************************************************)
(* GET /v2/<repository>/tags/list (src/registry/tags/get.rs) and the scan  *)
(* of the tree `tags` below it (get_tags in src/store/mod.rs): a client    *)
(* asks for a page, follows the Link of the answer, and each of its        *)
(* requests may be served by another node.                                 *)
(*                                                                         *)
(* A node has applied some prefix of the tags that are committed.  The     *)
(* scan goes row by row without a lock, in the order of the serialized     *)
(* keys, where the length of a string precedes its bytes: tags are numbers *)
(* here, in the order of their names, and KeyOrder is the order in the     *)
(* tree.                                                                   *)
(***************************************************************************)
EXTENDS Integers, Sequences, FiniteSets, SequencesExt

CONSTANTS
    Server,         \* the nodes a request may go to
    TagName,        \* tags, numbered in the order of their names
    Listed,         \* the repository the client lists
    Other,          \* another repository of the same tree
    KeyOrder,       \* the keys of the tree in their serialized order
    PageSize,       \* values of `n`
    None,           \* no `last`, no `n`, no Link
    MaxCommit       \* bound on the tags committed

TagKeys == {Listed, Other} \X TagName

ASSUME TagNameAssumption == TagName \subseteq Nat /\ TagName # {} /\ PageSize \subseteq Nat
ASSUME NoneAssumption == None \notin TagName \cup PageSize
ASSUME KeyOrderAssumption ==
    KeyOrder \in Seq(TagKeys) /\ Range(KeyOrder) = TagKeys /\ IsInjective(KeyOrder)
\* The repository comes first in a key: its tags are next to each other.
ASSUME ContiguousAssumption ==
    \A i, j, k \in DOMAIN KeyOrder :
        i < j /\ j < k /\ KeyOrder[i][1] = KeyOrder[k][1] => KeyOrder[j][1] = KeyOrder[i][1]

VARIABLES
    tagLog,         \* the keys HashTagged has committed, in their order
    appliedTags,    \* per node: how many of them it has applied
    listing,        \* what the client and the handler are doing
    query,          \* the parameters `last` and `n` of the request
    server,         \* the node that handles it
    cursor,         \* where in KeyOrder the scan is
    scanned,        \* `digests` of get_tags: the tags found so far
    pages,          \* the tags of the pages the client has got
    common          \* ghost: the tags every node had when the client began

listVars == <<tagLog, appliedTags, listing, query, server, cursor, scanned, pages, common>>
clientVars == <<query, pages, common>>

Ended == {"done", "panicked", "refused"}

ListTypeOK ==
    /\ tagLog \in Seq(TagKeys)
    /\ appliedTags \in [Server -> 0 .. Len(tagLog)]
    /\ listing \in {"idle", "asking", "scanning", "scanned"} \cup Ended
    /\ query \in [last : TagName \cup {None}, n : PageSize \cup {None}]
    /\ server \in Server
    /\ cursor \in 1 .. Len(KeyOrder) + 1
    /\ {scanned, pages} \subseteq Seq(TagName)
    /\ common \subseteq TagName

\* The keys in the tree of node s.
TreeOf(s) == {tagLog[i] : i \in 1 .. appliedTags[s]}

TagsOf(s) == {k[2] : k \in {j \in TreeOf(s) : j[1] = Listed}}

ListIdle ==
    /\ tagLog = <<>>
    /\ appliedTags = [s \in Server |-> 0]
    /\ listing = "idle"
    /\ query = [last |-> None, n |-> None]
    /\ server \in Server
    /\ cursor = 1
    /\ scanned = <<>>
    /\ pages = <<>>
    /\ common = {}

-----------------------------------------------------------------------------
(***************************************************************************)
(* The cluster: tags are added and never deleted.                          *)
(***************************************************************************)
CommitTag(k) ==
    /\ Len(tagLog) < MaxCommit
    /\ k \in TagKeys \ Range(tagLog)
    /\ tagLog' = Append(tagLog, k)
    /\ UNCHANGED <<appliedTags, listing, server, cursor, scanned, clientVars>>

ApplyTag(s) ==
    /\ appliedTags[s] < Len(tagLog)
    /\ appliedTags' = [appliedTags EXCEPT ![s] = @ + 1]
    /\ UNCHANGED <<tagLog, listing, server, cursor, scanned, clientVars>>

-----------------------------------------------------------------------------
(***************************************************************************)
(* One request.                                                            *)
(***************************************************************************)

\* The client begins at the first tag, with or without a page size.
StartListing(n) ==
    /\ listing = "idle"
    /\ query' = [last |-> None, n |-> n]
    /\ common' = {t \in TagName : \A s \in Server : t \in TagsOf(s)}
    /\ listing' = "asking"
    /\ UNCHANGED <<tagLog, appliedTags, server, cursor, scanned, pages>>

\* A token that is missing, expired or without "pull".
RefuseListing ==
    /\ listing = "asking"
    /\ listing' = "refused"
    /\ UNCHANGED <<tagLog, appliedTags, server, cursor, scanned, clientVars>>

\* get_tags seeks the first key of the repository.
BeginScan(s) ==
    /\ listing = "asking"
    /\ server' = s
    /\ cursor' = CHOOSE i \in DOMAIN KeyOrder :
                     KeyOrder[i][1] = Listed /\ \A j \in 1 .. i - 1 : KeyOrder[j][1] # Listed
    /\ scanned' = <<>>
    /\ listing' = "scanning"
    /\ UNCHANGED <<tagLog, appliedTags, clientVars>>

\* The rows from the cursor on that the tree has now.
RowsAhead == {i \in cursor .. Len(KeyOrder) : KeyOrder[i] \in TreeOf(server)}

NextRow == CHOOSE i \in RowsAhead : \A j \in RowsAhead : i <= j

\* The scan ends with the tree or at the first row of another repository.
ScanIsOver == RowsAhead = {} \/ KeyOrder[NextRow][1] # Listed

ScanRow ==
    /\ listing = "scanning"
    /\ IF ScanIsOver
       THEN listing' = "scanned" /\ UNCHANGED <<cursor, scanned>>
       ELSE /\ scanned' = Append(scanned, KeyOrder[NextRow][2])
            /\ cursor' = NextRow + 1
            /\ UNCHANGED listing
    /\ UNCHANGED <<tagLog, appliedTags, server, clientVars>>

\* Mutant of FromLast: the tags stay in the order of the tree.
FromLastUnsorted(tags, last) ==
    IF last = None THEN tags
    ELSE SubSeq(tags, CHOOSE i \in DOMAIN tags : tags[i] = last, Len(tags))

\* `tags.sort()`: the keys of a tree are distinct, and so are the tags.
Sorted(tags) ==
    CHOOSE s \in [DOMAIN tags -> Range(tags)] : \A i, j \in DOMAIN tags : i < j => s[i] < s[j]

\* `position(|r| r == last)`.
Position(tags, last) == CHOOSE i \in DOMAIN tags : tags[i] = last

\* Mutant of FromLast: the page begins after `last`.
FromLastExclusive(tags, last) ==
    LET sorted == Sorted(tags)
    IN  IF last = None THEN sorted
        ELSE SubSeq(sorted, Position(sorted, last) + 1, Len(sorted))

\* The tags in order, then `tags[index..]`: the page begins WITH `last`.
FromLast(tags, last) ==
    LET sorted == Sorted(tags)
    IN  IF last = None THEN sorted
        ELSE SubSeq(sorted, Position(sorted, last), Len(sorted))

\* `position(..).unwrap()` and `tags[..n]` panic; the connection is closed.
PagePanics(tags, q) ==
    \/ q.last # None /\ q.last \notin Range(tags)
    \/ q.n # None /\ q.n > Len(FromLast(tags, q.last))

\* The parameters of the Link: a page of no tags names no `last`.
LinkOf(page, q) == [last |-> IF page = <<>> THEN None ELSE Last(page), n |-> q.n]

\* What the client has after one more page, which begins with the tag it has last.
Joined(tags, page) ==
    IF tags # <<>> /\ page # <<>> /\ Head(page) = Last(tags) THEN tags \o Tail(page)
    ELSE tags \o page

\* Mutant of AnswerPage: instead of a panic, no tags and a Link to the same page.
AnswerPageAgain ==
    /\ listing = "scanned"
    /\ LET left == FromLast(scanned, query.last)
           page == IF query.n = None THEN left ELSE SubSeq(left, 1, query.n)
       IN  IF PagePanics(scanned, query)
           THEN listing' = "asking" /\ UNCHANGED <<query, pages>>
           ELSE /\ pages' = Joined(pages, page)
                /\ IF query.n # None /\ query.n < Len(left)
                   THEN query' = LinkOf(page, query) /\ listing' = "asking"
                   ELSE UNCHANGED query /\ listing' = "done"
    /\ scanned' = <<>>
    /\ cursor' = 1
    /\ UNCHANGED <<tagLog, appliedTags, server, common>>

\* The answer, and the client that follows its Link.
AnswerPage ==
    /\ listing = "scanned"
    /\ LET left == FromLast(scanned, query.last)
           page == IF query.n = None THEN left ELSE SubSeq(left, 1, query.n)
       IN  IF PagePanics(scanned, query)
           THEN listing' = "panicked" /\ UNCHANGED <<query, pages>>
           ELSE /\ pages' = Joined(pages, page)
                /\ IF query.n # None /\ query.n < Len(left)
                   THEN query' = LinkOf(page, query) /\ listing' = "asking"
                   ELSE UNCHANGED query /\ listing' = "done"
    /\ scanned' = <<>>
    /\ cursor' = 1
    /\ UNCHANGED <<tagLog, appliedTags, server, common>>

-----------------------------------------------------------------------------
RequestStep == (\E s \in Server : BeginScan(s)) \/ ScanRow \/ AnswerPage

ListNext ==
    \/ \E k \in TagKeys : CommitTag(k)
    \/ \E s \in Server : ApplyTag(s)
    \/ \E n \in PageSize \cup {None} : StartListing(n)
    \/ RefuseListing
    \/ RequestStep

ListSpec == ListIdle /\ [][ListNext]_listVars

\* The client follows every Link, and a handler that has begun ends.
ListFairness == WF_listVars(RequestStep)

-----------------------------------------------------------------------------
(***************************************************************************)
(* Properties.                                                             *)
(***************************************************************************)

\* A listing that ends gives the client every tag that was on all nodes when it
\* began, in the order of their names, whichever nodes served its pages and
\* whatever was tagged meanwhile.
ListingIsComplete ==
    listing = "done" =>
        /\ common \subseteq Range(pages)
        /\ \A i, j \in DOMAIN pages : i < j => pages[i] < pages[j]

\* With two tags or more on a page a listing comes to an end.  (A page of one
\* tag links to itself, because it begins with `last`, and so does one of none.)
ListingEnds ==
    listing = "asking" /\ query.n \notin {0, 1} ~> listing \in Ended

\* Because each Link names a later tag than the one before, whichever nodes serve
\* the pages: the client is never sent back.
LinksGoForward ==
    [][listing = "scanned" /\ listing' = "asking" /\ query.n \notin {0, 1}
          => query.last = None \/ query'.last > query.last]_listVars

\* When nothing is tagged and every node has everything, a listing by pages of
\* n >= 2 panics unless the last page is full: the first page has n tags, each
\* later one n - 1 new ones.
LastPageIsFull ==
    /\ listing \in {"done", "panicked"}
    /\ query.n \notin {None, 0, 1}
    /\ \A s \in Server : TagsOf(s) = common
    => LET t == Cardinality(common)
       IN  listing = "done" <=> t >= query.n /\ (t - query.n) % (query.n - 1) = 0

=============================================================================
