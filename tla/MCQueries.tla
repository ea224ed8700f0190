------------------------------- MODULE MCQueries -------------------------------
(***************************************************************************)
(* TagListing and OrphanSearch, one at a time: a behaviour is one listing  *)
(* or one search, and the variables of the other one stay as they were.    *)
(***************************************************************************)
EXTENDS TagListing, OrphanSearch

CONSTANTS repoA, repoB, b1, b2, b3, m1, m2

VARIABLE job        \* the query that is made

queryVars == <<listVars, searchVars, job>>

\* "1", "10", "2", "3" in the order of their names; the second one is longer
\* and comes last in the tree.
MCKeyOrder ==
    LET order == <<1, 3, 4, 2>>
    IN  [i \in 1 .. 4 |-> <<repoA, order[i]>>] \o [i \in 1 .. 4 |-> <<repoB, order[i]>>]

\* An index that names an image that names a layer, a layer two of them name,
\* a plain image, and an index that names all three.
MCContents ==
    {b1 :> {} @@ b2 :> {b1} @@ b3 :> {b2} @@ m1 :> {b3} @@ m2 :> {b1},
     b1 :> {} @@ b2 :> {b1} @@ b3 :> {b1} @@ m1 :> {b2, b3} @@ m2 :> {b3},
     b1 :> {} @@ b2 :> {} @@ b3 :> {b1, b2} @@ m1 :> {b1, b2} @@ m2 :> {b3}}

\* One tag of another repository is as good as four, and when it came does not
\* matter to the scan, which stops there.
Small == \A i \in DOMAIN tagLog' : tagLog'[i][1] = repoB => i = 1 /\ tagLog'[i][2] = 1

\* Tags do not matter to the search for blobs, nor blobs to that for manifests.
Init ==
    /\ ListIdle /\ SearchIdle
    /\ job \in {"list", "blobs", "images"}
    /\ server = CHOOSE s \in Server : TRUE
    /\ job # "blobs" =>
          /\ content = CHOOSE c \in Contents : TRUE
          /\ blobRow = [b \in Blob |-> Missing]
    /\ job # "images" => label = [l \in Label |-> Missing]
    /\ job = "list" => imageRow = {}

\* Once a listing has ended nothing that happens has to do with it.
Next ==
    /\ \/ job = "list" /\ listing \notin Ended /\ ListNext /\ Small /\ UNCHANGED searchVars
       \/ /\ job = "blobs" /\ SearchNext /\ ~FindImages /\ UNCHANGED listVars
          /\ \A l \in Label : label'[l] # label[l] => l = CHOOSE k \in Label : TRUE
       \/ job = "images" /\ SearchNext /\ ~FindBlobs /\ UNCHANGED <<listVars, blobRow>>
    /\ UNCHANGED job

Spec == Init /\ [][Next]_queryVars /\ ListFairness

=============================================================================
