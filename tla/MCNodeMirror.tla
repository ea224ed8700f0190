----------------------------- MODULE MCNodeMirror -----------------------------
(***************************************************************************)
(* NodeMirror for a node, one peer, two digests and one request.           *)
(***************************************************************************)
EXTENDS NodeMirror

CONSTANTS self, peer, d1, d2, r1

\* With a request, which acts on the loop only when its client goes away, one change
\* less and no failure, which leaves it waiting; the digests are alike, so it asks
\* for the first.
Small ==
    \A r \in Request : req[r].state # "new" =>
        req[r].digest = d1 /\ changes < MaxChanges /\ failures = 0

MCNext == Next /\ Small'

MCSpec == Init /\ [][MCNext]_vars /\ Fairness

=============================================================================
