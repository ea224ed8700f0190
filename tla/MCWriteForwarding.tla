-------------------------- MODULE MCWriteForwarding --------------------------
(***************************************************************************)
(* WriteForwarding on three nodes: two manifest PUTs on one of them, and a *)
(* repair by the command line of another.                                  *)
(***************************************************************************)
EXTENDS WriteForwarding

CONSTANTS n1, n2, n3, put1, put2, fsck

MCHome == [c \in Call |-> IF c = fsck THEN n1 ELSE n2]

Begun == {c \in Call : call[c].at # "none"}

\* A PUT with two changes of leader, so that the second can bring back what the
\* first cut; a repair with one; two PUTs, which are alike and share the queue of
\* webhooks, with none.
Small ==
    \/ Begun \in {{}, {put1}}
    \/ Begun = {fsck} /\ elections < MaxElections
    \/ Begun = {put1, put2} /\ elections = 0

\* n3 differs from n1 for the repair only, and from n2 for the PUTs.
MCInit == Init /\ leader # n3

MCNext == Next /\ Small'

MCSpec == MCInit /\ [][MCNext]_vars /\ Fairness

=============================================================================
