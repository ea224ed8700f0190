---------------------------- MODULE RegistryWrite ----------------------------
(***************************************************************************)
(* What submit_write and consistent_write of src/app.rs promise to the     *)
(* handlers, and what the other modules assume of them: an answer `true`   *)
(* means that the transaction is in the log, and for consistent_write that *)
(* it is applied on this node; `false` means nothing, the transaction may  *)
(* be in the log already or get there later; and it gets there once, but   *)
(* for calls that are sent again while an attempt may be alive.            *)
(***************************************************************************)
EXTENDS Naturals, Sequences

CONSTANTS
    Node,
    Call,           \* the calls of the two functions, and of the command line
    Home,           \* the node each call is made on
    Waits           \* the calls of consistent_write

VARIABLES
    outcome,        \* per call: what its caller knows
    decided,        \* the calls whose transaction is in the committed log
    applied,        \* per node: how many of them it has applied
    redone          \* the calls that were sent again

vars == <<outcome, decided, applied, redone>>

TypeOK ==
    /\ outcome \in [Call -> {"none", "open", "ok", "failed"}]
    /\ decided \in Seq(Call)
    /\ applied \in [Node -> 0 .. Len(decided)]
    /\ redone \subseteq Call

Init ==
    /\ outcome = [c \in Call |-> "none"]
    /\ decided = <<>>
    /\ applied = [n \in Node |-> 0]
    /\ redone = {}

Decided(c, upto) == \E i \in 1 .. upto : decided[i] = c

Ask(c) ==
    /\ outcome[c] = "none"
    /\ outcome' = [outcome EXCEPT ![c] = "open"]
    /\ UNCHANGED <<decided, applied, redone>>

\* The request is sent again although it was accepted before.
Redo(c) ==
    /\ outcome[c] = "open"
    /\ redone' = redone \cup {c}
    /\ UNCHANGED <<outcome, decided, applied>>

\* Also after the caller was told that it failed.
Decide(c) ==
    /\ outcome[c] # "none"
    /\ c \in redone \/ ~Decided(c, Len(decided))
    /\ decided' = Append(decided, c)
    /\ UNCHANGED <<outcome, applied, redone>>

Apply(n) ==
    /\ applied[n] < Len(decided)
    /\ applied' = [applied EXCEPT ![n] = @ + 1]
    /\ UNCHANGED <<outcome, decided, redone>>

Succeed(c) ==
    /\ outcome[c] = "open"
    /\ Decided(c, IF c \in Waits THEN applied[Home[c]] ELSE Len(decided))
    /\ outcome' = [outcome EXCEPT ![c] = "ok"]
    /\ UNCHANGED <<decided, applied, redone>>

Fail(c) ==
    /\ outcome[c] = "open"
    /\ outcome' = [outcome EXCEPT ![c] = "failed"]
    /\ UNCHANGED <<decided, applied, redone>>

Next ==
    \/ \E c \in Call : Ask(c) \/ Redo(c) \/ Decide(c) \/ Succeed(c) \/ Fail(c)
    \/ \E n \in Node : Apply(n)

Spec == Init /\ [][Next]_vars

=============================================================================
