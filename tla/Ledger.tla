------------------------------- MODULE Ledger -------------------------------
(***************************************************************************)
(* What the batcher promises of the chain it writes to, whatever its       *)
(* threads do: one sealed or imported block at a time is put on a block    *)
(* that is already there, its own state is stored with it, and the head    *)
(* only moves to the block just added, never to a lower height.  Only the  *)
(* state is not promised, while the producer is unsettled.                 *)
(*                                                                         *)
(* The abstract specification of Batcher (ecconnector/batcher.go): neither *)
(* loops nor calls, only the database and the head.                        *)
(***************************************************************************)
EXTENDS Integers, Sequences

CONSTANT Payload, StateOf(_), EmptyState

VARIABLES
    tree,      \* the blocks in the database, each the sequence of its ancestry
    states,    \* the states in the database
    head,      \* the current block
    unsettled  \* a block may be stored with the state of another one

vars == <<tree, states, head>>

Init ==
    /\ tree = {<<>>}
    /\ states = {EmptyState}
    /\ head = <<>>

\* One block is added, or added again, on one that is there, with a state.
Extend(parent, payload, state) ==
    LET b == Append(parent, payload)
    IN  /\ tree' = tree \cup {b}
        /\ states' = states \cup {state}
        /\ head' \in {head, b}
        /\ Len(head') >= Len(head)

Next ==
    \E parent \in tree, payload \in Payload, state \in states' :
        /\ state = StateOf(payload) \/ unsettled
        /\ Extend(parent, payload, state)

Spec == Init /\ [][Next]_vars
=============================================================================
