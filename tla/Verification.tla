---------------------------- MODULE Verification ----------------------------
(***************************************************************************)
(* What the batcher promises of the block it fills, whatever passes, pools *)
(* and heads it goes through: at any time the block is one that a node can *)
(* verify.  It began empty on some parent, and each of its transactions    *)
(* was added by the rules by which a node executes a block: the nonce is   *)
(* the one due, its kind is accepted, its sender can pay for it in the     *)
(* state then reached, and its gas limit fits in what the transactions     *)
(* before it have left.  Who gets the fees is left out; FeesGoToCoinbase   *)
(* of TxPacking is about that.                                             *)
(*                                                                         *)
(* The abstract specification of TxPacking: neither pool nor passes, only  *)
(* the block and the state it leads to.                                    *)
(***************************************************************************)
EXTENDS Naturals, Sequences

CONSTANTS Txs, Parents, GasOf, UsedBy, BlockGas, Limit

VARIABLES
    fault,    \* what is wrong with each transaction
    funds,    \* what of it its sender can pay, by the nonces of the state
    base,     \* the nonces in the state of the parent
    nonce,    \* the nonces in the state of the block
    txs,      \* its transactions
    gasUsed   \* the gas they used

vars == <<fault, funds, base, nonce, txs, gasUsed>>

Empty(parent) == base = parent /\ nonce = parent /\ txs = <<>> /\ gasUsed = 0

Init == \E parent \in Parents : Empty(parent)

\* Another block is begun.
Begin(parent) ==
    /\ base' = parent /\ nonce' = parent
    /\ txs' = <<>> /\ gasUsed' = 0
    /\ UNCHANGED <<fault, funds>>

\* A transaction is an account and a nonce.
Execute(t) ==
    /\ t[2] = nonce[t[1]]
    /\ fault[t] = "none" /\ funds[t][nonce] = "all"
    /\ GasOf[t] <= BlockGas - gasUsed
    /\ Len(txs) < Limit
    /\ txs' = Append(txs, t)
    /\ nonce' = [nonce EXCEPT ![t[1]] = @ + 1]
    /\ gasUsed' = gasUsed + UsedBy[t]
    /\ UNCHANGED <<fault, funds, base>>

Next == (\E parent \in Parents : Begin(parent)) \/ (\E t \in Txs : Execute(t))

Spec == Init /\ [][Next]_vars
=============================================================================
