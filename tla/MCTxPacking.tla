---------------------------- MODULE MCTxPacking ----------------------------
(***************************************************************************)
(* Instances of TxPacking for TLC: a local account and a remote one with   *)
(* two transactions each.  The gas of a block is enough for all of them    *)
(* unless the one with the highest limit is last; the limit  on their      *)
(* number is three; the cheapest comes before a dear one of its account.   *)
(***************************************************************************)
EXTENDS TxPacking

CONSTANTS ann, bob   \* model values

MCAccounts == {ann, bob}
MCLocals   == {ann}

MCTxs == MCAccounts \X {0, 1}

MCPrice  == [t \in MCTxs |-> IF t = <<bob, 0>> THEN 1 ELSE 2 + t[2]]
MCGasOf  == [t \in MCTxs |-> IF t = <<ann, 1>> THEN 5 ELSE 2]
MCUsedBy == [t \in MCTxs |-> IF t \in {<<ann, 1>>, <<bob, 0>>} THEN 2 ELSE 1]

OneFault(t, f) == [u \in MCTxs |-> IF u = t THEN f ELSE "none"]

NoFault == [u \in MCTxs |-> "none"]

\* Every sender can pay; the remote one has the value only once the local one's first
\* transaction was executed; the local one has nothing before the remote one's was.
Rich == [u \in MCTxs |-> [n \in Nonces |-> "all"]]

PoorRemote == [Rich EXCEPT ![<<bob, 0>>] = [n \in Nonces |-> IF n[ann] = 0 THEN "gas" ELSE "all"]]

PoorLocal == [Rich EXCEPT ![<<ann, 0>>] = [n \in Nonces |-> IF n[bob] = 0 THEN "nothing" ELSE "all"]]

MCSituations ==
    {NoFault} \X {PoorRemote, PoorLocal}
    \cup {OneFault(<<ann, 1>>, "unsupported"), OneFault(<<bob, 0>>, "ignored"),
          OneFault(<<bob, 1>>, "ignored")} \X {Rich}
=============================================================================
