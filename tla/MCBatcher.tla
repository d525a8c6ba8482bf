------------------------------ MODULE MCBatcher ------------------------------
(***************************************************************************)
(* Values for model checking Batcher.  The configurations MCBatcher_*.cfg  *)
(* differ in the number of RPC threads, in whether blocks come from peers  *)
(* and in the bounds.                                                      *)
(***************************************************************************)
EXTENDS Batcher

CONSTANTS t1, t2, p1, p2, c1, c2

OneTx     == {t1}
TwoTxs    == {t1, t2}
OneProof  == {p1}
TwoProofs == {p1, p2}
OneClient == {c1}
TwoClients == {c1, c2}

\* Peers send empty blocks; or none, and there are more transactions and proofs.
WithPeers == [imports |-> {{}}, txs |-> {t1}, proofs |-> {p1}]
Alone     == [imports |-> {}, txs |-> {t1, t2}, proofs |-> {p1, p2}]

EitherWay     == {WithPeers, Alone}
WithPeersOnly == {WithPeers}
=============================================================================
