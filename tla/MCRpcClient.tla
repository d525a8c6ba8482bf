---------------------------- MODULE MCRpcClient ----------------------------
(***************************************************************************)
(* Values for model checking RpcClient: the genesis header, two headers of *)
(* the same number and one on top of them.                                 *)
(***************************************************************************)
EXTENDS RpcClient

CONSTANTS g0, a1, b1, a2, pg, pa, pb, v1, v2

ThreeHeaders == {g0, a1, b1}
AllHeaders == {g0, a1, b1, a2}

Numbers == [h \in Headers |-> CASE h = g0 -> 0 [] h \in {a1, b1} -> 1 [] h = a2 -> 2]

\* The headers a1 and a2 were signed alike.
ProofTable == [h \in Headers |-> CASE h = g0 -> pg [] h \in {a1, a2} -> pa [] h = b1 -> pb]

SealedHeaders == Headers \ {g0}

TwoCallers == {v1, v2}
=============================================================================
