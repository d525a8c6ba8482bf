------------------------- MODULE MCBlockPropagation -------------------------
(***************************************************************************)
(* Values for model checking BlockPropagation: two blocks on top of each   *)
(* other; two nodes and a goroutine that broadcasts, or one node and two   *)
(* such goroutines, or one that broadcasts twice.  The known sets forget   *)
(* from their first block on.                                              *)
(***************************************************************************)
EXTENDS BlockPropagation, TLC

CONSTANTS p1, p2, b1, b2, w1, w2

MCPeers == {p1, p2}
MCBlocks == {b1, b2}
MCWorkers == {w1, w2}
MCParent == (b1 :> Genesis) @@ (b2 :> b1)
MCAnnounces == (p1 :> {b1}) @@ (p2 :> {})

MCSetups ==
    {[connect |-> {p1, p2}, broadcasts |-> (w1 :> 1) @@ (w2 :> 0)],
     [connect |-> {p1}, broadcasts |-> (w1 :> 1) @@ (w2 :> 1)],
     [connect |-> {p1}, broadcasts |-> (w1 :> 2) @@ (w2 :> 0)]}
=============================================================================
