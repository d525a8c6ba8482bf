---------------------------- MODULE MCTxExchange ----------------------------
(***************************************************************************)
(* Values for model checking TxExchange: a node that comes twice with an   *)
(* old protocol, another such node, and one that has announcements.        *)
(***************************************************************************)
EXTENDS TxExchange, TLC

CONSTANTS t1, t2, n1, n2, n3, a1, a2, b, c

MCTxs == {t1, t2}
MCNodes == {n1, n2, n3}
MCSessions == {a1, a2, b, c}
MCNode == (a1 :> n1) @@ (a2 :> n1) @@ (b :> n2) @@ (c :> n3)
MCLegacy == {a1, a2, b}

\* Returns: the node leaves and comes back while a pack is on its way.
\* Shared: two old sessions take turns, and one of them is told of transactions.
\* Stalls: an announcement is due to an old session.
\* Stops: the loops are stopped with sessions of both kinds.
Returns == [connect |-> {a1, a2}, leave |-> {a1}, tell |-> {}, arrive |-> MCTxs, stops |-> FALSE]
Shared == [connect |-> {a1, b}, leave |-> {}, tell |-> {b}, arrive |-> MCTxs, stops |-> FALSE]
Stalls == [connect |-> {a1, c}, leave |-> {c}, tell |-> {}, arrive |-> MCTxs, stops |-> FALSE]
Stops == [connect |-> {a1, c}, leave |-> {a1}, tell |-> {}, arrive |-> {t1}, stops |-> TRUE]

MCSetups == {Returns, Shared, Stalls, Stops}
=============================================================================
