--------------------------- MODULE MCFilterSystem ---------------------------
(***************************************************************************)
(* Values for model checking FilterSystem: three clients, a chain with one *)
(* fork, and in each situation two or three sources with a few events.     *)
(***************************************************************************)
EXTENDS FilterSystem, TLC

CONSTANTS c1, c2, c3, g, a1, a2, b1, b2, b3

MCClients == {c1, c2, c3}
MCHeaders == {g, a1, a2, b1, b2, b3}
MCparent == (g :> g) @@ (a1 :> g) @@ (a2 :> a1) @@ (b1 :> g) @@ (b2 :> b1) @@ (b3 :> b2)
MCnumber == (g :> 0) @@ (a1 :> 1) @@ (a2 :> 2) @@ (b1 :> 1) @@ (b2 :> 2) @@ (b3 :> 3)

Logs(f, t) == [kind |-> "logs", from |-> f, to |-> t]
Heads == [kind |-> "heads", from |-> None, to |-> None]
PendingTxs == [kind |-> "txs", from |-> None, to |-> None]
Refused == Logs(2, 1)

Wish(w1, w2, w3) == (c1 :> w1) @@ (c2 :> w2) @@ (c3 :> w3)
Events(t, l, r, p, n) ==
    [s \in Sources |-> CASE s = "txs" -> t [] s = "logs" -> l [] s = "rmLogs" -> r
                         [] s = "pendingLogs" -> p [] s = "chain" -> n]

\* Mined: logs of the newest blocks, and from a block up to the pending one.
\* Ranges: logs of the pending block, of a closed range and of an empty one.
\* NoPending: external consensus, which has no pending logs.
\* Others: heads and transactions.
\* Light: clients that follow a chain with a fork.
\* Checkpoint: the same when the parent of a header is not stored.
Mined == [wish |-> Wish(Logs(Latest, None), Logs(1, Pending), None), light |-> FALSE, ec |-> FALSE,
          stops |-> TRUE, missing |-> {}, events |-> Events(0, 1, 1, 1, 0), blocks |-> {g, a1}]
Ranges == [wish |-> Wish(Logs(Pending, Pending), Logs(1, 1), Refused), light |-> FALSE,
           ec |-> FALSE, stops |-> FALSE, missing |-> {}, events |-> Events(0, 1, 0, 1, 0), blocks |-> {a1, a2}]
NoPending == [wish |-> Wish(Logs(Pending, Pending), Logs(1, Latest), None), light |-> FALSE,
              ec |-> TRUE, stops |-> FALSE, missing |-> {}, events |-> Events(0, 1, 1, 1, 0), blocks |-> {g, a1}]
Others == [wish |-> Wish(Heads, PendingTxs, None), light |-> FALSE, ec |-> FALSE,
           stops |-> FALSE, missing |-> {}, events |-> Events(2, 0, 0, 0, 2), blocks |-> {a1}]
Light == [wish |-> Wish(Logs(None, None), Heads, None), light |-> TRUE, ec |-> FALSE,
          stops |-> FALSE, missing |-> {}, events |-> Events(0, 0, 0, 0, 3), blocks |-> {a1, a2, b3}]
Checkpoint == [wish |-> Wish(Logs(None, None), None, None), light |-> TRUE, ec |-> FALSE,
               stops |-> FALSE, missing |-> {b1}, events |-> Events(0, 0, 0, 0, 2), blocks |-> {a1, b2}]

MCSetups == {Mined, Ranges, NoPending, Others, Light, Checkpoint}
=============================================================================
