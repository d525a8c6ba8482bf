----------------------------- MODULE MCHandler -----------------------------
(***************************************************************************)
(* Values for model checking Handler.                                      *)
(***************************************************************************)
EXTENDS Handler, TLC

CONSTANTS n1, n2, n3, s1, s2, s3, s4, s5

MCSessions == {s1, s2, s3, s4, s5}
MCNodes == {n1, n2, n3}
MCNode == (s1 :> n1) @@ (s2 :> n1) @@ (s3 :> n1) @@ (s4 :> n2) @@ (s5 :> n3)

\* A node that comes three times, while the fetcher drops it once.
ComesBack ==
    [connect |-> {s1, s2, s3}, mode |-> "full", head |-> 1, fastHead |-> 0,
     heights |-> (n1 :> 1) @@ (n2 :> 0) @@ (n3 :> 0), growth |-> 0, checkpoint |-> 0,
     challenge |-> FALSE, maxPeers |-> 2, stops |-> FALSE, faults |-> 1]

\* A node that is challenged, breaks its connection and comes back.
Challenged ==
    [connect |-> {s1, s2}, mode |-> "full", head |-> 1, fastHead |-> 0,
     heights |-> (n1 :> 1) @@ (n2 :> 0) @@ (n3 :> 0), growth |-> 0, checkpoint |-> 0,
     challenge |-> TRUE, maxPeers |-> 2, stops |-> FALSE, faults |-> 1]

\* A snap sync, while an unsound node tells of the highest head.
Misled ==
    [connect |-> {s1, s4}, mode |-> "snap", head |-> 0, fastHead |-> 0,
     heights |-> (n1 :> 3) @@ (n2 :> 4) @@ (n3 :> 0), growth |-> 0, checkpoint |-> 2, challenge |-> FALSE,
     maxPeers |-> 1, stops |-> FALSE, faults |-> 0]

\* Two nodes without the snap extension while slots are reserved.
Reserving ==
    [connect |-> {s4, s5}, mode |-> "snap", head |-> 0, fastHead |-> 0,
     heights |-> (n1 :> 0) @@ (n2 :> 0) @@ (n3 :> 0), growth |-> 0, checkpoint |-> 0,
     challenge |-> FALSE, maxPeers |-> 2, stops |-> FALSE, faults |-> 0]

\* A fast sync taken up again with a single node, which goes on; stopped at any point.
Stopped ==
    [connect |-> {s1}, mode |-> "full", head |-> 0, fastHead |-> 1,
     heights |-> (n1 :> 3) @@ (n2 :> 0) @@ (n3 :> 0), growth |-> 1, checkpoint |-> 1, challenge |-> FALSE,
     maxPeers |-> 2, stops |-> TRUE, faults |-> 0]

MCSetups == {ComesBack, Challenged, Misled, Reserving, Stopped}
=============================================================================
