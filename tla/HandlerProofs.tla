--------------------------- MODULE HandlerProofs ---------------------------
(***************************************************************************)
(* What holds of Handler for any sessions and nodes and any configuration. *)
(* HandlerInv is inductive as it stands.  A removal goes by the identity   *)
(* of a node, so that the proof follows, for each node, whether a session  *)
(* is setting up its registrations while a removal of the node is under    *)
(* way: then the node counts as crossed (RemovalInv, SetupInv), and of the *)
(* others OnlyPeersKnown holds.                                            *)
(*                                                                         *)
(* There is one lemma for each action.  In each, what the step changes     *)
(* comes first, then the parts of the invariant it cannot disturb.         *)
(***************************************************************************)
EXTENDS Handler, TLAPS

\* The invariant, to be expanded without its conjuncts.
Parts ==
    /\ TypeOK /\ SessionInv /\ RemovalInv /\ SyncerInv /\ PivotInv /\ SetupInv
    /\ OnlyPeersKnown /\ AcceptsWhenSynced /\ LimitSet /\ QuietAfterStop

LEMMA InvIs == HandlerInv <=> Parts
  BY DEF HandlerInv, Parts

LEMMA BelowIs == \A a, b, c \in Nat : c \in a .. (b - 1) => c < b
  OBVIOUS

\* What the leaves need of the types.
LEMMA TypesAre ==
    ASSUME Parts
    PROVE  /\ Node \in [Sessions -> Nodes] /\ None \notin Sessions
           /\ pc \in [Sessions -> Pcs] /\ peers \in [Nodes -> Sessions \cup {None}]
           /\ challenge \in [Sessions -> {"off", "armed", "fired"}]
           /\ peerWG \subseteq Sessions /\ downloader \subseteq Nodes /\ snapSyncer \subseteq
                Nodes
  BY HandlerAssumption DEF Parts, TypeOK

-----------------------------------------------------------------------------
(* Removals                                                                *)

\* The callers of removePeer are different callers.
LEMMA RemoversAre ==
    /\ Fetcher \in Removers /\ Downloader \in Removers /\ Fetcher # Downloader
    /\ \A s \in Sessions :
          /\ <<s, "defer">> \in Removers /\ <<s, "timer">> \in Removers
          /\ \A t \in Sessions : <<s, "timer">> # <<t, "defer">>
          /\ Fetcher # <<s, "defer">> /\ Downloader # <<s, "defer">>
          /\ Fetcher # <<s, "timer">> /\ Downloader # <<s, "timer">>
          /\ \A t \in Sessions : s # t => <<s, "defer">> # <<t, "defer">>
  BY DEF Removers, Fetcher, Downloader

\* A removal under way has its record.
LEMMA RemovalRecord ==
    ASSUME TypeOK, NEW r \in Removers
    PROVE  /\ removal[r] = NoRemoval \/ removal[r] \in Removal
           /\ removal[r] # NoRemoval =>
                 /\ removal[r].at \in {"lookup", "snap", "downloader", "unregister"}
                 /\ removal[r].node \in Nodes
                 /\ removal[r].peer \in Sessions \cup {None}
           /\ removal[r].at \in {"lookup", "snap", "downloader", "unregister"} => removal[r] #
                NoRemoval
  BY DEF TypeOK, Removal, NoRemoval

\* removePeer is called: at its look at the peer set.
LEMMA RemovalStarts ==
    ASSUME TypeOK, NEW r \in Removers, NEW n \in Nodes, StartRemoval(r, n)
    PROVE  /\ removal' \in [Removers -> Removal \cup {NoRemoval}]
           /\ removal'[r] # NoRemoval /\ removal'[r].at = "lookup" /\ removal'[r].node = n
           /\ \A q \in Removers : q # r => removal'[q] = removal[q]
<1>1. /\ [at |-> "lookup", node |-> n, peer |-> None] \in Removal
      /\ [at |-> "lookup", node |-> n, peer |-> None] # NoRemoval
  BY DEF Removal, NoRemoval
<1>2. removal \in [Removers -> Removal \cup {NoRemoval}]
  BY DEF TypeOK
<1>3. QED
  BY <1>1, <1>2 DEF StartRemoval

\* The steps of a removal after its look at the peer set.
LEMMA RemovalGoesOn ==
    ASSUME TypeOK, NEW r \in Removers, removal[r] # NoRemoval,
           NEW to \in {"downloader", "unregister"}, removal' = [removal EXCEPT ![r].at = to]
    PROVE  /\ removal' \in [Removers -> Removal \cup {NoRemoval}]
           /\ removal'[r] # NoRemoval /\ removal'[r].at = to
           /\ removal'[r].node = removal[r].node /\ removal'[r].peer = removal[r].peer
           /\ \A q \in Removers : q # r => removal'[q] = removal[q]
<1>1. removal \in [Removers -> Removal \cup {NoRemoval}] /\ removal[r] \in Removal
  BY DEF TypeOK
<1>2. /\ [removal[r] EXCEPT !.at = to] \in Removal
      /\ [removal[r] EXCEPT !.at = to].at = to
      /\ [removal[r] EXCEPT !.at = to].node = removal[r].node
      /\ [removal[r] EXCEPT !.at = to].peer = removal[r].peer
  BY <1>1 DEF Removal
<1>3. \A x \in Removal : x # NoRemoval
  BY DEF Removal, NoRemoval
<1>4. removal'[r] = [removal[r] EXCEPT !.at = to] /\ \A q \in Removers : q # r => removal'[q] =
        removal[q]
  BY <1>1
<1>5. removal' \in [Removers -> Removal \cup {NoRemoval}]
  BY <1>1, <1>2
<1>6. QED
  BY <1>2, <1>3, <1>4, <1>5

\* removePeer returns.
LEMMA RemovalEnds ==
    ASSUME TypeOK, NEW r \in Removers, removal' = [removal EXCEPT ![r] = NoRemoval]
    PROVE  /\ removal' \in [Removers -> Removal \cup {NoRemoval}]
           /\ removal'[r] = NoRemoval
           /\ \A q \in Removers : q # r => removal'[q] = removal[q]
  BY DEF TypeOK

\* A sync under way has its record.
LEMMA SyncRecord ==
    ASSUME TypeOK
    PROVE  /\ sync.at \in {"run", "drop", "flags"} => sync # NoSync
           /\ sync # NoSync => /\ sync \in SyncOp /\ sync.at \in {"run", "drop", "flags"}
                               /\ sync.peer \in Sessions /\ sync.td \in Nat
           /\ NoSync.at = "idle"
  BY DEF TypeOK, SyncOp, NoSync

-----------------------------------------------------------------------------
(* The sessions and their nodes                                            *)

LEMMA StepConnect == ASSUME HandlerInv, NEW s \in Sessions, Connect(s) PROVE HandlerInv'
<1>0. Parts
  BY InvIs
<1>1. UNCHANGED <<setup, height, td, disconnected, challenge, peerWG, removal, peers, closed,
      downloader, snapSyncer, crossed, stop, maxPeers, loop, doneCh, forced, force, sync,
      terminated, head, fastHead, pivot, fastSync, snapSync, acceptTxs>>
  BY DEF Connect, Go, Unregistered, remoteVars, registryVars, loopVars, chainVars, flagVars,
      stopVars
<1>2. /\ pc' \in [Sessions -> Pcs]
      /\ pc[s] = "away" /\ pc'[s] = "event"
      /\ \A t \in Sessions : t # s => pc'[t] = pc[t]
      /\ \A t \in Sessions : Node[t] = Node[s] => pc[t] \in {"away", "gone"}
  BY <1>0, HandlerAssumption DEF Parts, TypeOK, Connect, Pcs, Go
<1>3. TypeOK'
  BY <1>0, <1>1, <1>2 DEF Parts, TypeOK
<1>4. SyncerInv' /\ PivotInv' /\ OnlyPeersKnown' /\ AcceptsWhenSynced' /\ QuietAfterStop'
  BY <1>0, <1>1 DEF Parts, SyncerInv, PivotInv, OnlyPeersKnown, AcceptsWhenSynced, QuietAfterStop,
                    Registered
<1>5. SessionInv'
  BY <1>0, <1>1, <1>2, TypesAre DEF Parts, SessionInv
<1>6. RemovalInv'
  BY <1>0, <1>1, <1>2, TypesAre DEF Parts, RemovalInv, SettingUp
<1>7. SetupInv'
  BY <1>0, <1>1, <1>2, TypesAre DEF Parts, SetupInv
<1>8. LimitSet'
  BY <1>0, <1>1, <1>2, TypesAre DEF Parts, LimitSet
<1>9. QED
  BY <1>3, <1>4, <1>5, <1>6, <1>7, <1>8, InvIs DEF HandlerInv

LEMMA StepTellsSyncer ==
    ASSUME HandlerInv, NEW s \in Sessions, TellsSyncer(s)
    PROVE  HandlerInv'
<1>0. Parts
  BY InvIs
<1>1. UNCHANGED <<setup, height, td, disconnected, challenge, peerWG, removal, peers, closed,
      downloader, snapSyncer, crossed, stop, maxPeers, doneCh, forced, force, sync, terminated,
      head, fastHead, pivot, fastSync, snapSync, acceptTxs>>
  BY DEF TellsSyncer, Go, remoteVars, registryVars, chainVars, flagVars, stopVars
<1>2. /\ pc' \in [Sessions -> Pcs]
      /\ loop' \in {"off", "count", "pick", "select", "terminate", "join", "ended"}
      /\ \/ pc[s] = "event" /\ pc'[s] = "add"
         \/ pc[s] = "announce" /\ pc'[s] = "challenge"
         \/ pc[s] = "told" /\ pc'[s] = "serving"
      /\ \A t \in Sessions : t # s => pc'[t] = pc[t]
      /\ loop = "select" /\ loop' = "count"
  BY <1>0 DEF Parts, TypeOK, TellsSyncer, Pcs, Go
<1>3. TypeOK'
  BY <1>0, <1>1, <1>2 DEF Parts, TypeOK
<1>4. PivotInv' /\ OnlyPeersKnown' /\ AcceptsWhenSynced'
  BY <1>0, <1>1 DEF Parts, PivotInv, OnlyPeersKnown, AcceptsWhenSynced
<1>5. SessionInv'
  BY <1>0, <1>1, <1>2, TypesAre DEF Parts, SessionInv
<1>6. RemovalInv'
  BY <1>0, <1>1, <1>2, TypesAre DEF Parts, RemovalInv, SettingUp
<1>7. SyncerInv'
  BY <1>0, <1>1, <1>2, TypesAre DEF Parts, SyncerInv
<1>8. SetupInv'
  BY <1>0, <1>1, <1>2, TypesAre DEF Parts, SetupInv
<1>9. LimitSet'
  BY <1>0, <1>1, <1>2, TypesAre DEF Parts, LimitSet, SyncerInv
<1>10. QuietAfterStop'
  BY <1>0, <1>1, <1>2, TypesAre DEF Parts, QuietAfterStop, Registered
<1>11. QED
  BY <1>3, <1>4, <1>5, <1>6, <1>7, <1>8, <1>9, <1>10, InvIs DEF HandlerInv

LEMMA StepSeesQuit == ASSUME HandlerInv, NEW s \in Sessions, SeesQuit(s) PROVE HandlerInv'
<1>0. Parts
  BY InvIs
<1>1. UNCHANGED <<setup, height, td, disconnected, challenge, peerWG, removal, peers, closed,
      downloader, snapSyncer, crossed, stop, maxPeers, loop, doneCh, forced, force, sync,
      terminated, head, fastHead, pivot, fastSync, snapSync, acceptTxs>>
  BY DEF SeesQuit, Go, Unregistered, remoteVars, registryVars, loopVars, chainVars, flagVars,
      stopVars
<1>2. /\ pc' \in [Sessions -> Pcs]
      /\ \/ pc[s] = "event" /\ pc'[s] = "gone"
         \/ pc[s] = "announce" /\ pc'[s] = "challenge"
         \/ pc[s] = "told" /\ pc'[s] = "serving"
      /\ \A t \in Sessions : t # s => pc'[t] = pc[t]
  BY <1>0 DEF Parts, TypeOK, SeesQuit, Pcs, Go
<1>3. TypeOK'
  BY <1>0, <1>1, <1>2 DEF Parts, TypeOK
<1>4. SyncerInv' /\ PivotInv' /\ OnlyPeersKnown' /\ AcceptsWhenSynced' /\ QuietAfterStop'
  BY <1>0, <1>1 DEF Parts, SyncerInv, PivotInv, OnlyPeersKnown, AcceptsWhenSynced, QuietAfterStop,
                    Registered
<1>5. SessionInv'
  BY <1>0, <1>1, <1>2, TypesAre DEF Parts, SessionInv
<1>6. RemovalInv'
  BY <1>0, <1>1, <1>2, TypesAre DEF Parts, RemovalInv, SettingUp
<1>7. SetupInv'
  BY <1>0, <1>1, <1>2, TypesAre DEF Parts, SetupInv
<1>8. LimitSet'
  BY <1>0, <1>1, <1>2, TypesAre DEF Parts, LimitSet
<1>9. QED
  BY <1>3, <1>4, <1>5, <1>6, <1>7, <1>8, InvIs DEF HandlerInv

LEMMA StepCounts == ASSUME HandlerInv, NEW s \in Sessions, Counts(s) PROVE HandlerInv'
<1>0. Parts
  BY InvIs
<1>1. UNCHANGED <<setup, height, td, disconnected, challenge, removal, peers, closed, downloader,
      snapSyncer, crossed, stop, maxPeers, loop, doneCh, forced, force, sync, terminated, head,
      fastHead, pivot, fastSync, snapSync, acceptTxs>>
  BY DEF Counts, Go, Unregistered, remoteVars, registryVars, loopVars, chainVars, flagVars,
      stopVars
<1>2. /\ pc' \in [Sessions -> Pcs]
      /\ peerWG' \subseteq Sessions
      /\ pc[s] = "add" /\ pc'[s] = "handshake"
      /\ \A t \in Sessions : t # s => pc'[t] = pc[t]
      /\ peerWG' = peerWG \cup {s}
  BY <1>0 DEF Parts, TypeOK, Counts, Pcs, Go
<1>3. TypeOK'
  BY <1>0, <1>1, <1>2 DEF Parts, TypeOK
<1>4. SyncerInv' /\ PivotInv' /\ OnlyPeersKnown' /\ AcceptsWhenSynced' /\ QuietAfterStop'
  BY <1>0, <1>1 DEF Parts, SyncerInv, PivotInv, OnlyPeersKnown, AcceptsWhenSynced, QuietAfterStop,
                    Registered
<1>5. SessionInv'
  BY <1>0, <1>1, <1>2, TypesAre DEF Parts, SessionInv
<1>6. RemovalInv'
  BY <1>0, <1>1, <1>2, TypesAre DEF Parts, RemovalInv, SettingUp
<1>7. SetupInv'
  BY <1>0, <1>1, <1>2, TypesAre DEF Parts, SetupInv
<1>8. LimitSet'
  BY <1>0, <1>1, <1>2, TypesAre DEF Parts, LimitSet
<1>9. QED
  BY <1>3, <1>4, <1>5, <1>6, <1>7, <1>8, InvIs DEF HandlerInv

LEMMA StepHandshake ==
    ASSUME HandlerInv, NEW s \in Sessions, Handshake(s)
    PROVE  HandlerInv'
<1>0. Parts
  BY InvIs
<1>1. UNCHANGED <<setup, height, disconnected, challenge, peerWG, removal, peers, closed,
      downloader, snapSyncer, crossed, stop, maxPeers, loop, doneCh, forced, force, sync,
      terminated, head, fastHead, pivot, fastSync, snapSync, acceptTxs>>
  BY DEF Handshake, Go, registryVars, loopVars, chainVars, flagVars, stopVars
<1>2. /\ pc' \in [Sessions -> Pcs]
      /\ td' \in [Sessions -> Nat]
      /\ \/ pc[s] = "handshake" /\ pc'[s] = "leave"
         \/ pc[s] = "handshake" /\ pc'[s] = "check"
      /\ \A t \in Sessions : t # s => pc'[t] = pc[t]
  BY <1>0, HandlerAssumption DEF Parts, TypeOK, Handshake, Pcs, Go
<1>3. TypeOK'
  BY <1>0, <1>1, <1>2 DEF Parts, TypeOK
<1>4. SyncerInv' /\ PivotInv' /\ OnlyPeersKnown' /\ AcceptsWhenSynced' /\ QuietAfterStop'
  BY <1>0, <1>1 DEF Parts, SyncerInv, PivotInv, OnlyPeersKnown, AcceptsWhenSynced, QuietAfterStop,
                    Registered
<1>5. SessionInv'
  BY <1>0, <1>1, <1>2, TypesAre DEF Parts, SessionInv
<1>6. RemovalInv'
  BY <1>0, <1>1, <1>2, TypesAre DEF Parts, RemovalInv, SettingUp
<1>7. SetupInv'
  BY <1>0, <1>1, <1>2, TypesAre DEF Parts, SetupInv
<1>8. LimitSet'
  BY <1>0, <1>1, <1>2, TypesAre DEF Parts, LimitSet
<1>9. QED
  BY <1>3, <1>4, <1>5, <1>6, <1>7, <1>8, InvIs DEF HandlerInv

LEMMA StepChecksLimit ==
    ASSUME HandlerInv, NEW s \in Sessions, ChecksLimit(s)
    PROVE  HandlerInv'
<1>0. Parts
  BY InvIs
<1>1. UNCHANGED <<setup, height, td, disconnected, challenge, peerWG, removal, peers, closed,
      downloader, snapSyncer, crossed, stop, maxPeers, loop, doneCh, forced, force, sync,
      terminated, head, fastHead, pivot, fastSync, snapSync, acceptTxs>>
  BY DEF ChecksLimit, Go, Unregistered, remoteVars, registryVars, loopVars, chainVars, flagVars,
      stopVars
<1>2. /\ pc' \in [Sessions -> Pcs]
      /\ \/ pc[s] = "check" /\ pc'[s] = "leave"
         \/ pc[s] = "check" /\ pc'[s] = "register"
      /\ \A t \in Sessions : t # s => pc'[t] = pc[t]
  BY <1>0 DEF Parts, TypeOK, ChecksLimit, Pcs, Go
<1>3. TypeOK'
  BY <1>0, <1>1, <1>2 DEF Parts, TypeOK
<1>4. SyncerInv' /\ PivotInv' /\ OnlyPeersKnown' /\ AcceptsWhenSynced' /\ QuietAfterStop'
  BY <1>0, <1>1 DEF Parts, SyncerInv, PivotInv, OnlyPeersKnown, AcceptsWhenSynced, QuietAfterStop,
                    Registered
<1>5. SessionInv'
  BY <1>0, <1>1, <1>2, TypesAre DEF Parts, SessionInv
<1>6. RemovalInv'
  BY <1>0, <1>1, <1>2, TypesAre DEF Parts, RemovalInv, SettingUp
<1>7. SetupInv'
  BY <1>0, <1>1, <1>2, TypesAre DEF Parts, SetupInv
<1>8. LimitSet'
  BY <1>0, <1>1, <1>2, TypesAre DEF Parts, LimitSet
<1>9. QED
  BY <1>3, <1>4, <1>5, <1>6, <1>7, <1>8, InvIs DEF HandlerInv

LEMMA StepLeaves == ASSUME HandlerInv, NEW s \in Sessions, Leaves(s) PROVE HandlerInv'
<1>0. Parts
  BY InvIs
<1>1. UNCHANGED <<setup, height, td, disconnected, challenge, removal, peers, closed, downloader,
      snapSyncer, crossed, stop, maxPeers, loop, doneCh, forced, force, sync, terminated, head,
      fastHead, pivot, fastSync, snapSync, acceptTxs>>
  BY DEF Leaves, Go, Unregistered, remoteVars, registryVars, loopVars, chainVars, flagVars,
      stopVars
<1>2. /\ pc' \in [Sessions -> Pcs]
      /\ peerWG' \subseteq Sessions
      /\ pc[s] = "leave" /\ pc'[s] = "gone"
      /\ \A t \in Sessions : t # s => pc'[t] = pc[t]
      /\ peerWG' = peerWG \ {s}
  BY <1>0 DEF Parts, TypeOK, Leaves, Pcs, Go
<1>3. TypeOK'
  BY <1>0, <1>1, <1>2 DEF Parts, TypeOK
<1>4. SyncerInv' /\ PivotInv' /\ OnlyPeersKnown' /\ AcceptsWhenSynced' /\ QuietAfterStop'
  BY <1>0, <1>1 DEF Parts, SyncerInv, PivotInv, OnlyPeersKnown, AcceptsWhenSynced, QuietAfterStop,
                    Registered
<1>5. SessionInv'
  BY <1>0, <1>1, <1>2, TypesAre DEF Parts, SessionInv
<1>6. RemovalInv'
  BY <1>0, <1>1, <1>2, TypesAre DEF Parts, RemovalInv, SettingUp
<1>7. SetupInv'
  BY <1>0, <1>1, <1>2, TypesAre DEF Parts, SetupInv
<1>8. LimitSet'
  BY <1>0, <1>1, <1>2, TypesAre DEF Parts, LimitSet
<1>9. QED
  BY <1>3, <1>4, <1>5, <1>6, <1>7, <1>8, InvIs DEF HandlerInv

LEMMA StepAnnouncesHead ==
    ASSUME HandlerInv, NEW s \in Sessions, AnnouncesHead(s)
    PROVE  HandlerInv'
<1>0. Parts
  BY InvIs
<1>1. UNCHANGED <<setup, height, disconnected, challenge, peerWG, removal, peers, closed,
      downloader, snapSyncer, crossed, stop, maxPeers, loop, doneCh, forced, force, sync,
      terminated, head, fastHead, pivot, fastSync, snapSync, acceptTxs>>
  BY DEF AnnouncesHead, Go, registryVars, loopVars, chainVars, flagVars, stopVars
<1>2. /\ pc' \in [Sessions -> Pcs]
      /\ td' \in [Sessions -> Nat]
      /\ pc[s] = "serving" /\ pc'[s] = "told"
      /\ \A t \in Sessions : t # s => pc'[t] = pc[t]
  BY <1>0, HandlerAssumption DEF Parts, TypeOK, AnnouncesHead, Pcs, Go
<1>3. TypeOK'
  BY <1>0, <1>1, <1>2 DEF Parts, TypeOK
<1>4. SyncerInv' /\ PivotInv' /\ OnlyPeersKnown' /\ AcceptsWhenSynced' /\ QuietAfterStop'
  BY <1>0, <1>1 DEF Parts, SyncerInv, PivotInv, OnlyPeersKnown, AcceptsWhenSynced, QuietAfterStop,
                    Registered
<1>5. SessionInv'
  BY <1>0, <1>1, <1>2, TypesAre DEF Parts, SessionInv
<1>6. RemovalInv'
  BY <1>0, <1>1, <1>2, TypesAre DEF Parts, RemovalInv, SettingUp
<1>7. SetupInv'
  BY <1>0, <1>1, <1>2, TypesAre DEF Parts, SetupInv
<1>8. LimitSet'
  BY <1>0, <1>1, <1>2, TypesAre DEF Parts, LimitSet
<1>9. QED
  BY <1>3, <1>4, <1>5, <1>6, <1>7, <1>8, InvIs DEF HandlerInv

LEMMA StepAnswersChallenge ==
    ASSUME HandlerInv, NEW s \in Sessions, AnswersChallenge(s)
    PROVE  HandlerInv'
<1>0. Parts
  BY InvIs
<1>1. UNCHANGED <<setup, height, pc, td, disconnected, peerWG, removal, peers, closed, downloader,
      snapSyncer, crossed, stop, maxPeers, loop, doneCh, forced, force, sync, terminated, head,
      fastHead, pivot, fastSync, snapSync, acceptTxs>>
  BY DEF AnswersChallenge, remoteVars, registryVars, loopVars, chainVars, flagVars, stopVars
<1>2. /\ challenge' \in [Sessions -> {"off", "armed", "fired"}]
      /\ challenge'[s] = "off" /\ \A t \in Sessions : t # s => challenge'[t] = challenge[t]
  BY <1>0 DEF Parts, TypeOK, AnswersChallenge
<1>3. TypeOK'
  BY <1>0, <1>1, <1>2 DEF Parts, TypeOK
<1>4. RemovalInv' /\ SyncerInv' /\ PivotInv' /\ SetupInv' /\ OnlyPeersKnown' /\ AcceptsWhenSynced'
      /\ LimitSet' /\ QuietAfterStop'
  BY <1>0, <1>1 DEF Parts, RemovalInv, SettingUp, SyncerInv, PivotInv, SetupInv, OnlyPeersKnown,
                    AcceptsWhenSynced, LimitSet, QuietAfterStop, Registered
<1>5. SessionInv'
  BY <1>0, <1>1, <1>2, TypesAre DEF Parts, SessionInv
<1>6. QED
  BY <1>3, <1>4, <1>5, InvIs DEF HandlerInv

LEMMA StepReturns == ASSUME HandlerInv, NEW s \in Sessions, Returns(s) PROVE HandlerInv'
<1>0. Parts
  BY InvIs
<1>1. UNCHANGED <<setup, height, td, disconnected, challenge, peerWG, removal, peers, closed,
      downloader, snapSyncer, crossed, stop, maxPeers, loop, doneCh, forced, force, sync,
      terminated, head, fastHead, pivot, fastSync, snapSync, acceptTxs>>
  BY DEF Returns, Go, Unregistered, remoteVars, registryVars, loopVars, chainVars, flagVars,
      stopVars
<1>2. /\ pc' \in [Sessions -> Pcs]
      /\ pc[s] = "serving" /\ pc'[s] = "cleanup"
      /\ \A t \in Sessions : t # s => pc'[t] = pc[t]
  BY <1>0 DEF Parts, TypeOK, Returns, Pcs, Go
<1>3. TypeOK'
  BY <1>0, <1>1, <1>2 DEF Parts, TypeOK
<1>4. SyncerInv' /\ PivotInv' /\ OnlyPeersKnown' /\ AcceptsWhenSynced' /\ QuietAfterStop'
  BY <1>0, <1>1 DEF Parts, SyncerInv, PivotInv, OnlyPeersKnown, AcceptsWhenSynced, QuietAfterStop,
                    Registered
<1>5. SessionInv'
  BY <1>0, <1>1, <1>2, TypesAre DEF Parts, SessionInv
<1>6. RemovalInv'
  BY <1>0, <1>1, <1>2, TypesAre DEF Parts, RemovalInv, SettingUp
<1>7. SetupInv'
  BY <1>0, <1>1, <1>2, TypesAre DEF Parts, SetupInv
<1>8. LimitSet'
  BY <1>0, <1>1, <1>2, TypesAre DEF Parts, LimitSet
<1>9. QED
  BY <1>3, <1>4, <1>5, <1>6, <1>7, <1>8, InvIs DEF HandlerInv

LEMMA StepRemoved == ASSUME HandlerInv, NEW s \in Sessions, Removed(s) PROVE HandlerInv'
<1>0. Parts
  BY InvIs
<1>1. UNCHANGED <<setup, height, td, disconnected, challenge, peerWG, removal, peers, closed,
      downloader, snapSyncer, crossed, stop, maxPeers, loop, doneCh, forced, force, sync,
      terminated, head, fastHead, pivot, fastSync, snapSync, acceptTxs>>
  BY DEF Removed, Go, Unregistered, remoteVars, registryVars, loopVars, chainVars, flagVars,
      stopVars
<1>2. /\ pc' \in [Sessions -> Pcs]
      /\ pc[s] = "remove" /\ pc'[s] = "leave"
      /\ \A t \in Sessions : t # s => pc'[t] = pc[t]
      /\ removal[<<s, "defer">>] = NoRemoval
  BY <1>0 DEF Parts, TypeOK, Removed, Pcs, Go
<1>3. TypeOK'
  BY <1>0, <1>1, <1>2 DEF Parts, TypeOK
<1>4. SyncerInv' /\ PivotInv' /\ OnlyPeersKnown' /\ AcceptsWhenSynced' /\ QuietAfterStop'
  BY <1>0, <1>1 DEF Parts, SyncerInv, PivotInv, OnlyPeersKnown, AcceptsWhenSynced, QuietAfterStop,
                    Registered
<1>5. SessionInv'
  BY <1>0, <1>1, <1>2, TypesAre DEF Parts, SessionInv
<1>6. RemovalInv'
  BY <1>0, <1>1, <1>2, TypesAre DEF Parts, RemovalInv, SettingUp
<1>7. SetupInv'
  BY <1>0, <1>1, <1>2, TypesAre DEF Parts, SetupInv
<1>8. LimitSet'
  BY <1>0, <1>1, <1>2, TypesAre DEF Parts, LimitSet
<1>9. QED
  BY <1>3, <1>4, <1>5, <1>6, <1>7, <1>8, InvIs DEF HandlerInv

LEMMA StepBreaks == ASSUME HandlerInv, NEW s \in Sessions, Breaks(s) PROVE HandlerInv'
<1>0. Parts
  BY InvIs
<1>1. UNCHANGED <<height, pc, td, challenge, peerWG, removal, peers, closed, downloader,
      snapSyncer, crossed, stop, maxPeers, loop, doneCh, forced, force, sync, terminated, head,
      fastHead, pivot, fastSync, snapSync, acceptTxs>>
  BY DEF Breaks, Setup, registryVars, sessionVars, loopVars, chainVars, flagVars, stopVars
<1>2. /\ setup' \in Setup
      /\ disconnected' \subseteq Sessions
      /\ setup'.maxPeers = setup.maxPeers /\ setup'.checkpoint = setup.checkpoint
  BY <1>0 DEF Parts, TypeOK, Breaks, Setup
<1>3. TypeOK'
  BY <1>0, <1>1, <1>2 DEF Parts, TypeOK
<1>4. SessionInv' /\ RemovalInv' /\ PivotInv' /\ SetupInv' /\ OnlyPeersKnown' /\ QuietAfterStop'
  BY <1>0, <1>1 DEF Parts, SessionInv, RemovalInv, SettingUp, PivotInv, SetupInv, OnlyPeersKnown,
                    QuietAfterStop, Registered
<1>5. SyncerInv'
  BY <1>0, <1>1, <1>2, TypesAre DEF Parts, SyncerInv
<1>6. AcceptsWhenSynced'
  BY <1>0, <1>1, <1>2, TypesAre DEF Parts, AcceptsWhenSynced
<1>7. LimitSet'
  BY <1>0, <1>1, <1>2, TypesAre DEF Parts, LimitSet
<1>8. QED
  BY <1>3, <1>4, <1>5, <1>6, <1>7, InvIs DEF HandlerInv

LEMMA StepGrows == ASSUME HandlerInv, NEW n \in Nodes, Grows(n) PROVE HandlerInv'
<1>0. Parts
  BY InvIs
<1>1. UNCHANGED <<setup, pc, td, disconnected, challenge, peerWG, removal, peers, closed,
      downloader, snapSyncer, crossed, stop, maxPeers, loop, doneCh, forced, force, sync,
      terminated, head, fastHead, pivot, fastSync, snapSync, acceptTxs>>
  BY DEF Grows, registryVars, sessionVars, loopVars, chainVars, flagVars, stopVars
<1>2. /\ height' \in [Nodes -> Nat]
  BY <1>0 DEF Parts, TypeOK, Grows
<1>3. TypeOK'
  BY <1>0, <1>1, <1>2 DEF Parts, TypeOK
<1>4. SessionInv' /\ RemovalInv' /\ SyncerInv' /\ PivotInv' /\ SetupInv' /\ OnlyPeersKnown' /\
      AcceptsWhenSynced' /\ LimitSet' /\ QuietAfterStop'
  BY <1>0, <1>1 DEF Parts, SessionInv, RemovalInv, SettingUp, SyncerInv, PivotInv, SetupInv,
                    OnlyPeersKnown, AcceptsWhenSynced, LimitSet, QuietAfterStop, Registered
<1>5. QED
  BY <1>3, <1>4, InvIs DEF HandlerInv

LEMMA RegistersPeer ==
    ASSUME HandlerInv, NEW s \in Sessions, peers[Node[s]] = None, ~closed, registerPeer(s)
    PROVE  HandlerInv'
<1>0. Parts
  BY InvIs
<1>1. UNCHANGED <<setup, height, td, disconnected, challenge, peerWG, removal, closed, downloader,
      snapSyncer, stop, maxPeers, loop, doneCh, forced, force, sync, terminated, head, fastHead,
      pivot, fastSync, snapSync, acceptTxs>>
  BY DEF registerPeer, Go, remoteVars, loopVars, chainVars, flagVars, stopVars
<1>2. /\ pc' \in [Sessions -> Pcs]
      /\ peers' \in [Nodes -> Sessions \cup {None}]
      /\ crossed' \subseteq Nodes
      /\ pc[s] = "register" /\ pc'[s] = "lookup"
      /\ \A t \in Sessions : t # s => pc'[t] = pc[t]
      /\ peers'[Node[s]] = s /\ \A m \in Nodes : m # Node[s] => peers'[m] = peers[m]
      /\ Node[s] \in Nodes
      /\ Removing(Node[s]) => crossed' = crossed \cup {Node[s]}
      /\ ~Removing(Node[s]) => crossed' = crossed \ {Node[s]}
  BY <1>0, HandlerAssumption DEF Parts, TypeOK, registerPeer, Pcs, Go
<1>3. TypeOK'
  BY <1>0, <1>1, <1>2 DEF Parts, TypeOK
<1>4. SyncerInv' /\ PivotInv' /\ AcceptsWhenSynced'
  BY <1>0, <1>1 DEF Parts, SyncerInv, PivotInv, AcceptsWhenSynced
<1>5. SessionInv'
  BY <1>0, <1>1, <1>2, TypesAre DEF Parts, SessionInv
<1>6. RemovalInv'
  BY <1>0, <1>1, <1>2, TypesAre DEF Parts, RemovalInv, SettingUp, Removing
<1>7. SetupInv'
  BY <1>0, <1>1, <1>2, TypesAre DEF Parts, SetupInv
<1>8. OnlyPeersKnown'
  BY <1>0, <1>1, <1>2, TypesAre DEF Parts, OnlyPeersKnown
<1>9. LimitSet'
  BY <1>0, <1>1, <1>2, TypesAre DEF Parts, LimitSet
<1>10. QuietAfterStop'
  BY <1>0, <1>1, <1>2, TypesAre DEF Parts, QuietAfterStop, Registered
<1>11. QED
  BY <1>3, <1>4, <1>5, <1>6, <1>7, <1>8, <1>9, <1>10, InvIs DEF HandlerInv

LEMMA IsRefused ==
    ASSUME HandlerInv, NEW s \in Sessions, closed \/ peers[Node[s]] # None, registerPeer(s)
    PROVE  HandlerInv'
<1>0. Parts
  BY InvIs
<1>1. UNCHANGED <<setup, height, td, disconnected, challenge, peerWG, removal, peers, closed,
      downloader, snapSyncer, crossed, stop, maxPeers, loop, doneCh, forced, force, sync,
      terminated, head, fastHead, pivot, fastSync, snapSync, acceptTxs>>
  BY DEF registerPeer, Go, remoteVars, loopVars, chainVars, flagVars, stopVars
<1>2. /\ pc' \in [Sessions -> Pcs]
      /\ pc[s] = "register" /\ pc'[s] = "leave"
      /\ \A t \in Sessions : t # s => pc'[t] = pc[t]
  BY <1>0, HandlerAssumption DEF Parts, TypeOK, registerPeer, Pcs, Go
<1>3. TypeOK'
  BY <1>0, <1>1, <1>2 DEF Parts, TypeOK
<1>4. SyncerInv' /\ PivotInv' /\ OnlyPeersKnown' /\ AcceptsWhenSynced' /\ QuietAfterStop'
  BY <1>0, <1>1 DEF Parts, SyncerInv, PivotInv, OnlyPeersKnown, AcceptsWhenSynced, QuietAfterStop,
                    Registered
<1>5. SessionInv'
  BY <1>0, <1>1, <1>2, TypesAre DEF Parts, SessionInv
<1>6. RemovalInv'
  BY <1>0, <1>1, <1>2, TypesAre DEF Parts, RemovalInv, SettingUp
<1>7. SetupInv'
  BY <1>0, <1>1, <1>2, TypesAre DEF Parts, SetupInv
<1>8. LimitSet'
  BY <1>0, <1>1, <1>2, TypesAre DEF Parts, LimitSet
<1>9. QED
  BY <1>3, <1>4, <1>5, <1>6, <1>7, <1>8, InvIs DEF HandlerInv

LEMMA StepRegisterPeer ==
    ASSUME HandlerInv, NEW s \in Sessions, registerPeer(s)
    PROVE  HandlerInv'
  BY RegistersPeer, IsRefused

-----------------------------------------------------------------------------
(* The end of a session, and the removals                                  *)

\* A session that has failed or returned calls removePeer.
LEMMA SessionEnds ==
    ASSUME HandlerInv, NEW s \in Sessions,
           pc[s] \in {"lookup", "downloader", "snap", "challenge", "cleanup"},
           pc' = [pc EXCEPT ![s] = "remove"],
           StartRemoval(<<s, "defer">>, Node[s]),
           challenge' \in [Sessions -> {"off", "armed", "fired"}],
           challenge'[s] # "armed",
           \A t \in Sessions : t # s => challenge'[t] = challenge[t],
           UNCHANGED <<setup, height, td, disconnected, peerWG, peers, closed, downloader,
                   snapSyncer, crossed, stop, maxPeers, loop, doneCh, forced, force, sync,
                   terminated, head, fastHead, pivot, fastSync, snapSync, acceptTxs>>
    PROVE  HandlerInv'
<1>0. Parts
  BY InvIs
<1>1. UNCHANGED <<setup, height, td, disconnected, peerWG, peers, closed, downloader, snapSyncer,
      crossed, stop, maxPeers, loop, doneCh, forced, force, sync, terminated, head, fastHead,
      pivot, fastSync, snapSync, acceptTxs>>
  OBVIOUS
<1>2. /\ pc' \in [Sessions -> Pcs]
      /\ removal' \in [Removers -> Removal \cup {NoRemoval}]
      /\ challenge' \in [Sessions -> {"off", "armed", "fired"}]
      /\ pc'[s] = "remove"
      /\ \A t \in Sessions : t # s => pc'[t] = pc[t]
      /\ removal'[<<s, "defer">>] # NoRemoval /\ removal'[<<s, "defer">>].at = "lookup"
      /\ removal'[<<s, "defer">>].node = Node[s]
      /\ \A q \in Removers : q # <<s, "defer">> => removal'[q] = removal[q]
  <2>1. TypeOK /\ StartRemoval(<<s, "defer">>, Node[s]) /\ <<s, "defer">> \in Removers /\ Node[s]
          \in Nodes
    BY <1>0, RemoversAre, TypesAre DEF Parts
  <2>2. /\ removal' \in [Removers -> Removal \cup {NoRemoval}]
        /\ removal'[<<s, "defer">>] # NoRemoval /\ removal'[<<s, "defer">>].at = "lookup"
        /\ removal'[<<s, "defer">>].node = Node[s]
        /\ \A q \in Removers : q # <<s, "defer">> => removal'[q] = removal[q]
    BY <2>1, RemovalStarts
  <2>3. pc' \in [Sessions -> Pcs] /\ pc'[s] = "remove" /\ \A t \in Sessions : t # s => pc'[t] =
          pc[t]
    BY <1>0, TypesAre DEF Pcs
  <2>4. QED
    BY <2>2, <2>3
<1>3. TypeOK'
  BY <1>0, <1>1, <1>2 DEF Parts, TypeOK
<1>4. PivotInv' /\ OnlyPeersKnown' /\ AcceptsWhenSynced' /\ QuietAfterStop'
  BY <1>0, <1>1 DEF Parts, PivotInv, OnlyPeersKnown, AcceptsWhenSynced, QuietAfterStop, Registered
<1>5. SessionInv'
  <2>1. /\ removal'[<<s, "defer">>] # NoRemoval /\ removal'[<<s, "defer">>].node = Node[s]
        /\ \A t \in Sessions : t # s => removal'[<<t, "defer">>] = removal[<<t, "defer">>]
    BY <1>2, RemoversAre
  <2>2. /\ pc'[s] = "remove" /\ challenge'[s] # "armed"
        /\ \A t \in Sessions : t # s => pc'[t] = pc[t] /\ challenge'[t] = challenge[t]
    BY <1>2
  <2>3. QED
    BY <1>0, <1>1, <2>1, <2>2, TypesAre DEF Parts, SessionInv
<1>6. RemovalInv'
  BY <1>0, <1>1, <1>2, RemoversAre, TypesAre DEF Parts, RemovalInv, SettingUp, SessionInv
<1>7. SyncerInv'
  <2>1. removal'[Downloader] = removal[Downloader]
    BY <1>2, RemoversAre
  <2>2. QED
    BY <1>0, <1>1, <2>1 DEF Parts, SyncerInv
<1>8. SetupInv'
  BY <1>0, <1>1, <1>2, RemoversAre, TypesAre DEF Parts, SetupInv, RemovalInv
<1>9. LimitSet'
  BY <1>0, <1>1, <1>2, TypesAre DEF Parts, LimitSet
<1>10. QED
  BY <1>3, <1>4, <1>5, <1>6, <1>7, <1>8, <1>9, InvIs DEF HandlerInv

LEMMA SessionFails ==
    ASSUME HandlerInv, NEW s \in Sessions, NEW from \in {"lookup", "downloader", "snap",
      "challenge"},
           Fails(s, from)
    PROVE  HandlerInv'
<1>1. Parts
  BY InvIs
<1>2. challenge[s] # "armed" /\ challenge \in [Sessions -> {"off", "armed", "fired"}]
  BY <1>1 DEF Parts, TypeOK, SessionInv, Fails, Go
<1>3. pc[s] \in {"lookup", "downloader", "snap", "challenge", "cleanup"} /\ pc' = [pc EXCEPT ![s]
        = "remove"]
  BY DEF Fails, Go
<1>4. UNCHANGED <<setup, height, td, disconnected, peerWG, peers, closed, downloader, snapSyncer,
      crossed, stop, maxPeers, loop, doneCh, forced, force, sync, terminated, head, fastHead,
      pivot, fastSync, snapSync, acceptTxs>> /\ challenge' = challenge
  BY DEF Fails, remoteVars, registryVars, loopVars, chainVars, flagVars, stopVars
<1>5. StartRemoval(<<s, "defer">>, Node[s])
  BY DEF Fails
<1>6. QED
  BY <1>2, <1>3, <1>4, <1>5, SessionEnds

LEMMA StepCleansUp == ASSUME HandlerInv, NEW s \in Sessions, CleansUp(s) PROVE HandlerInv'
<1>1. Parts
  BY InvIs
<1>2. /\ challenge' \in [Sessions -> {"off", "armed", "fired"}] /\ challenge'[s] # "armed"
      /\ \A t \in Sessions : t # s => challenge'[t] = challenge[t]
  BY <1>1 DEF Parts, TypeOK, CleansUp
<1>3. pc[s] \in {"lookup", "downloader", "snap", "challenge", "cleanup"} /\ pc' = [pc EXCEPT ![s]
        = "remove"]
  BY DEF CleansUp, Go
<1>4. UNCHANGED <<setup, height, td, disconnected, peerWG, peers, closed, downloader, snapSyncer,
      crossed, stop, maxPeers, loop, doneCh, forced, force, sync, terminated, head, fastHead,
      pivot, fastSync, snapSync, acceptTxs>>
  BY DEF CleansUp, remoteVars, registryVars, loopVars, chainVars, flagVars, stopVars
<1>5. StartRemoval(<<s, "defer">>, Node[s])
  BY DEF CleansUp
<1>6. QED
  BY <1>2, <1>3, <1>4, <1>5, SessionEnds

\* The registrations that succeed.
LEMMA LookedUp ==
    ASSUME HandlerInv, NEW s \in Sessions, peers[Node[s]] # None, ~Fails(s, "lookup"),
           LooksUp(s)
    PROVE  HandlerInv'
<1>0. Parts
  BY InvIs
<1>1. UNCHANGED <<setup, height, td, disconnected, challenge, peerWG, removal, peers, closed,
      downloader, snapSyncer, crossed, stop, maxPeers, loop, doneCh, forced, force, sync,
      terminated, head, fastHead, pivot, fastSync, snapSync, acceptTxs>>
  BY DEF LooksUp, Go, Unregistered, remoteVars, registryVars, loopVars, chainVars, flagVars,
      stopVars
<1>2. /\ pc' \in [Sessions -> Pcs]
      /\ pc[s] = "lookup" /\ pc'[s] = "downloader"
      /\ \A t \in Sessions : t # s => pc'[t] = pc[t]
  BY <1>0 DEF Parts, TypeOK, LooksUp, Pcs, Go
<1>3. TypeOK'
  BY <1>0, <1>1, <1>2 DEF Parts, TypeOK
<1>4. SyncerInv' /\ PivotInv' /\ OnlyPeersKnown' /\ AcceptsWhenSynced' /\ QuietAfterStop'
  BY <1>0, <1>1 DEF Parts, SyncerInv, PivotInv, OnlyPeersKnown, AcceptsWhenSynced, QuietAfterStop,
                    Registered
<1>5. SessionInv'
  BY <1>0, <1>1, <1>2, TypesAre DEF Parts, SessionInv
<1>6. RemovalInv'
  BY <1>0, <1>1, <1>2, TypesAre DEF Parts, RemovalInv, SettingUp
<1>7. SetupInv'
  BY <1>0, <1>1, <1>2, TypesAre DEF Parts, SetupInv
<1>8. LimitSet'
  BY <1>0, <1>1, <1>2, TypesAre DEF Parts, LimitSet
<1>9. QED
  BY <1>3, <1>4, <1>5, <1>6, <1>7, <1>8, InvIs DEF HandlerInv

LEMMA InDownloader ==
    ASSUME HandlerInv, NEW s \in Sessions, ~Fails(s, "downloader"), RegistersDownloader(s)
    PROVE  HandlerInv'
<1>0. Parts
  BY InvIs
<1>1. UNCHANGED <<setup, height, td, disconnected, challenge, peerWG, removal, peers, closed,
      snapSyncer, stop, maxPeers, loop, doneCh, forced, force, sync, terminated, head, fastHead,
      pivot, fastSync, snapSync, acceptTxs>>
  BY DEF RegistersDownloader, Go, Crosses, remoteVars, loopVars, chainVars, flagVars, stopVars
<1>2. /\ pc' \in [Sessions -> Pcs]
      /\ downloader' \subseteq Nodes
      /\ crossed' \subseteq Nodes
      /\ pc[s] = "downloader" /\ pc'[s] = (IF Node[s] \in Snap THEN "snap" ELSE "announce")
      /\ \A t \in Sessions : t # s => pc'[t] = pc[t]
      /\ downloader' = downloader \cup {Node[s]}
      /\ Node[s] \in Nodes
      /\ Removing(Node[s]) => crossed' = crossed \cup {Node[s]}
      /\ ~Removing(Node[s]) => crossed' = crossed
  BY <1>0, HandlerAssumption DEF Parts, TypeOK, RegistersDownloader, Pcs, Go, Crosses
<1>3. TypeOK'
  BY <1>0, <1>1, <1>2 DEF Parts, TypeOK
<1>4. SyncerInv' /\ PivotInv' /\ AcceptsWhenSynced' /\ QuietAfterStop'
  BY <1>0, <1>1 DEF Parts, SyncerInv, PivotInv, AcceptsWhenSynced, QuietAfterStop, Registered
<1>5. SessionInv'
  BY <1>0, <1>1, <1>2, TypesAre DEF Parts, SessionInv
<1>6. RemovalInv'
  BY <1>0, <1>1, <1>2, TypesAre DEF Parts, RemovalInv, SettingUp, Removing
<1>7. SetupInv'
  BY <1>0, <1>1, <1>2, TypesAre DEF Parts, SetupInv
<1>8. OnlyPeersKnown'
  BY <1>0, <1>1, <1>2, TypesAre DEF Parts, OnlyPeersKnown, SetupInv
<1>9. LimitSet'
  BY <1>0, <1>1, <1>2, TypesAre DEF Parts, LimitSet
<1>10. QED
  BY <1>3, <1>4, <1>5, <1>6, <1>7, <1>8, <1>9, InvIs DEF HandlerInv

LEMMA InSnapSyncer ==
    ASSUME HandlerInv, NEW s \in Sessions, ~Fails(s, "snap"), RegistersSnap(s)
    PROVE  HandlerInv'
<1>0. Parts
  BY InvIs
<1>1. UNCHANGED <<setup, height, td, disconnected, challenge, peerWG, removal, peers, closed,
      downloader, stop, maxPeers, loop, doneCh, forced, force, sync, terminated, head, fastHead,
      pivot, fastSync, snapSync, acceptTxs>>
  BY DEF RegistersSnap, Go, Crosses, remoteVars, loopVars, chainVars, flagVars, stopVars
<1>2. /\ pc' \in [Sessions -> Pcs]
      /\ snapSyncer' \subseteq Nodes
      /\ crossed' \subseteq Nodes
      /\ pc[s] = "snap" /\ pc'[s] = "announce"
      /\ \A t \in Sessions : t # s => pc'[t] = pc[t]
      /\ snapSyncer' = snapSyncer \cup {Node[s]}
      /\ Node[s] \in Nodes
      /\ Removing(Node[s]) => crossed' = crossed \cup {Node[s]}
      /\ ~Removing(Node[s]) => crossed' = crossed
  BY <1>0, HandlerAssumption DEF Parts, TypeOK, RegistersSnap, Pcs, Go, Crosses
<1>3. TypeOK'
  BY <1>0, <1>1, <1>2 DEF Parts, TypeOK
<1>4. SyncerInv' /\ PivotInv' /\ AcceptsWhenSynced' /\ QuietAfterStop'
  BY <1>0, <1>1 DEF Parts, SyncerInv, PivotInv, AcceptsWhenSynced, QuietAfterStop, Registered
<1>5. SessionInv'
  BY <1>0, <1>1, <1>2, TypesAre DEF Parts, SessionInv
<1>6. RemovalInv'
  BY <1>0, <1>1, <1>2, TypesAre DEF Parts, RemovalInv, SettingUp, Removing
<1>7. SetupInv'
  BY <1>0, <1>1, <1>2, TypesAre DEF Parts, SetupInv
<1>8. OnlyPeersKnown'
  BY <1>0, <1>1, <1>2, TypesAre DEF Parts, OnlyPeersKnown, SetupInv
<1>9. LimitSet'
  BY <1>0, <1>1, <1>2, TypesAre DEF Parts, LimitSet
<1>10. QED
  BY <1>3, <1>4, <1>5, <1>6, <1>7, <1>8, <1>9, InvIs DEF HandlerInv

LEMMA IsChallenged ==
    ASSUME HandlerInv, NEW s \in Sessions, ~Fails(s, "challenge"), Challenges(s)
    PROVE  HandlerInv'
<1>0. Parts
  BY InvIs
<1>1. UNCHANGED <<setup, height, td, disconnected, peerWG, removal, peers, closed, downloader,
      snapSyncer, crossed, stop, maxPeers, loop, doneCh, forced, force, sync, terminated, head,
      fastHead, pivot, fastSync, snapSync, acceptTxs>>
  BY DEF Challenges, Go, remoteVars, registryVars, loopVars, chainVars, flagVars, stopVars
<1>2. /\ pc' \in [Sessions -> Pcs]
      /\ challenge' \in [Sessions -> {"off", "armed", "fired"}]
      /\ pc[s] = "challenge" /\ pc'[s] = "serving"
      /\ \A t \in Sessions : t # s => pc'[t] = pc[t]
      /\ \A t \in Sessions : t # s => challenge'[t] = challenge[t]
  BY <1>0 DEF Parts, TypeOK, Challenges, Pcs, Go
<1>3. TypeOK'
  BY <1>0, <1>1, <1>2 DEF Parts, TypeOK
<1>4. SyncerInv' /\ PivotInv' /\ OnlyPeersKnown' /\ AcceptsWhenSynced' /\ QuietAfterStop'
  BY <1>0, <1>1 DEF Parts, SyncerInv, PivotInv, OnlyPeersKnown, AcceptsWhenSynced, QuietAfterStop,
                    Registered
<1>5. SessionInv'
  BY <1>0, <1>1, <1>2, TypesAre DEF Parts, SessionInv
<1>6. RemovalInv'
  BY <1>0, <1>1, <1>2, TypesAre DEF Parts, RemovalInv, SettingUp
<1>7. SetupInv'
  BY <1>0, <1>1, <1>2, TypesAre DEF Parts, SetupInv
<1>8. LimitSet'
  BY <1>0, <1>1, <1>2, TypesAre DEF Parts, LimitSet
<1>9. QED
  BY <1>3, <1>4, <1>5, <1>6, <1>7, <1>8, InvIs DEF HandlerInv

LEMMA StepLooksUp == ASSUME HandlerInv, NEW s \in Sessions, LooksUp(s) PROVE HandlerInv'
<1>1. CASE Fails(s, "lookup")
  BY <1>1, SessionFails
<1>2. CASE ~Fails(s, "lookup")
  BY <1>2, LookedUp DEF LooksUp
<1>3. QED
  BY <1>1, <1>2

LEMMA StepRegistersDownloader ==
    ASSUME HandlerInv, NEW s \in Sessions, RegistersDownloader(s)
    PROVE  HandlerInv'
<1>1. CASE Fails(s, "downloader")
  BY <1>1, SessionFails
<1>2. CASE ~Fails(s, "downloader")
  BY <1>2, InDownloader
<1>3. QED
  BY <1>1, <1>2

LEMMA StepRegistersSnap ==
    ASSUME HandlerInv, NEW s \in Sessions, RegistersSnap(s)
    PROVE  HandlerInv'
<1>1. CASE Fails(s, "snap")
  BY <1>1, SessionFails
<1>2. CASE ~Fails(s, "snap")
  BY <1>2, InSnapSyncer
<1>3. QED
  BY <1>1, <1>2

LEMMA StepChallenges ==
    ASSUME HandlerInv, NEW s \in Sessions, Challenges(s)
    PROVE  HandlerInv'
<1>1. CASE Fails(s, "challenge")
  BY <1>1, SessionFails
<1>2. CASE ~Fails(s, "challenge")
  BY <1>2, IsChallenged
<1>3. QED
  BY <1>1, <1>2

LEMMA StepChallengeTimesOut ==
    ASSUME HandlerInv, NEW s \in Sessions, ChallengeTimesOut(s)
    PROVE  HandlerInv'
<1>0. Parts
  BY InvIs
<1>1. UNCHANGED <<setup, height, pc, td, disconnected, peerWG, peers, closed, downloader,
      snapSyncer, crossed, stop, maxPeers, loop, doneCh, forced, force, sync, terminated, head,
      fastHead, pivot, fastSync, snapSync, acceptTxs>>
  BY DEF ChallengeTimesOut, remoteVars, registryVars, loopVars, chainVars, flagVars, stopVars
<1>2. /\ challenge' \in [Sessions -> {"off", "armed", "fired"}]
      /\ removal' \in [Removers -> Removal \cup {NoRemoval}]
      /\ challenge[s] = "armed" /\ challenge'[s] = "fired"
      /\ \A t \in Sessions : t # s => challenge'[t] = challenge[t]
      /\ removal'[<<s, "timer">>] # NoRemoval /\ removal'[<<s, "timer">>].at = "lookup"
      /\ removal'[<<s, "timer">>].node = Node[s]
      /\ \A q \in Removers : q # <<s, "timer">> => removal'[q] = removal[q]
  <2>1. TypeOK /\ StartRemoval(<<s, "timer">>, Node[s]) /\ <<s, "timer">> \in Removers /\ Node[s]
          \in Nodes
    BY <1>0, RemoversAre, TypesAre DEF Parts, ChallengeTimesOut
  <2>2. /\ removal' \in [Removers -> Removal \cup {NoRemoval}]
        /\ removal'[<<s, "timer">>] # NoRemoval /\ removal'[<<s, "timer">>].at = "lookup"
        /\ removal'[<<s, "timer">>].node = Node[s]
        /\ \A q \in Removers : q # <<s, "timer">> => removal'[q] = removal[q]
    BY <2>1, RemovalStarts
  <2>3. /\ challenge' \in [Sessions -> {"off", "armed", "fired"}]
        /\ challenge[s] = "armed" /\ challenge'[s] = "fired"
        /\ \A t \in Sessions : t # s => challenge'[t] = challenge[t]
    BY <1>0, TypesAre DEF ChallengeTimesOut
  <2>4. QED
    BY <2>2, <2>3
<1>3. TypeOK'
  BY <1>0, <1>1, <1>2 DEF Parts, TypeOK
<1>4. PivotInv' /\ OnlyPeersKnown' /\ AcceptsWhenSynced' /\ LimitSet' /\ QuietAfterStop'
  BY <1>0, <1>1 DEF Parts, PivotInv, OnlyPeersKnown, AcceptsWhenSynced, LimitSet, QuietAfterStop,
                    Registered
<1>5. SessionInv'
  <2>1. \A t \in Sessions : removal'[<<t, "defer">>] = removal[<<t, "defer">>]
    BY <1>2, RemoversAre
  <2>2. /\ challenge[s] = "armed" /\ challenge'[s] = "fired"
        /\ \A t \in Sessions : t # s => challenge'[t] = challenge[t]
    BY <1>2
  <2>3. QED
    BY <1>0, <1>1, <2>1, <2>2, TypesAre DEF Parts, SessionInv
<1>6. RemovalInv'
  <2>1. ~SettingUp(Node[s])
    BY <1>0, <1>2, TypesAre DEF Parts, SessionInv, SettingUp
  <2>2. QED
    BY <1>0, <1>1, <1>2, <2>1 DEF Parts, RemovalInv, SettingUp
<1>7. SyncerInv'
  BY <1>0, <1>1, <1>2, RemoversAre, TypesAre DEF Parts, SyncerInv
<1>8. SetupInv'
  BY <1>0, <1>1, <1>2, RemoversAre, TypesAre DEF Parts, SetupInv
<1>9. QED
  BY <1>3, <1>4, <1>5, <1>6, <1>7, <1>8, InvIs DEF HandlerInv

LEMMA StepFetcherDrops ==
    ASSUME HandlerInv, NEW n \in Nodes, FetcherDrops(n)
    PROVE  HandlerInv'
<1>0. Parts
  BY InvIs
<1>1. UNCHANGED <<height, pc, td, disconnected, challenge, peerWG, peers, closed, downloader,
      snapSyncer, stop, maxPeers, loop, doneCh, forced, force, sync, terminated, head, fastHead,
      pivot, fastSync, snapSync, acceptTxs>>
  BY DEF FetcherDrops, remoteVars, loopVars, chainVars, flagVars, stopVars
<1>2. /\ setup' \in Setup
      /\ removal' \in [Removers -> Removal \cup {NoRemoval}]
      /\ crossed' \subseteq Nodes
      /\ setup'.maxPeers = setup.maxPeers /\ setup'.checkpoint = setup.checkpoint
      /\ removal'[Fetcher] # NoRemoval /\ removal'[Fetcher].at = "lookup"
      /\ removal'[Fetcher].node = n
      /\ \A q \in Removers : q # Fetcher => removal'[q] = removal[q]
      /\ SettingUp(n) => crossed' = crossed \cup {n}
      /\ ~SettingUp(n) => crossed' = crossed
  <2>1. TypeOK /\ StartRemoval(Fetcher, n) /\ Fetcher \in Removers /\ n \in Nodes
    BY <1>0, RemoversAre, TypesAre DEF Parts, FetcherDrops
  <2>2. /\ removal' \in [Removers -> Removal \cup {NoRemoval}]
        /\ removal'[Fetcher] # NoRemoval /\ removal'[Fetcher].at = "lookup"
        /\ removal'[Fetcher].node = n
        /\ \A q \in Removers : q # Fetcher => removal'[q] = removal[q]
    BY <2>1, RemovalStarts
  <2>3. /\ setup' \in Setup /\ setup'.maxPeers = setup.maxPeers /\ setup'.checkpoint =
             setup.checkpoint
    BY <1>0 DEF Parts, TypeOK, Setup, FetcherDrops
  <2>4. /\ crossed' \subseteq Nodes
        /\ SettingUp(n) => crossed' = crossed \cup {n}
        /\ ~SettingUp(n) => crossed' = crossed
    BY <1>0 DEF Parts, TypeOK, FetcherDrops
  <2>5. QED
    BY <2>2, <2>3, <2>4
<1>3. TypeOK'
  BY <1>0, <1>1, <1>2 DEF Parts, TypeOK
<1>4. PivotInv' /\ QuietAfterStop'
  BY <1>0, <1>1 DEF Parts, PivotInv, QuietAfterStop, Registered
<1>5. SessionInv'
  <2>1. \A t \in Sessions : removal'[<<t, "defer">>] = removal[<<t, "defer">>]
    BY <1>2, RemoversAre
  <2>2. QED
    BY <1>0, <1>1, <2>1, TypesAre DEF Parts, SessionInv
<1>6. RemovalInv'
  BY <1>0, <1>1, <1>2, RemoversAre, TypesAre DEF Parts, RemovalInv, SettingUp
<1>7. SyncerInv'
  BY <1>0, <1>1, <1>2, RemoversAre, TypesAre DEF Parts, SyncerInv
<1>8. SetupInv'
  BY <1>0, <1>1, <1>2, RemoversAre, TypesAre DEF Parts, SetupInv
<1>9. OnlyPeersKnown'
  BY <1>0, <1>1, <1>2, TypesAre DEF Parts, OnlyPeersKnown
<1>10. AcceptsWhenSynced'
  BY <1>0, <1>1, <1>2, TypesAre DEF Parts, AcceptsWhenSynced
<1>11. LimitSet'
  BY <1>0, <1>1, <1>2, TypesAre DEF Parts, LimitSet
<1>12. QED
  BY <1>3, <1>4, <1>5, <1>6, <1>7, <1>8, <1>9, <1>10, <1>11, InvIs DEF HandlerInv

LEMMA StepRemoveFromSnap ==
    ASSUME HandlerInv, NEW r \in Removers, RemoveFromSnap(r)
    PROVE  HandlerInv'
<1>0. Parts
  BY InvIs
<1>1. UNCHANGED <<setup, height, pc, td, disconnected, challenge, peerWG, peers, closed,
      downloader, crossed, stop, maxPeers, loop, doneCh, forced, force, sync, terminated, head,
      fastHead, pivot, fastSync, snapSync, acceptTxs>>
  BY DEF RemoveFromSnap, remoteVars, loopVars, chainVars, flagVars, stopVars
<1>2. /\ removal' \in [Removers -> Removal \cup {NoRemoval}]
      /\ snapSyncer' \subseteq Nodes
      /\ removal[r].at = "snap" /\ removal[r] # NoRemoval /\ removal[r].node \in Nodes
      /\ removal'[r] # NoRemoval /\ removal'[r].at = "downloader"
      /\ removal'[r].node = removal[r].node /\ removal'[r].peer = removal[r].peer
      /\ \A q \in Removers : q # r => removal'[q] = removal[q]
      /\ snapSyncer' = snapSyncer \ {removal[r].node}
  <2>1. TypeOK /\ removal[r].at = "snap" /\ removal' = [removal EXCEPT ![r].at = "downloader"]
    BY <1>0 DEF Parts, RemoveFromSnap
  <2>2. removal[r] # NoRemoval /\ removal[r].node \in Nodes
    BY <2>1, RemovalRecord
  <2>3. /\ removal' \in [Removers -> Removal \cup {NoRemoval}]
        /\ removal'[r] # NoRemoval /\ removal'[r].at = "downloader"
        /\ removal'[r].node = removal[r].node /\ removal'[r].peer = removal[r].peer
        /\ \A q \in Removers : q # r => removal'[q] = removal[q]
    BY <2>1, <2>2, RemovalGoesOn
  <2>4. snapSyncer' = snapSyncer \ {removal[r].node} /\ snapSyncer' \subseteq Nodes
    BY <1>0, TypesAre DEF RemoveFromSnap
  <2>5. QED
    BY <2>1, <2>2, <2>3, <2>4
<1>3. TypeOK'
  BY <1>0, <1>1, <1>2 DEF Parts, TypeOK
<1>4. PivotInv' /\ AcceptsWhenSynced' /\ LimitSet' /\ QuietAfterStop'
  BY <1>0, <1>1 DEF Parts, PivotInv, AcceptsWhenSynced, LimitSet, QuietAfterStop, Registered
<1>5. SessionInv'
  <2>1. \A t \in Sessions :
           /\ removal'[<<t, "defer">>] # NoRemoval <=> removal[<<t, "defer">>] # NoRemoval
           /\ removal'[<<t, "defer">>].node = removal[<<t, "defer">>].node
    BY <1>2, RemoversAre
  <2>2. QED
    BY <1>0, <1>1, <2>1, TypesAre DEF Parts, SessionInv
<1>6. RemovalInv'
  BY <1>0, <1>1, <1>2, RemoversAre, TypesAre DEF Parts, RemovalInv, SettingUp
<1>7. SyncerInv'
  BY <1>0, <1>1, <1>2, RemoversAre, TypesAre DEF Parts, SyncerInv
<1>8. SetupInv'
  BY <1>0, <1>1, <1>2, RemoversAre, TypesAre DEF Parts, SetupInv
<1>9. OnlyPeersKnown'
  BY <1>0, <1>1, <1>2, TypesAre DEF Parts, OnlyPeersKnown
<1>10. QED
  BY <1>3, <1>4, <1>5, <1>6, <1>7, <1>8, <1>9, InvIs DEF HandlerInv

LEMMA StepRemoveFromDownloader ==
    ASSUME HandlerInv, NEW r \in Removers, RemoveFromDownloader(r)
    PROVE  HandlerInv'
<1>0. Parts
  BY InvIs
<1>1. UNCHANGED <<setup, height, pc, td, disconnected, challenge, peerWG, peers, closed,
      snapSyncer, crossed, stop, maxPeers, loop, doneCh, forced, force, sync, terminated, head,
      fastHead, pivot, fastSync, snapSync, acceptTxs>>
  BY DEF RemoveFromDownloader, remoteVars, loopVars, chainVars, flagVars, stopVars
<1>2. /\ removal' \in [Removers -> Removal \cup {NoRemoval}]
      /\ downloader' \subseteq Nodes
      /\ removal[r].at = "downloader" /\ removal[r] # NoRemoval /\ removal[r].node \in Nodes
      /\ removal'[r] # NoRemoval /\ removal'[r].at = "unregister"
      /\ removal'[r].node = removal[r].node /\ removal'[r].peer = removal[r].peer
      /\ \A q \in Removers : q # r => removal'[q] = removal[q]
      /\ downloader' = downloader \ {removal[r].node}
  <2>1. TypeOK /\ removal[r].at = "downloader" /\ removal' = [removal EXCEPT ![r].at =
          "unregister"]
    BY <1>0 DEF Parts, RemoveFromDownloader
  <2>2. removal[r] # NoRemoval /\ removal[r].node \in Nodes
    BY <2>1, RemovalRecord
  <2>3. /\ removal' \in [Removers -> Removal \cup {NoRemoval}]
        /\ removal'[r] # NoRemoval /\ removal'[r].at = "unregister"
        /\ removal'[r].node = removal[r].node /\ removal'[r].peer = removal[r].peer
        /\ \A q \in Removers : q # r => removal'[q] = removal[q]
    BY <2>1, <2>2, RemovalGoesOn
  <2>4. downloader' = downloader \ {removal[r].node} /\ downloader' \subseteq Nodes
    BY <1>0, TypesAre DEF RemoveFromDownloader
  <2>5. QED
    BY <2>1, <2>2, <2>3, <2>4
<1>3. TypeOK'
  BY <1>0, <1>1, <1>2 DEF Parts, TypeOK
<1>4. PivotInv' /\ AcceptsWhenSynced' /\ LimitSet' /\ QuietAfterStop'
  BY <1>0, <1>1 DEF Parts, PivotInv, AcceptsWhenSynced, LimitSet, QuietAfterStop, Registered
<1>5. SessionInv'
  <2>1. \A t \in Sessions :
           /\ removal'[<<t, "defer">>] # NoRemoval <=> removal[<<t, "defer">>] # NoRemoval
           /\ removal'[<<t, "defer">>].node = removal[<<t, "defer">>].node
    BY <1>2, RemoversAre
  <2>2. QED
    BY <1>0, <1>1, <2>1, TypesAre DEF Parts, SessionInv
<1>6. RemovalInv'
  BY <1>0, <1>1, <1>2, RemoversAre, TypesAre DEF Parts, RemovalInv, SettingUp
<1>7. SyncerInv'
  BY <1>0, <1>1, <1>2, RemoversAre, TypesAre DEF Parts, SyncerInv
<1>8. SetupInv'
  BY <1>0, <1>1, <1>2, RemoversAre, TypesAre DEF Parts, SetupInv
<1>9. OnlyPeersKnown'
  BY <1>0, <1>1, <1>2, TypesAre DEF Parts, OnlyPeersKnown
<1>10. QED
  BY <1>3, <1>4, <1>5, <1>6, <1>7, <1>8, <1>9, InvIs DEF HandlerInv

LEMMA NotFound ==
    ASSUME HandlerInv, NEW r \in Removers, peers[removal[r].node] = None, RemoveLooksUp(r)
    PROVE  HandlerInv'
<1>0. Parts
  BY InvIs
<1>1. UNCHANGED <<setup, height, pc, td, disconnected, challenge, peerWG, peers, closed,
      downloader, snapSyncer, crossed, stop, maxPeers, loop, doneCh, forced, force, sync,
      terminated, head, fastHead, pivot, fastSync, snapSync, acceptTxs>>
  BY DEF RemoveLooksUp, remoteVars, registryVars, loopVars, chainVars, flagVars, stopVars
<1>2. /\ removal' \in [Removers -> Removal \cup {NoRemoval}]
      /\ removal[r] # NoRemoval /\ removal[r].at = "lookup" /\ peers[removal[r].node] = None
      /\ removal'[r] = NoRemoval
      /\ \A q \in Removers : q # r => removal'[q] = removal[q]
  <2>1. TypeOK /\ removal[r].at = "lookup" /\ removal' = [removal EXCEPT ![r] = NoRemoval]
    BY <1>0 DEF Parts, RemoveLooksUp
  <2>2. QED
    BY <2>1, RemovalEnds, RemovalRecord
<1>3. TypeOK'
  BY <1>0, <1>1, <1>2 DEF Parts, TypeOK
<1>4. PivotInv' /\ OnlyPeersKnown' /\ AcceptsWhenSynced' /\ LimitSet' /\ QuietAfterStop'
  BY <1>0, <1>1 DEF Parts, PivotInv, OnlyPeersKnown, AcceptsWhenSynced, LimitSet, QuietAfterStop,
                    Registered
<1>5. SessionInv'
  <2>1. \A t \in Sessions :
           \/ removal'[<<t, "defer">>] = removal[<<t, "defer">>]
           \/ /\ removal'[<<t, "defer">>] = NoRemoval /\ removal[<<t, "defer">>] # NoRemoval
              /\ peers'[removal[<<t, "defer">>].node] = None
    BY <1>1, <1>2, RemoversAre
  <2>2. \A n \in Nodes : peers'[n] = peers[n] \/ peers'[n] = None
    BY <1>1, <1>2
  <2>3. QED
    BY <1>0, <1>1, <2>1, <2>2, TypesAre DEF Parts, SessionInv
<1>6. RemovalInv'
  BY <1>0, <1>1, <1>2, RemoversAre, TypesAre DEF Parts, RemovalInv, SettingUp
<1>7. SyncerInv'
  BY <1>0, <1>1, <1>2, RemoversAre, TypesAre DEF Parts, SyncerInv
<1>8. SetupInv'
  BY <1>0, <1>1, <1>2, RemoversAre, TypesAre DEF Parts, SetupInv, NoRemoval
<1>9. QED
  BY <1>3, <1>4, <1>5, <1>6, <1>7, <1>8, InvIs DEF HandlerInv

LEMMA Found ==
    ASSUME HandlerInv, NEW r \in Removers, peers[removal[r].node] # None, RemoveLooksUp(r)
    PROVE  HandlerInv'
<1>0. Parts
  BY InvIs
<1>1. UNCHANGED <<setup, height, pc, td, disconnected, challenge, peerWG, peers, closed,
      downloader, snapSyncer, crossed, stop, maxPeers, loop, doneCh, forced, force, sync,
      terminated, head, fastHead, pivot, fastSync, snapSync, acceptTxs>>
  BY DEF RemoveLooksUp, remoteVars, registryVars, loopVars, chainVars, flagVars, stopVars
<1>2. /\ removal' \in [Removers -> Removal \cup {NoRemoval}]
      /\ removal[r] # NoRemoval /\ removal[r].at = "lookup"
      /\ removal'[r] # NoRemoval /\ removal'[r].at = (IF removal[r].node \in Snap THEN "snap" ELSE
           "downloader")
      /\ removal'[r].node = removal[r].node /\ removal'[r].peer # None
      /\ \A q \in Removers : q # r => removal'[q] = removal[q]
  <2> DEFINE found == [at |-> IF removal[r].node \in Snap THEN "snap" ELSE "downloader",
                       node |-> removal[r].node, peer |-> peers[removal[r].node]]
  <2>1. TypeOK /\ removal[r].at = "lookup" /\ removal' = [removal EXCEPT ![r] = found]
    BY <1>0 DEF Parts, RemoveLooksUp
  <2>2. removal[r] # NoRemoval /\ removal[r].node \in Nodes
    BY <2>1, RemovalRecord
  <2>3. found \in Removal /\ found # NoRemoval
    BY <1>0, <2>2, TypesAre DEF Removal, NoRemoval
  <2>4. removal \in [Removers -> Removal \cup {NoRemoval}]
    BY <2>1 DEF TypeOK
  <2>5. QED
    BY <2>1, <2>2, <2>3, <2>4
<1>3. TypeOK'
  BY <1>0, <1>1, <1>2 DEF Parts, TypeOK
<1>4. PivotInv' /\ OnlyPeersKnown' /\ AcceptsWhenSynced' /\ LimitSet' /\ QuietAfterStop'
  BY <1>0, <1>1 DEF Parts, PivotInv, OnlyPeersKnown, AcceptsWhenSynced, LimitSet, QuietAfterStop,
                    Registered
<1>5. SessionInv'
  <2>1. \A t \in Sessions :
           /\ removal'[<<t, "defer">>] # NoRemoval <=> removal[<<t, "defer">>] # NoRemoval
           /\ removal'[<<t, "defer">>].node = removal[<<t, "defer">>].node
    BY <1>2, RemoversAre
  <2>2. QED
    BY <1>0, <1>1, <2>1, TypesAre DEF Parts, SessionInv
<1>6. RemovalInv'
  BY <1>0, <1>1, <1>2, RemoversAre, TypesAre DEF Parts, RemovalInv, SettingUp, SetupInv
<1>7. SyncerInv'
  BY <1>0, <1>1, <1>2, RemoversAre, TypesAre DEF Parts, SyncerInv
<1>8. SetupInv'
  BY <1>0, <1>1, <1>2, RemoversAre, TypesAre DEF Parts, SetupInv
<1>9. QED
  BY <1>3, <1>4, <1>5, <1>6, <1>7, <1>8, InvIs DEF HandlerInv

LEMMA StepRemoveLooksUp ==
    ASSUME HandlerInv, NEW r \in Removers, RemoveLooksUp(r)
    PROVE  HandlerInv'
  BY NotFound, Found

LEMMA StepRemoveUnregisters ==
    ASSUME HandlerInv, NEW r \in Removers, RemoveUnregisters(r)
    PROVE  HandlerInv'
<1>0. Parts
  BY InvIs
<1>1. UNCHANGED <<setup, height, pc, td, challenge, peerWG, closed, downloader, snapSyncer,
      crossed, stop, maxPeers, loop, doneCh, forced, force, sync, terminated, head, fastHead,
      pivot, fastSync, snapSync, acceptTxs>>
  BY DEF RemoveUnregisters, loopVars, chainVars, flagVars, stopVars
<1>2. /\ removal' \in [Removers -> Removal \cup {NoRemoval}]
      /\ peers' \in [Nodes -> Sessions \cup {None}]
      /\ disconnected' \subseteq Sessions
      /\ removal[r] # NoRemoval /\ removal[r].at = "unregister" /\ removal[r].node \in Nodes
      /\ peers'[removal[r].node] = None /\ \A m \in Nodes : m # removal[r].node => peers'[m] =
           peers[m]
      /\ removal'[r] = NoRemoval
      /\ \A q \in Removers : q # r => removal'[q] = removal[q]
  <2>1. TypeOK /\ removal[r].at = "unregister" /\ removal' = [removal EXCEPT ![r] = NoRemoval]
    BY <1>0 DEF Parts, RemoveUnregisters
  <2>2. removal[r] # NoRemoval /\ removal[r].node \in Nodes /\ removal[r].peer \in Sessions \cup
          {None}
    BY <2>1, RemovalRecord
  <2>3. removal[r].peer # None
    BY <1>0, <2>1 DEF Parts, SetupInv
  <2>4. disconnected' \in SUBSET Sessions
    BY <2>1, <2>2, <2>3 DEF TypeOK, RemoveUnregisters
  <2>5. /\ peers' \in [Nodes -> Sessions \cup {None}] /\ peers'[removal[r].node] = None
        /\ \A m \in Nodes : m # removal[r].node => peers'[m] = peers[m]
    BY <2>1, <2>2 DEF TypeOK, RemoveUnregisters
  <2>6. /\ removal' \in [Removers -> Removal \cup {NoRemoval}] /\ removal'[r] = NoRemoval
        /\ \A q \in Removers : q # r => removal'[q] = removal[q]
    BY <2>1, RemovalEnds
  <2>7. QED
    BY <2>1, <2>2, <2>4, <2>5, <2>6
<1>3. TypeOK'
  BY <1>0, <1>1, <1>2 DEF Parts, TypeOK
<1>4. PivotInv' /\ AcceptsWhenSynced' /\ LimitSet'
  BY <1>0, <1>1 DEF Parts, PivotInv, AcceptsWhenSynced, LimitSet
<1>5. SessionInv'
  <2>1. \A t \in Sessions :
           \/ removal'[<<t, "defer">>] = removal[<<t, "defer">>]
           \/ /\ removal'[<<t, "defer">>] = NoRemoval /\ removal[<<t, "defer">>] # NoRemoval
              /\ peers'[removal[<<t, "defer">>].node] = None
    BY <1>1, <1>2, RemoversAre
  <2>2. \A n \in Nodes : peers'[n] = peers[n] \/ peers'[n] = None
    BY <1>1, <1>2
  <2>3. QED
    BY <1>0, <1>1, <2>1, <2>2, TypesAre DEF Parts, SessionInv
<1>6. RemovalInv'
  BY <1>0, <1>1, <1>2, RemoversAre, TypesAre DEF Parts, RemovalInv, SettingUp
<1>7. SyncerInv'
  BY <1>0, <1>1, <1>2, RemoversAre, TypesAre DEF Parts, SyncerInv
<1>8. SetupInv'
  BY <1>0, <1>1, <1>2, RemoversAre, TypesAre DEF Parts, SetupInv, RemovalInv, SettingUp, NoRemoval
<1>9. OnlyPeersKnown'
  BY <1>0, <1>1, <1>2, TypesAre DEF Parts, OnlyPeersKnown, RemovalInv
<1>10. QuietAfterStop'
  BY <1>0, <1>1, <1>2, TypesAre DEF Parts, QuietAfterStop, Registered
<1>11. QED
  BY <1>3, <1>4, <1>5, <1>6, <1>7, <1>8, <1>9, <1>10, InvIs DEF HandlerInv

-----------------------------------------------------------------------------
(* The loop of the syncer, and Stop                                        *)

LEMMA StepStart == ASSUME HandlerInv, Start PROVE HandlerInv'
<1>0. Parts
  BY InvIs
<1>1. UNCHANGED <<setup, height, pc, td, disconnected, challenge, peerWG, removal, peers, closed,
      downloader, snapSyncer, crossed, doneCh, forced, sync, terminated, head, fastHead, pivot,
      fastSync, snapSync, acceptTxs>>
  BY DEF Start, loopOnly, Setup, remoteVars, registryVars, sessionVars, chainVars, flagVars
<1>2. /\ stop' \in {"before", "started", "quit", "close", "wait", "stopped"}
      /\ maxPeers' \in Nat
      /\ loop' \in {"off", "count", "pick", "select", "terminate", "join", "ended"}
      /\ force' \in [armed : BOOLEAN, tick : BOOLEAN]
      /\ stop = "before" /\ stop' = "started" /\ maxPeers' = setup.maxPeers /\ loop' = "count"
  BY <1>0 DEF Parts, TypeOK, Start, Setup
<1>3. TypeOK'
  BY <1>0, <1>1, <1>2 DEF Parts, TypeOK
<1>4. SessionInv' /\ RemovalInv' /\ PivotInv' /\ OnlyPeersKnown' /\ AcceptsWhenSynced'
  BY <1>0, <1>1 DEF Parts, SessionInv, RemovalInv, SettingUp, PivotInv, OnlyPeersKnown,
                    AcceptsWhenSynced
<1>5. SyncerInv'
  BY <1>0, <1>1, <1>2, TypesAre DEF Parts, SyncerInv
<1>6. SetupInv'
  BY <1>0, <1>1, <1>2, TypesAre DEF Parts, SetupInv
<1>7. LimitSet'
  BY <1>0, <1>1, <1>2, TypesAre DEF Parts, LimitSet, SyncerInv
<1>8. QuietAfterStop'
  BY <1>0, <1>1, <1>2, TypesAre DEF Parts, QuietAfterStop, Registered
<1>9. QED
  BY <1>3, <1>4, <1>5, <1>6, <1>7, <1>8, InvIs DEF HandlerInv

LEMMA StepCountsPeers == ASSUME HandlerInv, CountsPeers PROVE HandlerInv'
<1>0. Parts
  BY InvIs
<1>1. UNCHANGED <<setup, height, pc, td, disconnected, challenge, peerWG, removal, peers, closed,
      downloader, snapSyncer, crossed, stop, maxPeers, doneCh, forced, force, sync, terminated,
      head, fastHead, pivot, fastSync, snapSync, acceptTxs>>
  BY DEF CountsPeers, loopOnly, remoteVars, registryVars, sessionVars, chainVars, flagVars,
      stopVars
<1>2. /\ loop' \in {"off", "count", "pick", "select", "terminate", "join", "ended"}
      /\ loop = "count" /\ loop' \in {"select", "pick"}
      /\ loop' = "pick" => doneCh = "nil"
  BY <1>0 DEF Parts, TypeOK, CountsPeers
<1>3. TypeOK'
  BY <1>0, <1>1, <1>2 DEF Parts, TypeOK
<1>4. SessionInv' /\ RemovalInv' /\ PivotInv' /\ OnlyPeersKnown' /\ AcceptsWhenSynced' /\
      LimitSet'
  BY <1>0, <1>1 DEF Parts, SessionInv, RemovalInv, SettingUp, PivotInv, OnlyPeersKnown,
                    AcceptsWhenSynced, LimitSet
<1>5. SyncerInv'
  BY <1>0, <1>1, <1>2, TypesAre DEF Parts, SyncerInv
<1>6. SetupInv'
  BY <1>0, <1>1, <1>2, TypesAre DEF Parts, SetupInv
<1>7. QuietAfterStop'
  BY <1>0, <1>1, <1>2, TypesAre DEF Parts, QuietAfterStop, Registered
<1>8. QED
  BY <1>3, <1>4, <1>5, <1>6, <1>7, InvIs DEF HandlerInv

LEMMA StepForceTick == ASSUME HandlerInv, ForceTick PROVE HandlerInv'
<1>0. Parts
  BY InvIs
<1>1. UNCHANGED <<setup, height, pc, td, disconnected, challenge, peerWG, removal, peers, closed,
      downloader, snapSyncer, crossed, stop, maxPeers, doneCh, sync, terminated, head, fastHead,
      pivot, fastSync, snapSync, acceptTxs>>
  BY DEF ForceTick, loopOnly, remoteVars, registryVars, sessionVars, chainVars, flagVars, stopVars
<1>2. /\ loop' \in {"off", "count", "pick", "select", "terminate", "join", "ended"}
      /\ forced' \in BOOLEAN
      /\ force' \in [armed : BOOLEAN, tick : BOOLEAN]
      /\ loop = "select" /\ loop' = "count"
  BY <1>0 DEF Parts, TypeOK, ForceTick
<1>3. TypeOK'
  BY <1>0, <1>1, <1>2 DEF Parts, TypeOK
<1>4. SessionInv' /\ RemovalInv' /\ PivotInv' /\ OnlyPeersKnown' /\ AcceptsWhenSynced' /\
      LimitSet'
  BY <1>0, <1>1 DEF Parts, SessionInv, RemovalInv, SettingUp, PivotInv, OnlyPeersKnown,
                    AcceptsWhenSynced, LimitSet
<1>5. SyncerInv'
  BY <1>0, <1>1, <1>2, TypesAre DEF Parts, SyncerInv
<1>6. SetupInv'
  BY <1>0, <1>1, <1>2, TypesAre DEF Parts, SetupInv
<1>7. QuietAfterStop'
  BY <1>0, <1>1, <1>2, TypesAre DEF Parts, QuietAfterStop, Registered
<1>8. QED
  BY <1>3, <1>4, <1>5, <1>6, <1>7, InvIs DEF HandlerInv

LEMMA StepForceFires == ASSUME HandlerInv, ForceFires PROVE HandlerInv'
<1>0. Parts
  BY InvIs
<1>1. UNCHANGED <<setup, height, pc, td, disconnected, challenge, peerWG, removal, peers, closed,
      downloader, snapSyncer, crossed, stop, maxPeers, loop, doneCh, forced, sync, terminated,
      head, fastHead, pivot, fastSync, snapSync, acceptTxs>>
  BY DEF ForceFires, loopOnly, remoteVars, registryVars, sessionVars, chainVars, flagVars,
      stopVars
<1>2. /\ force' \in [armed : BOOLEAN, tick : BOOLEAN]
  BY <1>0 DEF Parts, TypeOK, ForceFires
<1>3. TypeOK'
  BY <1>0, <1>1, <1>2 DEF Parts, TypeOK
<1>4. SessionInv' /\ RemovalInv' /\ SyncerInv' /\ PivotInv' /\ SetupInv' /\ OnlyPeersKnown' /\
      AcceptsWhenSynced' /\ LimitSet' /\ QuietAfterStop'
  BY <1>0, <1>1 DEF Parts, SessionInv, RemovalInv, SettingUp, SyncerInv, PivotInv, SetupInv,
                    OnlyPeersKnown, AcceptsWhenSynced, LimitSet, QuietAfterStop, Registered
<1>5. QED
  BY <1>3, <1>4, InvIs DEF HandlerInv

LEMMA StepSyncDone == ASSUME HandlerInv, SyncDone PROVE HandlerInv'
<1>0. Parts
  BY InvIs
<1>1. UNCHANGED <<setup, height, pc, td, disconnected, challenge, peerWG, removal, peers, closed,
      downloader, snapSyncer, crossed, stop, maxPeers, sync, terminated, head, fastHead, pivot,
      fastSync, snapSync, acceptTxs>>
  BY DEF SyncDone, loopOnly, remoteVars, registryVars, sessionVars, chainVars, flagVars, stopVars
<1>2. /\ loop' \in {"off", "count", "pick", "select", "terminate", "join", "ended"}
      /\ doneCh' \in {"nil", "empty", "full"}
      /\ forced' \in BOOLEAN
      /\ force' \in [armed : BOOLEAN, tick : BOOLEAN]
      /\ loop = "select" /\ loop' = "count"
      /\ doneCh = "full" /\ doneCh' = "nil"
  BY <1>0 DEF Parts, TypeOK, SyncDone
<1>3. TypeOK'
  BY <1>0, <1>1, <1>2 DEF Parts, TypeOK
<1>4. SessionInv' /\ RemovalInv' /\ PivotInv' /\ OnlyPeersKnown' /\ AcceptsWhenSynced' /\
      LimitSet'
  BY <1>0, <1>1 DEF Parts, SessionInv, RemovalInv, SettingUp, PivotInv, OnlyPeersKnown,
                    AcceptsWhenSynced, LimitSet
<1>5. SyncerInv'
  BY <1>0, <1>1, <1>2, TypesAre DEF Parts, SyncerInv
<1>6. SetupInv'
  BY <1>0, <1>1, <1>2, TypesAre DEF Parts, SetupInv
<1>7. QuietAfterStop'
  BY <1>0, <1>1, <1>2, TypesAre DEF Parts, QuietAfterStop, Registered
<1>8. QED
  BY <1>3, <1>4, <1>5, <1>6, <1>7, InvIs DEF HandlerInv

LEMMA StepSyncerQuits == ASSUME HandlerInv, SyncerQuits PROVE HandlerInv'
<1>0. Parts
  BY InvIs
<1>1. UNCHANGED <<setup, height, pc, td, disconnected, challenge, peerWG, removal, peers, closed,
      downloader, snapSyncer, crossed, stop, maxPeers, doneCh, forced, force, sync, terminated,
      head, fastHead, pivot, fastSync, snapSync, acceptTxs>>
  BY DEF SyncerQuits, loopOnly, remoteVars, registryVars, sessionVars, chainVars, flagVars,
      stopVars
<1>2. /\ loop' \in {"off", "count", "pick", "select", "terminate", "join", "ended"}
      /\ loop = "select" /\ loop' = "terminate"
      /\ stop = "quit"
  BY <1>0 DEF Parts, TypeOK, SyncerQuits
<1>3. TypeOK'
  BY <1>0, <1>1, <1>2 DEF Parts, TypeOK
<1>4. SessionInv' /\ RemovalInv' /\ PivotInv' /\ OnlyPeersKnown' /\ AcceptsWhenSynced' /\
      LimitSet'
  BY <1>0, <1>1 DEF Parts, SessionInv, RemovalInv, SettingUp, PivotInv, OnlyPeersKnown,
                    AcceptsWhenSynced, LimitSet
<1>5. SyncerInv'
  BY <1>0, <1>1, <1>2, TypesAre DEF Parts, SyncerInv
<1>6. SetupInv'
  BY <1>0, <1>1, <1>2, TypesAre DEF Parts, SetupInv
<1>7. QuietAfterStop'
  BY <1>0, <1>1, <1>2, TypesAre DEF Parts, QuietAfterStop, Registered
<1>8. QED
  BY <1>3, <1>4, <1>5, <1>6, <1>7, InvIs DEF HandlerInv

LEMMA StepTerminates == ASSUME HandlerInv, Terminates PROVE HandlerInv'
<1>0. Parts
  BY InvIs
<1>1. UNCHANGED <<setup, height, pc, td, disconnected, challenge, peerWG, removal, peers, closed,
      downloader, snapSyncer, crossed, stop, maxPeers, doneCh, forced, force, sync, head,
      fastHead, pivot, fastSync, snapSync, acceptTxs>>
  BY DEF Terminates, loopOnly, remoteVars, registryVars, sessionVars, chainVars, flagVars
<1>2. /\ loop' \in {"off", "count", "pick", "select", "terminate", "join", "ended"}
      /\ terminated' \in BOOLEAN
      /\ loop = "terminate" /\ loop' = "join" /\ terminated'
  BY <1>0 DEF Parts, TypeOK, Terminates
<1>3. TypeOK'
  BY <1>0, <1>1, <1>2 DEF Parts, TypeOK
<1>4. SessionInv' /\ RemovalInv' /\ PivotInv' /\ OnlyPeersKnown' /\ AcceptsWhenSynced' /\
      LimitSet'
  BY <1>0, <1>1 DEF Parts, SessionInv, RemovalInv, SettingUp, PivotInv, OnlyPeersKnown,
                    AcceptsWhenSynced, LimitSet
<1>5. SyncerInv'
  BY <1>0, <1>1, <1>2, TypesAre DEF Parts, SyncerInv
<1>6. SetupInv'
  BY <1>0, <1>1, <1>2, TypesAre DEF Parts, SetupInv
<1>7. QuietAfterStop'
  BY <1>0, <1>1, <1>2, TypesAre DEF Parts, QuietAfterStop, Registered
<1>8. QED
  BY <1>3, <1>4, <1>5, <1>6, <1>7, InvIs DEF HandlerInv

LEMMA StepSyncerEnds == ASSUME HandlerInv, SyncerEnds PROVE HandlerInv'
<1>0. Parts
  BY InvIs
<1>1. UNCHANGED <<setup, height, pc, td, disconnected, challenge, peerWG, removal, peers, closed,
      downloader, snapSyncer, crossed, stop, maxPeers, forced, sync, terminated, head, fastHead,
      pivot, fastSync, snapSync, acceptTxs>>
  BY DEF SyncerEnds, loopOnly, remoteVars, registryVars, sessionVars, chainVars, flagVars,
      stopVars
<1>2. /\ loop' \in {"off", "count", "pick", "select", "terminate", "join", "ended"}
      /\ doneCh' \in {"nil", "empty", "full"}
      /\ force' \in [armed : BOOLEAN, tick : BOOLEAN]
      /\ loop = "join" /\ loop' = "ended"
      /\ doneCh \in {"nil", "full"} /\ doneCh' = "nil"
  BY <1>0 DEF Parts, TypeOK, SyncerEnds
<1>3. TypeOK'
  BY <1>0, <1>1, <1>2 DEF Parts, TypeOK
<1>4. SessionInv' /\ RemovalInv' /\ PivotInv' /\ OnlyPeersKnown' /\ AcceptsWhenSynced' /\
      LimitSet'
  BY <1>0, <1>1 DEF Parts, SessionInv, RemovalInv, SettingUp, PivotInv, OnlyPeersKnown,
                    AcceptsWhenSynced, LimitSet
<1>5. SyncerInv'
  BY <1>0, <1>1, <1>2, TypesAre DEF Parts, SyncerInv
<1>6. SetupInv'
  BY <1>0, <1>1, <1>2, TypesAre DEF Parts, SetupInv
<1>7. QuietAfterStop'
  BY <1>0, <1>1, <1>2, TypesAre DEF Parts, QuietAfterStop, Registered
<1>8. QED
  BY <1>3, <1>4, <1>5, <1>6, <1>7, InvIs DEF HandlerInv

LEMMA StepDropDone == ASSUME HandlerInv, DropDone PROVE HandlerInv'
<1>0. Parts
  BY InvIs
<1>1. UNCHANGED <<setup, height, pc, td, disconnected, challenge, peerWG, removal, peers, closed,
      downloader, snapSyncer, crossed, stop, maxPeers, loop, forced, force, terminated, head,
      fastHead, pivot, fastSync, snapSync, acceptTxs>>
  BY DEF DropDone, syncOnly, remoteVars, chainVars, flagVars, stopVars
<1>2. /\ doneCh' \in {"nil", "empty", "full"}
      /\ sync' \in SyncOp \cup {NoSync}
      /\ sync.at = "drop" /\ removal[Downloader] = NoRemoval /\ doneCh' = "full" /\ sync' = NoSync
  BY <1>0 DEF Parts, TypeOK, DropDone
<1>3. TypeOK'
  BY <1>0, <1>1, <1>2 DEF Parts, TypeOK
<1>4. SessionInv' /\ RemovalInv' /\ PivotInv' /\ OnlyPeersKnown' /\ AcceptsWhenSynced' /\
      LimitSet'
  BY <1>0, <1>1 DEF Parts, SessionInv, RemovalInv, SettingUp, PivotInv, OnlyPeersKnown,
                    AcceptsWhenSynced, LimitSet
<1>5. SyncerInv'
  BY <1>0, <1>1, <1>2, SyncRecord, TypesAre DEF Parts, SyncerInv
<1>6. SetupInv'
  BY <1>0, <1>1, <1>2, SyncRecord, TypesAre DEF Parts, SetupInv, SyncerInv
<1>7. QuietAfterStop'
  BY <1>0, <1>1, <1>2, SyncRecord, TypesAre DEF Parts, QuietAfterStop, Registered, SyncerInv
<1>8. QED
  BY <1>3, <1>4, <1>5, <1>6, <1>7, InvIs DEF HandlerInv

LEMMA StepStop == ASSUME HandlerInv, Stop PROVE HandlerInv'
<1>0. Parts
  BY InvIs
<1>1. UNCHANGED <<setup, height, pc, td, disconnected, challenge, peerWG, removal, peers, closed,
      downloader, snapSyncer, crossed, maxPeers, loop, doneCh, forced, force, sync, terminated,
      head, fastHead, pivot, fastSync, snapSync, acceptTxs>>
  BY DEF Stop, Stopping, sessionVars, loopVars, chainVars, flagVars
<1>2. /\ stop' \in {"before", "started", "quit", "close", "wait", "stopped"}
      /\ stop = "started" /\ stop' = "quit"
  BY <1>0 DEF Parts, TypeOK, Stop, Stopping
<1>3. TypeOK'
  BY <1>0, <1>1, <1>2 DEF Parts, TypeOK
<1>4. SessionInv' /\ RemovalInv' /\ PivotInv' /\ SetupInv' /\ OnlyPeersKnown' /\
      AcceptsWhenSynced' /\ LimitSet'
  BY <1>0, <1>1 DEF Parts, SessionInv, RemovalInv, SettingUp, PivotInv, SetupInv, OnlyPeersKnown,
                    AcceptsWhenSynced, LimitSet
<1>5. SyncerInv'
  BY <1>0, <1>1, <1>2, TypesAre DEF Parts, SyncerInv
<1>6. QuietAfterStop'
  BY <1>0, <1>1, <1>2, TypesAre DEF Parts, QuietAfterStop, Registered
<1>7. QED
  BY <1>3, <1>4, <1>5, <1>6, InvIs DEF HandlerInv

LEMMA StepStopWaits == ASSUME HandlerInv, StopWaits PROVE HandlerInv'
<1>0. Parts
  BY InvIs
<1>1. UNCHANGED <<setup, height, pc, td, disconnected, challenge, peerWG, removal, peers, closed,
      downloader, snapSyncer, crossed, maxPeers, loop, doneCh, forced, force, sync, terminated,
      head, fastHead, pivot, fastSync, snapSync, acceptTxs>>
  BY DEF StopWaits, Stopping, sessionVars, loopVars, chainVars, flagVars
<1>2. /\ stop' \in {"before", "started", "quit", "close", "wait", "stopped"}
      /\ stop = "quit" /\ stop' = "close"
      /\ loop = "ended"
  BY <1>0 DEF Parts, TypeOK, StopWaits, Stopping
<1>3. TypeOK'
  BY <1>0, <1>1, <1>2 DEF Parts, TypeOK
<1>4. SessionInv' /\ RemovalInv' /\ PivotInv' /\ SetupInv' /\ OnlyPeersKnown' /\
      AcceptsWhenSynced' /\ LimitSet'
  BY <1>0, <1>1 DEF Parts, SessionInv, RemovalInv, SettingUp, PivotInv, SetupInv, OnlyPeersKnown,
                    AcceptsWhenSynced, LimitSet
<1>5. SyncerInv'
  BY <1>0, <1>1, <1>2, TypesAre DEF Parts, SyncerInv, SetupInv
<1>6. QuietAfterStop'
  BY <1>0, <1>1, <1>2, TypesAre DEF Parts, QuietAfterStop, Registered
<1>7. QED
  BY <1>3, <1>4, <1>5, <1>6, InvIs DEF HandlerInv

LEMMA StepClosesPeers == ASSUME HandlerInv, ClosesPeers PROVE HandlerInv'
<1>0. Parts
  BY InvIs
<1>1. UNCHANGED <<setup, height, pc, td, challenge, peerWG, removal, peers, downloader,
      snapSyncer, crossed, maxPeers, loop, doneCh, forced, force, sync, terminated, head,
      fastHead, pivot, fastSync, snapSync, acceptTxs>>
  BY DEF ClosesPeers, Stopping, Registered, sessionVars, loopVars, chainVars, flagVars
<1>2. /\ stop' \in {"before", "started", "quit", "close", "wait", "stopped"}
      /\ closed' \in BOOLEAN
      /\ disconnected' \subseteq Sessions
      /\ stop = "close" /\ stop' = "wait"
      /\ closed'
  BY <1>0 DEF Parts, TypeOK, ClosesPeers, Stopping, Registered
<1>3. TypeOK'
  BY <1>0, <1>1, <1>2 DEF Parts, TypeOK
<1>4. SessionInv' /\ RemovalInv' /\ PivotInv' /\ SetupInv' /\ OnlyPeersKnown' /\
      AcceptsWhenSynced' /\ LimitSet'
  BY <1>0, <1>1 DEF Parts, SessionInv, RemovalInv, SettingUp, PivotInv, SetupInv, OnlyPeersKnown,
                    AcceptsWhenSynced, LimitSet
<1>5. SyncerInv'
  BY <1>0, <1>1, <1>2, TypesAre DEF Parts, SyncerInv
<1>6. QuietAfterStop'
  BY <1>0, <1>1, <1>2, TypesAre DEF Parts, QuietAfterStop, Registered
<1>7. QED
  BY <1>3, <1>4, <1>5, <1>6, InvIs DEF HandlerInv

LEMMA StepStopReturns == ASSUME HandlerInv, StopReturns PROVE HandlerInv'
<1>0. Parts
  BY InvIs
<1>1. UNCHANGED <<setup, height, pc, td, disconnected, challenge, peerWG, removal, peers, closed,
      downloader, snapSyncer, crossed, maxPeers, loop, doneCh, forced, force, sync, terminated,
      head, fastHead, pivot, fastSync, snapSync, acceptTxs>>
  BY DEF StopReturns, Stopping, sessionVars, loopVars, chainVars, flagVars
<1>2. /\ stop' \in {"before", "started", "quit", "close", "wait", "stopped"}
      /\ stop = "wait" /\ stop' = "stopped"
      /\ peerWG = {}
  BY <1>0 DEF Parts, TypeOK, StopReturns, Stopping
<1>3. TypeOK'
  BY <1>0, <1>1, <1>2 DEF Parts, TypeOK
<1>4. SessionInv' /\ RemovalInv' /\ PivotInv' /\ SetupInv' /\ OnlyPeersKnown' /\
      AcceptsWhenSynced' /\ LimitSet'
  BY <1>0, <1>1 DEF Parts, SessionInv, RemovalInv, SettingUp, PivotInv, SetupInv, OnlyPeersKnown,
                    AcceptsWhenSynced, LimitSet
<1>5. SyncerInv'
  BY <1>0, <1>1, <1>2, TypesAre DEF Parts, SyncerInv
<1>6. QuietAfterStop'
  <2>1. closed /\ loop = "ended" /\ doneCh = "nil"
    BY <1>0, <1>2 DEF Parts, SyncerInv
  <2>2. terminated /\ sync = NoSync
    BY <1>0, <2>1 DEF Parts, SyncerInv
  <2>3. ASSUME NEW n \in Nodes, peers[n] # None PROVE FALSE
    <3>1. peers[n] \in Sessions
      BY <1>0, <2>3 DEF Parts, TypeOK
    <3>2. peers[n] \in peerWG
      BY <1>0, <2>3, <3>1 DEF Parts, SessionInv
    <3>3. QED
      BY <1>2, <3>2
  <2>4. QED
    BY <1>1, <2>1, <2>2, <2>3 DEF QuietAfterStop, Registered
<1>7. QED
  BY <1>3, <1>4, <1>5, <1>6, InvIs DEF HandlerInv

-----------------------------------------------------------------------------
(* The goroutine of doSync, and the inserter                               *)

LEMMA StepPicksPeer == ASSUME HandlerInv, PicksPeer PROVE HandlerInv'
<1>0. Parts
  BY InvIs
<1>1. UNCHANGED <<setup, height, pc, td, disconnected, challenge, peerWG, removal, peers, closed,
      downloader, snapSyncer, crossed, stop, maxPeers, forced, force, terminated, head, fastHead,
      pivot, fastSync, snapSync, acceptTxs>>
  BY DEF PicksPeer, loopOnly, remoteVars, registryVars, sessionVars, chainVars, flagVars, stopVars
<1>2. /\ loop' \in {"off", "count", "pick", "select", "terminate", "join", "ended"}
      /\ doneCh' \in {"nil", "empty", "full"}
      /\ sync' \in SyncOp \cup {NoSync}
      /\ loop = "pick" /\ loop' = "select"
      /\ \/ doneCh' = doneCh /\ sync' = sync
         \/ doneCh' = "empty" /\ sync' # NoSync /\ sync'.at = "run"
  <2>1. /\ loop = "pick" /\ loop' = "select"
        /\ \/ doneCh' = doneCh /\ sync' = sync
           \/ \E s \in peerWithHighestTD :
                 /\ doneCh' = "empty"
                 /\ sync' = [at |-> "run", fast |-> fastMode, peer |-> s, td |-> td[s]]
    BY DEF PicksPeer
  <2>2. peerWithHighestTD \subseteq Sessions
    BY <1>0, TypesAre DEF peerWithHighestTD, Registered
  <2>3. fastMode \in BOOLEAN
    BY <1>0, Zenon DEF Parts, TypeOK, fastMode
  <2>4. CASE doneCh' = doneCh /\ sync' = sync
    BY <1>0, <2>1, <2>4 DEF Parts, TypeOK
  <2>5. ASSUME NEW s \in peerWithHighestTD, doneCh' = "empty",
               sync' = [at |-> "run", fast |-> fastMode, peer |-> s, td |-> td[s]]
        PROVE  sync' \in SyncOp /\ sync' # NoSync /\ sync'.at = "run"
    BY <1>0, <2>2, <2>3, <2>5 DEF Parts, TypeOK, SyncOp, NoSync
  <2>6. QED
    BY <2>1, <2>4, <2>5
<1>3. TypeOK'
  BY <1>0, <1>1, <1>2 DEF Parts, TypeOK
<1>4. SessionInv' /\ RemovalInv' /\ PivotInv' /\ OnlyPeersKnown' /\ AcceptsWhenSynced' /\
      LimitSet'
  BY <1>0, <1>1 DEF Parts, SessionInv, RemovalInv, SettingUp, PivotInv, OnlyPeersKnown,
                    AcceptsWhenSynced, LimitSet
<1>5. SyncerInv'
  BY <1>0, <1>1, <1>2, SyncRecord, TypesAre DEF Parts, SyncerInv, SetupInv
<1>6. SetupInv'
  BY <1>0, <1>1, <1>2, SyncRecord, TypesAre DEF Parts, SetupInv, SyncerInv
<1>7. QuietAfterStop'
  BY <1>0, <1>1, <1>2, TypesAre DEF Parts, QuietAfterStop, Registered, SyncerInv
<1>8. QED
  BY <1>3, <1>4, <1>5, <1>6, <1>7, InvIs DEF HandlerInv

LEMMA StepSynchroniseFails == ASSUME HandlerInv, SynchroniseFails PROVE HandlerInv'
<1>0. Parts
  BY InvIs
<1>1. UNCHANGED <<setup, height, pc, td, disconnected, challenge, peerWG, removal, peers, closed,
      downloader, snapSyncer, crossed, stop, maxPeers, loop, forced, force, terminated, fastSync,
      snapSync, acceptTxs>>
  BY DEF SynchroniseFails, syncOnly, remoteVars, chainVars, flagVars, stopVars
<1>2. /\ head' \in Nat
      /\ fastHead' \in Nat
      /\ pivot' \in Nat
      /\ doneCh' \in {"nil", "empty", "full"}
      /\ sync' \in SyncOp \cup {NoSync}
      /\ sync.at = "run" /\ doneCh' = "full" /\ sync' = NoSync
      /\ head' >= head
      /\ PivotInv'
  <2>1. sync.at = "run" /\ doneCh' = "full" /\ sync' = NoSync
    BY DEF SynchroniseFails
  <2>2. sync.peer \in Sessions
    BY <1>0, <2>1, SyncRecord DEF Parts
  <2> DEFINE n == Node[sync.peer]
  <2>3. head \in Nat /\ fastHead \in Nat /\ pivot \in Nat /\ height[n] \in Nat
    BY <1>0, <2>2, TypesAre DEF Parts, TypeOK
  <2>4. \/ UNCHANGED chainVars
        \/ /\ height[n] > fsMinFullBlocks /\ pivot' = height[n] - fsMinFullBlocks
           /\ fastHead' \in fastHead .. (pivot' - 1) /\ head' = head
        \/ /\ head' \in head .. height[n] /\ pivot' = pivot
           /\ fastHead' = IF head' > fastHead THEN head' ELSE fastHead
    BY DEF SynchroniseFails
  <2>5. fsMinFullBlocks \in Nat
    BY HandlerAssumption
  <2>6. head' \in Nat /\ fastHead' \in Nat /\ pivot' \in Nat /\ head' >= head
    BY <2>3, <2>4, <2>5 DEF chainVars
  <2>7. PivotInv'
    <3>1. CASE UNCHANGED chainVars
      BY <1>0, <3>1 DEF Parts, PivotInv, chainVars
    <3>2. CASE fastHead' \in fastHead .. (pivot' - 1)
      <4>1. fastHead \in Nat /\ pivot' \in Nat /\ fastHead' \in Nat
        BY <2>3, <2>6
      <4>2. fastHead' < pivot'
        BY <3>2, <4>1, BelowIs, Zenon
      <4>3. QED
        BY <4>2 DEF PivotInv
    <3>3. CASE /\ head' \in head .. height[n] /\ pivot' = pivot
               /\ fastHead' = IF head' > fastHead THEN head' ELSE fastHead
      BY <1>0, <2>3, <2>6, <3>3 DEF Parts, PivotInv
    <3>4. QED
      BY <2>4, <3>1, <3>2, <3>3
  <2>8. QED
    BY <2>1, <2>6, <2>7
<1>3. TypeOK'
  BY <1>0, <1>1, <1>2 DEF Parts, TypeOK
<1>4. SessionInv' /\ RemovalInv' /\ OnlyPeersKnown' /\ LimitSet'
  BY <1>0, <1>1 DEF Parts, SessionInv, RemovalInv, SettingUp, OnlyPeersKnown, LimitSet
<1>5. SyncerInv'
  BY <1>0, <1>1, <1>2, SyncRecord, TypesAre DEF Parts, SyncerInv
<1>6. PivotInv'
  BY <1>2
<1>7. SetupInv'
  BY <1>0, <1>1, <1>2, SyncRecord, TypesAre DEF Parts, SetupInv, SyncerInv
<1>8. AcceptsWhenSynced'
  <2>1. head \in Nat /\ head' \in Nat /\ setup.checkpoint \in Nat /\ head' >= head
    BY <1>0, <1>2 DEF Parts, TypeOK, Setup
  <2>2. head >= setup.checkpoint => head' >= setup.checkpoint
    BY <2>1
  <2>3. QED
    BY <1>0, <1>1, <2>2, Zenon DEF Parts, AcceptsWhenSynced
<1>9. QuietAfterStop'
  BY <1>0, <1>1, <1>2, SyncRecord, TypesAre DEF Parts, QuietAfterStop, Registered, SyncerInv
<1>10. QED
  BY <1>3, <1>4, <1>5, <1>6, <1>7, <1>8, <1>9, InvIs DEF HandlerInv

LEMMA StepSynchroniseDrops == ASSUME HandlerInv, SynchroniseDrops PROVE HandlerInv'
<1>0. Parts
  BY InvIs
<1>1. UNCHANGED <<setup, height, pc, td, disconnected, challenge, peerWG, peers, closed,
      downloader, snapSyncer, stop, maxPeers, loop, doneCh, forced, force, terminated, head,
      fastHead, pivot, fastSync, snapSync, acceptTxs>>
  BY DEF SynchroniseDrops, syncOnly, remoteVars, chainVars, flagVars, stopVars
<1>2. /\ removal' \in [Removers -> Removal \cup {NoRemoval}]
      /\ crossed' \subseteq Nodes
      /\ sync' \in SyncOp \cup {NoSync}
      /\ sync.at = "run" /\ sync'.at = "drop" /\ sync' # NoSync
      /\ Node[sync.peer] \in Nodes
      /\ removal'[Downloader] # NoRemoval /\ removal'[Downloader].at = "lookup"
      /\ removal'[Downloader].node = Node[sync.peer]
      /\ \A q \in Removers : q # Downloader => removal'[q] = removal[q]
      /\ SettingUp(Node[sync.peer]) => crossed' = crossed \cup {Node[sync.peer]}
      /\ ~SettingUp(Node[sync.peer]) => crossed' = crossed
  <2>1. sync.at = "run" /\ sync \in SyncOp /\ sync.peer \in Sessions
    BY <1>0, SyncRecord DEF Parts, SynchroniseDrops
  <2> DEFINE n == Node[sync.peer]
  <2>2. TypeOK /\ StartRemoval(Downloader, n) /\ Downloader \in Removers /\ n \in Nodes
    BY <1>0, <2>1, RemoversAre, TypesAre DEF Parts, SynchroniseDrops
  <2>3. /\ removal' \in [Removers -> Removal \cup {NoRemoval}]
        /\ removal'[Downloader] # NoRemoval /\ removal'[Downloader].at = "lookup"
        /\ removal'[Downloader].node = n
        /\ \A q \in Removers : q # Downloader => removal'[q] = removal[q]
    BY <2>2, RemovalStarts
  <2>4. sync' \in SyncOp /\ sync' # NoSync /\ sync'.at = "drop"
    BY <2>1 DEF SynchroniseDrops, SyncOp, NoSync
  <2>5. /\ crossed' \subseteq Nodes
        /\ SettingUp(n) => crossed' = crossed \cup {n}
        /\ ~SettingUp(n) => crossed' = crossed
    BY <2>2 DEF TypeOK, SynchroniseDrops
  <2>6. QED
    BY <2>1, <2>2, <2>3, <2>4, <2>5
<1>3. TypeOK'
  BY <1>0, <1>1, <1>2 DEF Parts, TypeOK
<1>4. PivotInv' /\ AcceptsWhenSynced' /\ LimitSet'
  BY <1>0, <1>1 DEF Parts, PivotInv, AcceptsWhenSynced, LimitSet
<1>5. SessionInv'
  <2>1. \A t \in Sessions : removal'[<<t, "defer">>] = removal[<<t, "defer">>]
    BY <1>2, RemoversAre
  <2>2. QED
    BY <1>0, <1>1, <2>1, TypesAre DEF Parts, SessionInv
<1>6. RemovalInv'
  BY <1>0, <1>1, <1>2, RemoversAre, TypesAre DEF Parts, RemovalInv, SettingUp
<1>7. SyncerInv'
  BY <1>0, <1>1, <1>2, RemoversAre, SyncRecord, TypesAre DEF Parts, SyncerInv
<1>8. SetupInv'
  BY <1>0, <1>1, <1>2, RemoversAre, TypesAre DEF Parts, SetupInv
<1>9. OnlyPeersKnown'
  BY <1>0, <1>1, <1>2, TypesAre DEF Parts, OnlyPeersKnown
<1>10. QuietAfterStop'
  BY <1>0, <1>1, <1>2, SyncRecord, TypesAre DEF Parts, QuietAfterStop, Registered, SyncerInv
<1>11. QED
  BY <1>3, <1>4, <1>5, <1>6, <1>7, <1>8, <1>9, <1>10, InvIs DEF HandlerInv

LEMMA StepSynchronised == ASSUME HandlerInv, Synchronised PROVE HandlerInv'
<1>0. Parts
  BY InvIs
<1>1. UNCHANGED <<setup, height, pc, td, disconnected, challenge, peerWG, removal, peers, closed,
      downloader, snapSyncer, crossed, stop, maxPeers, loop, doneCh, forced, force, terminated,
      fastSync, snapSync, acceptTxs>>
  BY DEF Synchronised, syncOnly, remoteVars, flagVars, stopVars
<1>2. /\ head' \in Nat
      /\ fastHead' \in Nat
      /\ pivot' \in Nat
      /\ sync' \in SyncOp \cup {NoSync}
      /\ sync.at = "run" /\ sync'.at = "flags" /\ sync' # NoSync
      /\ head' >= head
      /\ PivotInv'
  <2>1. sync.at = "run" /\ sync \in SyncOp /\ sync.peer \in Sessions
    BY <1>0, SyncRecord DEF Parts, Synchronised
  <2> DEFINE n == Node[sync.peer]
  <2>2. head \in Nat /\ fastHead \in Nat /\ pivot \in Nat /\ height[n] \in Nat
    BY <1>0, <2>1, TypesAre DEF Parts, TypeOK
  <2>3. /\ head' = IF height[n] > head THEN height[n] ELSE head
        /\ fastHead' = IF height[n] > fastHead THEN height[n] ELSE fastHead
        /\ \/ height[n] > fsMinFullBlocks /\ pivot' = height[n] - fsMinFullBlocks
           \/ pivot' = pivot
    BY DEF Synchronised
  <2>4. fsMinFullBlocks \in Nat
    BY HandlerAssumption
  <2>5. head' \in Nat /\ fastHead' \in Nat /\ pivot' \in Nat /\ head' >= head
    BY <2>2, <2>3, <2>4
  <2>6. PivotInv'
    BY <1>0, <2>2, <2>3, <2>4, <2>5 DEF Parts, PivotInv
  <2>7. sync' \in SyncOp /\ sync' # NoSync /\ sync'.at = "flags"
    BY <2>1 DEF Synchronised, SyncOp, NoSync
  <2>8. QED
    BY <2>1, <2>5, <2>6, <2>7
<1>3. TypeOK'
  BY <1>0, <1>1, <1>2 DEF Parts, TypeOK
<1>4. SessionInv' /\ RemovalInv' /\ SetupInv' /\ OnlyPeersKnown' /\ LimitSet'
  BY <1>0, <1>1 DEF Parts, SessionInv, RemovalInv, SettingUp, SetupInv, OnlyPeersKnown, LimitSet
<1>5. SyncerInv'
  BY <1>0, <1>1, <1>2, SyncRecord, TypesAre DEF Parts, SyncerInv
<1>6. PivotInv'
  BY <1>2
<1>7. AcceptsWhenSynced'
  <2>1. head \in Nat /\ head' \in Nat /\ setup.checkpoint \in Nat /\ head' >= head
    BY <1>0, <1>2 DEF Parts, TypeOK, Setup
  <2>2. head >= setup.checkpoint => head' >= setup.checkpoint
    BY <2>1
  <2>3. QED
    BY <1>0, <1>1, <2>2, Zenon DEF Parts, AcceptsWhenSynced
<1>8. QuietAfterStop'
  BY <1>0, <1>1, <1>2, SyncRecord, TypesAre DEF Parts, QuietAfterStop, Registered, SyncerInv
<1>9. QED
  BY <1>3, <1>4, <1>5, <1>6, <1>7, <1>8, InvIs DEF HandlerInv

LEMMA StepSyncFlags == ASSUME HandlerInv, SyncFlags PROVE HandlerInv'
<1>0. Parts
  BY InvIs
<1>1. UNCHANGED <<setup, height, pc, td, disconnected, challenge, peerWG, removal, peers, closed,
      downloader, snapSyncer, crossed, stop, maxPeers, loop, forced, force, terminated, head,
      fastHead, pivot>>
  BY DEF SyncFlags, syncOnly, remoteVars, chainVars, stopVars
<1>2. /\ fastSync' \in BOOLEAN
      /\ snapSync' \in BOOLEAN
      /\ acceptTxs' \in BOOLEAN
      /\ doneCh' \in {"nil", "empty", "full"}
      /\ sync' \in SyncOp \cup {NoSync}
      /\ sync.at = "flags" /\ doneCh' = "full" /\ sync' = NoSync
      /\ AcceptsWhenSynced'
  <2>1. /\ sync.at = "flags" /\ doneCh' = "full" /\ sync' = NoSync
        /\ fastSync' = FALSE /\ snapSync' = FALSE
        /\ acceptTxs' \in BOOLEAN
        /\ acceptTxs' => acceptTxs \/ head >= setup.checkpoint
    BY <1>0, Zenon DEF Parts, TypeOK, SyncFlags
  <2>2. AcceptsWhenSynced'
    BY <1>0, <1>1, <2>1, Zenon DEF Parts, AcceptsWhenSynced
  <2>3. /\ fastSync' \in BOOLEAN /\ snapSync' \in BOOLEAN
        /\ doneCh' \in {"nil", "empty", "full"} /\ sync' \in SyncOp \cup {NoSync}
    BY <2>1, Zenon
  <2>4. QED
    BY <2>1, <2>2, <2>3, Zenon
<1>3. TypeOK'
  BY <1>0, <1>1, <1>2 DEF Parts, TypeOK
<1>4. SessionInv' /\ RemovalInv' /\ PivotInv' /\ OnlyPeersKnown' /\ LimitSet'
  BY <1>0, <1>1 DEF Parts, SessionInv, RemovalInv, SettingUp, PivotInv, OnlyPeersKnown, LimitSet
<1>5. SyncerInv'
  BY <1>0, <1>1, <1>2, SyncRecord, TypesAre DEF Parts, SyncerInv
<1>6. SetupInv'
  BY <1>0, <1>1, <1>2, SyncRecord, TypesAre DEF Parts, SetupInv, SyncerInv
<1>7. AcceptsWhenSynced'
  BY <1>2
<1>8. QuietAfterStop'
  BY <1>0, <1>1, <1>2, SyncRecord, TypesAre DEF Parts, QuietAfterStop, Registered, SyncerInv
<1>9. QED
  BY <1>3, <1>4, <1>5, <1>6, <1>7, <1>8, InvIs DEF HandlerInv

LEMMA StepInserts == ASSUME HandlerInv, NEW n \in Nodes, Inserts(n) PROVE HandlerInv'
<1>0. Parts
  BY InvIs
<1>1. UNCHANGED <<setup, height, pc, td, disconnected, challenge, peerWG, removal, peers, closed,
      downloader, snapSyncer, crossed, stop, maxPeers, loop, doneCh, forced, force, sync,
      terminated, pivot, fastSync, snapSync>>
  BY DEF Inserts, remoteVars, registryVars, sessionVars, loopVars, stopVars
<1>2. /\ head' \in Nat
      /\ fastHead' \in Nat
      /\ acceptTxs' \in BOOLEAN
      /\ AcceptsWhenSynced'
      /\ PivotInv'
  <2>1. head \in Nat /\ fastHead \in Nat /\ pivot \in Nat /\ setup.checkpoint \in Nat
    BY <1>0 DEF Parts, TypeOK, Setup
  <2>2. head' = head + 1 /\ fastHead' = IF head' > fastHead THEN head' ELSE fastHead
    BY DEF Inserts
  <2>3. acceptTxs' = TRUE /\ ~fastSync /\ head >= setup.checkpoint
    BY DEF Inserts
  <2>4. head' \in Nat /\ fastHead' \in Nat /\ (head >= setup.checkpoint => head' >=
          setup.checkpoint)
    BY <2>1, <2>2
  <2>5. PivotInv'
    BY <1>0, <1>1, <2>1, <2>2 DEF Parts, PivotInv
  <2>6. AcceptsWhenSynced'
    BY <1>1, <2>3, <2>4, Zenon DEF AcceptsWhenSynced
  <2>7. QED
    BY <2>3, <2>4, <2>5, <2>6
<1>3. TypeOK'
  BY <1>0, <1>1, <1>2 DEF Parts, TypeOK
<1>4. SessionInv' /\ RemovalInv' /\ SyncerInv' /\ SetupInv' /\ OnlyPeersKnown' /\ LimitSet' /\
      QuietAfterStop'
  BY <1>0, <1>1 DEF Parts, SessionInv, RemovalInv, SettingUp, SyncerInv, SetupInv, OnlyPeersKnown,
                    LimitSet, QuietAfterStop, Registered
<1>5. PivotInv'
  BY <1>2
<1>6. AcceptsWhenSynced'
  BY <1>2
<1>7. QED
  BY <1>3, <1>4, <1>5, <1>6, InvIs DEF HandlerInv

-----------------------------------------------------------------------------
(* The theorem                                                             *)

LEMMA InitInvariant == Init => HandlerInv
<1> SUFFICES ASSUME Init PROVE HandlerInv
  OBVIOUS
<1>1. setup \in Setup
  BY HandlerAssumption DEF Init
<1>2. /\ setup.heights \in [Nodes -> Nat] /\ setup.head \in Nat /\ setup.fastHead \in Nat
      /\ setup.maxPeers \in Nat /\ setup.maxPeers # 0
  BY <1>1 DEF Setup
<1>3. head \in Nat /\ fastHead \in Nat /\ pivot \in Nat /\ PivotInv
  BY <1>2 DEF Init, PivotInv
<1>4. fastSync \in BOOLEAN /\ snapSync \in BOOLEAN /\ acceptTxs = FALSE
  BY DEF Init
<1>5. /\ pc \in [Sessions -> Pcs] /\ \A s \in Sessions : pc[s] = "away"
      /\ td \in [Sessions -> Nat]
      /\ challenge \in [Sessions -> {"off", "armed", "fired"}] /\ \A s \in Sessions : challenge[s]
           = "off"
  BY DEF Init, Pcs
<1>6. /\ removal \in [Removers -> Removal \cup {NoRemoval}]
      /\ \A r \in Removers : removal[r] = NoRemoval
      /\ peers \in [Nodes -> Sessions \cup {None}] /\ \A n \in Nodes : peers[n] = None
  BY DEF Init
<1>7. /\ disconnected = {} /\ peerWG = {} /\ closed = FALSE
      /\ downloader = {} /\ snapSyncer = {} /\ crossed = {}
      /\ stop = "before" /\ maxPeers = 0 /\ terminated = FALSE /\ loop = "off" /\ doneCh = "nil"
      /\ forced = FALSE /\ force = [armed |-> FALSE, tick |-> FALSE] /\ sync = NoSync
      /\ height = setup.heights
  BY DEF Init
<1>8. TypeOK
  BY <1>1, <1>2, <1>3, <1>4, <1>5, <1>6, <1>7 DEF TypeOK
<1>9. SessionInv /\ LimitSet
  BY <1>5, <1>6, <1>7, RemoversAre, HandlerAssumption DEF SessionInv, LimitSet
<1>10. RemovalInv /\ OnlyPeersKnown /\ SetupInv
  BY <1>5, <1>6, <1>7 DEF RemovalInv, OnlyPeersKnown, SetupInv, NoRemoval
<1>11. SyncerInv /\ QuietAfterStop
  BY <1>2, <1>6, <1>7, RemoversAre DEF SyncerInv, QuietAfterStop, NoSync
<1>12. AcceptsWhenSynced
  BY <1>4 DEF AcceptsWhenSynced
<1>13. QED
  BY <1>3, <1>8, <1>9, <1>10, <1>11, <1>12 DEF HandlerInv

LEMMA StutterInvariant == ASSUME HandlerInv, UNCHANGED vars PROVE HandlerInv'
<1>1. UNCHANGED <<setup, height, pc, td, disconnected, challenge, peerWG, removal, peers, closed,
      downloader, snapSyncer, crossed, stop, maxPeers, loop, doneCh, forced, force, sync,
      terminated, head, fastHead, pivot, fastSync, snapSync, acceptTxs>>
  BY DEF vars, remoteVars, registryVars, sessionVars, loopVars, chainVars, flagVars, stopVars
<1>2. TypeOK' /\ SessionInv' /\ RemovalInv' /\ SyncerInv' /\ PivotInv' /\ SetupInv'
  BY <1>1 DEF HandlerInv, TypeOK, SessionInv, RemovalInv, SettingUp, SyncerInv, PivotInv, SetupInv
<1>3. OnlyPeersKnown' /\ AcceptsWhenSynced' /\ LimitSet' /\ QuietAfterStop'
  BY <1>1 DEF HandlerInv, OnlyPeersKnown, AcceptsWhenSynced, LimitSet, QuietAfterStop, Registered
<1>4. QED
  BY <1>2, <1>3 DEF HandlerInv

LEMMA StepInvariant == ASSUME HandlerInv, [Next]_vars PROVE HandlerInv'
<1>1. ASSUME NEW s \in Sessions, SessionStep(s) PROVE HandlerInv'
  BY <1>1, StepTellsSyncer, StepSeesQuit, StepCounts, StepHandshake, StepChecksLimit,
     StepRegisterPeer, StepLooksUp, StepRegistersDownloader, StepRegistersSnap, StepChallenges,
     StepCleansUp, StepRemoved, StepLeaves, StepReturns DEF SessionStep
<1>2. ASSUME NEW s \in Sessions,
             Connect(s) \/ AnnouncesHead(s) \/ AnswersChallenge(s) \/ Breaks(s) \/
               ChallengeTimesOut(s)
      PROVE  HandlerInv'
  BY <1>2, StepConnect, StepAnnouncesHead, StepAnswersChallenge, StepBreaks, StepChallengeTimesOut
<1>3. ASSUME NEW n \in Nodes, Grows(n) \/ FetcherDrops(n) \/ Inserts(n) PROVE HandlerInv'
  BY <1>3, StepGrows, StepFetcherDrops, StepInserts
<1>4. ASSUME NEW r \in Removers, RemoveStep(r) PROVE HandlerInv'
  BY <1>4, StepRemoveLooksUp, StepRemoveFromSnap, StepRemoveFromDownloader, StepRemoveUnregisters
     DEF RemoveStep
<1>5. CASE LoopStep \/ ForceFires
  BY <1>5, StepCountsPeers, StepPicksPeer, StepSyncDone, StepForceTick, StepSyncerQuits,
     StepTerminates, StepSyncerEnds, StepForceFires DEF LoopStep
<1>6. CASE SyncStep
  BY <1>6, StepSynchroniseFails, StepSynchroniseDrops, StepDropDone, StepSynchronised,
     StepSyncFlags DEF SyncStep
<1>7. CASE Start \/ Stop \/ StopStep
  BY <1>7, StepStart, StepStop, StepStopWaits, StepClosesPeers, StepStopReturns DEF StopStep
<1>8. CASE UNCHANGED vars
  BY <1>8, StutterInvariant
<1>9. QED
  BY <1>1, <1>2, <1>3, <1>4, <1>5, <1>6, <1>7, <1>8 DEF Next

\* With any sessions and nodes, any of them lying, any configuration and any faults:
\* the registries agree with the peer set outside crossings, transactions are accepted
\* only when synced, and nothing of a session or of a sync is left once Stop returned.
THEOREM HandlerInvariant == Spec => []HandlerInv
  BY InitInvariant, StepInvariant, PTL DEF Spec

\* The downloader and the snap syncer know only registered nodes, but for those whose
\* registration a removal overlapped (handler.go:297, :302, :369).
THEOREM RegistriesAgree == Spec => []OnlyPeersKnown
<1>1. HandlerInv => OnlyPeersKnown
  BY DEF HandlerInv
<1>2. QED
  BY HandlerInvariant, <1>1, PTL

\* Once Stop has returned, no session is registered and no sync runs (handler.go:412).
THEOREM StopLeavesNothing == Spec => []QuietAfterStop
<1>1. HandlerInv => QuietAfterStop
  BY DEF HandlerInv
<1>2. QED
  BY HandlerInvariant, <1>1, PTL
=============================================================================
