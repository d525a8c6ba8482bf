------------------------------ MODULE Handler ------------------------------
(***************************************************************************)
(* The sessions with remote nodes and the chain synchroniser they drive:   *)
(* eth/handler.go (newHandler, runEthPeer, removePeer, Start, Stop) and    *)
(* the chainSyncer of eth/sync.go.                                         *)
(*                                                                         *)
(* Every session is a goroutine that enters its node in the peer set, the  *)
(* downloader and the snap syncer, one after the other.  removePeer takes  *)
(* the node out of the three again, found by its identity: it is called by *)
(* the session itself as it ends, by the timer of the checkpoint           *)
(* challenge, by the block fetcher, and by the downloader in the goroutine *)
(* of a sync.  The syncer's loop runs one sync at a time.                  *)
(*                                                                         *)
(* A block is its height, which is its total difficulty too: the external  *)
(* consensus adds one with every block.                                    *)
(***************************************************************************)
EXTENDS Naturals, FiniteSets

CONSTANTS
    Sessions,             \* connections of remote nodes, each used once
    Nodes,                \* remote nodes
    Node,                 \* the node of each session
    Snap,                 \* nodes that speak the snap protocol too
    Trusted,              \* nodes the limit of peers does not apply to
    Unsound,              \* nodes whose chain the downloader refuses
    defaultMinSyncPeers,  \* peers to sync without having waited
    fsMinFullBlocks,      \* how far below the head a fast sync has its pivot
    snapReserve,          \* how many more peers without the snap protocol than with it
    Setups,               \* configurations of this node, and bounds
    None                  \* nil

\* What the configuration and the database hold at the start, the heads the remote
\* nodes have and how many more they get, whether this node is stopped, and how often
\* something goes wrong by itself.
Setup == [connect : SUBSET Sessions, mode : {"full", "fast", "snap"}, head : Nat, fastHead : Nat,
          heights : [Nodes -> Nat], growth : Nat, checkpoint : Nat, challenge : BOOLEAN,
          maxPeers : Nat \ {0}, stops : BOOLEAN, faults : Nat]

ASSUME HandlerAssumption ==
    /\ IsFiniteSet(Nodes)
    /\ Node \in [Sessions -> Nodes]
    /\ defaultMinSyncPeers \in Nat \ {0}
    /\ fsMinFullBlocks \in Nat \ {0, 1}
    /\ snapReserve \in Nat
    /\ None \notin Sessions
    /\ Setups \subseteq Setup

VARIABLES
    setup,         \* the configuration; faults counts down what still goes wrong
    height,        \* the head of each remote node
    pc,            \* where each session is in runEthPeer
    td,            \* Peer.td, as the handshake or the last announcement said
    disconnected,  \* sessions whose connection is down
    challenge,     \* ethPeer.syncDrop: off, armed or fired
    peerWG,        \* sessions counted in handler.peerWG
    removal,       \* where each caller of removePeer is
    peers,         \* the peer set
    closed,        \* peerSet.closed
    downloader,    \* nodes registered with the downloader
    snapSyncer,    \* nodes registered with downloader.SnapSyncer
    crossed,       \* nodes whose latest registration a removal overlapped (history)
    stop,          \* where Start and Stop are
    maxPeers,      \* handler.maxPeers
    loop,          \* where the syncer's loop is
    doneCh,        \* chainSyncer.doneCh
    forced,        \* chainSyncer.forced
    force,         \* the force timer: armed, or with a tick in its channel
    sync,          \* where the goroutine of doSync is, with its operation
    terminated,    \* the chain takes no more inserts, the downloader is terminated
    head,          \* chain.CurrentBlock
    fastHead,      \* chain.CurrentFastBlock
    pivot,         \* rawdb.ReadLastPivotNumber, 0 for none
    fastSync,      \* handler.fastSync
    snapSync,      \* handler.snapSync
    acceptTxs      \* handler.acceptTxs

remoteVars == <<height, td, disconnected>>
registryVars == <<peers, closed, downloader, snapSyncer, crossed>>
sessionVars == <<pc, challenge, peerWG, removal>>
loopVars == <<loop, doneCh, forced, force>>
chainVars == <<head, fastHead, pivot>>
flagVars == <<fastSync, snapSync, acceptTxs>>
stopVars == <<stop, maxPeers, terminated>>
vars == <<setup, remoteVars, registryVars, sessionVars, loopVars, sync, chainVars, flagVars,
          stopVars>>

Pcs == {"away", "event", "add", "handshake", "check", "register", "lookup", "downloader",
        "snap", "announce", "challenge", "serving", "told", "cleanup", "remove", "leave", "gone"}

\* The callers of removePeer.
Fetcher == <<"fetcher", "drop">>
Downloader == <<"downloader", "drop">>
Removers == (Sessions \X {"defer", "timer"}) \cup {Fetcher, Downloader}
Removal == [at : {"lookup", "snap", "downloader", "unregister"}, node : Nodes,
            peer : Sessions \cup {None}]
NoRemoval == [at |-> "idle"]

SyncOp == [at : {"run", "drop", "flags"}, fast : BOOLEAN, peer : Sessions, td : Nat]
NoSync == [at |-> "idle"]

TypeOK ==
    /\ setup \in Setup
    /\ height \in [Nodes -> Nat]
    /\ pc \in [Sessions -> Pcs]
    /\ td \in [Sessions -> Nat]
    /\ disconnected \subseteq Sessions
    /\ challenge \in [Sessions -> {"off", "armed", "fired"}]
    /\ peerWG \subseteq Sessions
    /\ removal \in [Removers -> Removal \cup {NoRemoval}]
    /\ peers \in [Nodes -> Sessions \cup {None}]
    /\ closed \in BOOLEAN
    /\ downloader \subseteq Nodes
    /\ snapSyncer \subseteq Nodes
    /\ crossed \subseteq Nodes
    /\ stop \in {"before", "started", "quit", "close", "wait", "stopped"}
    /\ maxPeers \in Nat
    /\ loop \in {"off", "count", "pick", "select", "terminate", "join", "ended"}
    /\ doneCh \in {"nil", "empty", "full"}
    /\ forced \in BOOLEAN
    /\ force \in [armed : BOOLEAN, tick : BOOLEAN]
    /\ sync \in SyncOp \cup {NoSync}
    /\ terminated \in BOOLEAN
    /\ head \in Nat /\ fastHead \in Nat /\ pivot \in Nat
    /\ fastSync \in BOOLEAN /\ snapSync \in BOOLEAN /\ acceptTxs \in BOOLEAN

\* newHandler and newChainSyncer.  A database with a fast block but no full block
\* had a fast sync under way: it is taken up again, whatever the mode.
Init ==
    /\ setup \in Setups
    /\ height = setup.heights
    /\ pc = [s \in Sessions |-> "away"]
    /\ td = [s \in Sessions |-> 0]
    /\ disconnected = {}
    /\ challenge = [s \in Sessions |-> "off"]
    /\ peerWG = {}
    /\ removal = [r \in Removers |-> NoRemoval]
    /\ peers = [n \in Nodes |-> None]
    /\ closed = FALSE
    /\ downloader = {} /\ snapSyncer = {} /\ crossed = {}
    /\ stop = "before" /\ maxPeers = 0 /\ terminated = FALSE
    /\ loop = "off" /\ doneCh = "nil"
    /\ forced = FALSE
    /\ force = [armed |-> FALSE, tick |-> FALSE]
    /\ sync = NoSync
    /\ head = setup.head
    /\ IF setup.fastHead > setup.head
       THEN fastHead = setup.fastHead /\ pivot = setup.fastHead + 1
       ELSE fastHead = setup.head /\ pivot = 0
    /\ fastSync = (head = 0 /\ (setup.mode # "full" \/ fastHead > 0))
    /\ snapSync = (head = 0 /\ setup.mode = "snap")
    /\ acceptTxs = FALSE

-----------------------------------------------------------------------------
(* The goroutine of a session: runEthPeer                                  *)

Registered == {n \in Nodes : peers[n] # None}

Go(s, from, to) ==
    /\ pc[s] = from
    /\ pc' = [pc EXCEPT ![s] = to]

\* Nothing but where the session is.
Unregistered == UNCHANGED <<setup, remoteVars, registryVars, challenge, removal, loopVars, sync,
                            chainVars, flagVars, stopVars>>

\* A node connects, its snap extension too (waitSnapExtension).  The networking
\* layer (external) admits a node again when its last session is gone.
Connect(s) ==
    /\ Go(s, "away", "event")
    /\ s \in setup.connect
    /\ \A t \in Sessions : Node[t] = Node[s] => pc[t] \in {"away", "gone"}
    /\ Unregistered /\ UNCHANGED peerWG

\* handlePeerEvent is a rendezvous with the syncer's loop, or sees that the node
\* stops.  The first ends the session then, the others ignore it.
TellsSyncer(s) ==
    /\ loop = "select"
    /\ loop' = "count"
    /\ Go(s, "event", "add") \/ Go(s, "announce", "challenge") \/ Go(s, "told", "serving")
    /\ UNCHANGED <<setup, remoteVars, registryVars, challenge, peerWG, removal, doneCh, forced,
                   force, sync, chainVars, flagVars, stopVars>>

\* Mutant of SeesQuit: the plain send on peerEventCh.
SeesQuitOnce(s) ==
    /\ stop \in {"quit", "close", "wait", "stopped"}
    /\ Go(s, "event", "gone")
    /\ Unregistered /\ UNCHANGED peerWG

SeesQuit(s) ==
    /\ stop \in {"quit", "close", "wait", "stopped"}
    /\ \/ Go(s, "event", "gone")
       \/ Go(s, "announce", "challenge")
       \/ Go(s, "told", "serving")
    /\ Unregistered /\ UNCHANGED peerWG

Counts(s) ==
    /\ Go(s, "add", "handshake")
    /\ peerWG' = peerWG \cup {s}
    /\ Unregistered

\* The handshake tells the head of the remote node, or fails.
Handshake(s) ==
    /\ \/ Go(s, "handshake", "leave") /\ UNCHANGED td
       \/ /\ Go(s, "handshake", "check")
          /\ td' = [td EXCEPT ![s] = height[Node[s]]]
    /\ UNCHANGED <<setup, height, disconnected, registryVars, challenge, peerWG, removal,
                   loopVars, sync, chainVars, flagVars, stopVars>>

\* During a snap sync slots are kept free for nodes with the extension.
Reserved(s) ==
    /\ snapSync
    /\ Node[s] \notin Snap
    /\ Cardinality(Registered \ Snap) > Cardinality(Registered \cap Snap) + snapReserve

ChecksLimit(s) ==
    /\ IF Node[s] \notin Trusted /\ (Reserved(s) \/ Cardinality(Registered) >= maxPeers)
       THEN Go(s, "check", "leave")
       ELSE Go(s, "check", "register")
    /\ Unregistered /\ UNCHANGED peerWG

\* A removal of n is under way.
Removing(n) == \E r \in Removers : removal[r] # NoRemoval /\ removal[r].node = n

\* A registration of n meets a removal of n.
Crosses(n) == crossed' = IF Removing(n) THEN crossed \cup {n} ELSE crossed

\* Mutant of registerPeer: a peer set that was closed accepts peers.
registerLate(s) ==
    /\ Go(s, "register", "lookup")
    /\ peers' = [peers EXCEPT ![Node[s]] = s]
    /\ crossed' = IF Removing(Node[s]) THEN crossed \cup {Node[s]} ELSE crossed \ {Node[s]}
    /\ UNCHANGED <<setup, remoteVars, closed, downloader, snapSyncer, challenge, peerWG, removal,
                   loopVars, sync, chainVars, flagVars, stopVars>>

\* Refused when the set is closed or knows the node.
registerPeer(s) ==
    /\ IF closed \/ peers[Node[s]] # None
       THEN Go(s, "register", "leave") /\ UNCHANGED <<peers, crossed>>
       ELSE /\ Go(s, "register", "lookup")
            /\ peers' = [peers EXCEPT ![Node[s]] = s]
            /\ crossed' = IF Removing(Node[s]) THEN crossed \cup {Node[s]}
                                               ELSE crossed \ {Node[s]}
    /\ UNCHANGED <<setup, remoteVars, closed, downloader, snapSyncer, challenge, peerWG, removal,
                   loopVars, sync, chainVars, flagVars, stopVars>>

\* From here on the session removes its node when it ends.
StartRemoval(r, n) == removal' = [removal EXCEPT ![r] = [at |-> "lookup", node |-> n, peer |-> None]]

Fails(s, from) ==
    /\ Go(s, from, "remove")
    /\ StartRemoval(<<s, "defer">>, Node[s])
    /\ UNCHANGED <<setup, remoteVars, registryVars, challenge, peerWG, loopVars, sync, chainVars,
                   flagVars, stopVars>>

LooksUp(s) ==
    \/ peers[Node[s]] = None /\ Fails(s, "lookup")
    \/ /\ peers[Node[s]] # None
       /\ Go(s, "lookup", "downloader")
       /\ Unregistered /\ UNCHANGED peerWG

RegistersDownloader(s) ==
    \/ Node[s] \in downloader /\ Fails(s, "downloader")
    \/ /\ Node[s] \notin downloader
       /\ Go(s, "downloader", IF Node[s] \in Snap THEN "snap" ELSE "announce")
       /\ downloader' = downloader \cup {Node[s]}
       /\ Crosses(Node[s])
       /\ UNCHANGED <<setup, remoteVars, peers, closed, snapSyncer, challenge, peerWG, removal,
                      loopVars, sync, chainVars, flagVars, stopVars>>

RegistersSnap(s) ==
    \/ Node[s] \in snapSyncer /\ Fails(s, "snap")
    \/ /\ Node[s] \notin snapSyncer
       /\ Go(s, "snap", "announce")
       /\ snapSyncer' = snapSyncer \cup {Node[s]}
       /\ Crosses(Node[s])
       /\ UNCHANGED <<setup, remoteVars, peers, closed, downloader, challenge, peerWG, removal,
                      loopVars, sync, chainVars, flagVars, stopVars>>

\* The requests of the checkpoint's and the whitelisted headers may fail to be sent.
Challenges(s) ==
    \/ Fails(s, "challenge")
    \/ /\ Go(s, "challenge", "serving")
       /\ challenge' = [challenge EXCEPT ![s] = IF setup.challenge THEN "armed" ELSE "off"]
       /\ UNCHANGED <<setup, remoteVars, registryVars, peerWG, removal, loopVars, sync, chainVars,
                      flagVars, stopVars>>

\* The deferred calls in their order: the timer, removePeer, peerWG.
CleansUp(s) ==
    /\ Go(s, "cleanup", "remove")
    /\ challenge' = [challenge EXCEPT ![s] = IF @ = "armed" THEN "off" ELSE @]
    /\ StartRemoval(<<s, "defer">>, Node[s])
    /\ UNCHANGED <<setup, remoteVars, registryVars, peerWG, loopVars, sync, chainVars, flagVars,
                   stopVars>>

Leaves(s) ==
    /\ Go(s, "leave", "gone")
    /\ peerWG' = peerWG \ {s}
    /\ Unregistered

-----------------------------------------------------------------------------
(* The message handler of a session (external)                             *)

\* A head was announced: SetHead, then handlePeerEvent.
AnnouncesHead(s) ==
    /\ Go(s, "serving", "told")
    /\ td[s] < height[Node[s]]
    /\ td' = [td EXCEPT ![s] = height[Node[s]]]
    /\ UNCHANGED <<setup, height, disconnected, registryVars, challenge, peerWG, removal,
                   loopVars, sync, chainVars, flagVars, stopVars>>

\* The challenge is answered: the timer is stopped.
AnswersChallenge(s) ==
    /\ pc[s] = "serving"
    /\ challenge[s] = "armed"
    /\ challenge' = [challenge EXCEPT ![s] = "off"]
    /\ UNCHANGED <<setup, remoteVars, registryVars, pc, peerWG, removal, loopVars, sync,
                   chainVars, flagVars, stopVars>>

\* The connection breaks.
Breaks(s) ==
    /\ pc[s] = "serving"
    /\ s \notin disconnected
    /\ setup.faults > 0
    /\ setup' = [setup EXCEPT !.faults = @ - 1]
    /\ disconnected' = disconnected \cup {s}
    /\ UNCHANGED <<height, td, registryVars, sessionVars, loopVars, sync, chainVars, flagVars,
                   stopVars>>

\* handler(peer) returns.
Returns(s) ==
    /\ s \in disconnected
    /\ Go(s, "serving", "cleanup")
    /\ Unregistered /\ UNCHANGED peerWG

\* A remote node has a new head.
Grows(n) ==
    /\ height[n] < setup.heights[n] + setup.growth
    /\ height' = [height EXCEPT ![n] = @ + 1]
    /\ UNCHANGED <<setup, td, disconnected, registryVars, sessionVars, loopVars, sync, chainVars,
                   flagVars, stopVars>>

-----------------------------------------------------------------------------
(* removePeer                                                              *)

\* Whose session is setting up its registrations.
SettingUp(n) == \E s \in Sessions : Node[s] = n /\ pc[s] \in {"lookup", "downloader", "snap"}

\* The timer of the challenge fires and runs in a goroutine of its own.
ChallengeTimesOut(s) ==
    /\ challenge[s] = "armed"
    /\ challenge' = [challenge EXCEPT ![s] = "fired"]
    /\ StartRemoval(<<s, "timer">>, Node[s])
    /\ UNCHANGED <<setup, remoteVars, registryVars, pc, peerWG, loopVars, sync, chainVars,
                   flagVars, stopVars>>

\* The block fetcher drops a node that told it something bad some time ago.
FetcherDrops(n) ==
    /\ setup.faults > 0
    /\ removal[Fetcher] = NoRemoval
    /\ loop # "ended"
    /\ \E s \in Sessions : Node[s] = n /\ pc[s] \in {"serving", "cleanup", "remove", "leave", "gone"}
    /\ setup' = [setup EXCEPT !.faults = @ - 1]
    /\ StartRemoval(Fetcher, n)
    /\ crossed' = IF SettingUp(n) THEN crossed \cup {n} ELSE crossed
    /\ UNCHANGED <<remoteVars, peers, closed, downloader, snapSyncer, pc, challenge, peerWG,
                   loopVars, sync, chainVars, flagVars, stopVars>>

\* peers.peer(id): abort if the node is not registered.
RemoveLooksUp(r) ==
    /\ removal[r].at = "lookup"
    /\ LET n == removal[r].node IN
       removal' = [removal EXCEPT ![r] =
          IF peers[n] = None THEN NoRemoval
          ELSE [at |-> IF n \in Snap THEN "snap" ELSE "downloader", node |-> n, peer |-> peers[n]]]
    /\ UNCHANGED <<setup, remoteVars, registryVars, pc, challenge, peerWG, loopVars, sync,
                   chainVars, flagVars, stopVars>>

RemoveFromSnap(r) ==
    /\ removal[r].at = "snap"
    /\ snapSyncer' = snapSyncer \ {removal[r].node}
    /\ removal' = [removal EXCEPT ![r].at = "downloader"]
    /\ UNCHANGED <<setup, remoteVars, peers, closed, downloader, crossed, pc, challenge, peerWG,
                   loopVars, sync, chainVars, flagVars, stopVars>>

\* Mutant of RemoveFromDownloader: only the peer set forgets the node.
RemoveKeepsDownloader(r) ==
    /\ removal[r].at = "downloader"
    /\ removal' = [removal EXCEPT ![r].at = "unregister"]
    /\ UNCHANGED <<setup, remoteVars, registryVars, pc, challenge, peerWG,
                   loopVars, sync, chainVars, flagVars, stopVars>>

RemoveFromDownloader(r) ==
    /\ removal[r].at = "downloader"
    /\ downloader' = downloader \ {removal[r].node}
    /\ removal' = [removal EXCEPT ![r].at = "unregister"]
    /\ UNCHANGED <<setup, remoteVars, peers, closed, snapSyncer, crossed, pc, challenge, peerWG,
                   loopVars, sync, chainVars, flagVars, stopVars>>

\* unregisterPeer goes by the identity, Disconnect by the session looked up.
RemoveUnregisters(r) ==
    /\ removal[r].at = "unregister"
    /\ peers' = [peers EXCEPT ![removal[r].node] = None]
    /\ disconnected' = disconnected \cup {removal[r].peer}
    /\ removal' = [removal EXCEPT ![r] = NoRemoval]
    /\ UNCHANGED <<setup, height, td, closed, downloader, snapSyncer, crossed, pc, challenge,
                   peerWG, loopVars, sync, chainVars, flagVars, stopVars>>

Removed(s) ==
    /\ removal[<<s, "defer">>] = NoRemoval
    /\ Go(s, "remove", "leave")
    /\ Unregistered /\ UNCHANGED peerWG

-----------------------------------------------------------------------------
(* The loop of the syncer                                                  *)

loopOnly == UNCHANGED <<setup, remoteVars, registryVars, sessionVars, chainVars, flagVars>>

\* Start: the limit of peers, then the loops.  The networking layer may have
\* admitted sessions before.
Start ==
    /\ stop = "before"
    /\ stop' = "started"
    /\ maxPeers' = setup.maxPeers
    /\ loop' = "count"
    /\ force' = [force EXCEPT !.armed = TRUE]
    /\ loopOnly /\ UNCHANGED <<doneCh, forced, sync, terminated>>

Lowest(a, b) == IF a < b THEN a ELSE b

\* nextSyncOp, first part: a sync is running, or there are too few peers.
CountsPeers ==
    /\ loop = "count"
    /\ LET minPeers == IF forced THEN 1 ELSE Lowest(defaultMinSyncPeers, maxPeers) IN
       loop' = IF doneCh # "nil" \/ Cardinality(Registered) < minPeers THEN "select" ELSE "pick"
    /\ loopOnly /\ UNCHANGED <<doneCh, forced, force, sync, stopVars>>

\* peerWithHighestTD (external, the peer set): the first one that has the most.
peerWithHighestTD ==
    {peers[n] : n \in {m \in Registered : \A k \in Registered : td[peers[k]] <= td[peers[m]]}}

\* modeAndLocalHead.
fastMode == fastSync \/ (pivot # 0 /\ head < pivot)
ourTD == IF fastMode THEN fastHead ELSE head

\* td - 1 <= ourTD is in sync.
Behind(s) == td[s] > ourTD + 1

\* nextSyncOp, second part, and startSync.
PicksPeer ==
    /\ loop = "pick"
    /\ loop' = "select"
    /\ \/ /\ peerWithHighestTD = {}
          /\ UNCHANGED <<doneCh, sync>>
       \/ \E s \in peerWithHighestTD :
            IF Behind(s)
            THEN /\ doneCh' = "empty"
                 /\ sync' = [at |-> "run", fast |-> fastMode, peer |-> s, td |-> td[s]]
            ELSE UNCHANGED <<doneCh, sync>>
    /\ loopOnly /\ UNCHANGED <<forced, force, stopVars>>

\* Mutant of SyncDone: the timer is left as it is.
SyncDoneOnce ==
    /\ loop = "select"
    /\ doneCh = "full"
    /\ doneCh' = "nil"
    /\ forced' = FALSE
    /\ loop' = "count"
    /\ loopOnly /\ UNCHANGED <<force, sync, stopVars>>

\* The timer is set again, a tick it left in its channel stays there.
SyncDone ==
    /\ loop = "select"
    /\ doneCh = "full"
    /\ doneCh' = "nil"
    /\ forced' = FALSE
    /\ force' = [force EXCEPT !.armed = TRUE]
    /\ loop' = "count"
    /\ loopOnly /\ UNCHANGED <<sync, stopVars>>

ForceTick ==
    /\ loop = "select"
    /\ force.tick
    /\ force' = [force EXCEPT !.tick = FALSE]
    /\ forced' = TRUE
    /\ loop' = "count"
    /\ loopOnly /\ UNCHANGED <<doneCh, sync, stopVars>>

\* The runtime (external) puts the tick in the channel.
ForceFires ==
    /\ force.armed
    /\ force' = [armed |-> FALSE, tick |-> TRUE]
    /\ loopOnly /\ UNCHANGED <<loop, doneCh, forced, sync, stopVars>>

\* Quitting: StopInsert and Terminate, then wait for the sync under way.
SyncerQuits ==
    /\ loop = "select"
    /\ stop = "quit"
    /\ loop' = "terminate"
    /\ loopOnly /\ UNCHANGED <<doneCh, forced, force, sync, stopVars>>

Terminates ==
    /\ loop = "terminate"
    /\ terminated' = TRUE
    /\ loop' = "join"
    /\ loopOnly /\ UNCHANGED <<doneCh, forced, force, sync, stop, maxPeers>>

SyncerEnds ==
    /\ loop = "join"
    /\ doneCh \in {"nil", "full"}
    /\ doneCh' = "nil"
    /\ force' = [force EXCEPT !.armed = FALSE]
    /\ loop' = "ended"
    /\ loopOnly /\ UNCHANGED <<forced, sync, stopVars>>

-----------------------------------------------------------------------------
(* The goroutine of doSync                                                 *)

syncOnly == UNCHANGED <<setup, remoteVars, pc, challenge, peerWG, peers, closed, downloader,
                        snapSyncer, loop, forced, force, stopVars>>

\* Synchronise (external) fails: it was terminated, does not know the node, or
\* gave up.  It may have got somewhere, a fast sync only below its pivot.
SynchroniseFails ==
    /\ sync.at = "run"
    /\ terminated \/ Node[sync.peer] \notin downloader \cap Unsound
    /\ \/ UNCHANGED chainVars
       \/ LET n == Node[sync.peer] IN
          /\ ~terminated
          /\ n \in downloader \ Unsound
          /\ \/ /\ sync.fast
                /\ height[n] > fsMinFullBlocks
                /\ pivot' = height[n] - fsMinFullBlocks
                /\ fastHead' \in fastHead .. (pivot' - 1)
                /\ UNCHANGED head
             \/ /\ ~sync.fast
                /\ head' \in head .. height[n]
                /\ fastHead' = IF head' > fastHead THEN head' ELSE fastHead
                /\ UNCHANGED pivot
    /\ doneCh' = "full"
    /\ sync' = NoSync
    /\ syncOnly /\ UNCHANGED <<removal, crossed, flagVars>>

\* It blames the node and drops it, before it returns its error.
SynchroniseDrops ==
    /\ sync.at = "run"
    /\ ~terminated
    /\ LET n == Node[sync.peer] IN
       /\ n \in downloader
       /\ n \notin Unsound => setup.faults > 0
       /\ StartRemoval(Downloader, n)
       /\ crossed' = IF SettingUp(n) THEN crossed \cup {n} ELSE crossed
    /\ sync' = [sync EXCEPT !.at = "drop"]
    /\ syncOnly /\ UNCHANGED <<doneCh, chainVars, flagVars>>

DropDone ==
    /\ sync.at = "drop"
    /\ removal[Downloader] = NoRemoval
    /\ doneCh' = "full"
    /\ sync' = NoSync
    /\ syncOnly /\ UNCHANGED <<removal, crossed, chainVars, flagVars>>

\* It ends with the remote head on the chain.
Synchronised ==
    /\ sync.at = "run"
    /\ ~terminated
    /\ LET n == Node[sync.peer] IN
       /\ n \in downloader \ Unsound
       /\ head' = IF height[n] > head THEN height[n] ELSE head
       /\ fastHead' = IF height[n] > fastHead THEN height[n] ELSE fastHead
       /\ pivot' = IF sync.fast /\ height[n] > fsMinFullBlocks
                   THEN height[n] - fsMinFullBlocks ELSE pivot
    /\ sync' = [sync EXCEPT !.at = "flags"]
    /\ syncOnly /\ UNCHANGED <<doneCh, removal, crossed, flagVars>>

\* Fast sync is over; transactions are accepted past the checkpoint, when the
\* head is of the last month.  Then the head is announced (BlockPropagation).
SyncFlags ==
    /\ sync.at = "flags"
    /\ fastSync' = FALSE /\ snapSync' = FALSE
    /\ \E recent \in BOOLEAN : acceptTxs' = (acceptTxs \/ (head >= setup.checkpoint /\ recent))
    /\ doneCh' = "full"
    /\ sync' = NoSync
    /\ syncOnly /\ UNCHANGED <<removal, crossed, chainVars>>

\* newHandler's inserter, for a block that was propagated: discarded below the
\* checkpoint and during a fast sync.
Inserts(n) ==
    /\ loop \notin {"off", "ended"}
    /\ ~terminated
    /\ n \notin Unsound
    /\ head < height[n]
    /\ head >= setup.checkpoint
    /\ ~fastSync
    /\ head' = head + 1
    /\ fastHead' = IF head' > fastHead THEN head' ELSE fastHead
    /\ acceptTxs' = TRUE
    /\ UNCHANGED <<setup, remoteVars, registryVars, sessionVars, loopVars, sync, pivot, fastSync,
                   snapSync, stopVars>>

-----------------------------------------------------------------------------
(* Stop                                                                    *)

Stopping(from, to) ==
    /\ stop = from
    /\ stop' = to
    /\ UNCHANGED <<setup, height, td, downloader, snapSyncer, crossed, sessionVars, loopVars, sync,
                   chainVars, flagVars, maxPeers, terminated>>

\* close(quitSync).
Stop == setup.stops /\ Stopping("started", "quit") /\ UNCHANGED <<disconnected, peers, closed>>

\* wg.Wait.
StopWaits == loop = "ended" /\ Stopping("quit", "close") /\ UNCHANGED <<disconnected, peers, closed>>

\* peers.close (external, the peer set) disconnects everyone.
ClosesPeers ==
    /\ Stopping("close", "wait")
    /\ closed' = TRUE
    /\ disconnected' = disconnected \cup {peers[n] : n \in Registered}
    /\ UNCHANGED peers

\* peerWG.Wait.
StopReturns == peerWG = {} /\ Stopping("wait", "stopped") /\ UNCHANGED <<disconnected, peers, closed>>

-----------------------------------------------------------------------------

\* What a session does by itself.
SessionStep(s) ==
    \/ TellsSyncer(s) \/ SeesQuit(s) \/ Counts(s) \/ Handshake(s) \/ ChecksLimit(s)
    \/ registerPeer(s) \/ LooksUp(s) \/ RegistersDownloader(s) \/ RegistersSnap(s)
    \/ Challenges(s) \/ CleansUp(s) \/ Removed(s) \/ Leaves(s) \/ Returns(s)

RemoveStep(r) ==
    RemoveLooksUp(r) \/ RemoveFromSnap(r) \/ RemoveFromDownloader(r) \/ RemoveUnregisters(r)

LoopStep ==
    \/ CountsPeers \/ PicksPeer \/ SyncDone \/ ForceTick \/ SyncerQuits \/ Terminates
    \/ SyncerEnds

SyncStep == SynchroniseFails \/ SynchroniseDrops \/ DropDone \/ Synchronised \/ SyncFlags

StopStep == StopWaits \/ ClosesPeers \/ StopReturns

Next ==
    \/ \E s \in Sessions :
          \/ Connect(s) \/ SessionStep(s)
          \/ AnnouncesHead(s) \/ AnswersChallenge(s) \/ Breaks(s) \/ ChallengeTimesOut(s)
    \/ \E n \in Nodes : Grows(n) \/ FetcherDrops(n) \/ Inserts(n)
    \/ \E r \in Removers : RemoveStep(r)
    \/ LoopStep \/ ForceFires \/ SyncStep \/ Start \/ Stop \/ StopStep

\* Goroutines that can go on do, a case of a select that is ready again and again is
\* taken some time, the timer fires, and a sync with a sound node that is tried again
\* and again succeeds (external).  No node has to connect or to announce anything.
Fairness ==
    /\ WF_vars(\E s \in Sessions : SessionStep(s))
    /\ WF_vars(\E r \in Removers : RemoveStep(r))
    /\ WF_vars(LoopStep) /\ WF_vars(ForceFires) /\ WF_vars(SyncStep) /\ WF_vars(StopStep)
    /\ SF_vars(\E s \in Sessions : TellsSyncer(s)) /\ SF_vars(SyncerQuits)
    /\ SF_vars(Synchronised)

Spec == Init /\ [][Next]_vars /\ Fairness

-----------------------------------------------------------------------------

\* The downloader and the snap syncer only know nodes of the peer set, unless a
\* removal overlapped the latest registration of the node (handler.go:297, :302,
\* :369): also a node that was left behind is forgotten when its next session fails.
OnlyPeersKnown ==
    \A n \in (downloader \cup snapSyncer) \ crossed : peers[n] # None

\* Transactions are accepted only with the checkpoint on the chain and no fast sync
\* under way, whichever of doSync and the fetcher's inserter said so (handler.go:203,
\* sync.go:356).
AcceptsWhenSynced == acceptTxs => ~fastSync /\ head >= setup.checkpoint

\* No session passes the first handlePeerEvent before Start has set the limit of
\* peers, which a session compares with later (handler.go:246, :392).
LimitSet == \A s \in Sessions : pc[s] \notin {"away", "event", "gone"} => maxPeers = setup.maxPeers

\* Once Stop has returned, no session is registered or will be, and nothing writes to
\* the chain any more (handler.go:412): what is left of a session cannot pass the
\* closed peer set.
QuietAfterStop ==
    stop = "stopped" =>
        /\ closed /\ terminated
        /\ Registered = {}
        /\ sync = NoSync /\ loop = "ended"

\* Where the goroutines of a session and the removals are.
SessionInv ==
    /\ \A s, t \in Sessions :
          Node[s] = Node[t] /\ s # t => pc[s] \in {"away", "gone"} \/ pc[t] \in {"away", "gone"}
    /\ \A s \in Sessions :
          /\ pc[s] \in {"handshake", "check", "register", "lookup", "downloader", "snap", "announce",
                        "challenge", "serving", "told", "cleanup", "remove", "leave"} => s \in peerWG
          /\ s \in peerWG => pc[s] \notin {"away", "event", "add", "gone"}
          /\ removal[<<s, "defer">>] # NoRemoval =>
                pc[s] = "remove" /\ removal[<<s, "defer">>].node = Node[s]
          /\ challenge[s] = "armed" => pc[s] \in {"serving", "told", "cleanup"}
    /\ \A n \in Nodes :
          peers[n] # None =>
             /\ Node[peers[n]] = n
             /\ pc[peers[n]] \in {"lookup", "downloader", "snap", "announce", "challenge", "serving",
                                  "told", "cleanup", "remove"}
             /\ pc[peers[n]] = "remove" => removal[<<peers[n], "defer">>] # NoRemoval

\* What a removal has already taken away comes back only with a crossing.
RemovalInv ==
    \A r \in Removers : removal[r] # NoRemoval /\ removal[r].node \notin crossed =>
        /\ removal[r].at = "downloader" => removal[r].node \notin snapSyncer
        /\ removal[r].at = "unregister" => removal[r].node \notin snapSyncer \cup downloader
        /\ ~SettingUp(removal[r].node)

\* The syncer: one sync for each doneCh, and what is over once it quits.
SyncerInv ==
    /\ sync # NoSync <=> doneCh = "empty"
    /\ removal[Downloader] # NoRemoval => sync.at = "drop"
    /\ loop = "off" <=> stop = "before"
    /\ terminated <=> loop \in {"join", "ended"}
    /\ loop \in {"terminate", "join", "ended"} => stop \notin {"before", "started"}
    /\ stop \in {"close", "wait", "stopped"} => loop = "ended" /\ doneCh = "nil"
    /\ closed <=> stop \in {"wait", "stopped"}
    /\ stop # "before" <=> maxPeers = setup.maxPeers

\* A fast sync that stopped half-way left its fast block below the pivot.
PivotInv == pivot # 0 /\ head < pivot => fastHead < pivot

\* A session that sets up its registrations is in the peer set, unless a removal crossed
\* it; a removal past its look at the set has a session to disconnect; and the syncer
\* picks a peer with no sync under way.
SetupInv ==
    /\ snapSyncer \subseteq Snap
    /\ \A s \in Sessions :
          /\ pc[s] = "snap" => Node[s] \in Snap
          /\ pc[s] \in {"lookup", "downloader", "snap"} /\ Node[s] \notin crossed =>
                peers[Node[s]] # None
    /\ \A r \in Removers :
          removal[r].at \in {"snap", "downloader", "unregister"} => removal[r].peer # None
    /\ loop \in {"pick", "ended"} => doneCh = "nil"

HandlerInv ==
    /\ TypeOK /\ SessionInv /\ RemovalInv /\ SyncerInv /\ PivotInv /\ SetupInv
    /\ OnlyPeersKnown /\ AcceptsWhenSynced /\ LimitSet /\ QuietAfterStop

\* While a registered node stays and has told its head, this node comes within one
\* block of it (sync.go:273), although syncs fail half-way, lying nodes are preferred
\* until they are dropped, and there are fewer peers than wanted.
CatchesUp ==
    \A s \in Sessions :
        []<>(/\ stop = "started"
             /\ pc[s] \in {"serving", "told"}
             /\ peers[Node[s]] = s /\ Node[s] \in downloader \ Unsound
             /\ td[s] = height[Node[s]]
             => head + 1 >= td[s])

\* Stop returns, wherever sessions, removals and the sync are (handler.go:412).
StopEnds == stop = "quit" ~> stop = "stopped"
=============================================================================
