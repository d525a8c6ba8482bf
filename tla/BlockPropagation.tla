-------------------------- MODULE BlockPropagation --------------------------
(***************************************************************************)
(* Sealed and imported blocks on their way to the peers: BroadcastBlock    *)
(* and BroadcastBlockToAll of eth/handler.go, and the two block queues and *)
(* the known set that eth/protocols/eth/peer.go keeps for every peer.      *)
(*                                                                         *)
(* A broadcasting goroutine (a worker) reads which peers lack the block,   *)
(* and then offers it to one peer after the other without a lock: queue    *)
(* first, mark as known afterwards, drop when the queue is full.  The      *)
(* peer's own broadcaster empties its queues and marks again, and the      *)
(* peer's message handler marks what the peer tells.  Marking is itself a  *)
(* loop of three accesses to the set.                                      *)
(*                                                                         *)
(* A peer is one session with it.  A block stands for its hash.            *)
(***************************************************************************)
EXTENDS Naturals, Sequences, FiniteSets

CONSTANTS
    Peers,               \* sessions with remote nodes
    Blocks,              \* blocks that may be broadcast
    Parent,              \* the parent of each block
    Genesis,             \* the block on the chain from the start
    Workers,             \* goroutines that broadcast
    Announces,           \* the blocks each remote node tells of by itself
    maxKnownBlocks,      \* size at which the known set forgets
    maxQueuedBlocks,     \* capacity of queuedBlocks
    maxQueuedBlockAnns,  \* capacity of queuedBlockAnns
    Setups               \* bound: which nodes connect, how often each worker broadcasts

ASSUME PropagationAssumption ==
    /\ IsFiniteSet(Peers) /\ IsFiniteSet(Blocks) /\ IsFiniteSet(Workers)
    /\ Genesis \notin Blocks
    /\ Parent \in [Blocks -> Blocks \cup {Genesis}]
    /\ Announces \in [Peers -> SUBSET Blocks]
    /\ maxKnownBlocks \in Nat \ {0}
    /\ maxQueuedBlocks \in Nat \ {0}
    /\ maxQueuedBlockAnns \in Nat \ {0}
    /\ Setups \subseteq [connect : SUBSET Peers, broadcasts : [Workers -> Nat]]

VARIABLES
    chain,            \* the blocks of the chain
    session,          \* where each session is
    known,            \* Peer.knownBlocks
    queuedBlocks,     \* Peer.queuedBlocks
    queuedBlockAnns,  \* Peer.queuedBlockAnns
    sending,          \* the message in the hands of each peer's broadcaster
    ended,            \* the peers whose broadcaster has returned
    task,             \* the broadcast each worker is at
    mark,             \* what each goroutine is marking
    broadcasts,       \* how many broadcasts each worker may still make
    told,             \* the blocks each peer told of (history)
    received,         \* the blocks sent or announced to each peer (history)
    owed,             \* <<p, b>>: a finished broadcast of b was meant for p (history)
    dropped,          \* <<p, b>>: b met a full queue of p (history)
    queued,           \* <<w, p, b>>: worker w queued b for p (history)
    forgotten         \* <<p, b>>: the known set of p forgot b (history)

queueVars == <<queuedBlocks, queuedBlockAnns>>
peerVars == <<session, ended, sending>>
historyVars == <<told, received, owed, dropped, queued>>
vars == <<chain, known, queueVars, peerVars, task, mark, broadcasts, historyVars, forgotten>>

\* Block propagation and announcement.
Kinds == {"block", "hash"}
Message == [kind : Kinds, block : Blocks]
NoMessage == [kind |-> "none"]

\* The goroutines that mark blocks as known: each worker, and for each peer its
\* broadcaster and its message handler.
Markers == ({"worker"} \X Workers) \cup ({"broadcaster", "handler"} \X Peers)
Marking == [at : {"room", "pop", "add"}, peer : Peers, block : Blocks]
Unmarked == [at |-> "idle"]

Task == [kind : Kinds, block : Blocks, meant : SUBSET Peers, todo : SUBSET Peers]
NoTask == [kind |-> "none"]

TypeOK ==
    /\ chain \subseteq Blocks \cup {Genesis}
    /\ session \in [Peers -> {"new", "registered", "closed"}]
    /\ known \in [Peers -> SUBSET Blocks]
    /\ queuedBlocks \in [Peers -> Seq(Blocks)]
    /\ queuedBlockAnns \in [Peers -> Seq(Blocks)]
    /\ sending \in [Peers -> Message \cup {NoMessage}]
    /\ ended \subseteq Peers
    /\ task \in [Workers -> Task \cup {NoTask}]
    /\ mark \in [Markers -> Marking \cup {Unmarked}]
    /\ broadcasts \in [Workers -> Nat]
    /\ told \in [Peers -> SUBSET Blocks]
    /\ received \in [Peers -> SUBSET Blocks]
    /\ owed \subseteq Peers \X Blocks
    /\ dropped \subseteq Peers \X Blocks
    /\ queued \subseteq Workers \X Peers \X Blocks
    /\ forgotten \subseteq Peers \X Blocks

\* NewPeer makes the sets and the queues of a session.
Init ==
    /\ chain = {Genesis}
    /\ \E s \in Setups :
          /\ session = [p \in Peers |-> IF p \in s.connect THEN "new" ELSE "closed"]
          /\ broadcasts = s.broadcasts
          /\ ended = Peers \ s.connect
    /\ known = [p \in Peers |-> {}]
    /\ queuedBlocks = [p \in Peers |-> <<>>]
    /\ queuedBlockAnns = [p \in Peers |-> <<>>]
    /\ sending = [p \in Peers |-> NoMessage]
    /\ task = [w \in Workers |-> NoTask]
    /\ mark = [m \in Markers |-> Unmarked]
    /\ told = [p \in Peers |-> {}]
    /\ received = [p \in Peers |-> {}]
    /\ owed = {}
    /\ dropped = {}
    /\ queued = {}
    /\ forgotten = {}

-----------------------------------------------------------------------------
(* Marking                                                                 *)

StartMarking(m, p, b) ==
    mark' = [mark EXCEPT ![m] = [at |-> "room", peer |-> p, block |-> b]]

\* Mutant of Room: the set may reach its limit before anything is taken out.
RoomBeyond(m) ==
    /\ mark[m].at = "room"
    /\ mark' = [mark EXCEPT ![m].at =
                   IF Cardinality(known[mark[m].peer]) > maxKnownBlocks
                   THEN "pop" ELSE "add"]
    /\ UNCHANGED <<chain, known, queueVars, peerVars, task, broadcasts, historyVars, forgotten>>

\* Cardinality() of the set of the peer, under the set's own lock.
Room(m) ==
    /\ mark[m].at = "room"
    /\ mark' = [mark EXCEPT ![m].at =
                   IF Cardinality(known[mark[m].peer]) >= maxKnownBlocks
                   THEN "pop" ELSE "add"]
    /\ UNCHANGED <<chain, known, queueVars, peerVars, task, broadcasts, historyVars, forgotten>>

\* Pop() takes out any block.
Pop(m) ==
    /\ mark[m].at = "pop"
    /\ mark' = [mark EXCEPT ![m].at = "room"]
    /\ LET p == mark[m].peer IN
       \/ /\ known[p] = {}
          /\ UNCHANGED <<known, forgotten>>
       \/ \E b \in known[p] :
            /\ known' = [known EXCEPT ![p] = @ \ {b}]
            /\ forgotten' = forgotten \cup {<<p, b>>}
    /\ UNCHANGED <<chain, queueVars, peerVars, task, broadcasts, historyVars>>

Add(m) ==
    /\ mark[m].at = "add"
    /\ mark' = [mark EXCEPT ![m] = Unmarked]
    /\ known' = [known EXCEPT ![mark[m].peer] = @ \cup {mark[m].block}]
    /\ UNCHANGED <<chain, queueVars, peerVars, task, broadcasts, historyVars, forgotten>>

-----------------------------------------------------------------------------
(* The broadcasts                                                          *)

\* peersWithoutBlock (external, the peer set).
peersWithoutBlock(b) == {p \in Peers : session[p] = "registered" /\ b \notin known[p]}

\* int(math.Sqrt(float64(n))).
Root(n) == CHOOSE m \in 0 .. n : m * m <= n /\ n < (m + 1) * (m + 1)

StartTask(w, kind, b, meant, todo) ==
    /\ task[w] = NoTask
    /\ broadcasts[w] > 0
    /\ task' = [task EXCEPT ![w] = [kind |-> kind, block |-> b, meant |-> meant, todo |-> todo]]
    /\ broadcasts' = [broadcasts EXCEPT ![w] = @ - 1]
    /\ UNCHANGED <<chain, known, queueVars, peerVars, mark, historyVars, forgotten>>

\* Mutant of BroadcastBlockToAll: a subset of the peers, as BroadcastBlock does.
BroadcastToSome(w, b) ==
    /\ b \in chain
    /\ \E transfer \in SUBSET peersWithoutBlock(b) :
          /\ Cardinality(transfer) = Root(Cardinality(peersWithoutBlock(b)))
          /\ StartTask(w, "block", b, {p \in Peers : session[p] = "registered"}, transfer)

\* The sealed block is on the chain.  All registered peers are meant to have it.
BroadcastBlockToAll(w, b) ==
    /\ b \in chain
    /\ StartTask(w, "block", b, {p \in Peers : session[p] = "registered"}, peersWithoutBlock(b))

\* BroadcastBlock(b, true): a dangling block goes nowhere.
Propagate(w, b) ==
    /\ Parent[b] \in chain
    /\ \E transfer \in SUBSET peersWithoutBlock(b) :
          /\ Cardinality(transfer) = Root(Cardinality(peersWithoutBlock(b)))
          /\ StartTask(w, "block", b, transfer, transfer)

\* BroadcastBlock(b, false): only what is on the chain is announced.
Announce(w, b) ==
    /\ b \in chain
    /\ StartTask(w, "hash", b, {p \in Peers : session[p] = "registered"}, peersWithoutBlock(b))

\* Mutant of Offer: the block is marked whether or not it was queued.
OfferMarked(w, p, b, queue, capacity, kind) ==
    /\ task[w].kind = kind
    /\ mark[<<"worker", w>>] = Unmarked
    /\ p \in task[w].todo
    /\ task' = [task EXCEPT ![w].todo = @ \ {p}]
    /\ queued' = IF Len(queue[p]) < capacity THEN queued \cup {<<w, p, b>>} ELSE queued
    /\ dropped' = IF Len(queue[p]) < capacity THEN dropped ELSE dropped \cup {<<p, b>>}
    /\ StartMarking(<<"worker", w>>, p, b)
    /\ UNCHANGED <<chain, known, peerVars, broadcasts, told, received, owed, forgotten>>

\* Mutant of Offer: marking is left to the broadcaster.
OfferUnmarked(w, p, b, queue, capacity, kind) ==
    /\ task[w].kind = kind
    /\ mark[<<"worker", w>>] = Unmarked
    /\ p \in task[w].todo
    /\ task' = [task EXCEPT ![w].todo = @ \ {p}]
    /\ queued' = IF Len(queue[p]) < capacity THEN queued \cup {<<w, p, b>>} ELSE queued
    /\ dropped' = IF Len(queue[p]) < capacity THEN dropped ELSE dropped \cup {<<p, b>>}
    /\ UNCHANGED <<chain, known, peerVars, mark, broadcasts, told, received, owed, forgotten>>

\* AsyncSendNewBlock and AsyncSendNewBlockHash, with their queue: into the queue
\* and on to marking, or dropped.
Offer(w, p, b, queue, capacity, kind) ==
    /\ task[w].kind = kind
    /\ mark[<<"worker", w>>] = Unmarked
    /\ p \in task[w].todo
    /\ task' = [task EXCEPT ![w].todo = @ \ {p}]
    /\ UNCHANGED <<chain, known, peerVars, broadcasts, told, received, owed, forgotten>>
    /\ \/ /\ Len(queue[p]) < capacity
          /\ queued' = queued \cup {<<w, p, b>>}
          /\ StartMarking(<<"worker", w>>, p, b)
          /\ UNCHANGED dropped
       \/ /\ Len(queue[p]) = capacity
          /\ dropped' = dropped \cup {<<p, b>>}
          /\ UNCHANGED <<mark, queued>>

Push(queue, p, b, capacity) ==
    IF Len(queue[p]) < capacity THEN [queue EXCEPT ![p] = Append(@, b)] ELSE queue

AsyncSendNewBlock(w, p) ==
    /\ Offer(w, p, task[w].block, queuedBlocks, maxQueuedBlocks, "block")
    /\ queuedBlocks' = Push(queuedBlocks, p, task[w].block, maxQueuedBlocks)
    /\ UNCHANGED queuedBlockAnns

AsyncSendNewBlockHash(w, p) ==
    /\ Offer(w, p, task[w].block, queuedBlockAnns, maxQueuedBlockAnns, "hash")
    /\ queuedBlockAnns' = Push(queuedBlockAnns, p, task[w].block, maxQueuedBlockAnns)
    /\ UNCHANGED queuedBlocks

\* Every peer of the list was served.
Finish(w) ==
    /\ task[w] # NoTask
    /\ task[w].todo = {}
    /\ mark[<<"worker", w>>] = Unmarked
    /\ owed' = owed \cup (task[w].meant \X {task[w].block})
    /\ task' = [task EXCEPT ![w] = NoTask]
    /\ UNCHANGED <<chain, known, queueVars, peerVars, mark, broadcasts, told, received,
                   dropped, queued, forgotten>>

-----------------------------------------------------------------------------
(* A peer's broadcaster (external, started by NewPeer)                     *)

\* It takes a message from either queue; SendNewBlock and SendNewBlockHashes
\* mark the block and send it.
Take(p, queue, kind) ==
    /\ p \notin ended
    /\ sending[p] = NoMessage
    /\ queue[p] # <<>>
    /\ sending' = [sending EXCEPT ![p] = [kind |-> kind, block |-> Head(queue[p])]]
    /\ StartMarking(<<"broadcaster", p>>, p, Head(queue[p]))
    /\ UNCHANGED <<chain, known, session, ended, task, broadcasts, historyVars, forgotten>>

\* Mutant of SendNewBlock: what the peer is known to have is not sent.
SendUnknownBlock(p) ==
    /\ p \notin ended
    /\ queuedBlocks[p] # <<>>
    /\ IF Head(queuedBlocks[p]) \in known[p]
       THEN UNCHANGED <<chain, known, peerVars, task, mark, broadcasts, historyVars, forgotten>>
       ELSE Take(p, queuedBlocks, "block")
    /\ queuedBlocks' = [queuedBlocks EXCEPT ![p] = Tail(@)]
    /\ UNCHANGED queuedBlockAnns

SendNewBlock(p) ==
    /\ Take(p, queuedBlocks, "block")
    /\ queuedBlocks' = [queuedBlocks EXCEPT ![p] = Tail(@)]
    /\ UNCHANGED queuedBlockAnns

SendNewBlockHashes(p) ==
    /\ Take(p, queuedBlockAnns, "hash")
    /\ queuedBlockAnns' = [queuedBlockAnns EXCEPT ![p] = Tail(@)]
    /\ UNCHANGED queuedBlocks

\* p2p.Send after the marking.
Sent(p) ==
    /\ sending[p] # NoMessage
    /\ mark[<<"broadcaster", p>>] = Unmarked
    /\ received' = [received EXCEPT ![p] = @ \cup {sending[p].block}]
    /\ sending' = [sending EXCEPT ![p] = NoMessage]
    /\ UNCHANGED <<chain, known, queueVars, session, ended, task, mark, broadcasts, told, owed,
                   dropped, queued, forgotten>>

\* p2p.Send fails, or term is closed: the broadcaster returns.
BroadcasterEnds(p) ==
    /\ p \notin ended
    /\ mark[<<"broadcaster", p>>] = Unmarked
    /\ sending[p] # NoMessage \/ session[p] = "closed"
    /\ ended' = ended \cup {p}
    /\ sending' = [sending EXCEPT ![p] = NoMessage]
    /\ UNCHANGED <<chain, known, queueVars, session, task, mark, broadcasts, historyVars, forgotten>>

-----------------------------------------------------------------------------
(* Sessions, their message handlers, and the chain (external)              *)

\* registerPeer, and at the end of the session unregisterPeer and Peer.Close.
SessionStep(p) ==
    /\ \/ /\ session[p] = "new"
          /\ session' = [session EXCEPT ![p] = "registered"]
       \/ /\ session[p] = "registered"
          /\ session' = [session EXCEPT ![p] = "closed"]
    /\ UNCHANGED <<chain, known, queueVars, ended, sending, task, mark, broadcasts, historyVars,
                   forgotten>>

\* The remote node announces or propagates b: its handler calls markBlock.
markBlock(p, b) ==
    /\ session[p] = "registered"
    /\ b \in Announces[p] \ told[p]
    /\ mark[<<"handler", p>>] = Unmarked
    /\ told' = [told EXCEPT ![p] = @ \cup {b}]
    /\ StartMarking(<<"handler", p>>, p, b)
    /\ UNCHANGED <<chain, known, queueVars, peerVars, task, broadcasts, received, owed, dropped,
                   queued, forgotten>>

Insert(b) ==
    /\ b \notin chain
    /\ Parent[b] \in chain
    /\ chain' = chain \cup {b}
    /\ UNCHANGED <<known, queueVars, peerVars, task, mark, broadcasts, historyVars, forgotten>>

-----------------------------------------------------------------------------

MarkStep(m) == Room(m) \/ Pop(m) \/ Add(m)

WorkerStep(w) ==
    \/ \E p \in Peers : AsyncSendNewBlock(w, p) \/ AsyncSendNewBlockHash(w, p)
    \/ MarkStep(<<"worker", w>>)
    \/ Finish(w)

\* A broadcaster as long as its connection holds.
BroadcasterStep(p) ==
    \/ SendNewBlock(p) \/ SendNewBlockHashes(p) \/ Sent(p)
    \/ MarkStep(<<"broadcaster", p>>)

Next ==
    \/ \E w \in Workers :
          \/ \E b \in Blocks : BroadcastBlockToAll(w, b) \/ Propagate(w, b) \/ Announce(w, b)
          \/ WorkerStep(w)
    \/ \E p \in Peers :
          \/ BroadcasterStep(p) \/ BroadcasterEnds(p) \/ SessionStep(p)
          \/ MarkStep(<<"handler", p>>)
          \/ \E b \in Blocks : markBlock(p, b)
    \/ \E b \in Blocks : Insert(b)

\* Goroutines that can go on do; nobody has to broadcast, to connect or to leave.
Fairness ==
    /\ \A w \in Workers : WF_vars(WorkerStep(w))
    /\ \A p \in Peers : WF_vars(BroadcasterStep(p))

Spec == Init /\ [][Next]_vars /\ Fairness
-----------------------------------------------------------------------------

\* The peer has b, or has it coming.
Heard(p, b) ==
    \/ b \in told[p] \cup received[p]
    \/ \E i \in 1 .. Len(queuedBlocks[p]) : queuedBlocks[p][i] = b
    \/ \E i \in 1 .. Len(queuedBlockAnns[p]) : queuedBlockAnns[p][i] = b
    \/ sending[p] # NoMessage /\ sending[p].block = b

\* A block marked as known was told by the peer, was sent to it, or is on its
\* way (peer.go:348): what a full queue drops is never taken for known, although
\* queue and mark are two steps and the snapshot of the peers is old.
KnownMeansHeard ==
    \A p \in Peers : \A b \in known[p] : Heard(p, b) \/ p \in ended

\* Where the marks in progress stand.
MarkInv ==
    /\ \A m \in Markers : mark[m] # Unmarked =>
          Heard(mark[m].peer, mark[m].block) \/ mark[m].peer \in ended
    /\ \A p \in Peers :
          /\ mark[<<"broadcaster", p>>] # Unmarked =>
                mark[<<"broadcaster", p>>].peer = p /\ sending[p] # NoMessage
          /\ mark[<<"handler", p>>] # Unmarked => mark[<<"handler", p>>].peer = p
    /\ \A w \in Workers : task[w] = NoTask => mark[<<"worker", w>>] = Unmarked

\* A broadcast in progress has offered the block to everyone it is meant for and
\* no longer has to.
TaskInv ==
    \A w \in Workers : task[w] # NoTask =>
        /\ task[w].todo \subseteq task[w].meant
        /\ \A p \in task[w].meant \ task[w].todo :
              \/ Heard(p, task[w].block)
              \/ <<p, task[w].block>> \in dropped
              \/ p \in ended

\* What a worker queued is known, unless it was forgotten or is still being marked.
QueuedInv ==
    \A w \in Workers, p \in Peers, b \in Blocks :
        <<w, p, b>> \in queued =>
            \/ b \in known[p]
            \/ <<p, b>> \in forgotten
            \/ /\ mark[<<"worker", w>>] # Unmarked
               /\ mark[<<"worker", w>>].peer = p /\ mark[<<"worker", w>>].block = b

\* After a broadcast to all or an announcement, every peer registered when it
\* began has the block, has it coming, or met a full queue (handler.go:436, :490),
\* whatever the other goroutines did in between.
OwedIsHeard ==
    \A p \in Peers, b \in Blocks :
        <<p, b>> \in owed => Heard(p, b) \/ <<p, b>> \in dropped \/ p \in ended

\* The goroutines that may be marking for p, and those past the check.
MarkersOf(p) == ({"worker"} \X Workers) \cup ({"broadcaster", "handler"} \X {p})
Adding(p) == {m \in MarkersOf(p) : mark[m].at = "add" /\ mark[m].peer = p}

\* The known set outgrows its limit by no more than the goroutines that saw room
\* in it at the same time (peer.go:174).
KnownBounded ==
    \A p \in Peers :
        Cardinality(known[p]) + Cardinality(Adding(p)) < maxKnownBlocks + Cardinality(MarkersOf(p))

PropagationInv == TypeOK /\ KnownMeansHeard /\ MarkInv /\ TaskInv /\ QueuedInv /\ KnownBounded

\* A goroutine does not offer a block to a peer it queued the block for before,
\* unless the peer's known set forgot it (peer.go:171): the mark that follows the
\* queueing is in place when the goroutine looks at the peers again.
QueuedOnce ==
    \A w \in Workers, p \in Peers, b \in Blocks :
        <<w, p, b>> \in queued /\ task[w] # NoTask /\ task[w].block = b /\ p \in task[w].todo =>
            <<p, b>> \in forgotten

\* What finished broadcasts owe to the peers is settled again and again: each peer
\* gets the block, had it, met a full queue, or its connection broke.
OwedIsReceived ==
    []<>(\A p \in Peers, b \in Blocks : <<p, b>> \in owed =>
            b \in told[p] \cup received[p] \/ <<p, b>> \in dropped \/ p \in ended)
=============================================================================
