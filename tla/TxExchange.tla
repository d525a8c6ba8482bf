---------------------------- MODULE TxExchange ----------------------------
(***************************************************************************)
(* Pending transactions on their way to the peers: what a new session is   *)
(* told at once (syncTransactions and txsyncLoop64 of eth/sync.go) and     *)
(* what is broadcast as it arrives (txBroadcastLoop, BroadcastTransactions *)
(* of eth/handler.go), with the sends of eth/protocols/eth/peer.go.        *)
(*                                                                         *)
(* A session of eth/65 and later is sent announcements, through a channel  *)
(* without a buffer that the session's own announcer reads.  An older one  *)
(* has no announcer; its initial transactions are handed to txsyncLoop64,  *)
(* which sends them in packs, one pack at a time to all such sessions, and *)
(* finds what is left to send by the identity of the node.                 *)
(*                                                                         *)
(* A transaction stands for its hash.                                      *)
(***************************************************************************)
EXTENDS Naturals, FiniteSets

CONSTANTS
    Txs,          \* transactions
    Sessions,     \* sessions with remote nodes, each used once
    Nodes,        \* remote nodes
    Node,         \* the node of each session
    Legacy,       \* sessions older than eth/65
    maxKnownTxs,  \* size at which the known set of a peer forgets
    packSize,     \* transactions in a pack (txsyncPackSize)
    Setups,       \* bound: what happens in a run (setup)
    None          \* nil

ASSUME TxExchangeAssumption ==
    /\ IsFiniteSet(Txs) /\ IsFiniteSet(Sessions)
    /\ Node \in [Sessions -> Nodes]
    /\ Legacy \subseteq Sessions
    /\ maxKnownTxs \in Nat \ {0}
    /\ packSize \in Nat \ {0}
    /\ Setups \subseteq [connect : SUBSET Sessions, leave : SUBSET Sessions,
                       tell : SUBSET Sessions, arrive : SUBSET Txs, stops : BOOLEAN]
    /\ None \notin Sessions

VARIABLES
    setup,       \* the sessions that connect, that may leave and that tell of
                 \* transactions by themselves, the transactions that arrive here, and
                 \* whether this node stops
    pool,        \* TxPool.Pending
    events,      \* transactions whose event has not been taken from txsCh
    pc,          \* where each session is
    registered,  \* the peer set
    initial,     \* the pending transactions each session read (txsync.txs at first)
    known,       \* Peer.knownTxs
    broadcast,   \* where txBroadcastLoop is, and its batches for the peers
    pending,     \* txsyncLoop64: pending, by node
    pack,        \* txsyncLoop64: pack
    sending,     \* its goroutine: idle, to mark, to send, and what it put in done
    stop,        \* how far handler.Stop is
    ended,       \* the loops that returned
    told,        \* what each peer told of by itself (history)
    given,       \* what was handed to the broadcasters of each peer (history)
    sent,        \* what txsyncLoop64 sent to each session (history)
    cut          \* sessions whose initial transactions were given up (history)

sessionVars == <<pc, registered, initial, told>>
syncVars == <<pending, pack, sending, sent, cut>>
vars == <<setup, pool, events, sessionVars, known, broadcast, syncVars, stop, ended, given>>

NoTxs == [s \in Sessions |-> {}]
Idle == [at |-> "idle", txs |-> {}, direct |-> NoTxs, annos |-> NoTxs]
Nothing == [peer |-> None, txs |-> {}]
Loops == {"broadcast", "sync"}

TypeOK ==
    /\ setup \in Setups
    /\ pool \subseteq Txs
    /\ events \subseteq Txs
    /\ pc \in [Sessions -> {"away", "registered", "announcing", "handing", "serving", "closed"}]
    /\ registered \subseteq Sessions
    /\ initial \in [Sessions -> SUBSET Txs]
    /\ known \in [Sessions -> SUBSET Txs]
    /\ broadcast \in [at : {"idle", "peers", "send"}, txs : SUBSET Txs,
                      direct : [Sessions -> SUBSET Txs], annos : [Sessions -> SUBSET Txs]]
    /\ pending \in [Nodes -> [peer : Sessions \cup {None}, txs : SUBSET Txs]]
    /\ pack \in [peer : Sessions \cup {None}, txs : SUBSET Txs]
    /\ sending \in {"idle", "mark", "send", "ok", "error"}
    /\ stop \in {"running", "unsubscribed", "quit"}
    /\ ended \subseteq Loops
    /\ told \in [Sessions -> SUBSET Txs]
    /\ given \in [Sessions -> SUBSET Txs]
    /\ sent \in [Sessions -> SUBSET Txs]
    /\ cut \subseteq Sessions

Init ==
    /\ setup \in Setups
    /\ pool = {} /\ events = {}
    /\ pc = [s \in Sessions |-> "away"]
    /\ registered = {}
    /\ initial = NoTxs /\ known = NoTxs
    /\ broadcast = Idle
    /\ pending = [n \in Nodes |-> Nothing]
    /\ pack = Nothing
    /\ sending = "idle"
    /\ stop = "running"
    /\ ended = {}
    /\ told = NoTxs /\ given = NoTxs /\ sent = NoTxs
    /\ cut = {}

-----------------------------------------------------------------------------
(* The pool and the networking layer (external)                            *)

\* A transaction becomes pending, and the pool sends its event.
TxArrives(t) ==
    /\ t \in setup.arrive \ pool
    /\ pool' = pool \cup {t}
    /\ events' = events \cup {t}
    /\ UNCHANGED <<setup, sessionVars, known, broadcast, syncVars, stop, ended, given>>

\* runEthPeer up to the registration; a node has one session at a time.
Registers(s) ==
    /\ pc[s] = "away"
    /\ s \in setup.connect
    /\ \A t \in Sessions : Node[t] = Node[s] => pc[t] \in {"away", "closed"}
    /\ pc' = [pc EXCEPT ![s] = "registered"]
    /\ registered' = registered \cup {s}
    /\ UNCHANGED <<setup, pool, events, initial, told, known, broadcast, syncVars, stop, ended, given>>

\* removePeer, by the session itself or by another goroutine.
Unregisters(s) ==
    /\ s \in registered \cap setup.leave
    /\ registered' = registered \ {s}
    /\ UNCHANGED <<setup, pool, events, pc, initial, told, known, broadcast, syncVars, stop, ended, given>>

\* runEthPeer has returned: Peer.Close.
Close(s) ==
    /\ pc[s] = "serving"
    /\ s \notin registered
    /\ pc' = [pc EXCEPT ![s] = "closed"]
    /\ UNCHANGED <<setup, pool, events, registered, initial, told, known, broadcast, syncVars, stop,
                   ended, given>>

-----------------------------------------------------------------------------
(* Marking                                                                 *)

\* What can be left of known when room for n more is made: Pop takes out any.
RoomFor(set, n) ==
    LET limit == IF n < maxKnownTxs THEN maxKnownTxs - n ELSE 0 IN
    IF Cardinality(set) <= limit THEN {set} ELSE {kept \in SUBSET set : Cardinality(kept) = limit}

MarkAll(s, txs) ==
    \E kept \in RoomFor(known[s], Cardinality(txs)) : known' = [known EXCEPT ![s] = kept \cup txs]

\* The peer announces t or sends it, or is sent t because it asked
\* (SendPooledTransactionsRLP, ReplyPooledTransactionsRLP).
markTransaction(s, t) ==
    /\ s \in setup.tell
    /\ pc[s] = "serving"
    /\ t \notin told[s]
    /\ told' = [told EXCEPT ![s] = @ \cup {t}]
    /\ MarkAll(s, {t})
    /\ UNCHANGED <<setup, pool, events, pc, registered, initial, broadcast, syncVars, stop, ended, given>>

-----------------------------------------------------------------------------
(* txBroadcastLoop                                                         *)

\* txsCh: an event with a batch of transactions.
TakesEvent ==
    /\ broadcast.at = "idle"
    /\ "broadcast" \notin ended
    /\ \E txs \in (SUBSET events) \ {{}} :
          /\ broadcast' = [Idle EXCEPT !.at = "peers", !.txs = txs]
          /\ events' = events \ txs
    /\ UNCHANGED <<setup, pool, sessionVars, known, syncVars, stop, ended, given>>

\* int(math.Sqrt(float64(n))).
Root(n) == CHOOSE m \in 0 .. n : m * m <= n /\ n < (m + 1) * (m + 1)

\* peersWithoutTransaction (external, the peer set).
peersWithoutTransaction(t) == {s \in registered : t \notin known[s]}

\* Mutant of SelectsPeers: nothing is announced to the peers that are not served.
SelectsSome ==
    /\ broadcast.at = "peers"
    /\ \E t \in broadcast.txs : \E direct \in SUBSET peersWithoutTransaction(t) :
          /\ Cardinality(direct) = Root(Cardinality(peersWithoutTransaction(t)))
          /\ broadcast' = [broadcast EXCEPT
                !.txs = @ \ {t},
                !.at = IF broadcast.txs = {t} THEN "send" ELSE "peers",
                !.direct = [s \in Sessions |-> IF s \in direct THEN @[s] \cup {t} ELSE @[s]]]
    /\ UNCHANGED <<setup, pool, events, sessionVars, known, syncVars, stop, ended, given>>

\* For one transaction after the other: to a few directly, announced to the rest.
SelectsPeers ==
    /\ broadcast.at = "peers"
    /\ \E t \in broadcast.txs : \E direct \in SUBSET peersWithoutTransaction(t) :
          /\ Cardinality(direct) = Root(Cardinality(peersWithoutTransaction(t)))
          /\ broadcast' = [broadcast EXCEPT
                !.txs = @ \ {t},
                !.at = IF broadcast.txs = {t} THEN "send" ELSE "peers",
                !.direct = [s \in Sessions |-> IF s \in direct THEN @[s] \cup {t} ELSE @[s]],
                !.annos = [s \in Sessions |-> IF s \in peersWithoutTransaction(t) \ direct
                                              THEN @[s] \cup {t} ELSE @[s]]]
    /\ UNCHANGED <<setup, pool, events, sessionVars, known, syncVars, stop, ended, given>>

\* Mutant of AsyncSend: nothing ends the wait when the session is closed.
AsyncSendForever(s, txs, reads) ==
    /\ reads
    /\ given' = [given EXCEPT ![s] = @ \cup txs]
    /\ MarkAll(s, txs)
    /\ UNCHANGED <<setup, pool, events, registered, initial, told, syncVars, stop, ended>>

\* A select between a reader of the channel and term: handed over and marked, or
\* dropped.  A session without a reader blocks until it is closed.
AsyncSend(s, txs, reads) ==
    /\ \/ /\ reads
          /\ given' = [given EXCEPT ![s] = @ \cup txs]
          /\ MarkAll(s, txs)
       \/ /\ pc[s] = "closed"
          /\ UNCHANGED <<given, known>>
    /\ UNCHANGED <<setup, pool, events, registered, initial, told, syncVars, stop, ended>>

AsyncSendTransactions(s) ==
    /\ broadcast.at = "send"
    /\ broadcast.direct[s] # {}
    /\ broadcast' = [broadcast EXCEPT !.direct[s] = {}]
    /\ AsyncSend(s, broadcast.direct[s], pc[s] # "closed")
    /\ UNCHANGED pc

AsyncSendPooledTransactionHashes(s) ==
    /\ broadcast.at = "send"
    /\ broadcast.direct = NoTxs
    /\ broadcast.annos[s] # {}
    /\ broadcast' = [broadcast EXCEPT !.annos[s] = {}]
    /\ AsyncSend(s, broadcast.annos[s], s \notin Legacy /\ pc[s] # "closed")
    /\ UNCHANGED pc

BroadcastReturns ==
    /\ broadcast.at = "send"
    /\ broadcast.direct = NoTxs /\ broadcast.annos = NoTxs
    /\ broadcast' = Idle
    /\ UNCHANGED <<setup, pool, events, sessionVars, known, syncVars, stop, ended, given>>

\* txsSub.Err().
BroadcastLoopEnds ==
    /\ broadcast.at = "idle"
    /\ stop # "running"
    /\ "broadcast" \notin ended
    /\ ended' = ended \cup {"broadcast"}
    /\ UNCHANGED <<setup, pool, events, sessionVars, known, broadcast, syncVars, stop, given>>

-----------------------------------------------------------------------------
(* syncTransactions                                                        *)

\* Mutant of ReadsPending: the session tells of the pool before it registers.
ReadsBefore(s) ==
    /\ pc[s] = "registered"
    /\ \E old \in SUBSET pool :
          /\ initial' = [initial EXCEPT ![s] = old]
          /\ pc' = [pc EXCEPT ![s] = IF old = {} THEN "serving"
                                     ELSE IF s \in Legacy THEN "handing" ELSE "announcing"]
    /\ UNCHANGED <<setup, pool, events, registered, told, known, broadcast, syncVars, stop, ended, given>>

ReadsPending(s) ==
    /\ pc[s] = "registered"
    /\ initial' = [initial EXCEPT ![s] = pool]
    /\ pc' = [pc EXCEPT ![s] = IF pool = {} THEN "serving"
                               ELSE IF s \in Legacy THEN "handing" ELSE "announcing"]
    /\ UNCHANGED <<setup, pool, events, registered, told, known, broadcast, syncVars, stop, ended, given>>

Announces(s) ==
    /\ pc[s] = "announcing"
    /\ pc' = [pc EXCEPT ![s] = "serving"]
    /\ AsyncSend(s, initial[s], TRUE)
    /\ UNCHANGED broadcast

\* quitSync instead of txsyncCh.
HandsNothing(s) ==
    /\ pc[s] = "handing"
    /\ stop = "quit"
    /\ pc' = [pc EXCEPT ![s] = "serving"]
    /\ cut' = cut \cup {s}
    /\ UNCHANGED <<setup, pool, events, registered, initial, told, known, broadcast, pending, pack,
                   sending, sent, stop, ended, given>>

-----------------------------------------------------------------------------
(* txsyncLoop64                                                            *)

\* send: the next pack of s, what remains stays pending.
Send(s, txs, others) ==
    \E some \in SUBSET txs :
        /\ Cardinality(some) = IF Cardinality(txs) < packSize THEN Cardinality(txs) ELSE packSize
        /\ pack' = [peer |-> s, txs |-> some]
        /\ pending' = [others EXCEPT ![Node[s]] = IF some = txs THEN Nothing
                                                  ELSE [peer |-> s, txs |-> txs \ some]]
        /\ sending' = "mark"

\* Mutant of TakesSync: the new session is served at once.
TakesSyncAtOnce(s) ==
    /\ pc[s] = "handing"
    /\ "sync" \notin ended
    /\ pc' = [pc EXCEPT ![s] = "serving"]
    /\ Send(s, initial[s], pending)
    /\ UNCHANGED <<setup, pool, events, registered, initial, told, known, broadcast, sent, cut, stop,
                   ended, given>>

\* txsyncCh: what was pending for an older session of the node is forgotten.
TakesSync(s) ==
    /\ pc[s] = "handing"
    /\ "sync" \notin ended
    /\ pc' = [pc EXCEPT ![s] = "serving"]
    /\ LET n == Node[s] IN
       /\ cut' = IF pending[n] = Nothing THEN cut ELSE cut \cup {pending[n].peer}
       /\ IF sending = "idle"
          THEN Send(s, initial[s], pending)
          ELSE /\ pending' = [pending EXCEPT ![n] = [peer |-> s, txs |-> initial[s]]]
               /\ UNCHANGED <<pack, sending>>
    /\ UNCHANGED <<setup, pool, events, registered, initial, told, known, broadcast, sent, stop, ended,
                   given>>

\* SendTransactions marks the pack, and sends it; the connection may be down.
MarksPack ==
    /\ sending = "mark"
    /\ sending' = "send"
    /\ MarkAll(pack.peer, pack.txs)
    /\ UNCHANGED <<setup, pool, events, sessionVars, broadcast, pending, pack, sent, cut, stop, ended,
                   given>>

SendsPack ==
    /\ sending = "send"
    /\ \/ /\ pc[pack.peer] # "closed"
          /\ sending' = "ok"
          /\ sent' = [sent EXCEPT ![pack.peer] = @ \cup pack.txs]
          /\ UNCHANGED cut
       \/ /\ pack.peer \in setup.leave
          /\ sending' = "error"
          /\ cut' = cut \cup {pack.peer}
          /\ UNCHANGED sent
    /\ UNCHANGED <<setup, pool, events, sessionVars, known, broadcast, pending, pack, stop, ended,
                   given>>

\* done: a failure gives up what is pending for the node, then any is picked.
TakesDone ==
    /\ sending \in {"ok", "error"}
    /\ "sync" \notin ended
    /\ LET n == Node[pack.peer]
           rest == IF sending = "ok" THEN pending ELSE [pending EXCEPT ![n] = Nothing]
       IN /\ cut' = IF sending = "ok" THEN cut ELSE cut \cup ({pending[n].peer} \ {None})
          /\ \/ /\ \A m \in Nodes : rest[m] = Nothing
                /\ pending' = rest
                /\ sending' = "idle"
                /\ pack' = Nothing
             \/ \E m \in Nodes :
                  /\ rest[m] # Nothing
                  /\ Send(rest[m].peer, rest[m].txs, rest)
    /\ UNCHANGED <<setup, pool, events, sessionVars, known, broadcast, sent, stop, ended, given>>

SyncLoopEnds ==
    /\ stop = "quit"
    /\ "sync" \notin ended
    /\ ended' = ended \cup {"sync"}
    /\ UNCHANGED <<setup, pool, events, sessionVars, known, broadcast, syncVars, stop, given>>

\* handler.Stop: txsSub.Unsubscribe, then close(quitSync).
Stop ==
    /\ setup.stops
    /\ \/ stop = "running" /\ stop' = "unsubscribed"
       \/ stop = "unsubscribed" /\ stop' = "quit"
    /\ UNCHANGED <<setup, pool, events, sessionVars, known, broadcast, syncVars, ended, given>>

-----------------------------------------------------------------------------

BroadcastStep ==
    \/ TakesEvent \/ SelectsPeers \/ BroadcastReturns \/ BroadcastLoopEnds
    \/ \E s \in Sessions : AsyncSendTransactions(s) \/ AsyncSendPooledTransactionHashes(s)

SessionStep(s) == ReadsPending(s) \/ Announces(s) \/ HandsNothing(s) \/ TakesSync(s)

SyncStep == TakesDone \/ SyncLoopEnds

PackStep == MarksPack \/ SendsPack

Next ==
    \/ \E t \in Txs : TxArrives(t)
    \/ \E s \in Sessions :
          \/ Registers(s) \/ Unregisters(s) \/ Close(s)
          \/ SessionStep(s)
          \/ \E t \in Txs : markTransaction(s, t)
    \/ BroadcastStep \/ SyncStep \/ PackStep \/ Stop

\* Goroutines that can go on do, and a send ends in the time the network allows it.
Fairness ==
    /\ WF_vars(BroadcastStep) /\ WF_vars(SyncStep) /\ WF_vars(PackStep)
    /\ \A s \in Sessions : WF_vars(SessionStep(s))

Spec == Init /\ [][Next]_vars /\ Fairness

-----------------------------------------------------------------------------

\* The peer has t, or what reads its channel has it.
Reached(s, t) == t \in told[s] \cup given[s] \cup sent[s]

\* t will be sent to s by the initial exchange.
InSync(s, t) ==
    \/ pc[s] \in {"announcing", "handing"} /\ t \in initial[s]
    \/ pack.peer = s /\ t \in pack.txs
    \/ pending[Node[s]].peer = s /\ t \in pending[Node[s]].txs

\* The broadcast of t has not come to s yet.
InBroadcast(s, t) ==
    t \in events \cup broadcast.txs \cup broadcast.direct[s] \cup broadcast.annos[s]

\* Between the transactions a session reads from the pool and those that are broadcast
\* none is missed (handler.go:309): each pending transaction has reached every
\* registered peer, or is in the initial exchange or in a broadcast.
NoTxMissed ==
    \A s \in registered, t \in pool :
        \/ pc[s] = "registered"
        \/ Reached(s, t) \/ InSync(s, t) \/ InBroadcast(s, t)
        \/ s \in cut
        \/ "broadcast" \in ended

\* What a session is to be sent initially was sent, is in the pack or is pending, and
\* in one of them only (sync.go:110), until the exchange with it is given up.
Conserved ==
    \A s \in Legacy : pc[s] \in {"serving", "closed"} /\ s \notin cut =>
        LET packed == IF pack.peer = s /\ sending # "ok" THEN pack.txs ELSE {}
            left   == IF pending[Node[s]].peer = s THEN pending[Node[s]].txs ELSE {}
        IN /\ initial[s] = sent[s] \cup packed \cup left
           /\ sent[s] \cap (packed \cup left) = {}
           /\ packed \cap left = {}

\* A session is given up only with its connection, with one to its node that failed
\* while it was new, or with the whole node (sync.go:131, :145).
PackInv ==
    /\ sending = "idle" <=> pack = Nothing
    /\ sending = "idle" => \A n \in Nodes : pending[n] = Nothing
    /\ pack # Nothing => pack.peer \in Legacy /\ pc[pack.peer] \in {"serving", "closed"}
    /\ \A n \in Nodes : pending[n] # Nothing =>
          /\ pending[n].peer \in Legacy
          /\ Node[pending[n].peer] = n
          /\ pending[n].txs # {}
          /\ pc[pending[n].peer] \in {"serving", "closed"}

\* What is marked as known has reached the peer, or is in the pack being sent.
KnownTxs ==
    \A s \in Sessions : \A t \in known[s] :
        \/ Reached(s, t)
        \/ pack.peer = s /\ t \in pack.txs
        \/ s \in cut

BatchInv ==
    /\ broadcast.at = "idle" => broadcast = Idle
    /\ broadcast.at = "peers" => broadcast.txs # {}
    /\ broadcast.at = "send" => broadcast.txs = {}
    /\ \A s \in registered : pc[s] \notin {"away", "closed"}
    /\ events \cup broadcast.txs \subseteq pool

\* Before txsyncLoop64 has a session, nothing of it was sent; afterwards what a pack is
\* told to have sent was sent, and a session whose pack failed is given up.
HandoverInv ==
    /\ \A s \in Sessions :
          /\ pc[s] = "announcing" => s \notin Legacy
          /\ pc[s] = "handing" => s \in Legacy
          /\ pc[s] \in {"announcing", "handing"} => initial[s] # {}
          /\ pc[s] \in {"away", "registered", "announcing", "handing"} => sent[s] = {}
    /\ sending = "ok" => pack.txs \subseteq sent[pack.peer]
    /\ sending = "error" => pack.peer \in cut

ExchangeInv == TypeOK /\ NoTxMissed /\ Conserved /\ PackInv /\ HandoverInv /\ KnownTxs /\ BatchInv

\* The broadcast waits for the announcer that a legacy session does not have.
Stalled ==
    \E s \in Legacy : broadcast.direct = NoTxs /\ broadcast.annos[s] # {} /\ pc[s] # "closed"

\* Each pending transaction reaches each registered peer again and again, or a peer
\* older than eth/65 holds up all broadcasts (peer.go:120, handler.go:530).
TxsArrive ==
    \A s \in Sessions, t \in Txs :
        []<>(s \in registered /\ t \in pool =>
                Reached(s, t) \/ s \in cut \/ stop # "running" \/ Stalled)

\* After Stop both loops end, unless a peer older than eth/65 that stays holds up the
\* broadcast: its session is closed only after they have ended (handler.go:418).
LoopsEnd == stop = "quit" ~> (ended = Loops \/ Stalled)
=============================================================================
