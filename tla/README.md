# ecgeth in TLA+

This directory models a node of ecgeth, a go-ethereum node whose blocks are ordered by an external
consensus: the node packs and executes transactions when it is asked to (`BuildBlock`), waits for the
external consensus to agree, and writes the block with the proof it is given (`SealBlock`). Every
other node asks the external consensus to confirm the proof of a block. Around that core it still is a
node: it follows the chain of its peers, passes blocks and transactions on, serves subscriptions, and
must find its chain as it left it.

    tlc -config MCBatcher_chain.cfg MCBatcher     # a run; see section 3 for the others
    tlapm BatcherProofs.tla                       # the proofs

Line numbers refer to the files of the repository. `batcher.go`, `ecconnector.go`, `ecrpcclient.go` and
`api.go` are those of `ecconnector/`; `handler.go`, `sync.go` and `backend.go` those of `eth/`; `peer.go`
is that of `eth/protocols/eth/`; `config.go` that of `params/`.

## 1. Inventory

| Part | State | Operations | Module |
|---|---|---|---|
| EcBatcher (`batcher.go`) | `currentenv`, snapshot, `pendingTask`, `isBuildBlockProcessing`, `running`, channels | `newWorkLoop`, `mainLoop`, `buildBlock`, `SealBlock`, `insertBlock` | `Batcher`, `Ledger` |
| Transaction packing (`batcher.go`) | the environment: nonces, gas, `processedTxs`, counters, coinbase | `commitNewWork`, `commitTransactions`, `updateNewWork`, `updateTransactions`, `setEtherbase` | `TxPacking`, `Verification` |
| RPC API (`api.go`, `eth/api_ecconnector.go`) | `ec.cblock` | `BuildBlock`, `SealBlock`, `HeartBeat`, `GetLastBlockNum` | in `Batcher` |
| RpcClient (`ecrpcclient.go`) | `blockno`, `bhash`, `cachesvs`, shared by all callers | `SendNewHead`, `SendVerifySeal`, `SendKeepAlive` | `RpcClient` |
| EcPonBada (`consensus/ecpon`) | none of its own | `verifyHeader`, `verifySeal`, `Prepare`, `SealEcPonBada` | in `RpcClient`, `Batcher`, `TxPacking` |
| EcConnector (`ecconnector.go`) | `usnewhead`, `newHeadCh`, subscriptions, wait group | `Start`, `Stop`, `loop` | `EcConnector` |
| Block propagation (`handler.go`, `peer.go`) | known sets, two queues per peer | `BroadcastBlockToAll`, `BroadcastBlock`, `AsyncSend*`, `markBlock` | `BlockPropagation` |
| Peer lifecycle (`handler.go`) | peer set, registrations, challenge timers, wait group | `runEthPeer`, `removePeer`, `Start`, `Stop` | `Handler` |
| Synchroniser (`sync.go`) | `doneCh`, `forced`, the force timer, `fastSync`, `acceptTxs` | `loop`, `nextSyncOp`, `startSync`, `doSync` | `Handler` |
| Initial transactions (`sync.go`) | pending sets by node, the pack | `syncTransactions`, `txsyncLoop64` | `TxExchange` |
| Transaction broadcast (`handler.go`, `peer.go`) | known sets, channels of the announcers | `txBroadcastLoop`, `BroadcastTransactions` | `TxExchange` |
| Filter system (`eth/filters/filter_system.go`) | subscriptions by type, `lastHead` | `subscribe`, `Unsubscribe`, `eventLoop`, `lightFilterNewHead` | `FilterSystem` |
| Chain configuration (`config.go`) | none | `CheckConfigForkOrder`, `CheckCompatible`, activation of forks | `ForkConfig` |
| Start of the node (`backend.go`, `eth/ethconfig`) | the stored configuration, the chain | `New`, `Start`, `Stop`, `CreateConsensusEngine` | `Startup`; also in `EcConnector`, `Handler` |
| Command line (`cmd`) | flags | read once at the start | not modelled |

### How the parts interact

* The chain's head feed goes to two channels: `chainHeadCh` of the batcher (10 slots) and `newHeadCh` of
  the connector. A full channel makes the writer of the chain wait.
* `newWorkLoop` hands requests to `mainLoop` over an unbuffered channel and shares with it an `int32` by
  which a later request interrupts the one in progress.
* `mainLoop` and the RPC threads share `currentenv`, the snapshot and `pendingTask`. `b.mu` is taken for
  *reading* by both, so that it excludes nobody.
* The connector's loop stops batching at the start of a sync and restarts it at its end, through
  `startCh`, which has one slot.
* One `RpcClient` serves the connector's loop and every goroutine that verifies headers.
* A session enters its node in the peer set, the downloader and the snap syncer; the block fetcher, the
  downloader, the checkpoint timer and the session itself remove it again, by the node's identity.
* Each session tells the synchroniser's loop that it is there; that loop runs one sync at a time in a
  goroutine. A sync that succeeds lets transactions be accepted and broadcasts the head.
* Broadcasting goroutines put blocks in the queues of peers, transactions in their channels; each peer
  has goroutines of its own that empty them. `txsyncLoop64` serves the peers that predate announcements.
* Subscribers talk to one event loop over unbuffered channels, and it sends to them over the same kind.
* At the start the stored configuration is compared with the new one, and a conflict rewinds the chain.

### What is hard

Interleavings of loops and RPC threads over unprotected fields; checks that are stale when acted upon
(the snapshot, `ec.cblock`, `pendingTask`, the fields and the cache of verifications, the list of peers without a block,
the best peer's total difficulty, the last head); one step of several failing (`insertBlock`, `totalFees`,
a fast sync half-way); requests that time out here and are carried out there; retries against newer heads;
removals by identity that meet the next session of the node; bounded and unbuffered channels between
goroutines that wait for each other; a crash between a rewind and the write that explains it.
`PROJECT.json` lists each at its line with the properties about it.

### What makes each part correct

* **EcBatcher**: every block in the database has its parent there, and its state unless a BuildBlock
  panicked before it; a block is the result of one environment; the snapshot catches up with the head;
  a stop ends both loops.
* **Packing**: a node that verifies the block gets the same result; the limits hold; nothing
  that can be executed when it is tried is passed over.
* **RpcClient**: a success means the external consensus agreed, to this header when calls do not overlap.
* **EcConnector**: the newest head is told to the external consensus, or remembered, for as long as no
  verification overwrites its request; the loop never goes back to an older head;
  batching is off only during a sync; a stop ends everything.
* **Block propagation**: what counts as known has been told, sent or queued; each peer meant to get a
  block gets it or met a full queue; a goroutine sends it once.
* **Peers and synchroniser**: only registered nodes are known to the downloader; the node comes within one
  block of every sound peer that stays; transactions are accepted only once in sync; a stop ends.
* **Transactions**: none is missed between the initial exchange and the broadcast; packs send each
  transaction once; both loops end.
* **Filters**: a subscriber gets exactly what it asked for, in order, between installing and
  uninstalling; nobody is sent to after `Unsubscribe`; light clients' logs follow the chain, and the walk
  between two heads ends, at the genesis block at the lowest.
* **Configuration**: every block was executed under the rules the stored configuration gives it, until a
  conflict that goes back to the genesis block is passed over, and with no earlier fork missing; a rewind
  gives up no block in vain; a start is not stuck in the comparison.

## 2. Modules

### Batcher, Ledger

`Batcher` has one program counter per goroutine (`newWorkPc`, `mainPc`, `rpcPc[c]`) and one action
per access to shared state, in the order of the code: `commit` for instance is `BuildCopies`
(receipts and state from `currentenv`), `BuildAssembles` (header and transactions from
`currentenv`, then `pendingTask`) and `BuildSnapshots`. A block is the sequence of the payloads of
its ancestry, as a hash would be; a state root is the set of the executed transactions. Where the
code panics, the call ends with the reply "panic" (the RPC server recovers), leaving what it had
set; `isBuildBlockProcessing` then stays set. `ec.cblock` and the hash the caller may seal (`rpcHash[c]`)
change only when a BuildBlock succeeds, `pendingTask` before the panic of `totalFees`, so that a caller may
seal its earlier candidate with the state of a later task.

`Ledger` is the abstract specification: blocks are added, one at a time, on blocks that are there,
together with their state; the head moves only to the block just added and never down. The state may be
another one's while the producer is `unsettled`, which `Batcher!Unsettled` says of it: a BuildBlock has panicked,
none succeeded since, and a call is about to write. `Batcher!Chain` is the refinement mapping.

### TxPacking, Verification

One action per round of the loops of `commitTransactions` and `updateTransactions`. The pool and the
head are external: transactions arrive, the head moves forwards or, in a reorganisation, backwards,
and the pool follows later, so that the environment may stand before or after the pool's answer.
`Outcome` is what `ApplyTransaction` reports, in the order of its checks: nonce, funds for the gas, gas of the
block, value. `Advances` is the switch on it, `Attempt` what `commitTransaction` keeps: the state is
reverted after a failure, the gas pool is not, and without funds for the gas none was taken. A fault (type, replay
protection) is for good; funds depend on the state (`funds[t]` is a function of the nonces, which say what was
executed), so that another transaction may bring them or take them. `unpaid` is the history of what lacked them.
One user of the environment at a time is modelled; two are `Batcher`'s matter.

`Verification` is the abstract specification: a block is begun empty on some parent, and gets one transaction
after the other, each of which a node that verifies the block can execute at that place (its nonce is due, it has
no fault, the sender can pay, its gas fits), within the limit on their number. `TxPacking!Filled` is the refinement mapping. `Verification`
does not say who gets the fees (section 5).

### RpcClient

A call is a sequence of accesses to the fields of the one shared client: number, hash, the read of
both for the request, the three comparisons with the cache, the POST, and the write of the cache.
The external consensus decides when it receives a request; the answer may be lost. The nil test of
the cache is part of the first comparison, as the cache is never nil again.

### EcConnector

The loop's `select` is one disjunct per case; a POST is in progress between two actions, so that heads,
syncs and stops happen during it. The request is marshaled from the client's fields (ecrpcclient.go:190),
which a verification may have overwritten since `SendNewHead` set them: it is `intact` or not, and one that is not
tells the external consensus nothing of the head, though the loop takes the answer for one about it; of which
block it tells instead, nothing is recorded.
`misled` remembers the heads whose POST succeeded that way (history). A request the client gave up may be
received later (`lingering`). The chain and the downloader wait for the loop as the feed and the `TypeMux` do.

### BlockPropagation

A broadcasting goroutine (a worker) reads the peers without the block in one step, and offers it to one
after the other in steps of their own: the queue first, then the mark, which is a loop of three accesses to
the known set (`Room`, `Pop`, `Add`). The broadcaster of the peer takes a message, marks and sends; the
handler of the peer's messages marks what the peer tells. `received`, `owed`, `dropped`, `queued`
and `forgotten` are history variables. A peer is one session; the peer set and the broadcaster's loop are
external.

### Handler

`runEthPeer` is one action per call it makes, with its deferred calls in their order; `removePeer` is four
actions of whoever runs it (`removal[r]`), since it looks the node up, leaves the snap syncer, the
downloader and the peer set one after the other. The syncer's loop has one action per case of its
`select`; `PicksPeer` reads the number of peers and then the best one, as `nextSyncOp` does. `doSync` with
the downloader's `Synchronise` is a goroutine of its own, which may fail before or after part of the work,
or drop the peer. A block is its height and its total difficulty, since the engine gives every block the
difficulty one. The downloader, the fetcher and the peer set are external.

### TxExchange

A session registers, then reads the pool (`initial`), and announces what it read or hands it to
`txsyncLoop64`, according to its version. That loop's pack, its goroutine and what is pending by node are
as in the code; bytes are counted in transactions. `txBroadcastLoop` takes one event at a time, goes
through the transactions and then hands each peer its share. The announcers and broadcasters of the
peers are external: they take what they are handed for as long as the session is open.

### FilterSystem

A client is at one step of subscribing, reading or unsubscribing; `eventLoop` takes an event, an
install or an uninstall, and sends to one subscriber after the other, so that a client may start to
uninstall while it is owed an event (`todo`). Each round of `lightFilterNewHead`'s search for the common ancestor
is a step, and so is each call of its callback, after which the loop sends to the subscriptions to logs. An event
stands for the block it is about. `handled` is what the loop had to send so far, `got[c]` the places in it of what
client `c` was sent, `told` the head that what was rolled back and added has led light clients to (history).

### ForkConfig, Startup

`ForkConfig` holds the algorithms of `config.go` as operators; `Checks` lists the comparisons of
`checkCompatible` in their order, `ForkOf` the fork whose blocks an error names. `Startup` is the node:
`SetupGenesisBlock` (external) with the loop of `CheckCompatible` one turn at a time, the rewind block by
block, the write of the configuration, the start, and a stop or crash in any phase. `under[n]` is
the configuration block `n` was executed under; `waived` remembers that a configuration was stored over
blocks although it conflicts, because the conflict goes back to the genesis block.

## 3. Runs

| Run | Module | Shows | States |
|---|---|---|---|
| `chain` | `Batcher` | with one RPC thread: the inductive invariants, blocks of one environment, BuildBlock's answers, the exact flag, states written with their blocks, and the refinement of `Ledger` | 1 825 000 |
| `live` | `Batcher` | two starts, ties, a stop at any point: the snapshot catches up, both loops end | 572 000 |
| `packing` | `TxPacking` | the refinement of `Verification`: blocks verify, within the limit; nothing passed over that can be executed when it is tried | 1 028 000 |
| `rpc` | `RpcClient` | two goroutines: a success is an agreement of the external consensus, about the header asked for when no other call overlapped, for both kinds of call; every call ends | 465 000 |
| `connector` | `EcConnector` | the newest head is never lost and is delivered, but for requests a verification overwrote; retries do not go backwards, batching resumes, a stop ends | 113 000 |
| `propagation` | `BlockPropagation` | what is known was told, sent or queued; what a finished broadcast owes is settled; nothing is queued twice by one goroutine | 730 000 |
| `handler` | `Handler` | only registered nodes are known, transactions are accepted when synced, the node catches up, a stop ends and leaves nothing running | 175 000 |
| `transactions` | `TxExchange` | no transaction is missed or sent twice by a pack; both loops end | 430 000 |
| `filters` | `FilterSystem` | each subscriber gets what it asked for, in order, while it is installed; calls return | 337 000 |
| `startup` | `Startup` | blocks keep their rules, complete and up to the forks that are active, through changes of the configuration and crashes; a rewind stops at a conflict | 320 000 |
| `sealed`, `coinbase` | `Batcher`, `TxPacking` | what the code does otherwise than its comments say (section 5) | |

### Bounds

Every bound is a constant with "bound" in its comment. In the larger models one of them, `Setups` or
`Outsides`, is a set of situations: the initial states choose among them, so that one run explores
several small worlds in place of one that is too large.

* `chain`: a BuildBlock that panics after one that succeeded takes two environments, which blocks of
  peers bring. `MaxHeight = 2`: a candidate may be above, at or below the head when it is sealed, which needs
  two heights. One transaction is enough for a torn block; a producer alone has two, and two proofs, so that
  two seals of one candidate differ. Peers send empty blocks: a head that moves is what matters.
  `BuildsChild`, `EnvExclusive`, `BlocksSound`, `FlagMeansBuilding` and `SnapshotComplete` are about a
  BuildBlock that nothing disturbs (`Undisturbed`: one RPC thread, no blocks from peers, at most one start,
  and ties keep the head: a second start, or a second seal of a candidate that ties, interrupts a request and
  fails `SnapshotComplete`).
* `live`: liveness needs one head after the first; `MaxStarts = 2` fills `startCh`. Channels have two or
  three slots, fewer than the events a run can produce.
* `packing`: two accounts of two transactions are the least in which an account can be skipped, a
  gap can arise, and locals differ from others; two moves of the head allow forwards and
  back; two update passes allow the sum of the counters to cross the limit in either pass. A fault at the first
  transaction of an account and one at the last make the account lose a later one or not. In two situations an account
  lacks funds, for the gas or for the value, until the other one's transaction brings them: the one tried first, and
  the one tried later.
* `rpc`: two calls each let a cache written by one be compared by the other and replaced in between. The
  headers are the genesis and two of one number.
* `connector`: three heads, one without a proof, a channel of two, two syncs; any request may have been overwritten.
* `propagation`: known sets and queues of one block, so that both overflow with the second. Two nodes and one
  broadcast, one node and two goroutines, or one goroutine that broadcasts twice.
* `handler`: a node that connects three times while the fetcher drops it (the removal of one session
  meets the next two); a challenge that times out while the node comes back; a lying node with the highest
  total difficulty; slots reserved for snap peers; a fast sync that fails half-way on a node that is
  stopped at any point. `fsMinFullBlocks = 2`, `defaultMinSyncPeers = 2`.
* `transactions`: packs and known sets of one transaction, two transactions: a pack is followed by another.
  A node that fails and comes back while its pack is on its way needs two sessions.
* `filters`: clients with logs of mined and pending blocks, ranges, heads and transactions; sources with
  one or two events each and one slot; a fork of two against three blocks for the light client.
* `startup`: a chain of five blocks with forks at one to four, so that a block lies before, between and
  after any two; families of three to five configurations that an operator changes between at will. The first compared of
  several conflicts is not the lowest, and some conflicts go back to block 0, to 1 or further up.

Deadlock is checked in `packing` and `startup`. The others stop by themselves: both loops of `Batcher` end after a stop
and the heights are bounded; elsewhere the calls, events or sessions of a run are used up.

### Fairness

* `Batcher`: weak fairness of each loop and of each RPC thread once it is in a call: a goroutine that
  can go on is scheduled. None of the environment: neither heads, transactions nor calls must come.
* `RpcClient`: weak fairness of a caller's own steps and of `Unanswered` (the client has a `Timeout`);
  none of the external consensus.
* `EcConnector`: weak fairness of the loop's steps and strong fairness of each case of `select`, which
  Go chooses at random among those that are ready. `LiveSpec` adds that the external consensus
  receives and answers what is posted again and again (`EcReachable`), an assumption on the outside that
  only `HeadReachesEc` needs.
* `BlockPropagation`: weak fairness of each worker and of each broadcaster while its connection holds.
* `Handler`: weak fairness of sessions, removals, the loop, the timer, the sync and Stop; strong fairness of
  the cases of two `select`s (`TellsSyncer`, `SyncerQuits`), chosen at random among the ready ones; strong
  fairness of `Synchronised`: a sync with a sound node that is tried again and again succeeds, an
  assumption on the downloader that `CatchesUp` needs.
* `TxExchange`: weak fairness of both loops, of the sending goroutine and of each session.
* `FilterSystem`: weak fairness of `eventLoop` as a whole suffices, although its `select` is one at random:
  the events of a run are finite, so that an install or uninstall is all that is left in the end. Subscribers read.
* `TxPacking` and `Startup` have safety properties only: the rounds of the loops of the first increment
  counters with a limit, and `StartAdvances` (section 4) bounds the loops of the second.

## 4. Proofs

All by TLAPS, for any value of the constants under the named assumptions of each module.

* **BatcherProofs.** `BatcherInv` is inductive for any number of RPC threads: the environment stands
  on a block that was once head (`EnvInv`), a BuildBlock past its check works above the block it was
  given (`BuildInv`: an environment is replaced only by one on a head, and heads do not get lower),
  and candidates stand on the database (`SealInv`). `NothingBelowRequest` and `NoOrphans` follow.
  With one RPC thread, `CandidateInv` adds that `ec.cblock` is the hash the caller holds and that `pendingTask` is
  that candidate or was dropped, unless the flag of a panicked call is still set; `StatesKept` and
  `LedgerImplemented` (the refinement, step by step, with `Unsettled`) follow. For a producer alone (`Undisturbed`), `LoneInv` says why requests and
  calls never meet although no lock keeps them apart: there is one request at most, the snapshot is above
  the head only while there is none (`RequestInv`), and the next one comes from a sealed candidate, whose
  height the snapshot does not exceed (`LoneCall`). `ChildBuilt`, `SoundWritten`, `EnvironmentExclusive`,
  `FlagExact` and `CompletePublished` follow, for any number of transactions, proofs and heights.
* **TxPackingProofs.** `PackingInv`: the nonces of the environment's state are those of its parent and
  its transactions (`NonceInv`), the gas pool is never more than what the transactions left, though it
  may be less (`GasInv`), every transaction was counted by one pass or the other (`LimitInv`).
  `LimitKept`, `EveryBlockVerifies` and `VerificationImplemented` (the refinement) follow. `PassesInv` adds the history of a pass: while there is room, what
  the commit pass tried was executed, is hopeless (a fault, or more gas than is left, which only shrinks), or was
  too early or without funds when it was tried (`ProcessedInv`), and of what a pass went past nothing is due without
  such an excuse (`PassedInv`). `OutcomeMeans` says what each outcome tells of the transaction.
  `NonePassedOver` follows.
* **ConnectionProofs**, of `RpcClient` and of `EcConnector`. `ClientInv`: the cache, and every call about to succeed, hold requests that the
  external consensus agreed to; while a call is alone, the client's fields are its own between its steps.
  `SuccessAgreed` and `SuccessForHeader` follow. `ConnectorInv`: `newHeadCh` holds the heads after the newest one taken, in order
  (`ChannelInv`); what was posted is not after the newest, what an intact request told was received, and between posts the unsent
  head is the newest or none (`PostInv`). `NewestNeverLost` (but for `misled` heads), `BatchingRuns` and `RetriesInOrder` follow.
* **StartupProofs.** `CheckCompatible` (the lemma): the comparison fails exactly when there is a conflict, and
  then rewinds to a block strictly below the one it compared at, or to the genesis block. `AgreesBelow`:
  without a conflict at a block, the two configurations give every block up to it the same rules. With
  these, `StartupInv` is inductive for any configurations, any height of the chain and a crash in any phase;
  `ChainKeepsRules` follows. It does not say that every change is safe: Petersburg is covered where every
  configuration names it apart from the others' Constantinople (`Explicit`), Catalyst is not compared, and
  nothing is said once a conflict that goes back to the genesis block is passed over (`waived`).
  `RewindsToConflict`: the block after the one to rewind to is in conflict by itself, for each of the fifteen
  comparisons; for Petersburg, which two of them must both find in the way, because the stored configuration is
  in order. `NothingRewoundInVain` follows. `AllFollow` goes up the list of forks: what follows one that
  is passed over follows the one before it, since no two neighbours are optional; `ForksStack` follows.
  `StartGoesOn` is the action property `StartAdvances`: a turn of `CheckCompatible` lowers its head, or is the
  first, and a step of `SetHead` lowers the chain, so that neither loop goes on for ever.
* **BlockPropagationProofs.** What a peer has heard of (it told us, it was sent it, or it is queued or being
  sent to it) stays heard of for as long as its connection holds (`HeardStays`); a mark is made only
  of such a block (`KnownMeansHeard`), and a peer is left out of a broadcast only because it is marked. The
  queues and marks in progress are tied to that by `QueuedInv`, `MarkInv` and `TaskInv`. The bound on a
  known set counts the goroutines that are past the check of its size (`KnownBounded`): the set may exceed
  `maxKnownBlocks`, by fewer than there are goroutines marking for the peer. `PropagationInvariant`,
  `NobodyPassedOver` and `OfferedOnce` follow, for any number of peers, blocks and goroutines.
* **TxExchangeProofs.** `ExchangeInv`: a transaction that reaches the pool is in an event or a batch of the
  broadcast until it is in the queue of each peer that does not know it, and what a peer is marked to know has
  reached it or is in the pack on its way (`KnownTxs`), so a peer left out of a broadcast misses nothing.
  What is left of an exchange is sent, packed or pending, in one place only (`Conserved`); this follows
  because a pending set belongs to the session that handed it over, also when two sessions of a node
  overlap (`PackInv`, `HandoverInv`). `NoneMissed` follows.
* **HandlerProofs.** `HandlerInv`, for any sessions, nodes and configuration. Removals go by the identity of a
  node, so the invariant follows for each node whether one of its sessions is registering while a removal is
  under way (`RemovalInv`, `SetupInv`); then the node counts as crossed, and the three registries agree about
  all others. `SyncerInv` ties the loop of the syncer, its one sync and `Stop` together; with `SessionInv` (a
  registered session is counted in `peerWG`) it gives `QuietAfterStop`. `PivotInv` is what a failed fast sync
  leaves, and `AcceptsWhenSynced` holds because the head never gets lower. `RegistriesAgree` and
  `StopLeavesNothing` follow.
* **FilterSystemProofs.** `FilterInv`, for any clients, wishes, events and tree of headers. The buckets a
  subscription is in say what its wish asks for (`LogTypes`, `FoundAreWanting`), so the places a client was sent
  and is owed are those of what it wants, in order (`HandlesKeeps`, `SendsKeeps`); the loop takes an install or an
  uninstall only when it owes nothing, so nobody is owed anything after `Unsubscribe`. For light clients `WalkInv`
  keeps two ways of parents, from the head they were led to and from the new one, which end where the search
  stands; they meet at its end, and every callback shortens one of them (`WayAppend`, `WayTail`, `WayFront`).
  The search goes down on the old chain, on the new one or on both, and on neither below the genesis block, also
  when the database lacks a header (`AncestorDescends`): the number before a block's never wraps (`GenesisStays`), and
  `TheWalkShortens` (the action property `WalkShortens`) bounds the steps of a walk by twice the blocks below its ends.

Every safety property of the passing runs is stated by a theorem. `WalkShortens` and `StartAdvances` are
stated by theorems only. Only model-checked: liveness
(`PendingFollowsHead`, `ShutdownCompletes`, `CallsEnd`, `HeadReachesEc`, `StopEnds`, `OwedIsReceived`, `CatchesUp`,
`TxsArrive`, `LoopsEnd`, `CallsReturn`), since fairness and ENABLED are beyond the prover. Nothing is proved by
induction over data: where the code loops over data, the loop is a sequence of steps and its invariant is proved.

## 5. Where the code differs from what it says

With a run:

1. `sealed`: after `insertBlock` fails, `SealBlock` returns the nil error of the sealing (api.go:91). A
   new head between the two calls is enough: it drops the task.
2. `coinbase`: once a sync has ended, fees are paid to the node's etherbase, while the header names the zero
   address (`Prepare`, ecponbada.go:256), to which `Author` points as well: other nodes compute another root.

Reproduced by changing a property or a constant of a run:

* `commit` reads `currentenv` more than once without a lock (batcher.go:840-843); when `mainLoop`
  replaces it in between, the block's root is not that of its transactions. (`chain`, `BlocksSound` without
  `Undisturbed`.)
* `insertBlock` writes the sealed `ec.cblock` with `pendingTask.state` (batcher.go:968). A BuildBlock that panics
  in `totalFees` (batcher.go:853) has replaced `pendingTask` and left `ec.cblock`: the earlier candidate, when it is
  sealed afterwards, is written with the state of another task, and its own may never be stored, even with one RPC
  thread. (`chain`, `StateWritten` without `Unsettled`.) No environment can be made on such a head
  (`makeCurrent` fails), so that the batcher no longer follows it. (`live`, `PendingFollowsHead` without the condition on
  the head's state.)
* With two RPC threads a second BuildBlock in between is enough for that, also between the check of `ec.cblock` and its
  second read (api.go:76, :80), which then seals a candidate other than the one asked for. (`chain` with
  `Clients <- TwoClients`, `StateWritten` or `ImplementsLedger`.)
* A verification is marshaled from fields another one overwrites (ecrpcclient.go:239). (`rpc`,
  `SuccessIsForHeader` without `c \in alone`.)
* So is the request of `SendNewHead` (ecrpcclient.go:190): it may name another block, and its success clears
  `usnewhead` all the same, so that the newest head is neither told nor remembered. (`connector`, `NewestTracked`
  without `misled`.)
* A transaction that lacked the funds in the commit pass is in `processedTxs`, and no update pass tries it again, though
  another transaction of the same block has brought them since (batcher.go:518, 569, 623). (`packing`,
  `NothingPassedOver` with `funds[t][nonce] # "all"` for `t \in unpaid` in `Excused`.)
* `CheckCompatible` does not see every change of Petersburg. Left out, Petersburg is where Constantinople is
  (config.go:446), but `isForked` takes it for inactive (config.go:594): naming a later block, or leaving
  one out, may be no conflict. And Petersburg may move to where the stored configuration has
  Constantinople, the exception of config.go:562. Blocks keep rules that the configuration no longer gives them. (`startup`, `RulesAgree` with `FALSE` for `~Explicit`.)
* A fork moved from or to block 0 or 1 is a conflict that goes back to block 0 (config.go:632), which
  `SetupGenesisBlockWithOverride` of go-ethereum does not tell from one that needs no rewind: a chain with blocks
  gets the new configuration and keeps all its blocks, without the rewind of backend.go:206. (`startup`,
  `RulesAgree` without `~waived`.)

Seen while modelling, and visible in the models without a run of their own:

* `insertBlock` tests `pendingTask` and reads it again three times (batcher.go:939); `newWorkLoop` may set it
  to nil in between, a panic even with one RPC thread (`InsertWrites`).
* An interrupted environment is published and may be built upon, although batcher.go:604 says "the
  semi-finished work will be discarded" (`SnapshotComplete` and `BuildsChild` assume `Undisturbed`).
* The transaction limit counts the pool again in each BuildBlock (`pTcount_s`, batcher.go:509), so that
  a pass may end with few transactions in the block.
* `newTxs` is never incremented, so that the recommit timer never starts new work (`RecommitTick`).
* `loop` enters its wait group itself: a `Stop` before it is scheduled does not wait for it
  (ecconnector.go:130, `StopReturns`).
* A transaction that was too early in the commit pass is not tried again in the environment, and a stale one of
  the pool's answer that is refused (its type, or replay protection) takes its account off, with the executable
  ones behind it (batcher.go:531, 567). `NothingPassedOver` makes both exceptions (`Excused`).
* A known block is said to "never be propagated to this particular peer" (peer.go:171). It may be: the list
  of peers is old when the block is queued, two goroutines may queue it, and the known set forgets. `QueuedOnce` is
  what holds: one goroutine does not queue it twice unless it was forgotten.
* `BroadcastTransactions` announces to sessions older than eth/65 too (handler.go:530), which have no
  goroutine that reads announcements (peer.go:120): the broadcast waits until that session ends, and so does
  `Stop`, which closes sessions only after the loop. `TxsArrive` and `LoopsEnd` make the exception (`Stalled`).
* A removal that runs while the node's next session registers itself may leave the node in the downloader
  without a peer (handler.go:297). `OnlyPeersKnown` makes the exception (`crossed`).
* After a fast sync that failed against a total difficulty the peer no longer has, the node counts as in sync
  with that peer until it announces a head (sync.go:256); `CatchesUp` is about peers whose last word is true.
* The light client's filter ignores the range of blocks of a subscription (filter_system.go:426), and its last head is
  kept only while somebody subscribes to logs: the next walk starts from an old one (:364), and may remove logs
  that a new subscriber was never sent. Removed logs may be sent after the logs that replace them, the sources being independent.
* Once a source of events has ended, `eventLoop` returns, and whoever subscribes or unsubscribes afterwards waits
  for ever (filter_system.go:502, :166); so does everyone behind a client that neither reads nor unsubscribes.
* `NewEventSystem` gives up when a subscription is missing only if the one to pending logs is there (filter_system.go:137).
* `CatalystBlock` is compared nowhere; the chain ID is compared from EIP158 on, though EIP155 uses it (config.go:556).
* A configuration without external consensus panics in `Start`, which calls the connector that is nil
  (backend.go:601), one with Clique and external consensus at the assertion of the engine's type
  (backend.go:248): `Starts` has both outcomes.
* In `cmd/utils/flags.go`: the second parameter flag of the connector overwrites its URL (:1706), the test of the light
  server's percentage can never be true (`<= 0 && > 100`), and the old Ropsten path of `setDataDir` is overwritten.

## 6. Assumptions about the outside

* The external consensus seals only the hash its latest successful BuildBlock returned, also after one that failed.
* `StateWritten` and the refinement of `Ledger` need one RPC thread at a time.
* Whether a sender can pay depends on what was executed (the nonces of all accounts), not on its order or on
  the fees so far.
* The core, the pool, the downloader and the mux are modelled from how they are used: a head moves on more
  total difficulty, a tie moves it unless the current block is local (`Preserve`); `TypeMux.Post` waits until
  the subscriber takes the event or unsubscribes.
* JSON of equal requests is equal, of different ones different; a string field is replaced as a whole.
* The peer set admits one session per node and none once closed; the known sets lock each access.
* `Synchronise` drops a peer whose chain it refuses, and fails with others; it has one caller at a time.
* `SetupGenesisBlockWithOverride` returns the conflict when the chain has blocks and the conflict does not go back
  to block 0, and stores the configuration otherwise (go-ethereum 1.10); `SetHead` rewinds block by block.
* Clients of the filter system read what they are sent until they unsubscribe. The parent of a header the
  light client walks to is in the database, unless the situation says otherwise (`missing`).
* Nobody calls `SendNewBlock` of the handler with the identity of a peer that is gone (a nil dereference).

## 7. Not modelled, and the plan

Not modelled:

* Flags, defaults and presets (`cmd`, the tables of `params` and `eth/ethconfig`): assigned once, one
  after the other, before anything runs concurrently; a model would repeat them line by line.
* Logging, metrics, wording, the RLP of the extra data, prefetchers, `String` methods.
* `SendBuildBlkResult` (its channel has no sender), `minedBroadcastLoop` (its event has none, batcher.go:987).
* The goroutines of `VerifyHeaders` and their abort; a verification is one call of `RpcClient`.
* Of `backend.go`: cache sizes, the database version, RPC services, discovery and the miner.
* What is not under `src/`: the core, the downloader, the fetchers, the pool and the peer set.

Next: `Batcher` and `EcConnector` composed over the head feed, the sync events and `startCh`.
