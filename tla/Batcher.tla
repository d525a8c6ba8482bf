------------------------------ MODULE Batcher ------------------------------
(***************************************************************************)
(* The block factory of ecgeth: the two goroutines and the RPC threads of  *)
(* ecconnector/batcher.go, driven through ecconnector/api.go.              *)
(*                                                                         *)
(*   newWorkLoop   turns start events, chain-head events and timer ticks   *)
(*                 into work requests;                                     *)
(*   mainLoop      executes one request: a new environment on the current  *)
(*                 head, its transactions, then a snapshot of the result;  *)
(*   RPC threads   BuildBlock completes the environment and turns it into  *)
(*                 a candidate; SealBlock attaches the external consensus' *)
(*                 proof to the candidate and writes it to the chain.      *)
(*                                                                         *)
(* The three share currentenv, pendingTask, the snapshot and ec.cblock;    *)
(* the code guards none of them by a lock that excludes another user, so   *)
(* every step that touches one of them is an action of its own.            *)
(*                                                                         *)
(* A block is content-addressed, as a hash is: it is the sequence of the   *)
(* payloads of its ancestry, and the genesis block is <<>>.  A state root  *)
(* is the set of the transactions executed to reach the state.  Gas, the   *)
(* transaction limit and the choice among transactions are in TxPacking;   *)
(* the header's timestamp is left out.                                     *)
(***************************************************************************)
EXTENDS Integers, Sequences, FiniteSets

CONSTANTS
    Txs,               \* transactions
    Proofs,            \* proofs of the external consensus
    DummyExtra,        \* EcGethDummyExtra, the extra data of a candidate
    Clients,           \* RPC threads the external consensus calls through
    Surroundings,      \* bound: what comes from outside, one choice per behaviour
    MaxHeight,         \* bound: no block above this height is written
    MaxStarts,         \* bound: number of calls of EcBatcher.Start
    ChainHeadChanSize, \* capacity of chainHeadCh
    Preserve,          \* shouldPreserve: a tie never moves the head
    None               \* nil

ASSUME ConstantsAssumption ==
    /\ IsFiniteSet(Txs)
    /\ DummyExtra \notin Proofs
    /\ Surroundings \subseteq
          [imports : SUBSET SUBSET Txs, txs : SUBSET Txs, proofs : SUBSET Proofs]
    /\ MaxHeight \in Nat
    /\ MaxStarts \in Nat
    /\ ChainHeadChanSize \in Nat \ {0}
    /\ Preserve \in BOOLEAN

VARIABLES
    written,       \* the blocks in the database
    states,        \* the state roots whose state is in the database
    head,          \* BlockChain.CurrentBlock()
    chainHeadCh,   \* number of events in chainHeadCh (their content is unused)
    pool,          \* TxPool.Pending()
    running,       \* atomic running flag
    startCh,       \* number of events in startCh, whose capacity is 1
    starts,        \* how often Start was called
    stopped,       \* stopCh is closed
    outside,       \* transaction sets of the peers' blocks, transactions, proofs (a bound)
    newWorkPc,     \* where newWorkLoop is
    timerArmed,    \* the recommit timer will fire
    mainPc,        \* where mainLoop is
    interrupt,     \* the int32 the latest work request points to
    mainTodo,      \* transactions mainLoop has still to execute
    currentenv,    \* the environment under construction, or None
    snapshot,      \* snapshotBlock and snapshotState, or None
    pendingTask,   \* the candidate of the last commit, or None
    building,      \* isBuildBlockProcessing
    cblock,        \* EcConnector.cblock, or None
    rpcPc,         \* where each RPC thread is
    rpcNum,        \* cBlkNo of the thread's latest BuildBlock
    rpcTodo,       \* transactions updateNewWork has still to execute
    rpcCopy,       \* receipts and state copied at the start of commit
    rpcBlock,      \* the block the thread is working on
    rpcHash,       \* the candidate the thread's latest successful BuildBlock returned
    reply          \* how the thread's latest call ended

chainVars == <<written, states, head, chainHeadCh>>
inputVars == <<pool, running, startCh, starts, stopped, outside>>
loopVars  == <<newWorkPc, timerArmed, mainPc, interrupt, mainTodo>>
workVars  == <<currentenv, snapshot, pendingTask>>
rpcVars   == <<building, cblock, rpcPc, rpcNum, rpcTodo, rpcCopy, rpcBlock,
               rpcHash, reply>>
vars      == <<chainVars, inputVars, loopVars, workVars, rpcVars>>

-----------------------------------------------------------------------------
(* Blocks and environments                                                 *)

\* What one block adds to its parent: the transactions, the state root after
\* them and the extra data (types.Block, header.Root, header.Extra).
Payload == [txs : SUBSET Txs, root : SUBSET Txs, extra : Proofs \cup {DummyExtra}]

Block  == Seq(Payload)
Genesis == <<>>

\* Block.NumberU64, Block.ParentHash and Header.Root.
Number(b) == Len(b)
Parent(b) == SubSeq(b, 1, Len(b) - 1)
Last(b)   == b[Len(b)]
Root(b)   == IF b = <<>> THEN {} ELSE Last(b).root

\* Mutant of Seal: the proof makes a block of its own, on top of the candidate.
SealOnTop(b, p) == Append(b, [Last(b) EXCEPT !.extra = p])

\* SealEcPonBada and Block.WithSeal: the same block with the proof in Extra.
Seal(b, p) == [b EXCEPT ![Len(b)].extra = p]

\* The environment of makeCurrent: the header's parent and the transactions
\* executed so far; "partial" tells that a new head cut commitTransactions.
Environment == [parent : Block, txs : SUBSET Txs, partial : BOOLEAN]

\* nil is no environment.
ASSUME NoneAssumption == None \notin Environment

\* The root of the environment's state.
EnvRoot(env) == Root(env.parent) \cup env.txs

EnvNumber(env) == Number(env.parent) + 1

\* Mutant of Execute: the nonce is not looked at.
ExecuteAgain(env, t) == [env EXCEPT !.txs = @ \cup {t}]

\* commitTransaction: a transaction the state already holds fails with
\* ErrNonceTooLow and leaves the environment alone.
Execute(env, t) ==
    IF t \in EnvRoot(env) THEN env ELSE [env EXCEPT !.txs = @ \cup {t}]

\* FinalizeAndAssemble: header and transactions of env, the root of a state.
Assemble(env, root) ==
    Append(env.parent, [txs |-> env.txs, root |-> root, extra |-> DummyExtra])

\* The value of a thread's rpcCopy outside of commit.
NoCopy == [receipts |-> {}, root |-> {}]

\* Mutant of SnapshotAbove: off by one.
SnapshotAtLeast(n) == snapshot # None /\ EnvNumber(snapshot) >= n

\* The snapshot is above the block the caller named.
SnapshotAbove(n) == snapshot # None /\ EnvNumber(snapshot) > n

\* Mutant of TaskState: the live state instead of the task's copy.
StateOfEnv(task) == EnvRoot(currentenv)

\* The state insertBlock writes with the block: task.state.
TaskState(task) == Root(task)

BuildPcs == {"update", "copy", "assemble", "snapshot", "return"}
RpcPcs   == BuildPcs \cup {"idle", "check", "mark", "attach", "insert", "write"}
Replies  == {"none", "built", "sealed", "error", "panic"}

ChainType ==
    /\ written \in SUBSET Block
    /\ states \in SUBSET SUBSET Txs
    /\ head \in Block
    /\ chainHeadCh \in 0 .. ChainHeadChanSize

InputType ==
    /\ pool \in SUBSET Txs
    /\ running \in BOOLEAN
    /\ startCh \in 0 .. 1
    /\ starts \in 0 .. MaxStarts
    /\ stopped \in BOOLEAN
    /\ outside \in Surroundings

LoopType ==
    /\ newWorkPc \in {"select", "interrupt", "send", "quit"}
    /\ timerArmed \in BOOLEAN
    /\ mainPc \in {"select", "prepare", "execute", "publish", "quit"}
    /\ interrupt \in {"none", "newHead"}
    /\ mainTodo \in SUBSET Txs

WorkType ==
    /\ currentenv \in Environment \cup {None}
    /\ snapshot \in Environment \cup {None}
    /\ pendingTask \in Block \cup {None}

RpcType ==
    /\ building \in BOOLEAN
    /\ cblock \in Block \cup {None}
    /\ rpcPc \in [Clients -> RpcPcs]
    /\ rpcNum \in [Clients -> Nat]
    /\ rpcTodo \in [Clients -> SUBSET Txs]
    /\ rpcCopy \in [Clients -> [receipts : SUBSET Txs, root : SUBSET Txs]]
    /\ rpcBlock \in [Clients -> Block]
    /\ rpcHash \in [Clients -> Block \cup {None}]
    /\ reply \in [Clients -> Replies]

TypeOK == ChainType /\ InputType /\ LoopType /\ WorkType /\ RpcType

\* NewEcBatcher: both loops wait, nothing is pending.
Init ==
    /\ written = {Genesis} /\ states = {{}} /\ head = Genesis /\ chainHeadCh = 0
    /\ pool = {}
    /\ outside \in Surroundings
    /\ running = FALSE /\ startCh = 0 /\ starts = 0 /\ stopped = FALSE
    /\ newWorkPc = "select" /\ timerArmed = FALSE
    /\ mainPc = "select" /\ interrupt = "none" /\ mainTodo = {}
    /\ currentenv = None /\ snapshot = None /\ pendingTask = None
    /\ building = FALSE /\ cblock = None
    /\ rpcPc = [c \in Clients |-> "idle"]
    /\ rpcNum = [c \in Clients |-> 0]
    /\ rpcTodo = [c \in Clients |-> {}]
    /\ rpcCopy = [c \in Clients |-> NoCopy]
    /\ rpcBlock = [c \in Clients |-> Genesis]
    /\ rpcHash = [c \in Clients |-> None]
    /\ reply = [c \in Clients |-> "none"]

-----------------------------------------------------------------------------
(* The chain and the transaction pool (external)                           *)

\* Which block becomes the head: one of more total difficulty, that is of more
\* height, always; one that ties may, unless the current block is preserved.
MustBecomeHead(b) == Number(b) > Number(head)
MayBecomeHead(b) ==
    Number(b) > Number(head) \/ (Number(b) = Number(head) /\ ~Preserve)

\* writeBlockWithState: the block and the state it is written with enter the
\* database; a block that becomes the head is announced on chainHeadCh, until
\* mainLoop has unsubscribed.  The feed holds the chain's lock until the
\* channel has room.
WriteBlock(b, root) ==
    /\ written' = written \cup {b}
    /\ states' = states \cup {root}
    /\ \/ /\ MayBecomeHead(b)
          /\ head' = b
          /\ IF mainPc = "quit"
             THEN UNCHANGED chainHeadCh
             ELSE /\ chainHeadCh < ChainHeadChanSize
                  /\ chainHeadCh' = chainHeadCh + 1
       \/ /\ ~MustBecomeHead(b)
          /\ UNCHANGED <<head, chainHeadCh>>

\* InsertChain of a block from a peer, verified and executed: its parent is
\* known, its root is right and it carries a proof.
ImportBlock ==
    \E parent \in written, body \in SUBSET Txs, p \in Proofs :
        LET root == Root(parent) \cup body
            b    == Append(parent, [txs |-> body, root |-> root, extra |-> p])
        IN  /\ body \in outside.imports /\ p \in outside.proofs
            /\ Number(parent) < MaxHeight
            /\ b \notin written
            /\ Root(parent) \in states
            /\ body \cap Root(parent) = {}
            /\ WriteBlock(b, root)
            /\ UNCHANGED <<inputVars, loopVars, workVars, rpcVars>>

TxArrives ==
    \E t \in Txs \ pool :
        /\ t \in outside.txs
        /\ pool' = pool \cup {t}
        /\ UNCHANGED <<chainVars, running, startCh, starts, stopped, outside, loopVars,
                      workVars, rpcVars>>

-----------------------------------------------------------------------------
(* Start and Stop                                                          *)

\* startBatching: the flag, then the event.  The send blocks while an event
\* waits in the channel.
StartBatching ==
    /\ starts < MaxStarts
    /\ startCh = 0
    /\ ~stopped
    /\ starts' = starts + 1
    /\ running' = TRUE
    /\ startCh' = 1
    /\ UNCHANGED <<chainVars, pool, stopped, outside, loopVars, workVars, rpcVars>>

StopBatching ==
    /\ running
    /\ running' = FALSE
    /\ UNCHANGED <<chainVars, pool, startCh, starts, stopped, outside, loopVars,
                   workVars, rpcVars>>

Stop ==
    /\ ~stopped
    /\ stopped' = TRUE
    /\ running' = FALSE
    /\ UNCHANGED <<chainVars, pool, startCh, starts, outside, loopVars, workVars, rpcVars>>

-----------------------------------------------------------------------------
(* newWorkLoop                                                             *)

\* clearPending drops the task and the snapshot (under a read lock).
ClearPending == /\ snapshot' = None
                /\ pendingTask' = None
                /\ UNCHANGED currentenv

\* A start event is dropped while a BuildBlock is being processed.
NewWorkTakesStart ==
    /\ newWorkPc = "select"
    /\ startCh = 1
    /\ startCh' = 0
    /\ IF building
       THEN UNCHANGED <<workVars, newWorkPc>>
       ELSE ClearPending /\ newWorkPc' = "interrupt"
    /\ UNCHANGED <<chainVars, pool, running, starts, stopped, outside, timerArmed, mainPc,
                   interrupt, mainTodo, rpcVars>>

\* Mutant of NewWorkTakesHead: a head, like a start, is dropped during BuildBlock.
NewWorkDropsHead ==
    /\ newWorkPc = "select"
    /\ chainHeadCh > 0
    /\ chainHeadCh' = chainHeadCh - 1
    /\ IF building
       THEN UNCHANGED <<workVars, newWorkPc>>
       ELSE ClearPending /\ newWorkPc' = "interrupt"
    /\ UNCHANGED <<written, states, head, inputVars, timerArmed, mainPc,
                   interrupt, mainTodo, rpcVars>>

\* Every head is taken, also while a BuildBlock is being processed.
NewWorkTakesHead ==
    /\ newWorkPc = "select"
    /\ chainHeadCh > 0
    /\ chainHeadCh' = chainHeadCh - 1
    /\ ClearPending
    /\ newWorkPc' = "interrupt"
    /\ UNCHANGED <<written, states, head, inputVars, timerArmed, mainPc,
                   interrupt, mainTodo, rpcVars>>

\* newTxs is only ever stored as 0: the code that counted the arrivals is
\* commented out (batcher.go:341).
newTxs == 0

\* The timer is armed again when the batcher runs and nothing arrived; it is
\* left alone when the batcher does not run.
RecommitTick ==
    /\ newWorkPc = "select"
    /\ timerArmed
    /\ IF running
       THEN IF newTxs = 0 THEN UNCHANGED <<newWorkPc, timerArmed>>
            ELSE newWorkPc' = "interrupt" /\ timerArmed' = FALSE
       ELSE timerArmed' = FALSE /\ UNCHANGED newWorkPc
    /\ UNCHANGED <<chainVars, inputVars, mainPc, interrupt, mainTodo,
                   workVars, rpcVars>>

\* commit, first half: the request in progress is interrupted.
NewWorkInterrupts ==
    /\ newWorkPc = "interrupt"
    /\ interrupt' = "newHead"
    /\ newWorkPc' = "send"
    /\ UNCHANGED <<chainVars, inputVars, timerArmed, mainPc, mainTodo,
                   workVars, rpcVars>>

\* commit, second half: newWorkCh is unbuffered, so the request is handed over
\* when mainLoop takes it; it carries a fresh interrupt word.
NewWorkHandsOver ==
    /\ newWorkPc = "send"
    /\ mainPc = "select"
    /\ newWorkPc' = "select"
    /\ timerArmed' = TRUE
    /\ mainPc' = "prepare"
    /\ interrupt' = "none"
    /\ UNCHANGED <<chainVars, inputVars, mainTodo, workVars, rpcVars>>

\* Mutant of the next action: commit does not watch stopCh.
NewWorkStopsInSelect ==
    /\ stopped
    /\ newWorkPc = "select"
    /\ newWorkPc' = "quit"
    /\ UNCHANGED <<chainVars, inputVars, timerArmed, mainPc, interrupt, mainTodo,
                   workVars, rpcVars>>

\* stopCh ends the loop in its select, and commit in its send: commit returns
\* to the loop, which may serve other events before it sees stopCh again.
NewWorkStops ==
    /\ stopped
    /\ \/ newWorkPc = "select" /\ newWorkPc' = "quit"
       \/ newWorkPc = "send" /\ newWorkPc' = "select"
    /\ UNCHANGED <<chainVars, inputVars, timerArmed, mainPc, interrupt,
                   mainTodo, workVars, rpcVars>>

-----------------------------------------------------------------------------
(* mainLoop                                                                *)

\* commitNewWork up to makeCurrent: a fresh environment on the current head,
\* and the pool's transactions to execute on it.  Without the head's state
\* makeCurrent fails and the old environment stays.
MainPrepares ==
    /\ mainPc = "prepare"
    /\ IF Root(head) \in states
       THEN /\ currentenv' = [parent |-> head, txs |-> {}, partial |-> FALSE]
            /\ mainTodo' = pool
            /\ mainPc' = "execute"
       ELSE /\ mainPc' = "publish"
            /\ UNCHANGED <<currentenv, mainTodo>>
    /\ UNCHANGED <<chainVars, inputVars, newWorkPc, timerArmed, interrupt,
                   snapshot, pendingTask, rpcVars>>

\* commitTransactions: the interrupt is looked at before every transaction and
\* after the last one; a new head ends the execution where it is.
MainExecutes ==
    /\ mainPc = "execute"
    /\ \/ /\ interrupt = "none"
          /\ \E t \in mainTodo :
                /\ currentenv' = Execute(currentenv, t)
                /\ mainTodo' = mainTodo \ {t}
          /\ UNCHANGED mainPc
       \/ /\ mainTodo = {}
          /\ mainPc' = "publish"
          /\ UNCHANGED <<currentenv, mainTodo>>
       \/ /\ interrupt = "newHead"
          /\ mainTodo # {}
          /\ currentenv' = [currentenv EXCEPT !.partial = TRUE]
          /\ mainTodo' = {}
          /\ mainPc' = "publish"
    /\ UNCHANGED <<chainVars, inputVars, newWorkPc, timerArmed, interrupt,
                   snapshot, pendingTask, rpcVars>>

\* updateSnapshot after every request, whatever commitNewWork did.
MainPublishes ==
    /\ mainPc = "publish"
    /\ snapshot' = currentenv
    /\ mainPc' = "select"
    /\ UNCHANGED <<chainVars, inputVars, newWorkPc, timerArmed, interrupt,
                   mainTodo, currentenv, pendingTask, rpcVars>>

MainStops ==
    /\ stopped
    /\ mainPc = "select"
    /\ mainPc' = "quit"
    /\ UNCHANGED <<chainVars, inputVars, newWorkPc, timerArmed, interrupt,
                   mainTodo, workVars, rpcVars>>

-----------------------------------------------------------------------------
(* RPC BuildBlock                                                          *)

Goto(c, pc)    == rpcPc' = [rpcPc EXCEPT ![c] = pc]
Answer(c, how) == Goto(c, "idle") /\ reply' = [reply EXCEPT ![c] = how]

\* EcConnector.BuildBlock: the caller must be at the node's head.  A call that fails or
\* panics leaves ec.cblock, and its caller with the candidate it had.
BuildBlock(c, cBlkNo) ==
    /\ rpcPc[c] = "idle"
    /\ rpcNum' = [rpcNum EXCEPT ![c] = cBlkNo]
    /\ IF Number(head) # cBlkNo
       THEN Answer(c, "error")
       ELSE Goto(c, "check") /\ reply' = [reply EXCEPT ![c] = "none"]
    /\ UNCHANGED <<chainVars, inputVars, loopVars, workVars, building,
                   cblock, rpcTodo, rpcCopy, rpcBlock, rpcHash>>

\* buildBlock's check of the snapshot.
BuildChecks(c) ==
    /\ rpcPc[c] = "check"
    /\ IF SnapshotAbove(rpcNum[c])
       THEN Goto(c, "mark") /\ UNCHANGED reply
       ELSE Answer(c, "error")
    /\ UNCHANGED <<chainVars, inputVars, loopVars, workVars, building,
                   cblock, rpcNum, rpcTodo, rpcCopy, rpcBlock, rpcHash>>

\* Mutant of MarkFlag: the flag is never set.
NoFlag == UNCHANGED building

MarkFlag == building' = TRUE

\* The flag is set; updateNewWork reads the pool.
BuildMarks(c) ==
    /\ rpcPc[c] = "mark"
    /\ MarkFlag
    /\ rpcTodo' = [rpcTodo EXCEPT ![c] = pool]
    /\ Goto(c, "update")
    /\ UNCHANGED <<chainVars, inputVars, loopVars, workVars, cblock, rpcNum,
                   rpcCopy, rpcBlock, rpcHash, reply>>

\* updateTransactions: the new transactions, on whatever environment is current.
BuildUpdates(c) ==
    /\ rpcPc[c] = "update"
    /\ \/ \E t \in rpcTodo[c] :
             /\ currentenv' = Execute(currentenv, t)
             /\ rpcTodo' = [rpcTodo EXCEPT ![c] = @ \ {t}]
             /\ UNCHANGED rpcPc
       \/ /\ rpcTodo[c] = {}
          /\ Goto(c, "copy")
          /\ UNCHANGED <<currentenv, rpcTodo>>
    /\ UNCHANGED <<chainVars, inputVars, loopVars, snapshot, pendingTask,
                   building, cblock, rpcNum, rpcCopy, rpcBlock, rpcHash, reply>>

\* commit copies the receipts and the state...
BuildCopies(c) ==
    /\ rpcPc[c] = "copy"
    /\ rpcCopy' = [rpcCopy EXCEPT ![c] =
                     [receipts |-> currentenv.txs, root |-> EnvRoot(currentenv)]]
    /\ Goto(c, "assemble")
    /\ UNCHANGED <<chainVars, inputVars, loopVars, workVars, building, cblock,
                   rpcNum, rpcTodo, rpcBlock, rpcHash, reply>>

\* ... then reads the header and the transactions and publishes the task.  The
\* task's state is the copy, whose root the block carries.
BuildAssembles(c) ==
    /\ rpcPc[c] = "assemble"
    /\ LET block == Assemble(currentenv, rpcCopy[c].root)
       IN  /\ pendingTask' = block
           /\ rpcBlock' = [rpcBlock EXCEPT ![c] = block]
    /\ Goto(c, "snapshot")
    /\ UNCHANGED <<chainVars, inputVars, loopVars, currentenv, snapshot,
                   building, cblock, rpcNum, rpcTodo, rpcCopy, rpcHash, reply>>

\* totalFees reads one receipt per transaction and panics when there are less;
\* the RPC server answers the panic with an error and the flag stays set.
BuildSnapshots(c) ==
    /\ rpcPc[c] = "snapshot"
    /\ IF Cardinality(Last(rpcBlock[c]).txs) > Cardinality(rpcCopy[c].receipts)
       THEN Answer(c, "panic") /\ UNCHANGED snapshot
       ELSE snapshot' = currentenv /\ Goto(c, "return") /\ UNCHANGED reply
    /\ rpcCopy' = [rpcCopy EXCEPT ![c] = NoCopy]
    /\ UNCHANGED <<chainVars, inputVars, loopVars, currentenv, pendingTask,
                   building, cblock, rpcNum, rpcTodo, rpcBlock, rpcHash>>

\* The flag is cleared; EcConnector.BuildBlock keeps the candidate and answers
\* its hash.
BuildReturns(c) ==
    /\ rpcPc[c] = "return"
    /\ building' = FALSE
    /\ cblock' = rpcBlock[c]
    /\ rpcHash' = [rpcHash EXCEPT ![c] = rpcBlock[c]]
    /\ rpcBlock' = [rpcBlock EXCEPT ![c] = Genesis]
    /\ Answer(c, "built")
    /\ UNCHANGED <<chainVars, inputVars, loopVars, workVars, rpcNum, rpcTodo,
                   rpcCopy>>

-----------------------------------------------------------------------------
(* RPC SealBlock                                                           *)

\* EcConnector.SealBlock(bhash): the hash must be the candidate's.
SealBlock(c) ==
    /\ rpcPc[c] = "idle"
    /\ rpcHash[c] # None
    /\ IF cblock # rpcHash[c]
       THEN Answer(c, "error")
       ELSE Goto(c, "attach") /\ reply' = [reply EXCEPT ![c] = "none"]
    /\ UNCHANGED <<chainVars, inputVars, loopVars, workVars, building,
                   cblock, rpcNum, rpcTodo, rpcCopy, rpcBlock, rpcHash>>

\* The candidate is read again and the proof attached to it.
SealAttaches(c, p) ==
    /\ p \in outside.proofs
    /\ rpcPc[c] = "attach"
    /\ rpcBlock' = [rpcBlock EXCEPT ![c] = Seal(cblock, p)]
    /\ Goto(c, "insert")
    /\ UNCHANGED <<chainVars, inputVars, loopVars, workVars, building, cblock,
                   rpcNum, rpcTodo, rpcCopy, rpcHash, reply>>

\* insertBlock's check.  Without a task it fails, and SealBlock answers nil: it
\* returns the error of the sealing, not that of the insertion (api.go:91).
InsertChecks(c) ==
    /\ rpcPc[c] = "insert"
    /\ IF pendingTask = None
       THEN Answer(c, "sealed")
       ELSE Goto(c, "write") /\ UNCHANGED reply
    /\ UNCHANGED <<chainVars, inputVars, loopVars, workVars, building, cblock,
                   rpcNum, rpcTodo, rpcCopy, rpcBlock, rpcHash>>

\* insertBlock's uses of the task: nil now is a panic, else the sealed block is
\* written with the task's state.  The block's parent is in the database.
InsertWrites(c) ==
    /\ rpcPc[c] = "write"
    /\ IF pendingTask = None
       THEN Answer(c, "panic") /\ UNCHANGED chainVars
       ELSE /\ Answer(c, "sealed")
            /\ WriteBlock(rpcBlock[c], TaskState(pendingTask))
    /\ UNCHANGED <<inputVars, loopVars, workVars, building, cblock, rpcNum,
                   rpcTodo, rpcCopy, rpcBlock, rpcHash>>

-----------------------------------------------------------------------------

NewWorkLoop == \/ NewWorkTakesStart \/ NewWorkTakesHead \/ NewWorkInterrupts
               \/ NewWorkHandsOver \/ NewWorkStops

MainLoop == MainPrepares \/ MainExecutes \/ MainPublishes \/ MainStops

\* The steps of a call after its first one.
RpcStep(c) ==
    \/ BuildChecks(c) \/ BuildMarks(c) \/ BuildUpdates(c) \/ BuildCopies(c)
    \/ BuildAssembles(c) \/ BuildSnapshots(c) \/ BuildReturns(c)
    \/ \E p \in Proofs : SealAttaches(c, p)
    \/ InsertChecks(c) \/ InsertWrites(c)

\* What the node's surroundings do: peers, transactions, the operator, and the
\* calls of the external consensus.
Environs ==
    \/ ImportBlock \/ TxArrives
    \/ StartBatching \/ StopBatching \/ Stop
    \/ RecommitTick
    \/ \E c \in Clients : SealBlock(c) \/ \E n \in 0 .. MaxHeight - 1 : BuildBlock(c, n)

Next == Environs \/ NewWorkLoop \/ MainLoop \/ \E c \in Clients : RpcStep(c)

\* Goroutines and RPC threads that can take a step take one; nothing obliges
\* the surroundings.
Fairness ==
    /\ WF_vars(NewWorkLoop)
    /\ WF_vars(MainLoop)
    /\ \A c \in Clients : WF_vars(RpcStep(c))

Spec == Init /\ [][Next]_vars /\ Fairness

-----------------------------------------------------------------------------
(* Safety                                                                  *)

\* BuildBlock answers a block above the one the caller named, although the
\* snapshot is checked long before the block is put together from whatever
\* environment is then current (batcher.go:433, 844).
BuiltAboveRequest ==
    \A c \in Clients : reply[c] = "built" => Number(rpcHash[c]) > rpcNum[c]

\* The database is closed under parents: a sealed block never floats, however
\* many heads went by since its environment was made.
AncestryKnown == \A b \in written : b = Genesis \/ Parent(b) \in written

\* A producer alone on its chain: no blocks come from peers, one thread calls, batching
\* was started once, and a block that ties does not become the head.
Undisturbed ==
    /\ outside.imports = {} /\ starts <= 1 /\ Preserve
    /\ \A c, d \in Clients : c = d

\* Header, transactions and state of a block are of one environment.
Sound(b) == Last(b).root = Root(Parent(b)) \cup Last(b).txs /\ Last(b).txs \cap Root(Parent(b)) = {}

\* A block's root is its parent's state with its transactions executed, none of
\* them for the second time: receipts, state, header and transactions of the
\* block come from one environment (batcher.go:840-843).  Its state is there.
BlocksSound ==
    Undisturbed => \A b \in written : Root(b) \in states /\ (b = Genesis \/ Sound(b))

\* The block BuildBlock answers is the child of the block the caller named.
BuildsChild ==
    Undisturbed => \A c \in Clients : reply[c] = "built" => Number(rpcHash[c]) = rpcNum[c] + 1

UsingEnv(c) == rpcPc[c] \in {"update", "copy", "assemble", "snapshot"}

\* currentenv has one user at a time: mainLoop does not work on it while an RPC
\* thread does (both hold b.mu for reading only), nor do two RPC threads.
EnvExclusive == Undisturbed =>
    /\ mainPc \in {"execute", "publish"} => \A c \in Clients : ~UsingEnv(c)
    /\ \A c, d \in Clients : UsingEnv(c) /\ UsingEnv(d) => c = d

\* isBuildBlockProcessing tells whether a BuildBlock is being processed.
FlagMeansBuilding ==
    Undisturbed => (building <=> \E c \in Clients : rpcPc[c] \in BuildPcs)

\* SealBlock's success means that the sealed block is in the chain ("writing the
\* block into state", api.go:87).
SealedIsWritten ==
    \A c \in Clients : reply[c] = "sealed" => rpcBlock[c] \in written

\* No work that a new head interrupted is ever published as the snapshot.
SnapshotComplete == Undisturbed /\ snapshot # None => ~snapshot.partial

-----------------------------------------------------------------------------
(* What keeps the safety properties: conjuncts of the inductive invariants *)

\* A block that stands on the database.
Grounded(b) == b \in Block /\ b # Genesis /\ Parent(b) \in written

\* The database is a tree that holds the head.
TreeInv == head \in written /\ AncestryKnown

\* There is an environment whenever a step uses one; it stands on a block that
\* was the head, and the snapshot is never above it.
EnvInv ==
    /\ currentenv \in Environment =>
          currentenv.parent \in written /\ Number(currentenv.parent) <= Number(head)
    /\ mainPc = "execute" => currentenv \in Environment
    /\ snapshot # None =>
          currentenv \in Environment /\ EnvNumber(snapshot) <= EnvNumber(currentenv)

\* From its check on, a BuildBlock works above the block it was given.
BuildInv ==
    \A c \in Clients :
        /\ rpcPc[c] \in {"mark", "update", "copy", "assemble", "snapshot"} =>
              currentenv \in Environment /\ EnvNumber(currentenv) > rpcNum[c]
        /\ rpcPc[c] \in {"snapshot", "return"} =>
              Grounded(rpcBlock[c]) /\ Number(rpcBlock[c]) > rpcNum[c]
        /\ reply[c] = "built" => Number(rpcHash[c]) > rpcNum[c]

\* Candidates and sealed blocks stand on the database.
SealInv ==
    /\ cblock # None => Grounded(cblock)
    /\ \A c \in Clients :
          /\ rpcPc[c] = "attach" => Grounded(cblock)
          /\ rpcPc[c] \in {"insert", "write"} => Grounded(rpcBlock[c])

\* For any number of RPC threads.
BatcherInv == TypeOK /\ TreeInv /\ EnvInv /\ BuildInv /\ SealInv

\* With one RPC thread the task is the candidate, or was dropped, unless the flag of a
\* BuildBlock is set: one in progress, or one that panicked after it replaced the task.
CandidateInv ==
    \A c \in Clients :
        /\ cblock = rpcHash[c]
        /\ building \/ pendingTask \in {None, cblock}
        /\ rpcPc[c] \in BuildPcs => building
        /\ rpcPc[c] \in {"snapshot", "return"} => pendingTask \in {None, rpcBlock[c]}
        /\ rpcPc[c] \in {"attach", "insert", "write"} => cblock # None
        /\ rpcPc[c] \in {"insert", "write"} => \E p \in Proofs : rpcBlock[c] = Seal(cblock, p)

\* The requests for a new environment between their event and its snapshot.
Requests ==
    startCh + chainHeadCh + (IF newWorkPc \in {"interrupt", "send"} THEN 1 ELSE 0)
                          + (IF mainPc \in {"prepare", "execute", "publish"} THEN 1 ELSE 0)

\* What a lone producer's threads keep to: one request at a time, none of them while
\* the snapshot is above the head, which only a sealed candidate then moves.
RequestInv ==
    /\ Requests <= 1
    /\ starts = 0 => Requests = 0 /\ snapshot = None
    /\ mainPc \in {"prepare", "execute", "publish"} => interrupt = "none"
    /\ mainPc \in {"execute", "publish"} => currentenv \in Environment /\ currentenv.parent = head
    /\ SnapshotAbove(Number(head)) => Requests = 0 /\ currentenv.parent = head
    /\ currentenv # None =>
          ~currentenv.partial /\ currentenv.txs \cap Root(currentenv.parent) = {}

\* From the check to the candidate's seal the head and the environment stand still.
LoneCall(c) ==
    /\ starts = 0 => rpcPc[c] \in {"idle", "check"} /\ rpcHash[c] = None
    /\ rpcPc[c] \in {"check", "mark"} \cup BuildPcs => rpcNum[c] = Number(head)
    /\ rpcPc[c] \in {"mark"} \cup BuildPcs => Requests = 0 /\ currentenv.parent = head
    /\ rpcPc[c] = "assemble" =>
          rpcCopy[c] = [receipts |-> currentenv.txs, root |-> EnvRoot(currentenv)]
    /\ rpcPc[c] = "snapshot" => Last(rpcBlock[c]).txs = rpcCopy[c].receipts
    /\ rpcPc[c] \in {"snapshot", "return"} => Parent(rpcBlock[c]) = head /\ Sound(rpcBlock[c])
    /\ rpcHash[c] # None =>
          /\ Sound(rpcHash[c])
          /\ Number(rpcHash[c]) > Number(head) => Parent(rpcHash[c]) = head /\ Requests = 0

LoneCallInv == \A c \in Clients : LoneCall(c)

\* With them the properties of a lone producer are inductive.
LoneInv == Undisturbed =>
    /\ RequestInv /\ LoneCallInv
    /\ BuildsChild /\ BlocksSound /\ FlagMeansBuilding /\ SnapshotComplete

-----------------------------------------------------------------------------
(* Action and liveness properties                                          *)

\* A BuildBlock panicked and none has returned since: the task may be another block's
\* than the candidate that SealBlock writes.
Unsettled == building /\ \E c \in Clients : rpcPc[c] = "write"

\* A block is written together with the state its header names.  SealBlock takes the
\* header from ec.cblock and the state from pendingTask, which nothing keeps together but
\* the order of one thread's calls (api.go:80, batcher.go:968).
StateWritten ==
    [][\A b \in written' \ written : Unsettled \/ Root(b) \in states']_vars

\* The chain the batcher writes to behaves like the Ledger.
RootOf(payload) == payload.root
Chain == INSTANCE Ledger WITH tree <- written, unsettled <- Unsettled,
                              StateOf <- RootOf, EmptyState <- {}
ImplementsLedger == Chain!Spec

SnapshotOnHead == snapshot # None /\ snapshot.parent = head

\* Once started, the batcher ends up with a snapshot on the current head, for
\* any burst of imports, starts and calls before: no event is lost that matters,
\* and the loops never wait for each other.  A head whose state was not written is not
\* followed (StateWritten): makeCurrent fails on it.
PendingFollowsHead ==
    <>[](starts > 0 /\ Root(head) \in states => stopped \/ SnapshotOnHead)

\* After Stop both loops end, wherever the signal finds them.
ShutdownCompletes == stopped ~> newWorkPc = "quit" /\ mainPc = "quit"
=============================================================================
