---------------------------- MODULE EcConnector ----------------------------
(***************************************************************************)
(* The connector between the chain and the external consensus:             *)
(* ecconnector/ecconnector.go, started and stopped by eth/backend.go.      *)
(*                                                                         *)
(* One goroutine, loop, serves the new heads of the chain, two tickers,    *)
(* the downloader's events and the stop signal.  It posts every head to    *)
(* the external consensus, one request at a time, and keeps the latest one *)
(* that was not delivered in usnewhead, to post it again.  A request is    *)
(* marshaled from fields of the client that a verification of another      *)
(* goroutine may overwrite, see RpcClient: then it carries the proof of    *)
(* its head with the number or the hash of some other block.  The chain's  *)
(* feed and the downloader wait for the loop when it does not take what    *)
(* they send; the loop waits for the batcher when startCh is full.         *)
(*                                                                         *)
(* A head is the how-manieth head of the chain it is.                      *)
(***************************************************************************)
EXTENDS Naturals, Sequences

CONSTANTS
    MaxHeads,         \* bound: heads of the chain
    Sealed,           \* the heads whose extra data can be decoded
    NewHeadChanSize,  \* capacity of newHeadCh
    MaxSyncs          \* bound: runs of the downloader

ASSUME ConstantsAssumption ==
    /\ MaxHeads \in Nat
    /\ Sealed \subseteq 1 .. MaxHeads
    /\ NewHeadChanSize \in Nat \ {0}
    /\ MaxSyncs \in Nat

None == 0   \* no head

VARIABLES
    head,       \* BlockChain.CurrentBlock()
    newHeadCh,  \* the heads in newHeadCh
    loopPc,     \* where the loop is
    sending,    \* the head in the request in progress
    intact,     \* that request carries the number and the hash of that head
    arrived,    \* the external consensus has received that request
    usnewhead,  \* the latest head that was not delivered
    newest,     \* the latest head that the loop decided to post (history)
    received,   \* the heads the external consensus was told of
    misled,     \* heads whose POST succeeded with another block's number or hash (history)
    lingering,  \* heads in requests given up by the client, but still under way
    downloader, \* what the downloader does
    syncs,      \* how often it ran
    subscribed, \* the loop receives the downloader's events
    running,    \* EcBatcher.running
    startCh,    \* number of events in EcBatcher.startCh
    batcher,    \* whether EcBatcher.Stop was called
    stopCh,     \* stopCh is closed
    wg,         \* the counter of the wait group
    stopPc      \* where EcConnector.Stop, and the node's after it, is

headVars == <<head, newHeadCh>>
postVars == <<sending, intact, arrived, usnewhead, newest, received, misled, lingering>>
syncVars == <<downloader, syncs, subscribed>>
workVars == <<running, startCh, batcher>>
stopVars == <<stopCh, wg, stopPc>>
vars == <<headVars, loopPc, postVars, syncVars, workVars, stopVars>>

Heads == 1 .. MaxHeads

\* Not started, goroutine not yet scheduled, first heartbeat, subscription to the
\* downloader, select, the POSTs, startBatching after a failed and after a
\* completed sync, the deferred calls, returned.
LoopPcs == {"none", "spawned", "hello", "subscribe", "select", "beat", "send",
            "resend", "restart", "restartLast", "leave", "done"}

HeadType ==
    /\ head \in 0 .. MaxHeads
    /\ newHeadCh \in Seq(Heads)
    /\ syncs \in 0 .. MaxSyncs

PostType ==
    /\ sending \in Heads \cup {None}
    /\ intact \in BOOLEAN
    /\ arrived \in BOOLEAN
    /\ usnewhead \in Heads \cup {None}
    /\ newest \in Heads \cup {None}
    /\ received \subseteq Heads
    /\ misled \subseteq Heads
    /\ lingering \subseteq Heads

SyncType ==
    /\ downloader \in {"idle", "starting", "syncing", "done", "failed"}
    /\ subscribed \in BOOLEAN

WorkType ==
    /\ running \in BOOLEAN
    /\ startCh \in {0, 1}
    /\ batcher \in {"up", "stopped"}

StopType ==
    /\ stopCh \in BOOLEAN
    /\ wg \in {0, 1}
    /\ stopPc \in {"none", "wait", "returned", "chainStopped"}

TypeOK == HeadType /\ loopPc \in LoopPcs /\ PostType /\ SyncType /\ WorkType /\ StopType

\* New.
Init ==
    /\ head = 0 /\ newHeadCh = <<>>
    /\ loopPc = "none"
    /\ sending = None /\ intact = TRUE /\ arrived = FALSE /\ usnewhead = None /\ newest = None
    /\ received = {} /\ misled = {} /\ lingering = {}
    /\ downloader = "idle" /\ syncs = 0 /\ subscribed = FALSE
    /\ running = FALSE /\ startCh = 0 /\ batcher = "up"
    /\ stopCh = FALSE /\ wg = 0 /\ stopPc = "none"

-----------------------------------------------------------------------------
(* The node: start, stop, the chain, the downloader                        *)

\* Start: subscribes to the heads, starts the batcher and the loop.
Start ==
    /\ loopPc = "none"
    /\ loopPc' = "spawned"
    /\ running' = TRUE
    /\ startCh' = 1
    /\ UNCHANGED <<headVars, postVars, syncVars, batcher, stopVars>>

\* Stop closes stopCh and waits for the wait group.
Stop ==
    /\ loopPc # "none"
    /\ stopPc = "none"
    /\ stopCh' = TRUE
    /\ stopPc' = "wait"
    /\ UNCHANGED <<headVars, loopPc, postVars, syncVars, workVars, wg>>

StopReturns ==
    /\ stopPc = "wait"
    /\ wg = 0
    /\ stopPc' = "returned"
    /\ UNCHANGED <<headVars, loopPc, postVars, syncVars, workVars, stopCh, wg>>

\* Ethereum.Stop goes on to stop the chain, which ends the subscriptions.
ChainStops ==
    /\ stopPc = "returned"
    /\ stopPc' = "chainStopped"
    /\ UNCHANGED <<headVars, loopPc, postVars, syncVars, workVars, stopCh, wg>>

\* The chain has a new head.  Its feed waits for room in the channel for as long
\* as the loop is subscribed.
NewHead ==
    /\ head < MaxHeads
    /\ loopPc # "none"
    /\ stopPc # "chainStopped"
    /\ head' = head + 1
    /\ IF loopPc = "done"
       THEN UNCHANGED newHeadCh
       ELSE /\ Len(newHeadCh) < NewHeadChanSize
            /\ newHeadCh' = Append(newHeadCh, head + 1)
    /\ UNCHANGED <<loopPc, postVars, syncVars, workVars, stopVars>>

\* A sync begins, and ends with or without success.  Each event is handed to the
\* loop if it is subscribed; the downloader waits until it is taken.
SyncBegins ==
    /\ downloader = "idle"
    /\ syncs < MaxSyncs
    /\ syncs' = syncs + 1
    /\ downloader' = IF subscribed THEN "starting" ELSE "syncing"
    /\ UNCHANGED <<headVars, loopPc, postVars, subscribed, workVars, stopVars>>

SyncEnds ==
    /\ downloader = "syncing"
    /\ \E how \in {"done", "failed"} :
          downloader' = IF subscribed THEN how ELSE "idle"
    /\ UNCHANGED <<headVars, loopPc, postVars, syncs, subscribed, workVars, stopVars>>

\* The loop unsubscribed while the downloader waited.
PostAbandoned ==
    /\ ~subscribed
    /\ downloader \in {"starting", "done", "failed"}
    /\ downloader' = IF downloader = "starting" THEN "syncing" ELSE "idle"
    /\ UNCHANGED <<headVars, loopPc, postVars, syncs, subscribed, workVars, stopVars>>

\* newWorkLoop of the batcher takes the start event.
BatcherTakesStart ==
    /\ batcher = "up"
    /\ startCh = 1
    /\ startCh' = 0
    /\ UNCHANGED <<headVars, loopPc, postVars, syncVars, running, batcher, stopVars>>

-----------------------------------------------------------------------------
(* The loop                                                                *)

\* The goroutine is scheduled: it enters the wait group and sends a heartbeat.
LoopBegins ==
    /\ loopPc = "spawned"
    /\ loopPc' = "hello"
    /\ wg' = 1
    /\ UNCHANGED <<headVars, postVars, syncVars, workVars, stopCh, stopPc>>

\* A heartbeat ends, with an answer or by the timeout; its result is not used.
BeatEnds ==
    /\ loopPc \in {"hello", "beat"}
    /\ loopPc' = IF loopPc = "hello" THEN "subscribe" ELSE "select"
    /\ UNCHANGED <<headVars, postVars, syncVars, workVars, stopVars>>

LoopSubscribes ==
    /\ loopPc = "subscribe"
    /\ loopPc' = "select"
    /\ subscribed' = TRUE
    /\ UNCHANGED <<headVars, postVars, downloader, syncs, workVars, stopVars>>

HeartbeatTick ==
    /\ loopPc = "select"
    /\ loopPc' = "beat"
    /\ UNCHANGED <<headVars, postVars, syncVars, workVars, stopVars>>

\* The request for h goes out.  It is intact unless a verification overwrote the
\* fields of the client between their assignment and the marshaling.
Post(h, pc) ==
    /\ loopPc' = pc
    /\ sending' = h
    /\ intact' \in BOOLEAN
    /\ arrived' = FALSE
    /\ UNCHANGED <<usnewhead, received, misled, lingering>>

\* The two-second ticker; without an unsent head it does nothing.
RetryTick ==
    /\ loopPc = "select"
    /\ usnewhead # None
    /\ Post(usnewhead, "resend")
    /\ UNCHANGED <<headVars, newest, syncVars, workVars, stopVars>>

\* A head arrives; without a proof to send it is passed over.
TakesHead ==
    /\ loopPc = "select"
    /\ newHeadCh # <<>>
    /\ newHeadCh' = Tail(newHeadCh)
    /\ IF newHeadCh[1] \in Sealed
       THEN Post(newHeadCh[1], "send") /\ newest' = newHeadCh[1]
       ELSE UNCHANGED <<loopPc, postVars>>
    /\ UNCHANGED <<head, syncVars, workVars, stopVars>>

\* Mutant of TakesEvent: a failed sync leaves batching off.
TakesEventOfSuccess ==
    /\ loopPc = "select"
    /\ subscribed
    /\ \/ downloader = "starting" /\ downloader' = "syncing"
          /\ running' = FALSE /\ UNCHANGED loopPc
       \/ downloader = "failed" /\ downloader' = "idle" /\ UNCHANGED <<running, loopPc>>
       \/ downloader = "done" /\ downloader' = "idle"
          /\ running' = TRUE /\ loopPc' = "restartLast"
    /\ UNCHANGED <<headVars, postVars, syncs, subscribed, startCh, batcher, stopVars>>

\* StartEvent stops the batching; FailedEvent and DoneEvent start it again.
TakesEvent ==
    /\ loopPc = "select"
    /\ subscribed
    /\ \/ /\ downloader = "starting"
          /\ downloader' = "syncing"
          /\ running' = FALSE
          /\ UNCHANGED loopPc
       \/ /\ downloader \in {"failed", "done"}
          /\ downloader' = "idle"
          /\ running' = TRUE
          /\ loopPc' = IF downloader = "failed" THEN "restart" ELSE "restartLast"
    /\ UNCHANGED <<headVars, postVars, syncs, subscribed, startCh, batcher, stopVars>>

\* startBatching's send; after a completed sync the loop unsubscribes.
Restarts ==
    /\ loopPc \in {"restart", "restartLast"}
    /\ startCh = 0
    /\ startCh' = 1
    /\ subscribed' = (subscribed /\ loopPc = "restart")
    /\ loopPc' = "select"
    /\ UNCHANGED <<headVars, postVars, downloader, syncs, running, batcher, stopVars>>

\* stopCh is closed, or the chain ended the subscription: EcBatcher.Stop.
SeesStop ==
    /\ loopPc = "select"
    /\ stopCh \/ stopPc = "chainStopped"
    /\ batcher' = "stopped"
    /\ running' = FALSE
    /\ loopPc' = "leave"
    /\ UNCHANGED <<headVars, postVars, syncVars, startCh, stopVars>>

\* Mutant of Leaves: the wait group is not told.
LeavesSilently ==
    /\ loopPc = "leave"
    /\ loopPc' = "done"
    /\ subscribed' = FALSE
    /\ UNCHANGED <<headVars, postVars, downloader, syncs, workVars, stopVars>>

\* The deferred calls: both subscriptions end, then the wait group is told.
Leaves ==
    /\ loopPc = "leave"
    /\ loopPc' = "done"
    /\ subscribed' = FALSE
    /\ wg' = 0
    /\ UNCHANGED <<headVars, postVars, downloader, syncs, workVars, stopCh, stopPc>>

-----------------------------------------------------------------------------
(* The POST of a head, and the external consensus (external)               *)

Posting == loopPc \in {"send", "resend"}

\* The heads an intact request tells of; one that is not tells of none.
About == IF intact THEN {sending} ELSE {}

EcReceives ==
    /\ Posting
    /\ ~arrived
    /\ arrived' = TRUE
    /\ received' = received \cup About
    /\ UNCHANGED <<headVars, loopPc, sending, intact, usnewhead, newest, misled, lingering,
                   syncVars, workVars, stopVars>>

\* Mutant of PostSucceeds: only the retry forgets the unsent head.
PostSucceedsOnce ==
    /\ Posting
    /\ arrived
    /\ usnewhead' = IF loopPc = "resend" THEN None ELSE usnewhead
    /\ misled' = misled \cup ({sending} \ About)
    /\ loopPc' = "select"
    /\ sending' = None /\ intact' = TRUE /\ arrived' = FALSE
    /\ UNCHANGED <<headVars, newest, received, lingering, syncVars,
                   workVars, stopVars>>

\* The answer is a success, whatever it was about: there is no unsent head any more.
PostSucceeds ==
    /\ Posting
    /\ arrived
    /\ usnewhead' = None
    /\ misled' = misled \cup ({sending} \ About)
    /\ loopPc' = "select"
    /\ sending' = None /\ intact' = TRUE /\ arrived' = FALSE
    /\ UNCHANGED <<headVars, newest, received, lingering, syncVars,
                   workVars, stopVars>>

\* Mutant of Unsent: the first undelivered head is kept.
UnsentFirst == IF usnewhead = None THEN sending ELSE usnewhead

\* The head to post again after a failure.
Unsent == sending

\* An error, the timeout or no connection.  A request that was not received when
\* the client gave up may still be.
PostFails ==
    /\ Posting
    /\ usnewhead' = Unsent
    /\ lingering' \in {lingering, IF arrived THEN lingering ELSE lingering \cup About}
    /\ loopPc' = "select"
    /\ sending' = None /\ intact' = TRUE /\ arrived' = FALSE
    /\ UNCHANGED <<headVars, newest, received, misled, syncVars, workVars,
                   stopVars>>

LateArrival ==
    \E h \in lingering :
        /\ lingering' = lingering \ {h}
        /\ received' = received \cup {h}
        /\ UNCHANGED <<headVars, loopPc, sending, intact, arrived, usnewhead, newest, misled,
                       syncVars, workVars, stopVars>>

-----------------------------------------------------------------------------

LoopStep == \/ LoopBegins \/ BeatEnds \/ LoopSubscribes \/ Restarts \/ Leaves
            \/ PostSucceeds \/ PostFails

SelectStep == HeartbeatTick \/ RetryTick \/ TakesHead \/ TakesEvent \/ SeesStop

Next == \/ LoopStep \/ SelectStep
        \/ Start \/ Stop \/ StopReturns \/ ChainStops
        \/ NewHead \/ SyncBegins \/ SyncEnds \/ PostAbandoned \/ BatcherTakesStart
        \/ EcReceives \/ LateArrival

\* A goroutine that can go on does.  select chooses among the ready cases at
\* random, so that none is passed over for ever.
LoopFairness ==
    /\ WF_vars(LoopStep)
    /\ SF_vars(RetryTick) /\ SF_vars(TakesHead) /\ SF_vars(TakesEvent) /\ SF_vars(SeesStop)
    /\ WF_vars(StopReturns) /\ WF_vars(BatcherTakesStart)

\* The external consensus can be reached: a head that is posted again and again
\* is received, and answered with success, in the end.
EcReachable == SF_vars(EcReceives) /\ SF_vars(PostSucceeds)

Spec     == Init /\ [][Next]_vars /\ LoopFairness
LiveSpec == Spec /\ EcReachable

-----------------------------------------------------------------------------

\* "It is going to be OK just to keep track of the latest new block": the newest
\* head the loop took was received by the external consensus, is being posted,
\* or is the unsent one (ecconnector.go:145).  The one exception is a success for
\* a request that a verification had overwritten (ecrpcclient.go:190): the loop
\* cannot tell, and forgets the head.
NewestTracked ==
    newest # None =>
        \/ newest \in received \cup misled
        \/ usnewhead = newest
        \/ Posting /\ sending = newest

\* The loop never posts a head when the external consensus was already told of a
\* later one: a retry does not overtake (ecconnector.go:166), whatever comes late.
\* It says which head the loop chooses, not what an overwritten request names.
NeverBackwards ==
    [][loopPc = "select" /\ Posting' => \A h \in received : h <= sending']_vars

\* "The mining can not be turned off": once the loop runs, batching is off only
\* between the start and the end of a sync (ecconnector.go:156).
RunsUnlessSyncing ==
    loopPc \notin {"none", "leave", "done"} /\ downloader \in {"idle", "starting"} =>
        running

\* The last head with a proof reaches the external consensus, however many of the
\* requests fail or come late, unless the node stops; or unless one that a
\* verification overwrote is answered with success (misled).
LastSealed(h) == h \in Sealed /\ h <= head /\ \A l \in Sealed : l <= head => l <= h

HeadReachesEc == <>[](stopCh \/ \A h \in Heads : LastSealed(h) => h \in received \cup misled)

\* A stop ends the loop and the batcher and returns, also while the loop is in a
\* POST, waits for the batcher, or has not begun; and no sync waits for the loop.
StopEnds ==
    <>[](stopCh => /\ loopPc = "done" /\ batcher = "stopped"
                   /\ stopPc \in {"returned", "chainStopped"})

-----------------------------------------------------------------------------
(* The inductive invariant                                                 *)

\* The channel holds the heads after the newest one, in the chain's order.
ChannelInv ==
    /\ newest <= head
    /\ \A i \in 1 .. Len(newHeadCh) : newest < newHeadCh[i] /\ newHeadCh[i] <= head
    /\ \A i, j \in 1 .. Len(newHeadCh) : i < j => newHeadCh[i] < newHeadCh[j]

\* What was posted is not after the newest head; what is posted is the newest.
PostInv ==
    /\ \A h \in received \cup lingering : h <= newest
    /\ usnewhead <= newest
    /\ IF Posting
       THEN sending = newest /\ newest # None /\ (arrived => About \subseteq received)
       ELSE usnewhead \in {None, newest}

SyncInv == /\ subscribed => loopPc \notin {"none", "spawned", "hello", "subscribe", "done"}
           /\ RunsUnlessSyncing
           /\ loopPc \in {"restart", "restartLast"} => running
           /\ ~subscribed /\ loopPc \notin {"none", "leave", "done"} => running

ConnectorInv == TypeOK /\ ChannelInv /\ PostInv /\ NewestTracked /\ SyncInv
=============================================================================
