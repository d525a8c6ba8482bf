-------------------------- MODULE ConnectionProofs --------------------------
(***************************************************************************)
(* Proofs about the two sides of the connection to the external consensus. *)
(*                                                                         *)
(* RpcClient, for every set of headers and of callers: the answers a       *)
(* verification gives are answers of the external consensus, and a call    *)
(* that overlaps no other is about the header it was made for.             *)
(*                                                                         *)
(* EcConnector, for any number of heads and syncs and any capacity of the  *)
(* channel: ConnectorInv is inductive, and its key is that whenever the    *)
(* loop is in its select, usnewhead is either nil or the newest head the   *)
(* loop took, so that a retry never posts another.                         *)
(***************************************************************************)
EXTENDS RpcClient, EcConnector, TLAPS, SequenceTheorems

-----------------------------------------------------------------------------
(* The client *)

\* The request of a header is a request.
LEMMA ParamType == ASSUME NEW h \in Headers PROVE ParamOf(h) \in BlockParam
  BY HeadersAssumption DEF ParamOf, BlockParam, Proofs

\* Nothing was asked at the start.
LEMMA InitClient == ClientInit => ClientInv
<1> SUFFICES ASSUME ClientInit PROVE ClientInv
  OBVIOUS
<1>1. NoParam \in BlockParam
  BY DEF NoParam, BlockParam
<1>2. ClientType
  BY <1>1, HeadersAssumption DEF ClientInit, ClientType, Pcs, Paths
<1>3. QED
  BY <1>2 DEF ClientInit, ClientInv, SharedInv, AgreedInv, OwnInv, Own

\* A new call, of either kind.
LEMMA CallInv ==
    ASSUME SharedInv, NEW c \in Callers, NEW h \in Headers,
           VerifyHeader(c, h) \/ SendNewHead(c, h)
    PROVE  SharedInv'
<1>1. NoParam \in BlockParam
  BY DEF NoParam, BlockParam
<1>2. ClientType'
  BY <1>1, HeadersAssumption DEF SharedInv, ClientType, VerifyHeader, SendNewHead, Call, clientVars, Pcs, Paths
<1>3. AgreedInv'
  BY DEF SharedInv, ClientType, AgreedInv, VerifyHeader, SendNewHead, Call, clientVars
<1>4. QED
  BY <1>2, <1>3 DEF SharedInv

\* The steps before the request is posted.
LEMMA PrepareInv ==
    ASSUME SharedInv, NEW c \in Callers,
           \/ SetNumber(c) \/ SetHash(c) \/ GetNumber(c) \/ GetHash(c)
           \/ CacheNumber(c) \/ CacheHash(c) \/ CacheProof(c)
    PROVE  SharedInv'
<1>1. header[c] \in Headers
  BY DEF SharedInv, ClientType, AgreedInv, SetNumber, SetHash, GetNumber, GetHash, CacheNumber,
     CacheHash, CacheProof, Move
<1>2. CASE SetNumber(c) \/ SetHash(c)
  <2>1. ClientType'
    BY <1>1, <1>2, HeadersAssumption DEF SharedInv, ClientType, SetNumber, SetHash, Move, Pcs
  <2>2. AgreedInv'
    BY <1>2 DEF SharedInv, ClientType, AgreedInv, SetNumber, SetHash, Move
  <2>3. QED
    BY <2>1, <2>2 DEF SharedInv
<1>3. CASE GetNumber(c)
  <2>1. ClientType'
    BY <1>3 DEF SharedInv, ClientType, GetNumber, Move, clientVars, Pcs, BlockParam
  <2>2. AgreedInv'
    BY <1>3 DEF SharedInv, ClientType, AgreedInv, GetNumber, Move, clientVars
  <2>3. QED
    BY <2>1, <2>2 DEF SharedInv
<1>4. CASE GetHash(c)
  <2>1. ClientType'
    BY <1>1, <1>4 DEF SharedInv, ClientType, GetHash, Move, clientVars, Pcs, BlockParam, Proofs
  <2>2. AgreedInv'
    BY <1>4 DEF SharedInv, ClientType, AgreedInv, GetHash, Move, clientVars
  <2>3. QED
    BY <2>1, <2>2 DEF SharedInv
<1>5. CASE CacheNumber(c) \/ CacheHash(c)
  <2>1. ClientType'
    BY <1>5 DEF SharedInv, ClientType, CacheNumber, CacheHash, Move, clientVars, Pcs
  <2>2. AgreedInv'
    BY <1>5 DEF SharedInv, ClientType, AgreedInv, CacheNumber, CacheHash, Move, clientVars
  <2>3. QED
    BY <2>1, <2>2 DEF SharedInv
<1>6. CASE CacheProof(c)
  <2>1. ClientType'
    BY <1>6 DEF SharedInv, ClientType, CacheProof, Move, Return, clientVars, Pcs
  <2>2. AgreedInv'
    BY <1>6 DEF SharedInv, ClientType, AgreedInv, CacheProof, Move, Return, clientVars
  <2>3. QED
    BY <2>1, <2>2 DEF SharedInv
<1>7. QED
  BY <1>2, <1>3, <1>4, <1>5, <1>6

\* The POST, its answer and what the client keeps of it.
LEMMA PostStep ==
    ASSUME SharedInv, NEW c \in Callers,
           EcAccepts(c) \/ EcRejects(c) \/ Answered(c) \/ Unanswered(c) \/ Store(c)
    PROVE  SharedInv'
<1>1. CASE EcAccepts(c)
  <2>1. ClientType'
    BY <1>1 DEF SharedInv, ClientType, EcAccepts, Move, clientVars, Pcs
  <2>2. AgreedInv'
    BY <1>1 DEF SharedInv, ClientType, AgreedInv, EcAccepts, Move, clientVars
  <2>3. QED
    BY <2>1, <2>2 DEF SharedInv
<1>2. CASE EcRejects(c) \/ Answered(c) \/ Unanswered(c)
  <2>1. ClientType'
    BY <1>2 DEF SharedInv, ClientType, EcRejects, Answered, Unanswered, Move, Return, clientVars, Pcs
  <2>2. ASSUME EcRejects(c) PROVE AgreedInv'
    BY <2>2 DEF SharedInv, ClientType, AgreedInv, EcRejects, Move, clientVars
  <2>3. ASSUME Answered(c) PROVE AgreedInv'
    BY <2>3 DEF SharedInv, ClientType, AgreedInv, Answered, Move, Return, clientVars
  <2>4. ASSUME Unanswered(c) PROVE AgreedInv'
    BY <2>4 DEF SharedInv, ClientType, AgreedInv, Unanswered, Move, Return, clientVars
  <2>5. QED
    BY <1>2, <2>1, <2>2, <2>3, <2>4 DEF SharedInv
<1>3. CASE Store(c)
  <2>1. ClientType'
    BY <1>3, HeadersAssumption
       DEF SharedInv, ClientType, AgreedInv, Store, Return, Pcs, CacheEntry
  <2>2. <<"verifyseal", cachesvs'.bproof>> \in agreed'
    BY <1>3 DEF SharedInv, AgreedInv, Store, Return
  <2>3. cachesvs' # Nil
    <3>1. header[c] \in Headers /\ request[c] \in BlockParam
      BY <1>3 DEF SharedInv, ClientType, AgreedInv, Store, Return
    <3>2. cachesvs' \in CacheEntry
      BY <1>3, <3>1, HeadersAssumption DEF Store, CacheEntry
    <3>3. QED
      BY <3>2, NoneAssumption
  <2>4. AgreedInv'
    BY <1>3, <2>2, <2>3 DEF SharedInv, ClientType, AgreedInv, Store, Return
  <2>5. QED
    BY <2>1, <2>4 DEF SharedInv
<1>4. QED
  BY <1>1, <1>2, <1>3

-----------------------------------------------------------------------------
(* A call on its own                                                       *)

\* A call that begins: every other call in progress is no longer alone.
LEMMA OwnCall ==
    ASSUME ClientInv, NEW c \in Callers, NEW h \in Headers,
           VerifyHeader(c, h) \/ SendNewHead(c, h)
    PROVE  OwnInv'
<1>1. /\ alone' = IF \A d \in Callers : pc[d] = "idle"
                THEN alone \cup {c}
                ELSE {d \in alone \ {c} : pc[d] = "idle"}
      /\ header' = [header EXCEPT ![c] = h]
      /\ request' = [request EXCEPT ![c] = NoParam]
  BY DEF VerifyHeader, SendNewHead, Call
<1>2. /\ pc' = [pc EXCEPT ![c] = "idle"] \/ pc' = [pc EXCEPT ![c] = "setNumber"]
      /\ \E r \in {"error", "ok", "none"} :
            /\ reply' = [reply EXCEPT ![c] = r]
            /\ r = "ok" => NumberOf[h] = 0
  BY DEF VerifyHeader, SendNewHead
<1> SUFFICES ASSUME NEW d \in alone' PROVE Own(d)'
  BY DEF OwnInv
<1>3. CASE d = c
  BY <1>1, <1>2, <1>3 DEF ClientInv, SharedInv, ClientType, Own
<1>4. CASE d # c
  <2>1. d \in alone /\ d \in Callers /\ pc[d] = "idle" /\ pc'[d] = "idle"
    BY <1>1, <1>2, <1>4 DEF ClientInv, SharedInv, ClientType
  <2>2. reply'[d] = reply[d] /\ header'[d] = header[d] /\ request'[d] = request[d]
    BY <1>1, <1>2, <1>4 DEF ClientInv, SharedInv, ClientType
  <2>3. QED
    BY <2>1, <2>2 DEF ClientInv, OwnInv, Own
<1>5. QED
  BY <1>3, <1>4

\* What the steps inside a call of c have in common: they are no one else's.
LEMMA Others ==
    ASSUME ClientInv, NEW c \in Callers, CallStep(c) \/ EcAccepts(c) \/ EcRejects(c)
    PROVE  /\ alone' = alone /\ header' = header
           /\ \A d \in alone \ {c} : Own(d)'
<1>1. /\ pc[c] # "idle"
      /\ alone' = alone /\ header' = header
      /\ \A d \in Callers \ {c} :
            pc'[d] = pc[d] /\ reply'[d] = reply[d] /\ request'[d] = request[d]
  BY DEF CallStep, SetNumber, SetHash, GetNumber, GetHash, CacheNumber, CacheHash, CacheProof,
     Answered, Unanswered, Store, EcAccepts, EcRejects, Move, Return, ClientInv, SharedInv, ClientType
<1>2. ASSUME NEW d \in alone \ {c} PROVE Own(d)'
  <2>1. pc[d] = "idle"
    BY <1>1, <1>2 DEF ClientInv, SharedInv, ClientType, OwnInv, Own
  <2>2. QED
    BY <1>1, <1>2, <2>1 DEF ClientInv, SharedInv, ClientType, OwnInv, Own
<1>3. QED
  BY <1>1, <1>2

\* A step of c as seen from its own call.
LEMMA OwnStep ==
    ASSUME ClientInv, NEW c \in Callers, CallStep(c) \/ EcAccepts(c) \/ EcRejects(c)
    PROVE  OwnInv'
<1>1. /\ alone' = alone /\ header' = header
      /\ \A d \in alone \ {c} : Own(d)'
  BY Others
<1>2. SUFFICES ASSUME c \in alone PROVE Own(c)'
  BY <1>1 DEF OwnInv
<1>3. Own(c) /\ ClientType /\ AgreedInv
  BY <1>2 DEF ClientInv, SharedInv, OwnInv
<1>4. CASE SetNumber(c) \/ SetHash(c)
  BY <1>3, <1>4 DEF ClientType, AgreedInv, Own, SetNumber, SetHash, Move
<1>5. CASE GetNumber(c)
  <2>1. request'[c].blockno = NumberOf[header[c]]
    BY <1>3, <1>5 DEF ClientType, BlockParam, Own, GetNumber, Move
  <2>2. QED
    BY <1>3, <1>5, <2>1 DEF ClientType, AgreedInv, Own, GetNumber, Move, clientVars
<1>6. CASE GetHash(c)
  <2>1. request'[c] = ParamOf(header[c])
    <3>1. pc[c] = "getHash" /\ request \in [Callers -> BlockParam]
      BY <1>3, <1>6 DEF ClientType, GetHash, Move
    <3>2. request[c].blockno = NumberOf[header[c]] /\ bhash = header[c]
      BY <1>3, <3>1 DEF Own
    <3>3. request'[c] = [request[c] EXCEPT !.bhash = bhash, !.bproof = ProofOf[header[c]]]
      BY <1>6, <3>1 DEF GetHash
    <3>4. request[c] \in [blockno : Nat, bhash : Headers \cup {Nil}, bproof : Proofs \cup {Nil}]
      BY <3>1 DEF BlockParam
    <3>5. QED
      BY <3>2, <3>3, <3>4 DEF ParamOf
  <2>2. QED
    BY <1>3, <1>6, <2>1 DEF ClientType, AgreedInv, Own, GetHash, Move, clientVars
<1>7. CASE CacheNumber(c) \/ CacheHash(c) \/ CacheProof(c)
  BY <1>3, <1>7 DEF ClientType, AgreedInv, Own, CacheNumber, CacheHash, CacheProof, Move, Return,
     clientVars
<1>8. CASE EcAccepts(c) \/ EcRejects(c)
  BY <1>3, <1>8 DEF ClientType, AgreedInv, Own, EcAccepts, EcRejects, Move, clientVars
<1>9. CASE Answered(c)
  BY <1>3, <1>9 DEF ClientType, AgreedInv, Own, Answered, Move, Return, clientVars
<1>10. CASE Unanswered(c) \/ Store(c)
  BY <1>3, <1>10 DEF ClientType, AgreedInv, Own, Unanswered, Store, Return, clientVars
<1>11. QED
  BY <1>4, <1>5, <1>6, <1>7, <1>8, <1>9, <1>10 DEF CallStep

-----------------------------------------------------------------------------
(* The theorems                                                            *)

\* Types hold, successes are grounded, and a call on its own reads back what it
\* wrote, for any number of callers.
THEOREM ClientInvariant == ClientSpec => []ClientInv
<1>1. ASSUME ClientInv, [ClientNext]_rpcVars PROVE ClientInv'
  <2>1. CASE UNCHANGED rpcVars
    BY <1>1, <2>1 DEF ClientInv, SharedInv, ClientType, AgreedInv, OwnInv, Own, rpcVars, clientVars
  <2>2. CASE ClientNext
    <3>1. SharedInv'
      BY <1>1, <2>2, CallInv, PrepareInv, PostStep DEF ClientNext, CallStep, ClientInv
    <3>2. OwnInv'
      BY <1>1, <2>2, OwnCall, OwnStep DEF ClientNext
    <3>3. QED
      BY <3>1, <3>2 DEF ClientInv
  <2>3. QED
    BY <1>1, <2>1, <2>2
<1>2. QED
  BY InitClient, <1>1, PTL DEF ClientSpec

\* Every success stands on a success of the external consensus to the same
\* request, for any number of callers.
THEOREM SuccessAgreed == ClientSpec => []SuccessIsAgreed
<1>1. ClientInv => SuccessIsAgreed
  BY DEF ClientInv, SharedInv, AgreedInv, SuccessIsAgreed
<1>2. QED
  BY ClientInvariant, <1>1, PTL

\* A call that no other overlaps succeeds only on an agreement to the very header it
\* was made for.
THEOREM SuccessForHeader == ClientSpec => []SuccessIsForHeader
<1>1. ClientInv => SuccessIsForHeader
  BY DEF ClientInv, SharedInv, AgreedInv, OwnInv, Own, SuccessIsForHeader
<1>2. QED
  BY ClientInvariant, <1>1, PTL

-----------------------------------------------------------------------------
(* The loop of the connector *)

\* Nothing was taken or posted at the start.
LEMMA InitConnector == Init => ConnectorInv
<1> SUFFICES ASSUME Init PROVE ConnectorInv
  OBVIOUS
<1>1. TypeOK
  <2>1. HeadType
    BY ConstantsAssumption DEF Init, HeadType
  <2>2. loopPc \in LoopPcs /\ PostType /\ SyncType /\ WorkType /\ StopType
    BY DEF Init, LoopPcs, PostType, SyncType, WorkType, StopType
  <2>3. QED
    BY <2>1, <2>2 DEF TypeOK
<1>2. ChannelInv /\ PostInv /\ NewestTracked
  BY ConstantsAssumption DEF Init, ChannelInv, PostInv, About, NewestTracked, Posting, None
<1>3. SyncInv
  BY DEF Init, SyncInv, RunsUnlessSyncing
<1>4. QED
  BY <1>1, <1>2, <1>3 DEF ConnectorInv

\* Steps that touch neither heads nor requests keep what is said of them.
LEMMA HeadFrame ==
    ASSUME ConnectorInv, UNCHANGED <<headVars, postVars>>, ~Posting, ~Posting'
    PROVE  ChannelInv' /\ PostInv' /\ NewestTracked'
  BY DEF ConnectorInv, ChannelInv, PostInv, About, NewestTracked, Posting, headVars, postVars

\* So do steps that leave the loop where it is.
LEMMA LoopFrame ==
    ASSUME ConnectorInv, UNCHANGED <<headVars, postVars, loopPc>>
    PROVE  ChannelInv' /\ PostInv' /\ NewestTracked'
  BY DEF ConnectorInv, ChannelInv, PostInv, About, NewestTracked, Posting, headVars, postVars

\* The node's and the batcher's steps.
LEMMA NodeStep ==
    ASSUME ConnectorInv, Start \/ Stop \/ StopReturns \/ ChainStops \/ BatcherTakesStart
    PROVE  ConnectorInv'
<1>1. CASE Start
  <2>1. TypeOK'
    <3>1. HeadType' /\ PostType' /\ SyncType' /\ StopType'
      BY <1>1 DEF ConnectorInv, TypeOK, Start, headVars, postVars, syncVars, stopVars, HeadType,
         PostType, SyncType, StopType
    <3>2. loopPc' \in LoopPcs /\ WorkType'
      BY <1>1 DEF ConnectorInv, TypeOK, Start, LoopPcs, WorkType
    <3>3. QED
      BY <3>1, <3>2 DEF TypeOK
  <2>2. SyncInv'
    BY <1>1 DEF ConnectorInv, SyncInv, RunsUnlessSyncing, Start, syncVars
  <2>3. QED
    BY <1>1, <2>1, <2>2, HeadFrame DEF ConnectorInv, Start, Posting
<1>2. CASE Stop \/ StopReturns \/ ChainStops \/ BatcherTakesStart
  <2>1. TypeOK'
    <3>1. HeadType' /\ PostType' /\ SyncType' /\ loopPc' \in LoopPcs
      BY <1>2 DEF ConnectorInv, TypeOK, Stop, StopReturns, ChainStops, BatcherTakesStart, headVars,
         postVars, syncVars, HeadType, PostType, SyncType
    <3>2. WorkType' /\ StopType'
      BY <1>2 DEF ConnectorInv, TypeOK, Stop, StopReturns, ChainStops, BatcherTakesStart, workVars,
         stopVars, WorkType, StopType
    <3>3. QED
      BY <3>1, <3>2 DEF TypeOK
  <2>2. SyncInv'
    BY <1>2 DEF ConnectorInv, SyncInv, RunsUnlessSyncing, Stop, StopReturns, ChainStops,
       BatcherTakesStart, syncVars, workVars
  <2>3. QED
    BY <1>2, <2>1, <2>2, LoopFrame
       DEF ConnectorInv, Stop, StopReturns, ChainStops, BatcherTakesStart
<1>3. QED
  BY <1>1, <1>2

\* The downloader's steps.
LEMMA SyncStep ==
    ASSUME ConnectorInv, SyncBegins \/ SyncEnds \/ PostAbandoned
    PROVE  ConnectorInv'
<1>1. TypeOK'
  <2>1. HeadType'
    BY ConstantsAssumption
       DEF ConnectorInv, TypeOK, HeadType, SyncBegins, SyncEnds, PostAbandoned, headVars
  <2>2. loopPc' \in LoopPcs /\ PostType' /\ SyncType' /\ WorkType' /\ StopType'
    BY DEF ConnectorInv, TypeOK, PostType, SyncType, WorkType, StopType, SyncBegins, SyncEnds,
       PostAbandoned, postVars, workVars, stopVars
  <2>3. QED
    BY <2>1, <2>2 DEF TypeOK
<1>2. SyncInv'
  BY DEF ConnectorInv, SyncInv, RunsUnlessSyncing, SyncBegins, SyncEnds, PostAbandoned,
     workVars
<1>3. QED
  BY <1>1, <1>2, LoopFrame DEF ConnectorInv, SyncBegins, SyncEnds, PostAbandoned

\* The loop's steps that leave heads and requests alone.
LEMMA LoopControl ==
    ASSUME ConnectorInv,
           \/ LoopBegins \/ BeatEnds \/ LoopSubscribes \/ HeartbeatTick
           \/ TakesEvent \/ Restarts \/ SeesStop \/ Leaves
    PROVE  ConnectorInv'
<1>1. HeadType' /\ PostType'
  BY DEF ConnectorInv, TypeOK, HeadType, PostType, LoopBegins, BeatEnds, LoopSubscribes,
     HeartbeatTick, TakesEvent, Restarts, SeesStop, Leaves, headVars, postVars, syncVars
<1>2. loopPc' \in LoopPcs /\ SyncType' /\ WorkType' /\ StopType'
  <2>1. CASE LoopBegins \/ BeatEnds \/ LoopSubscribes \/ HeartbeatTick
    BY <2>1 DEF ConnectorInv, TypeOK, SyncType, WorkType, StopType, LoopPcs, LoopBegins, BeatEnds,
       LoopSubscribes, HeartbeatTick, syncVars, workVars, stopVars
  <2>2. CASE TakesEvent \/ Restarts
    BY <2>2 DEF ConnectorInv, TypeOK, SyncType, WorkType, StopType, LoopPcs, TakesEvent, Restarts,
       stopVars
  <2>3. CASE SeesStop \/ Leaves
    BY <2>3 DEF ConnectorInv, TypeOK, SyncType, WorkType, StopType, LoopPcs, SeesStop, Leaves,
       syncVars, workVars, stopVars
  <2>4. QED
    BY <2>1, <2>2, <2>3
<1>3. SyncInv'
  BY DEF ConnectorInv, SyncInv, RunsUnlessSyncing, LoopBegins, BeatEnds, LoopSubscribes,
     HeartbeatTick, TakesEvent, Restarts, SeesStop, Leaves, syncVars, workVars
<1>4. UNCHANGED <<headVars, postVars>> /\ ~Posting /\ ~Posting'
  BY DEF Posting, LoopBegins, BeatEnds, LoopSubscribes, HeartbeatTick, TakesEvent, Restarts,
     SeesStop, Leaves
<1>5. QED
  BY <1>1, <1>2, <1>3, <1>4, HeadFrame DEF ConnectorInv, TypeOK

\* A step about a head keeps everything but what is said of heads and requests.
LEMMA PostFrame ==
    ASSUME ConnectorInv, UNCHANGED <<syncVars, workVars, stopVars>>,
           \/ UNCHANGED loopPc
           \/ loopPc \in {"select", "send", "resend"} /\ loopPc' \in {"select", "send", "resend"}
    PROVE  loopPc' \in LoopPcs /\ SyncType' /\ WorkType' /\ StopType' /\ SyncInv'
  BY DEF ConnectorInv, TypeOK, SyncType, WorkType, StopType, SyncInv, RunsUnlessSyncing, LoopPcs,
     syncVars, workVars, stopVars

\* The chain has a new head: the channel stays in order.
LEMMA NewHeadStep == ASSUME ConnectorInv, NewHead PROVE ConnectorInv'
<1>1. HeadType' /\ PostType'
  <2>1. HeadType'
    BY ConstantsAssumption DEF ConnectorInv, TypeOK, HeadType, NewHead, syncVars, Heads
  <2>2. PostType'
    BY DEF ConnectorInv, TypeOK, PostType, NewHead, postVars
  <2>3. QED
    BY <2>1, <2>2
<1>2. ChannelInv'
  <2>1. CASE newHeadCh' = newHeadCh
    BY <2>1, ConstantsAssumption
       DEF ConnectorInv, TypeOK, HeadType, PostType, ChannelInv, NewHead, postVars, Heads, None
  <2>2. CASE newHeadCh' = Append(newHeadCh, head + 1)
    BY <2>2, ConstantsAssumption
       DEF ConnectorInv, TypeOK, HeadType, PostType, ChannelInv, NewHead, postVars, Heads, None
  <2>3. QED
    BY <2>1, <2>2 DEF NewHead
<1>3. PostInv' /\ NewestTracked'
  BY DEF ConnectorInv, PostInv, About, NewestTracked, Posting, NewHead, postVars
<1>4. QED
  BY <1>1, <1>2, <1>3, PostFrame DEF ConnectorInv, TypeOK, NewHead

\* The loop takes a head: it is newer than all that were posted.
LEMMA TakesHeadStep == ASSUME ConnectorInv, TakesHead PROVE ConnectorInv'
<1>1. /\ newHeadCh \in Seq(Heads) /\ newHeadCh # <<>>
      /\ Len(newHeadCh) >= 1 /\ newHeadCh[1] \in Heads
      /\ Tail(newHeadCh) \in Seq(Heads)
      /\ Len(Tail(newHeadCh)) = Len(newHeadCh) - 1
      /\ \A i \in 1 .. Len(Tail(newHeadCh)) : Tail(newHeadCh)[i] = newHeadCh[i + 1]
  BY DEF ConnectorInv, TypeOK, HeadType, TakesHead
<1>2. HeadType' /\ PostType'
  BY <1>1 DEF ConnectorInv, TypeOK, HeadType, PostType, TakesHead, Post, postVars, syncVars
<1>3. ChannelInv'
  BY <1>1, ConstantsAssumption
     DEF ConnectorInv, TypeOK, HeadType, PostType, ChannelInv, TakesHead, Post, postVars, Heads, None
<1>4. PostInv' /\ NewestTracked'
  <2>1. CASE newHeadCh[1] \in Sealed
    <3>1. /\ loopPc' = "send" /\ sending' = newHeadCh[1] /\ newest' = newHeadCh[1] /\ arrived' = FALSE
          /\ UNCHANGED <<usnewhead, received, misled, lingering>>
      BY <2>1 DEF TakesHead, Post
    <3>2. newest <= newHeadCh[1] /\ newHeadCh[1] # None
      BY <1>1, ConstantsAssumption
         DEF ConnectorInv, TypeOK, PostType, ChannelInv, Heads, None
    <3>3. usnewhead' <= newest' /\ \A h \in received' \cup lingering' : h <= newest'
      BY <1>1, <3>1, <3>2, ConstantsAssumption
         DEF ConnectorInv, TypeOK, PostType, PostInv, Heads, None
    <3>4. QED
      BY <3>1, <3>2, <3>3, Zenon DEF PostInv, About, NewestTracked, Posting
  <2>2. CASE newHeadCh[1] \notin Sealed
    BY <2>2 DEF ConnectorInv, PostInv, About, NewestTracked, Posting, TakesHead, postVars
  <2>3. QED
    BY <2>1, <2>2
<1>5. QED
  BY <1>2, <1>3, <1>4, PostFrame DEF ConnectorInv, TypeOK, TakesHead, Post

\* A request is repeated, received, answered, given up or comes late.
LEMMA RequestStep ==
    ASSUME ConnectorInv,
           RetryTick \/ EcReceives \/ PostSucceeds \/ PostFails \/ LateArrival
    PROVE  ConnectorInv'
<1>1. HeadType' /\ UNCHANGED headVars
  BY DEF ConnectorInv, TypeOK, HeadType, RetryTick, EcReceives, PostSucceeds, PostFails,
     LateArrival, headVars, syncVars
<1>2. PostType'
  BY DEF ConnectorInv, TypeOK, PostType, PostInv, About, RetryTick, Post, EcReceives, PostSucceeds,
     PostFails, Unsent, LateArrival, Posting
<1>3. newest' = newest /\ ChannelInv'
  BY <1>1 DEF ConnectorInv, ChannelInv, RetryTick, EcReceives, PostSucceeds, PostFails,
     LateArrival, headVars
<1>4. PostInv' /\ NewestTracked'
  <2> newest <= newest /\ None <= newest
    BY ConstantsAssumption DEF ConnectorInv, TypeOK, PostType, Heads, None
  <2>1. CASE RetryTick
    BY <2>1 DEF ConnectorInv, PostInv, About, NewestTracked, Posting, RetryTick, Post
  <2>2. CASE EcReceives \/ PostSucceeds
    BY <2>2 DEF ConnectorInv, PostInv, About, NewestTracked, Posting, EcReceives, PostSucceeds
  <2>5. CASE PostFails
    BY <2>5 DEF ConnectorInv, PostInv, About, NewestTracked, Posting, PostFails, Unsent
  <2>3. CASE LateArrival
    BY <2>3 DEF ConnectorInv, PostInv, About, NewestTracked, Posting, LateArrival
  <2>4. QED
    BY <2>1, <2>2, <2>3, <2>5
<1>5. QED
  BY <1>1, <1>2, <1>3, <1>4, PostFrame
     DEF ConnectorInv, TypeOK, RetryTick, Post, EcReceives, PostSucceeds, PostFails, LateArrival, Posting

\* Every step keeps the invariant.
LEMMA ConnectorStep == ASSUME ConnectorInv, [Next]_vars PROVE ConnectorInv'
<1>1. CASE UNCHANGED vars
  BY <1>1 DEF ConnectorInv, TypeOK, HeadType, PostType, SyncType, WorkType, StopType, ChannelInv,
     PostInv, About, NewestTracked, SyncInv, RunsUnlessSyncing, Posting, vars, headVars, postVars,
     syncVars, workVars, stopVars
<1>2. CASE Next
  BY <1>2, NodeStep, SyncStep, LoopControl, NewHeadStep, TakesHeadStep, RequestStep
     DEF Next, LoopStep, SelectStep
<1>3. QED
  BY <1>1, <1>2

\* The invariant holds of every behaviour.
THEOREM ConnectorInvariant == Spec => []ConnectorInv
  BY InitConnector, ConnectorStep, PTL DEF Spec

\* The newest head is never lost: one variable is enough to remember it.
THEOREM NewestNeverLost == Spec => []NewestTracked
<1>1. ConnectorInv => NewestTracked
  BY DEF ConnectorInv
<1>2. QED
  BY ConnectorInvariant, <1>1, PTL

\* Batching is off only while a sync is in progress.
THEOREM BatchingRuns == Spec => []RunsUnlessSyncing
<1>1. ConnectorInv => RunsUnlessSyncing
  BY DEF ConnectorInv, SyncInv
<1>2. QED
  BY ConnectorInvariant, <1>1, PTL

\* No new request tells the external consensus of a head older than one it knows.
THEOREM RetriesInOrder == Spec => NeverBackwards
<1> DEFINE A == loopPc = "select" /\ Posting' => \A h \in received : h <= sending'
<1>1. ASSUME ConnectorInv, [Next]_vars PROVE [A]_vars
  <2> SUFFICES ASSUME loopPc = "select", Posting', NEW h \in received PROVE h <= sending'
    OBVIOUS
  <2>1. received' = received
    BY <1>1 DEF Next, LoopStep, SelectStep, Start, Stop, StopReturns, ChainStops, NewHead, SyncBegins,
       SyncEnds, PostAbandoned, BatcherTakesStart, LoopBegins, BeatEnds, LoopSubscribes, Restarts,
       Leaves, PostSucceeds, PostFails, HeartbeatTick, RetryTick, TakesHead, TakesEvent, SeesStop,
       EcReceives, LateArrival, Posting, Post, vars, postVars
  <2>2. ConnectorInv'
    BY <1>1, ConnectorStep
  <2>3. QED
    BY <2>1, <2>2 DEF ConnectorInv, PostInv
<1>2. QED
  BY ConnectorInvariant, <1>1, PTL DEF Spec, NeverBackwards
=============================================================================
