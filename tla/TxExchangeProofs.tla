-------------------------- MODULE TxExchangeProofs --------------------------
(***************************************************************************)
(* What holds of TxExchange for any transactions, sessions and nodes and   *)
(* any sizes of the packs and of the known sets.  ExchangeInv is inductive *)
(* as it stands: HandoverInv ties a pack that is done to what was sent,    *)
(* KnownTxs makes a peer that a broadcast leaves out one that has the      *)
(* transaction, and Conserved follows a session through its packs.         *)
(*                                                                         *)
(* There is one lemma for each action.  In each the parts of the invariant *)
(* that the action cannot disturb come first, in one step.                 *)
(***************************************************************************)
EXTENDS TxExchange, TLAPS

\* Marking transactions for a peer makes no others known.
LEMMA MarkingAdds ==
    ASSUME TypeOK, NEW s \in Sessions, NEW txs \in SUBSET Txs, MarkAll(s, txs)
    PROVE  /\ known' \in [Sessions -> SUBSET Txs]
           /\ \A q \in Sessions : known'[q] \subseteq known[q] \cup (IF q = s THEN txs ELSE {})
<1>1. PICK kept \in RoomFor(known[s], Cardinality(txs)) : known' = [known EXCEPT ![s] = kept \cup
   txs]
  BY DEF MarkAll
<1>2. kept \subseteq known[s]
  BY DEF RoomFor
<1>3. known \in [Sessions -> SUBSET Txs]
  BY DEF TypeOK
<1>4. QED
  BY <1>1, <1>2, <1>3

\* There is a pack, of an old session, unless the loop is idle.
LEMMA PackedSession ==
    ASSUME TypeOK, PackInv, sending # "idle"
    PROVE  /\ pack # Nothing /\ pack.peer \in Legacy /\ pack.peer \in Sessions
           /\ pack.txs \in SUBSET Txs
<1>1. pack # Nothing /\ pack.peer \in Legacy
  BY DEF PackInv
<1>2. QED
  BY <1>1, TxExchangeAssumption DEF TypeOK

\* The next pack of a session, and what stays pending for its node.
LEMMA SendNext ==
    ASSUME NEW s \in Sessions, NEW txs \in SUBSET Txs,
           NEW others \in [Nodes -> [peer : Sessions \cup {None}, txs : SUBSET Txs]],
           Send(s, txs, others)
    PROVE  /\ pack' \in [peer : Sessions \cup {None}, txs : SUBSET Txs]
           /\ pending' \in [Nodes -> [peer : Sessions \cup {None}, txs : SUBSET Txs]]
           /\ \A n \in Nodes : n # Node[s] => pending'[n] = others[n]
           /\ pending'[Node[s]] # Nothing => pending'[Node[s]].peer = s /\ pending'[Node[s]].txs #
              {}
           /\ pack'.peer = s /\ sending' = "mark"
           /\ pack'.txs \cap pending'[Node[s]].txs = {}
           /\ pending'[Node[s]] = Nothing => pack'.txs = txs
           /\ pending'[Node[s]] # Nothing => pack'.txs \cup pending'[Node[s]].txs = txs
<1>1. PICK some \in SUBSET txs :
         /\ pack' = [peer |-> s, txs |-> some]
         /\ pending' = [others EXCEPT ![Node[s]] = IF some = txs THEN Nothing
                                                   ELSE [peer |-> s, txs |-> txs \ some]]
         /\ sending' = "mark"
  BY DEF Send
<1>2. Node[s] \in Nodes /\ None \notin Sessions
  BY TxExchangeAssumption
<1>3. CASE some = txs
  BY <1>1, <1>2, <1>3 DEF Nothing
<1>4. CASE some # txs
  <2>1. /\ [peer |-> s, txs |-> txs \ some] \in [peer : Sessions \cup {None}, txs : SUBSET Txs]
        /\ txs \ some # {} /\ [peer |-> s, txs |-> txs \ some] # Nothing
    BY <1>1, <1>2, <1>4 DEF Nothing
  <2>2. QED
    BY <1>1, <1>2, <1>4, <2>1
<1>5. QED
  BY <1>3, <1>4

LEMMA StepTxArrives == ASSUME ExchangeInv, NEW t \in Txs, TxArrives(t) PROVE ExchangeInv'
<1>0. /\ TypeOK /\ NoTxMissed /\ Conserved /\ PackInv
      /\ HandoverInv /\ KnownTxs /\ BatchInv
  BY DEF ExchangeInv
<1>1. Conserved' /\ PackInv' /\ HandoverInv' /\ KnownTxs'
  BY <1>0 DEF TxArrives, sessionVars, syncVars, Conserved, PackInv, HandoverInv, KnownTxs, Reached
<1>2. TypeOK'
  BY <1>0 DEF TxArrives, sessionVars, syncVars, TypeOK
<1>3. NoTxMissed'
  BY <1>0 DEF TxArrives, sessionVars, syncVars, TypeOK, NoTxMissed, Reached, InSync, InBroadcast
<1>4. BatchInv'
  BY <1>0 DEF TxArrives, sessionVars, syncVars, TypeOK, BatchInv
<1>5. QED
  BY <1>1, <1>2, <1>3, <1>4 DEF ExchangeInv

LEMMA StepRegisters == ASSUME ExchangeInv, NEW s \in Sessions, Registers(s) PROVE ExchangeInv'
<1>0. /\ TypeOK /\ NoTxMissed /\ Conserved /\ PackInv
      /\ HandoverInv /\ KnownTxs /\ BatchInv
  BY DEF ExchangeInv
<1>1. KnownTxs'
  BY <1>0 DEF Registers, sessionVars, syncVars, KnownTxs, Reached
<1>2. TypeOK'
  BY <1>0 DEF Registers, sessionVars, syncVars, TypeOK
<1>3. NoTxMissed'
  BY <1>0 DEF Registers, sessionVars, syncVars, TypeOK, NoTxMissed, Reached, InSync, InBroadcast
<1>4. Conserved'
  BY <1>0 DEF Registers, sessionVars, syncVars, TypeOK, Conserved
<1>5. PackInv'
  BY <1>0 DEF Registers, sessionVars, syncVars, TypeOK, PackInv
<1>6. HandoverInv'
  BY <1>0 DEF Registers, sessionVars, syncVars, TypeOK, HandoverInv
<1>7. BatchInv'
  BY <1>0 DEF Registers, sessionVars, syncVars, TypeOK, BatchInv
<1>8. QED
  BY <1>1, <1>2, <1>3, <1>4, <1>5, <1>6, <1>7 DEF ExchangeInv

LEMMA StepUnregisters == ASSUME ExchangeInv, NEW s \in Sessions, Unregisters(s) PROVE ExchangeInv'
<1>0. /\ TypeOK /\ NoTxMissed /\ Conserved /\ PackInv
      /\ HandoverInv /\ KnownTxs /\ BatchInv
  BY DEF ExchangeInv
<1>1. Conserved' /\ PackInv' /\ HandoverInv' /\ KnownTxs'
  BY <1>0 DEF Unregisters, sessionVars, syncVars, Conserved, PackInv, HandoverInv, KnownTxs, Reached
<1>2. TypeOK'
  BY <1>0 DEF Unregisters, sessionVars, syncVars, TypeOK
<1>3. NoTxMissed'
  BY <1>0 DEF Unregisters, sessionVars, syncVars, TypeOK, NoTxMissed, Reached, InSync, InBroadcast
<1>4. BatchInv'
  BY <1>0 DEF Unregisters, sessionVars, syncVars, TypeOK, BatchInv
<1>5. QED
  BY <1>1, <1>2, <1>3, <1>4 DEF ExchangeInv

LEMMA StepClose == ASSUME ExchangeInv, NEW s \in Sessions, Close(s) PROVE ExchangeInv'
<1>0. /\ TypeOK /\ NoTxMissed /\ Conserved /\ PackInv
      /\ HandoverInv /\ KnownTxs /\ BatchInv
  BY DEF ExchangeInv
<1>1. KnownTxs'
  BY <1>0 DEF Close, sessionVars, syncVars, KnownTxs, Reached
<1>2. TypeOK'
  BY <1>0 DEF Close, sessionVars, syncVars, TypeOK
<1>3. NoTxMissed'
  BY <1>0 DEF Close, sessionVars, syncVars, TypeOK, NoTxMissed, Reached, InSync, InBroadcast
<1>4. Conserved'
  BY <1>0 DEF Close, sessionVars, syncVars, TypeOK, Conserved
<1>5. PackInv'
  BY <1>0 DEF Close, sessionVars, syncVars, TypeOK, PackInv
<1>6. HandoverInv'
  BY <1>0 DEF Close, sessionVars, syncVars, TypeOK, HandoverInv
<1>7. BatchInv'
  BY <1>0 DEF Close, sessionVars, syncVars, TypeOK, BatchInv
<1>8. QED
  BY <1>1, <1>2, <1>3, <1>4, <1>5, <1>6, <1>7 DEF ExchangeInv

LEMMA StepMarksTransaction ==
    ASSUME ExchangeInv, NEW s \in Sessions, NEW t \in Txs, markTransaction(s, t)
    PROVE  ExchangeInv'
<1>0. /\ TypeOK /\ NoTxMissed /\ Conserved /\ PackInv
      /\ HandoverInv /\ KnownTxs /\ BatchInv
  BY DEF ExchangeInv
<1>1. Conserved' /\ PackInv' /\ HandoverInv' /\ BatchInv'
  BY <1>0 DEF markTransaction, sessionVars, syncVars, Conserved, PackInv, HandoverInv, BatchInv
<1>2. {t} \in SUBSET Txs
  BY <1>0 DEF TypeOK
<1>3. /\ known' \in [Sessions -> SUBSET Txs]
      /\ \A q \in Sessions : known'[q] \subseteq known[q] \cup (IF q = s THEN {t} ELSE {})
  BY <1>0, <1>2, MarkingAdds DEF markTransaction, TypeOK
<1>4. TypeOK'
  BY <1>0, <1>2, <1>3 DEF markTransaction, sessionVars, syncVars, TypeOK
<1>5. NoTxMissed'
  BY <1>0, <1>2, <1>3 DEF markTransaction, sessionVars, syncVars, TypeOK, NoTxMissed, Reached,
                          InSync, InBroadcast
<1>6. KnownTxs'
  BY <1>0, <1>2, <1>3 DEF markTransaction, sessionVars, syncVars, TypeOK, KnownTxs, Reached
<1>7. QED
  BY <1>1, <1>2, <1>3, <1>4, <1>5, <1>6 DEF ExchangeInv

LEMMA StepTakesEvent == ASSUME ExchangeInv, TakesEvent PROVE ExchangeInv'
<1>0. /\ TypeOK /\ NoTxMissed /\ Conserved /\ PackInv
      /\ HandoverInv /\ KnownTxs /\ BatchInv
  BY DEF ExchangeInv
<1>1. Conserved' /\ PackInv' /\ HandoverInv' /\ KnownTxs'
  BY <1>0 DEF TakesEvent, sessionVars, syncVars, Conserved, PackInv, HandoverInv, KnownTxs, Reached
<1>2. PICK txs \in SUBSET events :
         /\ broadcast'.at = "peers" /\ broadcast'.txs = txs
         /\ broadcast'.direct = NoTxs /\ broadcast'.annos = NoTxs
         /\ broadcast' \in [at : {"idle", "peers", "send"}, txs : SUBSET Txs,
                            direct : [Sessions -> SUBSET Txs], annos : [Sessions -> SUBSET Txs]]
         /\ events' = events \ txs
         /\ txs # {}
  <2>1. PICK txs \in (SUBSET events) \ {{}} :
           broadcast' = [Idle EXCEPT !.at = "peers", !.txs = txs] /\ events' = events \ txs
    BY DEF TakesEvent
  <2>2. /\ Idle \in [at : {"idle", "peers", "send"}, txs : SUBSET Txs,
                     direct : [Sessions -> SUBSET Txs], annos : [Sessions -> SUBSET Txs]]
        /\ Idle.direct = NoTxs /\ Idle.annos = NoTxs
    BY DEF Idle, NoTxs
  <2>3. txs \in SUBSET Txs
    BY <1>0, <2>1 DEF TypeOK
  <2>4. \A x \in [at : {"idle", "peers", "send"}, txs : SUBSET Txs,
                direct : [Sessions -> SUBSET Txs], annos : [Sessions -> SUBSET Txs]] :
           broadcast' = [x EXCEPT !.at = "peers", !.txs = txs] =>
              /\ broadcast'.at = "peers" /\ broadcast'.txs = txs
              /\ broadcast'.direct = x.direct /\ broadcast'.annos = x.annos
              /\ broadcast' \in [at : {"idle", "peers", "send"}, txs : SUBSET Txs,
                                 direct : [Sessions -> SUBSET Txs], annos : [Sessions -> SUBSET
                                    Txs]]
    BY <2>3
  <2>5. txs \in SUBSET events /\ txs # {}
    BY <2>1
  <2>6. QED
    BY <2>1, <2>2, <2>4, <2>5
<1>3. UNCHANGED <<setup, pool, sessionVars, known, syncVars, stop, ended, given>> /\ broadcast =
   Idle
  BY <1>0 DEF TakesEvent, BatchInv
<1>4. TypeOK'
  BY <1>0, <1>2, <1>3 DEF TypeOK, sessionVars, syncVars
<1>5. NoTxMissed'
  BY <1>0, <1>2, <1>3 DEF sessionVars, syncVars, TypeOK, NoTxMissed, Reached, InSync, InBroadcast,
                          Idle
<1>6. BatchInv'
  <2>1. /\ broadcast'.at = "peers" /\ broadcast'.txs = txs /\ events' \cup txs = events
        /\ events \subseteq pool
    BY <1>0, <1>2 DEF BatchInv
  <2>2. \A s \in registered' : pc'[s] \notin {"away", "closed"}
    BY <1>0, <1>3 DEF BatchInv, sessionVars
  <2>3. QED
    BY <1>2, <1>3, <2>1, <2>2 DEF BatchInv
<1>7. QED
  BY <1>1, <1>4, <1>5, <1>6 DEF ExchangeInv

LEMMA StepSelectsPeers == ASSUME ExchangeInv, SelectsPeers PROVE ExchangeInv'
<1>0. /\ TypeOK /\ NoTxMissed /\ Conserved /\ PackInv
      /\ HandoverInv /\ KnownTxs /\ BatchInv
  BY DEF ExchangeInv
<1>1. Conserved' /\ PackInv' /\ HandoverInv' /\ KnownTxs'
  BY <1>0 DEF SelectsPeers, sessionVars, syncVars, Conserved, PackInv, HandoverInv, KnownTxs,
              Reached
<1>2. PICK t \in broadcast.txs : \E direct \in SUBSET peersWithoutTransaction(t) :
         broadcast' = [broadcast EXCEPT
            !.txs = @ \ {t},
            !.at = IF broadcast.txs = {t} THEN "send" ELSE "peers",
            !.direct = [s \in Sessions |-> IF s \in direct THEN @[s] \cup {t} ELSE @[s]],
            !.annos = [s \in Sessions |-> IF s \in peersWithoutTransaction(t) \ direct
                                          THEN @[s] \cup {t} ELSE @[s]]]
  BY DEF SelectsPeers
<1>3. PICK direct \in SUBSET peersWithoutTransaction(t) :
         broadcast' = [broadcast EXCEPT
            !.txs = @ \ {t},
            !.at = IF broadcast.txs = {t} THEN "send" ELSE "peers",
            !.direct = [s \in Sessions |-> IF s \in direct THEN @[s] \cup {t} ELSE @[s]],
            !.annos = [s \in Sessions |-> IF s \in peersWithoutTransaction(t) \ direct
                                          THEN @[s] \cup {t} ELSE @[s]]]
  BY <1>2
<1>4. /\ broadcast'.txs = broadcast.txs \ {t}
      /\ broadcast'.at = IF broadcast.txs = {t} THEN "send" ELSE "peers"
      /\ broadcast'.direct = [s \in Sessions |-> IF s \in direct THEN broadcast.direct[s] \cup {t}
                                                 ELSE broadcast.direct[s]]
      /\ broadcast'.annos = [s \in Sessions |-> IF s \in peersWithoutTransaction(t) \ direct
                                                THEN broadcast.annos[s] \cup {t}
                                                ELSE broadcast.annos[s]]
      /\ broadcast' \in [at : {"idle", "peers", "send"}, txs : SUBSET Txs,
                         direct : [Sessions -> SUBSET Txs], annos : [Sessions -> SUBSET Txs]]
  <2>1. /\ broadcast \in [at : {"idle", "peers", "send"}, txs : SUBSET Txs,
                          direct : [Sessions -> SUBSET Txs], annos : [Sessions -> SUBSET Txs]]
        /\ t \in Txs
    BY <1>0, <1>2 DEF TypeOK
  <2>2. QED
    BY <1>3, <2>1
<1>5. UNCHANGED <<setup, pool, events, sessionVars, known, syncVars, stop, ended, given>>
  BY DEF SelectsPeers
<1>6. TypeOK'
  BY <1>0, <1>4, <1>5 DEF TypeOK, sessionVars, syncVars
\* A peer without the transaction gets it one way or the other; one that is left out has it.
<1>7. NoTxMissed'
  <2> SUFFICES ASSUME NEW s \in registered', NEW u \in pool'
               PROVE  (\/ pc[s] = "registered"
                       \/ Reached(s, u) \/ InSync(s, u) \/ InBroadcast(s, u)
                       \/ s \in cut
                       \/ "broadcast" \in ended)'
    BY DEF NoTxMissed
  <2>1. s \in registered /\ u \in pool /\ s \in Sessions
    BY <1>0, <1>5 DEF TypeOK, sessionVars
  <2>2. /\ Reached(s, u) => Reached(s, u)'
        /\ InSync(s, u) => InSync(s, u)'
    BY <1>5 DEF Reached, InSync, sessionVars, syncVars
  <2>3. CASE u # t
    <3>1. InBroadcast(s, u) => InBroadcast(s, u)'
      BY <1>4, <1>5, <2>1, <2>3 DEF InBroadcast
    <3>2. QED
      BY <1>0, <1>5, <2>1, <2>2, <3>1 DEF NoTxMissed, sessionVars, syncVars
  <2>4. CASE u = t /\ s \in peersWithoutTransaction(t)
    BY <1>4, <2>1, <2>4 DEF InBroadcast
  <2>5. CASE u = t /\ s \notin peersWithoutTransaction(t)
    <3>1. u \in known[s]
      BY <2>1, <2>5 DEF peersWithoutTransaction
    <3>2. Reached(s, u) \/ InSync(s, u) \/ s \in cut
      BY <1>0, <2>1, <3>1 DEF KnownTxs, InSync
    <3>3. QED
      BY <1>5, <2>2, <3>2 DEF syncVars
  <2>6. QED
    BY <2>3, <2>4, <2>5
<1>8. BatchInv'
  <2>1. /\ broadcast'.at \in {"peers", "send"}
        /\ broadcast'.at = "peers" <=> broadcast'.txs # {}
        /\ broadcast'.txs \subseteq broadcast.txs
    <3>1. CASE broadcast.txs = {t}
      BY <1>4, <3>1
    <3>2. CASE broadcast.txs # {t}
      <4>1. broadcast.txs \ {t} # {}
        BY <1>2, <3>2
      <4>2. QED
        BY <1>4, <3>2, <4>1
    <3>3. QED
      BY <3>1, <3>2
  <2>2. broadcast'.at # "idle"
    BY <2>1
  <2>3. QED
    BY <1>0, <1>5, <2>1, <2>2 DEF BatchInv, sessionVars
<1>9. QED
  BY <1>1, <1>6, <1>7, <1>8 DEF ExchangeInv

LEMMA StepAsyncSendTransactions ==
    ASSUME ExchangeInv, NEW s \in Sessions, AsyncSendTransactions(s)
    PROVE  ExchangeInv'
<1>0. /\ TypeOK /\ NoTxMissed /\ Conserved /\ PackInv
      /\ HandoverInv /\ KnownTxs /\ BatchInv
  BY DEF ExchangeInv
<1>1. Conserved' /\ PackInv' /\ HandoverInv'
  BY <1>0 DEF AsyncSendTransactions, sessionVars, syncVars, AsyncSend, Conserved, PackInv,
              HandoverInv
<1>2. broadcast.direct[s] \in SUBSET Txs
  BY <1>0 DEF TypeOK
<1>3. /\ known' \in [Sessions -> SUBSET Txs]
      /\ \A q \in Sessions : known'[q] \subseteq known[q] \cup (IF q = s THEN broadcast.direct[s] ELSE {})
  BY <1>0, <1>2, MarkingAdds DEF AsyncSendTransactions, AsyncSend, TypeOK
<1>4. /\ broadcast'.at = "send" /\ broadcast'.txs = broadcast.txs
      /\ broadcast'.direct = [broadcast.direct EXCEPT ![s] = {}]
      /\ broadcast'.annos = broadcast.annos
      /\ broadcast' = [at |-> broadcast'.at, txs |-> broadcast'.txs,
                       direct |-> broadcast'.direct, annos |-> broadcast'.annos]
  BY <1>0 DEF TypeOK, AsyncSendTransactions
<1>5. TypeOK'
  <2>1. /\ broadcast' \in [at : {"idle", "peers", "send"}, txs : SUBSET Txs,
                           direct : [Sessions -> SUBSET Txs], annos : [Sessions -> SUBSET Txs]]
        /\ given' \in [Sessions -> SUBSET Txs]
    BY <1>0, <1>2, <1>4 DEF TypeOK, AsyncSendTransactions, AsyncSend
  <2>2. QED
    BY <1>0, <1>3, <2>1 DEF TypeOK, AsyncSendTransactions, AsyncSend, sessionVars, syncVars
<1>6. NoTxMissed'
  BY <1>0, <1>2, <1>3, <1>4 DEF AsyncSendTransactions, sessionVars, syncVars, TypeOK, NoTxMissed,
                                Reached, InSync, InBroadcast, AsyncSend, BatchInv
<1>7. KnownTxs'
  BY <1>0, <1>2, <1>3, <1>4 DEF AsyncSendTransactions, sessionVars, syncVars, TypeOK, KnownTxs,
                                Reached, AsyncSend
<1>8. BatchInv'
  BY <1>0, <1>2, <1>3, <1>4 DEF AsyncSendTransactions, sessionVars, syncVars, TypeOK, BatchInv,
                                AsyncSend
<1>9. QED
  BY <1>1, <1>2, <1>3, <1>4, <1>5, <1>6, <1>7, <1>8 DEF ExchangeInv

LEMMA StepAsyncSendPooledTransactionHashes ==
    ASSUME ExchangeInv, NEW s \in Sessions, AsyncSendPooledTransactionHashes(s)
    PROVE  ExchangeInv'
<1>0. /\ TypeOK /\ NoTxMissed /\ Conserved /\ PackInv
      /\ HandoverInv /\ KnownTxs /\ BatchInv
  BY DEF ExchangeInv
<1>1. Conserved' /\ PackInv' /\ HandoverInv'
  BY <1>0 DEF AsyncSendPooledTransactionHashes, sessionVars, syncVars, AsyncSend, Conserved,
              PackInv, HandoverInv
<1>2. broadcast.annos[s] \in SUBSET Txs
  BY <1>0 DEF TypeOK
<1>3. /\ known' \in [Sessions -> SUBSET Txs]
      /\ \A q \in Sessions : known'[q] \subseteq known[q] \cup (IF q = s THEN broadcast.annos[s] ELSE {})
  BY <1>0, <1>2, MarkingAdds DEF AsyncSendPooledTransactionHashes, AsyncSend, TypeOK
<1>4. TypeOK'
  BY <1>0, <1>2, <1>3 DEF AsyncSendPooledTransactionHashes, sessionVars, syncVars, TypeOK, AsyncSend
<1>5. NoTxMissed'
  BY <1>0, <1>2, <1>3 DEF AsyncSendPooledTransactionHashes, sessionVars, syncVars, TypeOK,
                          NoTxMissed, Reached, InSync, InBroadcast, AsyncSend, BatchInv
<1>6. KnownTxs'
  BY <1>0, <1>2, <1>3 DEF AsyncSendPooledTransactionHashes, sessionVars, syncVars, TypeOK,
                          KnownTxs, Reached, AsyncSend
<1>7. BatchInv'
  BY <1>0, <1>2, <1>3 DEF AsyncSendPooledTransactionHashes, sessionVars, syncVars, TypeOK,
                          BatchInv, AsyncSend
<1>8. QED
  BY <1>1, <1>2, <1>3, <1>4, <1>5, <1>6, <1>7 DEF ExchangeInv

LEMMA StepBroadcastReturns == ASSUME ExchangeInv, BroadcastReturns PROVE ExchangeInv'
<1>0. /\ TypeOK /\ NoTxMissed /\ Conserved /\ PackInv
      /\ HandoverInv /\ KnownTxs /\ BatchInv
  BY DEF ExchangeInv
<1>1. Conserved' /\ PackInv' /\ HandoverInv' /\ KnownTxs'
  BY <1>0 DEF BroadcastReturns, sessionVars, syncVars, Conserved, PackInv, HandoverInv, KnownTxs,
              Reached
<1>2. TypeOK'
  BY <1>0 DEF BroadcastReturns, sessionVars, syncVars, TypeOK, Idle, NoTxs
<1>3. NoTxMissed'
  BY <1>0 DEF BroadcastReturns, sessionVars, syncVars, TypeOK, NoTxMissed, Reached, InSync,
              InBroadcast, Idle, NoTxs, BatchInv
<1>4. BatchInv'
  BY <1>0 DEF BroadcastReturns, sessionVars, syncVars, TypeOK, BatchInv, Idle, NoTxs
<1>5. QED
  BY <1>1, <1>2, <1>3, <1>4 DEF ExchangeInv

LEMMA StepBroadcastLoopEnds == ASSUME ExchangeInv, BroadcastLoopEnds PROVE ExchangeInv'
<1>0. /\ TypeOK /\ NoTxMissed /\ Conserved /\ PackInv
      /\ HandoverInv /\ KnownTxs /\ BatchInv
  BY DEF ExchangeInv
<1>1. Conserved' /\ PackInv' /\ HandoverInv' /\ KnownTxs' /\ BatchInv'
  BY <1>0 DEF BroadcastLoopEnds, sessionVars, syncVars, Conserved, PackInv, HandoverInv, KnownTxs,
              Reached, BatchInv
<1>2. TypeOK'
  BY <1>0 DEF BroadcastLoopEnds, sessionVars, syncVars, TypeOK, Loops
<1>3. NoTxMissed'
  BY <1>0 DEF BroadcastLoopEnds, sessionVars, syncVars, TypeOK, NoTxMissed, Reached, InSync,
              InBroadcast, Loops
<1>4. QED
  BY <1>1, <1>2, <1>3 DEF ExchangeInv

LEMMA StepReadsPending == ASSUME ExchangeInv, NEW s \in Sessions, ReadsPending(s) PROVE ExchangeInv'
<1>0. /\ TypeOK /\ NoTxMissed /\ Conserved /\ PackInv
      /\ HandoverInv /\ KnownTxs /\ BatchInv
  BY DEF ExchangeInv
<1>1. KnownTxs'
  BY <1>0 DEF ReadsPending, sessionVars, syncVars, KnownTxs, Reached
<1>2. pack.peer # s
  BY <1>0, TxExchangeAssumption DEF PackInv, Nothing, ReadsPending
<1>3. TypeOK'
  BY <1>0, <1>2 DEF ReadsPending, sessionVars, syncVars, TypeOK
<1>4. NoTxMissed'
  BY <1>0, <1>2 DEF ReadsPending, sessionVars, syncVars, TypeOK, NoTxMissed, Reached, InSync,
                    InBroadcast
<1>5. Conserved'
  <2>1. /\ initial' = [initial EXCEPT ![s] = pool]
        /\ pc'[s] \in {"serving", "closed"} /\ s \in Legacy => pool = {}
        /\ sent[s] = {} /\ pending[Node[s]].peer # s
        /\ \A q \in Sessions : q # s => pc'[q] = pc[q]
    BY <1>0, TxExchangeAssumption DEF ReadsPending, TypeOK, HandoverInv, PackInv, Nothing
  <2>2. QED
    BY <1>0, <1>2, <2>1, TxExchangeAssumption DEF ReadsPending, Conserved, syncVars, TypeOK
<1>6. PackInv'
  BY <1>0, <1>2 DEF ReadsPending, sessionVars, syncVars, TypeOK, PackInv
<1>7. HandoverInv'
  BY <1>0, <1>2 DEF ReadsPending, sessionVars, syncVars, TypeOK, HandoverInv
<1>8. BatchInv'
  BY <1>0, <1>2 DEF ReadsPending, sessionVars, syncVars, TypeOK, BatchInv
<1>9. QED
  BY <1>1, <1>2, <1>3, <1>4, <1>5, <1>6, <1>7, <1>8 DEF ExchangeInv

LEMMA StepAnnounces == ASSUME ExchangeInv, NEW s \in Sessions, Announces(s) PROVE ExchangeInv'
<1>0. /\ TypeOK /\ NoTxMissed /\ Conserved /\ PackInv
      /\ HandoverInv /\ KnownTxs /\ BatchInv
  BY DEF ExchangeInv
<1>1. initial[s] \in SUBSET Txs
  BY <1>0 DEF TypeOK
<1>2. /\ known' \in [Sessions -> SUBSET Txs]
      /\ \A q \in Sessions : known'[q] \subseteq known[q] \cup (IF q = s THEN initial[s] ELSE {})
  BY <1>0, <1>1, MarkingAdds DEF Announces, AsyncSend, TypeOK
<1>3. TypeOK'
  BY <1>0, <1>1, <1>2 DEF Announces, sessionVars, syncVars, TypeOK, AsyncSend
<1>4. NoTxMissed'
  BY <1>0, <1>1, <1>2 DEF Announces, sessionVars, syncVars, TypeOK, NoTxMissed, Reached, InSync,
                          InBroadcast, AsyncSend
<1>5. Conserved'
  BY <1>0, <1>1, <1>2 DEF Announces, sessionVars, syncVars, TypeOK, Conserved, AsyncSend,
                          HandoverInv
<1>6. PackInv'
  BY <1>0, <1>1, <1>2 DEF Announces, sessionVars, syncVars, TypeOK, PackInv, AsyncSend
<1>7. HandoverInv'
  BY <1>0, <1>1, <1>2 DEF Announces, sessionVars, syncVars, TypeOK, HandoverInv, AsyncSend
<1>8. KnownTxs'
  BY <1>0, <1>1, <1>2 DEF Announces, sessionVars, syncVars, TypeOK, KnownTxs, Reached, AsyncSend
<1>9. BatchInv'
  BY <1>0, <1>1, <1>2 DEF Announces, sessionVars, syncVars, TypeOK, BatchInv, AsyncSend
<1>10. QED
  BY <1>1, <1>2, <1>3, <1>4, <1>5, <1>6, <1>7, <1>8, <1>9 DEF ExchangeInv

LEMMA StepHandsNothing == ASSUME ExchangeInv, NEW s \in Sessions, HandsNothing(s) PROVE ExchangeInv'
<1>0. /\ TypeOK /\ NoTxMissed /\ Conserved /\ PackInv
      /\ HandoverInv /\ KnownTxs /\ BatchInv
  BY DEF ExchangeInv
<1>1. TypeOK'
  BY <1>0 DEF HandsNothing, sessionVars, syncVars, TypeOK
<1>2. NoTxMissed'
  BY <1>0 DEF HandsNothing, sessionVars, syncVars, TypeOK, NoTxMissed, Reached, InSync, InBroadcast
<1>3. Conserved'
  BY <1>0 DEF HandsNothing, sessionVars, syncVars, TypeOK, Conserved
<1>4. PackInv'
  BY <1>0 DEF HandsNothing, sessionVars, syncVars, TypeOK, PackInv
<1>5. HandoverInv'
  BY <1>0 DEF HandsNothing, sessionVars, syncVars, TypeOK, HandoverInv
<1>6. KnownTxs'
  BY <1>0 DEF HandsNothing, sessionVars, syncVars, TypeOK, KnownTxs, Reached
<1>7. BatchInv'
  BY <1>0 DEF HandsNothing, sessionVars, syncVars, TypeOK, BatchInv
<1>8. QED
  BY <1>1, <1>2, <1>3, <1>4, <1>5, <1>6, <1>7 DEF ExchangeInv

LEMMA StepTakesSync == ASSUME ExchangeInv, NEW s \in Sessions, TakesSync(s) PROVE ExchangeInv'
<1>0. /\ TypeOK /\ NoTxMissed /\ Conserved /\ PackInv
      /\ HandoverInv /\ KnownTxs /\ BatchInv
  BY DEF ExchangeInv
<1>1. /\ pc[s] = "handing" /\ s \in Legacy /\ initial[s] # {} /\ sent[s] = {}
      /\ initial[s] \in SUBSET Txs /\ Node[s] \in Nodes
  BY <1>0, TxExchangeAssumption DEF TakesSync, HandoverInv, TypeOK
<1>2. /\ pc' = [pc EXCEPT ![s] = "serving"]
      /\ cut' = IF pending[Node[s]] = Nothing THEN cut ELSE cut \cup {pending[Node[s]].peer}
      /\ UNCHANGED <<setup, pool, events, registered, initial, told, known, broadcast, sent, stop,
                     ended, given>>
  BY DEF TakesSync
\* What the pack and the pending set have of s, and what others lose.
<1>3. /\ pack' \in [peer : Sessions \cup {None}, txs : SUBSET Txs]
      /\ pending' \in [Nodes -> [peer : Sessions \cup {None}, txs : SUBSET Txs]]
      /\ sending' \in {"idle", "mark", "send", "ok", "error"}
      /\ \A n \in Nodes : n # Node[s] => pending'[n] = pending[n]
      /\ pending'[Node[s]] # Nothing => pending'[Node[s]].peer = s /\ pending'[Node[s]].txs # {}
      /\ \/ /\ sending = "idle" /\ sending' = "mark" /\ pack = Nothing
            /\ pack'.peer = s /\ pack'.txs \cap pending'[Node[s]].txs = {}
            /\ pending'[Node[s]] = Nothing => pack'.txs = initial[s]
            /\ pending'[Node[s]] # Nothing => pack'.txs \cup pending'[Node[s]].txs = initial[s]
         \/ /\ sending # "idle" /\ sending' = sending /\ pack' = pack /\ pack.peer # s
            /\ pending'[Node[s]] = [peer |-> s, txs |-> initial[s]] /\ pending'[Node[s]] # Nothing
  <2>1. CASE sending = "idle" /\ Send(s, initial[s], pending)
    <3>1. pending \in [Nodes -> [peer : Sessions \cup {None}, txs : SUBSET Txs]] /\ pack = Nothing
      BY <1>0, <2>1 DEF TypeOK, PackInv
    <3>2. QED
      BY <1>1, <2>1, <3>1, SendNext
  <2>2. CASE sending # "idle" /\ pending' = [pending EXCEPT ![Node[s]] = [peer |-> s, txs |->
     initial[s]]]
             /\ UNCHANGED <<pack, sending>>
    <3>1. [peer |-> s, txs |-> initial[s]] \in [peer : Sessions \cup {None}, txs : SUBSET Txs]
      BY <1>1
    <3>2. [peer |-> s, txs |-> initial[s]] # Nothing /\ pack.peer # s
      BY <1>0, <1>1, <2>2, TxExchangeAssumption DEF Nothing, PackInv
    <3>3. QED
      BY <1>0, <1>1, <2>2, <3>1, <3>2 DEF TypeOK
  <2>3. QED
    BY <2>1, <2>2 DEF TakesSync
<1>4. pending[Node[s]] # Nothing => pending[Node[s]].peer # s /\ pending[Node[s]].peer \in Sessions
  BY <1>0, <1>1, TxExchangeAssumption DEF PackInv
<1>5. TypeOK'
  BY <1>0, <1>2, <1>3, <1>4 DEF TypeOK
<1>6. NoTxMissed'
  <2> SUFFICES ASSUME NEW q \in registered, NEW t \in pool
               PROVE  (\/ pc[q] = "registered"
                       \/ Reached(q, t) \/ InSync(q, t) \/ InBroadcast(q, t)
                       \/ q \in cut
                       \/ "broadcast" \in ended)'
    BY <1>2 DEF NoTxMissed
  <2>1. q \in Sessions /\ Node[q] \in Nodes
    BY <1>0, TxExchangeAssumption DEF TypeOK
  <2>2. /\ Reached(q, t) => Reached(q, t)'
        /\ InBroadcast(q, t) => InBroadcast(q, t)'
        /\ q \in cut => q \in cut'
        /\ pc[q] = "registered" => pc'[q] = "registered"
    BY <1>0, <1>1, <1>2, <2>1 DEF Reached, InBroadcast, TypeOK
  <2>3. ASSUME InSync(q, t) PROVE InSync(q, t)' \/ q \in cut'
    <3>1. CASE q = s
      <4>1. t \in initial[s]
        BY <1>0, <1>1, <1>3, <1>4, <2>3, <3>1, TxExchangeAssumption DEF InSync, PackInv, Nothing
      <4>2. QED
        BY <1>3, <3>1, <4>1 DEF InSync
    <3>2. CASE q # s
      <4>1. CASE pc[q] \in {"announcing", "handing"} /\ t \in initial[q]
        BY <1>0, <1>2, <2>1, <3>2, <4>1 DEF InSync, TypeOK
      <4>2. CASE pack.peer = q /\ t \in pack.txs
        BY <1>3, <4>2 DEF InSync, Nothing
      <4>3. CASE pending[Node[q]].peer = q /\ t \in pending[Node[q]].txs
        BY <1>2, <1>3, <2>1, <4>3 DEF InSync, Nothing
      <4>4. QED
        BY <2>3, <4>1, <4>2, <4>3 DEF InSync
    <3>3. QED
      BY <3>1, <3>2
  <2>4. QED
    BY <1>0, <1>2, <2>2, <2>3 DEF NoTxMissed
<1>7. Conserved'
  <2> SUFFICES ASSUME NEW q \in Legacy, pc'[q] \in {"serving", "closed"}, q \notin cut'
               PROVE  LET packed == IF pack'.peer = q /\ sending' # "ok" THEN pack'.txs ELSE {}
                          left   == IF pending'[Node[q]].peer = q THEN pending'[Node[q]].txs ELSE {}
                      IN /\ initial[q] = sent[q] \cup packed \cup left
                         /\ sent[q] \cap (packed \cup left) = {}
                         /\ packed \cap left = {}
    BY <1>2 DEF Conserved
  <2>1. q \in Sessions /\ Node[q] \in Nodes
    BY TxExchangeAssumption
  <2>2. CASE q = s
    BY <1>1, <1>3, <2>2, TxExchangeAssumption DEF Nothing
  <2>3. CASE q # s
    <3>1. pc[q] \in {"serving", "closed"} /\ q \notin cut
      BY <1>0, <1>2, <2>1, <2>3 DEF TypeOK
    <3>2. (pack'.peer = q /\ sending' # "ok") <=> (pack.peer = q /\ sending # "ok")
      BY <1>3, <2>1, <2>3, TxExchangeAssumption DEF Nothing
    <3>3. pack'.peer = q => pack' = pack
      BY <1>3, <2>3
    <3>4. CASE Node[q] # Node[s]
      BY <1>0, <1>3, <2>1, <3>1, <3>2, <3>3, <3>4 DEF Conserved
    <3>5. CASE Node[q] = Node[s]
      <4>1. pending[Node[q]].peer # q
        BY <1>2, <2>1, <3>5, TxExchangeAssumption DEF Nothing
      <4>2. pending'[Node[q]].peer # q
        BY <1>3, <2>1, <2>3, <3>5, TxExchangeAssumption DEF Nothing
      <4>3. QED
        BY <1>0, <3>1, <3>2, <3>3, <4>1, <4>2 DEF Conserved
    <3>6. QED
      BY <3>4, <3>5
  <2>4. QED
    BY <2>2, <2>3
<1>8. PackInv'
  <2>1. /\ pc'[s] = "serving"
        /\ \A q \in Sessions : pc[q] \in {"serving", "closed"} => pc'[q] \in {"serving", "closed"}
    BY <1>0, <1>2 DEF TypeOK
  <2>2. sending' # "idle" /\ pack' # Nothing
        /\ pack'.peer \in Legacy /\ pc'[pack'.peer] \in {"serving", "closed"}
    BY <1>0, <1>1, <1>3, <2>1, TxExchangeAssumption DEF PackInv, Nothing
  <2>3. ASSUME NEW n \in Nodes, pending'[n] # Nothing
        PROVE  /\ pending'[n].peer \in Legacy /\ Node[pending'[n].peer] = n
               /\ pending'[n].txs # {} /\ pc'[pending'[n].peer] \in {"serving", "closed"}
    BY <1>0, <1>1, <1>3, <2>1, <2>3, TxExchangeAssumption DEF PackInv
  <2>4. QED
    BY <2>2, <2>3 DEF PackInv
<1>9. HandoverInv'
  <2>1. \A q \in Sessions : pc'[q] \in {"away", "registered", "announcing", "handing"} => pc'[q] =
     pc[q]
    BY <1>0, <1>2 DEF TypeOK
  <2>2. sending' \in {"ok", "error"} => sending' = sending /\ pack' = pack
    BY <1>3
  <2>3. QED
    BY <1>0, <1>2, <2>1, <2>2 DEF HandoverInv
<1>10. KnownTxs'
  <2> SUFFICES ASSUME NEW q \in Sessions, NEW t \in known[q]
               PROVE  (Reached(q, t) \/ (pack.peer = q /\ t \in pack.txs) \/ q \in cut)'
    BY <1>2 DEF KnownTxs
  <2>1. Reached(q, t) \/ (pack.peer = q /\ t \in pack.txs) \/ q \in cut
    BY <1>0 DEF KnownTxs
  <2>2. QED
    BY <1>2, <1>3, <2>1 DEF Reached, Nothing
<1>11. BatchInv'
  BY <1>0, <1>2 DEF BatchInv, TypeOK
<1>12. QED
  BY <1>5, <1>6, <1>7, <1>8, <1>9, <1>10, <1>11 DEF ExchangeInv

LEMMA StepMarksPack == ASSUME ExchangeInv, MarksPack PROVE ExchangeInv'
<1>0. /\ TypeOK /\ NoTxMissed /\ Conserved /\ PackInv
      /\ HandoverInv /\ KnownTxs /\ BatchInv
  BY DEF ExchangeInv
<1>1. NoTxMissed' /\ BatchInv'
  BY <1>0 DEF MarksPack, sessionVars, syncVars, NoTxMissed, Reached, InSync, InBroadcast, BatchInv
<1>2. pack.peer \in Sessions /\ pack.txs \in SUBSET Txs
  BY <1>0, PackedSession DEF MarksPack
<1>3. /\ known' \in [Sessions -> SUBSET Txs]
      /\ \A q \in Sessions : known'[q] \subseteq known[q] \cup (IF q = pack.peer THEN pack.txs
         ELSE {})
  BY <1>0, <1>2, MarkingAdds DEF MarksPack
<1>4. TypeOK'
  BY <1>0, <1>2, <1>3 DEF MarksPack, sessionVars, syncVars, TypeOK, Nothing, PackInv
<1>5. Conserved'
  BY <1>0, <1>2, <1>3 DEF MarksPack, sessionVars, syncVars, TypeOK, Conserved, Nothing
<1>6. PackInv'
  BY <1>0, <1>2, <1>3 DEF MarksPack, sessionVars, syncVars, TypeOK, PackInv, Nothing
<1>7. HandoverInv'
  BY <1>0, <1>2, <1>3 DEF MarksPack, sessionVars, syncVars, TypeOK, HandoverInv, Nothing
<1>8. KnownTxs'
  BY <1>0, <1>2, <1>3 DEF MarksPack, sessionVars, syncVars, TypeOK, KnownTxs, Reached, Nothing,
                          PackInv
<1>9. QED
  BY <1>1, <1>2, <1>3, <1>4, <1>5, <1>6, <1>7, <1>8 DEF ExchangeInv

LEMMA StepSendsPack == ASSUME ExchangeInv, SendsPack PROVE ExchangeInv'
<1>0. /\ TypeOK /\ NoTxMissed /\ Conserved /\ PackInv
      /\ HandoverInv /\ KnownTxs /\ BatchInv
  BY DEF ExchangeInv
<1>1. BatchInv'
  BY <1>0 DEF SendsPack, sessionVars, syncVars, BatchInv
<1>2. pack # Nothing /\ pack.peer \in Legacy /\ pack.peer \in Sessions /\ pack.txs \subseteq Txs
  BY <1>0, PackedSession DEF SendsPack
<1>3. TypeOK'
  BY <1>0, <1>2 DEF SendsPack, sessionVars, syncVars, TypeOK, Nothing, PackInv
<1>4. NoTxMissed'
  BY <1>0, <1>2 DEF SendsPack, sessionVars, syncVars, TypeOK, NoTxMissed, Reached, InSync,
                    InBroadcast, Nothing
<1>5. Conserved'
  <2>1. CASE sending' = "ok" /\ sent' = [sent EXCEPT ![pack.peer] = @ \cup pack.txs] /\ cut' = cut
    BY <1>0, <1>2, <2>1, TxExchangeAssumption DEF SendsPack, sessionVars, Conserved, TypeOK
  <2>2. CASE sending' = "error" /\ cut' = cut \cup {pack.peer} /\ sent' = sent
    BY <1>0, <1>2, <2>2, TxExchangeAssumption DEF SendsPack, sessionVars, Conserved, TypeOK
  <2>3. QED
    BY <2>1, <2>2 DEF SendsPack
<1>6. PackInv'
  BY <1>0, <1>2 DEF SendsPack, sessionVars, syncVars, TypeOK, PackInv, Nothing
<1>7. HandoverInv'
  BY <1>0, <1>2 DEF SendsPack, sessionVars, syncVars, TypeOK, HandoverInv, Nothing, PackInv
<1>8. KnownTxs'
  BY <1>0, <1>2 DEF SendsPack, sessionVars, syncVars, TypeOK, KnownTxs, Reached, Nothing
<1>9. QED
  BY <1>1, <1>2, <1>3, <1>4, <1>5, <1>6, <1>7, <1>8 DEF ExchangeInv

\* What stays pending when a pack is done: all of it, or all but what its node waited for.
LEMMA StepTakesDone == ASSUME ExchangeInv, TakesDone PROVE ExchangeInv'
<1>0. /\ TypeOK /\ NoTxMissed /\ Conserved /\ PackInv
      /\ HandoverInv /\ KnownTxs /\ BatchInv
  BY DEF ExchangeInv
<1>1. /\ sending \in {"ok", "error"} /\ pack # Nothing
      /\ pack.peer \in Legacy /\ pack.peer \in Sessions /\ pack.txs \in SUBSET Txs
      /\ sending = "ok" => pack.txs \subseteq sent[pack.peer]
      /\ sending = "error" => pack.peer \in cut
  BY <1>0, PackedSession DEF TakesDone, HandoverInv
<1>2. UNCHANGED <<setup, pool, events, sessionVars, known, broadcast, sent, stop, ended, given>>
  BY DEF TakesDone
<1>3. PICK rest :
         /\ rest = IF sending = "ok" THEN pending ELSE [pending EXCEPT ![Node[pack.peer]] = Nothing]
         /\ cut' = IF sending = "ok" THEN cut ELSE cut \cup ({pending[Node[pack.peer]].peer} \
            {None})
         /\ \/ /\ \A m \in Nodes : rest[m] = Nothing
               /\ pending' = rest
               /\ sending' = "idle"
               /\ pack' = Nothing
            \/ \E m \in Nodes : rest[m] # Nothing /\ Send(rest[m].peer, rest[m].txs, rest)
  BY DEF TakesDone
<1>4. /\ rest \in [Nodes -> [peer : Sessions \cup {None}, txs : SUBSET Txs]]
      /\ \A m \in Nodes : rest[m] # Nothing => rest[m] = pending[m]
      /\ \A m \in Nodes : \/ rest[m] = pending[m]
                          \/ rest[m] = Nothing /\ pending[m].peer \in cut' \cup {None}
      /\ cut \subseteq cut' /\ cut' \subseteq Sessions
  <2>1. /\ pending \in [Nodes -> [peer : Sessions \cup {None}, txs : SUBSET Txs]]
        /\ Nothing \in [peer : Sessions \cup {None}, txs : SUBSET Txs]
        /\ Node[pack.peer] \in Nodes /\ cut \subseteq Sessions
    BY <1>0, <1>1, TxExchangeAssumption DEF TypeOK, Nothing
  <2>2. CASE sending = "ok"
    <3>1. rest = pending /\ cut' = cut
      BY <1>3, <2>2
    <3>2. QED
      BY <2>1, <3>1
  <2>3. CASE sending # "ok"
    <3>1. rest = [pending EXCEPT ![Node[pack.peer]] = Nothing]
          /\ cut' = cut \cup ({pending[Node[pack.peer]].peer} \ {None})
      BY <1>3, <2>3
    <3>2. pending[Node[pack.peer]].peer \in Sessions \cup {None}
      BY <2>1
    <3>3. /\ rest \in [Nodes -> [peer : Sessions \cup {None}, txs : SUBSET Txs]]
          /\ rest[Node[pack.peer]] = Nothing
          /\ \A m \in Nodes : m # Node[pack.peer] => rest[m] = pending[m]
      BY <2>1, <3>1
    <3>4. /\ pending[Node[pack.peer]].peer \in cut' \cup {None}
          /\ cut \subseteq cut' /\ cut' \subseteq Sessions
      BY <2>1, <3>1, <3>2
    <3>5. QED
      BY <3>3, <3>4
  <2>4. QED
    BY <2>2, <2>3
\* Either nothing is left, or the next pack is taken from what is.
<1>5. /\ pack' \in [peer : Sessions \cup {None}, txs : SUBSET Txs]
      /\ pending' \in [Nodes -> [peer : Sessions \cup {None}, txs : SUBSET Txs]]
      /\ sending' \in {"idle", "mark"}
      /\ \/ /\ sending' = "idle" /\ pack' = Nothing
            /\ \A m \in Nodes : rest[m] = Nothing /\ pending'[m] = Nothing
         \/ /\ sending' = "mark"
            /\ \E m \in Nodes :
                  /\ rest[m] # Nothing /\ rest[m] = pending[m]
                  /\ pack'.peer = rest[m].peer /\ pack'.peer \in Legacy /\ pack'.peer \in Sessions
                  /\ pc[pack'.peer] \in {"serving", "closed"}
                  /\ Node[pack'.peer] = m
                  /\ \A k \in Nodes : k # m => pending'[k] = rest[k]
                  /\ pending'[m] # Nothing => pending'[m].peer = rest[m].peer /\ pending'[m].txs #
                     {}
                  /\ pack'.txs \cap pending'[m].txs = {}
                  /\ pending'[m] = Nothing => pack'.txs = rest[m].txs
                  /\ pending'[m] # Nothing => pack'.txs \cup pending'[m].txs = rest[m].txs
  <2>1. CASE (\A m \in Nodes : rest[m] = Nothing) /\ pending' = rest /\ sending' = "idle" /\ pack'
     = Nothing
    <3>1. Nothing \in [peer : Sessions \cup {None}, txs : SUBSET Txs]
      BY DEF Nothing
    <3>2. QED
      BY <1>4, <2>1, <3>1
  <2>2. CASE \E m \in Nodes : rest[m] # Nothing /\ Send(rest[m].peer, rest[m].txs, rest)
    <3>1. PICK m \in Nodes : rest[m] # Nothing /\ Send(rest[m].peer, rest[m].txs, rest)
      BY <2>2
    <3>2. /\ rest[m] = pending[m] /\ rest[m].txs \in SUBSET Txs
          /\ rest[m].peer \in Legacy /\ rest[m].peer \in Sessions /\ Node[rest[m].peer] = m
          /\ pc[rest[m].peer] \in {"serving", "closed"}
      BY <1>0, <1>4, <3>1, TxExchangeAssumption DEF PackInv
    <3>3. PICK p \in Legacy : p = rest[m].peer /\ p \in Sessions /\ Node[p] = m
      BY <3>2
    <3>4. /\ pack' \in [peer : Sessions \cup {None}, txs : SUBSET Txs]
          /\ pending' \in [Nodes -> [peer : Sessions \cup {None}, txs : SUBSET Txs]]
          /\ \A k \in Nodes : k # m => pending'[k] = rest[k]
          /\ pending'[m] # Nothing => pending'[m].peer = p /\ pending'[m].txs # {}
          /\ pack'.peer = p /\ sending' = "mark"
          /\ pack'.txs \cap pending'[m].txs = {}
          /\ pending'[m] = Nothing => pack'.txs = rest[m].txs
          /\ pending'[m] # Nothing => pack'.txs \cup pending'[m].txs = rest[m].txs
      <4>1. Send(p, rest[m].txs, rest)
        BY <3>1, <3>3
      <4>2. PICK txs \in SUBSET Txs : txs = rest[m].txs
        BY <3>2
      <4>3. /\ pack' \in [peer : Sessions \cup {None}, txs : SUBSET Txs]
            /\ pending' \in [Nodes -> [peer : Sessions \cup {None}, txs : SUBSET Txs]]
            /\ \A k \in Nodes : k # Node[p] => pending'[k] = rest[k]
            /\ pending'[Node[p]] # Nothing => pending'[Node[p]].peer = p /\ pending'[Node[p]].txs
               # {}
            /\ pack'.peer = p /\ sending' = "mark"
            /\ pack'.txs \cap pending'[Node[p]].txs = {}
            /\ pending'[Node[p]] = Nothing => pack'.txs = txs
            /\ pending'[Node[p]] # Nothing => pack'.txs \cup pending'[Node[p]].txs = txs
        <5>1. /\ rest \in [Nodes -> [peer : Sessions \cup {None}, txs : SUBSET Txs]]
              /\ p \in Sessions /\ Send(p, txs, rest)
          BY <1>4, <3>3, <4>1, <4>2
        <5>2. QED
          BY <5>1, SendNext, Zenon
      <4>4. QED
        BY <3>3, <4>2, <4>3
    <3>5. QED
      BY <3>1, <3>2, <3>3, <3>4
  <2>3. QED
    BY <1>3, <2>1, <2>2
<1>6. TypeOK'
  BY <1>0, <1>2, <1>4, <1>5 DEF TypeOK, sessionVars
<1>7. NoTxMissed'
  <2> SUFFICES ASSUME NEW q \in registered, NEW t \in pool
               PROVE  (\/ pc[q] = "registered"
                       \/ Reached(q, t) \/ InSync(q, t) \/ InBroadcast(q, t)
                       \/ q \in cut
                       \/ "broadcast" \in ended)'
    BY <1>2 DEF NoTxMissed, sessionVars
  <2>1. q \in Sessions /\ Node[q] \in Nodes
    BY <1>0, TxExchangeAssumption DEF TypeOK
  <2>2. /\ Reached(q, t) => Reached(q, t)'
        /\ InBroadcast(q, t) => InBroadcast(q, t)'
        /\ pc'[q] = pc[q] /\ initial'[q] = initial[q]
    BY <1>2 DEF Reached, InBroadcast, sessionVars
  <2>3. ASSUME InSync(q, t) PROVE (Reached(q, t) \/ InSync(q, t) \/ q \in cut)'
    <3>1. CASE pc[q] \in {"announcing", "handing"} /\ t \in initial[q]
      BY <2>2, <3>1 DEF InSync
    <3>2. CASE pack.peer = q /\ t \in pack.txs
      <4>1. t \in sent[q] \/ q \in cut
        BY <1>1, <3>2
      <4>2. QED
        BY <1>2, <1>4, <4>1 DEF Reached
    <3>3. CASE pending[Node[q]].peer = q /\ t \in pending[Node[q]].txs
      <4>1. CASE rest[Node[q]] = pending[Node[q]]
        <5>1. rest[Node[q]] # Nothing
          BY <3>3, <4>1 DEF Nothing
        <5>2. \/ pack'.peer = q /\ t \in pack'.txs
              \/ pending'[Node[q]].peer = q /\ t \in pending'[Node[q]].txs
          BY <1>5, <2>1, <3>3, <4>1, <5>1
        <5>3. QED
          BY <5>2 DEF InSync
      <4>2. CASE rest[Node[q]] # pending[Node[q]]
        BY <1>4, <2>1, <3>3, <4>2, TxExchangeAssumption
      <4>3. QED
        BY <4>1, <4>2
    <3>4. QED
      BY <2>3, <3>1, <3>2, <3>3 DEF InSync
  <2>4. QED
    BY <1>0, <1>2, <1>4, <2>2, <2>3 DEF NoTxMissed
<1>8. Conserved'
  <2> SUFFICES ASSUME NEW q \in Legacy, pc[q] \in {"serving", "closed"}, q \notin cut'
               PROVE  LET packed == IF pack'.peer = q /\ sending' # "ok" THEN pack'.txs ELSE {}
                          left   == IF pending'[Node[q]].peer = q THEN pending'[Node[q]].txs ELSE {}
                      IN /\ initial[q] = sent[q] \cup packed \cup left
                         /\ sent[q] \cap (packed \cup left) = {}
                         /\ packed \cap left = {}
    BY <1>2 DEF Conserved, sessionVars
  <2>1. q \in Sessions /\ Node[q] \in Nodes /\ q # None /\ q \notin cut
    BY <1>4, TxExchangeAssumption
  <2>2. ~(pack.peer = q /\ sending # "ok")
    BY <1>1, <2>1
  <2>3. pending[Node[q]].peer = q => rest[Node[q]] = pending[Node[q]]
    BY <1>4, <2>1
  <2> DEFINE waiting == IF pending[Node[q]].peer = q THEN pending[Node[q]].txs ELSE {}
  <2>4. initial[q] = sent[q] \cup waiting /\ sent[q] \cap waiting = {}
    BY <1>0, <2>1, <2>2 DEF Conserved
  <2> HIDE DEF waiting
  <2>5. CASE sending' = "idle"
    <3>1. waiting = {}
      BY <1>5, <2>1, <2>3, <2>5 DEF Nothing, waiting
    <3>2. pack'.peer # q /\ pending'[Node[q]].peer # q
      BY <1>5, <2>1, <2>5 DEF Nothing
    <3>3. QED
      BY <2>4, <3>1, <3>2
  <2>6. CASE sending' = "mark" /\ pack'.peer = q
    <3>1. waiting = rest[Node[q]].txs
      BY <1>5, <2>6 DEF waiting
    <3>2. pack'.txs \cap pending'[Node[q]].txs = {}
      BY <1>5, <2>6
    <3>3. \/ pending'[Node[q]] = Nothing /\ pack'.txs = waiting
          \/ pending'[Node[q]].peer = q /\ pack'.txs \cup pending'[Node[q]].txs = waiting
      BY <1>5, <2>6, <3>1
    <3>4. QED
      BY <2>1, <2>4, <2>6, <3>2, <3>3 DEF Nothing
  <2>7. CASE sending' = "mark" /\ pack'.peer # q
    <3>1. /\ pending[Node[q]].peer = q => pending'[Node[q]] = pending[Node[q]]
          /\ pending'[Node[q]].peer = q => pending'[Node[q]] = pending[Node[q]]
      <4>1. PICK m \in Nodes :
               /\ pack'.peer = rest[m].peer
               /\ \A k \in Nodes : k # m => pending'[k] = rest[k]
               /\ pending'[m] # Nothing => pending'[m].peer = rest[m].peer
               /\ rest[m] = pending[m]
        BY <1>5, <2>7
      <4>2. CASE Node[q] = m
        BY <2>1, <2>7, <4>1, <4>2 DEF Nothing
      <4>3. CASE Node[q] # m
        BY <1>4, <2>1, <2>3, <4>1, <4>3 DEF Nothing
      <4>4. QED
        BY <4>2, <4>3
    <3>2. (IF pending'[Node[q]].peer = q THEN pending'[Node[q]].txs ELSE {}) = waiting
      BY <3>1 DEF waiting
    <3>3. QED
      BY <2>4, <2>7, <3>2
  <2>8. QED
    BY <1>5, <2>5, <2>6, <2>7
<1>9. PackInv'
  <2>1. CASE sending' = "idle"
    BY <1>5, <2>1 DEF PackInv
  <2>2. CASE sending' = "mark"
    <3>1. PICK m \in Nodes :
             /\ pack'.peer = rest[m].peer /\ pack'.peer \in Legacy /\ pack'.peer \in Sessions
             /\ pc[pack'.peer] \in {"serving", "closed"} /\ Node[pack'.peer] = m
             /\ \A k \in Nodes : k # m => pending'[k] = rest[k]
             /\ pending'[m] # Nothing => pending'[m].peer = rest[m].peer /\ pending'[m].txs # {}
      BY <1>5, <2>2
    <3>2. pack' # Nothing
      BY <3>1, TxExchangeAssumption DEF Nothing
    <3>3. ASSUME NEW k \in Nodes, pending'[k] # Nothing
          PROVE  /\ pending'[k].peer \in Legacy /\ Node[pending'[k].peer] = k
                 /\ pending'[k].txs # {} /\ pc[pending'[k].peer] \in {"serving", "closed"}
      <4>1. CASE k = m
        BY <3>1, <3>3, <4>1
      <4>2. CASE k # m
        <5>1. pending'[k] = pending[k] /\ pending[k] # Nothing
          BY <1>4, <3>1, <3>3, <4>2
        <5>2. QED
          BY <1>0, <5>1 DEF PackInv
      <4>3. QED
        BY <4>1, <4>2
    <3>4. QED
      BY <1>2, <2>2, <3>1, <3>2, <3>3 DEF PackInv, sessionVars
  <2>3. QED
    BY <1>5, <2>1, <2>2
<1>10. HandoverInv'
  BY <1>0, <1>2, <1>5 DEF HandoverInv, sessionVars
<1>11. KnownTxs'
  <2> SUFFICES ASSUME NEW q \in Sessions, NEW t \in known[q]
               PROVE  (Reached(q, t) \/ q \in cut)'
    BY <1>2 DEF KnownTxs
  <2>1. Reached(q, t) \/ (pack.peer = q /\ t \in pack.txs) \/ q \in cut
    BY <1>0 DEF KnownTxs
  <2>2. Reached(q, t) \/ q \in cut
    BY <1>1, <2>1 DEF Reached
  <2>3. QED
    BY <1>2, <1>4, <2>2 DEF Reached, sessionVars
<1>12. BatchInv'
  BY <1>0, <1>2 DEF BatchInv, sessionVars
<1>13. QED
  BY <1>6, <1>7, <1>8, <1>9, <1>10, <1>11, <1>12 DEF ExchangeInv


LEMMA StepSyncLoopEnds == ASSUME ExchangeInv, SyncLoopEnds PROVE ExchangeInv'
<1>0. /\ TypeOK /\ NoTxMissed /\ Conserved /\ PackInv
      /\ HandoverInv /\ KnownTxs /\ BatchInv
  BY DEF ExchangeInv
<1>1. Conserved' /\ PackInv' /\ HandoverInv' /\ KnownTxs' /\ BatchInv'
  BY <1>0 DEF SyncLoopEnds, sessionVars, syncVars, Conserved, PackInv, HandoverInv, KnownTxs,
              Reached, BatchInv
<1>2. TypeOK'
  BY <1>0 DEF SyncLoopEnds, sessionVars, syncVars, TypeOK, Loops
<1>3. NoTxMissed'
  BY <1>0 DEF SyncLoopEnds, sessionVars, syncVars, TypeOK, NoTxMissed, Reached, InSync,
              InBroadcast, Loops
<1>4. QED
  BY <1>1, <1>2, <1>3 DEF ExchangeInv

LEMMA StepStop == ASSUME ExchangeInv, Stop PROVE ExchangeInv'
<1>0. /\ TypeOK /\ NoTxMissed /\ Conserved /\ PackInv
      /\ HandoverInv /\ KnownTxs /\ BatchInv
  BY DEF ExchangeInv
<1>1. NoTxMissed' /\ Conserved' /\ PackInv' /\ HandoverInv' /\ KnownTxs' /\ BatchInv'
  BY <1>0 DEF Stop, sessionVars, syncVars, NoTxMissed, Reached, InSync, InBroadcast, Conserved,
              PackInv, HandoverInv, KnownTxs, BatchInv
<1>2. TypeOK'
  BY <1>0 DEF Stop, sessionVars, syncVars, TypeOK
<1>3. QED
  BY <1>1, <1>2 DEF ExchangeInv

-----------------------------------------------------------------------------
(* The theorems                                                            *)

LEMMA InitInvariant == Init => ExchangeInv
<1> SUFFICES ASSUME Init PROVE ExchangeInv
  OBVIOUS
<1>1. TypeOK
  BY DEF Init, TypeOK, NoTxs, Idle, Nothing
<1>2. NoTxMissed /\ Conserved /\ KnownTxs
  BY TxExchangeAssumption DEF Init, NoTxMissed, Conserved, KnownTxs, NoTxs
<1>3. PackInv /\ HandoverInv /\ BatchInv
  BY TxExchangeAssumption DEF Init, PackInv, HandoverInv, BatchInv, NoTxs, Idle
<1>4. QED
  BY <1>1, <1>2, <1>3 DEF ExchangeInv

LEMMA StepInvariant == ExchangeInv /\ [Next]_vars => ExchangeInv'
<1> SUFFICES ASSUME ExchangeInv, [Next]_vars PROVE ExchangeInv'
  OBVIOUS
<1>1. CASE \E t \in Txs : TxArrives(t)
  BY <1>1, StepTxArrives
<1>2. CASE \E s \in Sessions : Registers(s) \/ Unregisters(s) \/ Close(s)
  BY <1>2, StepRegisters, StepUnregisters, StepClose
<1>3. CASE \E s \in Sessions : SessionStep(s)
  BY <1>3, StepReadsPending, StepAnnounces, StepHandsNothing, StepTakesSync DEF SessionStep
<1>4. CASE \E s \in Sessions, t \in Txs : markTransaction(s, t)
  BY <1>4, StepMarksTransaction
<1>5. CASE BroadcastStep
  BY <1>5, StepTakesEvent, StepSelectsPeers, StepBroadcastReturns, StepBroadcastLoopEnds,
     StepAsyncSendTransactions, StepAsyncSendPooledTransactionHashes DEF BroadcastStep
<1>6. CASE SyncStep \/ PackStep
  BY <1>6, StepTakesDone, StepSyncLoopEnds, StepMarksPack, StepSendsPack DEF SyncStep, PackStep
<1>7. CASE Stop
  BY <1>7, StepStop
<1>8. CASE UNCHANGED vars
  <2>1. /\ TypeOK /\ NoTxMissed /\ Conserved /\ PackInv
        /\ HandoverInv /\ KnownTxs /\ BatchInv
    BY DEF ExchangeInv
  <2>2. TypeOK' /\ PackInv' /\ HandoverInv' /\ BatchInv'
    BY <1>8, <2>1 DEF vars, sessionVars, syncVars, TypeOK, PackInv, HandoverInv, BatchInv
  <2>3. NoTxMissed' /\ Conserved' /\ KnownTxs'
    BY <1>8, <2>1 DEF vars, sessionVars, syncVars, NoTxMissed, Conserved, KnownTxs, Reached,
                      InSync, InBroadcast
  <2>4. QED
    BY <2>2, <2>3 DEF ExchangeInv
<1>9. QED
  BY <1>1, <1>2, <1>3, <1>4, <1>5, <1>6, <1>7, <1>8 DEF Next

\* With any sessions, nodes and transactions and any sizes: no pending transaction is
\* missed between the initial exchange and the broadcast, and packs send each once.
THEOREM ExchangeInvariant == Spec => []ExchangeInv
  BY InitInvariant, StepInvariant, PTL DEF Spec

\* Each pending transaction has reached every registered peer, or is in the initial
\* exchange or in a broadcast, unless the exchange was given up or the loop has ended
\* (handler.go:309).
THEOREM NoneMissed == Spec => []NoTxMissed
<1>1. ExchangeInv => NoTxMissed
  BY DEF ExchangeInv
<1>2. QED
  BY <1>1, ExchangeInvariant, PTL
=============================================================================
