-------------------------- MODULE TxPackingProofs --------------------------
(***************************************************************************)
(* Proofs about TxPacking: for any accounts, prices, gas and funds, what   *)
(* the passes put together is a block that verifies, within the limit.     *)
(***************************************************************************)
EXTENDS TxPacking, FiniteSetTheorems, TLAPS

\* One transaction more is one more of its account, and no more of another.
LEMMA ExecutedAppend ==
    ASSUME txs \in Seq(Txs), NEW t \in Txs, txs' = Append(txs, t), NEW a \in Accounts
    PROVE  Executed(a)' = IF t[1] = a THEN Executed(a) + 1 ELSE Executed(a)
<1> DEFINE Of == {i \in 1 .. Len(txs) : txs[i][1] = a}
           OfNew == {i \in 1 .. Len(txs') : txs'[i][1] = a}
<1>1. IsFiniteSet(Of)
    <2>1. IsFiniteSet(1 .. Len(txs))  BY FS_Interval
    <2> QED  BY <2>1, FS_Subset
<1>2. OfNew = IF t[1] = a THEN Of \cup {Len(txs) + 1} ELSE Of
    <2>1. Len(txs') = Len(txs) + 1 /\ txs'[Len(txs) + 1] = t
        OBVIOUS
    <2>2. \A i \in 1 .. Len(txs) : txs'[i] = txs[i]
        OBVIOUS
    <2> QED  BY <2>1, <2>2
<1>3. Len(txs) + 1 \notin Of
    OBVIOUS
<1>4. Cardinality(Of \cup {Len(txs) + 1}) = Cardinality(Of) + 1
    BY <1>1, <1>3, FS_AddElement
<1> QED  BY <1>2, <1>4 DEF Executed

\* An empty environment has no transactions of an account.
LEMMA ExecutedEmpty ==
    ASSUME txs' = <<>>, NEW a \in Accounts
    PROVE  Executed(a)' = 0
<1>1. {i \in 1 .. Len(txs') : txs'[i][1] = a} = {}
    OBVIOUS
<1> QED  BY <1>1, FS_EmptySet DEF Executed

\* What an outcome says of the transaction.
LEMMA OutcomeMeans ==
    ASSUME TypeOK, NEW t \in Txs
    PROVE  /\ Outcome(t) \in {"ignored", "unsupported", "low", "high", "unfunded", "gas", "failed", "ok"}
           /\ Outcome(t) \in {"ignored", "unsupported"} => fault[t] = Outcome(t)
           /\ Outcome(t) = "low" => t[2] < nonce[t[1]]
           /\ Outcome(t) = "high" => t[2] > nonce[t[1]]
           /\ Outcome(t) \in {"unfunded", "gas", "failed", "ok"} => t[2] = nonce[t[1]]
           /\ Outcome(t) = "gas" => GasOf[t] > gas
           /\ Outcome(t) \in {"failed", "ok"} => GasOf[t] <= gas
           /\ Outcome(t) = "ok" => fault[t] = "none" /\ funds[t][nonce] = "all"
<1>1. /\ fault[t] \in {"none", "unsupported", "ignored"}
      /\ funds[t][nonce] \in {"nothing", "gas", "all"}
    BY DEF TypeOK, DataType, NonceType, Faults, Covers
<1>2. t[2] \in Nat /\ nonce[t[1]] \in Nat /\ gas \in Nat /\ GasOf[t] \in Nat
    BY ConstantsAssumption DEF TypeOK, CountType, NonceType, Nonces, Txs
<1>3. /\ ~(t[2] < nonce[t[1]]) /\ ~(t[2] > nonce[t[1]]) => t[2] = nonce[t[1]]
      /\ ~(GasOf[t] > gas) => GasOf[t] <= gas
    BY <1>2
<1>4. CASE fault[t] # "none"
    <2>1. Outcome(t) = fault[t]
        BY <1>4 DEF Outcome
    <2> QED  BY <1>1, <1>4, <2>1
<1>5. CASE fault[t] = "none" /\ t[2] < nonce[t[1]]
    <2>1. Outcome(t) = "low"
        BY <1>5 DEF Outcome
    <2> QED  BY <1>5, <2>1
<1>6. CASE fault[t] = "none" /\ ~(t[2] < nonce[t[1]]) /\ t[2] > nonce[t[1]]
    <2>1. Outcome(t) = "high"
        BY <1>6 DEF Outcome
    <2> QED  BY <1>6, <2>1
<1>7. CASE /\ fault[t] = "none" /\ ~(t[2] < nonce[t[1]]) /\ ~(t[2] > nonce[t[1]])
           /\ funds[t][nonce] = "nothing"
    <2>1. Outcome(t) = "unfunded"
        BY <1>7 DEF Outcome
    <2> QED  BY <1>3, <1>7, <2>1
<1>8. CASE /\ fault[t] = "none" /\ ~(t[2] < nonce[t[1]]) /\ ~(t[2] > nonce[t[1]])
           /\ funds[t][nonce] # "nothing" /\ GasOf[t] > gas
    <2>1. Outcome(t) = "gas"
        BY <1>8 DEF Outcome
    <2> QED  BY <1>3, <1>8, <2>1
<1>9. CASE /\ fault[t] = "none" /\ ~(t[2] < nonce[t[1]]) /\ ~(t[2] > nonce[t[1]])
           /\ funds[t][nonce] # "nothing" /\ ~(GasOf[t] > gas)
    <2>1. Outcome(t) = IF funds[t][nonce] = "gas" THEN "failed" ELSE "ok"
        BY <1>9 DEF Outcome
    <2>2. Outcome(t) = "ok" => funds[t][nonce] = "all"
        BY <1>1, <1>9, <2>1
    <2> QED  BY <1>3, <1>9, <2>1, <2>2
<1> QED  BY <1>4, <1>5, <1>6, <1>7, <1>8, <1>9

\* What an attempt does to the offer, to the gas and to the block.
LEMMA AttemptStep ==
    ASSUME TypeOK, GasInv, OfferInv, NEW a \in Served, Attempt(a)
    PROVE  /\ next' \in Nonces
           /\ \A c \in Accounts : next'[c] <= upto[c]
           /\ gas' \in 0 .. BlockGas /\ gasUsed' \in 0 .. BlockGas
           /\ gas' + gasUsed' <= BlockGas
           /\ tooHigh' \subseteq Txs /\ unpaid' \subseteq Txs
           /\ payees' \subseteq {NoAddress, Etherbase}
           /\ \/ txs' = txs /\ nonce' = nonce
              \/ /\ txs' = Append(txs, <<a, nonce[a]>>)
                 /\ <<a, nonce[a]>> \in Txs
                 /\ nonce' = [nonce EXCEPT ![a] = @ + 1]
                 /\ nonce' \in Nonces
                 /\ GasOf[<<a, nonce[a]>>] <= gas
<1> DEFINE t == <<a, next[a]>>
<1>1. a \in Accounts /\ next[a] < upto[a] /\ next[a] \in 0 .. MaxNonce - 1 /\ t \in Txs
    BY ConstantsAssumption DEF Served, TypeOK, NonceType, Nonces, Txs
<1>2. next' \in Nonces /\ \A c \in Accounts : next'[c] <= upto[c]
    <2>1. CASE Pop(a)
        BY <1>1, <2>1 DEF Pop, OfferInv, TypeOK, NonceType, Nonces
    <2>2. CASE Shift(a)
        BY <1>1, <2>2, ConstantsAssumption DEF Shift, OfferInv, TypeOK, NonceType, Nonces
    <2> QED  BY <2>1, <2>2 DEF Attempt, Advances
<1>3. GasOf[t] \in Nat /\ UsedBy[t] \in Nat /\ UsedBy[t] <= GasOf[t]
    BY <1>1, ConstantsAssumption
<1>4. Outcome(t) = "ok" => nonce[a] = next[a] /\ GasOf[t] <= gas
    BY <1>1, OutcomeMeans
<1>5. Outcome(t) = "failed" => GasOf[t] <= gas
    BY <1>1, OutcomeMeans
<1>6. gas' \in 0 .. BlockGas /\ gasUsed' \in 0 .. BlockGas /\ gas' + gasUsed' <= BlockGas
    <2>1. CASE Outcome(t) = "ok"
        BY <1>3, <1>4, <2>1, ConstantsAssumption DEF Attempt, TypeOK, CountType, GasInv
    <2>2. CASE Outcome(t) = "failed"
        BY <1>3, <1>5, <2>2, ConstantsAssumption DEF Attempt, TypeOK, CountType, GasInv
    <2>3. CASE Outcome(t) \notin {"ok", "failed"}
        BY <2>3 DEF Attempt, TypeOK, CountType, GasInv
    <2> QED  BY <2>1, <2>2, <2>3
<1>7. tooHigh' \subseteq Txs /\ unpaid' \subseteq Txs /\ payees' \subseteq {NoAddress, Etherbase}
    BY <1>1 DEF Attempt, TypeOK, DataType
<1>8. \/ txs' = txs /\ nonce' = nonce
      \/ /\ txs' = Append(txs, <<a, nonce[a]>>)
         /\ <<a, nonce[a]>> \in Txs
         /\ nonce' = [nonce EXCEPT ![a] = @ + 1]
         /\ nonce' \in Nonces
         /\ GasOf[<<a, nonce[a]>>] <= gas
    <2>1. CASE Outcome(t) = "ok"
        <3>1. txs' = Append(txs, t) /\ nonce' = [nonce EXCEPT ![a] = @ + 1]
            BY <2>1 DEF Attempt
        <3>2. nonce' \in Nonces
            BY <1>1, <1>4, <2>1, <3>1, ConstantsAssumption DEF TypeOK, NonceType, Nonces
        <3> QED  BY <1>1, <1>4, <2>1, <3>1, <3>2
    <2>2. CASE Outcome(t) # "ok"
        BY <2>2 DEF Attempt
    <2> QED  BY <2>1, <2>2
<1> QED  BY <1>2, <1>6, <1>7, <1>8
-----------------------------------------------------------------------------

\* The parts of the invariant that speak of the environment, after a round.
EnvInv == /\ gas \in 0 .. BlockGas /\ gasUsed \in 0 .. BlockGas
          /\ txs \in Seq(Txs) /\ payees \subseteq {NoAddress, Etherbase}
          /\ tooHigh \subseteq Txs /\ unpaid \subseteq Txs /\ nonce \in Nonces /\ NonceInv /\ GasInv

\* An attempt keeps what the environment is, and adds at most one transaction.
LEMMA AttemptKeeps ==
    ASSUME PackingInv, NEW a \in Served, Attempt(a), UNCHANGED base
    PROVE  /\ EnvInv'
           /\ next' \in Nonces /\ \A c \in Accounts : next'[c] <= upto[c]
           /\ Len(txs') <= Len(txs) + 1
<1>1. TypeOK /\ GasInv /\ OfferInv /\ NonceInv
    BY DEF PackingInv
<1>2. txs \in Seq(Txs) /\ nonce \in Nonces /\ base \in Nonces
    BY <1>1 DEF TypeOK, DataType, NonceType
<1>3. /\ next' \in Nonces /\ \A c \in Accounts : next'[c] <= upto[c]
      /\ gas' \in 0 .. BlockGas /\ gasUsed' \in 0 .. BlockGas /\ GasInv'
      /\ tooHigh' \subseteq Txs /\ unpaid' \subseteq Txs /\ payees' \subseteq {NoAddress, Etherbase}
    BY <1>1, AttemptStep DEF GasInv
<1>4. CASE txs' = txs /\ nonce' = nonce
    BY <1>1, <1>2, <1>3, <1>4 DEF EnvInv, NonceInv, Executed
<1>5. CASE /\ txs' = Append(txs, <<a, nonce[a]>>) /\ <<a, nonce[a]>> \in Txs
           /\ nonce' = [nonce EXCEPT ![a] = @ + 1] /\ nonce' \in Nonces
    <2>1. txs' \in Seq(Txs) /\ Len(txs') = Len(txs) + 1
        BY <1>2, <1>5
    <2>2. NonceInv'
        <3> SUFFICES ASSUME NEW c \in Accounts
                     PROVE  nonce'[c] = base[c] + Executed(c)'
            BY DEF NonceInv
        <3>1. Executed(c)' = IF a = c THEN Executed(c) + 1 ELSE Executed(c)
            BY <1>2, <1>5, ExecutedAppend
        <3>2. nonce[c] = base[c] + Executed(c) /\ nonce[c] \in Nat /\ base[c] \in Nat
            BY <1>1, <1>2, ConstantsAssumption DEF NonceInv, Nonces
        <3>3. Executed(c) \in Nat
            <4>1. IsFiniteSet(1 .. Len(txs))  BY <1>2, FS_Interval
            <4>2. IsFiniteSet({i \in 1 .. Len(txs) : txs[i][1] = c})  BY <4>1, FS_Subset
            <4> QED  BY <4>2, FS_CardinalityType DEF Executed
        <3>4. nonce'[c] = IF a = c THEN nonce[c] + 1 ELSE nonce[c]
            BY <1>2, <1>5 DEF Nonces
        <3> QED  BY <3>1, <3>2, <3>3, <3>4
    <2> QED  BY <1>3, <1>5, <2>1, <2>2 DEF EnvInv
<1>6. Len(txs') <= Len(txs) + 1
    <2>1. Len(txs) \in Nat /\ Len(Append(txs, <<a, nonce[a]>>)) = Len(txs) + 1
        BY <1>2
    <2>2. txs' = txs \/ txs' = Append(txs, <<a, nonce[a]>>)
        BY <1>1, AttemptStep
    <2> QED  BY <2>1, <2>2
<1> QED  BY <1>1, <1>3, <1>4, <1>5, <1>6, AttemptStep

\* The batcher starts without an environment (batcher.go:86-122).
LEMMA PackingInit == Init => PackingInv
<1> SUFFICES ASSUME Init PROVE PackingInv
    OBVIOUS
<1>1. Zeros \in Nonces
    BY ConstantsAssumption DEF Zeros, Nonces
<1>2. TypeOK
    <2>1. NonceType  BY <1>1 DEF Init, NonceType
    <2>2. CountType  BY ConstantsAssumption DEF Init, CountType
    <2>3. DataType  BY ConstantsAssumption DEF Init, DataType
    <2>4. interrupted \in BOOLEAN  BY DEF Init
    <2> QED  BY <2>1, <2>2, <2>3, <2>4 DEF TypeOK
<1>3. \A a \in Accounts : Executed(a) = 0
    <2> TAKE a \in Accounts
    <2>1. {i \in 1 .. Len(txs) : txs[i][1] = a} = {}
        BY DEF Init
    <2> QED  BY <2>1, FS_EmptySet DEF Executed
<1>4. NonceInv
    BY <1>3 DEF Init, NonceInv, Zeros
<1>5. GasInv /\ LimitInv /\ OfferInv
    BY ConstantsAssumption DEF Init, GasInv, LimitInv, WithinLimit, OfferInv, Zeros
<1> QED  BY <1>2, <1>4, <1>5 DEF PackingInv

\* What is within the counters stays within them when they grow.
LEMMA CountsGrow ==
    ASSUME NEW n \in Nat, NEW f \in Nat, NEW p \in Nat, NEW g \in Nat, NEW q \in Nat,
           n <= f + p, f + p <= g + q
    PROVE  n <= g + q
OBVIOUS

\* Every step keeps the invariant: one case per action, one step per part that the
\* action can disturb (batcher.go:470-740).
LEMMA PackingStep == PackingInv /\ [Next]_vars => PackingInv'
<1> SUFFICES ASSUME PackingInv, [Next]_vars PROVE PackingInv'
    OBVIOUS
<1> USE DEF PackingInv
<1>z. Zeros \in Nonces
    BY ConstantsAssumption DEF Zeros, Nonces
\* Steps that leave the pass and the environment alone.
<1>1. CASE \E a \in Accounts : TxArrives(a)
    <2> PICK a \in Accounts : TxArrives(a)
        BY <1>1
    <2>1. arrived' \in Nonces
        BY ConstantsAssumption DEF TxArrives, TypeOK, NonceType, Nonces
    <2>2. NonceType' /\ CountType' /\ DataType' /\ interrupted' \in BOOLEAN
        BY <2>1 DEF TxArrives, TypeOK, NonceType, CountType, DataType, passVars, envVars
    <2> QED  BY <2>2 DEF TxArrives, TypeOK, NonceInv, Executed, GasInv, LimitInv,
                         WithinLimit, OfferInv, passVars, envVars
<1>2. CASE \E a \in Accounts : HeadMoves(a)
    <2> PICK a \in Accounts : HeadMoves(a)
        BY <1>2
    <2>1. chainNonce' \in Nonces
        BY ConstantsAssumption DEF HeadMoves, TypeOK, NonceType, Nonces
    <2>2. moves' \in 0 .. MaxMoves
        BY ConstantsAssumption DEF HeadMoves, TypeOK, CountType
    <2>3. NonceType' /\ CountType' /\ DataType' /\ interrupted' \in BOOLEAN
        BY <2>1, <2>2 DEF HeadMoves, TypeOK, NonceType, CountType, DataType, passVars, envVars
    <2> QED  BY <2>3 DEF HeadMoves, TypeOK, NonceInv, Executed, GasInv, LimitInv,
                         WithinLimit, OfferInv, passVars, envVars
<1>3. CASE PoolResets
    BY <1>3 DEF PoolResets, TypeOK, NonceType, CountType, DataType, NonceInv, Executed,
                GasInv, LimitInv, WithinLimit, OfferInv, passVars, envVars
<1>4. CASE SetEtherbase
    BY <1>4 DEF SetEtherbase, TypeOK, NonceType, CountType, DataType, NonceInv, Executed,
                GasInv, LimitInv, WithinLimit, OfferInv, poolVars, passVars, envVars
<1>5. CASE Interrupt
    BY <1>5 DEF Interrupt, TypeOK, NonceType, CountType, DataType, NonceInv, Executed,
                GasInv, LimitInv, WithinLimit, OfferInv, poolVars, envVars
\* The beginning of a pass.
<1>6. CASE CommitNewWork
    <2>1. TypeOK'
        <3>1. NonceType'  BY <1>6 DEF CommitNewWork, TypeOK, NonceType, poolVars
        <3>2. CountType'
            BY <1>6, ConstantsAssumption DEF CommitNewWork, TypeOK, CountType, poolVars
        <3>3. DataType'  BY <1>6 DEF CommitNewWork, TypeOK, DataType
        <3>4. interrupted' \in BOOLEAN  BY <1>6 DEF CommitNewWork
        <3> QED  BY <3>1, <3>2, <3>3, <3>4 DEF TypeOK
    <2>2. NonceInv'
        BY <1>6, ExecutedEmpty, ConstantsAssumption
        DEF CommitNewWork, NonceInv, TypeOK, NonceType, Nonces
    <2>3. GasInv' /\ LimitInv' /\ OfferInv'
        BY <1>6, ConstantsAssumption DEF CommitNewWork, GasInv, LimitInv, WithinLimit, OfferInv
    <2> QED  BY <2>1, <2>2, <2>3
<1>7. CASE UpdateNewWork
    <2>1. NonceType'
        BY <1>7 DEF UpdateNewWork, TypeOK, NonceType, poolVars
    <2>2. CountType'
        BY <1>7, ConstantsAssumption DEF UpdateNewWork, TypeOK, CountType, poolVars
    <2>3. DataType' /\ interrupted' \in BOOLEAN
        BY <1>7 DEF UpdateNewWork, TypeOK, DataType
    <2>4. NonceInv' /\ GasInv' /\ OfferInv'
        BY <1>7 DEF UpdateNewWork, NonceInv, Executed, GasInv, OfferInv
    <2>5. LimitInv'
        BY <1>7 DEF UpdateNewWork, LimitInv, WithinLimit
    <2> QED  BY <2>1, <2>2, <2>3, <2>4, <2>5 DEF TypeOK
<1>8. CASE AsksPool
    <2>1. upto' \in Nonces /\ \A a \in Accounts : poolNonce[a] <= upto'[a]
        BY <1>8, ConstantsAssumption DEF AsksPool, TypeOK, NonceType, Nonces
    <2>2. gas' = gas
        BY <1>8 DEF AsksPool, GasPool
    <2>3. TypeOK'
        BY <1>8, <2>1, <2>2 DEF AsksPool, TypeOK, NonceType, CountType, DataType, poolVars
    <2>4. NonceInv' /\ GasInv' /\ LimitInv' /\ OfferInv'
        BY <1>8, <2>1, <2>2 DEF AsksPool, NonceInv, Executed, GasInv, LimitInv, WithinLimit, OfferInv
    <2> QED  BY <2>3, <2>4
\* The end of a loop or of a pass.
<1>9. CASE CommitInterrupted
    <2>1. TypeOK'
        <3>1. NonceType'
            BY <1>9, <1>z DEF CommitInterrupted, Returns, TypeOK, NonceType, poolVars, envVars
        <3>2. CountType'
            BY <1>9 DEF CommitInterrupted, TypeOK, CountType, poolVars, envVars
        <3>3. DataType'
            BY <1>9 DEF CommitInterrupted, Returns, TypeOK, DataType, envVars
        <3>4. interrupted' \in BOOLEAN  BY <1>9 DEF CommitInterrupted, Returns
        <3> QED  BY <3>1, <3>2, <3>3, <3>4 DEF TypeOK
    <2>2. NonceInv' /\ GasInv'
        BY <1>9 DEF CommitInterrupted, NonceInv, GasInv, Executed, envVars
    <2>3. LimitInv' /\ OfferInv'
        BY <1>9 DEF CommitInterrupted, Returns, LimitInv, WithinLimit, OfferInv, Zeros, envVars
    <2> QED  BY <2>1, <2>2, <2>3
<1>e. ASSUME Ends, UNCHANGED <<poolVars, fault, funds, coinbase, txs, nonce, payees, gas, gasUsed,
                                tooHigh, unpaid, base, updates>>,
             fTcount_s' \in Nat, pTcount_s' \in Nat, processedTxs' \subseteq Txs,
             fTcount_s + pTcount_s <= fTcount_s' + pTcount_s',
             pass = "commit" => pTcount_s' = pTcount_s,
             pass \in {"commit", "update"}
      PROVE  PackingInv'
    <2>1. NonceType' /\ OfferInv'
        BY <1>e, <1>z DEF Ends, Returns, TypeOK, NonceType, OfferInv, Zeros, poolVars
    <2>2. CountType'
        BY <1>e DEF TypeOK, CountType, poolVars
    <2>3. DataType'
        BY <1>e DEF Ends, Returns, TypeOK, DataType
    <2>4. interrupted' \in BOOLEAN
        BY <1>e DEF Ends, Returns, TypeOK
    <2>5. NonceInv' /\ GasInv'
        BY <1>e DEF NonceInv, GasInv, Executed
    <2>6. LimitInv'
        <3>1. Len(txs) \in Nat /\ fTcount_s \in Nat /\ pTcount_s \in Nat
            BY DEF TypeOK, DataType, CountType
        <3>4. /\ fTcount_s' \in Nat /\ pTcount_s' \in Nat
              /\ fTcount_s + pTcount_s <= fTcount_s' + pTcount_s'
            BY <1>e
        <3>5. Len(txs) <= fTcount_s + pTcount_s
            BY DEF LimitInv
        <3>2. pass' \in {pass, "idle"}
            BY <1>e DEF Ends, Returns
        <3>3. Len(txs) <= fTcount_s' + pTcount_s'
            BY <3>1, <3>4, <3>5, CountsGrow
        <3> QED  BY <1>e, <3>2, <3>3 DEF LimitInv, WithinLimit
    <2> QED  BY <2>1, <2>2, <2>3, <2>4, <2>5, <2>6 DEF TypeOK
<1>10. CASE CommitEnds
    BY <1>10, <1>e DEF CommitEnds, TypeOK, CountType, DataType, envVars
<1>11. CASE UpdateEnds
    BY <1>11, <1>e DEF UpdateEnds, TypeOK, CountType, DataType, envVars
\* A round that looks at a transaction.
<1>12. CASE CommitTransaction
    <2> PICK a \in Peek :
            /\ processedTxs' = processedTxs \cup {<<a, next[a]>>}
            /\ fTcount_s' = fTcount_s + 1
            /\ IF fTcount_s + 1 > maxReadyTxs THEN Ends /\ Unexecuted ELSE Attempt(a)
        BY <1>12 DEF CommitTransaction
    <2>1. a \in Served /\ <<a, next[a]>> \in Txs
        BY ConstantsAssumption DEF Peek, Served, Txs, TypeOK, NonceType, Nonces
    <2>2. CASE fTcount_s + 1 > maxReadyTxs
        <3>1. Ends /\ Unexecuted
            BY <2>2
        <3>2. /\ pass = "commit" /\ pTcount_s' = pTcount_s
              /\ UNCHANGED <<poolVars, fault, funds, coinbase, base, updates>>
            BY <1>12 DEF CommitTransaction
        <3>3. UNCHANGED <<txs, nonce, payees, gas, gasUsed, tooHigh, unpaid>>
            BY <3>1 DEF Unexecuted
        <3>4. processedTxs' \subseteq Txs
            BY <2>1 DEF TypeOK, DataType
        <3>5. /\ fTcount_s' \in Nat /\ pTcount_s' \in Nat
              /\ fTcount_s + pTcount_s <= fTcount_s' + pTcount_s'
            BY <3>2 DEF TypeOK, CountType
        <3> QED  BY <1>e, <3>1, <3>2, <3>3, <3>4, <3>5
    <2>3. CASE ~(fTcount_s + 1 > maxReadyTxs)
        <3>1. EnvInv' /\ next' \in Nonces /\ (\A c \in Accounts : next'[c] <= upto[c])
              /\ Len(txs') <= Len(txs) + 1
            BY <1>12, <2>1, <2>3, AttemptKeeps DEF CommitTransaction
        <3>2. UNCHANGED <<pass, serving, first, upto, interrupted>>
            BY <2>3 DEF Attempt
        <3>3. TypeOK'
            <4>1. NonceType'
                BY <1>12, <3>1, <3>2 DEF CommitTransaction, EnvInv, TypeOK, NonceType, poolVars
            <4>2. CountType'
                BY <1>12, <3>1 DEF CommitTransaction, EnvInv, TypeOK, CountType, poolVars
            <4>3. DataType'
                BY <1>12, <2>1, <3>1, <3>2 DEF CommitTransaction, EnvInv, TypeOK, DataType
            <4> QED  BY <3>2, <4>1, <4>2, <4>3 DEF TypeOK
        <3>4. LimitInv'
            <4>1. txs \in Seq(Txs) /\ txs' \in Seq(Txs) /\ fTcount_s \in Nat /\ maxReadyTxs \in Nat
                BY <3>1, ConstantsAssumption DEF EnvInv, TypeOK, DataType, CountType
            <4>2. pass = "commit" /\ pass' = "commit" /\ pTcount_s' = pTcount_s
                BY <1>12, <3>2 DEF CommitTransaction
            <4> QED  BY <2>3, <3>1, <4>1, <4>2 DEF LimitInv, WithinLimit
        <3>5. OfferInv'
            BY <3>1, <3>2 DEF OfferInv
        <3> QED  BY <3>1, <3>3, <3>4, <3>5 DEF EnvInv
    <2> QED  BY <2>2, <2>3
<1>13. CASE UpdateTransaction
    <2> PICK a \in Peek :
            /\ pTcount_s' = pTcount_s + 1
            /\ IF TooMany THEN Ends /\ Unexecuted
               ELSE IF <<a, next[a]>> \in processedTxs
               THEN /\ Shift(a)
                    /\ UNCHANGED <<pass, serving, first, upto, interrupted, txs, nonce,
                                   payees, gas, gasUsed, tooHigh, unpaid>>
               ELSE Attempt(a)
        BY <1>13 DEF UpdateTransaction
    <2>1. a \in Served
        BY DEF Peek
    <2>2. CASE TooMany
        BY <1>13, <1>e, <2>2 DEF UpdateTransaction, Unexecuted, TypeOK, CountType, DataType
    <2>3. CASE ~TooMany /\ <<a, next[a]>> \in processedTxs
        <3>1. next' \in Nonces /\ \A c \in Accounts : next'[c] <= upto[c]
            BY <2>1, <2>3, ConstantsAssumption
            DEF Shift, Served, OfferInv, TypeOK, NonceType, Nonces
        <3>2. UNCHANGED <<poolVars, fault, funds, coinbase, pass, serving, first, upto,
                          interrupted, base, txs, nonce, payees, gas, gasUsed, processedTxs,
                          fTcount_s, tooHigh, unpaid, updates>>
            BY <1>13, <2>3 DEF UpdateTransaction
        <3>3. NonceType'
            BY <3>1, <3>2 DEF TypeOK, NonceType, poolVars
        <3>4. CountType'
            BY <3>2 DEF TypeOK, CountType, poolVars
        <3>5. DataType' /\ interrupted' \in BOOLEAN
            BY <3>2 DEF TypeOK, DataType
        <3>6. NonceInv' /\ GasInv' /\ OfferInv'
            BY <3>1, <3>2 DEF NonceInv, Executed, GasInv, OfferInv
        <3>7. LimitInv'
            <4>1. Len(txs) \in Nat /\ fTcount_s \in Nat /\ pTcount_s \in Nat
                BY DEF TypeOK, DataType, CountType
            <4>2. pass = "update" /\ pass' = "update"
                BY <1>13, <3>2 DEF UpdateTransaction
            <4> QED  BY <3>2, <4>1, <4>2 DEF LimitInv, WithinLimit
        <3> QED  BY <3>3, <3>4, <3>5, <3>6, <3>7 DEF TypeOK
    <2>4. CASE ~TooMany /\ <<a, next[a]>> \notin processedTxs
        <3>1. EnvInv' /\ next' \in Nonces /\ (\A c \in Accounts : next'[c] <= upto[c])
              /\ Len(txs') <= Len(txs) + 1
            BY <1>13, <2>1, <2>4, AttemptKeeps DEF UpdateTransaction
        <3>2. UNCHANGED <<pass, serving, first, upto, interrupted>>
            BY <2>4 DEF Attempt
        <3>3. TypeOK'
            BY <1>13, <3>1, <3>2
            DEF UpdateTransaction, EnvInv, TypeOK, NonceType, CountType, DataType, poolVars
        <3>4. LimitInv'
            <4>1. txs \in Seq(Txs) /\ txs' \in Seq(Txs) /\ fTcount_s \in Nat
                  /\ pTcount_s \in Nat /\ maxReadyTxs \in Nat
                BY <3>1, ConstantsAssumption DEF EnvInv, TypeOK, DataType, CountType
            <4>2. pass = "update" /\ pass' = "update" /\ fTcount_s' = fTcount_s
                BY <1>13, <3>2 DEF UpdateTransaction
            <4> QED  BY <2>4, <3>1, <4>1, <4>2 DEF LimitInv, WithinLimit, TooMany
        <3>5. OfferInv'
            BY <3>1, <3>2 DEF OfferInv
        <3> QED  BY <3>1, <3>3, <3>4, <3>5 DEF EnvInv
    <2> QED  BY <2>2, <2>3, <2>4
<1>14. CASE UNCHANGED vars
    BY <1>14 DEF vars, TypeOK, NonceType, CountType, DataType, NonceInv, Executed, GasInv,
                 LimitInv, WithinLimit, OfferInv, poolVars, passVars, envVars
<1> QED
    BY <1>1, <1>2, <1>3, <1>4, <1>5, <1>6, <1>7, <1>8, <1>9, <1>10, <1>11, <1>12, <1>13, <1>14
    DEF Next, PassStep

\* PackingInv is an invariant: the environment's nonces, gas and counters agree with
\* its transactions in every state (batcher.go:470-740).
THEOREM PackingInvariant == Spec => []PackingInv
BY PackingInit, PackingStep, PTL DEF Spec

\* All passes together never put more than maxReadyTxs transactions in a block
\* (batcher.go:511, 630).
THEOREM LimitKept == Spec => []WithinLimit
<1>1. PackingInv => WithinLimit
    BY DEF PackingInv, LimitInv
<1> QED  BY <1>1, PackingInvariant, PTL

\* Every transaction put in a block is one that a verifying node can execute there:
\* it has the nonce due after those before it, and fits in the gas they left
\* (batcher.go:470-485).
THEOREM EveryBlockVerifies == Spec => BlockVerifies
<1>1. PackingInv /\ [Next]_vars => 
        [\A t \in Txs : txs' = Append(txs, t) =>
            /\ t[2] = base[t[1]] + Executed(t[1])
            /\ GasOf[t] <= BlockGas - gasUsed]_vars
    <2> SUFFICES ASSUME PackingInv, Next, NEW t \in Txs, txs' = Append(txs, t)
                 PROVE  /\ t[2] = base[t[1]] + Executed(t[1])
                        /\ GasOf[t] <= BlockGas - gasUsed
        OBVIOUS
    <2>1. txs \in Seq(Txs)
        BY DEF PackingInv, TypeOK, DataType
    <2>2. txs' # txs /\ txs' # <<>>
        BY <2>1
    <2>3. PICK a \in Served : Attempt(a)
        BY <2>2 DEF Next, PassStep, TxArrives, HeadMoves, PoolResets, SetEtherbase, Interrupt,
                    CommitNewWork, UpdateNewWork, AsksPool, CommitInterrupted, CommitEnds,
                    CommitTransaction, UpdateEnds, UpdateTransaction, Unexecuted, Peek, envVars
    <2>4. txs' = Append(txs, <<a, nonce[a]>>) /\ GasOf[<<a, nonce[a]>>] <= gas
        BY <2>2, <2>3, AttemptStep DEF PackingInv
    <2>5. t = <<a, nonce[a]>>
        <3> DEFINE u == <<a, nonce[a]>>
        <3> HIDE DEF u
        <3>1. \A v : Append(txs, v)[Len(txs) + 1] = v
            BY <2>1
        <3>2. Append(txs, t)[Len(txs) + 1] = t /\ Append(txs, u)[Len(txs) + 1] = u
            BY <3>1
        <3>3. Append(txs, t) = Append(txs, u)
            BY <2>4 DEF u
        <3> QED  BY <3>2, <3>3 DEF u
    <2>6. a \in Accounts /\ nonce[a] = base[a] + Executed(a)
        BY <2>3 DEF Served, PackingInv, NonceInv
    <2>7. gas <= BlockGas - gasUsed
        BY ConstantsAssumption DEF PackingInv, GasInv, TypeOK, CountType
    <2>8. GasOf[t] \in Nat /\ gas \in Nat /\ gasUsed \in Nat /\ BlockGas \in Nat
        BY ConstantsAssumption DEF PackingInv, TypeOK, CountType
    <2> QED  BY <2>4, <2>5, <2>6, <2>7, <2>8
<1> QED  BY <1>1, PackingInvariant, PTL DEF Spec, BlockVerifies

\* An attempt that changes the block executes what Verification lets it execute.
LEMMA AttemptExecutes ==
    ASSUME PackingInv, NEW a \in Served, Attempt(a), Len(txs) < maxReadyTxs,
           UNCHANGED <<fault, funds, base>>
    PROVE  [Filled!Next]_(Filled!vars)
<1> DEFINE t == <<a, next[a]>>
<1>1. /\ a \in Accounts /\ t \in Txs /\ next[a] \in Nat /\ nonce[a] \in Nat
      /\ gas \in Nat /\ gasUsed \in Nat /\ gas <= BlockGas - gasUsed /\ GasOf[t] \in Nat
    BY ConstantsAssumption
    DEF PackingInv, Served, TypeOK, NonceType, CountType, Nonces, Txs, GasInv
<1>2. CASE Outcome(t) # "ok"
    BY <1>2 DEF Attempt, Filled!vars
<1>3. CASE Outcome(t) = "ok"
    <2>1. /\ txs' = Append(txs, t) /\ nonce' = [nonce EXCEPT ![a] = @ + 1]
          /\ gasUsed' = gasUsed + UsedBy[t]
        BY <1>3 DEF Attempt
    <2>2. fault[t] = "none" /\ funds[t][nonce] = "all"
        BY <1>1, <1>3, OutcomeMeans DEF PackingInv
    <2>3. t[1] = a /\ t[2] = next[a]
        OBVIOUS
    <2>4. next[a] = nonce[a] /\ GasOf[t] <= gas
        BY <1>1, <1>3, <2>3, OutcomeMeans DEF PackingInv
    <2> HIDE DEF t
    <2>5. GasOf[t] <= BlockGas - gasUsed
        BY <1>1, <2>4, ConstantsAssumption
    <2>6. Filled!Execute(t)
        BY <2>1, <2>2, <2>3, <2>4, <2>5 DEF Filled!Execute
    <2> QED  BY <1>1, <2>6 DEF Filled!Next
<1> QED  BY <1>2, <1>3

\* The passes, over pools and heads that move, fill a block as Verification lets a
\* verifying node execute it (batcher.go:470-740).
THEOREM VerificationImplemented == Spec => ImplementsVerification
<1>1. Init => Filled!Init
    <2> SUFFICES ASSUME Init PROVE Filled!Init
        OBVIOUS
    <2>1. Zeros \in Nonces
        BY ConstantsAssumption DEF Zeros, Nonces
    <2>2. Filled!Empty(Zeros)
        BY DEF Init, Filled!Empty
    <2> QED  BY <2>1, <2>2 DEF Filled!Init
<1>2. PackingInv /\ [Next]_vars => [Filled!Next]_(Filled!vars)
    <2> SUFFICES ASSUME PackingInv, [Next]_vars PROVE [Filled!Next]_(Filled!vars)
        OBVIOUS
    <2>1. CASE CommitNewWork
        <3>1. Filled!Begin(chainNonce)
            BY <2>1 DEF CommitNewWork, Filled!Begin
        <3> QED  BY <3>1 DEF Filled!Next, PackingInv, TypeOK, NonceType
    <2>2. /\ txs \in Seq(Txs) /\ Len(txs) \in Nat /\ Len(txs) <= fTcount_s + pTcount_s
          /\ fTcount_s \in Nat /\ pTcount_s \in Nat /\ maxReadyTxs \in Nat
        BY ConstantsAssumption DEF PackingInv, TypeOK, DataType, CountType, LimitInv
    <2>3. CASE CommitTransaction
        <3>1. PICK a \in Peek :
                 IF fTcount_s + 1 > maxReadyTxs THEN Ends /\ Unexecuted ELSE Attempt(a)
            BY <2>3 DEF CommitTransaction
        <3>2. UNCHANGED <<fault, funds, base>> /\ pTcount_s = 0
            BY <2>3 DEF CommitTransaction, PackingInv, LimitInv
        <3>3. CASE fTcount_s + 1 > maxReadyTxs
            BY <3>1, <3>2, <3>3 DEF Unexecuted, Filled!vars
        <3>4. CASE ~(fTcount_s + 1 > maxReadyTxs)
            <4>1. Len(txs) < maxReadyTxs
                BY <2>2, <3>2, <3>4
            <4> QED  BY <3>1, <3>2, <3>4, <4>1, AttemptExecutes DEF Peek
        <3> QED  BY <3>3, <3>4
    <2>4. CASE UpdateTransaction
        <3>1. PICK a \in Peek :
                 IF TooMany THEN Ends /\ Unexecuted
                 ELSE IF <<a, next[a]>> \in processedTxs
                 THEN UNCHANGED <<txs, nonce, gasUsed>>
                 ELSE Attempt(a)
            BY <2>4 DEF UpdateTransaction
        <3>2. UNCHANGED <<fault, funds, base>>
            BY <2>4 DEF UpdateTransaction
        <3>3. CASE TooMany \/ <<a, next[a]>> \in processedTxs
            BY <3>1, <3>2, <3>3 DEF Unexecuted, Filled!vars
        <3>4. CASE ~TooMany /\ <<a, next[a]>> \notin processedTxs
            <4>1. Len(txs) < maxReadyTxs
                BY <2>2, <3>4 DEF TooMany
            <4> QED  BY <3>1, <3>2, <3>4, <4>1, AttemptExecutes DEF Peek
        <3> QED  BY <3>3, <3>4
    <2>5. CASE \/ \E a \in Accounts : TxArrives(a) \/ HeadMoves(a)
               \/ PoolResets \/ SetEtherbase \/ Interrupt \/ UpdateNewWork \/ AsksPool
               \/ CommitInterrupted \/ CommitEnds \/ UpdateEnds \/ UNCHANGED vars
        BY <2>5 DEF TxArrives, HeadMoves, PoolResets, SetEtherbase, Interrupt, UpdateNewWork,
                    AsksPool, CommitInterrupted, CommitEnds, UpdateEnds, vars, envVars, Filled!vars
    <2> QED  BY <2>1, <2>3, <2>4, <2>5 DEF Next, PassStep
<1> QED  BY <1>1, <1>2, PackingInvariant, PTL DEF Spec, ImplementsVerification, Filled!Spec

-----------------------------------------------------------------------------
(* Nothing is passed over *)

\* The state of a transaction of the pool that an attempt can find, and what comes of it.
LEMMA AttemptOutcome ==
    ASSUME TypeOK, OfferInv, GasInv, NEW a \in Served, Attempt(a)
    PROVE  LET t == <<a, next[a]>> IN
           /\ gas' <= gas
           /\ tooHigh \subseteq tooHigh' /\ unpaid \subseteq unpaid'
           /\ next' = [next EXCEPT ![a] = next'[a]] /\ next[a] < next'[a]
           /\ \/ /\ fault[t] \in {"ignored", "unsupported"}
                 /\ nonce' = nonce /\ next'[a] = upto[a]
              \/ /\ next[a] < nonce[a]
                 /\ nonce' = nonce /\ next'[a] = next[a] + 1
              \/ /\ next[a] > nonce[a] /\ t \in tooHigh'
                 /\ nonce' = nonce /\ next'[a] = upto[a]
              \/ /\ next[a] = nonce[a] /\ (GasOf[t] > gas \/ t \in unpaid')
                 /\ nonce' = nonce
              \/ /\ next[a] = nonce[a]
                 /\ nonce' = [nonce EXCEPT ![a] = @ + 1] /\ next'[a] = next[a] + 1
<1> DEFINE t == <<a, next[a]>>
<1>1. a \in Accounts /\ next[a] < upto[a] /\ next[a] \in 0 .. MaxNonce - 1 /\ t \in Txs
      /\ next[a] \in Nat /\ nonce[a] \in Nat /\ upto[a] \in Nat
    BY ConstantsAssumption DEF Served, TypeOK, NonceType, Nonces, Txs
<1>0. t[1] = a /\ t[2] = next[a]
    OBVIOUS
<1>2. GasOf[t] \in Nat /\ UsedBy[t] \in Nat /\ gas \in Nat
    BY <1>1, ConstantsAssumption DEF TypeOK, CountType
<1>3. \A n \in Nat, m \in Nat : n - m <= n
    OBVIOUS
<1>4. gas' <= gas
    <2>1. gas' \in {gas, gas - UsedBy[t], gas - GasOf[t]}
        BY DEF Attempt
    <2> QED  BY <1>2, <1>3, <2>1
<1>5. tooHigh \subseteq tooHigh' /\ unpaid \subseteq unpaid'
    BY DEF Attempt
<1>6. /\ next' = [next EXCEPT ![a] = next'[a]]
      /\ next'[a] = IF Skips(Outcome(t)) THEN upto[a] ELSE next[a] + 1
    <2>1. next \in [Accounts -> 0 .. MaxNonce]
        BY DEF TypeOK, NonceType, Nonces
    <2>2. CASE Skips(Outcome(t))
        BY <1>1, <2>1, <2>2 DEF Attempt, Advances, Pop
    <2>3. CASE ~Skips(Outcome(t))
        BY <1>1, <2>1, <2>3 DEF Attempt, Advances, Shift
    <2> QED  BY <2>2, <2>3
<1>7. next[a] < next'[a]
    BY <1>1, <1>6
<1>8. CASE Outcome(t) \in {"ignored", "unsupported"}
    <2>1. fault[t] \in {"ignored", "unsupported"}
        BY <1>1, <1>8, OutcomeMeans
    <2>2. nonce' = nonce /\ next'[a] = upto[a]
        BY <1>6, <1>8 DEF Attempt, Skips
    <2> QED  BY <1>4, <1>5, <1>6, <1>7, <2>1, <2>2
<1>9. CASE Outcome(t) = "low"
    <2>1. next[a] < nonce[a]
        BY <1>0, <1>1, <1>9, OutcomeMeans
    <2>2. nonce' = nonce /\ next'[a] = next[a] + 1
        BY <1>6, <1>9 DEF Attempt, Skips
    <2> QED  BY <1>4, <1>5, <1>6, <1>7, <2>1, <2>2
<1>10. CASE Outcome(t) = "high"
    <2>1. next[a] > nonce[a]
        BY <1>0, <1>1, <1>10, OutcomeMeans
    <2>2. nonce' = nonce /\ next'[a] = upto[a] /\ t \in tooHigh'
        BY <1>6, <1>10 DEF Attempt, Skips
    <2> QED  BY <1>4, <1>5, <1>6, <1>7, <2>1, <2>2
<1>11. CASE Outcome(t) \in {"unfunded", "gas", "failed"}
    <2>1. next[a] = nonce[a] /\ (GasOf[t] > gas \/ t \in unpaid')
        <3>1. next[a] = nonce[a] /\ (Outcome(t) = "gas" => GasOf[t] > gas)
            BY <1>0, <1>1, <1>11, OutcomeMeans
        <3>2. Outcome(t) \in {"unfunded", "failed"} => t \in unpaid'
            BY DEF Attempt
        <3> QED  BY <1>11, <3>1, <3>2
    <2>2. nonce' = nonce
        BY <1>11 DEF Attempt
    <2> QED  BY <1>4, <1>5, <1>6, <1>7, <2>1, <2>2
<1>12. CASE Outcome(t) = "ok"
    <2>1. next[a] = nonce[a]
        BY <1>0, <1>1, <1>12, OutcomeMeans
    <2>2. nonce' = [nonce EXCEPT ![a] = @ + 1] /\ next'[a] = next[a] + 1
        BY <1>6, <1>12 DEF Attempt, Skips
    <2> QED  BY <1>4, <1>5, <1>6, <1>7, <2>1, <2>2
<1>13. Outcome(t) \in {"ignored", "unsupported", "low", "high", "unfunded", "gas", "failed", "ok"}
    BY <1>1, OutcomeMeans
<1> QED  BY <1>8, <1>9, <1>10, <1>11, <1>12, <1>13

\* An excuse stays one as long as the nonce is due: faults do not change, gas is
\* never given back, and what lacked funds is remembered.
LEMMA ExcuseStays ==
    ASSUME NEW a \in Accounts, Excused(a), nonce[a] \in 0 .. MaxNonce - 1,
           nonce'[a] = nonce[a], first' = first, fault' = fault,
           gas \in Nat, gas' \in Nat, gas' <= gas,
           processedTxs \subseteq processedTxs', tooHigh \subseteq tooHigh',
           unpaid \subseteq unpaid'
    PROVE  Excused(a)'
<1> DEFINE t == <<a, nonce[a]>>
<1>1. t \in Txs /\ GasOf[t] \in Nat
    BY ConstantsAssumption DEF Txs
<1>2. GasOf[t] > gas => GasOf[t] > gas'
    BY <1>1
<1>3. CASE Dropped(a)
    BY <1>3 DEF Excused, Dropped
<1>4. CASE fault[t] # "none" \/ GasOf[t] > gas
    BY <1>2, <1>4 DEF Excused, Hopeless
<1>5. CASE t \in unpaid \/ t \in processedTxs \cap tooHigh
    BY <1>5 DEF Excused
<1> QED  BY <1>3, <1>4, <1>5 DEF Excused, Hopeless

\* A round goes past one more transaction, which it executes, gives up or finds too
\* early; its commit pass remembers it.
LEMMA AttemptPasses ==
    ASSUME PackingInv, NEW a \in Served, Attempt(a), UNCHANGED fault,
           gas' \in 0 .. BlockGas, nonce' \in Nonces, processedTxs \subseteq processedTxs',
           \A c \in Accounts : first[c] <= next[c],
           \A c \in Accounts : first[c] <= nonce[c] /\ nonce[c] < next[c] => Excused(c)
    PROVE  /\ \A c \in Accounts : first'[c] <= next'[c]
           /\ \A c \in Accounts : first'[c] <= nonce'[c] /\ nonce'[c] < next'[c] => Excused(c)'
<1> DEFINE t == <<a, next[a]>>
<1>0. TypeOK /\ GasInv /\ OfferInv
    BY DEF PackingInv
<1>1. /\ a \in Accounts /\ next[a] \in 0 .. MaxNonce - 1 /\ next[a] < upto[a]
      /\ t \in Txs /\ GasOf[t] \in Nat /\ MaxNonce \in Nat
      /\ gas \in Nat /\ gas' \in Nat /\ gas' <= gas
      /\ tooHigh \subseteq tooHigh' /\ unpaid \subseteq unpaid'
      /\ next' = [next EXCEPT ![a] = next'[a]] /\ next[a] < next'[a]
    BY <1>0, AttemptOutcome, ConstantsAssumption
    DEF Served, TypeOK, NonceType, Nonces, Txs, CountType
<1>2. first' = first /\ upto' = upto /\ fault' = fault
    BY DEF Attempt
<1>3. \A c \in Accounts : /\ nonce[c] \in 0 .. MaxNonce /\ next[c] \in 0 .. MaxNonce
                          /\ first[c] \in 0 .. MaxNonce
                          /\ upto[c] \in 0 .. MaxNonce /\ next[c] <= upto[c]
                          /\ c # a => next'[c] = next[c]
    BY <1>0, <1>1 DEF TypeOK, NonceType, Nonces, OfferInv
<1>10. next'[a] \in Nat
    <2>1. next' \in Nonces  BY <1>0, AttemptStep
    <2>2. a \in Accounts  BY <1>1
    <2> QED  BY <2>1, <2>2 DEF Nonces
<1>4. \A c \in Accounts : first'[c] <= next'[c]
    <2> TAKE c \in Accounts
    <2>1. CASE c # a
        BY <1>2, <1>3, <2>1
    <2>2. CASE c = a
        BY <1>1, <1>2, <1>3, <1>10, <2>2
    <2> QED  BY <2>1, <2>2
<1>5. ASSUME NEW c \in Accounts, nonce'[c] = nonce[c], first[c] <= nonce[c], nonce[c] < next[c]
      PROVE  Excused(c)'
    <2>1. nonce[c] \in 0 .. MaxNonce - 1
        BY <1>1, <1>3, <1>5
    <2> QED  BY <1>1, <1>2, <1>5, <2>1, ExcuseStays
<1>6. ASSUME NEW c \in Accounts, first[c] <= nonce'[c], nonce'[c] < next'[c]
      PROVE  Excused(c)'
    <2>1. CASE c # a
        <3>1. nonce'[c] = nonce[c]
            BY <1>0, <1>1, <2>1, AttemptOutcome DEF TypeOK, NonceType, Nonces
        <3> QED  BY <1>3, <1>5, <1>6, <2>1, <3>1
    <2>2. CASE c = a /\ fault[t] \in {"ignored", "unsupported"} /\ nonce' = nonce
        <3>1. CASE nonce[a] < next[a]
            BY <1>5, <1>6, <2>2, <3>1
        <3>2. CASE nonce[a] = next[a]
            BY <1>2, <2>2, <3>2 DEF Excused, Hopeless
        <3>3. CASE nonce[a] > next[a]
            <4>1. next[a] \in first[a] .. nonce[a] - 1
                BY <1>1, <1>3, <3>3
            <4>2. next[a] \in first'[a] .. nonce'[a] - 1 /\ fault'[t] \in {"ignored", "unsupported"}
                BY <1>2, <2>2, <4>1
            <4>3. Dropped(a)'
                BY <4>2 DEF Dropped
            <4> QED  BY <2>2, <4>3 DEF Excused
        <3> QED  BY <1>1, <1>3, <3>1, <3>2, <3>3
    <2>3. CASE c = a /\ next[a] < nonce[a] /\ nonce' = nonce /\ next'[a] = next[a] + 1
        BY <1>1, <1>3, <1>6, <2>3
    <2>4. CASE c = a /\ next[a] > nonce[a] /\ nonce' = nonce
        BY <1>5, <1>6, <2>4
    <2>5. CASE c = a /\ next[a] = nonce[a] /\ (GasOf[t] > gas \/ t \in unpaid') /\ nonce' = nonce
        <3>1. GasOf[t] > gas \/ t \in unpaid'
            BY <2>5
        <3>2. GasOf[t] > gas => GasOf[t] > gas'
            BY <1>1
        <3>3. t = <<c, nonce'[c]>>
            BY <2>5
        <3> QED  BY <3>1, <3>2, <3>3 DEF Excused, Hopeless
    <2>6. CASE /\ c = a /\ next[a] = nonce[a]
               /\ nonce' = [nonce EXCEPT ![a] = @ + 1] /\ next'[a] = next[a] + 1
        <3>1. nonce'[a] = nonce[a] + 1
            BY <1>0, <1>1, <2>6 DEF TypeOK, NonceType, Nonces
        <3> QED  BY <1>3, <1>6, <2>6, <3>1
    <2> QED  BY <1>0, <2>1, <2>2, <2>3, <2>4, <2>5, <2>6, AttemptOutcome
<1> QED  BY <1>2, <1>4, <1>6

\* What the commit pass remembers of a transaction, it need not try again.
LEMMA AttemptProcessed ==
    ASSUME PackingInv, NEW a \in Served, Attempt(a), UNCHANGED fault,
           gas' \in 0 .. BlockGas, nonce' \in Nonces,
           processedTxs' \in {processedTxs, processedTxs \cup {<<a, next[a]>>}},
           \A t \in processedTxs : t[2] >= nonce[t[1]] => Hopeless(t) \/ t \in unpaid \cup tooHigh
    PROVE  \A t \in processedTxs' : t[2] >= nonce'[t[1]] => Hopeless(t)' \/ t \in (unpaid \cup tooHigh)'
<1> PICK u : u = <<a, next[a]>>
    OBVIOUS
<1>0. TypeOK /\ GasInv /\ OfferInv
    BY DEF PackingInv
<1>1. /\ a \in Accounts /\ next[a] \in 0 .. MaxNonce - 1
      /\ u \in Txs /\ MaxNonce \in Nat
      /\ gas \in Nat /\ gas' \in Nat /\ gas' <= gas
      /\ tooHigh \subseteq tooHigh' /\ unpaid \subseteq unpaid'
    BY <1>0, AttemptOutcome, ConstantsAssumption
    DEF Served, TypeOK, NonceType, Nonces, Txs, CountType
<1>2. fault' = fault /\ \A t \in Txs : GasOf[t] \in Nat
    BY ConstantsAssumption
<1>3. \A t \in Txs : Hopeless(t) => Hopeless(t)'
    <2> SUFFICES ASSUME NEW t \in Txs, Hopeless(t) PROVE Hopeless(t)'
        OBVIOUS
    <2>1. GasOf[t] > gas => GasOf[t] > gas'
        BY <1>1, <1>2
    <2> QED  BY <1>2, <2>1 DEF Hopeless
<1>4. \A c \in Accounts : nonce[c] \in Nat /\ nonce'[c] \in Nat
    BY <1>0, ConstantsAssumption DEF TypeOK, NonceType, Nonces
<1>5. \A c \in Accounts : nonce[c] <= nonce'[c]
    <2> TAKE c \in Accounts
    <2>1. nonce' = nonce \/ nonce' = [nonce EXCEPT ![a] = @ + 1]
        BY <1>0, AttemptOutcome
    <2>2. nonce'[c] = nonce[c] \/ nonce'[c] = nonce[c] + 1
        BY <1>0, <2>1 DEF TypeOK, NonceType, Nonces
    <2> QED  BY <1>4, <2>2
<1>6. processedTxs \subseteq Txs /\ \A t \in Txs : t[1] \in Accounts /\ t[2] \in Nat
    BY <1>0, ConstantsAssumption DEF TypeOK, DataType, Txs
<1>7. ASSUME NEW t \in processedTxs, t[2] >= nonce'[t[1]]
      PROVE  Hopeless(t)' \/ t \in (unpaid \cup tooHigh)'
    <2>1. t[2] >= nonce[t[1]]
        BY <1>4, <1>5, <1>6, <1>7
    <2> QED  BY <1>1, <1>3, <1>6, <2>1
<1>9. /\ next[a] \in Nat /\ nonce[a] \in Nat /\ nonce'[a] \in Nat /\ nonce[a] <= nonce'[a]
      /\ u[1] = a /\ u[2] = next[a]
    BY <1>0, <1>1, <1>4, <1>5, ConstantsAssumption DEF TypeOK, NonceType, Nonces
<1>8. ASSUME next[a] >= nonce'[a]
      PROVE  Hopeless(u)' \/ u \in (unpaid \cup tooHigh)'
    <2>1. CASE fault[u] \in {"ignored", "unsupported"}
        BY <1>2, <2>1 DEF Hopeless
    <2>2. CASE next[a] < nonce[a]
        <3>1. ~(next[a] >= nonce'[a])
            BY <1>9, <2>2
        <3> QED  BY <1>8, <3>1
    <2>3. CASE u \in tooHigh'
        BY <2>3
    <2>4. CASE GasOf[u] > gas \/ u \in unpaid'
        <3>1. GasOf[u] > gas => GasOf[u] > gas'
            BY <1>1, <1>2
        <3> QED  BY <1>2, <2>4, <3>1 DEF Hopeless
    <2>5. CASE next[a] = nonce[a] /\ nonce' = [nonce EXCEPT ![a] = @ + 1]
        <3>1. nonce'[a] = nonce[a] + 1
            BY <1>0, <1>1, <2>5 DEF TypeOK, NonceType, Nonces
        <3>2. ~(next[a] >= nonce'[a])
            BY <1>9, <2>5, <3>1
        <3> QED  BY <1>8, <3>2
    <2> QED  BY <1>0, <2>1, <2>2, <2>3, <2>4, <2>5, AttemptOutcome
<1> QED
    <2> SUFFICES ASSUME NEW t \in processedTxs', t[2] >= nonce'[t[1]]
                 PROVE  Hopeless(t)' \/ t \in (unpaid \cup tooHigh)'
        OBVIOUS
    <2>1. CASE t \in processedTxs
        BY <1>7, <2>1
    <2>2. CASE t = u
        <3>1. next[a] >= nonce'[a]
            BY <1>9, <2>2
        <3> QED  BY <1>8, <2>2, <3>1
    <2> QED  BY <2>1, <2>2

\* The batcher starts with nothing to pass over.
LEMMA PassesInit == Init => PassesInv
BY PackingInit DEF Init, PassesInv, ProcessedInv, PassedInv

LEMMA PassesStep == PassesInv /\ [Next]_vars => PassesInv'
<1> SUFFICES ASSUME PassesInv, [Next]_vars PROVE PassesInv'
    OBVIOUS
<1>1. PackingInv /\ ProcessedInv /\ PassedInv /\ PackingInv'
    BY PackingStep DEF PassesInv
<1>2. SUFFICES ProcessedInv' /\ PassedInv'
    BY <1>1 DEF PassesInv
\* Steps of the pool, the chain and the sync leave the pass alone.
<1>3. CASE UNCHANGED <<pass, serving, first, upto, next, fault, envVars>>
    BY <1>1, <1>3 DEF ProcessedInv, PassedInv, HasRoom, Hopeless, Excused, Dropped, envVars
\* An empty environment has nothing processed; it is not in a loop yet.
<1>4. CASE CommitNewWork
    BY <1>4 DEF CommitNewWork, ProcessedInv, PassedInv
<1>5. CASE UpdateNewWork
    BY <1>1, <1>5 DEF UpdateNewWork, ProcessedInv, PassedInv, HasRoom, Hopeless
\* The pass has not gone past anything yet.
<1>6. CASE AsksPool
    <2>1. ProcessedInv'
        BY <1>1, <1>6 DEF AsksPool, GasPool, ProcessedInv, HasRoom, Hopeless
    <2>2. serving' = "locals" /\ \A a \in Accounts : first'[a] = next'[a] /\ nonce'[a] = nonce[a]
        BY <1>6 DEF AsksPool
    <2>3. \A a \in Accounts : first'[a] \in Nat /\ nonce'[a] \in Nat
        BY <1>1, ConstantsAssumption DEF PackingInv, TypeOK, NonceType, Nonces
    <2>4. \A a \in Accounts : first'[a] <= next'[a] /\ ~(first'[a] <= nonce'[a] /\ nonce'[a] < next'[a])
        BY <2>2, <2>3
    <2> QED  BY <2>1, <2>2, <2>4 DEF PassedInv
<1>7. CASE CommitInterrupted
    BY <1>1, <1>7 DEF CommitInterrupted, Returns, ProcessedInv, PassedInv, HasRoom, Hopeless, envVars
\* A loop that ends with room to spare has served its accounts.
<1>e. ASSUME Ends, Exhausted, UNCHANGED <<fault, envVars>>
      PROVE  ProcessedInv' /\ PassedInv'
    <2>1. ProcessedInv'
        BY <1>1, <1>e DEF ProcessedInv, HasRoom, Hopeless, envVars
    <2>2. CASE serving # "locals"
        <3>1. pass' = "idle"
            BY <1>e, <2>2 DEF Ends, Returns
        <3> QED  BY <2>1, <3>1 DEF PassedInv
    <2>3. CASE serving = "locals"
        <3>1. UNCHANGED <<pass, first, upto, next>>
            BY <1>e, <2>3 DEF Ends
        <3>2. HasRoom' => HasRoom
            BY <1>e DEF HasRoom, envVars
        <3>3. \A a \in Accounts : Excused(a) => Excused(a)'
            BY <1>e, <3>1 DEF Excused, Hopeless, Dropped, envVars
        <3>4. HasRoom => \A a \in Locals : next[a] = upto[a]
            <4> SUFFICES ASSUME HasRoom, NEW a \in Locals PROVE next[a] = upto[a]
                OBVIOUS
            <4>1. gas \in Nat /\ TxGas \in Nat /\ gas >= TxGas
                BY <1>1, ConstantsAssumption DEF PackingInv, TypeOK, CountType, HasRoom
            <4>2. Served = {}
                BY <1>e, <4>1 DEF Exhausted
            <4>3. a \in Accounts /\ ~(next[a] < upto[a])
                BY <2>3, <4>2, ConstantsAssumption DEF Served
            <4> QED
                BY <1>1, <4>3, ConstantsAssumption
                DEF PackingInv, OfferInv, TypeOK, NonceType, Nonces
        <3>5. nonce' = nonce
            BY <1>e DEF envVars
        <3> QED  BY <1>1, <2>1, <3>1, <3>2, <3>3, <3>4, <3>5 DEF PassedInv
    <2> QED  BY <2>2, <2>3
\* One that ends at the limit has no room.
<1>f. ASSUME ~HasRoom', Ends, UNCHANGED nonce, pass \in {"commit", "update"}
      PROVE  ProcessedInv' /\ PassedInv'
    <2>1. ProcessedInv'
        BY <1>f DEF ProcessedInv
    <2>2. CASE serving # "locals"
        BY <1>f, <2>1, <2>2 DEF Ends, Returns, PassedInv
    <2>3. CASE serving = "locals"
        BY <1>1, <1>f, <2>1, <2>3 DEF Ends, PassedInv
    <2> QED  BY <2>2, <2>3
<1>8. CASE CommitEnds
    BY <1>8, <1>e DEF CommitEnds
<1>9. CASE UpdateEnds
    BY <1>9, <1>e DEF UpdateEnds
\* A round that tries a transaction.
<1>a. ASSUME NEW a \in Served, Attempt(a), UNCHANGED fault, pass \in {"commit", "update"},
             processedTxs' \in {processedTxs, processedTxs \cup {<<a, next[a]>>}},
             HasRoom' => HasRoom
      PROVE  ProcessedInv' /\ PassedInv'
    <2>1. gas' \in 0 .. BlockGas /\ nonce' \in Nonces
        BY <1>1 DEF PackingInv, TypeOK, CountType, NonceType
    <2>2. ProcessedInv'
        <3> SUFFICES ASSUME HasRoom'
                     PROVE  \A t \in processedTxs' :
                                t[2] >= nonce'[t[1]] => Hopeless(t)' \/ t \in (unpaid \cup tooHigh)'
            BY DEF ProcessedInv
        <3>1. \A t \in processedTxs : t[2] >= nonce[t[1]] => Hopeless(t) \/ t \in unpaid \cup tooHigh
            BY <1>1, <1>a DEF ProcessedInv
        <3> QED  BY <1>1, <1>a, <2>1, <3>1, AttemptProcessed
    <2>3. UNCHANGED <<pass, serving, first, upto>>
        BY <1>a DEF Attempt
    <2>4. \A c \in Accounts : first[c] <= next[c]
        BY <1>1, <1>a DEF PassedInv
    <2>5. \A c \in Accounts : first'[c] <= next'[c]
        <3>1. TypeOK /\ OfferInv /\ GasInv
            BY <1>1 DEF PackingInv
        <3>2. next' = [next EXCEPT ![a] = next'[a]] /\ next[a] < next'[a]
            BY <1>a, <3>1, AttemptOutcome
        <3>3. \A c \in Accounts : first[c] \in Nat /\ next[c] \in Nat /\ next'[c] \in Nat
            BY <1>1, ConstantsAssumption DEF PackingInv, TypeOK, NonceType, Nonces
        <3>4. a \in Accounts /\ \A c \in Accounts : c # a => next'[c] = next[c]
            BY <1>a, <3>1, <3>2 DEF Served, TypeOK, NonceType, Nonces
        <3>5. first' = first
            BY <2>3
        <3> TAKE c \in Accounts
        <3>6. CASE c = a
            BY <2>4, <3>2, <3>3, <3>4, <3>5, <3>6
        <3>7. CASE c # a
            BY <2>4, <3>3, <3>4, <3>5, <3>7
        <3> QED  BY <3>6, <3>7
    <2>6. ASSUME HasRoom'
          PROVE  /\ serving' = "remotes" => \A c \in Locals : next'[c] = upto'[c]
                 /\ \A c \in Accounts :
                       first'[c] <= nonce'[c] /\ nonce'[c] < next'[c] => Excused(c)'
        <3>1. /\ serving = "remotes" => \A c \in Locals : next[c] = upto[c]
              /\ \A c \in Accounts : first[c] <= nonce[c] /\ nonce[c] < next[c] => Excused(c)
            BY <1>1, <1>a, <2>6 DEF PassedInv
        <3>2. \A c \in Accounts :
                    first'[c] <= nonce'[c] /\ nonce'[c] < next'[c] => Excused(c)'
            BY <1>1, <1>a, <2>1, <2>4, <3>1, AttemptPasses
        <3>3. serving' = "remotes" => \A c \in Locals : next'[c] = upto'[c]
            <4> SUFFICES ASSUME serving = "remotes", NEW c \in Locals PROVE next'[c] = upto[c]
                BY <2>3
            <4>1. next[c] = upto[c] /\ c # a
                <5>1. c # a
                    BY <1>a, ConstantsAssumption DEF Served
                <5> QED  BY <3>1, <5>1
            <4>2. next' = [next EXCEPT ![a] = next'[a]]
                BY <1>1, <1>a, AttemptOutcome DEF PackingInv
            <4>3. c \in Accounts /\ next \in [Accounts -> 0 .. MaxNonce]
                BY <1>1, ConstantsAssumption DEF PackingInv, TypeOK, NonceType, Nonces
            <4> QED  BY <4>1, <4>2, <4>3
        <3> QED  BY <3>2, <3>3
    <2> QED  BY <2>2, <2>5, <2>6 DEF PassedInv
<1>c. /\ gas \in Nat /\ gas' \in Nat /\ TxGas \in Nat /\ maxReadyTxs \in Nat
      /\ fTcount_s \in Nat /\ pTcount_s \in Nat
    BY <1>1, ConstantsAssumption DEF PackingInv, TypeOK, CountType
<1>10. CASE CommitTransaction
    <2> PICK a \in Peek :
            /\ processedTxs' = processedTxs \cup {<<a, next[a]>>}
            /\ fTcount_s' = fTcount_s + 1
            /\ IF fTcount_s + 1 > maxReadyTxs THEN Ends /\ Unexecuted ELSE Attempt(a)
        BY <1>10 DEF CommitTransaction
    <2>1. a \in Served /\ pTcount_s' = pTcount_s /\ fault' = fault /\ pass = "commit"
        BY <1>10 DEF Peek, CommitTransaction
    <2>2. CASE fTcount_s + 1 > maxReadyTxs
        <3>1. fTcount_s' + pTcount_s' > maxReadyTxs
            BY <1>c, <2>1, <2>2
        <3>2. ~HasRoom'
            BY <1>c, <2>1, <2>2, <3>1 DEF HasRoom
        <3> QED  BY <1>f, <2>1, <2>2, <3>2 DEF Unexecuted
    <2>3. CASE ~(fTcount_s + 1 > maxReadyTxs)
        <3>1. gas' <= gas
            BY <1>1, <2>1, <2>3, AttemptOutcome DEF PackingInv
        <3>2. HasRoom' => HasRoom
            BY <1>c, <2>1, <3>1 DEF HasRoom
        <3> QED  BY <1>a, <2>1, <2>3, <3>2
    <2> QED  BY <2>2, <2>3
<1>11. CASE UpdateTransaction
    <2> PICK a \in Peek :
            /\ pTcount_s' = pTcount_s + 1
            /\ IF TooMany THEN Ends /\ Unexecuted
               ELSE IF <<a, next[a]>> \in processedTxs
               THEN /\ Shift(a)
                    /\ UNCHANGED <<pass, serving, first, upto, interrupted, txs, nonce,
                                   payees, gas, gasUsed, tooHigh, unpaid>>
               ELSE Attempt(a)
        BY <1>11 DEF UpdateTransaction
    <2>1. a \in Served /\ fTcount_s' = fTcount_s /\ fault' = fault /\ pass = "update"
          /\ processedTxs' = processedTxs
        BY <1>11 DEF Peek, UpdateTransaction
    <2>2. CASE TooMany
        <3>1. ~HasRoom'
            BY <1>c, <2>1, <2>2 DEF HasRoom, TooMany
        <3> QED  BY <1>f, <2>1, <2>2, <3>1 DEF Unexecuted
    <2>3. CASE ~TooMany /\ <<a, next[a]>> \notin processedTxs
        <3>1. gas' <= gas
            BY <1>1, <2>1, <2>3, AttemptOutcome DEF PackingInv
        <3>2. HasRoom' => HasRoom
            BY <1>c, <2>1, <3>1 DEF HasRoom
        <3> QED  BY <1>a, <2>1, <2>3, <3>2
    \* One that the commit pass tried and is due now was given up, or too early then.
    <2>4. CASE ~TooMany /\ <<a, next[a]>> \in processedTxs
        <3>1. /\ Shift(a)
              /\ UNCHANGED <<pass, serving, first, upto, nonce, gas, tooHigh, unpaid>>
            BY <2>4
        <3>2. HasRoom' => HasRoom
            BY <1>c, <2>1, <3>1 DEF HasRoom
        <3>3. ProcessedInv'
            BY <1>1, <2>1, <3>1, <3>2 DEF ProcessedInv, Hopeless
        <3>4. \A c \in Accounts : Excused(c) => Excused(c)'
            BY <2>1, <3>1 DEF Excused, Hopeless, Dropped
        <3>5. /\ a \in Accounts /\ next[a] \in Nat /\ first[a] \in Nat /\ nonce[a] \in Nat
              /\ next'[a] = next[a] + 1 /\ \A c \in Accounts : c # a => next'[c] = next[c]
            BY <1>1, <2>1, <3>1, ConstantsAssumption
            DEF Shift, Served, PackingInv, TypeOK, NonceType, Nonces
        <3>6. \A c \in Accounts : first'[c] <= next'[c]
            <4>1. \A c \in Accounts : first[c] <= next[c]
                BY <1>1, <2>1 DEF PassedInv
            <4> TAKE c \in Accounts
            <4>2. CASE c = a
                BY <3>1, <3>5, <4>1, <4>2
            <4>3. CASE c # a
                BY <3>1, <3>5, <4>1, <4>3
            <4> QED  BY <4>2, <4>3
        <3>7. ASSUME HasRoom'
              PROVE  /\ serving' = "remotes" => \A c \in Locals : next'[c] = upto'[c]
                     /\ \A c \in Accounts :
                           first'[c] <= nonce'[c] /\ nonce'[c] < next'[c] => Excused(c)'
            <4>1. /\ serving = "remotes" => \A c \in Locals : next[c] = upto[c]
                  /\ \A c \in Accounts : first[c] <= nonce[c] /\ nonce[c] < next[c] => Excused(c)
                BY <1>1, <2>1, <3>2, <3>7 DEF PassedInv
            <4>2. serving' = "remotes" => \A c \in Locals : next'[c] = upto'[c]
                BY <2>1, <3>1, <3>5, <4>1, ConstantsAssumption DEF Served
            <4>3. ASSUME nonce[a] = next[a] PROVE Excused(a)
                <5>1. <<a, next[a]>> \in processedTxs /\ next[a] >= nonce[a]
                    BY <2>4, <3>5, <4>3
                <5>2. Hopeless(<<a, next[a]>>) \/ <<a, next[a]>> \in unpaid \cup tooHigh
                    <6> DEFINE t == <<a, next[a]>>
                    <6>1. t \in processedTxs /\ t[2] >= nonce[t[1]]
                        BY <5>1
                    <6> QED  BY <1>1, <3>2, <3>7, <6>1 DEF ProcessedInv
                <5> QED  BY <4>3, <5>1, <5>2 DEF Excused
            <4>4. ASSUME NEW c \in Accounts, first[c] <= nonce[c], nonce[c] < next'[c]
                  PROVE  Excused(c)
                <5>1. CASE c = a
                    BY <3>5, <4>1, <4>3, <4>4, <5>1
                <5>2. CASE c # a
                    BY <3>5, <4>1, <4>4, <5>2
                <5> QED  BY <5>1, <5>2
            <4> QED  BY <3>1, <3>4, <4>2, <4>4
        <3> QED  BY <3>3, <3>6, <3>7 DEF PassedInv
    <2> QED  BY <2>2, <2>3, <2>4
<1> QED
    BY <1>3, <1>4, <1>5, <1>6, <1>7, <1>8, <1>9, <1>10, <1>11
    DEF Next, PassStep, TxArrives, HeadMoves, PoolResets, SetEtherbase, Interrupt, vars,
        passVars, envVars, poolVars

\* PassesInv is an invariant: what a pass went past was executed, given up or too early
\* (batcher.go:470-740).
THEOREM PassesInvariant == Spec => []PassesInv
BY PassesInit, PassesStep, PTL DEF Spec

\* A pass that ends with room to spare leaves no transaction that could be executed
\* next, but those the property excuses (batcher.go:487-706).
THEOREM NonePassedOver == Spec => []NothingPassedOver
<1>1. PassesInv => NothingPassedOver
    <2> SUFFICES ASSUME PassesInv, pass \in {"commit", "update"}, serving = "remotes",
                        Served = {}, HasRoom, NEW a \in Accounts,
                        first[a] <= nonce[a], nonce[a] < upto[a]
                 PROVE  Excused(a)
        BY DEF NothingPassedOver
    <2>1. next[a] = upto[a]
        <3>1. CASE a \in Locals
            BY <3>1 DEF PassesInv, PassedInv
        <3>2. CASE a \notin Locals
            <4>1. ~(next[a] < upto[a])
                BY <3>2 DEF Served
            <4> QED
                BY <4>1, ConstantsAssumption
                DEF PassesInv, PackingInv, OfferInv, TypeOK, NonceType, Nonces
        <3> QED  BY <3>1, <3>2
    <2> QED  BY <2>1 DEF PassesInv, PassedInv
<1> QED  BY <1>1, PassesInvariant, PTL
=============================================================================
