----------------------------- MODULE TxPacking -----------------------------
(***************************************************************************)
(* How the batcher fills a block: commitNewWork, commitTransactions,       *)
(* updateNewWork and updateTransactions of ecconnector/batcher.go, one     *)
(* action per round of their loops.                                        *)
(*                                                                         *)
(* A commit pass starts an environment on the head and executes what the   *)
(* pool has; each BuildBlock afterwards is an update pass, which executes  *)
(* on the same environment what it has not tried yet.  A pass serves the   *)
(* local accounts, then the others, the dearest first.  The pool and the   *)
(* head move on their own and may be ahead of the environment or behind.   *)
(*                                                                         *)
(* One pass at a time uses the environment; Batcher is about two.  A       *)
(* transaction is its account and its nonce.                               *)
(***************************************************************************)
EXTENDS Naturals, Sequences, FiniteSets

CONSTANTS
    Accounts,
    Locals,      \* the accounts of TxPool().Locals()
    MaxNonce,    \* bound: transactions of an account
    Price,       \* gas price of a transaction
    GasOf,       \* gas limit of a transaction
    UsedBy,      \* gas it uses when it is executed
    Situations,  \* which faults and funds of the transactions to consider
    BlockGas,    \* GasCeil
    TxGas,       \* params.TxGas, the least a transaction needs
    maxReadyTxs,
    Etherbase,   \* the account the node was started with
    NoAddress,   \* common.Address{}
    MaxUpdates,  \* bound: update passes on an environment
    MaxMoves     \* bound: moves of the head

Txs == Accounts \X (0 .. MaxNonce - 1)

Nonces == [Accounts -> 0 .. MaxNonce]

\* What does not depend on the state.  "unsupported": the signer does not know its
\* type; "ignored": replay protected before EIP-155.
Faults == {"none", "unsupported", "ignored"}

\* What does: how much of gas and value the sender can pay in a state, which the
\* nonces stand for, as they say what was executed.  Other transactions may give
\* or take the funds.
Covers == {"nothing", "gas", "all"}

ASSUME ConstantsAssumption ==
    /\ Locals \subseteq Accounts
    /\ MaxNonce \in Nat /\ maxReadyTxs \in Nat /\ MaxUpdates \in Nat /\ MaxMoves \in Nat
    /\ BlockGas \in Nat /\ TxGas \in Nat
    /\ Price \in [Txs -> Nat] /\ GasOf \in [Txs -> Nat] /\ UsedBy \in [Txs -> Nat]
    /\ \A t \in Txs : UsedBy[t] <= GasOf[t]
    /\ Situations \subseteq [Txs -> Faults] \X [Txs -> [Nonces -> Covers]]

VARIABLES
    chainNonce,   \* nonces in the state of the head
    poolNonce,    \* nonces the pool's transactions start at
    arrived,      \* nonces they end before
    moves,        \* how often the head moved
    fault,        \* the faults of the transactions
    funds,        \* what of them is covered in which state
    coinbase,     \* EcBatcher.coinbase
    pass,         \* what uses the environment
    serving,      \* "locals" or "remotes"
    first,        \* the pool's answer: nonces it starts at,
    upto,         \*   nonces it ends before,
    next,         \*   nonces of the heads of TransactionsByPriceAndNonce
    interrupted,  \* the int32 of the work request is set
    base,         \* nonces in the state of the environment's parent
    nonce,        \* nonces in the environment's state
    txs,          \* environment.txs
    payees,       \* who got the fees in the environment's state
    gas,          \* environment.gasPool
    gasUsed,      \* environment.header.GasUsed
    processedTxs, \* environment.processedTxs
    fTcount_s, pTcount_s,
    tooHigh,      \* the transactions that errNonceHcnt counts
    unpaid,       \* those for which the funds were missing when this pass, or the
                  \*   commit pass, tried them (history)
    updates       \* update passes on the environment

poolVars == <<chainNonce, poolNonce, arrived, moves>>
passVars == <<pass, serving, first, upto, next, interrupted>>
envVars  == <<base, nonce, txs, payees, gas, gasUsed, processedTxs, fTcount_s,
              pTcount_s, tooHigh, unpaid, updates>>
vars == <<poolVars, fault, funds, coinbase, passVars, envVars>>

NonceType ==
    /\ chainNonce \in Nonces /\ poolNonce \in Nonces /\ arrived \in Nonces
    /\ first \in Nonces /\ upto \in Nonces /\ next \in Nonces
    /\ base \in Nonces /\ nonce \in Nonces

CountType ==
    /\ moves \in 0 .. MaxMoves /\ updates \in 0 .. MaxUpdates
    /\ gas \in 0 .. BlockGas /\ gasUsed \in 0 .. BlockGas
    /\ fTcount_s \in Nat /\ pTcount_s \in Nat

DataType ==
    /\ fault \in [Txs -> Faults] /\ funds \in [Txs -> [Nonces -> Covers]]
    /\ coinbase \in {NoAddress, Etherbase} /\ payees \subseteq {NoAddress, Etherbase}
    /\ pass \in {"none", "prepared", "commit", "updating", "update", "idle"}
    /\ serving \in {"locals", "remotes"}
    /\ txs \in Seq(Txs)
    /\ processedTxs \subseteq Txs /\ tooHigh \subseteq Txs /\ unpaid \subseteq Txs

TypeOK == NonceType /\ CountType /\ DataType /\ interrupted \in BOOLEAN

Zeros == [a \in Accounts |-> 0]

Init ==
    /\ chainNonce = Zeros /\ poolNonce = Zeros /\ arrived = Zeros /\ moves = 0
    /\ \E s \in Situations : fault = s[1] /\ funds = s[2]
    /\ coinbase = NoAddress
    /\ pass = "none" /\ serving = "locals" /\ interrupted = FALSE
    /\ first = Zeros /\ upto = Zeros /\ next = Zeros
    /\ base = Zeros /\ nonce = Zeros /\ txs = <<>> /\ payees = {}
    /\ gas = BlockGas /\ gasUsed = 0 /\ processedTxs = {}
    /\ fTcount_s = 0 /\ pTcount_s = 0 /\ tooHigh = {} /\ unpaid = {} /\ updates = 0

-----------------------------------------------------------------------------
(* The pool and the chain (external)                                       *)

\* The account's next transaction arrives.
TxArrives(a) ==
    /\ arrived[a] < MaxNonce
    /\ arrived' = [arrived EXCEPT ![a] = @ + 1]
    /\ UNCHANGED <<chainNonce, poolNonce, moves, fault, funds, coinbase, passVars, envVars>>

\* The head moves to a block with one transaction more, or, in a reorganisation,
\* with one less.
HeadMoves(a) ==
    /\ moves < MaxMoves
    /\ moves' = moves + 1
    /\ \/ /\ chainNonce[a] < arrived[a]
          /\ chainNonce' = [chainNonce EXCEPT ![a] = @ + 1]
       \/ /\ chainNonce[a] > 0
          /\ chainNonce' = [chainNonce EXCEPT ![a] = @ - 1]
    /\ UNCHANGED <<poolNonce, arrived, fault, funds, coinbase, passVars, envVars>>

\* The pool follows the head a while later.
PoolResets ==
    /\ poolNonce # chainNonce
    /\ poolNonce' = chainNonce
    /\ UNCHANGED <<chainNonce, arrived, moves, fault, funds, coinbase, passVars, envVars>>

-----------------------------------------------------------------------------

\* A sync ended: setEtherbase, whose lock a pass holds against it.
SetEtherbase ==
    /\ pass \in {"none", "idle"}
    /\ coinbase' = Etherbase
    /\ UNCHANGED <<poolVars, fault, funds, passVars, envVars>>

\* newWorkLoop has a new head.
Interrupt ==
    /\ pass \in {"prepared", "commit"}
    /\ interrupted' = TRUE
    /\ UNCHANGED <<poolVars, fault, funds, coinbase, pass, serving, first, upto, next, envVars>>

\* The coinbase of the header: EcPonBada.Prepare overwrites what commitNewWork set.
HeaderCoinbase == NoAddress

\* commitNewWork up to makeCurrent: an empty environment on the head.
CommitNewWork ==
    /\ pass \in {"none", "idle"}
    /\ pass' = "prepared"
    /\ interrupted' = FALSE
    /\ base' = chainNonce /\ nonce' = chainNonce
    /\ txs' = <<>> /\ payees' = {}
    /\ gas' = BlockGas /\ gasUsed' = 0
    /\ processedTxs' = {} /\ fTcount_s' = 0 /\ pTcount_s' = 0
    /\ tooHigh' = {} /\ unpaid' = {} /\ updates' = 0
    /\ UNCHANGED <<poolVars, fault, funds, coinbase, serving, first, upto, next>>

\* updateNewWork.
UpdateNewWork ==
    /\ pass = "idle"
    /\ updates < MaxUpdates
    /\ pass' = "updating"
    /\ updates' = updates + 1
    /\ UNCHANGED <<poolVars, fault, funds, coinbase, serving, first, upto, next, interrupted,
                   base, nonce, txs, payees, gas, gasUsed, processedTxs, fTcount_s,
                   pTcount_s, tooHigh, unpaid>>

\* Mutant of GasPool: every update pass starts with the gas of a block.
GasPoolAgain == BlockGas

\* updateTransactions makes a gas pool only when there is none, which then has
\* the gas of a block.
GasPool == gas

\* The pass asks the pool and sorts the answer.
AsksPool ==
    /\ pass \in {"prepared", "updating"}
    /\ pass' = IF pass = "prepared" THEN "commit" ELSE "update"
    /\ serving' = "locals"
    /\ first' = poolNonce /\ next' = poolNonce
    /\ upto' = [a \in Accounts |->
                    IF arrived[a] > poolNonce[a] THEN arrived[a] ELSE poolNonce[a]]
    /\ gas' = IF pass = "prepared" THEN gas ELSE GasPool
    /\ unpaid' = unpaid \cap processedTxs
    /\ UNCHANGED <<poolVars, fault, funds, coinbase, interrupted, base, nonce, txs, payees,
                   gasUsed, processedTxs, fTcount_s, pTcount_s, tooHigh, updates>>

-----------------------------------------------------------------------------
(* A round of the loops                                                    *)

Served == {a \in Accounts : (a \in Locals <=> serving = "locals") /\ next[a] < upto[a]}

\* The accounts whose transaction Peek may return: none is dearer.
Peek == {a \in Served : \A c \in Served : Price[<<c, next[c]>>] <= Price[<<a, next[a]>>]}

Exhausted == gas < TxGas \/ Served = {}

\* The pass returns, and its variables are gone.
Returns ==
    /\ pass' = "idle"
    /\ serving' = "locals" /\ interrupted' = FALSE
    /\ first' = Zeros /\ upto' = Zeros /\ next' = Zeros

\* The loop ends: the remote accounts come after the local ones.
Ends ==
    IF serving = "locals"
    THEN /\ serving' = "remotes"
         /\ UNCHANGED <<pass, first, upto, next, interrupted>>
    ELSE Returns

Shift(a) == next' = [next EXCEPT ![a] = @ + 1]
Pop(a)   == next' = [next EXCEPT ![a] = upto[a]]

\* What execution makes of the transaction, in the order of its checks: the gas is
\* paid for, then taken from the pool, then the value is transferred.
Outcome(t) ==
    IF fault[t] # "none"                  THEN fault[t]
    ELSE IF t[2] < nonce[t[1]]            THEN "low"
    ELSE IF t[2] > nonce[t[1]]            THEN "high"
    ELSE IF funds[t][nonce] = "nothing"   THEN "unfunded"
    ELSE IF GasOf[t] > gas                THEN "gas"
    ELSE IF funds[t][nonce] = "gas"       THEN "failed"
    ELSE "ok"

\* Mutant of Skips: a nonce that is too low drops the account.
SkipsAll(outcome) == outcome \notin {"ok", "unfunded", "failed"}

\* The outcomes after which the rest of the account is skipped, too.
Skips(outcome) == outcome \in {"ignored", "unsupported", "gas", "high"}

Advances(a, outcome) == IF Skips(outcome) THEN Pop(a) ELSE Shift(a)

\* commitTransaction and the switch on its error.  A failed execution's state is
\* reverted, the gas pool is not; without funds for the gas, none was taken.
Attempt(a) ==
    LET t == <<a, next[a]>>
    IN /\ Advances(a, Outcome(t))
       /\ tooHigh' = IF Outcome(t) = "high" THEN tooHigh \cup {t} ELSE tooHigh
       /\ unpaid' = IF Outcome(t) \in {"unfunded", "failed"} THEN unpaid \cup {t} ELSE unpaid
       /\ IF Outcome(t) = "ok"
          THEN /\ txs' = Append(txs, t)
               /\ nonce' = [nonce EXCEPT ![a] = @ + 1]
               /\ payees' = payees \cup {coinbase}
               /\ gasUsed' = gasUsed + UsedBy[t]
               /\ gas' = gas - UsedBy[t]
          ELSE /\ gas' = IF Outcome(t) = "failed" THEN gas - GasOf[t] ELSE gas
               /\ UNCHANGED <<txs, nonce, payees, gasUsed>>
       /\ UNCHANGED <<pass, serving, first, upto, interrupted>>

Unexecuted == UNCHANGED <<txs, nonce, payees, gas, gasUsed, tooHigh, unpaid>>

\* A round of commitTransactions.
CommitInterrupted ==
    /\ pass = "commit"
    /\ interrupted
    /\ Returns
    /\ UNCHANGED <<poolVars, fault, funds, coinbase, envVars>>

CommitEnds ==
    /\ pass = "commit"
    /\ ~interrupted
    /\ Exhausted
    /\ Ends
    /\ UNCHANGED <<poolVars, fault, funds, coinbase, envVars>>

CommitTransaction ==
    /\ pass = "commit"
    /\ ~interrupted
    /\ ~Exhausted
    /\ \E a \in Peek :
          /\ processedTxs' = processedTxs \cup {<<a, next[a]>>}
          /\ fTcount_s' = fTcount_s + 1
          /\ IF fTcount_s + 1 > maxReadyTxs
             THEN Ends /\ Unexecuted
             ELSE Attempt(a)
    /\ UNCHANGED <<poolVars, fault, funds, coinbase, base, pTcount_s, updates>>

\* A round of updateTransactions.
UpdateEnds ==
    /\ pass = "update"
    /\ Exhausted
    /\ Ends
    /\ UNCHANGED <<poolVars, fault, funds, coinbase, envVars>>

\* Mutant of TooMany: the update pass counts for itself.
TooManyNew == pTcount_s + 1 > maxReadyTxs

TooMany == fTcount_s + pTcount_s + 1 > maxReadyTxs

UpdateTransaction ==
    /\ pass = "update"
    /\ ~Exhausted
    /\ \E a \in Peek :
          /\ pTcount_s' = pTcount_s + 1
          /\ IF TooMany THEN Ends /\ Unexecuted
             ELSE IF <<a, next[a]>> \in processedTxs
             THEN /\ Shift(a)
                  /\ UNCHANGED <<pass, serving, first, upto, interrupted, txs, nonce,
                                 payees, gas, gasUsed, tooHigh, unpaid>>
             ELSE Attempt(a)
    /\ UNCHANGED <<poolVars, fault, funds, coinbase, base, processedTxs, fTcount_s, updates>>

-----------------------------------------------------------------------------

PassStep == \/ AsksPool \/ CommitInterrupted \/ CommitEnds \/ CommitTransaction
            \/ UpdateEnds \/ UpdateTransaction

Next == \/ PassStep
        \/ \E a \in Accounts : TxArrives(a) \/ HeadMoves(a)
        \/ PoolResets
        \/ SetEtherbase \/ Interrupt \/ CommitNewWork \/ UpdateNewWork

Spec == Init /\ [][Next]_vars

-----------------------------------------------------------------------------

\* How many transactions of the account the environment has.
Executed(a) == Cardinality({i \in 1 .. Len(txs) : txs[i][1] = a})

\* A node that verifies the block executes its transactions one after the other on
\* the parent: each has the nonce then due, and its gas limit fits in what is left
\* of the block.  This must survive passes that see another head's pool, skipped
\* transactions, and gas that failed executions took (batcher.go:470-485).
BlockVerifies ==
    [][\A t \in Txs : txs' = Append(txs, t) =>
          /\ t[2] = base[t[1]] + Executed(t[1])
          /\ GasOf[t] <= BlockGas - gasUsed]_vars

\* The block being filled behaves like the one of Verification: it is only ever begun
\* anew or added to, and only what a verifying node can execute next, within the limit.
Filled == INSTANCE Verification WITH Parents <- Nonces, Limit <- maxReadyTxs
ImplementsVerification == Filled!Spec

\* "If there are too many transactions, let's break": the passes together leave
\* at most maxReadyTxs transactions in the block (batcher.go:511, 630).
WithinLimit == Len(txs) <= maxReadyTxs

\* What is left out for good: a fault, or more gas than the block has left.  Funds
\* are not: they may come with another transaction.
Hopeless(t) == fault[t] # "none" \/ GasOf[t] > gas

\* A stale transaction whose type or signature is refused, at which the account was
\* dropped.
Dropped(a) ==
    \E n \in first[a] .. nonce[a] - 1 : fault[<<a, n>>] \in {"ignored", "unsupported"}

\* Why the transaction of the account that is due may be left.
Excused(a) ==
    LET t == <<a, nonce[a]>>
    IN Hopeless(t) \/ t \in unpaid \/ t \in processedTxs \cap tooHigh \/ Dropped(a)

HasRoom == gas >= TxGas /\ fTcount_s + pTcount_s <= maxReadyTxs

\* When a pass comes to the end of the pool's answer, with gas and count to spare,
\* no account is left with a transaction that could be executed next.  Exceptions:
\* one that lacked the funds when this pass came to it, though a later one may have
\* brought them; one that lacked them, or was too early, in the commit pass, which no
\* update pass tries again (batcher.go:518, 623); and those behind a stale one that
\* is refused.
NothingPassedOver ==
    /\ pass \in {"commit", "update"} /\ ~interrupted
    /\ serving = "remotes" /\ Served = {}
    /\ HasRoom
    => \A a \in Accounts : first[a] <= nonce[a] /\ nonce[a] < upto[a] => Excused(a)

\* "The etherbase used to initialize the block coinbase field" (batcher.go:211):
\* the fees in the block's state go to the coinbase its header names, which is
\* where a node that verifies the block sends them.
FeesGoToCoinbase == payees \subseteq {HeaderCoinbase}

-----------------------------------------------------------------------------

\* The environment's state is that of its transactions.
NonceInv == \A a \in Accounts : nonce[a] = base[a] + Executed(a)

\* Gas is never given back: the pool has no more than the transactions left.
GasInv == gas + gasUsed <= BlockGas

\* Every transaction was counted, by one pass or the other.
LimitInv == /\ Len(txs) <= fTcount_s + pTcount_s
            /\ pass \in {"prepared", "commit"} => pTcount_s = 0
            /\ WithinLimit

OfferInv == \A a \in Accounts : first[a] <= upto[a] /\ next[a] <= upto[a]

PackingInv == TypeOK /\ NonceInv /\ GasInv /\ LimitInv /\ OfferInv

\* What the commit pass tried it either executed, or gave up for good, or found too
\* early or without funds.
ProcessedInv ==
    HasRoom => \A t \in processedTxs :
                   t[2] >= nonce[t[1]] => Hopeless(t) \/ t \in unpaid \cup tooHigh

\* Of what the pass went past, nothing is due that has no excuse; the remote accounts
\* are served when the local ones are done with.
PassedInv ==
    pass \in {"commit", "update"} =>
        /\ \A a \in Accounts : first[a] <= next[a]
        /\ HasRoom =>
              /\ serving = "remotes" => \A a \in Locals : next[a] = upto[a]
              /\ \A a \in Accounts :
                    first[a] <= nonce[a] /\ nonce[a] < next[a] => Excused(a)

PassesInv == PackingInv /\ ProcessedInv /\ PassedInv
=============================================================================
