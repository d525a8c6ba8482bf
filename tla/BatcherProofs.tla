--------------------------- MODULE BatcherProofs ---------------------------
(***************************************************************************)
(* What holds of Batcher for every value of its constants.                 *)
(*                                                                         *)
(* The invariant BatcherInv is inductive for any number of RPC threads;    *)
(* CandidateInv needs that the external consensus calls through one thread *)
(* at a time, and the steps below show which of its parts that saves;      *)
(* LoneInv is that of a producer whom nothing else disturbs.               *)
(***************************************************************************)
EXTENDS Batcher, TLAPS, SequenceTheorems, FiniteSetTheorems

\* The first n elements of a sequence.
LEMMA PrefixLemma ==
    ASSUME NEW S, NEW s \in Seq(S), NEW n \in Nat, n < Len(s)
    PROVE  /\ SubSeq(s, 1, n) \in Seq(S)
           /\ Len(SubSeq(s, 1, n)) = n
           /\ \A i \in 1 .. n : SubSeq(s, 1, n)[i] = s[i]
<1>1. SubSeq(s, 1, n) \in Seq(S)
  OBVIOUS
<1>2. Len(SubSeq(s, 1, n)) = n
  OBVIOUS
<1>3. ASSUME NEW i \in 1 .. n PROVE SubSeq(s, 1, n)[i] = s[i]
  OBVIOUS
<1>4. QED
  BY <1>1, <1>2, <1>3

\* A block is its last payload on top of its parent.
LEMMA ParentLemma ==
    ASSUME NEW b \in Block, b # <<>>
    PROVE  /\ Len(b) \in Nat \ {0}
           /\ Last(b) \in Payload
           /\ Root(b) = Last(b).root
           /\ Parent(b) \in Block
           /\ Len(Parent(b)) = Len(b) - 1
           /\ \A i \in 1 .. Len(b) - 1 : Parent(b)[i] = b[i]
           /\ b = Append(Parent(b), Last(b))
<1>1. Len(b) \in Nat \ {0} /\ \A i \in 1 .. Len(b) : b[i] \in Payload
  BY EmptySeq, ElementOfSeq DEF Block
<1>2. Last(b) \in Payload /\ Root(b) = Last(b).root
  BY <1>1 DEF Root, Last
<1>3. \A i \in 1 .. Len(b) - 1 : b[i] \in Payload
  BY <1>1
<1>4. /\ Parent(b) \in Seq(Payload)
      /\ Len(Parent(b)) = Len(b) - 1
      /\ \A i \in 1 .. Len(b) - 1 : Parent(b)[i] = b[i]
  <2> DEFINE n == Len(b) - 1
  <2>1. n \in Nat /\ n < Len(b) /\ b \in Seq(Payload)
    BY <1>1 DEF Block
  <2> HIDE DEF n
  <2>2. /\ SubSeq(b, 1, n) \in Seq(Payload)
        /\ Len(SubSeq(b, 1, n)) = n
        /\ \A i \in 1 .. n : SubSeq(b, 1, n)[i] = b[i]
    BY <2>1, PrefixLemma
  <2>3. QED
    BY <2>2 DEF Parent, n
<1> DEFINE t == Append(Parent(b), Last(b))
<1>5. /\ t \in Seq(Payload)
      /\ Len(t) = Len(b)
      /\ \A i \in 1 .. Len(b) : t[i] = b[i]
  BY <1>1, <1>2, <1>4 DEF Last
<1>6. b = t
  BY <1>5, SeqEqual DEF Block
<1>7. QED
  BY <1>1, <1>2, <1>4, <1>6 DEF Block

\* Sealing changes neither the number, nor the parent, nor the root of a block.
LEMMA SealLemma ==
    ASSUME NEW b \in Block, b # <<>>, NEW p \in Proofs
    PROVE  /\ Seal(b, p) \in Block
           /\ Seal(b, p) # <<>>
           /\ Len(Seal(b, p)) = Len(b)
           /\ Root(Seal(b, p)) = Root(b)
           /\ Parent(Seal(b, p)) = Parent(b)
<1> DEFINE d == [Last(b) EXCEPT !.extra = p]
           s == Seal(b, p)
<1>1. Len(b) \in 1 .. Len(b) /\ Len(b) \in Nat \ {0} /\ Last(b) \in Payload
  BY ParentLemma
<1>2. d \in Payload /\ d.root = Last(b).root
  BY <1>1 DEF Payload
<1>3. s = [b EXCEPT ![Len(b)] = d]
  BY DEF Seal, Last
<1>4. /\ s \in Seq(Payload)
      /\ Len(s) = Len(b)
      /\ \A j \in 1 .. Len(b) : s[j] = IF j = Len(b) THEN d ELSE b[j]
  BY <1>1, <1>2, <1>3, ExceptSeq DEF Block
<1>5. s \in Block /\ s # <<>>
  BY <1>1, <1>4, EmptySeq DEF Block
<1>6. Root(s) = Root(b)
  BY <1>1, <1>2, <1>4, <1>5, ParentLemma DEF Last
<1>7. Parent(s) = Parent(b)
  <2>1. /\ Parent(s) \in Seq(Payload) /\ Len(Parent(s)) = Len(b) - 1
        /\ Parent(b) \in Seq(Payload) /\ Len(Parent(b)) = Len(b) - 1
    BY <1>4, <1>5, ParentLemma DEF Block
  <2>2. \A i \in 1 .. Len(b) - 1 : Parent(s)[i] = s[i] /\ Parent(b)[i] = b[i]
    BY <1>4, <1>5, ParentLemma
  <2>3. \A i \in 1 .. Len(b) - 1 : Parent(s)[i] = Parent(b)[i]
    BY <2>2, <1>1, <1>4
  <2>4. QED
    BY <2>1, <2>3, SeqEqual
<1>8. QED
  BY <1>4, <1>5, <1>6, <1>7

\* The block made by one more payload.
LEMMA AppendLemma ==
    ASSUME NEW b \in Block, NEW d \in Payload
    PROVE  /\ Append(b, d) \in Block
           /\ Append(b, d) # <<>>
           /\ Len(Append(b, d)) = Len(b) + 1
           /\ Root(Append(b, d)) = d.root
           /\ Parent(Append(b, d)) = b
<1> DEFINE a == Append(b, d)
<1>1. /\ a \in Block /\ Len(b) \in Nat /\ Len(a) = Len(b) + 1
      /\ a[Len(b) + 1] = d
      /\ \A i \in 1 .. Len(b) : a[i] = b[i]
  BY DEF Block
<1>2. a # <<>>
  BY <1>1
<1> HIDE DEF a
<1>3. Root(a) = d.root
  BY <1>1, <1>2 DEF Root, Last
<1>4. Parent(a) = b
  <2>1. /\ Parent(a) \in Block /\ Len(Parent(a)) = Len(a) - 1
        /\ \A i \in 1 .. Len(a) - 1 : Parent(a)[i] = a[i]
    BY <1>1, <1>2, ParentLemma
  <2>2. \A i \in 1 .. Len(b) : Parent(a)[i] = b[i]
    BY <1>1, <2>1
  <2>3. Len(Parent(a)) = Len(b)
    BY <1>1, <2>1
  <2>4. QED
    BY <2>1, <2>2, <2>3, SeqEqual DEF Block
<1>5. QED
  BY <1>1, <1>2, <1>3, <1>4 DEF a

\* The root of a block is a set of transactions.
LEMMA RootLemma == ASSUME NEW b \in Block PROVE Root(b) \in SUBSET Txs
<1>1. CASE b = <<>>
  BY <1>1 DEF Root
<1>2. CASE b # <<>>
  BY <1>2, ParentLemma DEF Payload
<1>3. QED
  BY <1>1, <1>2

\* What commitTransaction and FinalizeAndAssemble make of an environment.
LEMMA EnvLemma ==
    ASSUME NEW env \in Environment
    PROVE  /\ EnvRoot(env) \in SUBSET Txs
           /\ \A t \in Txs : Execute(env, t) \in Environment
           /\ \A t \in Txs : Execute(env, t).parent = env.parent
           /\ \A root \in SUBSET Txs :
                Assemble(env, root) = Append(env.parent, [txs |-> env.txs, root |-> root, extra |-> DummyExtra])
           /\ \A root \in SUBSET Txs :
                [txs |-> env.txs, root |-> root, extra |-> DummyExtra] \in Payload
  BY RootLemma DEF Environment, EnvRoot, Execute, Assemble, Payload

-----------------------------------------------------------------------------
(* What a step does not touch                                              *)

\* A conjunct of the invariant whose variables keep their values is kept.
LEMMA Frame ==
    ASSUME BatcherInv
    PROVE  /\ UNCHANGED chainVars => ChainType' /\ TreeInv'
           /\ UNCHANGED inputVars => InputType'
           /\ UNCHANGED loopVars => LoopType'
           /\ UNCHANGED workVars => WorkType'
           /\ UNCHANGED rpcVars => RpcType'
           /\ UNCHANGED <<chainVars, mainPc, currentenv, snapshot>> => EnvInv'
           /\ UNCHANGED <<chainVars, currentenv, rpcVars>> => BuildInv'
           /\ UNCHANGED <<chainVars, rpcVars>> => SealInv'
<1> USE DEF BatcherInv, TypeOK
<1>1. UNCHANGED chainVars => ChainType' /\ TreeInv'
  BY DEF chainVars, ChainType, TreeInv, AncestryKnown
<1>2. UNCHANGED inputVars => InputType'
  BY DEF inputVars, InputType
<1>3. UNCHANGED loopVars => LoopType'
  BY DEF loopVars, LoopType
<1>4. UNCHANGED workVars => WorkType'
  BY DEF workVars, WorkType
<1>5. UNCHANGED rpcVars => RpcType'
  BY DEF rpcVars, RpcType
<1>6. UNCHANGED <<chainVars, mainPc, currentenv, snapshot>> => EnvInv'
  BY DEF chainVars, EnvInv
<1>7. UNCHANGED <<chainVars, currentenv, rpcVars>> => BuildInv'
  BY DEF chainVars, rpcVars, BuildInv, Grounded
<1>8. UNCHANGED <<chainVars, rpcVars>> => SealInv'
  BY DEF chainVars, rpcVars, SealInv, Grounded
<1>9. QED
  BY <1>1, <1>2, <1>3, <1>4, <1>5, <1>6, <1>7, <1>8

\* A write keeps the tree, and what stood on it or below the head still does.
LEMMA WriteLemma ==
    ASSUME BatcherInv, NEW b, Grounded(b), NEW root \in SUBSET Txs, WriteBlock(b, root)
    PROVE  /\ ChainType' /\ TreeInv'
           /\ written \subseteq written'
           /\ Number(head) \in Nat /\ Number(head') \in Nat
           /\ Number(head) <= Number(head')
<1> USE DEF BatcherInv, TypeOK
<1>1. /\ written' = written \cup {b} /\ b \in Block
      /\ head' = head \/ (head' = b /\ Len(head) <= Len(b))
  <2>1. Len(head) \in Nat /\ Len(b) \in Nat
    BY DEF Grounded, ChainType, Block
  <2>2. QED
    BY <2>1 DEF WriteBlock, MayBecomeHead, Number, Grounded
<1>2. ChainType'
  BY <1>1, ConstantsAssumption DEF WriteBlock, ChainType
<1>3. TreeInv'
  BY <1>1 DEF TreeInv, AncestryKnown, Grounded
<1>4. Len(head) \in Nat /\ Len(head') \in Nat
  BY <1>2 DEF ChainType, Block
<1>5. QED
  BY <1>1, <1>2, <1>3, <1>4 DEF Number

\* A taller tree under the same work and calls.
LEMMA GrowLemma ==
    ASSUME BatcherInv, written \subseteq written',
           Number(head) \in Nat, Number(head') \in Nat, Number(head) <= Number(head'),
           UNCHANGED workVars, UNCHANGED mainPc
    PROVE  /\ EnvInv'
           /\ \A b : Grounded(b) => Grounded(b)'
           /\ UNCHANGED rpcVars => BuildInv' /\ SealInv'
<1> USE DEF BatcherInv
<1>1. \A b : Grounded(b) => Grounded(b)'
  BY DEF Grounded
<1>2. EnvInv'
  <2>1. currentenv \in Environment => Number(currentenv.parent) \in Nat
    BY DEF Environment, Number, Block
  <2>2. QED
    BY <2>1 DEF EnvInv, workVars
<1>3. UNCHANGED rpcVars => BuildInv' /\ SealInv'
  BY <1>1 DEF BuildInv, SealInv, workVars, rpcVars
<1>4. QED
  BY <1>1, <1>2, <1>3

\* The environment only moves up the chain.
LEMMA EnvGrows ==
    ASSUME BatcherInv, UNCHANGED chainVars, currentenv' \in Environment,
           currentenv \in Environment,
           currentenv'.parent \in {currentenv.parent, head}
    PROVE  /\ currentenv'.parent \in written'
           /\ Number(currentenv'.parent) <= Number(head')
           /\ \A n \in Int : n <= EnvNumber(currentenv) => n <= EnvNumber(currentenv')
<1>1. /\ Number(currentenv.parent) \in Nat /\ Number(head) \in Nat
      /\ Number(currentenv'.parent) \in Nat
  BY DEF BatcherInv, TypeOK, ChainType, Environment, Number, Block
<1>2. QED
  BY <1>1 DEF BatcherInv, EnvInv, TreeInv, EnvNumber, chainVars

-----------------------------------------------------------------------------
(* The inductive step, one lemma per part of Next                          *)

\* A block from a peer: the tree grows under the calls.
LEMMA ImportStep == ASSUME BatcherInv, ImportBlock PROVE BatcherInv'
<1>1. PICK parent \in written, body \in SUBSET Txs, p \in Proofs :
        LET root == Root(parent) \cup body
            b    == Append(parent, [txs |-> body, root |-> root, extra |-> p])
        IN  /\ WriteBlock(b, root)
            /\ UNCHANGED <<inputVars, loopVars, workVars, rpcVars>>
  BY DEF ImportBlock
<1> DEFINE root == Root(parent) \cup body
           d    == [txs |-> body, root |-> root, extra |-> p]
           b    == Append(parent, d)
<1>2. parent \in Block /\ body \in SUBSET Txs
  BY ConstantsAssumption DEF BatcherInv, TypeOK, ChainType
<1>3. root \in SUBSET Txs
  BY <1>2, RootLemma
<1>4. d \in Payload
  BY <1>2, <1>3 DEF Payload
<1>5. Grounded(b)
  BY <1>2, <1>4, AppendLemma DEF Grounded, Genesis
<1>6. WriteBlock(b, root)
  BY <1>1
<1> HIDE DEF root, d, b
<1>7. /\ ChainType' /\ TreeInv' /\ written \subseteq written'
      /\ Number(head) \in Nat /\ Number(head') \in Nat /\ Number(head) <= Number(head')
  BY <1>3, <1>5, <1>6, WriteLemma
<1>8. UNCHANGED workVars /\ UNCHANGED mainPc /\ UNCHANGED rpcVars
  BY <1>1 DEF loopVars
<1>9. EnvInv' /\ BuildInv' /\ SealInv'
  BY <1>7, <1>8, GrowLemma
<1>10. InputType' /\ LoopType' /\ WorkType' /\ RpcType'
  BY <1>1, Frame
<1>11. QED
  BY <1>7, <1>9, <1>10 DEF BatcherInv, TypeOK

\* Transactions, the operator and the timer touch neither blocks nor work.
LEMMA InputStep ==
    ASSUME BatcherInv,
           TxArrives \/ StartBatching \/ StopBatching \/ Stop \/ RecommitTick
    PROVE  BatcherInv'
<1> USE DEF TxArrives, StartBatching, StopBatching, Stop, RecommitTick, newTxs
<1>1. InputType'
  <2>1. CASE TxArrives \/ StopBatching \/ Stop \/ RecommitTick
    BY <2>1 DEF BatcherInv, TypeOK, InputType, inputVars
  <2>2. CASE StartBatching
    BY <2>2, ConstantsAssumption DEF BatcherInv, TypeOK, InputType
  <2>3. QED
    BY <2>1, <2>2
<1>2. LoopType'
  BY DEF BatcherInv, TypeOK, LoopType, loopVars
<1>3. UNCHANGED chainVars /\ UNCHANGED workVars /\ UNCHANGED rpcVars /\ UNCHANGED mainPc
  BY DEF loopVars
<1>4. UNCHANGED currentenv /\ UNCHANGED snapshot
  BY <1>3 DEF workVars
<1>5. QED
  BY <1>1, <1>2, <1>3, <1>4, Frame DEF BatcherInv, TypeOK

\* newWorkLoop: it touches no environment, and drops task and snapshot at most.
LEMMA NewWorkStep == ASSUME BatcherInv, NewWorkLoop PROVE BatcherInv'
<1> USE DEF NewWorkLoop, NewWorkTakesStart, NewWorkTakesHead, NewWorkInterrupts,
            NewWorkHandsOver, NewWorkStops, ClearPending
<1>1. InputType'
  <2>1. CASE NewWorkTakesStart
    BY <2>1 DEF BatcherInv, TypeOK, InputType
  <2>2. CASE ~NewWorkTakesStart
    <3>1. UNCHANGED inputVars
      BY <2>2 DEF inputVars
    <3>2. QED
      BY <3>1, Frame
  <2>3. QED
    BY <2>1, <2>2
<1>2. ChainType' /\ UNCHANGED <<written, states, head>>
  <2>1. CASE NewWorkTakesHead
    BY <2>1, ConstantsAssumption DEF BatcherInv, TypeOK, ChainType
  <2>2. CASE ~NewWorkTakesHead
    <3>1. UNCHANGED chainVars
      BY <2>2 DEF chainVars
    <3>2. QED
      BY <3>1, Frame DEF chainVars
  <2>3. QED
    BY <2>1, <2>2
<1>3. LoopType'
  BY DEF BatcherInv, TypeOK, LoopType, loopVars
<1>4. WorkType' /\ UNCHANGED currentenv /\ snapshot' \in {snapshot, None}
  BY DEF BatcherInv, TypeOK, WorkType, workVars
<1>5. UNCHANGED rpcVars
  OBVIOUS
<1>6. RpcType'
  BY <1>5, Frame
<1>7. mainPc' = "execute" => mainPc = "execute"
  BY DEF loopVars
<1>8. TreeInv' /\ BuildInv' /\ SealInv'
  BY <1>2, <1>4, <1>5 DEF BatcherInv, TreeInv, AncestryKnown, BuildInv, SealInv, Grounded, rpcVars
<1>9. EnvInv'
  BY <1>2, <1>4, <1>7 DEF BatcherInv, EnvInv
<1>10. QED
  BY <1>1, <1>2, <1>3, <1>4, <1>6, <1>8, <1>9 DEF BatcherInv, TypeOK

\* mainLoop: the environment changes, alone or after a move to the head.
LEMMA MainStep == ASSUME BatcherInv, MainLoop PROVE BatcherInv'
<1> USE DEF BatcherInv, TypeOK
<1>1. UNCHANGED <<chainVars, inputVars, rpcVars, pendingTask>>
  BY DEF MainLoop, MainPrepares, MainExecutes, MainPublishes, MainStops, workVars
<1>2. ChainType' /\ TreeInv' /\ InputType' /\ RpcType' /\ SealInv'
  BY <1>1, Frame
<1>3. LoopType'
  BY DEF MainLoop, MainPrepares, MainExecutes, MainPublishes, MainStops, LoopType, InputType
<1> DEFINE fresh == [parent |-> head, txs |-> {}, partial |-> FALSE]
<1>a. fresh \in Environment /\ fresh.parent = head
  BY DEF ChainType, Environment
<1> HIDE DEF fresh
<1>4. \/ UNCHANGED currentenv
      \/ currentenv' \in Environment /\ currentenv'.parent = head /\ UNCHANGED snapshot
      \/ /\ currentenv \in Environment /\ currentenv' \in Environment
         /\ currentenv'.parent = currentenv.parent /\ UNCHANGED snapshot
  <2>1. CASE MainPrepares
    BY <2>1, <1>a DEF MainPrepares, fresh
  <2>2. CASE MainExecutes
    <3>1. currentenv \in Environment
      BY <2>2 DEF MainExecutes, EnvInv
    <3>2. [currentenv EXCEPT !.partial = TRUE] \in Environment
      BY <3>1 DEF Environment
    <3>3. [currentenv EXCEPT !.partial = TRUE].parent = currentenv.parent
      BY <3>1 DEF Environment
    <3>4. mainTodo \in SUBSET Txs
      BY DEF LoopType
    <3>5. QED
      BY <2>2, <3>1, <3>2, <3>3, <3>4, EnvLemma DEF MainExecutes
  <2>3. CASE MainPublishes \/ MainStops
    BY <2>3 DEF MainPublishes, MainStops, workVars
  <2>4. QED
    BY <2>1, <2>2, <2>3 DEF MainLoop
<1>5. snapshot' \in {snapshot, currentenv'}
  BY DEF MainLoop, MainPrepares, MainExecutes, MainPublishes, MainStops, workVars
<1>6. WorkType'
  BY <1>1, <1>4, <1>5 DEF WorkType
<1>7. UNCHANGED chainVars
  BY <1>1
<1>8. /\ currentenv \in Environment => currentenv' \in Environment
      /\ currentenv' \in Environment =>
            currentenv'.parent \in written' /\ Number(currentenv'.parent) <= Number(head')
      /\ currentenv \in Environment =>
            \A n \in Int : n <= EnvNumber(currentenv) => n <= EnvNumber(currentenv')
  <2>1. CASE UNCHANGED currentenv
    BY <2>1, <1>7 DEF EnvInv, chainVars
  <2>2. CASE currentenv \notin Environment /\ currentenv' \in Environment /\ currentenv'.parent = head
    BY <2>2, <1>7 DEF TreeInv, ChainType, chainVars, Number, Block
  <2>3. CASE /\ currentenv \in Environment /\ currentenv' \in Environment
             /\ currentenv'.parent \in {currentenv.parent, head}
    BY <2>3, <1>7, EnvGrows
  <2>4. QED
    BY <1>4, <2>1, <2>2, <2>3
<1>9. EnvInv'
  <2>1. mainPc' = "execute" => currentenv' \in Environment
    <3>1. CASE MainPrepares
      BY <3>1, <1>a DEF MainPrepares, fresh
    <3>2. CASE ~MainPrepares
      BY <3>2, <1>8 DEF MainLoop, MainExecutes, MainPublishes, MainStops, EnvInv
    <3>3. QED
      BY <3>1, <3>2
  <2>2. snapshot' # None =>
          currentenv' \in Environment /\ EnvNumber(snapshot') <= EnvNumber(currentenv')
    <3>1. CASE snapshot' = snapshot
      <4>1. snapshot # None => EnvNumber(snapshot) \in Int
        BY DEF WorkType, EnvNumber, Environment, Number, Block
      <4>2. QED
        BY <3>1, <4>1, <1>8 DEF EnvInv
    <3>2. CASE snapshot' = currentenv'
      <4>1. currentenv' \in Environment => EnvNumber(currentenv') \in Int
        BY DEF EnvNumber, Environment, Number, Block
      <4>2. QED
        BY <3>2, <4>1, <1>6 DEF WorkType
    <3>3. QED
      BY <1>5, <3>1, <3>2
  <2>3. QED
    BY <1>8, <2>1, <2>2 DEF EnvInv
<1>10. BuildInv'
  <2>1. \A c \in Clients : currentenv \in Environment /\ EnvNumber(currentenv) > rpcNum[c]
          => currentenv' \in Environment /\ EnvNumber(currentenv') > rpcNum[c]
    <3>1. \A c \in Clients : rpcNum[c] \in Nat
      BY DEF RpcType
    <3>2. currentenv \in Environment => EnvNumber(currentenv) \in Int
      BY DEF EnvNumber, Environment, Number, Block
    <3>3. currentenv' \in Environment => EnvNumber(currentenv') \in Int
      BY DEF EnvNumber, Environment, Number, Block
    <3>4. QED
      BY <1>8, <3>1, <3>2, <3>3
  <2>2. \A b : Grounded(b) => Grounded(b)'
    BY <1>7 DEF Grounded, chainVars
  <2>3. UNCHANGED rpcVars
    BY <1>1
  <2>4. QED
    BY <2>1, <2>2, <2>3 DEF BuildInv, rpcVars
<1>11. QED
  BY <1>2, <1>3, <1>6, <1>9, <1>10

\* BuildBlock: the environment is completed and turned into a candidate.
LEMMA BuildStep ==
    ASSUME BatcherInv, NEW c \in Clients,
           \/ \E n \in 0 .. MaxHeight - 1 : BuildBlock(c, n)
           \/ BuildChecks(c) \/ BuildMarks(c) \/ BuildCopies(c) \/ BuildAssembles(c)
           \/ BuildSnapshots(c) \/ BuildReturns(c)
    PROVE  BatcherInv'
<1> USE DEF BatcherInv, TypeOK
<1>1. UNCHANGED <<chainVars, inputVars, loopVars, currentenv>>
  BY DEF BuildBlock, BuildChecks, BuildMarks, BuildCopies, BuildAssembles, BuildSnapshots,
         BuildReturns, workVars
<1>2. ChainType' /\ InputType' /\ LoopType' /\ TreeInv'
  BY <1>1, Frame
<1>3. \A b : Grounded(b) => Grounded(b)'
  BY <1>1 DEF Grounded, chainVars
<1>4. UNCHANGED mainPc /\ UNCHANGED head /\ UNCHANGED written
  BY <1>1 DEF loopVars, chainVars
<1> USE DEF Goto, Answer
<1>5. CASE \E n \in 0 .. MaxHeight - 1 : BuildBlock(c, n)
  <2>1. RpcType'
    <3>1. PICK n \in 0 .. MaxHeight - 1 : BuildBlock(c, n)
      BY <1>5
    <3>2. rpcPc' \in [Clients -> RpcPcs] /\ reply' \in [Clients -> Replies]
      BY <3>1 DEF BuildBlock, RpcType, RpcPcs, Replies
    <3>3. rpcNum' \in [Clients -> Nat] /\ UNCHANGED <<building, cblock, rpcTodo, rpcCopy, rpcBlock, rpcHash>>
      BY <3>1, ConstantsAssumption DEF BuildBlock, RpcType
    <3>4. QED
      BY <3>2, <3>3 DEF RpcType
  <2>2. UNCHANGED workVars
    BY <1>5 DEF BuildBlock
  <2>3. WorkType' /\ EnvInv'
    BY <2>2, <1>1, <1>4, Frame DEF workVars
  <2>4. BuildInv'
    BY <1>5, <1>1, <1>3, <2>1 DEF BuildBlock, BuildInv, RpcType
  <2>5. SealInv'
    BY <1>5, <1>3 DEF BuildBlock, SealInv, RpcType
  <2>6. QED
    BY <1>2, <2>1, <2>3, <2>4, <2>5
<1>6. CASE BuildChecks(c)
  <2>1. RpcType'
    BY <1>6 DEF BuildChecks, RpcType, RpcPcs, BuildPcs, Replies
  <2>2. UNCHANGED workVars
    BY <1>6 DEF BuildChecks
  <2>3. WorkType' /\ EnvInv'
    BY <2>2, <1>1, <1>4, Frame DEF workVars
  <2>4. snapshot # None /\ EnvNumber(snapshot) > rpcNum[c] =>
          currentenv \in Environment /\ EnvNumber(currentenv) > rpcNum[c]
    <3>1. snapshot # None => EnvNumber(snapshot) \in Int
      BY DEF WorkType, EnvNumber, Environment, Number, Block
    <3>2. currentenv \in Environment => EnvNumber(currentenv) \in Int
      BY DEF EnvNumber, Environment, Number, Block
    <3>3. rpcNum[c] \in Int
      BY DEF RpcType
    <3>4. QED
      BY <3>1, <3>2, <3>3 DEF EnvInv
  <2>5. BuildInv'
    BY <1>6, <1>1, <1>3, <2>4 DEF BuildChecks, SnapshotAbove, BuildInv, RpcType
  <2>6. SealInv'
    BY <1>6, <1>3 DEF BuildChecks, SealInv, RpcType
  <2>7. QED
    BY <1>2, <2>1, <2>3, <2>5, <2>6
<1>7. CASE BuildMarks(c)
  <2>1. RpcType'
    BY <1>7 DEF BuildMarks, MarkFlag, RpcType, RpcPcs, BuildPcs, InputType
  <2>2. UNCHANGED workVars
    BY <1>7 DEF BuildMarks
  <2>3. WorkType' /\ EnvInv'
    BY <2>2, <1>1, <1>4, Frame DEF workVars
  <2>4. BuildInv'
    BY <1>7, <1>1, <1>3 DEF BuildMarks, BuildInv, RpcType
  <2>5. SealInv'
    BY <1>7, <1>3 DEF BuildMarks, SealInv, RpcType
  <2>6. QED
    BY <1>2, <2>1, <2>3, <2>4, <2>5
<1>8. CASE BuildCopies(c)
  <2>1. currentenv \in Environment
    BY <1>8 DEF BuildCopies, BuildInv
  <2>2. EnvRoot(currentenv) \in SUBSET Txs /\ currentenv.txs \in SUBSET Txs
    BY <2>1, EnvLemma DEF Environment
  <2>3. RpcType'
    BY <1>8, <2>2 DEF BuildCopies, RpcType, RpcPcs, BuildPcs
  <2>4. UNCHANGED workVars
    BY <1>8 DEF BuildCopies
  <2>5. WorkType' /\ EnvInv'
    BY <2>4, <1>1, <1>4, Frame DEF workVars
  <2>6. BuildInv'
    BY <1>8, <1>1, <1>3 DEF BuildCopies, BuildInv, RpcType
  <2>7. SealInv'
    BY <1>8, <1>3 DEF BuildCopies, SealInv, RpcType
  <2>8. QED
    BY <1>2, <2>3, <2>5, <2>6, <2>7
<1>9. CASE BuildAssembles(c)
  <2> DEFINE block == Assemble(currentenv, rpcCopy[c].root)
  <2>1. currentenv \in Environment /\ EnvNumber(currentenv) > rpcNum[c]
    BY <1>9 DEF BuildAssembles, BuildInv
  <2>2. rpcCopy[c].root \in SUBSET Txs
    BY DEF RpcType
  <2>3. currentenv.parent \in Block /\ currentenv.parent \in written
    BY <2>1 DEF Environment, EnvInv
  <2>4. Grounded(block) /\ Number(block) = EnvNumber(currentenv)
    <3> DEFINE d == [txs |-> currentenv.txs, root |-> rpcCopy[c].root, extra |-> DummyExtra]
    <3>1. d \in Payload /\ block = Append(currentenv.parent, d)
      BY <2>1, <2>2, EnvLemma
    <3> HIDE DEF d, block
    <3>2. /\ block \in Block /\ block # <<>>
          /\ Len(block) = Len(currentenv.parent) + 1 /\ Parent(block) = currentenv.parent
      BY <2>3, <3>1, AppendLemma
    <3>3. QED
      BY <2>3, <3>2 DEF Grounded, Genesis, Number, EnvNumber
  <2>5. block \in Block
    BY <2>4 DEF Grounded
  <2> HIDE DEF block
  <2>6. /\ rpcPc[c] = "assemble" /\ rpcPc' = [rpcPc EXCEPT ![c] = "snapshot"]
        /\ rpcBlock' = [rpcBlock EXCEPT ![c] = block] /\ pendingTask' = block
        /\ UNCHANGED <<currentenv, snapshot, building, cblock, rpcNum, rpcTodo, rpcCopy, rpcHash, reply>>
    BY <1>9 DEF BuildAssembles, block
  <2>7. RpcType'
    BY <2>5, <2>6 DEF RpcType, RpcPcs, BuildPcs
  <2>8. WorkType' /\ EnvInv'
    BY <2>5, <2>6, <1>1, Frame, <1>4 DEF WorkType
  <2>9. BuildInv'
    BY <2>1, <2>4, <2>6, <1>3 DEF BuildInv, RpcType
  <2>10. SealInv'
    BY <2>6, <1>3 DEF SealInv, RpcType
  <2>11. QED
    BY <1>2, <2>7, <2>8, <2>9, <2>10
<1>10. CASE BuildSnapshots(c)
  <2>1. RpcType'
    BY <1>10 DEF BuildSnapshots, RpcType, RpcPcs, BuildPcs, Replies, NoCopy
  <2>2. currentenv \in Environment
    BY <1>10 DEF BuildSnapshots, BuildInv
  <2>3. EnvNumber(currentenv) \in Int
    BY <2>2 DEF EnvNumber, Environment, Number, Block
  <2>4. snapshot' \in {snapshot, currentenv} /\ UNCHANGED <<currentenv, pendingTask>>
    BY <1>10 DEF BuildSnapshots
  <2>5. WorkType'
    BY <2>4 DEF WorkType
  <2>6. EnvInv'
    BY <2>2, <2>3, <2>4, <1>4 DEF EnvInv
  <2>7. BuildInv'
    BY <1>10, <1>1, <1>3 DEF BuildSnapshots, BuildInv, RpcType
  <2>8. SealInv'
    BY <1>10, <1>3 DEF BuildSnapshots, SealInv, RpcType
  <2>9. QED
    BY <1>2, <2>1, <2>5, <2>6, <2>7, <2>8
<1>11. CASE BuildReturns(c)
  <2>1. RpcType'
    <3>1. Genesis \in Block
      BY EmptySeq DEF Genesis, Block
    <3>2. QED
      BY <1>11, <3>1 DEF BuildReturns, RpcType, RpcPcs, BuildPcs, Replies
  <2>2. UNCHANGED workVars
    BY <1>11 DEF BuildReturns
  <2>3. WorkType' /\ EnvInv'
    BY <2>2, <1>1, <1>4, Frame DEF workVars
  <2>4. Grounded(rpcBlock[c]) /\ Number(rpcBlock[c]) > rpcNum[c]
    BY <1>11 DEF BuildReturns, BuildInv
  <2>5. BuildInv'
    BY <1>11, <1>1, <1>3, <2>4 DEF BuildReturns, BuildInv, RpcType
  <2>6. SealInv'
    BY <1>11, <1>3, <2>4 DEF BuildReturns, SealInv, RpcType
  <2>7. QED
    BY <1>2, <2>1, <2>3, <2>5, <2>6
<1>12. QED
  BY <1>5, <1>6, <1>7, <1>8, <1>9, <1>10, <1>11

\* updateNewWork: the environment gains a transaction and stays where it is.
LEMMA UpdateStep == ASSUME BatcherInv, NEW c \in Clients, BuildUpdates(c) PROVE BatcherInv'
<1> USE DEF BatcherInv, TypeOK
<1>1. UNCHANGED <<chainVars, inputVars, loopVars, snapshot, pendingTask>>
  BY DEF BuildUpdates
<1>2. ChainType' /\ InputType' /\ LoopType' /\ TreeInv'
  BY <1>1, Frame
<1>3. \A b : Grounded(b) => Grounded(b)'
  BY <1>1 DEF Grounded, chainVars
<1>4. RpcType'
  BY DEF BuildUpdates, RpcType, RpcPcs, BuildPcs, Goto
<1>5. currentenv \in Environment
  BY DEF BuildUpdates, BuildInv
<1>6. currentenv' \in Environment /\ currentenv'.parent = currentenv.parent
  <2>1. rpcTodo[c] \in SUBSET Txs
    BY DEF RpcType
  <2>2. QED
    BY <1>5, <2>1, EnvLemma DEF BuildUpdates
<1>7. WorkType'
  BY <1>1, <1>6 DEF WorkType
<1>8. EnvInv'
  BY <1>1, <1>5, <1>6 DEF EnvInv, EnvNumber, chainVars, loopVars
<1>9. BuildInv'
  BY <1>3, <1>5, <1>6 DEF BuildUpdates, BuildInv, EnvNumber, Goto, RpcType
<1>10. SealInv'
  BY <1>3 DEF BuildUpdates, SealInv, Goto, RpcType
<1>11. QED
  BY <1>2, <1>4, <1>7, <1>8, <1>9, <1>10

\* SealBlock: a grounded candidate is sealed and written.
LEMMA SealStep ==
    ASSUME BatcherInv, NEW c \in Clients,
           SealBlock(c) \/ (\E p \in Proofs : SealAttaches(c, p)) \/ InsertChecks(c)
    PROVE  BatcherInv'
<1> USE DEF BatcherInv, TypeOK
<1>1. UNCHANGED <<chainVars, inputVars, loopVars, workVars>>
  BY DEF SealBlock, SealAttaches, InsertChecks
<1>2. ChainType' /\ InputType' /\ LoopType' /\ WorkType' /\ TreeInv' /\ EnvInv'
  BY <1>1, Frame DEF loopVars, workVars
<1>3. \A b : Grounded(b) => Grounded(b)'
  BY <1>1 DEF Grounded, chainVars
<1>4. UNCHANGED currentenv
  BY <1>1 DEF workVars
<1> USE DEF Goto, Answer
<1>5. CASE SealBlock(c)
  <2>1. RpcType' /\ BuildInv'
    BY <1>3, <1>4, <1>5 DEF SealBlock, RpcType, RpcPcs, BuildPcs, Replies, BuildInv
  <2>2. SealInv'
    BY <1>3, <1>5 DEF SealBlock, SealInv, RpcType
  <2>3. QED
    BY <1>2, <2>1, <2>2
<1>6. CASE \E p \in Proofs : SealAttaches(c, p)
  <2>1. PICK p \in Proofs : SealAttaches(c, p)
    BY <1>6
  <2>2. Grounded(cblock)
    BY <2>1 DEF SealAttaches, SealInv
  <2>3. Grounded(Seal(cblock, p)) /\ Seal(cblock, p) \in Block
    BY <2>2, SealLemma DEF Grounded, Genesis
  <2> DEFINE sealed == Seal(cblock, p)
  <2> HIDE DEF sealed
  <2>4. /\ rpcPc[c] = "attach" /\ rpcPc' = [rpcPc EXCEPT ![c] = "insert"]
        /\ rpcBlock' = [rpcBlock EXCEPT ![c] = sealed]
        /\ UNCHANGED <<building, cblock, rpcNum, rpcTodo, rpcCopy, rpcHash, reply>>
    BY <2>1 DEF SealAttaches, sealed
  <2>5. Grounded(sealed) /\ sealed \in Block
    BY <2>3 DEF sealed
  <2>6. RpcType' /\ BuildInv'
    BY <1>3, <1>4, <2>4, <2>5 DEF RpcType, RpcPcs, BuildPcs, Replies, BuildInv
  <2>7. SealInv'
    BY <1>3, <2>4, <2>5 DEF SealInv, RpcType
  <2>8. QED
    BY <1>2, <2>6, <2>7
<1>7. CASE InsertChecks(c)
  <2>1. RpcType' /\ BuildInv'
    BY <1>3, <1>4, <1>7 DEF InsertChecks, RpcType, RpcPcs, BuildPcs, Replies, BuildInv
  <2>2. SealInv'
    BY <1>3, <1>7 DEF InsertChecks, SealInv, RpcType
  <2>3. QED
    BY <1>2, <2>1, <2>2
<1>8. QED
  BY <1>5, <1>6, <1>7

\* insertBlock: the sealed block enters the tree, or the thread panics.
LEMMA InsertStep == ASSUME BatcherInv, NEW c \in Clients, InsertWrites(c) PROVE BatcherInv'
<1> USE DEF BatcherInv, TypeOK
<1>1. /\ UNCHANGED <<inputVars, loopVars, workVars, building, cblock, rpcNum, rpcTodo,
                     rpcCopy, rpcBlock, rpcHash>>
      /\ rpcPc[c] = "write" /\ rpcPc' = [rpcPc EXCEPT ![c] = "idle"]
      /\ \E how \in {"panic", "sealed"} : reply' = [reply EXCEPT ![c] = how]
  BY DEF InsertWrites, Answer, Goto
<1>2. InputType' /\ LoopType' /\ WorkType'
  BY <1>1, Frame
<1>3. RpcType'
  BY <1>1 DEF RpcType, RpcPcs, Replies
<1>4. UNCHANGED mainPc /\ UNCHANGED workVars
  BY <1>1 DEF loopVars
<1>5. /\ ChainType' /\ TreeInv' /\ EnvInv'
      /\ \A b : Grounded(b) => Grounded(b)'
  <2>1. CASE UNCHANGED chainVars
    BY <2>1, <1>4, Frame DEF Grounded, chainVars, workVars
  <2>2. CASE pendingTask # None /\ WriteBlock(rpcBlock[c], Root(pendingTask))
    <3>1. Root(pendingTask) \in SUBSET Txs
      BY <2>2, RootLemma DEF WorkType
    <3>2. Grounded(rpcBlock[c])
      BY <1>1 DEF SealInv
    <3>3. /\ ChainType' /\ TreeInv' /\ written \subseteq written'
          /\ Number(head) \in Nat /\ Number(head') \in Nat /\ Number(head) <= Number(head')
      BY <2>2, <3>1, <3>2, WriteLemma
    <3>4. QED
      BY <1>4, <3>3, GrowLemma
  <2>3. QED
    BY <2>1, <2>2 DEF InsertWrites, TaskState
<1>6. UNCHANGED currentenv
  BY <1>1 DEF workVars
<1>7. BuildInv'
  BY <1>1, <1>5, <1>6 DEF BuildInv, RpcType
<1>8. SealInv'
  BY <1>1, <1>5 DEF SealInv, RpcType
<1>9. QED
  BY <1>2, <1>3, <1>5, <1>7, <1>8

\* Nothing is under way at the start.
LEMMA InitInv == Init => BatcherInv
<1> SUFFICES ASSUME Init PROVE BatcherInv
  OBVIOUS
<1>1. Genesis \in Block /\ Number(Genesis) = 0
  BY EmptySeq DEF Genesis, Block, Number
<1>2. ChainType /\ InputType /\ LoopType
  <2>1. ChainType
    <3>1. {Genesis} \in SUBSET Block /\ {{}} \in SUBSET SUBSET Txs
      BY <1>1, Zenon
    <3>2. 0 \in 0 .. ChainHeadChanSize
      BY ConstantsAssumption
    <3>3. QED
      BY <1>1, <3>1, <3>2, Zenon DEF Init, ChainType
  <2>2. InputType
    <3>1. {} \in SUBSET Txs /\ 0 \in 0 .. 1 /\ 0 \in 0 .. MaxStarts
      BY ConstantsAssumption
    <3>2. QED
      BY <3>1, Zenon DEF Init, InputType
  <2>3. LoopType
    BY DEF Init, LoopType
  <2>4. QED
    BY <2>1, <2>2, <2>3
<1>3. WorkType /\ RpcType
  BY <1>1 DEF Init, WorkType, RpcType, NoCopy, RpcPcs, BuildPcs, Replies
<1>4. TreeInv
  BY Zenon DEF Init, TreeInv, AncestryKnown
<1>5. EnvInv
  <2>1. currentenv \in Environment => currentenv.parent \in written /\ Number(currentenv.parent) <= Number(head)
    BY NoneAssumption DEF Init
  <2>2. QED
    BY <2>1 DEF Init, EnvInv
<1>6. BuildInv /\ SealInv
  BY DEF Init, BuildInv, SealInv
<1>7. QED
  BY <1>2, <1>3, <1>4, <1>5, <1>6 DEF BatcherInv, TypeOK

\* The invariant holds of every behaviour, for any number of RPC threads.
THEOREM BatcherInvariant == Spec => []BatcherInv
<1>1. BatcherInv /\ [Next]_vars => BatcherInv'
  <2> SUFFICES ASSUME BatcherInv, [Next]_vars PROVE BatcherInv'
    OBVIOUS
  <2>1. CASE Environs
    BY <2>1, ImportStep, InputStep, BuildStep, SealStep DEF Environs
  <2>2. CASE NewWorkLoop
    BY <2>2, NewWorkStep
  <2>3. CASE MainLoop
    BY <2>3, MainStep
  <2>4. ASSUME NEW c \in Clients, RpcStep(c) PROVE BatcherInv'
    BY <2>4, BuildStep, UpdateStep, SealStep, InsertStep DEF RpcStep
  <2>5. CASE UNCHANGED vars
    BY <2>5, Frame DEF vars, loopVars, workVars, BatcherInv, TypeOK
  <2>6. QED
    BY <2>1, <2>2, <2>3, <2>4, <2>5 DEF Next
<1>2. QED
  BY InitInv, <1>1, PTL DEF Spec

\* Every variable keeps its type.
THEOREM TypeCorrect == Spec => []TypeOK
<1>1. BatcherInv => TypeOK
  BY DEF BatcherInv
<1>2. QED
  BY BatcherInvariant, <1>1, PTL

\* No call of BuildBlock ever answers a block at or below the one it was given,
\* and every block of the database has its parent there.
THEOREM NothingBelowRequest == Spec => []BuiltAboveRequest
<1>1. BatcherInv => BuiltAboveRequest
  BY DEF BatcherInv, BuildInv, BuiltAboveRequest
<1>2. QED
  BY BatcherInvariant, <1>1, PTL

\* Whatever interleaving seals a block, its parent is in the database.
THEOREM NoOrphans == Spec => []AncestryKnown
<1>1. BatcherInv => AncestryKnown
  BY DEF BatcherInv, TreeInv
<1>2. QED
  BY BatcherInvariant, <1>1, PTL

-----------------------------------------------------------------------------
(* One RPC thread                                                          *)

\* The external consensus waits for the answer to a call before the next one.
OneClient == \A c, d \in Clients : c = d

\* The steps that are no step of a call.
Background ==
    \/ ImportBlock \/ TxArrives \/ StartBatching \/ StopBatching \/ Stop \/ RecommitTick
    \/ NewWorkLoop \/ MainLoop

\* They leave the calls alone and can at most drop the task.
LEMMA BackgroundLemma ==
    ASSUME Background
    PROVE  UNCHANGED rpcVars /\ pendingTask' \in {pendingTask, None}
<1>1. CASE NewWorkLoop
  BY <1>1 DEF NewWorkLoop, NewWorkTakesStart, NewWorkTakesHead, NewWorkInterrupts,
              NewWorkHandsOver, NewWorkStops, ClearPending, workVars
<1>2. CASE MainLoop
  BY <1>2 DEF MainLoop, MainPrepares, MainExecutes, MainPublishes, MainStops, workVars
<1>3. CASE ImportBlock
  BY <1>3 DEF ImportBlock, workVars
<1>4. CASE TxArrives \/ StartBatching \/ StopBatching \/ Stop \/ RecommitTick
  BY <1>4 DEF TxArrives, StartBatching, StopBatching, Stop, RecommitTick, workVars
<1>5. QED
  BY <1>1, <1>2, <1>3, <1>4 DEF Background

\* Each step keeps the task the candidate of the only thread, or nil, until a BuildBlock
\* sets its flag, which stays when it panics.
LEMMA CandidateStep ==
    ASSUME OneClient, BatcherInv, CandidateInv, Next
    PROVE  CandidateInv'
<1>1. CASE Background
  BY <1>1, BackgroundLemma DEF CandidateInv, rpcVars
<1>2. ASSUME NEW c \in Clients, SealBlock(c) \/ (\E n \in 0 .. MaxHeight - 1 : BuildBlock(c, n)) \/ RpcStep(c)
      PROVE  CandidateInv'
  <2> USE DEF Goto, Answer, BuildPcs
  <2>1. SUFFICES /\ cblock' = rpcHash'[c]
                 /\ building' \/ pendingTask' \in {None, cblock'}
                 /\ rpcPc'[c] \in BuildPcs => building'
                 /\ rpcPc'[c] \in {"attach", "insert", "write"} => cblock' # None
                 /\ rpcPc'[c] \in {"snapshot", "return"} => pendingTask' \in {None, rpcBlock'[c]}
                 /\ rpcPc'[c] \in {"insert", "write"} =>
                      \E p \in Proofs : rpcBlock'[c] = Seal(cblock', p)
    BY DEF OneClient, CandidateInv
  <2>2. RpcType
    BY DEF BatcherInv, TypeOK
  <2>3. CASE SealBlock(c)
    BY <2>2, <2>3 DEF SealBlock, workVars, CandidateInv, RpcType
  <2>4. CASE \E n \in 0 .. MaxHeight - 1 : BuildBlock(c, n)
    BY <2>2, <2>4 DEF BuildBlock, workVars, CandidateInv, RpcType
  <2>5. CASE BuildChecks(c)
    BY <2>2, <2>5 DEF BuildChecks, workVars, CandidateInv, RpcType
  <2>6. CASE BuildMarks(c)
    BY <2>2, <2>6 DEF BuildMarks, MarkFlag, workVars, CandidateInv, RpcType
  <2>7. CASE BuildUpdates(c)
    BY <2>2, <2>7 DEF BuildUpdates, workVars, CandidateInv, RpcType
  <2>8. CASE BuildCopies(c)
    BY <2>2, <2>8 DEF BuildCopies, workVars, CandidateInv, RpcType
  <2>9. CASE BuildAssembles(c)
    BY <2>2, <2>9 DEF BuildAssembles, workVars, CandidateInv, RpcType
  <2>10. CASE BuildSnapshots(c)
    BY <2>2, <2>10 DEF BuildSnapshots, workVars, CandidateInv, RpcType
  <2>11. CASE BuildReturns(c)
    BY <2>2, <2>11 DEF BuildReturns, workVars, CandidateInv, RpcType
  <2>12. CASE \E p \in Proofs : SealAttaches(c, p)
    BY <2>2, <2>12 DEF SealAttaches, workVars, CandidateInv, RpcType
  <2>13. CASE InsertChecks(c)
    BY <2>2, <2>13 DEF InsertChecks, workVars, CandidateInv, RpcType
  <2>14. CASE InsertWrites(c)
    BY <2>2, <2>14 DEF InsertWrites, workVars, CandidateInv, RpcType
  <2>15. QED
    BY <1>2, <2>3, <2>4, <2>5, <2>6, <2>7, <2>8, <2>9, <2>10, <2>11, <2>12, <2>13, <2>14 DEF RpcStep
<1>3. QED
  BY <1>1, <1>2 DEF Next, Environs, Background

\* A write puts a block of the tree's into the database together with the state
\* its own header names, or while unsettled another one; no other step touches the
\* database.
LEMMA ChainSteps ==
    ASSUME OneClient, BatcherInv, CandidateInv, Next
    PROVE  \/ UNCHANGED <<written, states, head>>
           \/ \E b : \E root \in SUBSET Txs :
                 Grounded(b) /\ WriteBlock(b, root) /\ (root = Root(b) \/ Unsettled)
<1>1. CASE ImportBlock
  <2>1. PICK parent \in written, body \in SUBSET Txs, p \in Proofs :
          LET root == Root(parent) \cup body
              b    == Append(parent, [txs |-> body, root |-> root, extra |-> p])
          IN  WriteBlock(b, root)
    BY <1>1 DEF ImportBlock
  <2> DEFINE root == Root(parent) \cup body
             d    == [txs |-> body, root |-> root, extra |-> p]
             b    == Append(parent, d)
  <2>2. parent \in Block /\ body \in SUBSET Txs
    BY ConstantsAssumption DEF BatcherInv, TypeOK, ChainType
  <2>3. root \in SUBSET Txs
    BY <2>2, RootLemma
  <2>4. d \in Payload /\ d.root = root
    BY <2>2, <2>3 DEF Payload
  <2>5. WriteBlock(b, root)
    BY <2>1
  <2> HIDE DEF d, root
  <2>6. Grounded(b) /\ Root(b) = root
    BY <2>2, <2>4, AppendLemma DEF Grounded, Genesis
  <2>7. QED
    BY <2>3, <2>5, <2>6
<1>2. ASSUME NEW c \in Clients, InsertWrites(c)
      PROVE  \/ UNCHANGED <<written, states, head>>
             \/ \E b : \E root \in SUBSET Txs :
                   Grounded(b) /\ WriteBlock(b, root) /\ (root = Root(b) \/ Unsettled)
  <2>1. CASE UNCHANGED chainVars
    BY <2>1 DEF chainVars
  <2>2. CASE pendingTask # None /\ WriteBlock(rpcBlock[c], Root(pendingTask))
    <3>1. rpcPc[c] = "write"
      BY <1>2 DEF InsertWrites
    <3>2. /\ Unsettled \/ pendingTask = cblock
          /\ cblock # None /\ \E p \in Proofs : rpcBlock[c] = Seal(cblock, p)
      BY <2>2, <3>1 DEF CandidateInv, Unsettled
    <3>3. Grounded(cblock) /\ Grounded(rpcBlock[c])
      BY <3>1, <3>2 DEF BatcherInv, SealInv
    <3>4. Unsettled \/ Root(pendingTask) = Root(rpcBlock[c])
      BY <3>2, <3>3, SealLemma DEF Grounded, Genesis
    <3>5. Root(pendingTask) \in SUBSET Txs
      BY <2>2, RootLemma DEF BatcherInv, TypeOK, WorkType
    <3>6. QED
      BY <2>2, <3>3, <3>4, <3>5
  <2>3. QED
    BY <1>2, <2>1, <2>2 DEF InsertWrites, TaskState
<1>3. CASE NewWorkLoop \/ MainLoop
  BY <1>3 DEF NewWorkLoop, NewWorkTakesStart, NewWorkTakesHead, NewWorkInterrupts,
              NewWorkHandsOver, NewWorkStops, MainLoop, MainPrepares, MainExecutes,
              MainPublishes, MainStops, chainVars
<1>4. CASE TxArrives \/ StartBatching \/ StopBatching \/ Stop \/ RecommitTick
  BY <1>4 DEF TxArrives, StartBatching, StopBatching, Stop, RecommitTick, chainVars
<1>5. ASSUME NEW c \in Clients, SealBlock(c) \/ (\E n \in 0 .. MaxHeight - 1 : BuildBlock(c, n))
      PROVE  UNCHANGED chainVars
  BY <1>5 DEF SealBlock, BuildBlock
<1>6. ASSUME NEW c \in Clients, RpcStep(c), ~InsertWrites(c) PROVE UNCHANGED chainVars
  BY <1>6 DEF RpcStep, BuildChecks, BuildMarks, BuildUpdates, BuildCopies, BuildAssembles,
              BuildSnapshots, BuildReturns, SealAttaches, InsertChecks
<1>7. QED
  BY <1>1, <1>2, <1>3, <1>4, <1>5, <1>6 DEF Next, Environs, chainVars

\* CandidateInv holds of every behaviour with one RPC thread.
LEMMA OneClientInvariant == OneClient /\ Spec => []CandidateInv
<1>1. Init => CandidateInv
  BY DEF Init, CandidateInv, BuildPcs
<1>2. OneClient /\ BatcherInv /\ CandidateInv /\ [Next]_vars => CandidateInv'
  <2>1. CandidateInv /\ UNCHANGED vars => CandidateInv'
    BY DEF vars, rpcVars, workVars, CandidateInv
  <2>2. QED
    BY <2>1, CandidateStep
<1>3. CASE OneClient
  BY <1>1, <1>2, <1>3, BatcherInvariant, PTL DEF Spec
<1>4. QED
  BY <1>3

\* With one RPC thread a block is written with the state its header names, unless a
\* BuildBlock panicked and none has returned since (api.go:80, batcher.go:968).
THEOREM StatesKept == OneClient /\ Spec => StateWritten
<1> DEFINE A == \A b \in written' \ written : Unsettled \/ Root(b) \in states'
<1>1. ASSUME OneClient, BatcherInv, CandidateInv, [Next]_vars PROVE A
  <2>1. CASE UNCHANGED <<written, states, head>>
    BY <2>1
  <2>2. ASSUME NEW b, NEW root, WriteBlock(b, root), root = Root(b) \/ Unsettled PROVE A
    BY <2>2 DEF WriteBlock
  <2>3. QED
    BY <1>1, <2>1, <2>2, ChainSteps DEF vars, chainVars
<1>2. CASE OneClient
  <2>1. BatcherInv /\ CandidateInv /\ [Next]_vars => A
    BY <1>1, <1>2
  <2> HIDE DEF A
  <2>2. Spec => [][A]_vars
    BY <1>2, <2>1, BatcherInvariant, OneClientInvariant, PTL DEF Spec
  <2>3. QED
    BY <2>2 DEF A, StateWritten
<1>3. QED
  BY <1>2

\* With one RPC thread the chain behaves like the Ledger.
THEOREM LedgerImplemented == OneClient /\ Spec => ImplementsLedger
<1>1. Init => Chain!Init
  BY DEF Init, Chain!Init, Genesis
<1>2. ASSUME OneClient, BatcherInv, CandidateInv, [Next]_vars PROVE [Chain!Next]_(Chain!vars)
  <2>1. CASE UNCHANGED <<written, states, head>>
    BY <2>1 DEF Chain!vars
  <2>2. ASSUME NEW b, NEW root \in SUBSET Txs, Grounded(b), WriteBlock(b, root),
               root = Root(b) \/ Unsettled
        PROVE  Chain!Next
    <3>1. /\ Parent(b) \in written /\ b = Append(Parent(b), Last(b))
          /\ Last(b) \in Payload /\ Root(b) = Last(b).root
      BY <2>2, ParentLemma DEF Grounded, Genesis
    <3>2. Len(head') >= Len(head) /\ head' \in {head, b}
      <4>1. head' \in {head, b}
        BY <2>2 DEF WriteBlock
      <4>2. Number(head) <= Number(head')
        BY <2>2, WriteLemma, <1>2
      <4>3. Len(head) \in Nat /\ Len(head') \in Nat
        BY <2>2, <4>1, <1>2 DEF BatcherInv, TypeOK, ChainType, Grounded, Block
      <4>4. QED
        BY <4>1, <4>2, <4>3 DEF Number
    <3>3. Chain!Extend(Parent(b), Last(b), root) /\ root \in states'
      BY <2>2, <3>1, <3>2 DEF Chain!Extend, WriteBlock
    <3>4. root = RootOf(Last(b)) \/ Unsettled
      BY <2>2, <3>1 DEF RootOf
    <3>5. QED
      BY <3>1, <3>3, <3>4 DEF Chain!Next
  <2>3. QED
    BY <1>2, <2>1, <2>2, ChainSteps DEF vars, chainVars
<1>3. CASE OneClient
  <2>1. BatcherInv /\ CandidateInv /\ [Next]_vars => [Chain!Next]_(Chain!vars)
    BY <1>2, <1>3
  <2>2. QED
    BY <1>1, <1>3, <2>1, BatcherInvariant, OneClientInvariant, PTL DEF Spec, ImplementsLedger, Chain!Spec
<1>4. QED
  BY <1>3

-----------------------------------------------------------------------------
(* A producer alone on its chain                                           *)

\* The setting of a behaviour stays what it was.
LEMMA SettingStep ==
    ASSUME BatcherInv, BatcherInv', [Next]_vars
    PROVE  /\ outside' = outside
           /\ starts \in Nat
           /\ starts' = starts \/ (StartBatching /\ starts' = starts + 1)
           /\ Undisturbed' => Undisturbed
<1>1. starts \in Nat
  BY ConstantsAssumption DEF BatcherInv, TypeOK, InputType
<1>2. outside' = outside /\ (starts' = starts \/ (StartBatching /\ starts' = starts + 1))
  <2>1. CASE Background
    BY <2>1 DEF Background, ImportBlock, TxArrives, StartBatching, StopBatching, Stop,
       RecommitTick, NewWorkLoop, NewWorkTakesStart, NewWorkTakesHead, NewWorkInterrupts,
       NewWorkHandsOver, NewWorkStops, MainLoop, MainPrepares, MainExecutes, MainPublishes,
       MainStops, inputVars
  <2>2. ASSUME NEW c \in Clients,
               SealBlock(c) \/ (\E n \in 0 .. MaxHeight - 1 : BuildBlock(c, n)) \/ RpcStep(c)
        PROVE  UNCHANGED inputVars
    BY <2>2 DEF SealBlock, BuildBlock, RpcStep, BuildChecks, BuildMarks, BuildUpdates,
       BuildCopies, BuildAssembles, BuildSnapshots, BuildReturns, SealAttaches, InsertChecks,
       InsertWrites
  <2>3. CASE UNCHANGED vars
    BY <2>3 DEF vars, inputVars
  <2>4. QED
    BY <2>1, <2>2, <2>3 DEF Next, Environs, Background, inputVars
<1>3. QED
  BY <1>1, <1>2 DEF Undisturbed

\* The number of requests under way.
LEMMA RequestsLemma ==
    ASSUME BatcherInv
    PROVE  /\ startCh \in {0, 1} /\ chainHeadCh \in Nat /\ Requests \in Nat
           /\ Requests = 0 <=>
                 /\ startCh = 0 /\ chainHeadCh = 0 /\ newWorkPc \notin {"interrupt", "send"}
                 /\ mainPc \notin {"prepare", "execute", "publish"}
<1>1. startCh \in {0, 1} /\ chainHeadCh \in Nat
  BY ConstantsAssumption DEF BatcherInv, TypeOK, ChainType, InputType
<1>2. Requests \in Nat
  BY <1>1 DEF Requests
<1>3. Requests = 0 <=>
        /\ startCh = 0 /\ chainHeadCh = 0 /\ newWorkPc \notin {"interrupt", "send"}
        /\ mainPc \notin {"prepare", "execute", "publish"}
  BY <1>1 DEF Requests
<1>4. QED
  BY <1>1, <1>2, <1>3

\* It is a number after a step, too.
LEMMA RequestsNext == ASSUME BatcherInv' PROVE Requests' \in Nat
<1>1. startCh' \in Nat /\ chainHeadCh' \in Nat
  BY ConstantsAssumption DEF BatcherInv, TypeOK, ChainType, InputType
<1>2. /\ (IF newWorkPc' \in {"interrupt", "send"} THEN 1 ELSE 0) \in Nat
      /\ (IF mainPc' \in {"prepare", "execute", "publish"} THEN 1 ELSE 0) \in Nat
  OBVIOUS
<1>3. \A a, b, m, n \in Nat : a + b + m + n \in Nat
  OBVIOUS
<1>4. QED
  BY <1>1, <1>2, <1>3, Zenon DEF Requests

\* A step of the loops or of the surroundings leaves every call as it was, when no
\* request appears and the environment stands still as long as there is none.
LEMMA QuietCalls ==
    ASSUME Undisturbed, LoneInv, UNCHANGED rpcVars, UNCHANGED <<written, states, head>>,
           starts' = 0 => starts = 0,
           starts = 0 \/ (Requests = 0 => Requests' = 0 /\ UNCHANGED currentenv)
    PROVE  LoneCallInv' /\ BuildsChild' /\ BlocksSound' /\ FlagMeansBuilding'
<1>1. UNCHANGED <<building, rpcPc, rpcNum, rpcCopy, rpcBlock, rpcHash, reply>>
  BY DEF rpcVars
<1>2. LoneCallInv /\ BuildsChild /\ BlocksSound /\ FlagMeansBuilding
  BY DEF LoneInv
<1>3. BuildsChild' /\ FlagMeansBuilding'
  BY <1>1, <1>2 DEF BuildsChild, FlagMeansBuilding
<1>4. BlocksSound'
  BY <1>2 DEF BlocksSound
<1>5. ASSUME NEW c \in Clients PROVE LoneCall(c)'
  <2>1. LoneCall(c)
    BY <1>2 DEF LoneCallInv
  <2>2. CASE starts = 0
    BY <1>1, <2>1, <2>2 DEF LoneCall, BuildPcs
  <2>3. CASE Requests = 0 /\ Requests' = 0 /\ UNCHANGED currentenv
    BY <1>1, <2>1, <2>3 DEF LoneCall
  <2>4. CASE starts # 0 /\ Requests # 0
    BY <1>1, <2>1, <2>4 DEF LoneCall, BuildPcs
  <2>5. QED
    BY <2>2, <2>3, <2>4
<1>6. QED
  BY <1>3, <1>4, <1>5 DEF LoneCallInv

\* Execute keeps an environment free of transactions its parent's state holds.
LEMMA ExecuteFresh ==
    ASSUME NEW env \in Environment, ~env.partial, env.txs \cap Root(env.parent) = {},
           NEW t \in Txs
    PROVE  /\ Execute(env, t) \in Environment /\ Execute(env, t).parent = env.parent
           /\ ~Execute(env, t).partial
           /\ Execute(env, t).txs \cap Root(env.parent) = {}
<1>1. Execute(env, t) \in Environment /\ Execute(env, t).parent = env.parent
  BY EnvLemma
<1>2. CASE t \in EnvRoot(env)
  BY <1>1, <1>2 DEF Execute
<1>3. CASE t \notin EnvRoot(env)
  <2>1. Execute(env, t).txs = env.txs \cup {t} /\ Execute(env, t).partial = env.partial
    BY <1>3 DEF Execute, Environment
  <2>2. t \notin Root(env.parent)
    BY <1>3 DEF EnvRoot
  <2>3. QED
    BY <1>1, <2>1, <2>2
<1>4. QED
  BY <1>2, <1>3

\* The surroundings of a lone producer: the one start makes the first request.
LEMMA LoneInputs ==
    ASSUME Undisturbed, Undisturbed', BatcherInv, BatcherInv', LoneInv, [Next]_vars,
           ImportBlock \/ TxArrives \/ StartBatching \/ StopBatching \/ Stop \/ RecommitTick
    PROVE  LoneInv'
<1>1. RequestInv /\ LoneCallInv /\ SnapshotComplete
  BY DEF LoneInv
<1>2. ~ImportBlock
  BY DEF ImportBlock, Undisturbed
<1>3. UNCHANGED <<written, states, head, chainHeadCh, newWorkPc, mainPc, interrupt>> /\ UNCHANGED rpcVars
      /\ UNCHANGED currentenv /\ UNCHANGED snapshot
  BY <1>2 DEF TxArrives, StartBatching, StopBatching, Stop, RecommitTick, chainVars, loopVars,
     workVars, newTxs
<1>4. CASE StartBatching
  <2>1. starts = 0 /\ starts' = 1
    BY <1>4, SettingStep DEF StartBatching, Undisturbed
  <2>2. Requests = 0 /\ snapshot = None /\ startCh' = 1
    BY <1>1, <1>4, <2>1 DEF RequestInv, StartBatching
  <2>3. /\ chainHeadCh = 0 /\ newWorkPc \notin {"interrupt", "send"}
        /\ mainPc \notin {"prepare", "execute", "publish"}
    BY <2>2, RequestsLemma
  <2>4. Requests' = 1
    BY <1>3, <2>2, <2>3 DEF Requests
  <2>5. RequestInv'
    BY <1>1, <1>3, <2>1, <2>2, <2>3, <2>4 DEF RequestInv, SnapshotAbove
  <2>6. QED
    BY <1>3, <2>1, <2>2, <2>5, QuietCalls DEF LoneInv, SnapshotComplete
<1>5. CASE ~StartBatching
  <2>1. startCh' = startCh /\ starts' = starts
    BY <1>2, <1>5 DEF TxArrives, StopBatching, Stop, RecommitTick, inputVars
  <2>2. Requests' = Requests
    BY <1>3, <2>1 DEF Requests
  <2>3. RequestInv'
    BY <1>1, <1>3, <2>1, <2>2 DEF RequestInv, SnapshotAbove
  <2>4. QED
    BY <1>1, <1>3, <2>1, <2>2, <2>3, QuietCalls DEF LoneInv, SnapshotComplete
<1>6. QED
  BY <1>4, <1>5

\* newWorkLoop passes the one request on, or drops it on its way to the end.
LEMMA LoneNewWork ==
    ASSUME Undisturbed, Undisturbed', BatcherInv, BatcherInv', LoneInv, [Next]_vars, NewWorkLoop
    PROVE  LoneInv'
<1>1. RequestInv /\ LoneCallInv /\ SnapshotComplete /\ FlagMeansBuilding
  BY DEF LoneInv
<1> USE DEF NewWorkTakesStart, NewWorkTakesHead, NewWorkInterrupts, NewWorkHandsOver,
            NewWorkStops, ClearPending
<1>2. /\ UNCHANGED <<written, states, head, starts, currentenv>> /\ UNCHANGED rpcVars
      /\ snapshot' \in {snapshot, None}
  BY DEF NewWorkLoop, chainVars, inputVars, workVars
<1>3. Requests \in Nat /\ Requests <= 1
  BY <1>1, RequestsLemma DEF RequestInv
<1>4. Requests' \in Nat /\ Requests' <= Requests
  <2>1. Requests' \in Nat
    BY RequestsNext
  <2>2. CASE NewWorkTakesStart
    <3>1. ~building
      <4>1. Requests # 0
        BY <2>2, RequestsLemma
      <4>2. QED
        BY <1>1, <4>1 DEF FlagMeansBuilding, LoneCallInv, LoneCall
    <3>2. startCh = 1 /\ startCh' = 0 /\ newWorkPc = "select" /\ newWorkPc' = "interrupt"
          /\ UNCHANGED <<chainHeadCh, mainPc>>
      BY <2>2, <3>1 DEF chainVars
    <3>3. QED
      BY <2>1, <3>2, RequestsLemma DEF Requests
  <2>3. CASE NewWorkTakesHead
    BY <2>1, <2>3, RequestsLemma DEF Requests, inputVars
  <2>4. CASE NewWorkInterrupts \/ NewWorkHandsOver \/ NewWorkStops
    <3>1. UNCHANGED <<startCh, chainHeadCh>>
      BY <2>4 DEF chainVars, inputVars
    <3>2. QED
      BY <2>1, <2>4, <3>1, RequestsLemma DEF Requests
  <2>5. QED
    BY <2>2, <2>3, <2>4 DEF NewWorkLoop
<1>5. mainPc' \in {"prepare", "execute", "publish"} => interrupt' = "none"
  <2>1. CASE NewWorkInterrupts
    <3>1. newWorkPc = "interrupt" /\ mainPc' = mainPc
      BY <2>1
    <3>2. mainPc \notin {"prepare", "execute", "publish"}
      BY <1>3, <3>1, RequestsLemma DEF Requests
    <3>3. QED
      BY <3>1, <3>2
  <2>2. CASE NewWorkHandsOver
    BY <2>2
  <2>3. CASE NewWorkTakesStart \/ NewWorkTakesHead \/ NewWorkStops
    BY <1>1, <2>3 DEF RequestInv
  <2>4. QED
    BY <2>1, <2>2, <2>3 DEF NewWorkLoop
<1>6. mainPc' \in {"execute", "publish"} => mainPc \in {"execute", "publish"}
  BY DEF NewWorkLoop
<1>7. Requests = 0 => Requests' = 0
  BY <1>3, <1>4
<1>8. RequestInv'
  BY <1>1, <1>2, <1>3, <1>4, <1>5, <1>6, <1>7 DEF RequestInv, SnapshotAbove
<1>9. SnapshotComplete'
  BY <1>1, <1>2 DEF SnapshotComplete
<1>10. QED
  BY <1>2, <1>7, <1>8, <1>9, QuietCalls DEF LoneInv

\* mainLoop works on the head as long as the request is there, and the calls wait.
LEMMA LoneMain ==
    ASSUME Undisturbed, Undisturbed', BatcherInv, BatcherInv', LoneInv,
           [Next]_vars, MainLoop
    PROVE  LoneInv'
<1>1. RequestInv /\ LoneCallInv /\ SnapshotComplete
  BY DEF LoneInv
<1>2. /\ UNCHANGED chainVars /\ UNCHANGED inputVars /\ UNCHANGED rpcVars
      /\ UNCHANGED <<newWorkPc, interrupt, written, states, head, starts, startCh, chainHeadCh>>
  BY DEF MainLoop, MainPrepares, MainExecutes, MainPublishes, MainStops, chainVars, inputVars
<1>3. Requests \in Nat /\ Requests <= 1 /\ Requests' \in Nat
  BY <1>1, RequestsLemma, RequestsNext DEF RequestInv
<1>4. CASE MainStops
  <2>1. mainPc = "select" /\ mainPc' = "quit" /\ UNCHANGED workVars
    BY <1>4 DEF MainStops
  <2>2. Requests' = Requests
    BY <1>2, <2>1 DEF Requests
  <2>3. RequestInv' /\ SnapshotComplete'
    BY <1>1, <1>2, <2>1, <2>2 DEF RequestInv, SnapshotAbove, SnapshotComplete, workVars
  <2>4. QED
    BY <1>2, <2>1, <2>2, <2>3, QuietCalls DEF LoneInv, workVars
<1>5. ASSUME mainPc \in {"prepare", "execute", "publish"}, Requests' <= 1,
             currentenv' \in Environment, currentenv'.parent = head, ~currentenv'.partial,
             currentenv'.txs \cap Root(head) = {},
             \/ snapshot' = snapshot
             \/ snapshot' = currentenv' /\ Requests' = 0,
             mainPc' \in {"execute", "publish", "select"}
      PROVE  LoneInv'
  <2>1. Requests = 1 /\ starts # 0 /\ interrupt = "none"
    BY <1>1, <1>3, <1>5, RequestsLemma DEF RequestInv
  <2>2. ~SnapshotAbove(Number(head))
    BY <1>1, <2>1 DEF RequestInv
  <2>3. RequestInv'
    BY <1>2, <1>5, <2>1, <2>2 DEF RequestInv, SnapshotAbove
  <2>4. SnapshotComplete'
    BY <1>1, <1>5 DEF SnapshotComplete
  <2>5. QED
    BY <1>2, <2>1, <2>3, <2>4, QuietCalls DEF LoneInv
<1>6. CASE MainPrepares
  <2>1. Root(head) \in states
    BY DEF LoneInv, BlocksSound, BatcherInv, TreeInv
  <2>2. /\ mainPc = "prepare" /\ mainPc' = "execute" /\ snapshot' = snapshot
        /\ currentenv' = [parent |-> head, txs |-> {}, partial |-> FALSE]
    BY <1>6, <2>1 DEF MainPrepares
  <2>3. Requests' = Requests
    BY <1>2, <2>2 DEF Requests
  <2>4. currentenv' \in Environment
    BY <2>2 DEF BatcherInv, TypeOK, ChainType, Environment
  <2>5. QED
    BY <1>3, <1>5, <2>2, <2>3, <2>4
<1>7. CASE MainExecutes
  <2>1. /\ interrupt = "none" /\ currentenv \in Environment /\ currentenv.parent = head
        /\ ~currentenv.partial /\ currentenv.txs \cap Root(currentenv.parent) = {}
    BY <1>1, <1>7, NoneAssumption DEF RequestInv, MainExecutes
  <2>2. mainPc = "execute" /\ mainPc' \in {"execute", "publish"} /\ snapshot' = snapshot
    BY <1>7 DEF MainExecutes
  <2>3. Requests' = Requests
    BY <1>2, <2>2 DEF Requests
  <2>4. currentenv' = currentenv \/ \E t \in Txs : currentenv' = Execute(currentenv, t)
    BY <1>7, <2>1 DEF MainExecutes, BatcherInv, TypeOK, LoopType
  <2>5. /\ currentenv' \in Environment /\ currentenv'.parent = head /\ ~currentenv'.partial
        /\ currentenv'.txs \cap Root(head) = {}
    BY <2>1, <2>4, ExecuteFresh
  <2>6. QED
    BY <1>3, <1>5, <2>2, <2>3, <2>5
<1>8. CASE MainPublishes
  <2>1. /\ currentenv \in Environment /\ currentenv.parent = head
        /\ ~currentenv.partial /\ currentenv.txs \cap Root(currentenv.parent) = {}
    BY <1>1, <1>8, NoneAssumption DEF RequestInv, MainPublishes
  <2>2. /\ mainPc = "publish" /\ mainPc' = "select" /\ snapshot' = currentenv
        /\ currentenv' = currentenv
    BY <1>8 DEF MainPublishes
  <2>3. Requests' = Requests - 1 /\ Requests = 1
    BY <1>2, <1>3, <2>2, RequestsLemma DEF Requests
  <2>4. QED
    BY <1>3, <1>5, <2>1, <2>2, <2>3
<1>9. QED
  BY <1>4, <1>6, <1>7, <1>8 DEF MainLoop

\* The block Append makes ends with the payload; sealing changes but its extra data.
LEMMA AppendLast ==
    ASSUME NEW b \in Block, NEW d \in Payload
    PROVE  Last(Append(b, d)) = d
  BY DEF Block, Last

LEMMA SealSound ==
    ASSUME NEW b \in Block, b # <<>>, NEW p \in Proofs, Sound(b)
    PROVE  Sound(Seal(b, p))
<1> DEFINE d == [Last(b) EXCEPT !.extra = p]
<1>1. Len(b) \in 1 .. Len(b) /\ Last(b) \in Payload
  BY ParentLemma
<1>2. d \in Payload /\ d.txs = Last(b).txs
  BY <1>1 DEF Payload
<1>3. Seal(b, p) = [b EXCEPT ![Len(b)] = d]
  BY DEF Seal, Last
<1>4. Len(Seal(b, p)) = Len(b) /\ Seal(b, p)[Len(b)] = d
  BY <1>1, <1>2, <1>3, ExceptSeq DEF Block
<1>5. Last(Seal(b, p)).txs = Last(b).txs
  BY <1>2, <1>4 DEF Last
<1>6. /\ Parent(Seal(b, p)) = Parent(b)
      /\ Last(Seal(b, p)).root = Root(Seal(b, p)) /\ Root(Seal(b, p)) = Root(b)
      /\ Last(b).root = Root(b)
  BY SealLemma, ParentLemma
<1>7. QED
  BY <1>5, <1>6 DEF Sound

\* The steps of a call but the last of a SealBlock.
LEMMA LoneCallStep ==
    ASSUME Undisturbed, BatcherInv, BatcherInv', CandidateInv, LoneInv, NEW c \in Clients,
           \/ SealBlock(c) \/ (\E n \in 0 .. MaxHeight - 1 : BuildBlock(c, n))
           \/ RpcStep(c) /\ ~InsertWrites(c)
    PROVE  LoneInv'
<1>1. /\ RequestInv /\ LoneCallInv /\ BuildsChild /\ BlocksSound /\ FlagMeansBuilding
      /\ SnapshotComplete
  BY DEF LoneInv
<1>2. UNCHANGED <<written, states, head, starts, startCh, chainHeadCh, newWorkPc, mainPc, interrupt>>
  BY DEF SealBlock, BuildBlock, RpcStep, BuildChecks, BuildMarks, BuildUpdates, BuildCopies,
     BuildAssembles, BuildSnapshots, BuildReturns, SealAttaches, InsertChecks, chainVars,
     inputVars, loopVars
<1>3. Requests' = Requests
  BY <1>2 DEF Requests
<1>4. RpcType /\ RpcType'
  BY DEF BatcherInv, TypeOK
<1>5. /\ LoneCall(c)
      /\ reply[c] = "built" => Number(rpcHash[c]) = rpcNum[c] + 1
      /\ building <=> rpcPc[c] \in BuildPcs
  BY <1>1 DEF LoneCallInv, BuildsChild, FlagMeansBuilding, Undisturbed
<1>6. SUFFICES /\ RequestInv' /\ SnapshotComplete' /\ LoneCall(c)'
               /\ reply'[c] = "built" => Number(rpcHash'[c]) = rpcNum'[c] + 1
               /\ building' <=> rpcPc'[c] \in BuildPcs
  <2>1. BlocksSound'
    BY <1>1, <1>2 DEF BlocksSound
  <2>2. \A d \in Clients : d = c
    BY DEF Undisturbed
  <2>3. QED
    BY <1>6, <2>1, <2>2 DEF LoneInv, LoneCallInv, BuildsChild, FlagMeansBuilding
<1>7. UNCHANGED <<currentenv, snapshot>> => RequestInv' /\ SnapshotComplete'
  BY <1>1, <1>2, <1>3 DEF RequestInv, SnapshotAbove, SnapshotComplete
<1>8. starts = 0 => rpcPc[c] \in {"idle", "check"} /\ rpcHash[c] = None /\ snapshot = None
  BY <1>1, <1>5 DEF LoneCall, RequestInv
<1> USE DEF Goto, Answer, RpcType, BuildPcs
<1>9. CASE \E n \in 0 .. MaxHeight - 1 : BuildBlock(c, n)
  BY <1>2, <1>3, <1>4, <1>5, <1>7, <1>9 DEF BuildBlock, LoneCall, workVars
<1>10. CASE BuildChecks(c)
  BY <1>1, <1>2, <1>3, <1>4, <1>5, <1>7, <1>8, <1>10
     DEF BuildChecks, LoneCall, RequestInv, workVars, SnapshotAbove
<1>11. CASE BuildMarks(c)
  BY <1>2, <1>3, <1>4, <1>5, <1>7, <1>8, <1>11 DEF BuildMarks, MarkFlag, LoneCall, workVars
<1>12. CASE BuildUpdates(c)
  <2>1. /\ Requests = 0 /\ rpcPc[c] = "update" /\ rpcNum[c] = Number(head)
        /\ currentenv \in Environment /\ currentenv.parent = head
    BY <1>5, <1>12 DEF BuildUpdates, LoneCall, BatcherInv, BuildInv
  <2>2. ~currentenv.partial /\ currentenv.txs \cap Root(head) = {}
    BY <1>1, <2>1, NoneAssumption DEF RequestInv
  <2>3. currentenv' = currentenv \/ \E t \in Txs : currentenv' = Execute(currentenv, t)
    BY <1>4, <1>12 DEF BuildUpdates
  <2>4. /\ currentenv' \in Environment /\ currentenv'.parent = head /\ ~currentenv'.partial
        /\ currentenv'.txs \cap Root(head) = {}
    BY <2>1, <2>2, <2>3, ExecuteFresh
  <2>5. /\ rpcPc'[c] \in {"update", "copy"} /\ snapshot' = snapshot
        /\ UNCHANGED <<building, rpcNum, rpcBlock, rpcHash, reply>>
    BY <1>4, <1>12 DEF BuildUpdates
  <2>6. mainPc \notin {"prepare", "execute", "publish"}
    BY <2>1, RequestsLemma
  <2>7. RequestInv' /\ SnapshotComplete'
    BY <1>1, <1>2, <1>3, <2>1, <2>4, <2>5, <2>6 DEF RequestInv, SnapshotAbove, SnapshotComplete
  <2>8. LoneCall(c)'
    BY <1>2, <1>3, <1>5, <2>1, <2>4, <2>5 DEF LoneCall
  <2>9. QED
    BY <1>5, <2>1, <2>5, <2>7, <2>8
<1>13. CASE BuildCopies(c)
  BY <1>2, <1>3, <1>4, <1>5, <1>7, <1>8, <1>13 DEF BuildCopies, LoneCall, workVars
<1>14. CASE BuildAssembles(c)
  <2> DEFINE block == Assemble(currentenv, rpcCopy[c].root)
             d     == [txs |-> currentenv.txs, root |-> rpcCopy[c].root, extra |-> DummyExtra]
  <2>1. /\ Requests = 0 /\ rpcPc[c] = "assemble" /\ rpcNum[c] = Number(head)
        /\ currentenv \in Environment /\ currentenv.parent = head
        /\ rpcCopy[c] = [receipts |-> currentenv.txs, root |-> EnvRoot(currentenv)]
    BY <1>5, <1>14 DEF BuildAssembles, LoneCall, BatcherInv, BuildInv
  <2>2. currentenv.txs \cap Root(head) = {} /\ rpcCopy[c].root = Root(head) \cup currentenv.txs
    BY <1>1, <2>1, NoneAssumption DEF RequestInv, EnvRoot
  <2>3. d \in Payload /\ block = Append(head, d)
    <3>1. rpcCopy[c].root \in SUBSET Txs
      BY <1>4
    <3>2. QED
      BY <2>1, <3>1, EnvLemma
  <2>4. d.txs = currentenv.txs /\ d.root = rpcCopy[c].root
    OBVIOUS
  <2>5. head \in Block
    BY DEF BatcherInv, TypeOK, ChainType
  <2>6. /\ rpcPc' = [rpcPc EXCEPT ![c] = "snapshot"] /\ rpcBlock'[c] = block
        /\ UNCHANGED <<currentenv, snapshot, building, rpcNum, rpcCopy, rpcHash, reply>>
    BY <1>4, <1>14 DEF BuildAssembles
  <2> HIDE DEF block, d
  <2>7. Parent(block) = head /\ Last(block) = d
    BY <2>3, <2>5, AppendLemma, AppendLast
  <2>8. Sound(block) /\ Last(block).txs = rpcCopy[c].receipts
    BY <2>1, <2>2, <2>4, <2>7 DEF Sound
  <2>9. LoneCall(c)'
    BY <1>2, <1>3, <1>4, <1>5, <1>8, <2>1, <2>6, <2>7, <2>8 DEF LoneCall
  <2>10. QED
    BY <1>4, <1>5, <1>7, <2>1, <2>6, <2>9
<1>15. CASE BuildSnapshots(c)
  <2> DEFINE txs == rpcCopy[c].receipts
  <2>1. /\ Requests = 0 /\ rpcPc[c] = "snapshot" /\ rpcNum[c] = Number(head)
        /\ currentenv \in Environment /\ currentenv.parent = head
        /\ Last(rpcBlock[c]).txs = txs
    BY <1>5, <1>15 DEF BuildSnapshots, LoneCall, BatcherInv, BuildInv
  <2>2. ~(Cardinality(txs) > Cardinality(txs))
    <3>1. txs \in SUBSET Txs
      BY <1>4
    <3>2. Cardinality(txs) \in Nat
      BY <3>1, FS_Subset, FS_CardinalityType, ConstantsAssumption
    <3>3. QED
      BY <3>2
  <2>3. /\ rpcPc' = [rpcPc EXCEPT ![c] = "return"] /\ snapshot' = currentenv
        /\ UNCHANGED <<currentenv, building, rpcNum, rpcBlock, rpcHash, reply>>
    BY <1>15, <2>1, <2>2 DEF BuildSnapshots
  <2>4. RequestInv' /\ SnapshotComplete'
    BY <1>1, <1>2, <1>3, <1>8, <2>1, <2>3 DEF RequestInv, SnapshotComplete
  <2>5. LoneCall(c)'
    BY <1>2, <1>3, <1>4, <1>5, <1>8, <2>1, <2>3 DEF LoneCall
  <2>6. QED
    BY <1>4, <1>5, <2>1, <2>3, <2>4, <2>5
<1>16. CASE BuildReturns(c)
  <2>1. /\ Requests = 0 /\ rpcPc[c] = "return" /\ rpcNum[c] = Number(head)
        /\ Parent(rpcBlock[c]) = head /\ Sound(rpcBlock[c])
        /\ rpcBlock[c] \in Block /\ rpcBlock[c] # <<>>
    BY <1>5, <1>16 DEF BuildReturns, LoneCall, BatcherInv, BuildInv, Grounded, Genesis
  <2>2. Number(rpcBlock[c]) = rpcNum[c] + 1
    BY <2>1, ParentLemma DEF Number
  <2>3. /\ rpcPc' = [rpcPc EXCEPT ![c] = "idle"] /\ building' = FALSE
        /\ rpcHash'[c] = rpcBlock[c]
        /\ UNCHANGED <<currentenv, snapshot, rpcNum>>
    BY <1>4, <1>16 DEF BuildReturns, workVars
  <2>4. LoneCall(c)'
    BY <1>2, <1>3, <1>4, <1>8, <2>1, <2>3 DEF LoneCall
  <2>5. QED
    BY <1>4, <1>7, <2>2, <2>3, <2>4
<1>17. CASE SealBlock(c)
  BY <1>2, <1>3, <1>4, <1>5, <1>7, <1>17 DEF SealBlock, LoneCall, workVars
<1>18. CASE \E p \in Proofs : SealAttaches(c, p)
  BY <1>2, <1>3, <1>4, <1>5, <1>7, <1>8, <1>18 DEF SealAttaches, LoneCall, workVars
<1>19. CASE InsertChecks(c)
  BY <1>2, <1>3, <1>4, <1>5, <1>7, <1>8, <1>19 DEF InsertChecks, LoneCall, workVars
<1>20. QED
  BY <1>9, <1>10, <1>11, <1>12, <1>13, <1>14, <1>15, <1>16, <1>17, <1>18, <1>19 DEF RpcStep

\* The last step of a SealBlock: the candidate becomes the head, or another block
\* already has its height.
LEMMA LoneWrite ==
    ASSUME Undisturbed, BatcherInv, BatcherInv', CandidateInv, LoneInv, NEW c \in Clients,
           InsertWrites(c)
    PROVE  LoneInv'
<1>1. /\ RequestInv /\ LoneCallInv /\ BuildsChild /\ BlocksSound /\ FlagMeansBuilding
      /\ SnapshotComplete
  BY DEF LoneInv
<1>2. /\ rpcPc[c] = "write" /\ rpcPc' = [rpcPc EXCEPT ![c] = "idle"]
      /\ UNCHANGED <<starts, startCh, newWorkPc, mainPc, interrupt, currentenv, snapshot,
                     building, rpcNum, rpcHash>>
  BY DEF InsertWrites, Answer, Goto, inputVars, loopVars, workVars
<1>3. RpcType /\ RpcType'
  BY DEF BatcherInv, TypeOK
<1>4. reply'[c] \in {"sealed", "panic"}
  BY <1>3 DEF InsertWrites, Answer, RpcType
<1>5. LoneCall(c) /\ ~building /\ starts # 0
  BY <1>1, <1>2 DEF LoneCallInv, LoneCall, FlagMeansBuilding, BuildPcs, Undisturbed
<1>6. SUFFICES RequestInv' /\ SnapshotComplete' /\ LoneCall(c)' /\ BlocksSound'
  <2>1. \A d \in Clients : d = c
    BY DEF Undisturbed
  <2>2. BuildsChild' /\ FlagMeansBuilding'
    BY <1>2, <1>3, <1>4, <1>5, <2>1 DEF BuildsChild, FlagMeansBuilding, RpcType, BuildPcs
  <2>3. QED
    BY <1>6, <2>1, <2>2 DEF LoneInv, LoneCallInv
<1>7. SnapshotComplete'
  BY <1>1, <1>2 DEF SnapshotComplete
<1>8. PICK p \in Proofs : rpcBlock[c] = Seal(cblock, p)
  BY <1>2 DEF CandidateInv
<1>9. /\ cblock = rpcHash[c] /\ rpcHash[c] # None
      /\ cblock \in Block /\ cblock # <<>> /\ Sound(cblock)
  BY <1>2, <1>5 DEF CandidateInv, LoneCall, BatcherInv, SealInv, Grounded, Genesis
<1>10. /\ Sound(rpcBlock[c]) /\ Number(rpcBlock[c]) = Number(cblock)
  BY <1>8, <1>9, SealSound, SealLemma DEF Number
<1>11. /\ written' \subseteq written \cup {rpcBlock[c]}
       /\ \/ UNCHANGED <<head, chainHeadCh>>
          \/ /\ head' = rpcBlock[c] /\ Number(rpcBlock[c]) > Number(head)
             /\ chainHeadCh' \in {chainHeadCh, chainHeadCh + 1}
  BY DEF InsertWrites, WriteBlock, MayBecomeHead, MustBecomeHead, Undisturbed, chainVars
<1>12. BlocksSound'
  <2>1. states \subseteq states' /\ (written' = written \/ Root(rpcBlock[c]) \in states')
    <3>1. CASE UNCHANGED chainVars
      BY <3>1 DEF chainVars
    <3>2. CASE pendingTask # None /\ WriteBlock(rpcBlock[c], Root(pendingTask))
      <4>1. pendingTask = cblock
        BY <1>5, <3>2 DEF CandidateInv
      <4>2. Root(rpcBlock[c]) = Root(pendingTask)
        BY <1>8, <1>9, <4>1, SealLemma
      <4>3. QED
        BY <3>2, <4>2 DEF WriteBlock
    <3>3. QED
      BY <3>1, <3>2 DEF InsertWrites, TaskState
  <2>2. QED
    BY <1>1, <1>10, <1>11, <2>1 DEF BlocksSound
<1>13. CASE UNCHANGED <<head, chainHeadCh>>
  <2>1. Requests' = Requests
    BY <1>2, <1>13 DEF Requests
  <2>2. RequestInv'
    BY <1>1, <1>2, <1>13, <2>1 DEF RequestInv, SnapshotAbove
  <2>3. LoneCall(c)'
    BY <1>2, <1>3, <1>5, <1>13, <2>1 DEF LoneCall, RpcType, BuildPcs
  <2>4. QED
    BY <1>7, <1>12, <2>2, <2>3
<1>14. CASE /\ head' = rpcBlock[c] /\ Number(rpcBlock[c]) > Number(head)
            /\ chainHeadCh' \in {chainHeadCh, chainHeadCh + 1}
  <2>1. Requests = 0 /\ Parent(cblock) = head
    BY <1>5, <1>9, <1>10, <1>14 DEF LoneCall
  <2>2. /\ startCh = 0 /\ chainHeadCh = 0 /\ newWorkPc \notin {"interrupt", "send"}
        /\ mainPc \notin {"prepare", "execute", "publish"}
    BY <2>1, RequestsLemma
  <2>3. Requests' <= 1
    <3>1. chainHeadCh' = 0 => Requests' = 0
      BY <1>2, <2>2 DEF Requests
    <3>2. chainHeadCh' = 1 => Requests' = 1
      BY <1>2, <2>2 DEF Requests
    <3>3. chainHeadCh' = 0 \/ chainHeadCh' = 1
      BY <1>14, <2>2
    <3>4. QED
      BY <3>1, <3>2, <3>3
  <2>4. Number(head) \in Nat /\ Number(head') = Number(head) + 1
    <3>1. Number(cblock) \in Nat /\ Number(head) = Number(cblock) - 1 /\ Number(head) \in Nat
      BY <1>9, <2>1, ParentLemma DEF Number, BatcherInv, TypeOK, ChainType, Block
    <3>2. Number(cblock) = Number(head) + 1
      BY <3>1
    <3>3. QED
      BY <1>10, <1>14, <3>1, <3>2
  <2>5. snapshot # None => ~(EnvNumber(snapshot) > Number(head) + 1)
    <3>1. snapshot # None =>
            /\ snapshot \in Environment /\ currentenv \in Environment
            /\ EnvNumber(snapshot) <= EnvNumber(currentenv)
            /\ Number(currentenv.parent) <= Number(head)
      BY DEF BatcherInv, TypeOK, WorkType, EnvInv
    <3>2. \A env \in Environment : Number(env.parent) \in Nat
      BY DEF Environment, Number, Block
    <3>3. QED
      BY <2>4, <3>1, <3>2 DEF EnvNumber
  <2>6. ~SnapshotAbove(Number(head))'
    BY <1>2, <2>4, <2>5 DEF SnapshotAbove
  <2>7. RequestInv'
    BY <1>1, <1>2, <1>5, <2>2, <2>3, <2>6 DEF RequestInv
  <2>8. ~(Number(rpcHash[c]) > Number(head'))
    BY <1>9, <1>10, <1>14, <2>4
  <2>9. LoneCall(c)'
    BY <1>2, <1>3, <1>5, <1>9, <2>8 DEF LoneCall, RpcType, BuildPcs
  <2>10. QED
    BY <1>7, <1>12, <2>7, <2>9
<1>15. QED
  BY <1>11, <1>13, <1>14

\* Every step of a lone producer keeps LoneInv.
LEMMA LoneStep ==
    ASSUME BatcherInv, BatcherInv', CandidateInv, LoneInv, [Next]_vars
    PROVE  LoneInv'
<1> SUFFICES ASSUME Undisturbed' PROVE LoneInv'
  BY DEF LoneInv
<1>1. Undisturbed
  BY SettingStep
<1>2. CASE Background
  BY <1>1, <1>2, LoneInputs, LoneNewWork, LoneMain DEF Background
<1>3. ASSUME NEW c \in Clients,
             SealBlock(c) \/ (\E n \in 0 .. MaxHeight - 1 : BuildBlock(c, n)) \/ RpcStep(c)
      PROVE  LoneInv'
  BY <1>1, <1>3, LoneCallStep, LoneWrite
<1>4. CASE UNCHANGED vars
  <2>1. UNCHANGED rpcVars /\ UNCHANGED <<written, states, head, starts, currentenv>>
    BY <1>4 DEF vars, chainVars, inputVars, workVars
  <2>2. Requests' = Requests
    BY <1>4 DEF vars, chainVars, inputVars, loopVars, Requests
  <2>3. RequestInv' /\ SnapshotComplete'
    BY <1>1, <1>4, <2>2 DEF LoneInv, RequestInv, SnapshotAbove, SnapshotComplete, vars,
       chainVars, inputVars, loopVars, workVars
  <2>4. QED
    BY <1>1, <2>1, <2>2, <2>3, QuietCalls DEF LoneInv
<1>5. QED
  BY <1>2, <1>3, <1>4 DEF Next, Environs, Background

\* Nothing is under way at the start of a lone producer.
LEMMA LoneInit == Init => LoneInv
<1> SUFFICES ASSUME Init PROVE LoneInv
  OBVIOUS
<1>1. Requests = 0
  BY DEF Init, Requests
<1>2. RequestInv /\ LoneCallInv
  BY <1>1 DEF Init, RequestInv, LoneCallInv, LoneCall, SnapshotAbove, BuildPcs
<1>3. BuildsChild /\ BlocksSound /\ FlagMeansBuilding /\ SnapshotComplete
  BY DEF Init, BuildsChild, BlocksSound, FlagMeansBuilding, SnapshotComplete, BuildPcs, Root, Genesis
<1>4. QED
  BY <1>2, <1>3 DEF LoneInv

\* For a lone producer requests and calls never meet: LoneInv holds of every behaviour.
THEOREM LoneInvariant == Spec => []LoneInv
<1>1. CASE OneClient
  <2>1. BatcherInv /\ BatcherInv' /\ CandidateInv /\ LoneInv /\ [Next]_vars => LoneInv'
    BY LoneStep
  <2>2. QED
    BY <1>1, <2>1, LoneInit, BatcherInvariant, OneClientInvariant, PTL DEF Spec
<1>2. CASE ~OneClient
  <2>1. LoneInv
    BY <1>2 DEF LoneInv, Undisturbed, OneClient
  <2>2. QED
    BY <2>1, PTL
<1>3. QED
  BY <1>1, <1>2

\* BuildBlock answers a lone producer the child of the block it named.
THEOREM ChildBuilt == Spec => []BuildsChild
<1>1. LoneInv => BuildsChild
  BY DEF LoneInv, BuildsChild
<1>2. QED
  BY LoneInvariant, <1>1, PTL

\* Header, transactions and state of every block a lone producer writes agree.
THEOREM SoundWritten == Spec => []BlocksSound
<1>1. LoneInv => BlocksSound
  BY DEF LoneInv, BlocksSound
<1>2. QED
  BY LoneInvariant, <1>1, PTL

\* mainLoop and a call never work on the environment of a lone producer together.
THEOREM EnvironmentExclusive == Spec => []EnvExclusive
<1>1. ASSUME BatcherInv, LoneInv, Undisturbed
      PROVE  /\ mainPc \in {"execute", "publish"} => \A c \in Clients : ~UsingEnv(c)
             /\ \A c, d \in Clients : UsingEnv(c) /\ UsingEnv(d) => c = d
  <2>1. \A c \in Clients : UsingEnv(c) => Requests = 0
    BY <1>1 DEF LoneInv, LoneCallInv, LoneCall, UsingEnv, BuildPcs
  <2>2. Requests = 0 => mainPc \notin {"execute", "publish"}
    BY <1>1, RequestsLemma
  <2>3. QED
    BY <1>1, <2>1, <2>2 DEF Undisturbed
<1>2. BatcherInv /\ LoneInv => EnvExclusive
  BY <1>1 DEF EnvExclusive
<1>3. QED
  BY BatcherInvariant, LoneInvariant, <1>2, PTL

\* isBuildBlockProcessing is set exactly while a lone producer's call builds.
THEOREM FlagExact == Spec => []FlagMeansBuilding
<1>1. LoneInv => FlagMeansBuilding
  BY DEF LoneInv, FlagMeansBuilding
<1>2. QED
  BY LoneInvariant, <1>1, PTL

\* A lone producer never publishes work that a new head cut short.
THEOREM CompletePublished == Spec => []SnapshotComplete
<1>1. LoneInv => SnapshotComplete
  BY DEF LoneInv, SnapshotComplete
<1>2. QED
  BY LoneInvariant, <1>1, PTL
=============================================================================
