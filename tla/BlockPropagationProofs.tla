----------------------- MODULE BlockPropagationProofs -----------------------
(***************************************************************************)
(* What holds of BlockPropagation for any number of peers, blocks and      *)
(* broadcasting goroutines and any sizes of the sets and queues.  What a   *)
(* peer has heard of it does not lose again while its connection holds     *)
(* (HeardStays): everything marked as known was heard of, and everything   *)
(* a broadcast passed over was known when it began.                        *)
(***************************************************************************)
EXTENDS BlockPropagation, FiniteSetTheorems, TLAPS

\* The inductive invariant: that of the runs, with what it is to show.
IInv == PropagationInv /\ OwedIsHeard /\ QueuedOnce

-----------------------------------------------------------------------------
(* Types                                                                   *)

LEMMA MarkersAre ==
    /\ \A w \in Workers : <<"worker", w>> \in Markers
    /\ \A p \in Peers : <<"broadcaster", p>> \in Markers /\ <<"handler", p>> \in Markers
    /\ \A w \in Workers, p \in Peers :
          <<"worker", w>> # <<"broadcaster", p>> /\ <<"worker", w>> # <<"handler", p>>
    /\ \A p, q \in Peers : <<"broadcaster", p>> # <<"handler", q>>
    /\ \A v, w \in Workers : v # w => <<"worker", v>> # <<"worker", w>>
    /\ \A p, q \in Peers :
          p # q => <<"broadcaster", p>> # <<"broadcaster", q>> /\ <<"handler", p>> # <<"handler", q>>
  BY DEF Markers

\* A goroutine that is at a step of marking.
LEMMA MarkingRecord ==
    ASSUME TypeOK, NEW m \in Markers, mark[m].at \in {"room", "pop", "add"}
    PROVE  /\ mark[m] \in Marking /\ mark[m] # Unmarked
           /\ mark[m].peer \in Peers /\ mark[m].block \in Blocks
  BY DEF TypeOK, Marking, Unmarked

\* A goroutine that is not idle is at such a step.
LEMMA MarkingOf ==
    ASSUME TypeOK, NEW m \in Markers, mark[m] # Unmarked
    PROVE  mark[m] \in Marking /\ mark[m].peer \in Peers /\ mark[m].block \in Blocks
  BY DEF TypeOK, Marking

LEMMA MarkingIsNot == ASSUME NEW r \in Marking PROVE r # Unmarked
  BY DEF Marking, Unmarked

LEMMA TaskOf ==
    ASSUME TypeOK, NEW w \in Workers, task[w] # NoTask
    PROVE  /\ task[w] \in Task
           /\ task[w].kind \in Kinds /\ task[w].block \in Blocks
           /\ task[w].meant \subseteq Peers /\ task[w].todo \subseteq Peers
  BY DEF TypeOK, Task

LEMMA TaskIsNot == ASSUME NEW r \in Task PROVE r # NoTask
  BY DEF Task, NoTask, Kinds

LEMMA MessageIsNot == ASSUME NEW r \in Message PROVE r # NoMessage
  BY DEF Message, NoMessage, Kinds

-----------------------------------------------------------------------------
(* Marking                                                                 *)

\* What a step of marking does: the mark goes on, or is made; the known set of its peer
\* gets the block at most, and what it loses is forgotten.
LEMMA MarkStepIs ==
    ASSUME TypeOK, NEW m \in Markers, MarkStep(m)
    PROVE  /\ UNCHANGED <<chain, queueVars, peerVars, task, broadcasts, historyVars>>
           /\ mark[m] # Unmarked /\ mark[m].peer \in Peers /\ mark[m].block \in Blocks
           /\ mark' \in [Markers -> Marking \cup {Unmarked}]
           /\ \A n \in Markers : n # m => mark'[n] = mark[n]
           /\ mark'[m] # Unmarked => mark'[m].peer = mark[m].peer /\ mark'[m].block = mark[m].block
           /\ mark'[m] = Unmarked => mark[m].block \in known'[mark[m].peer]
           /\ known' \in [Peers -> SUBSET Blocks]
           /\ forgotten \subseteq forgotten' /\ forgotten' \subseteq Peers \X Blocks
           /\ \A p \in Peers, b \in Blocks :
                 /\ b \in known'[p] => b \in known[p] \/ (p = mark[m].peer /\ b = mark[m].block)
                 /\ b \in known[p] => b \in known'[p] \/ <<p, b>> \in forgotten'
<1>1. mark \in [Markers -> Marking \cup {Unmarked}] /\ known \in [Peers -> SUBSET Blocks]
      /\ forgotten \subseteq Peers \X Blocks
  BY DEF TypeOK
<1>2. mark[m].at \in {"room", "pop", "add"}
  BY DEF MarkStep, Room, Pop, Add
<1>3. mark[m] \in Marking /\ mark[m] # Unmarked /\ mark[m].peer \in Peers /\ mark[m].block \in Blocks
  BY <1>2, MarkingRecord
<1> DEFINE p == mark[m].peer
           b == mark[m].block
<1>4. \A a \in {"room", "pop", "add"} :
         LET r == [mark[m] EXCEPT !.at = a]
         IN r \in Marking /\ r # Unmarked /\ r.peer = p /\ r.block = b
  BY <1>3 DEF Marking, Unmarked
<1>5. CASE Room(m)
  <2>1. UNCHANGED <<chain, known, queueVars, peerVars, task, broadcasts, historyVars, forgotten>>
    BY <1>5 DEF Room
  <2>2. PICK a \in {"room", "pop", "add"} : mark' = [mark EXCEPT ![m].at = a]
    BY <1>5 DEF Room
  <2>3. mark' = [mark EXCEPT ![m] = [mark[m] EXCEPT !.at = a]]
    BY <2>2
  <2>4. QED
    BY <1>1, <1>3, <1>4, <2>1, <2>3
<1>6. CASE Pop(m)
  <2>1. UNCHANGED <<chain, queueVars, peerVars, task, broadcasts, historyVars>>
    BY <1>6 DEF Pop
  <2>2. mark' = [mark EXCEPT ![m] = [mark[m] EXCEPT !.at = "room"]]
    BY <1>6 DEF Pop
  <2>3. \/ UNCHANGED <<known, forgotten>>
        \/ \E c \in known[p] : /\ known' = [known EXCEPT ![p] = @ \ {c}]
                               /\ forgotten' = forgotten \cup {<<p, c>>}
    BY <1>6 DEF Pop
  <2>4. /\ mark' \in [Markers -> Marking \cup {Unmarked}]
        /\ \A n \in Markers : n # m => mark'[n] = mark[n]
        /\ mark'[m] # Unmarked /\ mark'[m].peer = p /\ mark'[m].block = b
    BY <1>1, <1>3, <1>4, <2>2
  <2>5. /\ known' \in [Peers -> SUBSET Blocks]
        /\ forgotten \subseteq forgotten' /\ forgotten' \subseteq Peers \X Blocks
        /\ \A q \in Peers, c \in Blocks :
              /\ c \in known'[q] => c \in known[q]
              /\ c \in known[q] => c \in known'[q] \/ <<q, c>> \in forgotten'
    <3>1. CASE UNCHANGED <<known, forgotten>>
      BY <1>1, <3>1
    <3>2. CASE \E c \in known[p] : /\ known' = [known EXCEPT ![p] = @ \ {c}]
                                   /\ forgotten' = forgotten \cup {<<p, c>>}
      <4>1. PICK c \in known[p] : /\ known' = [known EXCEPT ![p] = @ \ {c}]
                                  /\ forgotten' = forgotten \cup {<<p, c>>}
        BY <3>2
      <4>2. p \in Peers /\ c \in Blocks
        BY <1>1, <1>3
      <4> HIDE DEF p
      <4>3. QED
        BY <1>1, <4>1, <4>2
    <3>3. QED
      BY <2>3, <3>1, <3>2
  <2>6. QED
    BY <1>3, <2>1, <2>4, <2>5
<1>7. CASE Add(m)
  <2>1. UNCHANGED <<chain, queueVars, peerVars, task, broadcasts, historyVars, forgotten>>
        /\ mark' = [mark EXCEPT ![m] = Unmarked]
        /\ known' = [known EXCEPT ![p] = @ \cup {b}]
    BY <1>7 DEF Add
  <2>2. p \in Peers /\ b \in Blocks
    BY <1>3
  <2>3. /\ mark' \in [Markers -> Marking \cup {Unmarked}]
        /\ \A n \in Markers : n # m => mark'[n] = mark[n]
        /\ mark'[m] = Unmarked
    BY <1>1, <2>1
  <2>4. /\ known' \in [Peers -> SUBSET Blocks] /\ b \in known'[p]
        /\ \A q \in Peers, c \in Blocks :
              /\ c \in known'[q] => c \in known[q] \/ (q = p /\ c = b)
              /\ c \in known[q] => c \in known'[q]
    <3> HIDE DEF p, b
    <3>1. QED
      BY <1>1, <2>1, <2>2
  <2>5. QED
    BY <1>1, <1>3, <2>1, <2>3, <2>4
<1>8. QED
  BY <1>5, <1>6, <1>7 DEF MarkStep

\* What a peer heard of stays so, where its messages are as before.
LEMMA SameHeard ==
    ASSUME UNCHANGED <<told, received, queuedBlocks, queuedBlockAnns, sending, ended>>
    PROVE  \A p \in Peers, b \in Blocks : Heard(p, b)' = Heard(p, b)
  BY DEF Heard

\* What a peer heard of it goes on to have, while its broadcaster runs.
HeardStays ==
    \A p \in Peers, b \in Blocks :
        Heard(p, b) \/ p \in ended => Heard(p, b)' \/ p \in ended'

LEMMA StaysWhenSame ==
    ASSUME UNCHANGED <<told, received, queuedBlocks, queuedBlockAnns, sending, ended>>
    PROVE  HeardStays
  BY SameHeard DEF HeardStays

-----------------------------------------------------------------------------
(* What steps leave as it is                                               *)

LEMMA KnownKept ==
    ASSUME TypeOK, KnownMeansHeard, HeardStays, UNCHANGED known
    PROVE  KnownMeansHeard'
  BY DEF TypeOK, KnownMeansHeard, HeardStays

LEMMA TaskKept ==
    ASSUME TypeOK, TaskInv, HeardStays, UNCHANGED <<task, dropped>>
    PROVE  TaskInv'
<1> SUFFICES ASSUME NEW w \in Workers, task[w] # NoTask,
                    NEW p \in task[w].meant \ task[w].todo
             PROVE  Heard(p, task[w].block)' \/ <<p, task[w].block>> \in dropped \/ p \in ended'
  BY DEF TaskInv
<1>1. p \in Peers /\ task[w].block \in Blocks
  BY TaskOf
<1>2. Heard(p, task[w].block) \/ <<p, task[w].block>> \in dropped \/ p \in ended
  BY DEF TaskInv
<1>3. QED
  BY <1>1, <1>2 DEF HeardStays

LEMMA OwedKept ==
    ASSUME OwedIsHeard, HeardStays, UNCHANGED owed, dropped \subseteq dropped'
    PROVE  OwedIsHeard'
  BY DEF OwedIsHeard, HeardStays

LEMMA QueuedKept ==
    ASSUME QueuedInv, UNCHANGED <<queued, known, forgotten>>,
           \A w \in Workers : mark'[<<"worker", w>>] = mark[<<"worker", w>>]
    PROVE  QueuedInv'
  BY DEF QueuedInv

LEMMA OnceKept ==
    ASSUME QueuedOnce, UNCHANGED <<queued, task>>, forgotten \subseteq forgotten'
    PROVE  QueuedOnce'
  BY DEF QueuedOnce

LEMMA MarksKept ==
    ASSUME TypeOK, MarkInv, HeardStays, UNCHANGED <<mark, task, sending>>
    PROVE  MarkInv'
<1>1. ASSUME NEW m \in Markers, mark[m] # Unmarked
      PROVE  Heard(mark[m].peer, mark[m].block)' \/ mark[m].peer \in ended'
  <2>1. Heard(mark[m].peer, mark[m].block) \/ mark[m].peer \in ended
    BY <1>1 DEF MarkInv
  <2>2. mark[m].peer \in Peers /\ mark[m].block \in Blocks
    BY <1>1, MarkingOf
  <2>3. QED
    BY <2>1, <2>2 DEF HeardStays
<1>2. QED
  BY <1>1 DEF MarkInv

LEMMA BoundKept ==
    ASSUME KnownBounded, UNCHANGED known,
           \A m \in Markers, p \in Peers :
              (mark'[m].at = "add" /\ mark'[m].peer = p) <=> (mark[m].at = "add" /\ mark[m].peer = p)
    PROVE  KnownBounded'
<1> SUFFICES ASSUME NEW p \in Peers
             PROVE  Cardinality(known[p]) + Cardinality(Adding(p)')
                       < maxKnownBlocks + Cardinality(MarkersOf(p))
  BY DEF KnownBounded, MarkersOf
<1>1. MarkersOf(p) \subseteq Markers
  BY DEF MarkersOf, Markers
<1>2. Adding(p)' = Adding(p)
  BY <1>1 DEF Adding, MarkersOf
<1>3. QED
  BY <1>2 DEF KnownBounded

\* A goroutine that begins to mark a block the peer heard of.
LEMMA MarkBegins ==
    ASSUME TypeOK, MarkInv, HeardStays, NEW m \in Markers, NEW p \in Peers, NEW b \in Blocks,
           mark[m] = Unmarked, StartMarking(m, p, b), Heard(p, b)' \/ p \in ended',
           \A q \in Peers : m \in {<<"broadcaster", q>>, <<"handler", q>>} => p = q,
           \A w \in Workers : m = <<"worker", w>> => task'[w] # NoTask,
           \A w \in Workers : task'[w] = NoTask => task[w] = NoTask,
           \A q \in Peers : sending'[q] = NoMessage => sending[q] = NoMessage /\ m # <<"broadcaster", q>>
    PROVE  /\ MarkInv'
           /\ mark' \in [Markers -> Marking \cup {Unmarked}]
           /\ mark'[m] = [at |-> "room", peer |-> p, block |-> b] /\ mark'[m] # Unmarked
           /\ \A n \in Markers : n # m => mark'[n] = mark[n]
           /\ \A n \in Markers, q \in Peers :
                 (mark'[n].at = "add" /\ mark'[n].peer = q) <=> (mark[n].at = "add" /\ mark[n].peer = q)
<1> DEFINE r == [at |-> "room", peer |-> p, block |-> b]
<1>1. r \in Marking /\ r # Unmarked /\ r.at # "add" /\ Unmarked.at # "add" /\ r.peer = p /\ r.block = b
  BY DEF Marking, Unmarked
<1>2. mark \in [Markers -> Marking \cup {Unmarked}] /\ mark' = [mark EXCEPT ![m] = r]
  BY DEF TypeOK, StartMarking
<1> HIDE DEF r
<1>3. /\ mark' \in [Markers -> Marking \cup {Unmarked}]
      /\ mark'[m] = r
      /\ \A n \in Markers : n # m => mark'[n] = mark[n]
  BY <1>1, <1>2
<1>4. ASSUME NEW n \in Markers, mark'[n] # Unmarked
      PROVE  (Heard(mark[n].peer, mark[n].block) \/ mark[n].peer \in ended)'
  <2>1. CASE n = m
    BY <1>1, <1>3, <2>1 DEF Heard
  <2>2. CASE n # m
    <3>1. mark'[n] = mark[n] /\ mark[n] # Unmarked
      BY <1>3, <1>4, <2>2
    <3>2. mark[n].peer \in Peers /\ mark[n].block \in Blocks
      BY <3>1, MarkingOf
    <3>3. Heard(mark[n].peer, mark[n].block) \/ mark[n].peer \in ended
      BY <3>1 DEF MarkInv
    <3>4. PICK q \in Peers, c \in Blocks : mark[n].peer = q /\ mark[n].block = c
      BY <3>2
    <3>5. Heard(q, c)' \/ q \in ended'
      BY <3>3, <3>4 DEF HeardStays
    <3>6. QED
      BY <3>1, <3>4, <3>5 DEF Heard
  <2>3. QED
    BY <2>1, <2>2
<1>5. ASSUME NEW q \in Peers
      PROVE  /\ mark'[<<"broadcaster", q>>] # Unmarked =>
                   mark'[<<"broadcaster", q>>].peer = q /\ sending'[q] # NoMessage
             /\ mark'[<<"handler", q>>] # Unmarked => mark'[<<"handler", q>>].peer = q
  <2>1. CASE m = <<"broadcaster", q>>
    <3>1. mark'[m].peer = q /\ sending'[q] # NoMessage
      BY <1>1, <1>3, <2>1
    <3>2. mark'[<<"handler", q>>] = mark[<<"handler", q>>]
      BY <1>3, <2>1, MarkersAre
    <3>3. QED
      BY <2>1, <3>1, <3>2 DEF MarkInv
  <2>2. CASE m # <<"broadcaster", q>>
    <3>1. mark'[<<"broadcaster", q>>] = mark[<<"broadcaster", q>>]
      BY <1>3, <2>2, MarkersAre
    <3>2. mark'[<<"handler", q>>] = mark[<<"handler", q>>]
          \/ mark'[<<"handler", q>>].peer = q
      BY <1>1, <1>3, MarkersAre
    <3>3. QED
      BY <3>1, <3>2 DEF MarkInv
  <2>3. QED
    BY <2>1, <2>2
<1>6. \A w \in Workers : task'[w] = NoTask => mark'[<<"worker", w>>] = Unmarked
  BY <1>3, MarkersAre DEF MarkInv
<1>7. MarkInv'
  BY <1>4, <1>5, <1>6 DEF MarkInv
<1>8. QED
  BY <1>1, <1>3, <1>7 DEF r

-----------------------------------------------------------------------------
(* Queues                                                                  *)

\* c is somewhere in a queue.
In(c, q) == \E i \in 1 .. Len(q) : q[i] = c

LEMMA PushHears ==
    ASSUME NEW queue \in [Peers -> Seq(Blocks)], NEW p \in Peers, NEW b \in Blocks, NEW capacity \in Nat
    PROVE  /\ Push(queue, p, b, capacity) \in [Peers -> Seq(Blocks)]
           /\ \A r \in Peers, c \in Blocks : In(c, queue[r]) => In(c, Push(queue, p, b, capacity)[r])
           /\ Len(queue[p]) < capacity => In(b, Push(queue, p, b, capacity)[p])
<1>1. CASE Len(queue[p]) < capacity
  <2> DEFINE q == queue[p]
  <2>1. q \in Seq(Blocks) /\ Append(q, b) \in Seq(Blocks) /\ Len(q) \in Nat
        /\ Len(Append(q, b)) = Len(q) + 1 /\ Append(q, b)[Len(q) + 1] = b
        /\ \A i \in 1 .. Len(q) : Append(q, b)[i] = q[i]
    OBVIOUS
  <2>2. Push(queue, p, b, capacity) = [queue EXCEPT ![p] = Append(q, b)]
    BY <1>1 DEF Push
  <2>3. In(b, Append(q, b)) /\ \A c \in Blocks : In(c, q) => In(c, Append(q, b))
    <3> HIDE DEF q
    <3>1. QED
      BY <2>1 DEF In
  <2>4. QED
    BY <2>1, <2>2, <2>3
<1>2. CASE ~(Len(queue[p]) < capacity)
  BY <1>2 DEF Push
<1>3. QED
  BY <1>1, <1>2

LEMMA TailHears ==
    ASSUME NEW q \in Seq(Blocks), q # <<>>
    PROVE  /\ Tail(q) \in Seq(Blocks) /\ Head(q) \in Blocks
           /\ \A c \in Blocks : In(c, q) => c = Head(q) \/ In(c, Tail(q))
<1>1. /\ Tail(q) \in Seq(Blocks) /\ Head(q) \in Blocks /\ Head(q) = q[1]
      /\ Len(q) \in Nat /\ Len(Tail(q)) = Len(q) - 1
      /\ \A i \in 1 .. Len(q) - 1 : Tail(q)[i] = q[i + 1]
  OBVIOUS
<1>2. ASSUME NEW c \in Blocks, In(c, q), c # Head(q) PROVE In(c, Tail(q))
  <2>1. PICK i \in 1 .. Len(q) : q[i] = c
    BY <1>2 DEF In
  <2>2. i # 1 /\ i - 1 \in 1 .. Len(q) - 1 /\ (i - 1) + 1 = i
    BY <1>1, <1>2, <2>1
  <2>3. Tail(q)[i - 1] = c
    BY <1>1, <2>1, <2>2
  <2>4. QED
    BY <1>1, <2>2, <2>3 DEF In
<1>3. QED
  BY <1>1, <1>2

LEMMA HeardIs ==
    \A p \in Peers, b \in Blocks :
        Heard(p, b) <=> \/ b \in told[p] \cup received[p]
                        \/ In(b, queuedBlocks[p]) \/ In(b, queuedBlockAnns[p])
                        \/ sending[p] # NoMessage /\ sending[p].block = b
  BY DEF Heard, In

\* The same in the next state.
LEMMA HeardNext ==
    \A p \in Peers, b \in Blocks :
        Heard(p, b)' <=> \/ b \in told'[p] \cup received'[p]
                         \/ In(b, queuedBlocks'[p]) \/ In(b, queuedBlockAnns'[p])
                         \/ sending'[p] # NoMessage /\ sending'[p].block = b
  BY DEF Heard, In

-----------------------------------------------------------------------------
(* The steps                                                               *)

\* The conjuncts of the invariant but its types and the size of the known sets.
Rest == KnownMeansHeard /\ MarkInv /\ TaskInv /\ QueuedInv /\ OwedIsHeard /\ QueuedOnce

LEMMA InvIs == IInv <=> TypeOK /\ Rest /\ KnownBounded
  BY DEF IInv, PropagationInv, Rest

LEMMA StepMark == ASSUME IInv, NEW m \in Markers, MarkStep(m) PROVE TypeOK' /\ Rest'
<1> DEFINE q == mark[m].peer
           c == mark[m].block
<1>0. TypeOK /\ Rest
  BY InvIs
<1>1. UNCHANGED <<chain, queuedBlocks, queuedBlockAnns, session, ended, sending, task, broadcasts,
                  told, received, owed, dropped, queued>>
  BY <1>0, MarkStepIs DEF queueVars, peerVars, historyVars
<1>2. /\ mark[m] # Unmarked /\ q \in Peers /\ c \in Blocks
      /\ mark' \in [Markers -> Marking \cup {Unmarked}]
      /\ \A n \in Markers : n # m => mark'[n] = mark[n]
      /\ mark'[m] # Unmarked => mark'[m].peer = q /\ mark'[m].block = c
      /\ mark'[m] = Unmarked => c \in known'[q]
      /\ known' \in [Peers -> SUBSET Blocks]
      /\ forgotten \subseteq forgotten' /\ forgotten' \subseteq Peers \X Blocks
      /\ \A p \in Peers, b \in Blocks :
            /\ b \in known'[p] => b \in known[p] \/ (p = q /\ b = c)
            /\ b \in known[p] => b \in known'[p] \/ <<p, b>> \in forgotten'
  BY <1>0, MarkStepIs
<1>3. HeardStays
  BY <1>1, StaysWhenSame
<1>4. Heard(q, c) \/ q \in ended
  BY <1>0, <1>2 DEF Rest, MarkInv
<1> HIDE DEF q, c
<1>5. TypeOK'
  BY <1>0, <1>1, <1>2 DEF TypeOK
<1>6. KnownMeansHeard'
  <2> SUFFICES ASSUME NEW p \in Peers, NEW b \in known'[p] PROVE Heard(p, b)' \/ p \in ended'
    BY DEF KnownMeansHeard
  <2>1. b \in Blocks
    BY <1>2
  <2>2. Heard(p, b) \/ p \in ended
    BY <1>0, <1>2, <1>4, <2>1 DEF Rest, KnownMeansHeard
  <2>3. QED
    BY <1>3, <2>1, <2>2 DEF HeardStays
<1>7. MarkInv'
  <2>1. \A n \in Markers : mark'[n] # Unmarked =>
           mark[n] # Unmarked /\ mark'[n].peer = mark[n].peer /\ mark'[n].block = mark[n].block
    BY <1>2 DEF q, c
  <2>2. ASSUME NEW n \in Markers, mark'[n] # Unmarked
        PROVE  (Heard(mark[n].peer, mark[n].block) \/ mark[n].peer \in ended)'
    <3>1. mark[n].peer \in Peers /\ mark[n].block \in Blocks
      BY <1>0, <2>1, <2>2, MarkingOf
    <3>2. Heard(mark[n].peer, mark[n].block) \/ mark[n].peer \in ended
      BY <1>0, <2>1, <2>2 DEF Rest, MarkInv
    <3>3. QED
      BY <1>1, <2>1, <2>2, <3>2 DEF Heard
  <2>3. \A p \in Peers :
          /\ mark'[<<"broadcaster", p>>] # Unmarked =>
                mark'[<<"broadcaster", p>>].peer = p /\ sending'[p] # NoMessage
          /\ mark'[<<"handler", p>>] # Unmarked => mark'[<<"handler", p>>].peer = p
    BY <1>0, <1>1, <2>1, MarkersAre DEF Rest, MarkInv
  <2>4. \A w \in Workers : task'[w] = NoTask => mark'[<<"worker", w>>] = Unmarked
    BY <1>0, <1>1, <2>1, MarkersAre DEF Rest, MarkInv
  <2>5. QED
    BY <2>2, <2>3, <2>4 DEF MarkInv
<1>8. TaskInv'
  BY <1>0, <1>1, <1>3, TaskKept DEF Rest
<1>9. QueuedInv'
  <2> SUFFICES ASSUME NEW w \in Workers, NEW p \in Peers, NEW b \in Blocks, <<w, p, b>> \in queued'
               PROVE  \/ b \in known'[p]
                      \/ <<p, b>> \in forgotten'
                      \/ /\ mark'[<<"worker", w>>] # Unmarked
                         /\ mark'[<<"worker", w>>].peer = p /\ mark'[<<"worker", w>>].block = b
    BY DEF QueuedInv
  <2>1. CASE b \in known[p] \/ <<p, b>> \in forgotten
    BY <1>2, <2>1
  <2>2. CASE /\ mark[<<"worker", w>>] # Unmarked
             /\ mark[<<"worker", w>>].peer = p /\ mark[<<"worker", w>>].block = b
    BY <1>2, <2>2, MarkersAre DEF q, c
  <2>3. QED
    BY <1>0, <1>1, <2>1, <2>2 DEF Rest, QueuedInv
<1>10. OwedIsHeard' /\ QueuedOnce'
  BY <1>0, <1>1, <1>2, <1>3, OwedKept, OnceKept DEF Rest
<1>11. QED
  BY <1>5, <1>6, <1>7, <1>8, <1>9, <1>10 DEF Rest

\* A step after which marks, tasks, queues of blocks and histories are as before.
LEMMA StepElsewhere ==
    ASSUME IInv, TypeOK', UNCHANGED <<known, queueVars, ended, sending, task, mark, historyVars, forgotten>>
    PROVE  IInv'
<1>0. TypeOK /\ Rest /\ KnownBounded
  BY InvIs
<1>1. UNCHANGED <<told, received, queuedBlocks, queuedBlockAnns, sending, ended, owed, dropped, queued>>
  BY DEF queueVars, historyVars
<1>2. HeardStays
  BY <1>1, StaysWhenSame
<1>3. KnownMeansHeard' /\ MarkInv' /\ TaskInv'
  BY <1>0, <1>1, <1>2, KnownKept, MarksKept, TaskKept DEF Rest
<1>4. QueuedInv' /\ OwedIsHeard' /\ QueuedOnce'
  BY <1>0, <1>1, <1>2, QueuedKept, OwedKept, OnceKept DEF Rest
<1>5. KnownBounded'
  BY <1>0, BoundKept
<1>6. QED
  BY <1>3, <1>4, <1>5 DEF IInv, PropagationInv

LEMMA StepSession == ASSUME IInv, NEW p \in Peers, SessionStep(p) PROVE IInv'
<1>0. TypeOK
  BY InvIs
<1>1. TypeOK'
  BY <1>0 DEF TypeOK, SessionStep, queueVars, historyVars
<1>2. QED
  BY <1>1, StepElsewhere DEF SessionStep

LEMMA StepInsert == ASSUME IInv, NEW b \in Blocks, Insert(b) PROVE IInv'
<1>0. TypeOK
  BY InvIs
<1>1. TypeOK'
  BY <1>0 DEF TypeOK, Insert, queueVars, peerVars, historyVars
<1>2. QED
  BY <1>1, StepElsewhere DEF Insert, peerVars

LEMMA StepStutters == ASSUME IInv, UNCHANGED vars PROVE IInv'
<1>0. TypeOK
  BY InvIs
<1>1. TypeOK'
  BY <1>0 DEF TypeOK, vars, queueVars, peerVars, historyVars
<1>2. QED
  BY <1>1, StepElsewhere DEF vars, peerVars

\* A broadcast begins: it leaves out only peers that have the block or have it coming.
LEMMA StepStarts ==
    ASSUME IInv, NEW w \in Workers, NEW kind \in Kinds, NEW b \in Blocks,
           NEW meant \in SUBSET Peers, NEW todo \in SUBSET peersWithoutBlock(b),
           todo \subseteq meant, \A p \in meant \ todo : b \in known[p],
           StartTask(w, kind, b, meant, todo)
    PROVE  IInv'
<1> DEFINE t == [kind |-> kind, block |-> b, meant |-> meant, todo |-> todo]
<1>0. TypeOK /\ Rest /\ KnownBounded
  BY InvIs
<1>1. UNCHANGED <<chain, known, queuedBlocks, queuedBlockAnns, session, ended, sending, mark,
                  told, received, owed, dropped, queued, forgotten>>
  BY DEF StartTask, queueVars, peerVars, historyVars
<1>2. task[w] = NoTask /\ task' = [task EXCEPT ![w] = t] /\ broadcasts[w] > 0
      /\ broadcasts' = [broadcasts EXCEPT ![w] = @ - 1]
  BY DEF StartTask
<1>3. t \in Task /\ t # NoTask /\ t.block = b /\ t.meant = meant /\ t.todo = todo
  BY TaskIsNot DEF Task, peersWithoutBlock
<1> HIDE DEF t
<1>4. task \in [Workers -> Task \cup {NoTask}] /\ broadcasts \in [Workers -> Nat]
  BY <1>0 DEF TypeOK
<1>5. /\ task' \in [Workers -> Task \cup {NoTask}] /\ broadcasts' \in [Workers -> Nat]
      /\ task'[w] = t /\ \A v \in Workers : v # w => task'[v] = task[v]
  BY <1>2, <1>3, <1>4
<1>6. TypeOK'
  BY <1>0, <1>1, <1>5 DEF TypeOK
<1>7. HeardStays
  BY <1>1, StaysWhenSame
<1>8. KnownMeansHeard'
  BY <1>0, <1>1, <1>7, KnownKept DEF Rest
<1>9. MarkInv'
  <2>1. ASSUME NEW m \in Markers, mark[m] # Unmarked
        PROVE  Heard(mark[m].peer, mark[m].block)' \/ mark[m].peer \in ended'
    <3>1. mark[m].peer \in Peers /\ mark[m].block \in Blocks
      BY <1>0, <2>1, MarkingOf
    <3>2. Heard(mark[m].peer, mark[m].block) \/ mark[m].peer \in ended
      BY <1>0, <2>1 DEF Rest, MarkInv
    <3>3. QED
      BY <1>1, <3>2 DEF Heard
  <2>2. \A v \in Workers : task'[v] = NoTask => task[v] = NoTask
    BY <1>3, <1>5
  <2>3. QED
    BY <1>0, <1>1, <2>1, <2>2 DEF Rest, MarkInv
<1>10. TaskInv'
  <2>1. ASSUME NEW v \in Workers, task'[v] # NoTask
        PROVE  /\ task'[v].todo \subseteq task'[v].meant
               /\ \A p \in task'[v].meant \ task'[v].todo :
                     (Heard(p, task[v].block) \/ <<p, task[v].block>> \in dropped \/ p \in ended)'
    <3>1. CASE v = w
      <4>1. \A p \in meant \ todo : Heard(p, b)' \/ p \in ended'
        BY <1>0, <1>7 DEF Rest, KnownMeansHeard, HeardStays
      <4>2. task'[v] = t
        BY <1>5, <3>1
      <4>3. QED
        BY <1>3, <4>1, <4>2 DEF Heard
    <3>2. CASE v # w
      <4>1. task'[v] = task[v] /\ task[v] # NoTask
        BY <1>5, <2>1, <3>2
      <4>2. QED
        BY <1>0, <1>1, <4>1 DEF Rest, TaskInv, Heard
    <3>3. QED
      BY <3>1, <3>2
  <2>2. QED
    BY <2>1 DEF TaskInv
<1>11. QueuedInv' /\ OwedIsHeard'
  BY <1>0, <1>1, <1>7, QueuedKept, OwedKept DEF Rest
<1>12. QueuedOnce'
  <2> SUFFICES ASSUME NEW v \in Workers, NEW p \in Peers, NEW c \in Blocks, <<v, p, c>> \in queued,
                      task'[v] # NoTask, task'[v].block = c, p \in task'[v].todo
               PROVE  <<p, c>> \in forgotten
    BY <1>1 DEF QueuedOnce
  <2>1. CASE v = w
    <3>1. c = b /\ p \in todo /\ b \notin known[p]
      BY <1>3, <1>5, <2>1 DEF peersWithoutBlock
    <3>2. mark[<<"worker", w>>] = Unmarked
      BY <1>0, <1>2 DEF Rest, MarkInv
    <3>3. QED
      BY <1>0, <2>1, <3>1, <3>2 DEF Rest, QueuedInv
  <2>2. CASE v # w
    BY <1>0, <1>5, <2>2 DEF Rest, QueuedOnce
  <2>3. QED
    BY <2>1, <2>2
<1>13. KnownBounded'
  BY <1>0, <1>1, BoundKept
<1>14. QED
  BY <1>6, <1>8, <1>9, <1>10, <1>11, <1>12, <1>13 DEF IInv, PropagationInv

LEMMA StepBroadcasts ==
    ASSUME IInv, NEW w \in Workers, NEW b \in Blocks,
           BroadcastBlockToAll(w, b) \/ Propagate(w, b) \/ Announce(w, b)
    PROVE  IInv'
<1> DEFINE all == {p \in Peers : session[p] = "registered"}
<1>1. /\ peersWithoutBlock(b) \subseteq all /\ all \subseteq Peers
      /\ \A p \in all \ peersWithoutBlock(b) : b \in known[p]
  BY DEF peersWithoutBlock
<1>2. CASE BroadcastBlockToAll(w, b)
  <2>1. StartTask(w, "block", b, all, peersWithoutBlock(b))
    BY <1>2 DEF BroadcastBlockToAll
  <2>2. "block" \in Kinds
    BY DEF Kinds
  <2> HIDE DEF all
  <2>3. QED
    BY <1>1, <2>1, <2>2, StepStarts
<1>3. CASE Announce(w, b)
  <2>1. StartTask(w, "hash", b, all, peersWithoutBlock(b))
    BY <1>3 DEF Announce
  <2>2. "hash" \in Kinds
    BY DEF Kinds
  <2> HIDE DEF all
  <2>3. QED
    BY <1>1, <2>1, <2>2, StepStarts
<1>4. CASE Propagate(w, b)
  <2>1. PICK transfer \in SUBSET peersWithoutBlock(b) : StartTask(w, "block", b, transfer, transfer)
    BY <1>4 DEF Propagate
  <2>2. "block" \in Kinds /\ transfer \in SUBSET Peers
    BY <1>1 DEF Kinds
  <2>3. \A p \in transfer \ transfer : b \in known[p]
    OBVIOUS
  <2>4. QED
    BY <2>1, <2>2, <2>3, StepStarts
<1>5. QED
  BY <1>2, <1>3, <1>4

\* A broadcast ends: what it was meant for is owed.
LEMMA StepFinish == ASSUME IInv, NEW w \in Workers, Finish(w) PROVE IInv'
<1>0. TypeOK /\ Rest /\ KnownBounded
  BY InvIs
<1>1. UNCHANGED <<chain, known, queuedBlocks, queuedBlockAnns, session, ended, sending, mark, broadcasts,
                  told, received, dropped, queued, forgotten>>
  BY DEF Finish, queueVars, peerVars
<1>2. /\ task[w] # NoTask /\ task[w].todo = {} /\ mark[<<"worker", w>>] = Unmarked
      /\ owed' = owed \cup (task[w].meant \X {task[w].block})
      /\ task' = [task EXCEPT ![w] = NoTask]
  BY DEF Finish
<1>3. task[w].block \in Blocks /\ task[w].meant \subseteq Peers
  BY <1>0, <1>2, TaskOf
<1>4. task \in [Workers -> Task \cup {NoTask}] /\ owed \subseteq Peers \X Blocks
  BY <1>0 DEF TypeOK
<1>5. /\ task' \in [Workers -> Task \cup {NoTask}]
      /\ task'[w] = NoTask /\ \A v \in Workers : v # w => task'[v] = task[v]
  BY <1>2, <1>4
<1>6. owed' \subseteq Peers \X Blocks
  BY <1>2, <1>3, <1>4
<1>7. TypeOK'
  BY <1>0, <1>1, <1>5, <1>6 DEF TypeOK
<1>8. HeardStays
  BY <1>1, StaysWhenSame
<1>9. KnownMeansHeard' /\ QueuedInv'
  BY <1>0, <1>1, <1>8, KnownKept, QueuedKept DEF Rest
<1>10. MarkInv'
  <2>1. ASSUME NEW m \in Markers, mark[m] # Unmarked
        PROVE  Heard(mark[m].peer, mark[m].block)' \/ mark[m].peer \in ended'
    <3>1. Heard(mark[m].peer, mark[m].block) \/ mark[m].peer \in ended
      BY <1>0, <2>1 DEF Rest, MarkInv
    <3>2. QED
      BY <1>1, <3>1 DEF Heard
  <2>2. \A v \in Workers : task'[v] = NoTask => mark[<<"worker", v>>] = Unmarked
    BY <1>0, <1>2, <1>5 DEF Rest, MarkInv
  <2>3. QED
    BY <1>0, <1>1, <2>1, <2>2 DEF Rest, MarkInv
<1>11. TaskInv'
  <2>1. ASSUME NEW v \in Workers, task'[v] # NoTask
        PROVE  /\ task'[v].todo \subseteq task'[v].meant
               /\ \A p \in task'[v].meant \ task'[v].todo :
                     (Heard(p, task[v].block) \/ <<p, task[v].block>> \in dropped \/ p \in ended)'
    <3>1. task'[v] = task[v] /\ task[v] # NoTask
      BY <1>5, <2>1
    <3>2. QED
      BY <1>0, <1>1, <3>1 DEF Rest, TaskInv, Heard
  <2>2. QED
    BY <2>1 DEF TaskInv
<1>12. OwedIsHeard'
  <2> SUFFICES ASSUME NEW p \in Peers, NEW b \in Blocks, <<p, b>> \in owed'
               PROVE  Heard(p, b)' \/ <<p, b>> \in dropped \/ p \in ended'
    BY <1>1 DEF OwedIsHeard
  <2>1. CASE <<p, b>> \in owed
    BY <1>0, <1>8, <2>1 DEF Rest, OwedIsHeard, HeardStays
  <2>2. CASE p \in task[w].meant /\ b = task[w].block
    <3>1. p \in task[w].meant \ task[w].todo
      BY <1>2, <2>2
    <3>2. Heard(p, b) \/ <<p, b>> \in dropped \/ p \in ended
      BY <1>0, <1>2, <2>2, <3>1 DEF Rest, TaskInv
    <3>3. QED
      BY <1>8, <3>2 DEF HeardStays
  <2>3. QED
    BY <1>2, <2>1, <2>2
<1>13. QueuedOnce'
  BY <1>0, <1>1, <1>5 DEF Rest, QueuedOnce
<1>14. KnownBounded'
  BY <1>0, <1>1, BoundKept
<1>15. QED
  BY <1>7, <1>9, <1>10, <1>11, <1>12, <1>13, <1>14 DEF IInv, PropagationInv

\* A step of a peer's broadcaster or handler that begins to mark.
LEMMA StepMarkBegins ==
    ASSUME IInv, TypeOK', HeardStays, NEW p \in Peers, NEW b \in Blocks,
           NEW m \in {<<"broadcaster", p>>, <<"handler", p>>},
           mark[m] = Unmarked, StartMarking(m, p, b), Heard(p, b)' \/ p \in ended',
           UNCHANGED <<known, task, owed, dropped, queued, forgotten>>,
           \A q \in Peers : sending'[q] = NoMessage => sending[q] = NoMessage /\ m # <<"broadcaster", q>>
    PROVE  IInv'
<1>0. TypeOK /\ Rest /\ KnownBounded
  BY InvIs
<1>1. m \in Markers
  BY MarkersAre
<1>2. /\ \A q \in Peers : m \in {<<"broadcaster", q>>, <<"handler", q>>} => p = q
      /\ \A w \in Workers : m # <<"worker", w>>
  BY MarkersAre
<1>3. /\ MarkInv'
      /\ \A n \in Markers : n # m => mark'[n] = mark[n]
      /\ \A n \in Markers, q \in Peers :
            (mark'[n].at = "add" /\ mark'[n].peer = q) <=> (mark[n].at = "add" /\ mark[n].peer = q)
  <2>1. MarkInv /\ \A w \in Workers : task'[w] = NoTask => task[w] = NoTask
    BY <1>0 DEF Rest
  <2>2. /\ \A q \in Peers : sending'[q] = NoMessage => sending[q] = NoMessage /\ m # <<"broadcaster", q>>
        /\ \A w \in Workers : m = <<"worker", w>> => task'[w] # NoTask
    BY <1>2
  <2>3. TypeOK /\ m \in Markers /\ \A q \in Peers : m \in {<<"broadcaster", q>>, <<"handler", q>>} => p = q
    BY <1>0, <1>1, <1>2
  <2>4. /\ MarkInv'
        /\ mark' \in [Markers -> Marking \cup {Unmarked}]
        /\ mark'[m] = [at |-> "room", peer |-> p, block |-> b] /\ mark'[m] # Unmarked
        /\ \A n \in Markers : n # m => mark'[n] = mark[n]
        /\ \A n \in Markers, q \in Peers :
              (mark'[n].at = "add" /\ mark'[n].peer = q) <=> (mark[n].at = "add" /\ mark[n].peer = q)
    BY <2>1, <2>2, <2>3, MarkBegins, Zenon
  <2>5. QED
    BY <2>4
<1>4. \A w \in Workers : mark'[<<"worker", w>>] = mark[<<"worker", w>>]
  BY <1>2, <1>3, MarkersAre
<1>5. KnownMeansHeard' /\ TaskInv'
  BY <1>0, KnownKept, TaskKept DEF Rest
<1>6. QueuedInv' /\ OwedIsHeard' /\ QueuedOnce'
  BY <1>0, <1>4, QueuedKept, OwedKept, OnceKept DEF Rest
<1>7. KnownBounded'
  BY <1>0, <1>3, BoundKept
<1>8. QED
  BY <1>3, <1>5, <1>6, <1>7 DEF IInv, PropagationInv

LEMMA StepMarksBlock == ASSUME IInv, NEW p \in Peers, NEW b \in Blocks, markBlock(p, b) PROVE IInv'
<1>0. TypeOK
  BY InvIs
<1>1. /\ mark[<<"handler", p>>] = Unmarked
      /\ told' = [told EXCEPT ![p] = @ \cup {b}]
      /\ StartMarking(<<"handler", p>>, p, b)
  BY DEF markBlock
<1>2. UNCHANGED <<chain, known, queuedBlocks, queuedBlockAnns, session, ended, sending, task, broadcasts,
                  received, owed, dropped, queued, forgotten>>
  BY DEF markBlock, queueVars, peerVars
<1>3. told' \in [Peers -> SUBSET Blocks] /\ b \in told'[p] /\ \A q \in Peers : told[q] \subseteq told'[q]
  BY <1>0, <1>1 DEF TypeOK
<1>4. mark' \in [Markers -> Marking \cup {Unmarked}]
  BY <1>0, <1>1, MarkersAre DEF TypeOK, StartMarking, Marking
<1>5. TypeOK'
  BY <1>0, <1>2, <1>3, <1>4 DEF TypeOK
<1>6. HeardStays /\ Heard(p, b)'
  BY <1>2, <1>3, HeardIs, HeardNext DEF HeardStays
<1>7. \A q \in Peers : <<"handler", p>> # <<"broadcaster", q>>
  BY MarkersAre
<1>8. QED
  BY <1>1, <1>2, <1>5, <1>6, <1>7, StepMarkBegins

\* What was queued is in the hands of the broadcaster now.
LEMMA StepTakes ==
    ASSUME IInv, NEW p \in Peers, SendNewBlock(p) \/ SendNewBlockHashes(p)
    PROVE  IInv'
<1>0. TypeOK
  BY InvIs
<1>1. /\ queuedBlocks \in [Peers -> Seq(Blocks)] /\ queuedBlockAnns \in [Peers -> Seq(Blocks)]
      /\ sending \in [Peers -> Message \cup {NoMessage}]
      /\ mark \in [Markers -> Marking \cup {Unmarked}]
  BY <1>0 DEF TypeOK
<1>2. PICK queue \in {queuedBlocks, queuedBlockAnns}, kind \in Kinds :
         /\ Take(p, queue, kind)
         /\ \/ /\ queue = queuedBlocks
               /\ queuedBlocks' = [queuedBlocks EXCEPT ![p] = Tail(@)] /\ UNCHANGED queuedBlockAnns
            \/ /\ queue = queuedBlockAnns
               /\ queuedBlockAnns' = [queuedBlockAnns EXCEPT ![p] = Tail(@)] /\ UNCHANGED queuedBlocks
  BY DEF SendNewBlock, SendNewBlockHashes, Kinds
<1> DEFINE b == Head(queue[p])
           r == [kind |-> kind, block |-> b]
<1>3. /\ p \notin ended /\ sending[p] = NoMessage /\ queue[p] # <<>>
      /\ sending' = [sending EXCEPT ![p] = r]
      /\ StartMarking(<<"broadcaster", p>>, p, b)
      /\ UNCHANGED <<chain, known, session, ended, task, broadcasts, told, received, owed, dropped,
                     queued, forgotten>>
  BY <1>2 DEF Take, historyVars
<1>4. queue[p] \in Seq(Blocks)
  BY <1>1
<1>5. /\ Tail(queue[p]) \in Seq(Blocks) /\ b \in Blocks
      /\ \A c \in Blocks : In(c, queue[p]) => c = b \/ In(c, Tail(queue[p]))
  BY <1>3, <1>4, TailHears
<1>6. r \in Message /\ r # NoMessage /\ r.block = b
  BY <1>5, MessageIsNot DEF Message
<1> HIDE DEF b, r
<1>7. /\ sending' \in [Peers -> Message \cup {NoMessage}] /\ sending'[p] = r
      /\ \A q \in Peers : q # p => sending'[q] = sending[q]
  BY <1>1, <1>3, <1>6
<1>8. /\ queuedBlocks' \in [Peers -> Seq(Blocks)] /\ queuedBlockAnns' \in [Peers -> Seq(Blocks)]
      /\ \A q \in Peers, c \in Blocks :
            /\ In(c, queuedBlocks[q]) => In(c, queuedBlocks'[q]) \/ (q = p /\ c = b)
            /\ In(c, queuedBlockAnns[q]) => In(c, queuedBlockAnns'[q]) \/ (q = p /\ c = b)
  <2>1. CASE /\ queue = queuedBlocks
             /\ queuedBlocks' = [queuedBlocks EXCEPT ![p] = Tail(@)] /\ UNCHANGED queuedBlockAnns
    <3>1. queuedBlocks'[p] = Tail(queuedBlocks[p]) /\ \A q \in Peers : q # p => queuedBlocks'[q] = queuedBlocks[q]
      BY <1>1, <2>1
    <3>2. QED
      BY <1>1, <1>5, <2>1, <3>1
  <2>2. CASE /\ queue = queuedBlockAnns
             /\ queuedBlockAnns' = [queuedBlockAnns EXCEPT ![p] = Tail(@)] /\ UNCHANGED queuedBlocks
    <3>1. /\ queuedBlockAnns'[p] = Tail(queuedBlockAnns[p])
          /\ \A q \in Peers : q # p => queuedBlockAnns'[q] = queuedBlockAnns[q]
      BY <1>1, <2>2
    <3>2. QED
      BY <1>1, <1>5, <2>2, <3>1
  <2>3. QED
    BY <1>2, <2>1, <2>2
<1>9. mark' \in [Markers -> Marking \cup {Unmarked}]
  BY <1>1, <1>3, <1>5, MarkersAre DEF StartMarking, Marking
<1>10. TypeOK'
  BY <1>0, <1>3, <1>7, <1>8, <1>9 DEF TypeOK
<1>11. HeardStays /\ Heard(p, b)'
  <2>1. Heard(p, b)'
    BY <1>5, <1>6, <1>7, HeardNext
  <2>2. ASSUME NEW q \in Peers, NEW c \in Blocks, Heard(q, c), ~(q = p /\ c = b) PROVE Heard(q, c)'
    <3>1. CASE In(c, queuedBlocks[q]) \/ In(c, queuedBlockAnns[q])
      BY <1>8, <2>2, <3>1, HeardNext
    <3>2. CASE c \in told[q] \cup received[q]
      BY <1>3, <3>2, HeardNext
    <3>3. CASE sending[q] # NoMessage /\ sending[q].block = c
      <4>1. q # p
        BY <1>3, <3>3
      <4>2. QED
        BY <1>7, <3>3, <4>1, HeardNext
    <3>4. QED
      BY <2>2, <3>1, <3>2, <3>3, HeardIs
  <2>3. QED
    BY <1>3, <2>1, <2>2 DEF HeardStays
<1>12. mark[<<"broadcaster", p>>] = Unmarked
  BY <1>3, InvIs DEF Rest, MarkInv
<1>13. \A q \in Peers : sending'[q] = NoMessage => sending[q] = NoMessage /\ <<"broadcaster", p>> # <<"broadcaster", q>>
  BY <1>6, <1>7, MarkersAre
<1>14. QED
  BY <1>3, <1>5, <1>10, <1>11, <1>12, <1>13, StepMarkBegins

\* A step of a broadcaster that is not marking, and lets go of its message.
LEMMA StepLetsGo ==
    ASSUME IInv, TypeOK', HeardStays, NEW p \in Peers, mark[<<"broadcaster", p>>] = Unmarked,
           \A q \in Peers : q # p => sending'[q] = sending[q],
           UNCHANGED <<known, task, mark, owed, dropped, queued, forgotten>>
    PROVE  IInv'
<1>0. TypeOK /\ Rest /\ KnownBounded
  BY InvIs
<1>1. MarkInv'
  <2>1. ASSUME NEW m \in Markers, mark[m] # Unmarked
        PROVE  Heard(mark[m].peer, mark[m].block)' \/ mark[m].peer \in ended'
    <3>1. PICK q \in Peers, c \in Blocks : mark[m].peer = q /\ mark[m].block = c
      BY <1>0, <2>1, MarkingOf
    <3>2. Heard(q, c) \/ q \in ended
      BY <1>0, <2>1, <3>1 DEF Rest, MarkInv
    <3>3. Heard(q, c)' \/ q \in ended'
      BY <3>2 DEF HeardStays
    <3>4. QED
      BY <3>1, <3>3 DEF Heard
  <2>2. \A q \in Peers : mark[<<"broadcaster", q>>] # Unmarked => sending'[q] # NoMessage
    BY <1>0 DEF Rest, MarkInv
  <2>3. QED
    BY <1>0, <2>1, <2>2 DEF Rest, MarkInv
<1>2. KnownMeansHeard' /\ TaskInv'
  BY <1>0, KnownKept, TaskKept DEF Rest
<1>3. QueuedInv' /\ OwedIsHeard' /\ QueuedOnce'
  BY <1>0, QueuedKept, OwedKept, OnceKept DEF Rest
<1>4. KnownBounded'
  BY <1>0, BoundKept
<1>5. QED
  BY <1>1, <1>2, <1>3, <1>4 DEF IInv, PropagationInv

LEMMA StepSent == ASSUME IInv, NEW p \in Peers, Sent(p) PROVE IInv'
<1>0. TypeOK
  BY InvIs
<1>1. /\ sending[p] # NoMessage /\ mark[<<"broadcaster", p>>] = Unmarked
      /\ received' = [received EXCEPT ![p] = @ \cup {sending[p].block}]
      /\ sending' = [sending EXCEPT ![p] = NoMessage]
      /\ UNCHANGED <<chain, known, queuedBlocks, queuedBlockAnns, session, ended, task, mark, broadcasts,
                     told, owed, dropped, queued, forgotten>>
  BY DEF Sent, queueVars
<1>2. sending \in [Peers -> Message \cup {NoMessage}] /\ received \in [Peers -> SUBSET Blocks]
  BY <1>0 DEF TypeOK
<1>3. sending[p].block \in Blocks
  BY <1>1, <1>2 DEF Message
<1>4. /\ sending' \in [Peers -> Message \cup {NoMessage}] /\ received' \in [Peers -> SUBSET Blocks]
      /\ \A q \in Peers : q # p => sending'[q] = sending[q]
      /\ \A q \in Peers : received[q] \subseteq received'[q]
      /\ sending[p].block \in received'[p]
  BY <1>1, <1>2, <1>3
<1>5. TypeOK'
  BY <1>0, <1>1, <1>4 DEF TypeOK
<1>6. HeardStays
  <2> SUFFICES ASSUME NEW q \in Peers, NEW c \in Blocks, Heard(q, c) PROVE Heard(q, c)'
    BY <1>1 DEF HeardStays
  <2>1. CASE q = p /\ sending[q].block = c
    BY <1>4, <2>1, HeardNext
  <2>2. CASE ~(q = p /\ sending[q].block = c)
    BY <1>1, <1>4, <2>2, HeardIs, HeardNext
  <2>3. QED
    BY <2>1, <2>2
<1>7. QED
  BY <1>1, <1>4, <1>5, <1>6, StepLetsGo

LEMMA StepBroadcasterEnds == ASSUME IInv, NEW p \in Peers, BroadcasterEnds(p) PROVE IInv'
<1>0. TypeOK
  BY InvIs
<1>1. /\ mark[<<"broadcaster", p>>] = Unmarked
      /\ ended' = ended \cup {p}
      /\ sending' = [sending EXCEPT ![p] = NoMessage]
      /\ UNCHANGED <<chain, known, queuedBlocks, queuedBlockAnns, session, task, mark, broadcasts,
                     told, received, owed, dropped, queued, forgotten>>
  BY DEF BroadcasterEnds, queueVars, historyVars
<1>2. sending \in [Peers -> Message \cup {NoMessage}]
  BY <1>0 DEF TypeOK
<1>3. /\ sending' \in [Peers -> Message \cup {NoMessage}]
      /\ \A q \in Peers : q # p => sending'[q] = sending[q]
  BY <1>1, <1>2
<1>4. TypeOK'
  BY <1>0, <1>1, <1>3 DEF TypeOK
<1>5. HeardStays
  BY <1>1, <1>3, HeardIs, HeardNext DEF HeardStays
<1>6. QED
  BY <1>1, <1>3, <1>4, <1>5, StepLetsGo

-----------------------------------------------------------------------------
(* A block is offered to a peer                                            *)

LEMMA StepOffers ==
    ASSUME IInv, NEW w \in Workers, NEW p \in Peers,
           AsyncSendNewBlock(w, p) \/ AsyncSendNewBlockHash(w, p)
    PROVE  IInv'
<1> DEFINE m == <<"worker", w>>
<1>0. TypeOK /\ Rest /\ KnownBounded
  BY InvIs
<1>1. task[w] # NoTask
  BY DEF AsyncSendNewBlock, AsyncSendNewBlockHash, Offer, NoTask
<1>2. PICK b \in Blocks : b = task[w].block
  BY <1>0, <1>1, TaskOf
<1>3. /\ queuedBlocks \in [Peers -> Seq(Blocks)] /\ queuedBlockAnns \in [Peers -> Seq(Blocks)]
      /\ mark \in [Markers -> Marking \cup {Unmarked}]
      /\ task \in [Workers -> Task \cup {NoTask}]
      /\ dropped \subseteq Peers \X Blocks /\ queued \subseteq Workers \X Peers \X Blocks
  BY <1>0 DEF TypeOK
<1>4. PICK queue \in {queuedBlocks, queuedBlockAnns}, capacity \in Nat, kind \in Kinds :
         /\ Offer(w, p, b, queue, capacity, kind)
         /\ \/ /\ queue = queuedBlocks
               /\ queuedBlocks' = Push(queue, p, b, capacity) /\ UNCHANGED queuedBlockAnns
            \/ /\ queue = queuedBlockAnns
               /\ queuedBlockAnns' = Push(queue, p, b, capacity) /\ UNCHANGED queuedBlocks
  BY <1>2, PropagationAssumption DEF AsyncSendNewBlock, AsyncSendNewBlockHash, Kinds
<1>5. /\ mark[m] = Unmarked /\ p \in task[w].todo /\ task[w].kind = kind
      /\ task' = [task EXCEPT ![w].todo = @ \ {p}]
      /\ UNCHANGED <<chain, known, session, ended, sending, broadcasts, told, received, owed, forgotten>>
      /\ \/ /\ Len(queue[p]) < capacity
            /\ queued' = queued \cup {<<w, p, b>>}
            /\ StartMarking(m, p, b) /\ UNCHANGED dropped
         \/ /\ dropped' = dropped \cup {<<p, b>>}
            /\ UNCHANGED <<mark, queued>>
  BY <1>4 DEF Offer, peerVars
<1>6. task[w] \in Task /\ b = task[w].block /\ b \in Blocks /\ task[w].meant \subseteq Peers /\ task[w].todo \subseteq Peers
  BY <1>0, <1>1, <1>2, TaskOf
<1> DEFINE t == [task[w] EXCEPT !.todo = @ \ {p}]
<1>7. t \in Task /\ t # NoTask /\ t.block = b /\ t.meant = task[w].meant /\ t.todo = task[w].todo \ {p}
  BY <1>6, TaskIsNot DEF Task
<1>8. /\ task' \in [Workers -> Task \cup {NoTask}]
      /\ task'[w] = t /\ \A v \in Workers : v # w => task'[v] = task[v]
  <2>1. task' = [task EXCEPT ![w] = t]
    BY <1>5
  <2> HIDE DEF t
  <2>2. QED
    BY <1>3, <1>7, <2>1
<1>9. /\ queuedBlocks' \in [Peers -> Seq(Blocks)] /\ queuedBlockAnns' \in [Peers -> Seq(Blocks)]
      /\ \A q \in Peers, c \in Blocks :
            /\ In(c, queuedBlocks[q]) => In(c, queuedBlocks'[q])
            /\ In(c, queuedBlockAnns[q]) => In(c, queuedBlockAnns'[q])
      /\ Len(queue[p]) < capacity => In(b, queuedBlocks'[p]) \/ In(b, queuedBlockAnns'[p])
  <2>1. queue \in [Peers -> Seq(Blocks)]
    BY <1>3
  <2>2. /\ Push(queue, p, b, capacity) \in [Peers -> Seq(Blocks)]
        /\ \A r \in Peers, c \in Blocks : In(c, queue[r]) => In(c, Push(queue, p, b, capacity)[r])
        /\ Len(queue[p]) < capacity => In(b, Push(queue, p, b, capacity)[p])
    BY <1>6, <2>1, PushHears
  <2>3. QED
    BY <1>3, <1>4, <2>2
<1>10. HeardStays
  BY <1>5, <1>9, HeardIs, HeardNext DEF HeardStays
<1> HIDE DEF t
<1>11. KnownMeansHeard'
  BY <1>0, <1>5, <1>10, KnownKept DEF Rest
<1>12. m \in Markers /\ \A q \in Peers : m # <<"broadcaster", q>> /\ m # <<"handler", q>>
  BY MarkersAre
<1>13. \A v \in Workers : v # w => <<"worker", v>> \in Markers /\ <<"worker", v>> # m
  BY MarkersAre
<1> HIDE DEF m
<1>14. /\ MarkInv' /\ mark' \in [Markers -> Marking \cup {Unmarked}]
       /\ \A v \in Workers : v # w => mark'[<<"worker", v>>] = mark[<<"worker", v>>]
       /\ \A n \in Markers, q \in Peers :
             (mark'[n].at = "add" /\ mark'[n].peer = q) <=> (mark[n].at = "add" /\ mark[n].peer = q)
       /\ \/ /\ queued' = queued \cup {<<w, p, b>>} /\ UNCHANGED dropped
             /\ Heard(p, b)'
             /\ mark'[m] # Unmarked /\ mark'[m].peer = p /\ mark'[m].block = b
          \/ dropped' = dropped \cup {<<p, b>>} /\ UNCHANGED <<mark, queued>>
  <2>0. \A v \in Workers : task'[v] = NoTask => task[v] = NoTask
    BY <1>7, <1>8
  <2>1. CASE /\ Len(queue[p]) < capacity
             /\ queued' = queued \cup {<<w, p, b>>}
             /\ StartMarking(m, p, b) /\ UNCHANGED dropped
    <3>1. Heard(p, b)'
      BY <1>6, <1>9, <2>1, HeardNext
    <3>2. \A v \in Workers : m = <<"worker", v>> => task'[v] # NoTask
      BY <1>7, <1>8, <1>13
    <3>3. MarkInv /\ TypeOK
      BY <1>0 DEF Rest
    <3>4. /\ MarkInv'
          /\ mark' \in [Markers -> Marking \cup {Unmarked}]
          /\ mark'[m] = [at |-> "room", peer |-> p, block |-> b] /\ mark'[m] # Unmarked
          /\ \A n \in Markers : n # m => mark'[n] = mark[n]
          /\ \A n \in Markers, q \in Peers :
                (mark'[n].at = "add" /\ mark'[n].peer = q) <=> (mark[n].at = "add" /\ mark[n].peer = q)
      BY <1>5, <1>6, <1>10, <1>12, <2>0, <2>1, <3>1, <3>2, <3>3, MarkBegins
    <3>5. QED
      BY <1>13, <2>1, <3>1, <3>4
  <2>2. CASE dropped' = dropped \cup {<<p, b>>} /\ UNCHANGED <<mark, queued>>
    <3>1. ASSUME NEW n \in Markers, mark[n] # Unmarked
          PROVE  Heard(mark[n].peer, mark[n].block)' \/ mark[n].peer \in ended'
      <4>1. PICK q \in Peers, c \in Blocks : mark[n].peer = q /\ mark[n].block = c
        BY <1>0, <3>1, MarkingOf
      <4>2. Heard(q, c) \/ q \in ended
        BY <1>0, <3>1, <4>1 DEF Rest, MarkInv
      <4>3. Heard(q, c)' \/ q \in ended'
        BY <4>2, <1>10 DEF HeardStays
      <4>4. QED
        BY <2>2, <4>1, <4>3 DEF Heard
    <3>2. MarkInv'
      BY <1>0, <1>5, <2>0, <2>2, <3>1 DEF Rest, MarkInv
    <3>3. QED
      BY <1>3, <2>2, <3>2
  <2>3. QED
    BY <1>5, <2>1, <2>2
<1>15. /\ dropped \subseteq dropped' /\ dropped' \subseteq Peers \X Blocks
       /\ queued' \subseteq Workers \X Peers \X Blocks
       /\ \A v \in Workers, q \in Peers, c \in Blocks :
             <<v, q, c>> \in queued' => <<v, q, c>> \in queued \/ (v = w /\ q = p /\ c = b)
       /\ Heard(p, b)' \/ <<p, b>> \in dropped'
  BY <1>3, <1>6, <1>14
<1>16. TypeOK'
  BY <1>0, <1>5, <1>8, <1>9, <1>14, <1>15 DEF TypeOK
<1>17. TaskInv'
  <2>1. ASSUME NEW v \in Workers, task'[v] # NoTask
        PROVE  /\ task'[v].todo \subseteq task'[v].meant
               /\ \A q \in task'[v].meant \ task'[v].todo :
                     (Heard(q, task[v].block) \/ <<q, task[v].block>> \in dropped \/ q \in ended)'
    <3>1. /\ task[v] # NoTask /\ task'[v].block = task[v].block /\ task'[v].meant = task[v].meant
          /\ task'[v].todo = IF v = w THEN task[v].todo \ {p} ELSE task[v].todo
      BY <1>6, <1>7, <1>8, <1>1, <2>1
    <3>2. task[v].block \in Blocks /\ task[v].meant \subseteq Peers
      BY <1>0, <3>1, TaskOf
    <3>3. ASSUME NEW q \in task'[v].meant \ task'[v].todo
          PROVE  \E c \in Blocks : /\ c = task'[v].block
                                   /\ Heard(q, c)' \/ <<q, c>> \in dropped' \/ q \in ended'
      <4>1. CASE v = w /\ q = p
        BY <1>6, <1>7, <1>8, <1>15, <4>1
      <4>2. CASE ~(v = w /\ q = p)
        <5>1. PICK c \in Blocks : c = task[v].block
          BY <3>2
        <5>2. Heard(q, c) \/ <<q, c>> \in dropped \/ q \in ended
          BY <1>0, <3>1, <3>3, <4>2, <5>1 DEF Rest, TaskInv
        <5>3. QED
          BY <1>10, <1>15, <3>1, <3>2, <3>3, <5>1, <5>2 DEF HeardStays
      <4>3. QED
        BY <4>1, <4>2
    <3>4. task'[v].todo \subseteq task'[v].meant
      BY <1>0, <3>1 DEF Rest, TaskInv
    <3>5. QED
      BY <3>3, <3>4 DEF Heard
  <2>2. QED
    BY <2>1 DEF TaskInv
<1>18. QueuedInv'
  <2> SUFFICES ASSUME NEW v \in Workers, NEW q \in Peers, NEW c \in Blocks, <<v, q, c>> \in queued'
               PROVE  \/ c \in known[q]
                      \/ <<q, c>> \in forgotten
                      \/ /\ mark'[<<"worker", v>>] # Unmarked
                         /\ mark'[<<"worker", v>>].peer = q /\ mark'[<<"worker", v>>].block = c
    BY <1>5 DEF QueuedInv
  <2>1. CASE <<v, q, c>> \in queued
    <3>1. \/ c \in known[q] \/ <<q, c>> \in forgotten
          \/ /\ mark[<<"worker", v>>] # Unmarked
             /\ mark[<<"worker", v>>].peer = q /\ mark[<<"worker", v>>].block = c
      BY <1>0, <2>1 DEF Rest, QueuedInv
    <3>2. QED
      BY <1>5, <1>14, <3>1 DEF m
  <2>2. CASE <<v, q, c>> \notin queued
    BY <1>14, <1>15, <2>2 DEF m
  <2>3. QED
    BY <2>1, <2>2
<1>19. OwedIsHeard'
  BY <1>0, <1>5, <1>10, <1>15, OwedKept DEF Rest
<1>20. QueuedOnce'
  <2> SUFFICES ASSUME NEW v \in Workers, NEW q \in Peers, NEW c \in Blocks, <<v, q, c>> \in queued',
                      task'[v] # NoTask, task'[v].block = c, q \in task'[v].todo
               PROVE  <<q, c>> \in forgotten
    BY <1>5 DEF QueuedOnce
  <2>1. <<v, q, c>> \in queued /\ task[v] # NoTask /\ task[v].block = c /\ q \in task[v].todo
    BY <1>6, <1>7, <1>8, <1>15, <1>1
  <2>2. QED
    BY <1>0, <2>1 DEF Rest, QueuedOnce
<1>21. KnownBounded'
  BY <1>0, <1>5, <1>14, BoundKept
<1>22. QED
  BY <1>11, <1>14, <1>16, <1>17, <1>18, <1>19, <1>20, <1>21 DEF IInv, PropagationInv

-----------------------------------------------------------------------------
(* The size of the known sets                                              *)

LEMMA MarkersFinite ==
    ASSUME NEW p \in Peers
    PROVE  IsFiniteSet(MarkersOf(p)) /\ MarkersOf(p) \subseteq Markers
<1>1. IsFiniteSet({"worker"}) /\ IsFiniteSet({"broadcaster", "handler"}) /\ IsFiniteSet({p})
  <2>1. IsFiniteSet({"handler"})
    BY FS_Singleton
  <2>2. {"broadcaster", "handler"} = {"handler"} \cup {"broadcaster"}
    OBVIOUS
  <2>3. IsFiniteSet({"handler"} \cup {"broadcaster"})
    BY <2>1, FS_AddElement
  <2>4. IsFiniteSet({"worker"}) /\ IsFiniteSet({p})
    BY FS_Singleton
  <2>5. QED
    BY <2>2, <2>3, <2>4
<1>2. IsFiniteSet({"worker"} \X Workers) /\ IsFiniteSet({"broadcaster", "handler"} \X {p})
  BY <1>1, PropagationAssumption, FS_Product
<1>3. QED
  BY <1>2, FS_Union DEF MarkersOf, Markers

\* Who marks for a peer is one of those that may.
LEMMA MarkerOfPeer ==
    ASSUME MarkInv, NEW m \in Markers, mark[m] # Unmarked, mark[m].peer \in Peers
    PROVE  m \in MarkersOf(mark[m].peer)
<1>1. CASE m \in {"worker"} \X Workers
  BY <1>1 DEF MarkersOf
<1>2. CASE m \in {"broadcaster", "handler"} \X Peers
  <2>1. PICK p \in Peers : m = <<"broadcaster", p>> \/ m = <<"handler", p>>
    BY <1>2
  <2>2. mark[m].peer = p
    BY <2>1 DEF MarkInv
  <2>3. QED
    BY <2>1, <2>2 DEF MarkersOf
<1>3. QED
  BY <1>1, <1>2 DEF Markers

\* Blocks are finitely many, so is what a peer knows.
LEMMA KnownFinite ==
    ASSUME TypeOK, NEW p \in Peers
    PROVE  IsFiniteSet(known[p]) /\ Cardinality(known[p]) \in Nat
<1>1. known[p] \in SUBSET Blocks
  BY DEF TypeOK
<1>2. IsFiniteSet(known[p])
  BY <1>1, PropagationAssumption, FS_Subset
<1>3. QED
  BY <1>2, FS_CardinalityType

LEMMA MarkBounded == ASSUME IInv, NEW m \in Markers, MarkStep(m) PROVE KnownBounded'
<1>0. TypeOK /\ MarkInv /\ KnownBounded
  BY InvIs DEF Rest
<1> DEFINE q == mark[m].peer
           c == mark[m].block
<1>1. PICK p \in Peers : p = q
  BY <1>0, MarkStepIs
<1>2. mark[m] # Unmarked /\ mark[m].at \in {"room", "pop", "add"} /\ m \in MarkersOf(p)
  BY <1>0, <1>1, MarkerOfPeer DEF MarkStep, Room, Pop, Add, Unmarked
<1>3. /\ IsFiniteSet(MarkersOf(p)) /\ Cardinality(MarkersOf(p)) \in Nat
      /\ Adding(p) \subseteq MarkersOf(p)
      /\ IsFiniteSet(Adding(p)) /\ Cardinality(Adding(p)) \in Nat
  BY MarkersFinite, FS_CardinalityType, FS_Subset DEF Adding
<1>4. IsFiniteSet(known[p]) /\ Cardinality(known[p]) \in Nat /\ maxKnownBlocks \in Nat
  BY <1>0, KnownFinite, PropagationAssumption
<1>5. /\ known \in [Peers -> SUBSET Blocks]
      /\ mark \in [Markers -> Marking \cup {Unmarked}]
  BY <1>0 DEF TypeOK
<1>6. Cardinality(known[p]) + Cardinality(Adding(p)) < maxKnownBlocks + Cardinality(MarkersOf(p))
  BY <1>0 DEF KnownBounded
\* What one step does to the sum for p.
<1>7. Cardinality(known'[p]) + Cardinality(Adding(p)') < maxKnownBlocks + Cardinality(MarkersOf(p))
  <2>1. CASE Room(m)
    <3>1. known' = known /\ mark[m].at = "room"
      BY <2>1 DEF Room
    <3>2. m \notin Adding(p)
      BY <3>1 DEF Adding
    <3>3. CASE Cardinality(known[p]) >= maxKnownBlocks
      <4>1. mark' = [mark EXCEPT ![m].at = "pop"]
        BY <1>1, <2>1, <3>3 DEF Room
      <4>2. Adding(p)' = Adding(p)
        BY <1>5, <3>1, <4>1, MarkersFinite DEF Adding, MarkersOf
      <4>3. QED
        BY <1>6, <3>1, <4>2
    <3>4. CASE ~(Cardinality(known[p]) >= maxKnownBlocks)
      <4>1. mark' = [mark EXCEPT ![m].at = "add"]
        BY <1>1, <2>1, <3>4 DEF Room
      <4>2. mark[m] \in Marking /\ mark'[m].at = "add" /\ mark'[m].peer = p
            /\ \A n \in Markers : n # m => mark'[n] = mark[n]
        BY <1>0, <1>1, <1>2, <1>5, <4>1, MarkingRecord DEF Marking
      <4>6. \A n \in MarkersOf(p) : n \in Markers
        BY MarkersFinite
      <4>7. \A n \in MarkersOf(p) : (mark'[n].at = "add" /\ mark'[n].peer = p)
                                       <=> (n = m \/ (mark[n].at = "add" /\ mark[n].peer = p))
        BY <4>2, <4>6
      <4>8. Adding(p)' = {n \in MarkersOf(p) : mark'[n].at = "add" /\ mark'[n].peer = p}
        BY DEF Adding, MarkersOf
      <4>3. Adding(p)' = Adding(p) \cup {m}
        BY <1>2, <4>7, <4>8 DEF Adding
      <4>4. Cardinality(Adding(p) \cup {m}) <= Cardinality(MarkersOf(p))
        BY <1>2, <1>3, FS_Subset
      <4>5. Cardinality(Adding(p)') <= Cardinality(MarkersOf(p)) /\ Cardinality(Adding(p)') \in Nat
        <5>1. IsFiniteSet(Adding(p) \cup {m})
          BY <1>3, FS_AddElement
        <5>2. Cardinality(Adding(p) \cup {m}) \in Nat
          BY <5>1, FS_CardinalityType
        <5>3. QED
          BY <4>3, <4>4, <5>2
      <4>9. known'[p] = known[p]
        BY <3>1
      <4>10. \A x, a, b, k \in Nat : a <= b /\ ~(x >= k) => x + a < k + b
        OBVIOUS
      <4>11. QED
        BY <1>3, <1>4, <3>4, <4>5, <4>9, <4>10
    <3>5. QED
      BY <3>3, <3>4
  <2>2. CASE Pop(m)
    <3>1. mark' = [mark EXCEPT ![m].at = "room"] /\ mark[m].at = "pop"
      BY <2>2 DEF Pop
    <3>2. Adding(p)' = Adding(p)
      BY <1>5, <3>1, MarkersFinite DEF Adding, MarkersOf
    <3>3. known'[p] \subseteq known[p]
      BY <1>1, <1>5, <2>2 DEF Pop
    <3>4. Cardinality(known'[p]) <= Cardinality(known[p]) /\ Cardinality(known'[p]) \in Nat
      BY <1>4, <3>3, FS_Subset, FS_CardinalityType
    <3>5. QED
      BY <1>3, <1>4, <1>6, <3>2, <3>4
  <2>3. CASE Add(m)
    <3>1. /\ mark[m].at = "add" /\ mark' = [mark EXCEPT ![m] = Unmarked]
          /\ known' = [known EXCEPT ![p] = @ \cup {c}]
      BY <1>1, <2>3 DEF Add
    <3>2. m \in Adding(p)
      BY <1>1, <1>2, <3>1 DEF Adding
    <3>3. Unmarked.at # "add" /\ mark'[m] = Unmarked /\ \A n \in Markers : n # m => mark'[n] = mark[n]
      BY <1>5, <3>1 DEF Unmarked
    <3>4. Adding(p)' = Adding(p) \ {m}
      BY <3>3, MarkersFinite DEF Adding, MarkersOf
    <3>5. Cardinality(Adding(p)') = Cardinality(Adding(p)) - 1
      BY <1>3, <3>2, <3>4, FS_RemoveElement
    <3>6. known'[p] = known[p] \cup {c}
      BY <1>5, <3>1
    <3>7. Cardinality(known'[p]) <= Cardinality(known[p]) + 1 /\ Cardinality(known'[p]) \in Nat
      <4>1. PICK b : b = c
        OBVIOUS
      <4>2. known'[p] = known[p] \cup {b}
        BY <3>6, <4>1
      <4>3. IsFiniteSet(known[p] \cup {b})
            /\ Cardinality(known[p] \cup {b}) = (IF b \in known[p] THEN Cardinality(known[p])
                                                                      ELSE Cardinality(known[p]) + 1)
        BY <1>4, FS_AddElement
      <4>4. Cardinality(known[p] \cup {b}) \in Nat
        BY <4>3, FS_CardinalityType
      <4>5. Cardinality(known[p] \cup {b}) <= Cardinality(known[p]) + 1
        BY <1>4, <4>3
      <4>6. QED
        BY <4>2, <4>4, <4>5
    <3>8. QED
      BY <1>3, <1>4, <1>6, <3>5, <3>7
  <2>4. QED
    BY <2>1, <2>2, <2>3 DEF MarkStep
\* Nothing changes for the other peers.
<1>8. ASSUME NEW r \in Peers, r # p PROVE known'[r] = known[r] /\ Adding(r)' = Adding(r)
  <2>1. known'[r] = known[r]
    BY <1>1, <1>5, <1>8 DEF MarkStep, Room, Pop, Add
  <2>2. /\ \A n \in Markers : n # m => mark'[n] = mark[n]
        /\ mark'[m] # Unmarked => mark'[m].peer = p
    BY <1>0, <1>1, MarkStepIs
  <2>3. mark[m].peer # r /\ ~(mark'[m].at = "add" /\ mark'[m].peer = r)
    BY <1>1, <1>8, <2>2 DEF Unmarked
  <2>4. Adding(r)' = Adding(r)
    BY <2>2, <2>3, MarkersFinite DEF Adding, MarkersOf
  <2>5. QED
    BY <2>1, <2>4
<1>9. QED
  BY <1>0, <1>7, <1>8 DEF KnownBounded, MarkersOf

-----------------------------------------------------------------------------
(* The theorems                                                            *)

LEMMA InitInvariant == Init => IInv
<1> SUFFICES ASSUME Init PROVE IInv
  OBVIOUS
<1>1. PICK s \in Setups :
         /\ session = [p \in Peers |-> IF p \in s.connect THEN "new" ELSE "closed"]
         /\ broadcasts = s.broadcasts
         /\ ended = Peers \ s.connect
  BY DEF Init
<1>2. s.broadcasts \in [Workers -> Nat]
  BY PropagationAssumption
<1>3. TypeOK
  BY <1>1, <1>2 DEF Init, TypeOK
<1>4. \A m \in Markers : mark[m] = Unmarked
  BY DEF Init
<1>5. \A w \in Workers : task[w] = NoTask
  BY DEF Init
<1>6. KnownMeansHeard /\ TaskInv /\ QueuedInv /\ OwedIsHeard /\ QueuedOnce
  BY <1>5 DEF Init, KnownMeansHeard, TaskInv, QueuedInv, OwedIsHeard, QueuedOnce
<1>7. MarkInv
  BY <1>4, MarkersAre DEF MarkInv
<1>8. KnownBounded
  <2> SUFFICES ASSUME NEW p \in Peers
               PROVE  Cardinality(known[p]) + Cardinality(Adding(p)) < maxKnownBlocks + Cardinality(MarkersOf(p))
    BY DEF KnownBounded
  <2>1. known[p] = {} /\ Adding(p) = {}
    BY <1>4, MarkersFinite DEF Init, Adding, Unmarked
  <2>2. Cardinality(known[p]) = 0 /\ Cardinality(Adding(p)) = 0
    BY <2>1, FS_EmptySet
  <2>3. Cardinality(MarkersOf(p)) \in Nat /\ maxKnownBlocks \in Nat \ {0}
    BY MarkersFinite, FS_CardinalityType, PropagationAssumption
  <2>4. QED
    BY <2>2, <2>3
<1>9. QED
  BY <1>3, <1>6, <1>7, <1>8 DEF IInv, PropagationInv

LEMMA StepInvariant == IInv /\ [Next]_vars => IInv'
<1> SUFFICES ASSUME IInv, [Next]_vars PROVE IInv'
  OBVIOUS
<1>1. ASSUME NEW m \in Markers, MarkStep(m) PROVE IInv'
  BY <1>1, StepMark, MarkBounded DEF IInv, PropagationInv, Rest
<1>2. CASE \E w \in Workers, b \in Blocks : BroadcastBlockToAll(w, b) \/ Propagate(w, b) \/ Announce(w, b)
  BY <1>2, StepBroadcasts
<1>3. CASE \E w \in Workers : WorkerStep(w)
  BY <1>1, <1>3, StepOffers, StepFinish, MarkersAre DEF WorkerStep
<1>4. CASE \E p \in Peers : BroadcasterStep(p)
  BY <1>1, <1>4, StepTakes, StepSent, MarkersAre DEF BroadcasterStep
<1>5. CASE \E p \in Peers : BroadcasterEnds(p)
  BY <1>5, StepBroadcasterEnds
<1>6. CASE \E p \in Peers : SessionStep(p)
  BY <1>6, StepSession
<1>7. CASE \E p \in Peers : MarkStep(<<"handler", p>>)
  BY <1>1, <1>7, MarkersAre
<1>8. CASE \E p \in Peers, b \in Blocks : markBlock(p, b)
  BY <1>8, StepMarksBlock
<1>9. CASE \E b \in Blocks : Insert(b)
  BY <1>9, StepInsert
<1>10. CASE UNCHANGED vars
  BY <1>10, StepStutters
<1>11. QED
  BY <1>2, <1>3, <1>4, <1>5, <1>6, <1>7, <1>8, <1>9, <1>10 DEF Next

LEMMA Invariant == Spec => []IInv
  BY InitInvariant, StepInvariant, PTL DEF Spec

\* What a peer is taken to know has been told, sent or queued, and the known sets stay
\* near their limit, with any number of peers and goroutines (peer.go:174, :348).
THEOREM PropagationInvariant == Spec => []PropagationInv
<1>1. IInv => PropagationInv
  BY DEF IInv
<1>2. QED
  BY <1>1, Invariant, PTL

\* Every peer that was registered when a broadcast to all or an announcement began has
\* the block, has it coming, met a full queue, or lost its connection.
THEOREM NobodyPassedOver == Spec => []OwedIsHeard
<1>1. IInv => OwedIsHeard
  BY DEF IInv
<1>2. QED
  BY <1>1, Invariant, PTL

\* A goroutine queues a block for a peer once, unless the peer's set forgot it.
THEOREM OfferedOnce == Spec => []QueuedOnce
<1>1. IInv => QueuedOnce
  BY DEF IInv
<1>2. QED
  BY <1>1, Invariant, PTL
=============================================================================
