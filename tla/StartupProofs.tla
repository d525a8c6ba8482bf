--------------------------- MODULE StartupProofs ---------------------------
(***************************************************************************)
(* What holds of Startup for any sets of configurations and any height of  *)
(* the chain.  A configuration without a conflict at a block has the rules *)
(* of the stored one up to that block (AgreesBelow), and the comparison    *)
(* only stops where there is none, or at the genesis block (StartInv).     *)
(***************************************************************************)
EXTENDS Startup, TLAPS, SequenceTheorems

Plain == Forks \ {"Petersburg", "Catalyst"}

-----------------------------------------------------------------------------
(* checkCompatible                                                         *)

\* A set of comparisons that is not empty has a first one.
LEMMA FirstOfChecks ==
    ASSUME NEW S \in SUBSET (1 .. 15), S # {}
    PROVE  \E i \in S : \A j \in S : i <= j
<1> SUFFICES ASSUME \A i \in S : \E j \in S : j < i PROVE FALSE
  OBVIOUS
<1>1. 1 \notin S
  OBVIOUS
<1>2. 2 \notin S
  BY <1>1
<1>3. 3 \notin S
  BY <1>1, <1>2
<1>4. 4 \notin S
  BY <1>1, <1>2, <1>3
<1>5. 5 \notin S
  BY <1>1, <1>2, <1>3, <1>4
<1>6. 6 \notin S
  BY <1>1, <1>2, <1>3, <1>4, <1>5
<1>7. S \cap (1 .. 6) = {}
  BY <1>1, <1>2, <1>3, <1>4, <1>5, <1>6
<1>8. 7 \notin S
  BY <1>7
<1>9. 8 \notin S
  BY <1>7, <1>8
<1>10. 9 \notin S
  BY <1>7, <1>8, <1>9
<1>11. 10 \notin S
  BY <1>7, <1>8, <1>9, <1>10
<1>12. S \cap (1 .. 10) = {}
  BY <1>7, <1>8, <1>9, <1>10, <1>11
<1>13. 11 \notin S
  BY <1>12
<1>14. 12 \notin S
  BY <1>12, <1>13
<1>15. 13 \notin S
  BY <1>12, <1>13, <1>14
<1>16. 14 \notin S
  BY <1>12, <1>13, <1>14, <1>15
<1>17. 15 \notin S
  BY <1>12, <1>13, <1>14, <1>15, <1>16
<1>18. ASSUME NEW i \in S PROVE FALSE
  <2>1. i \in 11 .. 15
    BY <1>12
  <2>2. i = 11 \/ i = 12 \/ i = 13 \/ i = 14 \/ i = 15
    BY <2>1
  <2>3. QED
    BY <2>2, <1>13, <1>14, <1>15, <1>16, <1>17
<1>19. QED
  BY <1>18

\* The comparisons in their order.
LEMMA ChecksAre ==
    /\ Checks[1] = "Homestead" /\ Checks[2] = "DAO" /\ Checks[3] = "DAO support"
    /\ Checks[4] = "EIP150" /\ Checks[5] = "EIP155" /\ Checks[6] = "EIP158"
    /\ Checks[7] = "chain ID" /\ Checks[8] = "Byzantium" /\ Checks[9] = "Constantinople"
    /\ Checks[10] = "Petersburg" /\ Checks[11] = "Istanbul" /\ Checks[12] = "MuirGlacier"
    /\ Checks[13] = "Berlin" /\ Checks[14] = "YoloV3" /\ Checks[15] = "EWASM"
  BY DEF Checks

\* An error names the fork of a comparison.
LEMMA ForkOfType == ASSUME NEW i \in 1 .. 15 PROVE ForkOf(Checks[i]) \in Forks \ {"Catalyst"}
<1>1. CASE i \in 1 .. 5
  <2>1. i = 1 \/ i = 2 \/ i = 3 \/ i = 4 \/ i = 5
    BY <1>1
  <2>2. QED
    BY <2>1, ChecksAre DEF ForkOf, Forks
<1>2. CASE i \in 6 .. 10
  <2>1. i = 6 \/ i = 7 \/ i = 8 \/ i = 9 \/ i = 10
    BY <1>2
  <2>2. QED
    BY <2>1, ChecksAre DEF ForkOf, Forks
<1>3. CASE i \in 11 .. 15
  <2>1. i = 11 \/ i = 12 \/ i = 13 \/ i = 14 \/ i = 15
    BY <1>3
  <2>2. QED
    BY <2>1, ChecksAre DEF ForkOf, Forks
<1>4. QED
  BY <1>1, <1>2, <1>3

LEMMA ChecksLen == Len(Checks) = 15
  BY DEF Checks

\* Where a conflict rewinds to.
LEMMA RewindToType ==
    ASSUME NEW s \in Nat \cup {None}, NEW t \in Nat \cup {None}
    PROVE  RewindTo(s, t) \in Nat
  BY ForkAssumption DEF RewindTo, FirstOf

\* It is below the head when a fork of it is active there, or at the genesis block.
LEMMA RewindsBelow ==
    ASSUME NEW s \in Nat \cup {None}, NEW t \in Nat \cup {None}, NEW head \in Nat,
           isForked(s, head) \/ isForked(t, head)
    PROVE  RewindTo(s, t) = 0 \/ RewindTo(s, t) < head
  BY ForkAssumption DEF RewindTo, FirstOf, isForked

\* The comparison fails exactly when there is a conflict, and then rewinds to a block
\* below the head, or to the genesis block.
LEMMA CheckCompatible ==
    ASSUME NEW c \in ChainConfig, NEW d \in ChainConfig, NEW head \in Nat
    PROVE  /\ checkCompatible(c, d, head) \in Nat \cup {None}
           /\ checkCompatible(c, d, head) = None => Conflicts(c, d, head) = {}
           /\ checkCompatible(c, d, head) = head => head = 0
           /\ checkCompatible(c, d, head) # None =>
                 checkCompatible(c, d, head) = 0 \/ checkCompatible(c, d, head) < head
<1>1. CASE Conflicts(c, d, head) = {}
  BY <1>1, ForkAssumption DEF checkCompatible
<1>2. CASE Conflicts(c, d, head) # {}
  <2> DEFINE S == Conflicts(c, d, head)
             i == CHOOSE x \in S : \A y \in S : x <= y
             f == ForkOf(Checks[i])
  <2>1. S \in SUBSET (1 .. 15)
    BY ChecksLen DEF Conflicts
  <2>2. \E x \in S : \A y \in S : x <= y
    BY <1>2, <2>1, FirstOfChecks
  <2>3. i \in S
    BY <2>2
  <2>4. i \in 1 .. 15 /\ Conflict(c, d, head, Checks[i])
    BY <2>1, <2>3 DEF Conflicts
  <2>5. f \in Forks
    BY <2>4, ForkOfType
  <2>6. c.fork[f] \in Nat \cup {None} /\ d.fork[f] \in Nat \cup {None}
    BY <2>5 DEF ChainConfig
  <2>7. isForked(c.fork[f], head) \/ isForked(d.fork[f], head)
    <3>1. CASE Checks[i] = "DAO support"
      BY <2>4, <3>1 DEF Conflict, ForkOf, Active
    <3>2. CASE Checks[i] = "chain ID"
      BY <2>4, <3>2 DEF Conflict, ForkOf, Active
    <3>3. CASE Checks[i] = "Petersburg"
      BY <2>4, <3>3 DEF Conflict, ForkOf, isForkIncompatible
    <3>4. CASE Checks[i] \notin {"DAO support", "chain ID", "Petersburg"}
      BY <2>4, <3>4 DEF Conflict, ForkOf, isForkIncompatible
    <3>5. QED
      BY <3>1, <3>2, <3>3, <3>4
  <2>8. checkCompatible(c, d, head) = RewindTo(c.fork[f], d.fork[f])
    BY <1>2 DEF checkCompatible
  <2> HIDE DEF i, f
  <2>9. RewindTo(c.fork[f], d.fork[f]) \in Nat
    BY <2>6, RewindToType
  <2>10. RewindTo(c.fork[f], d.fork[f]) = 0 \/ RewindTo(c.fork[f], d.fork[f]) < head
    BY <2>6, <2>7, RewindsBelow
  <2>11. QED
    BY <2>8, <2>9, <2>10, ForkAssumption
<1>3. QED
  BY <1>1, <1>2

\* The later of two forks that are planned is active at no earlier block.
Follows(c, i, j) ==
    ~PassedOver(c, i) /\ c.fork[OrderedForks[j]] # None =>
        c.fork[OrderedForks[i]] # None /\ c.fork[OrderedForks[i]] <= c.fork[OrderedForks[j]]

LEMMA OrderedAre ==
    /\ Len(OrderedForks) = 11
    /\ \A i \in 1 .. 11 : OrderedForks[i] \in Forks
    /\ \A i \in (1 .. 11) \ {2, 10} : OrderedForks[i] \notin {"DAO", "MuirGlacier"}
<1>1. /\ Len(OrderedForks) = 11
      /\ OrderedForks[1] = "Homestead" /\ OrderedForks[2] = "DAO" /\ OrderedForks[3] = "EIP150"
      /\ OrderedForks[4] = "EIP155" /\ OrderedForks[5] = "EIP158" /\ OrderedForks[6] = "Byzantium"
      /\ OrderedForks[7] = "Constantinople" /\ OrderedForks[8] = "Petersburg"
      /\ OrderedForks[9] = "Istanbul" /\ OrderedForks[10] = "MuirGlacier" /\ OrderedForks[11] = "Berlin"
  BY DEF OrderedForks
<1>2. ASSUME NEW i \in 1 .. 11
      PROVE  /\ OrderedForks[i] \in Forks
             /\ i \notin {2, 10} => OrderedForks[i] \notin {"DAO", "MuirGlacier"}
  <2>1. CASE i \in 1 .. 5
    <3>1. i = 1 \/ i = 2 \/ i = 3 \/ i = 4 \/ i = 5
      BY <2>1
    <3>2. QED
      BY <1>1, <3>1 DEF Forks
  <2>2. CASE i \in 6 .. 11
    <3>1. i = 6 \/ i = 7 \/ i = 8 \/ i = 9 \/ i = 10 \/ i = 11
      BY <2>2
    <3>2. QED
      BY <1>1, <3>1 DEF Forks
  <2>3. QED
    BY <2>1, <2>2
<1>3. QED
  BY <1>1, <1>2

\* Only neighbours are compared, but what follows what follows i follows i.
LEMMA AllFollow ==
    ASSUME NEW c \in ChainConfig, CheckConfigForkOrder(c)
    PROVE  \A i, j \in 1 .. 11 : i < j => Follows(c, i, j)
<1>1. \A i \in 1 .. 11 : c.fork[OrderedForks[i]] \in Nat \cup {None}
  BY OrderedAre DEF ChainConfig
<1>2. \A i \in 1 .. 11 : PassedOver(c, i) => c.fork[OrderedForks[i]] = None /\ (i = 2 \/ i = 10)
  BY OrderedAre DEF PassedOver
\* Two forks with none between them, or none but one that is passed over.
<1>3. ASSUME NEW i \in 1 .. 11, NEW j \in 1 .. 11, i < j,
             \A k \in 1 .. 11 : i < k /\ k < j => PassedOver(c, k)
      PROVE  Follows(c, i, j)
  <2>1. PassedOver(c, j) => c.fork[OrderedForks[j]] = None
    BY <1>2
  <2>2. QED
    BY <1>3, <2>1, OrderedAre DEF CheckConfigForkOrder, Follows
<1>4. ASSUME NEW i \in 1 .. 11, NEW j \in 1 .. 11, NEW k \in 1 .. 11, Follows(c, i, j),
             Follows(c, j, k), ~PassedOver(c, j)
      PROVE  Follows(c, i, k)
  BY <1>1, <1>4, ForkAssumption DEF Follows
\* All forks before j are followed by j.
<1> DEFINE All(j) == \A i \in 1 .. 11 : i < j => Follows(c, i, j)
<1>5. ASSUME NEW j \in 2 .. 11, All(j - 1), j > 2 => All(j - 2) PROVE All(j)
  <2> SUFFICES ASSUME NEW i \in 1 .. 11, i < j PROVE Follows(c, i, j)
    OBVIOUS
  <2>1. CASE i = j - 1
    BY <1>3, <2>1
  <2>2. CASE i < j - 1 /\ ~PassedOver(c, j - 1)
    <3>1. j - 1 \in 1 .. 11 /\ j - 1 < j
      BY <2>2
    <3>2. Follows(c, i, j - 1)
      BY <1>5, <2>2
    <3>3. Follows(c, j - 1, j)
      BY <1>3, <3>1
    <3>4. QED
      BY <1>4, <2>2, <3>1, <3>2, <3>3
  <2>3. CASE i = j - 2 /\ PassedOver(c, j - 1)
    <3>1. \A k \in 1 .. 11 : i < k /\ k < j => k = j - 1
      BY <2>3
    <3>2. QED
      BY <1>3, <2>3, <3>1
  <2>4. CASE i < j - 2 /\ PassedOver(c, j - 1)
    <3>1. j - 2 \in 1 .. 11 /\ j - 1 \in 1 .. 11 /\ j > 2 /\ j - 2 < j
      BY <2>4
    <3>2. j - 1 = 2 \/ j - 1 = 10
      BY <1>2, <2>4, <3>1
    <3>3. ~PassedOver(c, j - 2)
      BY <1>2, <3>1, <3>2
    <3>4. Follows(c, i, j - 2)
      BY <1>5, <2>4, <3>1
    <3>5. \A k \in 1 .. 11 : j - 2 < k /\ k < j => k = j - 1
      OBVIOUS
    <3>6. Follows(c, j - 2, j)
      BY <1>3, <2>4, <3>1, <3>5
    <3>7. QED
      BY <1>4, <3>1, <3>3, <3>4, <3>6
  <2>5. QED
    BY <2>1, <2>2, <2>3, <2>4
<1>6. All(1)
  OBVIOUS
<1> HIDE DEF All
<1>7. All(2)
  <2>1. 2 \in 2 .. 11 /\ 2 - 1 = 1 /\ 2 - 2 = 0
    OBVIOUS
  <2>2. QED
    BY <2>1, <1>5, <1>6
<1>8. All(3)
  <2>1. 3 \in 2 .. 11 /\ 3 - 1 = 2 /\ 3 - 2 = 1
    OBVIOUS
  <2>2. QED
    BY <2>1, <1>5, <1>7, <1>6
<1>9. All(4)
  <2>1. 4 \in 2 .. 11 /\ 4 - 1 = 3 /\ 4 - 2 = 2
    OBVIOUS
  <2>2. QED
    BY <2>1, <1>5, <1>8, <1>7
<1>10. All(5)
  <2>1. 5 \in 2 .. 11 /\ 5 - 1 = 4 /\ 5 - 2 = 3
    OBVIOUS
  <2>2. QED
    BY <2>1, <1>5, <1>9, <1>8
<1>11. All(6)
  <2>1. 6 \in 2 .. 11 /\ 6 - 1 = 5 /\ 6 - 2 = 4
    OBVIOUS
  <2>2. QED
    BY <2>1, <1>5, <1>10, <1>9
<1>12. All(7)
  <2>1. 7 \in 2 .. 11 /\ 7 - 1 = 6 /\ 7 - 2 = 5
    OBVIOUS
  <2>2. QED
    BY <2>1, <1>5, <1>11, <1>10
<1>13. All(8)
  <2>1. 8 \in 2 .. 11 /\ 8 - 1 = 7 /\ 8 - 2 = 6
    OBVIOUS
  <2>2. QED
    BY <2>1, <1>5, <1>12, <1>11
<1>14. All(9)
  <2>1. 9 \in 2 .. 11 /\ 9 - 1 = 8 /\ 9 - 2 = 7
    OBVIOUS
  <2>2. QED
    BY <2>1, <1>5, <1>13, <1>12
<1>15. All(10)
  <2>1. 10 \in 2 .. 11 /\ 10 - 1 = 9 /\ 10 - 2 = 8
    OBVIOUS
  <2>2. QED
    BY <2>1, <1>5, <1>14, <1>13
<1>16. All(11)
  <2>1. 11 \in 2 .. 11 /\ 11 - 1 = 10 /\ 11 - 2 = 9
    OBVIOUS
  <2>2. QED
    BY <2>1, <1>5, <1>15, <1>14
<1>17. ASSUME NEW i \in 1 .. 11, NEW j \in 1 .. 11, i < j PROVE Follows(c, i, j)
  <2>1. All(j)
    <3>1. CASE j \in 1 .. 6
      <4>1. j = 1 \/ j = 2 \/ j = 3 \/ j = 4 \/ j = 5 \/ j = 6
        BY <3>1
      <4>2. QED
        BY <4>1, <1>6, <1>7, <1>8, <1>9, <1>10, <1>11
    <3>2. CASE j \in 7 .. 11
      <4>1. j = 7 \/ j = 8 \/ j = 9 \/ j = 10 \/ j = 11
        BY <3>2
      <4>2. QED
        BY <4>1, <1>12, <1>13, <1>14, <1>15, <1>16
    <3>3. QED
      BY <3>1, <3>2
  <2>2. QED
    BY <1>17, <2>1 DEF All
<1>18. QED
  BY <1>17

\* With a fork active every earlier one is, unless it is optional and not planned.
LEMMA InOrder ==
    ASSUME NEW c \in ChainConfig, CheckConfigForkOrder(c), NEW num \in Nat
    PROVE  ForksInOrder(c, num)
<1> SUFFICES ASSUME NEW i \in 1 .. 11, NEW j \in 1 .. 11, i < j, ~PassedOver(c, i),
                    Active(c, OrderedForks[j], num)
             PROVE  Active(c, OrderedForks[i], num)
  BY OrderedAre DEF ForksInOrder
<1>1. /\ c.fork[OrderedForks[i]] \in Nat \cup {None}
      /\ c.fork[OrderedForks[j]] \in Nat \cup {None}
  BY OrderedAre DEF ChainConfig
<1>2. Follows(c, i, j)
  BY AllFollow
<1>3. QED
  BY <1>1, <1>2, ForkAssumption DEF Follows, Active, isForked

\* A configuration in order has Petersburg at Constantinople or after it.
LEMMA PetersburgAfter ==
    ASSUME NEW c \in ChainConfig, CheckConfigForkOrder(c), c.fork["Petersburg"] # None
    PROVE  c.fork["Constantinople"] # None /\ c.fork["Constantinople"] <= c.fork["Petersburg"]
<1>1. Len(OrderedForks) = 11 /\ OrderedForks[7] = "Constantinople" /\ OrderedForks[8] = "Petersburg"
  BY DEF OrderedForks
<1>2. ~PassedOver(c, 7) /\ ~PassedOver(c, 8)
  BY <1>1 DEF PassedOver
<1>3. \A k \in 1 .. 11 : ~(7 < k /\ k < 8)
  OBVIOUS
<1>4. QED
  BY <1>1, <1>2, <1>3 DEF CheckConfigForkOrder

\* Of two blocks of a fork the first is no later than the block after the one to rewind to.
LEMMA FirstBlock ==
    ASSUME NEW s \in Nat \cup {None}, NEW t \in Nat \cup {None}, NEW head \in Nat,
           isForked(s, head) \/ isForked(t, head)
    PROVE  /\ isForked(s, RewindTo(s, t) + 1) \/ isForked(t, RewindTo(s, t) + 1)
           /\ s = t => isForked(s, RewindTo(s, t) + 1)
<1>1. CASE s = None
  <2>1. t \in Nat /\ s # t
    BY <1>1, ForkAssumption DEF isForked
  <2>2. RewindTo(s, t) + 1 >= t
    <3>1. t # None
      BY <2>1, ForkAssumption
    <3>2. RewindTo(s, t) = IF t > 0 THEN t - 1 ELSE 0
      BY <1>1, <2>1, <3>1 DEF RewindTo, FirstOf
    <3>3. QED
      BY <2>1, <3>2
  <2>3. isForked(t, RewindTo(s, t) + 1)
    BY <2>1, <2>2, ForkAssumption DEF isForked
  <2>4. QED
    BY <2>1, <2>3
<1>2. CASE t = None
  <2>1. s \in Nat /\ s # t
    BY <1>2, ForkAssumption DEF isForked
  <2>2. RewindTo(s, t) + 1 >= s
    BY <1>2, <2>1, ForkAssumption DEF RewindTo, FirstOf
  <2>3. isForked(s, RewindTo(s, t) + 1)
    BY <2>1, <2>2, ForkAssumption DEF isForked
  <2>4. QED
    BY <2>1, <2>3
<1>3. CASE s \in Nat /\ t \in Nat
  <2>1. s # None /\ t # None
    BY <1>3, ForkAssumption
  <2>2. RewindTo(s, t) \in Nat
    BY RewindToType
  <2>3. CASE s < t
    <3>1. RewindTo(s, t) + 1 >= s
      BY <1>3, <2>1, <2>3 DEF RewindTo, FirstOf
    <3>2. QED
      BY <1>3, <2>1, <2>3, <3>1 DEF isForked
  <2>4. CASE ~(s < t)
    <3>1. RewindTo(s, t) + 1 >= t
      BY <1>3, <2>1, <2>4 DEF RewindTo, FirstOf
    <3>2. QED
      BY <1>3, <2>1, <2>4, <3>1 DEF isForked
  <2>5. QED
    BY <2>3, <2>4
<1>4. QED
  BY <1>1, <1>2, <1>3

\* The block after the one to rewind to is in conflict already.
LEMMA RewindsToConflict ==
    ASSUME NEW c \in ChainConfig, NEW d \in ChainConfig, NEW head \in Nat, CheckConfigForkOrder(c),
           checkCompatible(c, d, head) # None
    PROVE  Conflicts(c, d, checkCompatible(c, d, head) + 1) # {}
<1> DEFINE S == Conflicts(c, d, head)
           i == CHOOSE x \in S : \A y \in S : x <= y
           f == ForkOf(Checks[i])
           h == RewindTo(c.fork[f], d.fork[f]) + 1
<1>1. S # {} /\ S \in SUBSET (1 .. 15)
  BY ChecksLen DEF checkCompatible, Conflicts
<1>2. i \in S
  BY <1>1, FirstOfChecks
<1>3. i \in 1 .. 15 /\ Conflict(c, d, head, Checks[i])
  BY <1>1, <1>2 DEF Conflicts
<1>4. checkCompatible(c, d, head) = RewindTo(c.fork[f], d.fork[f])
  BY <1>1 DEF checkCompatible
<1>5. /\ c.fork[f] \in Nat \cup {None} /\ d.fork[f] \in Nat \cup {None}
      /\ c.fork["Constantinople"] \in Nat \cup {None}
  <2>1. f \in Forks /\ "Constantinople" \in Forks
    BY <1>3, ForkOfType DEF Forks
  <2>2. QED
    BY <2>1 DEF ChainConfig
<1> HIDE DEF S, i, f
<1>6. h \in Nat
  <2>1. RewindTo(c.fork[f], d.fork[f]) \in Nat
    BY <1>5, RewindToType
  <2>2. QED
    BY <2>1
<1>7. \A j \in 1 .. 15 : Conflict(c, d, h, Checks[j]) => Conflicts(c, d, h) # {}
  BY ChecksLen DEF Conflicts
<1>8. ASSUME isForked(c.fork[f], head) \/ isForked(d.fork[f], head)
      PROVE  /\ isForked(c.fork[f], h) \/ isForked(d.fork[f], h)
             /\ c.fork[f] = d.fork[f] => isForked(c.fork[f], h)
  BY <1>5, <1>8, FirstBlock
<1>14. checkCompatible(c, d, head) + 1 = h
  BY <1>4
<1> HIDE DEF h
<1>15. 2 \in 1 .. 15 /\ 3 \in 1 .. 15 /\ 6 \in 1 .. 15 /\ 7 \in 1 .. 15 /\ 10 \in 1 .. 15
  OBVIOUS
<1>9. CASE Checks[i] = "DAO support"
  <2>1. f = "DAO" /\ isForked(c.fork[f], head) /\ c.DAOForkSupport # d.DAOForkSupport
    BY <1>3, <1>9 DEF f, ForkOf, Conflict, Active
  <2>2. CASE c.fork[f] = d.fork[f]
    <3>1. Conflict(c, d, h, Checks[3])
      BY <1>8, <2>1, <2>2, ChecksAre DEF Conflict, Active
    <3>2. QED
      BY <1>7, <1>14, <1>15, <3>1
  <2>3. CASE c.fork[f] # d.fork[f]
    <3>1. Conflict(c, d, h, Checks[2])
      BY <1>8, <2>1, <2>3, ChecksAre DEF Conflict, isForkIncompatible
    <3>2. QED
      BY <1>7, <1>14, <1>15, <3>1
  <2>4. QED
    BY <2>2, <2>3
<1>10. CASE Checks[i] = "chain ID"
  <2>1. f = "EIP158" /\ isForked(c.fork[f], head) /\ c.ChainID # d.ChainID
    BY <1>3, <1>10 DEF f, ForkOf, Conflict, Active
  <2>2. CASE c.fork[f] = d.fork[f]
    <3>1. Conflict(c, d, h, Checks[7])
      BY <1>8, <2>1, <2>2, ChecksAre DEF Conflict, Active
    <3>2. QED
      BY <1>7, <1>14, <1>15, <3>1
  <2>3. CASE c.fork[f] # d.fork[f]
    <3>1. Conflict(c, d, h, Checks[6])
      BY <1>8, <2>1, <2>3, ChecksAre DEF Conflict, isForkIncompatible
    <3>2. QED
      BY <1>7, <1>14, <1>15, <3>1
  <2>4. QED
    BY <2>2, <2>3
<1>11. CASE Checks[i] = "Petersburg"
  <2> DEFINE cp == c.fork["Petersburg"]
             dp == d.fork["Petersburg"]
             cc == c.fork["Constantinople"]
  <2>1. /\ f = "Petersburg" /\ cp # dp /\ cc # dp
        /\ isForked(cp, head) \/ isForked(dp, head)
    BY <1>3, <1>11 DEF f, ForkOf, Conflict, isForkIncompatible
  <2>2. isForked(cp, h) \/ isForked(dp, h)
    BY <1>8, <2>1
  <2>3. isForked(cp, h) => isForked(cc, h)
    <3> SUFFICES ASSUME isForked(cp, h) PROVE isForked(cc, h)
      OBVIOUS
    <3>1. cp # None /\ cp \in Nat /\ cp <= h
      BY <1>5, <2>1 DEF isForked
    <3>2. cc # None /\ cc <= cp
      BY <3>1, PetersburgAfter
    <3>3. QED
      BY <1>5, <1>6, <3>1, <3>2 DEF isForked
  <2>4. Conflict(c, d, h, Checks[10])
    BY <2>1, <2>2, <2>3, ChecksAre DEF Conflict, isForkIncompatible
  <2>5. QED
    BY <1>7, <1>14, <1>15, <2>4
<1>12. CASE Checks[i] \notin {"DAO support", "chain ID", "Petersburg"}
  <2>1. /\ f = Checks[i] /\ c.fork[f] # d.fork[f]
        /\ isForked(c.fork[f], head) \/ isForked(d.fork[f], head)
    BY <1>3, <1>12 DEF f, ForkOf, Conflict, isForkIncompatible
  <2>2. Conflict(c, d, h, Checks[i])
    BY <1>8, <1>12, <2>1 DEF Conflict, isForkIncompatible
  <2>3. QED
    BY <1>3, <1>7, <1>14, <2>2
<1>13. QED
  BY <1>14, <1>9, <1>10, <1>11, <1>12

-----------------------------------------------------------------------------
(* Rules without a conflict                                                *)

\* Without a conflict no fork is in the way of another block.
LEMMA NoConflict ==
    ASSUME NEW c, NEW d, NEW head, Conflicts(c, d, head) = {}
    PROVE  /\ \A f \in Plain : ~isForkIncompatible(c.fork[f], d.fork[f], head)
           /\ Active(c, "DAO", head) => c.DAOForkSupport = d.DAOForkSupport
           /\ Active(c, "EIP158", head) => c.ChainID = d.ChainID
           /\ \/ ~isForkIncompatible(c.fork["Petersburg"], d.fork["Petersburg"], head)
              \/ ~isForkIncompatible(c.fork["Constantinople"], d.fork["Petersburg"], head)
<1>1. \A i \in 1 .. 15 : ~Conflict(c, d, head, Checks[i])
  BY ChecksLen DEF Conflicts
<1>2. ASSUME NEW f \in Plain PROVE ~isForkIncompatible(c.fork[f], d.fork[f], head)
  <2>1. \E i \in 1 .. 15 : f = Checks[i]
    <3>1. CASE f \in {"Homestead", "DAO", "EIP150", "EIP155"}
      <4>1. f = Checks[1] \/ f = Checks[2] \/ f = Checks[4] \/ f = Checks[5]
        BY <3>1, ChecksAre
      <4>2. QED
        BY <4>1
    <3>2. CASE f \in {"EIP158", "Byzantium", "Constantinople", "Istanbul"}
      <4>1. f = Checks[6] \/ f = Checks[8] \/ f = Checks[9] \/ f = Checks[11]
        BY <3>2, ChecksAre
      <4>2. QED
        BY <4>1
    <3>3. CASE f \in {"MuirGlacier", "Berlin", "YoloV3", "EWASM"}
      <4>1. f = Checks[12] \/ f = Checks[13] \/ f = Checks[14] \/ f = Checks[15]
        BY <3>3, ChecksAre
      <4>2. QED
        BY <4>1
    <3>4. QED
      BY <1>2, <3>1, <3>2, <3>3 DEF Plain, Forks
  <2>2. PICK i \in 1 .. 15 : f = Checks[i]
    BY <2>1
  <2>3. ~Conflict(c, d, head, Checks[i])
    BY <1>1
  <2>4. f \notin {"DAO support", "chain ID", "Petersburg"}
    BY <1>2 DEF Plain, Forks
  <2>5. QED
    BY <2>2, <2>3, <2>4 DEF Conflict
<1>3. ~Conflict(c, d, head, Checks[3]) /\ ~Conflict(c, d, head, Checks[7]) /\ ~Conflict(c, d, head, Checks[10])
  BY <1>1
<1>4. Active(c, "DAO", head) => c.DAOForkSupport = d.DAOForkSupport
  BY <1>3, ChecksAre DEF Conflict
<1>5. Active(c, "EIP158", head) => c.ChainID = d.ChainID
  BY <1>3, ChecksAre DEF Conflict
<1>6. \/ ~isForkIncompatible(c.fork["Petersburg"], d.fork["Petersburg"], head)
      \/ ~isForkIncompatible(c.fork["Constantinople"], d.fork["Petersburg"], head)
  BY <1>3, ChecksAre DEF Conflict
<1>7. QED
  BY <1>2, <1>4, <1>5, <1>6

\* What is not active at a block is not active below it.
LEMMA ActiveAbove ==
    ASSUME NEW s \in Nat \cup {None}, NEW num \in Nat, NEW head \in Nat, num <= head, isForked(s, num)
    PROVE  isForked(s, head)
  BY ForkAssumption DEF isForked

\* A fork that may be moved is active in both configurations below the head, or in none.
LEMMA SameBelow ==
    ASSUME NEW s \in Nat \cup {None}, NEW t \in Nat \cup {None}, NEW num \in Nat, NEW head \in Nat,
           num <= head, ~isForkIncompatible(s, t, head)
    PROVE  isForked(s, num) = isForked(t, num)
  BY ForkAssumption DEF isForked, isForkIncompatible

\* Without a conflict at the head every block up to it has the same rules.
LEMMA AgreesBelow ==
    ASSUME NEW c \in ChainConfig, NEW d \in ChainConfig, NEW head \in Nat, NEW num \in Nat,
           num <= head, Conflicts(c, d, head) = {}, NEW implicit \in BOOLEAN,
           CheckConfigForkOrder(c),
           ~implicit => /\ c.fork["Petersburg"] # None /\ d.fork["Petersburg"] # None
                        /\ d.fork["Petersburg"] = c.fork["Constantinople"] =>
                              c.fork["Petersburg"] = c.fork["Constantinople"]
    PROVE  SameRules(c, d, num, implicit)
<1>1. \A f \in Forks : c.fork[f] \in Nat \cup {None} /\ d.fork[f] \in Nat \cup {None}
  BY DEF ChainConfig
<1>2. \A f \in Plain : Active(c, f, num) = Active(d, f, num)
  <2> SUFFICES ASSUME NEW f \in Plain PROVE isForked(c.fork[f], num) = isForked(d.fork[f], num)
    BY DEF Active
  <2>1. f \in Forks
    BY DEF Plain
  <2>2. ~isForkIncompatible(c.fork[f], d.fork[f], head)
    BY NoConflict
  <2>3. QED
    BY <1>1, <2>1, <2>2, SameBelow
<1>3. IsBerlin(c, num) = IsBerlin(d, num)
  <2>1. "Berlin" \in Plain /\ "YoloV3" \in Plain
    BY DEF Plain, Forks
  <2>2. QED
    BY <1>2, <2>1 DEF IsBerlin
<1>4. Active(c, "DAO", num) => c.DAOForkSupport = d.DAOForkSupport
  <2>1. "DAO" \in Forks
    BY DEF Forks
  <2>2. Active(c, "DAO", num) => Active(c, "DAO", head)
    BY <1>1, <2>1, ActiveAbove DEF Active
  <2>3. QED
    BY <2>2, NoConflict
<1>5. Active(c, "EIP158", num) => c.ChainID = d.ChainID
  <2>1. "EIP158" \in Forks
    BY DEF Forks
  <2>2. Active(c, "EIP158", num) => Active(c, "EIP158", head)
    BY <1>1, <2>1, ActiveAbove DEF Active
  <2>3. QED
    BY <2>2, NoConflict
<1>6. ASSUME ~implicit PROVE IsPetersburg(c, num) = IsPetersburg(d, num)
  <2> DEFINE s == c.fork["Petersburg"]
             t == d.fork["Petersburg"]
             u == c.fork["Constantinople"]
  <2>1. s \in Nat /\ t \in Nat /\ u \in Nat \cup {None}
    BY <1>1, <1>6 DEF Forks
  <2>2. u \in Nat /\ u <= s
    BY <1>6, <2>1, PetersburgAfter
  <2>3. t = u => s = u
    BY <1>6
  <2>4. ~isForkIncompatible(s, t, head) \/ ~isForkIncompatible(u, t, head)
    BY NoConflict
  <2> HIDE DEF s, t, u
  <2>5. isForked(s, num) = isForked(t, num)
    <3>1. CASE ~isForkIncompatible(s, t, head)
      BY <2>1, <3>1, SameBelow
    <3>2. CASE ~isForkIncompatible(u, t, head)
      BY <2>1, <2>2, <2>3, <3>2, ForkAssumption DEF isForkIncompatible, isForked
    <3>3. QED
      BY <2>4, <3>1, <3>2
  <2>6. QED
    BY <1>6, <2>5 DEF IsPetersburg, Active, s, t
<1>7. QED
  BY <1>2, <1>3, <1>4, <1>5, <1>6 DEF SameRules, Plain

\* Agreement on the rules of a block carries over.
LEMMA RulesTransitive ==
    ASSUME NEW a, NEW b, NEW c, NEW num, NEW implicit,
           SameRules(a, b, num, implicit), SameRules(b, c, num, implicit)
    PROVE  SameRules(a, c, num, implicit)
<1>1. "DAO" \in Forks \ {"Petersburg", "Berlin", "YoloV3", "Catalyst"}
      /\ "EIP158" \in Forks \ {"Petersburg", "Berlin", "YoloV3", "Catalyst"}
  BY DEF Forks
<1>2. QED
  BY <1>1, Zenon DEF SameRules

LEMMA RulesReflexive == ASSUME NEW a, NEW num, NEW implicit PROVE SameRules(a, a, num, implicit)
  BY DEF SameRules

-----------------------------------------------------------------------------
(* The node                                                                *)

\* The parts of the invariant that say what the database holds.
KeptInv == TypeOK /\ StartInv /\ RulesAgree

\* What the configurations of an operator are.
LEMMA ConfigsType == ASSUME TypeOK PROVE configs \subseteq ChainConfig /\ None \notin configs /\ Height \in Nat
<1>1. under \in Seq(configs)
  BY DEF TypeOK
<1>2. Len(under) \in Nat
  BY <1>1, LenProperties
<1>3. QED
  BY <1>2, StartupAssumption DEF TypeOK, Height

\* Without a conflict the new configuration can take the place of the stored one.
LEMMA ReplacedSoundly ==
    ASSUME KeptInv, ~waived, stored \in configs, config \in configs, NEW head \in Nat,
           Height <= head, Conflicts(stored, config, head) = {}
    PROVE  \A n \in 1 .. Height : SameRules(under[n], config, n, ~Explicit)
<1> SUFFICES ASSUME NEW n \in 1 .. Height PROVE SameRules(under[n], config, n, ~Explicit)
  OBVIOUS
<1>1. SameRules(under[n], stored, n, ~Explicit)
  BY DEF KeptInv, RulesAgree
<1>2. n \in Nat /\ n <= head
  BY ConfigsType DEF KeptInv
<1>3. stored \in ChainConfig /\ config \in ChainConfig
  BY ConfigsType DEF KeptInv
<1>4. CheckConfigForkOrder(stored)
  BY ConfigsType DEF KeptInv, StartInv
<1>5. Explicit => /\ stored.fork["Petersburg"] # None /\ config.fork["Petersburg"] # None
                  /\ config.fork["Petersburg"] = stored.fork["Constantinople"] =>
                        stored.fork["Petersburg"] = stored.fork["Constantinople"]
  BY DEF Explicit
<1>6. (~Explicit) \in BOOLEAN
  BY DEF Explicit
<1>7. SameRules(stored, config, n, ~Explicit)
  BY <1>2, <1>3, <1>4, <1>5, <1>6, AgreesBelow
<1>8. QED
  BY <1>1, <1>7, RulesTransitive

LEMMA InitStartup == Init => KeptInv
<1> SUFFICES ASSUME Init PROVE KeptInv
  OBVIOUS
<1>1. Height = 0
  BY DEF Init, Height
<1>2. TypeOK
  <2>1. waived \in BOOLEAN
    BY DEF Init
  <2>2. /\ configs \in ConfigSets /\ stored = None /\ under = <<>> /\ phase = "off"
        /\ config = None /\ bhead = 0 /\ lasterr = None
    BY DEF Init
  <2>3. QED
    BY <2>1, <2>2 DEF TypeOK
<1>3. StartInv
  BY <1>1 DEF Init, StartInv
<1>4. RulesAgree
  BY <1>1 DEF RulesAgree
<1>5. QED
  BY <1>2, <1>3, <1>4 DEF KeptInv

\* Steps that leave the database keep the agreement.
LEMMA SameDatabase == ASSUME RulesAgree, UNCHANGED <<configs, stored, under, waived>> PROVE RulesAgree'
  BY DEF RulesAgree, Height, Explicit

LEMMA StepBoots == ASSUME KeptInv, NEW c \in configs, Boots(c) PROVE KeptInv'
<1>1. Height \in Nat /\ None \notin configs
  BY ConfigsType DEF KeptInv
<1>2. TypeOK'
  BY <1>1 DEF KeptInv, TypeOK, Boots, Height
<1>3. StartInv'
  BY <1>1 DEF KeptInv, StartInv, TypeOK, Boots, Height
<1>4. RulesAgree'
  <2>1. CASE stored = None
    BY <2>1 DEF KeptInv, StartInv, RulesAgree, Boots, Height
  <2>2. CASE stored # None
    BY <2>2, SameDatabase DEF KeptInv, Boots
  <2>3. QED
    BY <2>1, <2>2
<1>5. QED
  BY <1>2, <1>3, <1>4 DEF KeptInv

\* During the comparison there is a stored configuration to compare with.
LEMMA Comparing ==
    ASSUME KeptInv, phase = "checking" \/ phase = "rewinding"
    PROVE  stored \in configs /\ config \in configs /\ stored \in ChainConfig /\ config \in ChainConfig
  BY ConfigsType DEF KeptInv, TypeOK, StartInv

LEMMA StepConflictFound == ASSUME KeptInv, ConflictFound PROVE KeptInv'
<1> DEFINE err == checkCompatible(stored, config, bhead)
<1>1. err \in Nat
  BY Comparing, CheckCompatible DEF KeptInv, TypeOK, ConflictFound
<1>2. err # None
  BY DEF ConflictFound
<1>3. lasterr' = err /\ bhead' = err /\ UNCHANGED <<configs, stored, under, phase, config, waived>> /\ phase = "checking"
  BY DEF ConflictFound, db
<1> HIDE DEF err
<1>4. TypeOK'
  BY <1>1, <1>3 DEF KeptInv, TypeOK
<1>5. StartInv'
  BY <1>2, <1>3 DEF KeptInv, StartInv, Height
<1>6. QED
  BY <1>3, <1>4, <1>5, SameDatabase DEF KeptInv

\* What the end of the comparison means.
LEMMA Compared ==
    ASSUME KeptInv, phase = "checking", NoConflictLeft
    PROVE  bhead = 0 \/ Conflicts(stored, config, bhead) = {}
<1>1. /\ checkCompatible(stored, config, bhead) = None => Conflicts(stored, config, bhead) = {}
      /\ checkCompatible(stored, config, bhead) = bhead => bhead = 0
  BY Comparing, CheckCompatible DEF KeptInv, TypeOK
<1>2. lasterr # None => bhead = lasterr
  BY DEF KeptInv, StartInv
<1>3. QED
  BY <1>1, <1>2 DEF NoConflictLeft

LEMMA StepAccepts == ASSUME KeptInv, Accepts PROVE KeptInv'
<1>1. phase = "checking" /\ stored \in configs /\ config \in configs /\ Height \in Nat
  BY Comparing, ConfigsType DEF KeptInv, Accepts
<1>2. TypeOK'
  BY <1>1 DEF KeptInv, TypeOK, Accepts
<1>3. StartInv'
  BY <1>1 DEF KeptInv, StartInv, Accepts, Height
<1>4. ~waived' => ~waived /\ (lasterr = None \/ Height = 0)
  <2>1. waived' = (waived \/ (lasterr = 0 /\ Height > 0)) /\ (lasterr \in {None, 0} \/ Height = 0)
    BY DEF Accepts
  <2>2. Height = 0 \/ Height > 0
    BY <1>1
  <2>3. QED
    BY <2>1, <2>2
<1>5. ~waived' => \A n \in 1 .. Height : SameRules(under[n], config, n, ~Explicit)
  <2> SUFFICES ASSUME ~waived' PROVE \A n \in 1 .. Height : SameRules(under[n], config, n, ~Explicit)
    OBVIOUS
  <2>1. CASE Height = 0
    BY <2>1
  <2>2. CASE Height # 0
    <3>1. bhead = Height
      BY <1>1, <1>4, <2>2 DEF KeptInv, StartInv
    <3>2. Conflicts(stored, config, Height) = {}
      BY <1>1, <2>2, <3>1, Compared DEF Accepts
    <3>3. QED
      BY <1>1, <1>4, <3>2, ReplacedSoundly
  <2>3. QED
    BY <2>1, <2>2
<1>6. RulesAgree'
  BY <1>5 DEF Accepts, RulesAgree, Height, Explicit
<1>7. QED
  BY <1>2, <1>3, <1>6 DEF KeptInv

LEMMA StepRejects == ASSUME KeptInv, Rejects PROVE KeptInv'
<1>1. phase = "checking" /\ lasterr # None /\ lasterr # 0
      /\ UNCHANGED <<configs, stored, under, config, bhead, lasterr, waived>>
      /\ phase' = "rewinding" /\ NoConflictLeft
  BY DEF Rejects, db
<1>2. TypeOK'
  BY <1>1 DEF KeptInv, TypeOK
<1>3. lasterr \in Nat \ {0} /\ bhead = lasterr
  BY <1>1 DEF KeptInv, TypeOK, StartInv
<1>4. Conflicts(stored, config, lasterr) = {}
  BY <1>1, <1>3, Compared
<1>5. StartInv'
  BY <1>1, <1>3, <1>4 DEF KeptInv, StartInv, Height, Conflicts
<1>6. QED
  BY <1>1, <1>2, <1>5, SameDatabase DEF KeptInv

\* The chain loses its last block in a step of the rewind, and keeps the others.
LEMMA ShorterByOne ==
    ASSUME TypeOK, Height > 0, under' = SubSeq(under, 1, Height - 1)
    PROVE  /\ under' \in Seq(configs) /\ Height' = Height - 1 /\ Height' \in Nat
           /\ \A n \in 1 .. Height - 1 : under'[n] = under[n]
<1> DEFINE h == Len(under)
<1>1. h \in Nat /\ h > 0 /\ \A i \in 1 .. h - 1 : under[i] \in configs
  BY DEF Height, TypeOK
<1>2. /\ SubSeq(under, 1, h - 1) \in Seq(configs)
      /\ Len(SubSeq(under, 1, h - 1)) = IF 1 <= h - 1 THEN h - 1 - 1 + 1 ELSE 0
      /\ \A i \in 1 .. h - 1 - 1 + 1 : SubSeq(under, 1, h - 1)[i] = under[1 + i - 1]
  <2> HIDE DEF h
  <2>1. h - 1 \in Int
    BY <1>1
  <2>2. QED
    BY <1>1, <2>1, SubSeqProperties
<1>3. under' = SubSeq(under, 1, h - 1) /\ Height' = Len(under') /\ Height = h
  BY DEF Height
<1> HIDE DEF h
<1>4. QED
  BY <1>1, <1>2, <1>3

LEMMA StepRewinds == ASSUME KeptInv, Rewinds PROVE KeptInv'
<1>1. Height \in Nat /\ Height > 0 /\ lasterr \in Nat
  BY ConfigsType DEF KeptInv, StartInv, Rewinds
<1>2. UNCHANGED <<configs, stored, phase, config, bhead, lasterr, waived>> /\ under' = SubSeq(under, 1, Height - 1)
      /\ phase = "rewinding"
  BY DEF Rewinds, process
<1>4. /\ under' \in Seq(configs)
      /\ Height' = Height - 1
      /\ \A n \in 1 .. Height - 1 : under'[n] = under[n]
  BY <1>1, <1>2, ShorterByOne DEF KeptInv
<1>5. TypeOK'
  BY <1>2, <1>4 DEF KeptInv, TypeOK
<1>6. StartInv'
  BY <1>1, <1>2, <1>4 DEF KeptInv, StartInv, Conflicts
<1>7. RulesAgree'
  <2> SUFFICES ASSUME ~waived, NEW n \in 1 .. Height - 1 PROVE SameRules(under[n], stored, n, ~Explicit)
    BY <1>2, <1>4 DEF RulesAgree, Explicit
  <2>1. n \in 1 .. Height
    BY <1>1
  <2>2. QED
    BY <2>1 DEF KeptInv, RulesAgree
<1>8. QED
  BY <1>5, <1>6, <1>7 DEF KeptInv

LEMMA StepWritesConfig == ASSUME KeptInv, WritesConfig PROVE KeptInv'
<1>1. phase = "rewinding" /\ stored \in configs /\ config \in configs /\ Height \in Nat /\ lasterr \in Nat
      /\ waived' = waived
  BY Comparing, ConfigsType DEF KeptInv, StartInv, WritesConfig
<1>2. TypeOK'
  BY <1>1 DEF KeptInv, TypeOK, WritesConfig
<1>3. StartInv'
  BY <1>1 DEF KeptInv, StartInv, WritesConfig, Height
<1>4. ASSUME ~waived PROVE \A n \in 1 .. Height : SameRules(under[n], config, n, ~Explicit)
  <2>1. Height <= lasterr
    BY DEF WritesConfig
  <2>2. Conflicts(stored, config, lasterr) = {}
    BY <1>1 DEF KeptInv, StartInv
  <2>3. QED
    BY <1>1, <1>4, <2>1, <2>2, ReplacedSoundly
<1>5. RulesAgree'
  BY <1>1, <1>4 DEF WritesConfig, RulesAgree, Height, Explicit
<1>6. QED
  BY <1>2, <1>3, <1>5 DEF KeptInv

LEMMA StepStarts == ASSUME KeptInv, Starts PROVE KeptInv'
<1>1. UNCHANGED <<configs, stored, under, config, bhead, lasterr, waived>> /\ phase = "open"
      /\ phase' \in {"running", "panicked"}
  BY DEF Starts, db
<1>2. TypeOK'
  BY <1>1 DEF KeptInv, TypeOK
<1>3. StartInv'
  BY <1>1 DEF KeptInv, StartInv, Height
<1>4. QED
  BY <1>1, <1>2, <1>3, SameDatabase DEF KeptInv

LEMMA StepExecutes == ASSUME KeptInv, Executes PROVE KeptInv'
<1>1. /\ UNCHANGED <<configs, stored, phase, config, bhead, lasterr, waived>>
      /\ under' = Append(under, config) /\ phase = "running"
  BY DEF Executes, process
<1>2. config \in configs /\ stored = config /\ under \in Seq(configs) /\ Height \in Nat
  BY <1>1, ConfigsType DEF KeptInv, StartInv, TypeOK
<1>3. /\ under' \in Seq(configs) /\ Height' = Height + 1
      /\ \A n \in 1 .. Height : under'[n] = under[n]
      /\ under'[Height + 1] = config
  BY <1>1, <1>2, AppendProperties DEF Height
<1>4. TypeOK'
  BY <1>1, <1>3 DEF KeptInv, TypeOK
<1>5. StartInv'
  BY <1>1, <1>2 DEF KeptInv, StartInv, TypeOK
<1>6. RulesAgree'
  <2> SUFFICES ASSUME ~waived, NEW n \in 1 .. Height + 1 PROVE SameRules(under'[n], stored, n, ~Explicit)
    BY <1>1, <1>3 DEF RulesAgree, Explicit
  <2>1. CASE n \in 1 .. Height
    BY <1>3, <2>1 DEF KeptInv, RulesAgree
  <2>2. CASE n = Height + 1
    BY <1>2, <1>3, <2>2, RulesReflexive
  <2>3. QED
    BY <1>2, <2>1, <2>2
<1>7. QED
  BY <1>4, <1>5, <1>6 DEF KeptInv

LEMMA StepEnds == ASSUME KeptInv, Ends PROVE KeptInv'
<1>1. UNCHANGED <<configs, stored, under, waived>> /\ phase' = "off" /\ config' = None /\ bhead' = 0 /\ lasterr' = None
  BY DEF Ends, db
<1>2. TypeOK'
  BY <1>1 DEF KeptInv, TypeOK
<1>3. StartInv'
  BY <1>1 DEF KeptInv, StartInv, Height
<1>4. QED
  BY <1>1, <1>2, <1>3, SameDatabase DEF KeptInv

LEMMA StepStutters == ASSUME KeptInv, UNCHANGED vars PROVE KeptInv'
<1>1. UNCHANGED <<configs, stored, under, phase, config, bhead, lasterr, waived>>
  BY DEF vars, db, process
<1>2. TypeOK' /\ StartInv'
  BY <1>1 DEF KeptInv, TypeOK, StartInv, Height, Conflicts
<1>3. QED
  BY <1>1, <1>2, SameDatabase DEF KeptInv

\* What the comparison found last is a conflict one block further up, on the chain.
LEMMA StepInVain == ASSUME StartupInv, [Next]_vars PROVE NoneInVain'
<1>1. KeptInv
  BY DEF StartupInv, KeptInv
<1>2. CASE ConflictFound
  <2> DEFINE err == checkCompatible(stored, config, bhead)
  <2>1. /\ lasterr' = err /\ err # None /\ phase = "checking"
        /\ UNCHANGED <<stored, config, under>>
    BY <1>2 DEF ConflictFound, db
  <2>2. /\ stored \in ChainConfig /\ config \in ChainConfig /\ bhead \in Nat /\ Height \in Nat
        /\ CheckConfigForkOrder(stored)
    BY <1>1, <2>1, Comparing, ConfigsType, StartupAssumption DEF KeptInv, TypeOK, StartInv
  <2>3. bhead <= Height
    BY <2>1, <2>2 DEF StartupInv, StartInv, NoneInVain
  <2>4. err \in Nat /\ (err = 0 \/ err < bhead)
    BY <2>1, <2>2, CheckCompatible
  <2>5. Conflicts(stored, config, err + 1) # {}
    BY <2>1, <2>2, RewindsToConflict
  <2> HIDE DEF err
  <2>6. err <= Height
    BY <2>2, <2>3, <2>4
  <2>7. QED
    BY <2>1, <2>5, <2>6 DEF NoneInVain, Height, Conflicts
<1>3. CASE Rejects
  BY <1>3 DEF Rejects, db, StartupInv, NoneInVain, Height, Conflicts
<1>4. CASE Rewinds
  <2>1. /\ phase = "rewinding" /\ Height > lasterr /\ under' = SubSeq(under, 1, Height - 1)
        /\ UNCHANGED <<stored, phase, config, lasterr>>
    BY <1>4 DEF Rewinds, process
  <2>2. Height \in Nat /\ lasterr \in Nat
    BY <1>1, <2>1, ConfigsType DEF KeptInv, StartInv
  <2>3. Height' = Height - 1
    BY <1>1, <2>1, <2>2, ShorterByOne DEF KeptInv
  <2>4. QED
    BY <2>1, <2>2, <2>3 DEF StartupInv, NoneInVain, Conflicts
<1>5. CASE UNCHANGED vars
  BY <1>5 DEF vars, db, process, StartupInv, NoneInVain, Height, Conflicts
<1>6. CASE \/ \E c \in configs : Boots(c)
           \/ Accepts \/ WritesConfig \/ Starts \/ Executes \/ Ends
  BY <1>6 DEF Boots, Accepts, WritesConfig, Starts, Executes, Ends, process, NoneInVain
<1>7. QED
  BY <1>2, <1>3, <1>4, <1>5, <1>6 DEF Next

\* A block is executed under a configuration in order.
LEMMA StepCumulative == ASSUME StartupInv, [Next]_vars PROVE RulesCumulative'
<1>1. KeptInv /\ TypeOK /\ Height \in Nat
  BY ConfigsType DEF StartupInv, KeptInv
<1>2. CASE Executes
  <2>1. phase = "running" /\ under' = Append(under, config)
    BY <1>2 DEF Executes
  <2>2. config \in configs /\ config \in ChainConfig /\ CheckConfigForkOrder(config)
    BY <1>1, <2>1, ConfigsType DEF KeptInv, StartInv, TypeOK
  <2>3. /\ Height' = Height + 1 /\ under'[Height + 1] = config
        /\ \A n \in 1 .. Height : under'[n] = under[n]
    BY <1>1, <2>1, <2>2, AppendProperties DEF Height, TypeOK
  <2>4. ForksInOrder(config, Height + 1)
    BY <1>1, <2>2, InOrder
  <2>5. ASSUME NEW n \in 1 .. Height + 1 PROVE ForksInOrder(under'[n], n)
    <3>1. CASE n \in 1 .. Height
      BY <2>3, <3>1 DEF StartupInv, RulesCumulative
    <3>2. CASE n = Height + 1
      BY <2>3, <2>4, <3>2
    <3>3. QED
      BY <1>1, <3>1, <3>2
  <2>6. QED
    BY <2>3, <2>5 DEF RulesCumulative
<1>3. CASE Rewinds
  <2>1. phase = "rewinding" /\ Height > lasterr /\ under' = SubSeq(under, 1, Height - 1)
    BY <1>3 DEF Rewinds
  <2>2. Height > 0
    BY <1>1, <2>1 DEF KeptInv, StartInv
  <2>3. Height' = Height - 1 /\ \A n \in 1 .. Height - 1 : under'[n] = under[n]
    BY <1>1, <2>1, <2>2, ShorterByOne
  <2>4. ASSUME NEW n \in 1 .. Height - 1 PROVE ForksInOrder(under'[n], n)
    BY <1>1, <2>3 DEF StartupInv, RulesCumulative
  <2>5. QED
    BY <2>3, <2>4 DEF RulesCumulative
<1>4. CASE \/ \E c \in configs : Boots(c)
           \/ ConflictFound \/ Accepts \/ Rejects
           \/ WritesConfig \/ Starts \/ Ends \/ UNCHANGED vars
  <2>1. UNCHANGED under
    BY <1>4 DEF Boots, ConflictFound, Accepts, Rejects, WritesConfig, Starts, Ends, vars, db
  <2>2. QED
    BY <2>1 DEF StartupInv, RulesCumulative, Height
<1>5. QED
  BY <1>2, <1>3, <1>4 DEF Next

LEMMA InitAll == Init => StartupInv
<1>1. Init => NoneInVain /\ RulesCumulative
  BY DEF Init, NoneInVain, RulesCumulative, Height
<1>2. QED
  BY <1>1, InitStartup DEF StartupInv, KeptInv

\* Types, and what each phase of the start relies on: with any configurations, and a
\* stop or a crash at any point (StartInv).
THEOREM StartupInvariant == Spec => []StartupInv
<1>1. StartupInv /\ [Next]_vars => StartupInv'
  <2> SUFFICES ASSUME StartupInv, [Next]_vars PROVE KeptInv'
    BY StepInVain, StepCumulative DEF StartupInv, KeptInv
  <2>12. KeptInv
    BY DEF StartupInv, KeptInv
  <2>1. CASE \E c \in configs : Boots(c)
    BY <2>12, <2>1, StepBoots
  <2>2. CASE ConflictFound
    BY <2>12, <2>2, StepConflictFound
  <2>3. CASE Accepts
    BY <2>12, <2>3, StepAccepts
  <2>4. CASE Rejects
    BY <2>12, <2>4, StepRejects
  <2>5. CASE Rewinds
    BY <2>12, <2>5, StepRewinds
  <2>6. CASE WritesConfig
    BY <2>12, <2>6, StepWritesConfig
  <2>7. CASE Starts
    BY <2>12, <2>7, StepStarts
  <2>8. CASE Executes
    BY <2>12, <2>8, StepExecutes
  <2>9. CASE Ends
    BY <2>12, <2>9, StepEnds
  <2>10. CASE UNCHANGED vars
    BY <2>12, <2>10, StepStutters
  <2>11. QED
    BY <2>1, <2>2, <2>3, <2>4, <2>5, <2>6, <2>7, <2>8, <2>9, <2>10 DEF Next
<1>2. QED
  BY <1>1, InitAll, PTL DEF Spec

\* Every block of the chain was executed under the rules that the stored configuration
\* gives it, however often the configuration was changed (New, CheckCompatible), while no
\* conflict that goes back to the genesis block was passed over; Catalyst is not among the
\* rules, and Petersburg is where all configurations are Explicit about it.
THEOREM ChainKeepsRules == Spec => []RulesAgree
<1>1. StartupInv => RulesAgree
  BY DEF StartupInv
<1>2. QED
  BY <1>1, StartupInvariant, PTL

\* A rewind goes to a block of the chain whose next block is in conflict, whichever of the
\* comparisons failed (CheckCompatible, "find the lowest conflict").
THEOREM NothingRewoundInVain == Spec => []NoneInVain
<1>1. StartupInv => NoneInVain
  BY DEF StartupInv
<1>2. QED
  BY <1>1, StartupInvariant, PTL

\* Every block was executed with each fork that is active there upon the earlier ones,
\* although CheckConfigForkOrder compares neighbours only.
THEOREM ForksStack == Spec => []RulesCumulative
<1>1. StartupInv => RulesCumulative
  BY DEF StartupInv
<1>2. QED
  BY <1>1, StartupInvariant, PTL

\* CheckCompatible lowers its head with each turn but the first, and SetHead the chain with
\* each block: a start is not stuck in either.
THEOREM StartGoesOn == Spec => StartAdvances
<1> DEFINE A == /\ ConflictFound => StartLeft' \in Nat /\ StartLeft' < StartLeft
                /\ Rewinds => Height' \in Nat /\ Height' < Height
<1>1. StartupInv /\ [Next]_vars => [A]_vars
  <2> SUFFICES ASSUME StartupInv PROVE A
    OBVIOUS
  <2>1. KeptInv /\ TypeOK /\ Height \in Nat
    BY ConfigsType DEF StartupInv, KeptInv
  <2>2. ASSUME ConflictFound PROVE StartLeft' \in Nat /\ StartLeft' < StartLeft
    <3> DEFINE err == checkCompatible(stored, config, bhead)
    <3>1. /\ phase = "checking" /\ err # None /\ err # lasterr
          /\ lasterr' = err /\ bhead' = err
      BY <2>2 DEF ConflictFound
    <3>2. stored \in ChainConfig /\ config \in ChainConfig /\ bhead \in Nat
      BY <2>1, <3>1, Comparing DEF TypeOK
    <3>3. err \in Nat /\ (err = 0 \/ err < bhead)
      BY <3>1, <3>2, CheckCompatible
    <3> HIDE DEF err
    <3>4. lasterr # None => lasterr = bhead
      BY <2>1, <3>1 DEF KeptInv, StartInv
    <3>5. StartLeft' = err
      BY <3>1, <3>3 DEF StartLeft
    <3>6. CASE lasterr = None
      <4>1. StartLeft = bhead + 1
        BY <3>6 DEF StartLeft
      <4>2. QED
        BY <3>2, <3>3, <3>5, <4>1
    <3>7. CASE lasterr # None
      <4>1. StartLeft = bhead /\ err # bhead
        BY <3>1, <3>2, <3>4, <3>7 DEF StartLeft
      <4>2. QED
        BY <3>2, <3>3, <3>5, <4>1
    <3>8. QED
      BY <3>6, <3>7
  <2>3. ASSUME Rewinds PROVE Height' \in Nat /\ Height' < Height
    <3>1. Height > 0 /\ under' = SubSeq(under, 1, Height - 1)
      BY <2>1, <2>3 DEF Rewinds, KeptInv, StartInv
    <3>2. Height' = Height - 1 /\ Height' \in Nat
      BY <2>1, <3>1, ShorterByOne
    <3>3. QED
      BY <2>1, <3>2
  <2>4. QED
    BY <2>2, <2>3
<1>2. QED
  BY <1>1, StartupInvariant, PTL DEF Spec, StartAdvances
=============================================================================
