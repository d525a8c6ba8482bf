----------------------------- MODULE ForkConfig -----------------------------
(***************************************************************************)
(* ChainConfig of params/config.go: which forks are active at a block, and *)
(* whether a stored configuration can be replaced by a new one when the    *)
(* chain has a given height.                                               *)
(*                                                                         *)
(* A configuration gives each fork its block, None when it is not planned. *)
(***************************************************************************)
EXTENDS Naturals, Sequences

CONSTANTS
    ChainIDs,   \* identifiers of a chain
    None        \* nil

ASSUME ForkAssumption == None \notin Nat

\* In the order of checkCompatible, Catalyst last.
Forks == {"Homestead", "DAO", "EIP150", "EIP155", "EIP158", "Byzantium", "Constantinople", "Petersburg",
          "Istanbul", "MuirGlacier", "Berlin", "YoloV3", "EWASM", "Catalyst"}

ChainConfig == [fork : [Forks -> Nat \cup {None}], DAOForkSupport : BOOLEAN, ChainID : ChainIDs,
                Clique : BOOLEAN, ExternalConsensus : BOOLEAN]

-----------------------------------------------------------------------------
(* The rules of a block                                                    *)

isForked(s, num) == s # None /\ s <= num

Active(c, f, num) == isForked(c.fork[f], num)

IsPetersburg(c, num) ==
    \/ Active(c, "Petersburg", num)
    \/ c.fork["Petersburg"] = None /\ Active(c, "Constantinople", num)

IsBerlin(c, num) == Active(c, "Berlin", num) \/ Active(c, "YoloV3", num)

-----------------------------------------------------------------------------
(* CheckConfigForkOrder                                                    *)

OrderedForks == <<"Homestead", "DAO", "EIP150", "EIP155", "EIP158", "Byzantium", "Constantinople",
                  "Petersburg", "Istanbul", "MuirGlacier", "Berlin">>

\* An optional fork that is not planned is passed over.
PassedOver(c, i) == OrderedForks[i] \in {"DAO", "MuirGlacier"} /\ c.fork[OrderedForks[i]] = None

\* Of two forks that follow each other the later one needs the earlier one before it.
CheckConfigForkOrder(c) ==
    \A i, j \in 1 .. Len(OrderedForks) :
        /\ i < j
        /\ ~PassedOver(c, i) /\ ~PassedOver(c, j)
        /\ \A k \in 1 .. Len(OrderedForks) : i < k /\ k < j => PassedOver(c, k)
        /\ c.fork[OrderedForks[j]] # None
        => c.fork[OrderedForks[i]] # None /\ c.fork[OrderedForks[i]] <= c.fork[OrderedForks[j]]

-----------------------------------------------------------------------------
(* checkCompatible                                                         *)

isForkIncompatible(s1, s2, head) == (isForked(s1, head) \/ isForked(s2, head)) /\ s1 # s2

\* The comparisons, in their order.
Checks == <<"Homestead", "DAO", "DAO support", "EIP150", "EIP155", "EIP158", "chain ID", "Byzantium",
            "Constantinople", "Petersburg", "Istanbul", "MuirGlacier", "Berlin", "YoloV3", "EWASM">>

\* The fork whose blocks an error names.
ForkOf(check) ==
    CASE check = "DAO support" -> "DAO"
      [] check = "chain ID" -> "EIP158"
      [] OTHER -> check

Conflict(c, newcfg, head, check) ==
    CASE check = "DAO support" -> Active(c, "DAO", head) /\ c.DAOForkSupport # newcfg.DAOForkSupport
      [] check = "chain ID" -> Active(c, "EIP158", head) /\ c.ChainID # newcfg.ChainID
      [] check = "Petersburg" ->
            /\ isForkIncompatible(c.fork["Petersburg"], newcfg.fork["Petersburg"], head)
            /\ isForkIncompatible(c.fork["Constantinople"], newcfg.fork["Petersburg"], head)
      [] OTHER -> isForkIncompatible(c.fork[check], newcfg.fork[check], head)

Conflicts(c, newcfg, head) == {i \in 1 .. Len(Checks) : Conflict(c, newcfg, head, Checks[i])}

\* The first of the two blocks at which a fork is or was to be.
FirstOf(storedblock, newblock) ==
    IF storedblock = None THEN newblock
    ELSE IF newblock = None \/ storedblock < newblock THEN storedblock ELSE newblock

\* Mutant of RewindTo: the fork's own block is kept.
RewindToFork(storedblock, newblock) ==
    LET rew == FirstOf(storedblock, newblock) IN IF rew # None THEN rew ELSE 0

\* newCompatError: the block before it.
RewindTo(storedblock, newblock) ==
    LET rew == FirstOf(storedblock, newblock) IN IF rew # None /\ rew > 0 THEN rew - 1 ELSE 0

\* The comparison that fails first; None when none does.
checkCompatible(c, newcfg, head) ==
    IF Conflicts(c, newcfg, head) = {} THEN None
    ELSE LET i == CHOOSE i \in Conflicts(c, newcfg, head) : \A j \in Conflicts(c, newcfg, head) : i <= j
             f == ForkOf(Checks[i])
         IN RewindTo(c.fork[f], newcfg.fork[f])

-----------------------------------------------------------------------------

\* Two configurations run block num in the same way.  Catalyst is not compared.  The
\* chain ID counts from EIP158 on.  With implicit set the blocks of Petersburg may
\* differ, as they do when it is not planned in one of them (config.go:446).
SameRules(a, b, num, implicit) ==
    /\ \A f \in Forks \ {"Petersburg", "Berlin", "YoloV3", "Catalyst"} : Active(a, f, num) = Active(b, f, num)
    /\ IsBerlin(a, num) = IsBerlin(b, num)
    /\ Active(a, "DAO", num) => a.DAOForkSupport = b.DAOForkSupport
    /\ Active(a, "EIP158", num) => a.ChainID = b.ChainID
    /\ implicit \/ IsPetersburg(a, num) = IsPetersburg(b, num)
=============================================================================
