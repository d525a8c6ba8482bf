------------------------------ MODULE Startup ------------------------------
(***************************************************************************)
(* The start of a node on the chain it has: New, Start and Stop of         *)
(* eth/backend.go, with CheckCompatible of params/config.go.  The operator *)
(* starts the node with one configuration after the other; a conflict with *)
(* the stored one rewinds the chain.  The node may be stopped, or crash,   *)
(* in every phase: the stored configuration and the chain remain.          *)
(***************************************************************************)
EXTENDS ForkConfig

CONSTANTS
    ConfigSets,  \* bound: the configurations an operator uses
    MaxHeight    \* bound: blocks of the chain

ASSUME StartupAssumption ==
    /\ \A cs \in ConfigSets : cs \subseteq ChainConfig
    /\ None \notin ChainConfig
    /\ MaxHeight \in Nat

VARIABLES
    configs,  \* the configurations the operator uses
    stored,   \* the configuration in the database
    under,    \* the chain: the configuration each block was executed under
    phase,    \* what the node does
    config,   \* its chainConfig
    bhead,    \* CheckCompatible: bhead
    lasterr,  \* CheckCompatible: where its last conflict rewinds to; genesisErr
    waived    \* history: a conflict was passed over while the chain had blocks

db == <<stored, under>>
process == <<phase, config, bhead, lasterr>>
vars == <<configs, db, process, waived>>

Height == Len(under)

Init ==
    /\ configs \in ConfigSets
    /\ stored = None
    /\ under = <<>>
    /\ phase = "off"
    /\ config = None
    /\ bhead = 0
    /\ lasterr = None
    /\ waived = FALSE

-----------------------------------------------------------------------------

\* SetupGenesisBlock (external): a new database gets the genesis block, a configuration
\* with its forks out of order is refused.
Boots(c) ==
    /\ phase = "off"
    /\ c \in configs
    /\ CheckConfigForkOrder(c)
    /\ config' = c
    /\ bhead' = Height
    /\ lasterr' = None
    /\ IF stored = None
       THEN phase' = "open" /\ stored' = c
       ELSE phase' = "checking" /\ UNCHANGED stored
    /\ UNCHANGED <<configs, under, waived>>

\* One turn of CheckCompatible: the lowest conflict is looked for from above.
ConflictFound ==
    /\ phase = "checking"
    /\ LET err == checkCompatible(stored, config, bhead) IN
       /\ err # None
       /\ err # lasterr
       /\ lasterr' = err
       /\ bhead' = err
    /\ UNCHANGED <<configs, db, phase, config, waived>>

NoConflictLeft == checkCompatible(stored, config, bhead) \in {None, lasterr}

\* The rest of SetupGenesisBlock (external): a compatible configuration is stored; so is
\* any on a chain that has its genesis only, and any whose conflict goes back to there.
Accepts ==
    /\ phase = "checking"
    /\ NoConflictLeft
    /\ lasterr \in {None, 0} \/ Height = 0
    /\ phase' = "open"
    /\ stored' = config
    /\ waived' = (waived \/ (lasterr = 0 /\ Height > 0))
    /\ UNCHANGED <<configs, under, config, bhead, lasterr>>

Rejects ==
    /\ phase = "checking"
    /\ NoConflictLeft
    /\ lasterr \notin {None, 0} /\ Height > 0
    /\ phase' = "rewinding"
    /\ UNCHANGED <<configs, db, config, bhead, lasterr, waived>>

\* SetHead, block by block.
Rewinds ==
    /\ phase = "rewinding"
    /\ Height > lasterr
    /\ under' = SubSeq(under, 1, Height - 1)
    /\ UNCHANGED <<configs, stored, process, waived>>

\* Mutant of WritesConfig: it does not wait for the rewind.
WritesConfigFirst ==
    /\ phase = "rewinding"
    /\ phase' = "open"
    /\ stored' = config
    /\ UNCHANGED <<configs, under, config, bhead, lasterr, waived>>

\* WriteChainConfig.
WritesConfig ==
    /\ phase = "rewinding"
    /\ Height <= lasterr
    /\ phase' = "open"
    /\ stored' = config
    /\ UNCHANGED <<configs, under, config, bhead, lasterr, waived>>

CreateConsensusEngine(c) ==
    IF c.Clique THEN "clique" ELSE IF c.ExternalConsensus THEN "ecpon" ELSE "ethash"

\* The engine must be EcPonBada when there is an external consensus, and Start needs
\* the connector there is only then: the node panics otherwise.
Starts ==
    /\ phase = "open"
    /\ phase' = IF CreateConsensusEngine(config) = "ecpon" THEN "running" ELSE "panicked"
    /\ UNCHANGED <<configs, db, config, bhead, lasterr, waived>>

\* A block is built or imported.
Executes ==
    /\ phase = "running"
    /\ Height < MaxHeight
    /\ under' = Append(under, config)
    /\ UNCHANGED <<configs, stored, process, waived>>

\* A stop or a crash.
Ends ==
    /\ phase # "off"
    /\ phase' = "off"
    /\ config' = None
    /\ bhead' = 0
    /\ lasterr' = None
    /\ UNCHANGED <<configs, db, waived>>

Next ==
    \/ \E c \in configs : Boots(c)
    \/ ConflictFound \/ Accepts \/ Rejects
    \/ Rewinds \/ WritesConfig
    \/ Starts \/ Executes \/ Ends

Spec == Init /\ [][Next]_vars

-----------------------------------------------------------------------------

\* All configurations plan Petersburg, and none moves it to where another has
\* Constantinople without having it there too: what the exception for Petersburg
\* (config.go:562) passes is then no change.
Explicit ==
    \A a \in configs :
        /\ a.fork["Petersburg"] # None
        /\ \A b \in configs :
              b.fork["Petersburg"] = a.fork["Constantinople"] =>
                  a.fork["Petersburg"] = a.fork["Constantinople"]

\* Every block of the chain was executed as the stored configuration has it
\* (config.go:473): however the configurations follow each other, and wherever the node
\* stops between the comparison, the rewind and the write; until a conflict that goes back
\* to the genesis block is passed over.
RulesAgree ==
    ~waived => \A n \in 1 .. Height : SameRules(under[n], stored, n, ~Explicit)

TypeOK ==
    /\ configs \in ConfigSets
    /\ stored \in configs \cup {None}
    /\ under \in Seq(configs)
    /\ phase \in {"off", "checking", "rewinding", "open", "running", "panicked"}
    /\ config \in configs \cup {None}
    /\ bhead \in Nat
    /\ lasterr \in Nat \cup {None}
    /\ waived \in BOOLEAN

\* Where the comparison stands is above all it has found to agree, and what it found
\* last is where the chain goes back to.
StartInv ==
    /\ stored = None => Height = 0
    /\ stored # None => CheckConfigForkOrder(stored)
    /\ phase # "off" => config # None /\ stored # None /\ CheckConfigForkOrder(config)
    /\ phase = "checking" => bhead = IF lasterr = None THEN Height ELSE lasterr
    /\ phase = "rewinding" =>
          /\ lasterr \in Nat \ {0}
          /\ Conflicts(stored, config, lasterr) = {}
    /\ phase \in {"open", "running", "panicked"} => stored = config

\* No block is given up in vain: the chain goes back to one of its blocks, and the next
\* one is in conflict ("find the lowest conflict", config.go:478).
NoneInVain ==
    phase \in {"checking", "rewinding"} /\ lasterr # None =>
        /\ lasterr <= Height
        /\ Conflicts(stored, config, lasterr + 1) # {}

\* A fork that is active has those before it active, which it builds upon.
ForksInOrder(c, num) ==
    \A i, j \in 1 .. Len(OrderedForks) :
        i < j /\ ~PassedOver(c, i) /\ Active(c, OrderedForks[j], num) => Active(c, OrderedForks[i], num)

\* No block was executed under the rules of a later fork without an earlier one ("we don't
\* skip any forks", config.go:491), although only neighbours are compared.
RulesCumulative == \A n \in 1 .. Height : ForksInOrder(under[n], n)

StartupInv == TypeOK /\ StartInv /\ RulesAgree /\ NoneInVain /\ RulesCumulative

\* Every turn of CheckCompatible and every block of SetHead leaves less to do: the start
\* gets to its end.
StartLeft == bhead + IF lasterr = None THEN 1 ELSE 0

StartAdvances ==
    [][/\ ConflictFound => StartLeft' \in Nat /\ StartLeft' < StartLeft
       /\ Rewinds => Height' \in Nat /\ Height' < Height]_vars
=============================================================================
