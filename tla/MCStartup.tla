----------------------------- MODULE MCStartup -----------------------------
(***************************************************************************)
(* Values for model checking Startup: configurations that differ in where  *)
(* a fork is, in the chain's identifier, in the DAO fork and in their      *)
(* engine, over a chain of five blocks.                                    *)
(***************************************************************************)
EXTENDS Startup, TLC

Base ==
    [fork |-> [f \in Forks |-> IF f \in {"DAO", "YoloV3", "EWASM", "Catalyst", "Berlin", "MuirGlacier"} THEN None
                               ELSE IF f \in {"Istanbul"} THEN 4
                               ELSE IF f \in {"Constantinople", "Petersburg"} THEN 2 ELSE 0],
     DAOForkSupport |-> FALSE, ChainID |-> 1, Clique |-> FALSE, ExternalConsensus |-> TRUE]

With(c, f, n) == [c EXCEPT !.fork[f] = n]

\* Forks that come earlier, later, or are dropped again; Istanbul before Petersburg.
Moved == {Base, With(Base, "Istanbul", 3), With(Base, "Istanbul", None),
          With(With(Base, "Istanbul", 2), "Berlin", 3), With(Base, "Istanbul", 1)}

\* Several conflicts at once, the first compared not the lowest; none before block two.
Late == [Base EXCEPT !.fork = [f \in Forks |-> IF f \in {"DAO", "EIP150", "EIP155", "EIP158"} THEN 2
                                              ELSE IF f \in {"Byzantium", "Constantinople", "Petersburg"} THEN 3
                                              ELSE Base.fork[f]]]

Several == {Late, With(With(Late, "Istanbul", 3), "YoloV3", 4),
            With(With(With(Late, "Byzantium", 2), "DAO", None), "Istanbul", 5),
            [Late EXCEPT !.ChainID = 2], [Late EXCEPT !.DAOForkSupport = TRUE]}

\* Conflicts that go back to the genesis block, alone or after one that does not.
Early == {Base, With(Base, "Byzantium", 1), With(Base, "DAO", 0), With(Base, "Istanbul", 5),
          With(With(Base, "Byzantium", 1), "Istanbul", 3)}

\* Petersburg left to Constantinople, which is refused with Istanbul after it, or moved
\* apart from it.
Implicit == {Base, With(Base, "Petersburg", None), With(With(Base, "Petersburg", None), "Istanbul", None), With(Base, "Petersburg", 4),
             With(With(Base, "Constantinople", 3), "Petersburg", 3)}

\* Petersburg planned on its own everywhere.
Apart == {With(With(Base, "Constantinople", 1), "Petersburg", 3), With(With(Base, "Constantinople", 1), "Petersburg", 4),
          With(With(Base, "Constantinople", 2), "Petersburg", 4)}

\* Without the external consensus, and with two engines.
Engines == {Base, [With(Base, "Istanbul", 2) EXCEPT !.ExternalConsensus = FALSE], [Base EXCEPT !.Clique = TRUE]}

MCConfigSets == {Moved, Several, Early, Implicit, Apart, Engines}
=============================================================================
