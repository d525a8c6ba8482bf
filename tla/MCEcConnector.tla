--------------------------- MODULE MCEcConnector ---------------------------
(***************************************************************************)
(* Values for model checking EcConnector: three heads, the second of which *)
(* carries no proof that can be decoded.                                   *)
(***************************************************************************)
EXTENDS EcConnector

FirstAndThird == {1, 3}
=============================================================================
