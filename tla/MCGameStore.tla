----------------------------- MODULE MCGameStore -----------------------------
(***************************************************************************)
(* Instance of GameStore: a product that is sold, with two games, one of   *)
(* which is also in the bundle, one that is free, whose pack does not      *)
(* verify, and one that is neither.                                        *)
(***************************************************************************)
EXTENDS GameStore

CONSTANTS p1, p2, p3, g1, g2

MCPack == [p \in Products |-> IF p = p1 THEN {g1, g2} ELSE {}]
=============================================================================
