------------------------------ MODULE MCGameMap ------------------------------
(***************************************************************************)
(* Instances of GameMap for TLC.  The map generator gives every chunk the  *)
(* content v0.                                                             *)
(***************************************************************************)
EXTENDS GameMap, TLC

CONSTANT v0

MCGen == [c \in Chunks |-> v0]

\* The inductive invariants of GameMapProofs; and CanMove, which GameMap writes out, says when
\* one of the Moves is enabled.
MapOK == IInv /\ WaitersFit /\ (CanMove <=> ENABLED Moves)

Symmetry == Permutations(Users) \cup Permutations(Chunks)
=============================================================================
