---------------------------- MODULE MCClientSync ----------------------------
(***************************************************************************)
(* Instances of ClientSync for TLC: two chunks, and two places with one or  *)
(* both of them near.                                                      *)
(***************************************************************************)
EXTENDS ClientSync, TLC

CONSTANTS a, b, p, q, x1, x2, y1

\* Both chunks are near p; at q only b is, and a is within reach of a lazy load.
MCEager == [x \in Places |-> IF x = p THEN Chunks ELSE Chunks \ {a}]
MCLazy == [x \in Places |-> Chunks]

\* Chunk a is too far from q to be kept there, or it is not.
KeepNear == MCEager
KeepBoth == [x \in Places |-> Chunks]

\* Blocks x1 and x2 are in a, y1 is in b.
MCChunkOf == [k \in Blocks |-> IF k = y1 THEN b ELSE a]

\* x1 and x2 are in the same chunk.
Symmetry == Permutations(Ids) \cup Permutations({x1, x2})
=============================================================================
