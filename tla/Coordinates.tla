---------------------------- MODULE Coordinates ----------------------------
(***************************************************************************)
(* Blocks, chunks and offsets in chunks (coordinates.rs), and the use made *)
(* of them: a block is kept under its chunk and an index, named again by   *)
(* its coordinates when a timer or a mesh comes by, and its neighbours are *)
(* looked for in the chunks around (cube_renderer.rs, client_context.rs).  *)
(*                                                                         *)
(* Coordinates are i32.  The state is one block that is looked at, with    *)
(* its address: it goes from neighbour to neighbour and so to every block, *)
(* those at the ends of the range included.                                *)
(***************************************************************************)
EXTENDS Integers

CONSTANT Reach   \* i32 is 16 * Reach numbers on each side of zero (2^27 in the code)

ASSUME ReachAssumption == Reach \in Nat \ {0}

VARIABLES focus,      \* the coordinates of the block that is looked at
          at, index   \* its chunk and its place there

Int32 == -(16 * Reach) .. 16 * Reach - 1
Side == 0 .. 15
Points(S) == [x : S, y : S, z : S]
Blocks == Points(Int32)
Offsets == Points(Side)

\* The six steps that try_delta is called with.
Steps == {d \in Points({-1, 0, 1}) : d.x * d.x + d.y * d.y + d.z * d.z = 1}
Plus(p, d) == [x |-> p.x + d.x, y |-> p.y + d.y, z |-> p.z + d.z]

\* rem_euclid and div_euclid: the remainder is never negative.
Offset(b) == [x |-> b.x % 16, y |-> b.y % 16, z |-> b.z % 16]

\* Mutant of Chunk: division towards zero.
Quotient(n) == IF n >= 0 THEN n \div 16 ELSE -((-n) \div 16)
ChunkTowardsZero(b) == [x |-> Quotient(b.x), y |-> Quotient(b.y), z |-> Quotient(b.z)]

Chunk(b) == [x |-> b.x \div 16, y |-> b.y \div 16, z |-> b.z \div 16]
WithOffset(c, o) == [x |-> c.x * 16 + o.x, y |-> c.y * 16 + o.y, z |-> c.z * 16 + o.z]

AsIndex(o) == 256 * o.z + 16 * o.y + o.x
FromIndex(i) == [x |-> i % 16, y |-> (i \div 16) % 16, z |-> (i \div 256) % 16]

\* checked_add: the neighbours there are, which at the ends of the range are fewer.
Neighbours(b) == {Plus(b, d) : d \in Steps} \cap Blocks

\* i32::MIN / 16 ..= i32::MAX / 16, rounded towards zero.
IsInBounds(c) == c \in Points(-Reach .. Reach - 1)
ChunksAround(c) == {n \in {Plus(c, d) : d \in Steps} : IsInBounds(n)}

\* The chunks that are meshed again when a block changes, and when a chunk comes.
NeedsRemesh(b) == {Chunk(b)} \cup {Chunk(n) : n \in Neighbours(b)}
Enqueued(c) == {c} \cup ChunksAround(c)

------------------------------------------------------------------------------
LooksAt(b) == focus' = b /\ at' = Chunk(b) /\ index' = AsIndex(Offset(b))

Origin == [x |-> 0, y |-> 0, z |-> 0]
AddressInit == focus = Origin /\ at = Origin /\ index = 0

\* The block that the address names, as a timer or the mesher names it.
Named == WithOffset(at, FromIndex(index))
AddressStep == \E n \in Neighbours(Named) : LooksAt(n)

addressVars == <<focus, at, index>>
AddressSpec == AddressInit /\ [][AddressStep]_addressVars

\* The type invariant: the address is one that the map has a place for.
AddressTypeOK == focus \in Blocks /\ IsInBounds(at) /\ index \in 0 .. 4095

\* The address is that of the block: what the property below rests on.
AddressInv == AddressTypeOK /\ at = Chunk(focus) /\ index = AsIndex(Offset(focus))

\* The address of a block names that block and no other, no coordinate
\* overflows on the way, and every block whose mesh looks at this one is in a
\* chunk that is meshed again when this one changes, and when its chunk comes,
\* at the ends of the range too (with_offset, chunk, try_delta, is_in_bounds).
AddressesFit ==
  /\ Named = focus
  /\ \A n \in Neighbours(focus) : focus \in Neighbours(n) /\ at \in NeedsRemesh(n)
  /\ NeedsRemesh(focus) \subseteq Enqueued(at)
=============================================================================
