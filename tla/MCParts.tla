------------------------------- MODULE MCParts -------------------------------
(***************************************************************************)
(* Small instances of the parts of Cuberef that do one thing after another *)
(* and keep no state in common: the numbers of block types, a furnace,     *)
(* coordinates, the tools of a player and his body.                        *)
(* A behaviour is one of one part, and subject says of which; the          *)
(* variables of the others rest.                                           *)
(***************************************************************************)
EXTENDS Furnace, BlockTypes, Coordinates, Tools, Physics, TLC

CONSTANTS stone, sand, raw, mid, cooked, coal

VARIABLE subject

------------------------------------------------------------------------------
\* raw becomes mid in one tick and mid becomes cooked in two; two of raw make a stack, or
\* two of coal, which burn for two ticks each.
SmallStacks == [i \in Items |-> IF i \in {raw, coal} THEN 2 ELSE 1]
TwoSmelts == raw :> [to |-> mid, ticks |-> 1] @@ mid :> [to |-> cooked, ticks |-> 2]
TwoOfEach == [i \in Items |-> IF i \in {raw, coal} THEN 2 ELSE 0]

\* Two blocks in a row, of two kinds; the hand, a pick (raw) and a wand (coal).
TwoRays == {<<>>, <<1, 2>>}
HandPickWand == {NoItem, raw, coal}
DigRules ==
  NoItem :> <<[kinds |-> {sand}, dig |-> "none"], [kinds |-> {stone, sand}, dig |-> "slow"]>>
  @@ raw :> <<[kinds |-> {stone}, dig |-> "fast"]>>
  @@ coal :> <<[kinds |-> {stone}, dig |-> "instant"], [kinds |-> {sand}, dig |-> "oneshot"]>>

\* A room of three by four by two blocks, with a wall across it or with furniture.  Half a
\* block at a time on foot, further than wall and player are thick in flight.
Cell(x, y, z) == [x |-> x, y |-> y, z |-> z]
Chamber == {Cell(x, y, z) : x \in 0 .. 2, y \in 0 .. 3, z \in 0 .. 1}
WallOrFurniture ==
  {{Cell(1, y, z) : y \in 0 .. 3, z \in 0 .. 1}, {Cell(1, 0, 0), Cell(1, 3, 0), Cell(0, 1, 1)}}
TwoCorners == {Cell(0, 401, 0), Cell(10, 770, 100)}
SomeStrides ==
  [standard |-> {Cell(x, y, z) : x \in {-200, 200}, y \in {-200, -40}, z \in {0, 200}},
   flying |-> {Cell(760, 0, 0), Cell(-200, 100, -100), Cell(0, 0, 300)},
   noclip |-> {Cell(300, 0, 0)}]
------------------------------------------------------------------------------
Extended == <<furnaceVars, blockTypesVars, addressVars, toolVars>>

AtRest == ray = <<>> /\ kind = [c \in Cells |-> stone]
BodyAtRest == pos = Cell(0, 401, 0) /\ Cell(0, 1, 1) \in solid

\* A body begins in any world, what is before a tool with any blocks; the others see one.
Init ==
  /\ FurnaceInit /\ TypesInit /\ AddressInit /\ ToolsInit /\ BodyInit
  /\ \/ subject \in {"furnace", "types", "places"} /\ AtRest /\ BodyAtRest
     \/ subject = "tools" /\ BodyAtRest
     \/ subject = "body" /\ AtRest

Next ==
  /\ UNCHANGED subject
  /\ \/ subject = "furnace" /\ FurnaceNext /\ UNCHANGED <<blockTypesVars, addressVars, toolVars, bodyVars>>
     \/ subject = "types" /\ TypesNext /\ UNCHANGED <<furnaceVars, addressVars, toolVars, bodyVars>>
     \/ subject = "places" /\ AddressStep /\ UNCHANGED <<furnaceVars, blockTypesVars, toolVars, bodyVars>>
     \/ subject = "tools" /\ ToolsNext /\ UNCHANGED <<furnaceVars, blockTypesVars, addressVars, bodyVars>>
     \/ subject = "body" /\ BodyNext /\ UNCHANGED Extended

vars == <<subject, Extended, bodyVars>>
Spec == Init /\ [][Next]_vars

\* What TLC tells states apart by.  The furnace of the database is written over before it is
\* read again while the chunk is dirty, and no property looks at it then but FurnaceInv, of
\* which it was a part when it was written.
Unread == Fresh([burnt |-> 0, free |-> 0])
PartsView ==
  <<subject, block, IF dirty THEN Unread ELSE saved, dirty, outside, away, unmarked, lost,
    blockTypesVars, addressVars, toolVars, bodyVars>>
------------------------------------------------------------------------------
\* In no frame are there more short steps than the bound.
LoopsEnd ==
  \A d \in Strides["standard"] \cup Strides["flying"] :
    Rounds(pos, Moved(pos, d))[MaxSteps].done

\* The type invariants of the parts, or the inductive invariants that their proofs use.
PartsOK ==
  CASE subject = "furnace" -> FurnaceInv
    [] subject = "types" -> TypesInv
    [] subject = "places" -> AddressInv
    [] subject = "tools" -> ToolsInv
    [] subject = "body" -> BodyTypeOK /\ LoopsEnd
==============================================================================
