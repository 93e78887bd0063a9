------------------------------- MODULE Physics -------------------------------
(***************************************************************************)
(* How a player moves among blocks: physics.rs of the client.              *)
(*                                                                         *)
(* Lengths are counted in 400 to a block.  The epsilon of the code is 1,   *)
(* the direction of a short step is rounded, and speeds are left out: a    *)
(* frame may aim at any of a few distances.                                *)
(***************************************************************************)
EXTENDS Integers, FiniteSets, FiniteSetsExt

CONSTANTS Loaded,      \* the blocks of loaded chunks
          Worlds,      \* the sets of solid blocks there may be
          Spawns,      \* where a player may be put
          Strides,     \* bound: how far a frame may go, in each mode
          MaxSteps,    \* bound: the short steps of a frame
          MaxFrames    \* bound: frames and what happens between them

VARIABLES pos, solid, mode,
          frames

bodyVars == <<pos, solid, mode, frames>>

Axes == {"x", "y", "z"}
Block == 400
Eps == 1
StepLength == 20                                           \* 0.05
CornerPos == [x |-> 150, y |-> 80, z |-> 150]              \* 0.375, 0.2
CornerNeg == [x |-> -150, y |-> -600, z |-> -150]          \* 1.5
BumpLanded == 201                                          \* 0.501
BumpMidair == 80                                           \* 0.2

Modes == {"standard", "flying", "noclip"}
Positions == [Axes -> Int]

\* Whatever blocks and strides: but on foot a frame goes less far to the side than a player
\* is thick.
Thickness == CornerPos.x - CornerNeg.x
ASSUME BodyAssumption ==
  /\ Loaded \subseteq [Axes -> Int] /\ Spawns \subseteq Positions
  /\ Strides \in [Modes -> SUBSET Positions]
  /\ \A d \in Strides["standard"], a \in {"x", "z"} :
       d[a] + 2 * Eps <= Thickness /\ -d[a] + 2 * Eps <= Thickness
  /\ MaxSteps \in Nat /\ MaxFrames \in Nat

\* The type invariant.
BodyTypeOK == pos \in Positions /\ solid \in Worlds /\ mode \in Modes /\ frames \in 0 .. MaxFrames
-----------------------------------------------------------------------------
(* Blocks and collisions.                                                  *)

\* A position, axis by axis.
Along(F(_)) == [x |-> F("x"), y |-> F("y"), z |-> F("z")]

Sign(n) == IF n > 0 THEN 1 ELSE IF n < 0 THEN -1 ELSE 0
AbsOf(n) == Sign(n) * n

\* f64::round: halves go away from zero.
Round(n) == Sign(n) * ((AbsOf(n) + Block \div 2) \div Block)

\* compute_bbox_intersections: the blocks from one corner of the player to the other.
Low(p, a) == Round(p[a] + CornerNeg[a])
High(p, a) == Round(p[a] + CornerPos[a])
Boxed(p) ==
  {[x |-> i, y |-> j, z |-> k] : i \in Low(p, "x") .. High(p, "x"),
                                 j \in Low(p, "y") .. High(p, "y"),
                                 k \in Low(p, "z") .. High(p, "z")}
SameBox(p, q) ==
  \A a \in Axes : p[a] = q[a] \/ (Low(p, a) = Low(q, a) /\ High(p, a) = High(q, a))

\* is_collision: what is not known collides.
IsCollision(b) == b \notin Loaded \/ b \in solid

\* clamp_single_axis, for all blocks that are new: the first boundary that is crossed.
ClampAxis(a, old, new, blocks) ==
  LET low == {Block * b[a] + Block \div 2 - CornerNeg[a] : b \in blocks}
      high == {Block * b[a] - Block \div 2 - CornerPos[a] : b \in blocks}
      floors == {w \in low : old + Eps > w /\ new - Eps < w}
      walls == {w \in high : old - Eps < w /\ new + Eps > w}
  IN IF new < old /\ floors # {} THEN Max(floors) + Eps
     ELSE IF new > old /\ walls # {} THEN Min(walls) - Eps
     ELSE new

\* clamp_collisions, in whatever order the blocks are looked at.
Clamp(old, new) ==
  LET blocks == {b \in Boxed(new) \ Boxed(old) : IsCollision(b)}
  IN IF SameBox(new, old) THEN new
     ELSE Along(LAMBDA a : ClampAxis(a, old[a], new[a], blocks))

\* A short step towards a target, along each axis.
Toward(d) ==
  LET longest == Max({AbsOf(d[a]) : a \in Axes})
      Shorter(n) == Sign(n) * ((StepLength * AbsOf(n) + longest - 1) \div longest)
  IN IF longest <= StepLength THEN d ELSE Along(LAMBDA a : Shorter(d[a]))

\* No further apart than the epsilon.
Near(p, q) ==
  (p.x - q.x)^2 + (p.y - q.y)^2 + (p.z - q.z)^2 <= Eps

\* Mutant of ClampLoop: the whole way at once.
ClampAtOnce(old, target) == Clamp(old, target)

\* A round of clamp_collisions_loop: a short step, axis by axis.
ShortStep(p, target) ==
  LET step == Toward(Along(LAMBDA a : target[a] - p[a]))
      byX == Clamp(p, [p EXCEPT !.x = @ + step.x])
      byY == Clamp(byX, [byX EXCEPT !.y = @ + step.y])
  IN Clamp(byY, [byY EXCEPT !.z = @ + step.z])

\* clamp_collisions_loop: rounds, until it is there or gets no further.
Rounds(old, target) ==
  LET rounds[n \in 0 .. MaxSteps] ==
        IF n = 0 THEN [at |-> old, done |-> Near(old, target)]
        ELSE LET last == rounds[n - 1]
                 now == ShortStep(last.at, target)
             IN IF last.done THEN last
                ELSE [at |-> now, done |-> Near(now, target) \/ Near(now, last.at)]
  IN rounds
ClampLoop(old, target) == Rounds(old, target)[MaxSteps].at
-----------------------------------------------------------------------------
(* Frames.                                                                 *)

Differ(p, q) == AbsOf(p.x - q.x) > Eps \/ AbsOf(p.z - q.z) > Eps
Raised(p, n) == [p EXCEPT !.y = @ + n]

\* What is stumbled over is stepped upon: up, on, and down again.
Bump(at, target, height) ==
  LET up == ClampLoop(at, Raised(at, height))
      on == Clamp(up, [target EXCEPT !.y = up.y])
  IN IF Differ(on, at) THEN Clamp(on, Raised(on, -height)) ELSE at

\* update_standard, in air or in a fluid
UpdateStandard(target) ==
  LET at == ClampLoop(pos, target)
      landed == at.y - target.y > Eps
  IN \E height \in IF landed THEN {BumpLanded} ELSE {0, BumpMidair} :
       pos' = IF height > 0 /\ Differ(at, target) THEN Bump(at, target, height) ELSE at

UpdateFlying(target) == pos' = ClampLoop(pos, target)
UpdateNoclip(target) == pos' = target

NextMode ==
  CASE mode = "standard" -> "flying" [] mode = "flying" -> "noclip" [] OTHER -> "standard"

Moved(p, d) == Along(LAMBDA a : p[a] + d[a])

Count == frames < MaxFrames /\ frames' = frames + 1

\* update_and_get
Frame ==
  /\ Count
  /\ \/ UNCHANGED mode
     \/ mode' = NextMode
  /\ \E d \in Strides[mode'] :
       LET target == Moved(pos, d)
       IN CASE mode' = "standard" -> UpdateStandard(target)
            [] mode' = "flying" -> UpdateFlying(target)
            [] OTHER -> UpdateNoclip(target) /\ Boxed(target) \subseteq Loaded
  /\ UNCHANGED solid

\* set_position
SetPosition == Count /\ pos' \in Spawns /\ UNCHANGED <<solid, mode>>

\* The server changes a block.
WorldChanges == Count /\ solid' \in Worlds /\ UNCHANGED <<pos, mode>>

BodyInit == pos \in Spawns /\ solid \in Worlds /\ mode = "standard" /\ frames = 0
BodyNext == Frame \/ SetPosition \/ WorldChanges
BodySpec == BodyInit /\ [][BodyNext]_bodyVars
-----------------------------------------------------------------------------
\* The blocks a player passes who goes straight along an axis, or else those he comes to.
Passed(p, q) ==
  IF Cardinality({a \in Axes : p[a] # q[a]}) > 1 THEN Boxed(q)
  ELSE LET from == Along(LAMBDA a : Min({p[a], q[a]}))
           to == Along(LAMBDA a : Max({p[a], q[a]}))
       IN {b \in Loaded : \A a \in Axes : b[a] \in Low(from, a) .. High(to, a)} \cup Boxed(q)

\* In a mode with collisions no frame takes a player into a block that collides, nor
\* straight through one, unless he was in that block before it.
MoveStep ==
  mode' # "noclip" /\ pos' \notin {pos} \cup Spawns /\ UNCHANGED solid =>
    \A b \in Passed(pos, pos') : IsCollision(b) => b \in Boxed(pos)
StaysOut == [][MoveStep]_bodyVars
=============================================================================
