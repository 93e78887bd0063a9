-------------------------- MODULE InventoryProofs --------------------------
(***************************************************************************)
(* The invariant of InventoryViews, for all values of its constants.       *)
(*                                                                         *)
(* First what the operators of ItemStacks and InventoryViews compute:      *)
(* merging, taking and inserting neither make nor destroy items; the sum   *)
(* over the slots of an inventory and the tally over the players change by *)
(* what one entry changes; and the hand and grid of a session merge and    *)
(* split like slots.  Sum, TryInsert and Tally are recursive functions.    *)
(* What they are at every step is proved by induction over a set: the      *)
(* numbers (or the sets of players) for which the claim holds are a set    *)
(* that has the first and the next of each member.                         *)
(*                                                                         *)
(* Then the invariant. ItemsInv is inductive: the types, what a request in *)
(* the middle relies on, and that a chest that is not marked dirty holds at least what the   *)
(* database has for it (CleanHoldsSaved). And no change of an inventory is *)
(* lost to a thread that digs or places a block between reading the        *)
(* inventory and writing it (NoLostUpdate).                                *)
(*                                                                         *)
(* A step of a player changes that player's inventory or the block, hand   *)
(* and grid, and the place of the request, and no other player's; the      *)
(* three are shown apart (StockMoves, HandMoves, PlaceMoves), once for     *)
(* each way in which a step may change them.                               *)
(***************************************************************************)
EXTENDS InventoryViews, CountingLemmas, SequenceTheorems

-----------------------------------------------------------------------------
(* Stacks *)

\* An empty slot is no stack.
LEMMA EmptyIsNoStack == Empty \notin Stack /\ Empty \in MaybeStack
BY ItemsAssumption DEF Empty, Stack, MaybeStack

\* What a slot has is a stack within its limits, or nothing.
LEMMA SlotType ==
  /\ Empty \in Slot /\ Slot \subseteq MaybeStack /\ FitStack \subseteq Stack
  /\ FitStack \subseteq Slot /\ \A s \in Slot : s # Empty <=> s \in FitStack
BY EmptyIsNoStack DEF Slot, FitStack, MaybeStack

\* The room in a stack is a number, and moving no more than that fills it at most.
LEMMA RoomType == \A s \in Stack : Room(s) \in Nat
BY ItemsAssumption DEF Room, Stack

LEMMA LeastType ==
  \A a, b \in Nat : Least(a, b) \in Nat /\ Least(a, b) <= a /\ Least(a, b) <= b
                    /\ (Least(a, b) = a <=> a <= b)
BY DEF Least

\* The amount of an item in a slot is a number.
LEMMA AmountType == \A i \in Items, s \in MaybeStack : Amount(i, s) \in Nat
BY DEF Amount, MaybeStack, Stack, Empty

LEMMA AmountOfEmpty == \A i \in Items : Amount(i, Empty) = 0
BY ItemsAssumption DEF Amount, Empty

\* MaybeStack::try_merge neither makes nor destroys items: what is kept and what is
\* left over add up to the two stacks, whatever their items and limits.
THEOREM MergeConserves ==
  ASSUME NEW s \in MaybeStack, NEW o \in MaybeStack
  PROVE  /\ Merge(s, o).kept \in MaybeStack /\ Merge(s, o).left \in MaybeStack
         /\ \A i \in Items :
              Amount(i, Merge(s, o).kept) + Amount(i, Merge(s, o).left)
                = Amount(i, s) + Amount(i, o)
<1>1. CASE o = Empty \/ s = Empty \/ ~Mergeable(s, o)
  BY <1>1, EmptyIsNoStack, AmountType, ItemsAssumption DEF Merge, Amount, Empty
<1>2. CASE o # Empty /\ s # Empty /\ Mergeable(s, o)
  <2> DEFINE moved == Least(o.qty, Room(s))
             kept == [s EXCEPT !.qty = @ + moved]
             left == IF o.qty = moved THEN Empty ELSE [o EXCEPT !.qty = @ - moved]
  <2>1. s \in Stack /\ o \in Stack /\ s.item = o.item
    BY <1>2 DEF MaybeStack, Mergeable
  <2>2. moved \in Nat /\ moved <= o.qty
    BY <2>1, RoomType, LeastType DEF Stack
  <2>3. Merge(s, o) = [kept |-> kept, left |-> left]
    BY <1>2 DEF Merge
  <2> HIDE DEF moved
  <2>4. kept \in Stack /\ kept.item = s.item /\ kept.qty = s.qty + moved
    BY <2>1, <2>2 DEF Stack
  <2>5. CASE o.qty = moved
    <3>1. left = Empty
      BY <2>5
    <3> QED BY <2>1, <2>2, <2>3, <2>4, <2>5, <3>1, EmptyIsNoStack, ItemsAssumption
            DEF Amount, MaybeStack, Empty, Stack
  <2>6. CASE o.qty # moved
    <3>1. left \in Stack /\ left.item = o.item /\ left.qty = o.qty - moved
      BY <2>1, <2>2, <2>6 DEF Stack
    <3> HIDE DEF kept, left
    <3> QED BY <2>1, <2>2, <2>3, <2>4, <3>1 DEF Amount, MaybeStack, Stack
  <2> QED BY <2>5, <2>6
<1> QED BY <1>1, <1>2

\* Merging keeps to the limits of stacks that can be split, and to what was in the slot;
\* only part of what came is left over, and only if there was no room for it.
LEMMA MergeFits ==
  ASSUME NEW s \in Slot, NEW o \in Slot
  PROVE  /\ Merge(s, o).kept \in Slot /\ Merge(s, o).left \in Slot
         /\ s = Empty => Merge(s, o).kept = o /\ Merge(s, o).left = Empty
         /\ o = Empty => Merge(s, o).kept = s /\ Merge(s, o).left = Empty
         /\ Merge(s, o).left # Empty =>
              /\ o # Empty /\ s # Empty /\ (Mergeable(s, o) => Room(s) < o.qty)
              /\ Merge(s, o).left.item = o.item /\ Merge(s, o).left.qty <= o.qty
         /\ s # Empty => Merge(s, o).kept # Empty
<1>1. CASE o = Empty \/ s = Empty \/ ~Mergeable(s, o)
  <2>1. s # Empty => s \in Stack
    BY SlotType
  <2>2. o # Empty => o \in Stack /\ o.qty \in Nat
    BY SlotType DEF Stack
  <2> QED BY <1>1, <2>1, <2>2, SlotType DEF Merge
<1>2. CASE o # Empty /\ s # Empty /\ Mergeable(s, o)
  <2> DEFINE moved == Least(o.qty, Room(s))
             kept == [s EXCEPT !.qty = @ + moved]
             left == IF o.qty = moved THEN Empty ELSE [o EXCEPT !.qty = @ - moved]
  <2>1. /\ s \in Stack /\ o \in Stack /\ s.item = o.item
        /\ LimitsKept => InLimits(s) /\ InLimits(o)
    BY <1>2, SlotType DEF Mergeable, FitStack
  <2>2. /\ moved \in Nat /\ moved <= o.qty /\ moved <= Room(s) /\ Room(s) \in Nat
        /\ o.qty \in Nat /\ (moved = o.qty <=> o.qty <= Room(s))
    BY <2>1, RoomType, LeastType DEF Stack
  <2>3. Merge(s, o) = [kept |-> kept, left |-> left]
    BY <1>2 DEF Merge
  <2> HIDE DEF moved
  <2>4. kept \in Stack /\ kept.item = s.item /\ kept.qty = s.qty + moved
    BY <2>1, <2>2 DEF Stack
  <2>5. InLimits(s) => InLimits(kept)
    BY <2>1, <2>2, <2>4, ItemsAssumption DEF InLimits, Room, Stack
  <2>6. kept \in FitStack
    BY <2>1, <2>4, <2>5 DEF FitStack
  <2>7. o.qty # moved => left \in Stack /\ left.item = o.item /\ left.qty = o.qty - moved
    BY <2>1, <2>2 DEF Stack
  <2>8. o.qty # moved /\ InLimits(o) => InLimits(left)
    BY <2>1, <2>2, <2>7, ItemsAssumption DEF InLimits, Stack
  <2>9. o.qty # moved => left \in FitStack
    BY <2>1, <2>7, <2>8 DEF FitStack
  <2>10. left \in Slot /\ kept \in Slot /\ kept # Empty
    BY <2>6, <2>9, SlotType, EmptyIsNoStack
  <2>11. left # Empty => Room(s) < o.qty /\ left.item = o.item /\ left.qty <= o.qty
    BY <2>2, <2>7
  <2> HIDE DEF kept, left
  <2> QED BY <1>2, <2>3, <2>10, <2>11
<1> QED BY <1>1, <1>2

\* MaybeStack::take_items neither makes nor destroys items.
THEOREM TakeConserves ==
  ASSUME NEW s \in MaybeStack, NEW n \in Nat \ {0}
  PROVE  /\ TakeItems(s, n).left \in MaybeStack /\ TakeItems(s, n).got \in MaybeStack
         /\ \A i \in Items :
              Amount(i, TakeItems(s, n).left) + Amount(i, TakeItems(s, n).got) = Amount(i, s)
<1>1. CASE s = Empty \/ s.item \notin Stackable \/ s.qty <= n
  BY <1>1, EmptyIsNoStack, AmountType, ItemsAssumption DEF TakeItems, Amount, Empty
<1>2. CASE s # Empty /\ s.item \in Stackable /\ ~(s.qty <= n)
  <2>1. s \in Stack /\ s.qty \in Nat
    BY <1>2 DEF MaybeStack, Stack
  <2>2. TakeItems(s, n) = [left |-> [s EXCEPT !.qty = @ - n], got |-> [s EXCEPT !.qty = n]]
    BY <1>2 DEF TakeItems
  <2>3. [s EXCEPT !.qty = @ - n] \in Stack /\ [s EXCEPT !.qty = n] \in Stack
    BY <1>2, <2>1 DEF Stack
  <2> QED BY <2>1, <2>2, <2>3 DEF Amount, MaybeStack, Stack
<1> QED BY <1>1, <1>2

\* Taking keeps to the limits, and where they are kept, what was taken, or any part of
\* it, can be put back.
LEMMA TakeFits ==
  ASSUME NEW s \in Slot, NEW n \in Nat \ {0}
  PROVE  /\ TakeItems(s, n).left \in Slot /\ TakeItems(s, n).got \in Slot
         /\ s = Empty => TakeItems(s, n).left = Empty
         /\ \A o \in Slot :
              LimitsKept /\ o.item = TakeItems(s, n).got.item /\ o.qty <= TakeItems(s, n).got.qty
                => Merge(TakeItems(s, n).left, o).left = Empty
<1>1. CASE s = Empty \/ s.item \notin Stackable \/ s.qty <= n
  <2>1. \/ TakeItems(s, n) = [left |-> s, got |-> Empty]
        \/ TakeItems(s, n) = [left |-> Empty, got |-> s]
    BY <1>1 DEF TakeItems
  <2>2. \A o \in Slot : o.item = NoItem => o = Empty
    BY SlotType, ItemsAssumption DEF Stack
  <2>3. \A o \in Slot : Merge(Empty, o).left = Empty /\ Merge(s, Empty).left = Empty
    BY DEF Merge
  <2>4. s = Empty => TakeItems(s, n).left = Empty
    BY DEF TakeItems
  <2> QED BY <2>1, <2>2, <2>3, <2>4, SlotType DEF Empty
<1>2. CASE s # Empty /\ s.item \in Stackable /\ ~(s.qty <= n)
  <2>1. s \in Stack /\ s.qty \in Nat /\ (LimitsKept => InLimits(s))
    BY <1>2, SlotType DEF Stack, FitStack
  <2> DEFINE left == [s EXCEPT !.qty = @ - n]
             got == [s EXCEPT !.qty = n]
  <2>2. TakeItems(s, n) = [left |-> left, got |-> got]
    BY <1>2 DEF TakeItems
  <2>3. /\ left \in Stack /\ left.item = s.item /\ left.qty = s.qty - n
        /\ got \in Stack /\ got.item = s.item /\ got.qty = n
    BY <1>2, <2>1 DEF Stack
  <2>4. InLimits(s) => InLimits(left) /\ InLimits(got)
    BY <1>2, <2>1, <2>3, ItemsAssumption DEF InLimits, Stack
  <2>5. left \in Slot /\ got \in Slot
    BY <2>1, <2>3, <2>4 DEF FitStack, Slot
  <2> HIDE DEF left, got
  <2>6. ASSUME NEW o \in Slot, LimitsKept, o.item = got.item, o.qty <= got.qty
        PROVE  Merge(left, o).left = Empty
    <3>1. o \in Stack
      BY <2>3, <2>6, SlotType, ItemsAssumption DEF Empty, Stack
    <3>2. s.qty <= MaxStack[s.item] /\ MaxStack[s.item] \in Nat
      BY <1>2, <2>1, <2>6, ItemsAssumption DEF InLimits, Stack
    <3>3. o.qty \in Nat /\ o.item = left.item /\ o.qty <= n
      BY <2>3, <2>6, <3>1 DEF Stack
    <3>4. Mergeable(left, o) /\ Room(left) \in Nat /\ o.qty <= Room(left)
      BY <1>2, <2>1, <2>3, <3>2, <3>3, ItemsAssumption DEF Mergeable, Room
    <3>5. Least(o.qty, Room(left)) = o.qty
      BY <3>4 DEF Least
    <3> QED BY <3>4, <3>5 DEF Merge
  <2> QED BY <1>2, <2>2, <2>5, <2>6
<1> QED BY <1>1, <1>2

-----------------------------------------------------------------------------
(* Sums over slots.                                                        *)

\* Slots numbered from 1 are a sequence.
LEMMA SlotsAreSeq ==
  ASSUME NEW n \in Nat, NEW S, NEW st \in [1 .. n -> S]
  PROVE  Len(st) = n
<1>1. st \in Seq(S)
  BY SeqDef
<1>2. DOMAIN st = 1 .. Len(st) /\ Len(st) \in Nat
  BY <1>1, LenProperties
<1> QED BY <1>2

\* The recursive function inside Sum.
Prefixes(i, st) ==
  CHOOSE f : f = [k \in 0 .. Len(st) |-> IF k = 0 THEN 0 ELSE f[k - 1] + Amount(i, st[k])]

\* A sum goes from slot to slot.
LEMMA SumUnfolds ==
  ASSUME NEW i \in Items, NEW n \in Nat, NEW st \in [1 .. n -> MaybeStack]
  PROVE  \E f \in [0 .. n -> Nat] : /\ f[0] = 0 /\ Sum(i, st) = f[n]
                                    /\ \A k \in 1 .. n : f[k] = f[k - 1] + Amount(i, st[k])
<1> DEFINE step == [k \in 1 .. n |-> [a \in Nat |-> a + Amount(i, st[k])]]
           f == Prefixes(i, st)
<1>1. Len(st) = n
  BY SlotsAreSeq
<1>2. \A k \in 1 .. n : Amount(i, st[k]) \in Nat
  BY AmountType
<1>3. step \in StepsTo(n, Nat)
  BY <1>2 DEF StepsTo
<1>4. \A k \in 1 .. n, a \in Nat : step[k][a] = a + Amount(i, st[k])
  OBVIOUS
<1> HIDE DEF step
<1>5. PICK g : Recursive(g, n, Nat, 0, step)
  BY <1>3, RecursionExists
<1>6. /\ g \in [0 .. n -> Nat] /\ g[0] = 0
      /\ \A k \in 1 .. n : g[k - 1] \in Nat /\ g[k] = g[k - 1] + Amount(i, st[k])
  BY <1>4, <1>5 DEF Recursive
<1>7. g = [k \in 0 .. n |-> IF k = 0 THEN 0 ELSE g[k - 1] + Amount(i, st[k])]
  BY <1>6
<1>8. f = [k \in 0 .. n |-> IF k = 0 THEN 0 ELSE f[k - 1] + Amount(i, st[k])]
  BY <1>1, <1>7, Zenon DEF Prefixes
<1>9. Sum(i, st) = f[n]
  BY <1>1 DEF Sum, Prefixes
<1> HIDE DEF f
<1>10. f[0] = 0 /\ \A k \in 1 .. n : f[k] = f[k - 1] + Amount(i, st[k])
  BY <1>8
<1>11. \A k \in 0 .. n : f[k] = g[k]
  <2>1. Alike(f, g, n)
    BY <1>6, <1>10 DEF Alike
  <2> QED BY <2>1, RecursionUnique
<1>12. f \in [0 .. n -> Nat]
  <2>1. \A k \in 0 .. n : f[k] \in Nat
    BY <1>6, <1>11
  <2>2. f = [k \in 0 .. n |-> f[k]]
    BY <1>8
  <2> QED BY <2>1, <2>2
<1> QED BY <1>9, <1>10, <1>12

LEMMA SumType ==
  ASSUME NEW i \in Items, NEW n \in Nat, NEW st \in [1 .. n -> MaybeStack]
  PROVE  Sum(i, st) \in Nat
BY SumUnfolds

\* Slots without items.
LEMMA SumOfNothing ==
  ASSUME NEW i \in Items, NEW n \in Nat, NEW st \in [1 .. n -> MaybeStack],
         \A k \in 1 .. n : st[k] = Empty
  PROVE  Sum(i, st) = 0
<1>1. PICK f \in [0 .. n -> Nat] : /\ f[0] = 0 /\ Sum(i, st) = f[n]
                                   /\ \A k \in 1 .. n : f[k] = f[k - 1] + Amount(i, st[k])
  BY SumUnfolds
<1>2. \A k \in 1 .. n : Amount(i, st[k]) = 0
  BY ItemsAssumption DEF Amount, Empty
<1> DEFINE g == [k \in 0 .. n |-> 0]
<1>3. \A k \in 1 .. n : f[k - 1] = g[k - 1] => f[k] = g[k]
  BY <1>1, <1>2
<1>4. f[0] = g[0]
  BY <1>1
<1> HIDE DEF g
<1>5. Alike(f, g, n)
  BY <1>3, <1>4 DEF Alike
<1>6. f[n] = g[n]
  <2>1. n \in 0 .. n
    OBVIOUS
  <2> QED BY <1>5, <2>1, RecursionUnique
<1> QED BY <1>1, <1>6 DEF g

LEMMA SumOfNoData == \A i \in Items : Sum(i, NoData) = 0
<1> SUFFICES ASSUME NEW i \in Items PROVE Sum(i, NoData) = 0
  OBVIOUS
<1>1. NoData \in [1 .. 0 -> MaybeStack]
  BY DEF NoData
<1>2. \A k \in 1 .. 0 : NoData[k] = Empty
  OBVIOUS
<1> QED BY <1>1, <1>2, SumOfNothing

\* One slot changes: the sum changes by as much.
LEMMA SumExcept ==
  ASSUME NEW i \in Items, NEW n \in Nat, NEW st \in [1 .. n -> MaybeStack],
         NEW c \in 1 .. n, NEW s \in MaybeStack
  PROVE  Sum(i, [st EXCEPT ![c] = s]) + Amount(i, st[c]) = Sum(i, st) + Amount(i, s)
<1> DEFINE new == [st EXCEPT ![c] = s]
<1>1. new \in [1 .. n -> MaybeStack]
  OBVIOUS
<1>2. PICK f \in [0 .. n -> Nat] : /\ f[0] = 0 /\ Sum(i, st) = f[n]
                                   /\ \A k \in 1 .. n : f[k] = f[k - 1] + Amount(i, st[k])
  BY SumUnfolds
<1>3. PICK g \in [0 .. n -> Nat] : /\ g[0] = 0 /\ Sum(i, new) = g[n]
                                   /\ \A k \in 1 .. n : g[k] = g[k - 1] + Amount(i, new[k])
  BY <1>1, SumUnfolds
<1> DEFINE d == Amount(i, s)
           e == Amount(i, st[c])
           x == [k \in 0 .. n |-> IF k < c THEN f[k] ELSE f[k] + d]
           y == [k \in 0 .. n |-> IF k < c THEN g[k] ELSE g[k] + e]
<1>4. d \in Nat /\ e \in Nat /\ \A k \in 1 .. n : Amount(i, st[k]) \in Nat
  BY AmountType
<1>5. \A k \in 1 .. n : Amount(i, new[k]) = IF k = c THEN d ELSE Amount(i, st[k])
  OBVIOUS
<1>6. Amount(i, st[c]) = e
  OBVIOUS
<1> HIDE DEF new, d, e
<1>7. ASSUME NEW k \in 1 .. n, x[k - 1] = y[k - 1] PROVE x[k] = y[k]
  <2>1. /\ k - 1 \in 0 .. n /\ k \in 0 .. n /\ c \in Int
        /\ f[k] \in Nat /\ f[k - 1] \in Nat /\ g[k] \in Nat /\ g[k - 1] \in Nat
    BY <1>2, <1>3
  <2>2. f[k] = f[k - 1] + Amount(i, st[k]) /\ g[k] = g[k - 1] + Amount(i, new[k])
    BY <1>2, <1>3
  <2>3. CASE k < c
    <3>1. f[k - 1] = g[k - 1]
      BY <1>7, <2>1, <2>3
    <3> QED BY <1>5, <2>1, <2>2, <2>3, <3>1
  <2>4. CASE k = c
    <3>1. f[k - 1] = g[k - 1]
      BY <1>7, <2>1, <2>4
    <3> QED BY <1>4, <1>5, <1>6, <2>1, <2>2, <2>4, <3>1
  <2>5. CASE k > c
    <3>1. f[k - 1] + d = g[k - 1] + e /\ Amount(i, new[k]) = Amount(i, st[k])
      BY <1>5, <1>7, <2>1, <2>5
    <3>2. Amount(i, st[k]) \in Nat /\ d \in Nat /\ e \in Nat
      BY <1>4
    <3>3. PICK u \in Nat, v \in Nat, a \in Nat :
            u = f[k - 1] /\ v = g[k - 1] /\ a = Amount(i, st[k])
      BY <2>1, <3>2
    <3>4. f[k] = u + a /\ g[k] = v + a /\ u + d = v + e
      BY <2>2, <3>1, <3>3
    <3>5. f[k] + d = g[k] + e
      BY <3>2, <3>4
    <3> QED BY <2>1, <2>5, <3>5
  <2> QED BY <2>1, <2>3, <2>4, <2>5
<1>8. x[0] = y[0]
  BY <1>2, <1>3
<1>9. x[n] = f[n] + d /\ y[n] = g[n] + e
  <2>1. n \in 0 .. n /\ ~(n < c)
    OBVIOUS
  <2> QED BY <2>1
<1> HIDE DEF x, y
<1>10. Alike(x, y, n)
  BY <1>7, <1>8 DEF Alike
<1>11. x[n] = y[n]
  <2>1. n \in 0 .. n
    OBVIOUS
  <2> QED BY <1>10, <2>1, RecursionUnique
<1>12. Sum(i, st) + d = Sum(i, new) + e
  BY <1>2, <1>3, <1>9, <1>11
<1> QED BY <1>12 DEF new, d, e

-----------------------------------------------------------------------------
(* Inserting into an inventory (Inventory::try_insert).                    *)

\* A set of numbers has a least member.
LEMMA LeastMember ==
  ASSUME NEW S \in SUBSET Nat, S # {}
  PROVE  \E m \in S : \A n \in S : m <= n
<1> DEFINE Less == {ss \in Nat \X Nat : ss[1] < ss[2]}
<1>1. IsWellFoundedOn(Less, Nat)
  BY NatLessThanWellFounded DEF OpToRel
<1>2. S \subseteq Nat
  OBVIOUS
<1> HIDE DEF Less
<1>3. PICK x \in S : \A y \in S : ~(<<y, x>> \in Less)
  BY <1>1, <1>2, WFMin, Zenon
<1>4. \A y \in S : y < x => <<y, x>> \in Less
  BY <1>2 DEF Less
<1>5. \A y \in S : ~(y < x)
  BY <1>3, <1>4
<1> QED BY <1>2, <1>3, <1>5

\* What remains of s after each slot, and what the slots are then.
Rests(inv, s) ==
  CHOOSE rest : rest = [k \in {0} \cup DOMAIN inv |->
    IF k = 0 THEN s
    ELSE IF inv[k] = Empty THEN rest[k - 1]
    ELSE Merge(inv[k], rest[k - 1]).left]
Rest(inv, s, rest, n) ==
  /\ rest \in [0 .. n -> Slot] /\ rest[0] = s
  /\ \A k \in 1 .. n :
       rest[k] = IF inv[k] = Empty THEN rest[k - 1] ELSE Merge(inv[k], rest[k - 1]).left
Merged(inv, rest) ==
  [k \in DOMAIN inv |-> IF inv[k] = Empty THEN Empty ELSE Merge(inv[k], rest[k - 1]).kept]

\* The recursive function inside TryInsert.
LEMMA RestsUnfold ==
  ASSUME NEW n \in Nat, NEW inv \in [1 .. n -> Slot], NEW s \in Slot
  PROVE  Rest(inv, s, Rests(inv, s), n)
<1> DEFINE step == [k \in 1 .. n |-> [a \in Slot |->
                      IF inv[k] = Empty THEN a ELSE Merge(inv[k], a).left]]
           r == Rests(inv, s)
<1>1. step \in StepsTo(n, Slot)
  BY MergeFits DEF StepsTo
<1>2. \A k \in 1 .. n, a \in Slot :
        step[k][a] = IF inv[k] = Empty THEN a ELSE Merge(inv[k], a).left
  OBVIOUS
<1> HIDE DEF step
<1>3. PICK g : Recursive(g, n, Slot, s, step)
  BY <1>1, RecursionExists
<1>4. /\ g \in [0 .. n -> Slot] /\ g[0] = s
      /\ \A k \in 1 .. n :
           g[k] = IF inv[k] = Empty THEN g[k - 1] ELSE Merge(inv[k], g[k - 1]).left
  BY <1>2, <1>3 DEF Recursive
<1>5. DOMAIN inv = 1 .. n /\ {0} \cup DOMAIN inv = 0 .. n
  OBVIOUS
<1>6. g = [k \in 0 .. n |-> IF k = 0 THEN s ELSE IF inv[k] = Empty THEN g[k - 1]
                            ELSE Merge(inv[k], g[k - 1]).left]
  BY <1>4
<1>7. r = [k \in 0 .. n |-> IF k = 0 THEN s ELSE IF inv[k] = Empty THEN r[k - 1]
                            ELSE Merge(inv[k], r[k - 1]).left]
  BY <1>5, <1>6, Zenon DEF Rests
<1> HIDE DEF r
<1>8. /\ r[0] = s
      /\ \A k \in 1 .. n :
           r[k] = IF inv[k] = Empty THEN r[k - 1] ELSE Merge(inv[k], r[k - 1]).left
  BY <1>7
<1>9. Alike(r, g, n)
  BY <1>4, <1>8 DEF Alike
<1>10. \A k \in 0 .. n : r[k] = g[k]
  BY <1>9, RecursionUnique
<1>11. r \in [0 .. n -> Slot]
  <2>1. \A k \in 0 .. n : r[k] \in Slot
    BY <1>4, <1>10
  <2>2. r = [k \in 0 .. n |-> r[k]]
    BY <1>7
  <2> QED BY <2>1, <2>2
<1> QED BY <1>8, <1>11 DEF Rest, r

\* What is inserted is merged slot by slot; what remains goes to an empty slot, if
\* there is one.
LEMMA TryInsertUnfolds ==
  ASSUME NEW n \in Nat, NEW inv \in [1 .. n -> Slot], NEW s \in Slot
  PROVE  \E rest :
           /\ Rest(inv, s, rest, n)
           /\ \/ /\ TryInsert(inv, s) = [inv |-> Merged(inv, rest), left |-> rest[n]]
                 /\ rest[n] # Empty => \A k \in 1 .. n : inv[k] # Empty
              \/ \E c \in 1 .. n :
                   /\ inv[c] = Empty
                   /\ TryInsert(inv, s)
                        = [inv |-> [Merged(inv, rest) EXCEPT ![c] = rest[n]], left |-> Empty]
<1> DEFINE rest == Rests(inv, s)
           free == {k \in DOMAIN inv : inv[k] = Empty}
           last == CHOOSE k \in {0} \cup DOMAIN inv : \A j \in DOMAIN inv : j <= k
           first == CHOOSE k \in free : \A j \in free : k <= j
<1>1. Rest(inv, s, rest, n)
  BY RestsUnfold
<1>2. last = n
  <2>1. DOMAIN inv = 1 .. n
    OBVIOUS
  <2>2. n \in {0} \cup DOMAIN inv /\ \A j \in DOMAIN inv : j <= n
    BY <2>1
  <2>3. last \in {0} \cup DOMAIN inv /\ \A j \in DOMAIN inv : j <= last
    BY <2>2, Zenon
  <2> HIDE DEF last
  <2> QED BY <2>1, <2>3
<1>3. free # {} => first \in free
  <2>1. free \in SUBSET Nat
    OBVIOUS
  <2> HIDE DEF free
  <2>2. free # {} => \E k \in free : \A j \in free : k <= j
    BY <2>1, LeastMember
  <2> QED BY <2>2, Zenon
<1>4. TryInsert(inv, s) =
        IF rest[last] = Empty THEN [inv |-> Merged(inv, rest), left |-> Empty]
        ELSE IF free = {} THEN [inv |-> Merged(inv, rest), left |-> rest[last]]
        ELSE [inv |-> [Merged(inv, rest) EXCEPT ![first] = rest[last]], left |-> Empty]
  BY Zenon DEF TryInsert, Rests, Merged
<1>5. free = {} => \A k \in 1 .. n : inv[k] # Empty
  OBVIOUS
<1>6. \A k \in free : k \in 1 .. n /\ inv[k] = Empty
  OBVIOUS
<1> HIDE DEF rest, free, last, first
<1>7. CASE rest[n] = Empty
  BY <1>1, <1>2, <1>4, <1>7
<1>8. CASE rest[n] # Empty /\ free = {}
  BY <1>1, <1>2, <1>4, <1>5, <1>8
<1>9. CASE rest[n] # Empty /\ free # {}
  <2>1. first \in 1 .. n /\ inv[first] = Empty
    BY <1>3, <1>6, <1>9
  <2>2. TryInsert(inv, s) = [inv |-> [Merged(inv, rest) EXCEPT ![first] = rest[n]], left |-> Empty]
    BY <1>2, <1>4, <1>9
  <2> QED BY <1>1, <2>1, <2>2
<1> QED BY <1>7, <1>8, <1>9

\* The slots after merging are slots, and with what remains have what the slots and the
\* stack had before.
LEMMA MergedSum ==
  ASSUME NEW n \in Nat, NEW inv \in [1 .. n -> Slot], NEW s \in Slot, NEW rest,
         Rest(inv, s, rest, n)
  PROVE  /\ Merged(inv, rest) \in [1 .. n -> Slot]
         /\ \A k \in 1 .. n : inv[k] = Empty => Merged(inv, rest)[k] = Empty
         /\ \A i \in Items : Sum(i, Merged(inv, rest)) + Amount(i, rest[n])
                               = Sum(i, inv) + Amount(i, s)
<1> DEFINE new == Merged(inv, rest)
<1>1. /\ rest \in [0 .. n -> Slot] /\ rest[0] = s
      /\ \A k \in 1 .. n :
           rest[k] = IF inv[k] = Empty THEN rest[k - 1] ELSE Merge(inv[k], rest[k - 1]).left
  BY DEF Rest
<1>2. \A k \in 1 .. n : rest[k - 1] \in Slot /\ rest[k] \in Slot /\ inv[k] \in Slot
  BY <1>1
<1>3. /\ DOMAIN new = 1 .. n
      /\ \A k \in 1 .. n :
           new[k] = IF inv[k] = Empty THEN Empty ELSE Merge(inv[k], rest[k - 1]).kept
  BY DEF Merged
<1>4. new \in [1 .. n -> Slot]
  <2>1. \A k \in 1 .. n : new[k] \in Slot
    BY <1>2, <1>3, MergeFits, SlotType
  <2>2. new = [k \in 1 .. n |-> new[k]]
    BY DEF Merged
  <2> QED BY <2>1, <2>2
<1>5. ASSUME NEW i \in Items, NEW k \in 1 .. n
      PROVE  /\ Amount(i, new[k]) + Amount(i, rest[k]) = Amount(i, inv[k]) + Amount(i, rest[k - 1])
             /\ Amount(i, new[k]) \in Nat /\ Amount(i, rest[k]) \in Nat
             /\ Amount(i, inv[k]) \in Nat /\ Amount(i, rest[k - 1]) \in Nat
  <2>1. inv[k] \in MaybeStack /\ rest[k - 1] \in MaybeStack /\ rest[k] \in MaybeStack
    BY <1>2, SlotType
  <2>2. new[k] \in MaybeStack
    BY <1>4, SlotType
  <2>3. CASE inv[k] = Empty
    BY <1>1, <1>3, <2>1, <2>2, <2>3, AmountType
  <2>4. CASE inv[k] # Empty
    <3>1. new[k] = Merge(inv[k], rest[k - 1]).kept /\ rest[k] = Merge(inv[k], rest[k - 1]).left
      BY <1>1, <1>3, <2>4
    <3> QED BY <2>1, <2>2, <3>1, AmountType, MergeConserves
  <2> QED BY <2>3, <2>4
<1> HIDE DEF new
<1>6. ASSUME NEW i \in Items
      PROVE  Sum(i, new) + Amount(i, rest[n]) = Sum(i, inv) + Amount(i, s)
  <2>1. new \in [1 .. n -> MaybeStack] /\ inv \in [1 .. n -> MaybeStack]
    BY <1>4, SlotType
  <2>2. PICK f \in [0 .. n -> Nat] : /\ f[0] = 0 /\ Sum(i, inv) = f[n]
                                     /\ \A k \in 1 .. n : f[k] = f[k - 1] + Amount(i, inv[k])
    BY <2>1, SumUnfolds
  <2>3. PICK g \in [0 .. n -> Nat] : /\ g[0] = 0 /\ Sum(i, new) = g[n]
                                     /\ \A k \in 1 .. n : g[k] = g[k - 1] + Amount(i, new[k])
    BY <2>1, SumUnfolds
  <2> DEFINE x == [k \in 0 .. n |-> g[k] + Amount(i, rest[k])]
             y == [k \in 0 .. n |-> f[k] + Amount(i, s)]
  <2>4. Amount(i, s) \in Nat
    BY AmountType, SlotType
  <2>5. ASSUME NEW k \in 1 .. n, x[k - 1] = y[k - 1] PROVE x[k] = y[k]
    <3>1. PICK u \in Nat, v \in Nat, a \in Nat, b \in Nat, c \in Nat, d \in Nat, e \in Nat :
            /\ u = f[k - 1] /\ v = g[k - 1] /\ a = Amount(i, inv[k]) /\ b = Amount(i, new[k])
            /\ c = Amount(i, rest[k - 1]) /\ d = Amount(i, rest[k]) /\ e = Amount(i, s)
      <4>1. f[k - 1] \in Nat /\ g[k - 1] \in Nat
        BY <2>2, <2>3
      <4> QED BY <1>5, <2>4, <4>1
    <3>2. v + c = u + e
      <4>1. k - 1 \in 0 .. n
        OBVIOUS
      <4> QED BY <2>5, <3>1, <4>1
    <3>3. b + d = a + c
      BY <1>5, <3>1
    <3>4. f[k] = u + a /\ g[k] = v + b
      BY <2>2, <2>3, <3>1
    <3>5. (v + b) + d = (u + a) + e
      BY <3>2, <3>3
    <3>6. x[k] = g[k] + d /\ y[k] = f[k] + e
      BY <3>1
    <3> HIDE DEF x, y
    <3> QED BY <3>4, <3>5, <3>6
  <2>6. x[0] = y[0]
    BY <1>1, <2>2, <2>3
  <2>7. n \in 0 .. n
    OBVIOUS
  <2>8. x[n] = g[n] + Amount(i, rest[n]) /\ y[n] = f[n] + Amount(i, s)
    BY <2>7
  <2> HIDE DEF x, y
  <2>9. Alike(x, y, n)
    BY <2>5, <2>6 DEF Alike
  <2> QED BY <2>2, <2>3, <2>7, <2>8, <2>9, RecursionUnique
<1> QED BY <1>3, <1>4, <1>6 DEF new

\* What remains in the end is part of what was inserted, and none of the slots had room.
LEMMA RestHadNoRoom ==
  ASSUME NEW n \in Nat, NEW inv \in [1 .. n -> Slot], NEW s \in Slot, NEW rest,
         Rest(inv, s, rest, n), rest[n] # Empty
  PROVE  /\ s # Empty /\ rest[n].item = s.item /\ rest[n].qty <= s.qty
         /\ \A k \in 1 .. n : inv[k] # Empty /\ Mergeable(inv[k], s) => Room(inv[k]) < s.qty
<1> DEFINE Part(r) == r # Empty => s # Empty /\ r.item = s.item /\ r.qty <= s.qty
           Full(m) == \A k \in 1 .. m : inv[k] # Empty /\ Mergeable(inv[k], s) => Room(inv[k]) < s.qty
           G == {m \in Nat : m <= n => Part(rest[m]) /\ (rest[m] # Empty => Full(m))}
<1>1. /\ rest \in [0 .. n -> Slot] /\ rest[0] = s
      /\ \A k \in 1 .. n :
           rest[k] = IF inv[k] = Empty THEN rest[k - 1] ELSE Merge(inv[k], rest[k - 1]).left
  BY DEF Rest
<1>2. \A r \in Slot : r # Empty => r \in Stack /\ r.qty \in Nat
  BY SlotType DEF Stack
<1>3. 0 \in G
  BY <1>1, <1>2
<1>4. ASSUME NEW m \in G PROVE m + 1 \in G
  <2> SUFFICES ASSUME m + 1 <= n, rest[m + 1] # Empty
               PROVE  Part(rest[m + 1]) /\ Full(m + 1)
    OBVIOUS
  <2>1. m \in Nat /\ m + 1 \in 1 .. n /\ (m + 1) - 1 = m /\ m \in 0 .. n
    OBVIOUS
  <2>2. /\ rest[m] \in Slot /\ inv[m + 1] \in Slot
        /\ rest[m + 1] = IF inv[m + 1] = Empty THEN rest[m] ELSE Merge(inv[m + 1], rest[m]).left
    BY <1>1, <2>1
  <2>3. Part(rest[m]) /\ (rest[m] # Empty => Full(m))
    BY <2>1
  <2> HIDE DEF G
  <2>4. CASE inv[m + 1] = Empty
    BY <2>1, <2>2, <2>3, <2>4
  <2>5. CASE inv[m + 1] # Empty
    <3> DEFINE l == Merge(inv[m + 1], rest[m]).left
    <3>1. rest[m + 1] = l /\ l # Empty /\ l \in Slot
      BY <2>2, <2>5, MergeFits
    <3>2. /\ rest[m] # Empty /\ l.item = rest[m].item /\ l.qty <= rest[m].qty
          /\ Mergeable(inv[m + 1], rest[m]) => Room(inv[m + 1]) < rest[m].qty
      BY <2>2, <3>1, MergeFits
    <3> HIDE DEF l
    <3>3. s # Empty /\ rest[m].item = s.item /\ rest[m].qty <= s.qty
      BY <2>3, <3>2
    <3>4. l.qty \in Nat /\ rest[m].qty \in Nat /\ s.qty \in Nat
      BY <1>2, <2>2, <3>1, <3>2, <3>3
    <3>5. Part(l)
      BY <3>2, <3>3, <3>4
    <3>6. Mergeable(inv[m + 1], s) => Room(inv[m + 1]) < s.qty
      <4>1. Room(inv[m + 1]) \in Nat
        BY <2>2, <2>5, SlotType, RoomType
      <4>2. Mergeable(inv[m + 1], s) => Mergeable(inv[m + 1], rest[m])
        BY <3>3 DEF Mergeable
      <4> QED BY <3>2, <3>3, <3>4, <4>1, <4>2
    <3>7. Full(m + 1)
      BY <2>1, <2>3, <3>2, <3>6
    <3> QED BY <3>1, <3>5, <3>7
  <2> QED BY <2>4, <2>5
<1>5. G \in SUBSET Nat
  OBVIOUS
<1> HIDE DEF G
<1>6. n \in G
  BY <1>3, <1>4, <1>5, AllNumbers
<1>7. Part(rest[n]) /\ Full(n)
  BY <1>6 DEF G
<1> QED BY <1>7

\* Inventory::try_insert neither makes nor destroys items, and leaves something over
\* only if there was no room for what it was given.
THEOREM InsertConserves ==
  ASSUME NEW n \in Nat, NEW inv \in [1 .. n -> Slot], NEW s \in Slot
  PROVE  /\ TryInsert(inv, s).inv \in [1 .. n -> Slot] /\ TryInsert(inv, s).left \in Slot
         /\ \A i \in Items : Sum(i, TryInsert(inv, s).inv) + Amount(i, TryInsert(inv, s).left)
                               = Sum(i, inv) + Amount(i, s)
         /\ TryInsert(inv, s).left # Empty =>
              /\ NoRoomAt(inv, s)
              /\ TryInsert(inv, s).left.item = s.item /\ TryInsert(inv, s).left.qty <= s.qty
<1>1. PICK rest :
        /\ Rest(inv, s, rest, n)
        /\ \/ /\ TryInsert(inv, s) = [inv |-> Merged(inv, rest), left |-> rest[n]]
              /\ rest[n] # Empty => \A k \in 1 .. n : inv[k] # Empty
           \/ \E c \in 1 .. n :
                /\ inv[c] = Empty
                /\ TryInsert(inv, s)
                     = [inv |-> [Merged(inv, rest) EXCEPT ![c] = rest[n]], left |-> Empty]
  BY TryInsertUnfolds
<1> DEFINE new == Merged(inv, rest)
<1>2. /\ new \in [1 .. n -> Slot]
      /\ \A k \in 1 .. n : inv[k] = Empty => new[k] = Empty
      /\ \A i \in Items : Sum(i, new) + Amount(i, rest[n]) = Sum(i, inv) + Amount(i, s)
  BY <1>1, MergedSum
<1>3. rest[n] \in Slot
  BY <1>1 DEF Rest
<1> HIDE DEF new
<1>4. CASE /\ TryInsert(inv, s) = [inv |-> new, left |-> rest[n]]
           /\ rest[n] # Empty => \A k \in 1 .. n : inv[k] # Empty
  <2>1. rest[n] # Empty => NoRoomAt(inv, s)
    <3> SUFFICES ASSUME rest[n] # Empty PROVE NoRoomAt(inv, s)
      OBVIOUS
    <3>1. \A k \in 1 .. n : inv[k] # Empty /\ Mergeable(inv[k], s) => Room(inv[k]) < s.qty
      BY <1>1, RestHadNoRoom
    <3>2. \A k \in 1 .. n : inv[k] # Empty
      BY <1>4
    <3> QED BY <3>1, <3>2 DEF NoRoomAt
  <2>2. rest[n] # Empty => rest[n].item = s.item /\ rest[n].qty <= s.qty
    BY <1>1, RestHadNoRoom
  <2> QED BY <1>2, <1>3, <1>4, <2>1, <2>2
<1>5. ASSUME NEW c \in 1 .. n, inv[c] = Empty,
             TryInsert(inv, s) = [inv |-> [new EXCEPT ![c] = rest[n]], left |-> Empty]
      PROVE  /\ TryInsert(inv, s).inv \in [1 .. n -> Slot] /\ TryInsert(inv, s).left = Empty
             /\ \A i \in Items : Sum(i, TryInsert(inv, s).inv) + Amount(i, TryInsert(inv, s).left)
                                   = Sum(i, inv) + Amount(i, s)
  <2> DEFINE full == [new EXCEPT ![c] = rest[n]]
  <2>1. TryInsert(inv, s).inv = full /\ TryInsert(inv, s).left = Empty
    BY <1>5
  <2>2. full \in [1 .. n -> Slot]
    BY <1>2, <1>3
  <2>3. ASSUME NEW i \in Items
        PROVE  Sum(i, full) + Amount(i, Empty) = Sum(i, inv) + Amount(i, s)
    <3>1. new \in [1 .. n -> MaybeStack] /\ rest[n] \in MaybeStack
      BY <1>2, <1>3, SlotType
    <3>2. Sum(i, full) + Amount(i, new[c]) = Sum(i, new) + Amount(i, rest[n])
      BY <3>1, SumExcept
    <3>3. new[c] = Empty
      BY <1>2, <1>5
    <3> QED BY <1>2, <3>2, <3>3
  <2> HIDE DEF full
  <2> QED BY <2>1, <2>2, <2>3
<1> QED BY <1>1, <1>4, <1>5, SlotType DEF new

-----------------------------------------------------------------------------
(* The hand and the grid.                                                  *)

\* Nothing held is a slot of the hand, and so is any stack with an origin.
LEMMA HeldType ==
  /\ NothingHeld \in Held /\ NothingHeld.stack = Empty /\ Nowhere \in Origins
  /\ \A s \in Slot, f \in Origins :
       Wrap(s, f) \in Held /\ Wrap(s, f).stack = s /\ (s = Empty <=> Wrap(s, f) = NothingHeld)
  /\ \A h \in Held : /\ h.stack \in Slot /\ h.stack \in MaybeStack /\ h.from \in Origins
                     /\ h = NothingHeld <=> h.stack = Empty
<1>1. NothingHeld \in Held /\ NothingHeld.stack = Empty /\ Nowhere \in Origins
  BY DEF NothingHeld, Held, Origins
<1>2. ASSUME NEW s \in Slot, NEW f \in Origins
      PROVE  Wrap(s, f) \in Held /\ Wrap(s, f).stack = s /\ (s = Empty <=> Wrap(s, f) = NothingHeld)
  <2>1. CASE s = Empty
    BY <1>1, <2>1 DEF Wrap
  <2>2. CASE s # Empty
    <3>1. Wrap(s, f) = [stack |-> s, from |-> f] /\ s \in FitStack
      BY <2>2, SlotType DEF Wrap
    <3>2. Wrap(s, f) # NothingHeld
      BY <1>1, <2>2, <3>1
    <3> QED BY <2>2, <3>1, <3>2 DEF Held
  <2> QED BY <2>1, <2>2
<1>3. ASSUME NEW h \in Held
      PROVE  /\ h.stack \in Slot /\ h.stack \in MaybeStack /\ h.from \in Origins
             /\ h = NothingHeld <=> h.stack = Empty
  <2>1. CASE h = NothingHeld
    BY <1>1, <2>1, SlotType DEF NothingHeld
  <2>2. CASE h # NothingHeld
    <3>1. h \in [stack : FitStack, from : Origins]
      BY <2>2 DEF Held
    <3>2. h.stack \in FitStack /\ h.from \in Origins
      BY <3>1
    <3> QED BY <2>2, <3>2, SlotType
  <2> QED BY <2>1, <2>2
<1> QED BY <1>1, <1>2, <1>3

\* Part of a stack is no more of any item.
LEMMA PartAtMost ==
  ASSUME NEW s \in Slot, NEW o \in Slot,
         o # Empty => o.item = s.item /\ o.qty <= s.qty
  PROVE  \A i \in Items : Amount(i, o) <= Amount(i, s)
<1> SUFFICES ASSUME NEW i \in Items PROVE Amount(i, o) <= Amount(i, s)
  OBVIOUS
<1>1. CASE o = Empty
  <2>1. Amount(i, s) \in Nat /\ Amount(i, o) = 0
    BY <1>1, AmountType, AmountOfEmpty, SlotType
  <2> QED BY <2>1
<1>2. CASE o # Empty
  <2>1. o.item = s.item /\ o.qty <= s.qty
    BY <1>2
  <2> QED BY <2>1 DEF Amount
<1> QED BY <1>1, <1>2

\* Putting a stack into the hand or the grid: as in an inventory.
LEMMA MergeHeldConserves ==
  ASSUME NEW h \in Held, NEW b \in Held
  PROVE  /\ MergeHeld(h, b).kept \in Held /\ MergeHeld(h, b).left \in Held
         /\ \A i \in Items :
              Amount(i, MergeHeld(h, b).kept.stack) + Amount(i, MergeHeld(h, b).left.stack)
                = Amount(i, h.stack) + Amount(i, b.stack)
         /\ MergeHeld(h, b).left # NothingHeld =>
              /\ MergeHeld(h, b).left.stack = Merge(h.stack, b.stack).left
              /\ MergeHeld(h, b).left.stack.item = b.stack.item
              /\ MergeHeld(h, b).left.stack.qty <= b.stack.qty
<1>1. CASE b = NothingHeld \/ h = NothingHeld
  <2>1. \A i \in Items : Amount(i, NothingHeld.stack) = 0
    BY HeldType, AmountOfEmpty
  <2>2. \A i \in Items : Amount(i, h.stack) \in Nat /\ Amount(i, b.stack) \in Nat
    BY HeldType, AmountType
  <2> QED BY <1>1, <2>1, <2>2, HeldType DEF MergeHeld
<1>2. CASE b # NothingHeld /\ h # NothingHeld
  <2> DEFINE m == Merge(h.stack, b.stack)
             from == IF h.from.where = "none" THEN b.from ELSE h.from
  <2>1. MergeHeld(h, b) = [kept |-> [stack |-> m.kept, from |-> from],
                           left |-> Wrap(m.left, b.from)]
    BY <1>2 DEF MergeHeld
  <2>2. \A i \in Items : Amount(i, m.kept) + Amount(i, m.left)
                           = Amount(i, h.stack) + Amount(i, b.stack)
    BY HeldType, MergeConserves
  <2>3. /\ m.kept \in Slot /\ m.left \in Slot /\ m.kept # Empty
        /\ m.left # Empty => m.left.item = b.stack.item /\ m.left.qty <= b.stack.qty
    <3>1. h.stack \in Slot /\ b.stack \in Slot /\ h.stack # Empty
      BY <1>2, HeldType
    <3> QED BY <3>1, MergeFits
  <2>4. from \in Origins /\ b.from \in Origins
    BY HeldType
  <2> HIDE DEF m, from
  <2>5. [stack |-> m.kept, from |-> from] \in Held
    BY <2>3, <2>4, SlotType DEF Held
  <2>6. /\ Wrap(m.left, b.from) \in Held /\ Wrap(m.left, b.from).stack = m.left
        /\ Wrap(m.left, b.from) # NothingHeld => m.left # Empty
    BY <2>3, <2>4, HeldType
  <2> QED BY <2>1, <2>2, <2>3, <2>5, <2>6 DEF m
<1> QED BY <1>1, <1>2

\* What goes onto nothing, and nothing onto something.
LEMMA MergeHeldNothing ==
  \A h \in Held : /\ MergeHeld(NothingHeld, h) = [kept |-> h, left |-> NothingHeld]
                  /\ MergeHeld(h, NothingHeld) = [kept |-> h, left |-> NothingHeld]
BY DEF MergeHeld

\* Taking from the hand or the grid: as from an inventory.  Where the limits are kept,
\* what was taken, or any part of it, can be put back.
LEMMA TakeHeldConserves ==
  ASSUME NEW h \in Held, NEW n \in Nat \ {0}
  PROVE  /\ TakeHeld(h, n).left \in Held /\ TakeHeld(h, n).got \in Held
         /\ \A i \in Items :
              Amount(i, TakeHeld(h, n).left.stack) + Amount(i, TakeHeld(h, n).got.stack)
                = Amount(i, h.stack)
         /\ \A o \in Held :
              LimitsKept /\ (o # NothingHeld => /\ o.stack.item = TakeHeld(h, n).got.stack.item
                                                /\ o.stack.qty <= TakeHeld(h, n).got.stack.qty)
                => MergeHeld(TakeHeld(h, n).left, o).left = NothingHeld
<1> DEFINE t == TakeItems(h.stack, n)
<1>1. \A i \in Items : Amount(i, t.left) + Amount(i, t.got) = Amount(i, h.stack)
  BY HeldType, TakeConserves
<1>2. TakeHeld(h, n) = [left |-> Wrap(t.left, h.from), got |-> Wrap(t.got, h.from)]
  BY DEF TakeHeld
<1>3. /\ t.left \in Slot /\ t.got \in Slot
      /\ \A o \in Slot : LimitsKept /\ o.item = t.got.item /\ o.qty <= t.got.qty
                           => Merge(t.left, o).left = Empty
  BY HeldType, TakeFits
<1> HIDE DEF t
<1>4. /\ Wrap(t.left, h.from) \in Held /\ Wrap(t.left, h.from).stack = t.left
      /\ Wrap(t.got, h.from) \in Held /\ Wrap(t.got, h.from).stack = t.got
  BY <1>3, HeldType
<1>5. ASSUME NEW o \in Held, LimitsKept,
             o # NothingHeld => /\ o.stack.item = Wrap(t.got, h.from).stack.item
                                /\ o.stack.qty <= Wrap(t.got, h.from).stack.qty
      PROVE  MergeHeld(Wrap(t.left, h.from), o).left = NothingHeld
  <2>1. CASE o = NothingHeld
    BY <1>4, <2>1, MergeHeldNothing
  <2>2. CASE o # NothingHeld
    <3>1. Merge(t.left, o.stack).left = Empty
      BY <1>3, <1>4, <1>5, <2>2, HeldType
    <3>2. MergeHeld(Wrap(t.left, h.from), o).left # NothingHeld
            => /\ MergeHeld(Wrap(t.left, h.from), o).left \in Held
               /\ MergeHeld(Wrap(t.left, h.from), o).left.stack = Empty
      BY <1>4, <3>1, MergeHeldConserves
    <3> QED BY <3>2, HeldType
  <2> QED BY <2>1, <2>2
<1> QED BY <1>1, <1>2, <1>4, <1>5

\* What hand and grid hold together, when one of them changes.
LEMMA HandsAreSlots ==
  /\ OwnSlots = {Hand} \cup Grid /\ Hand \in OwnSlots /\ Hand \notin Grid
  /\ \A views \in [OwnSlots -> Held] : [k \in Grid |-> views[k].stack] \in [1 .. GridSlots -> MaybeStack]
<1>1. OwnSlots = {Hand} \cup Grid /\ Hand \in OwnSlots /\ Hand \notin Grid
  BY InventoryAssumption DEF OwnSlots, Grid, Hand
<1> QED BY <1>1, HeldType DEF Grid

LEMMA SumHeldType ==
  ASSUME NEW i \in Items, NEW views \in [OwnSlots -> Held]
  PROVE  SumHeld(i, views) \in Nat
<1>1. Sum(i, [k \in Grid |-> views[k].stack]) \in Nat
  BY HandsAreSlots, SumType, InventoryAssumption
<1>2. Amount(i, views[Hand].stack) \in Nat
  BY HandsAreSlots, HeldType, AmountType
<1> QED BY <1>1, <1>2 DEF SumHeld

LEMMA SumHeldExcept ==
  ASSUME NEW i \in Items, NEW views \in [OwnSlots -> Held], NEW c \in OwnSlots, NEW h \in Held
  PROVE  SumHeld(i, [views EXCEPT ![c] = h]) + Amount(i, views[c].stack)
           = SumHeld(i, views) + Amount(i, h.stack)
<1> DEFINE grid(w) == [k \in Grid |-> w[k].stack]
           after == [views EXCEPT ![c] = h]
<1>1. after \in [OwnSlots -> Held] /\ after[c] = h
  OBVIOUS
<1>2. /\ Sum(i, grid(views)) \in Nat /\ Sum(i, grid(after)) \in Nat
      /\ Amount(i, views[Hand].stack) \in Nat /\ Amount(i, after[Hand].stack) \in Nat
      /\ Amount(i, views[c].stack) \in Nat /\ Amount(i, h.stack) \in Nat
  BY <1>1, HandsAreSlots, HeldType, SumType, AmountType, InventoryAssumption
<1>3. CASE c = Hand
  <2>1. grid(after) = grid(views)
    BY <1>3, HandsAreSlots
  <2> HIDE DEF after, grid
  <2>2. SumHeld(i, after) = Amount(i, h.stack) + Sum(i, grid(views))
    BY <1>1, <1>3, <2>1 DEF SumHeld, grid
  <2>3. SumHeld(i, views) = Amount(i, views[c].stack) + Sum(i, grid(views))
    BY <1>3 DEF SumHeld, grid
  <2> QED BY <1>2, <2>2, <2>3 DEF after
<1>4. CASE c # Hand
  <2>1. c \in 1 .. GridSlots
    BY <1>4, HandsAreSlots DEF Grid
  <2>2. grid(after) = [grid(views) EXCEPT ![c] = h.stack]
    BY <1>4, HandsAreSlots
  <2>3. grid(views) \in [1 .. GridSlots -> MaybeStack] /\ grid(views)[c] = views[c].stack
    BY <2>1, HandsAreSlots DEF Grid
  <2>4. after[Hand] = views[Hand]
    BY <1>4, HandsAreSlots
  <2>5. h.stack \in MaybeStack
    BY HeldType
  <2> HIDE DEF after, grid
  <2>6. Sum(i, grid(after)) + Amount(i, views[c].stack) = Sum(i, grid(views)) + Amount(i, h.stack)
    <3>1. PICK st \in [1 .. GridSlots -> MaybeStack] : st = grid(views)
      BY <2>3
    <3>2. PICK n \in Nat, s \in MaybeStack : n = GridSlots /\ s = h.stack
      BY <2>5, InventoryAssumption
    <3>3. Sum(i, [st EXCEPT ![c] = s]) + Amount(i, st[c]) = Sum(i, st) + Amount(i, s)
      BY <2>1, <3>1, <3>2, SumExcept
    <3> QED BY <2>2, <2>3, <3>1, <3>2, <3>3
  <2>7. SumHeld(i, after) = Amount(i, views[Hand].stack) + Sum(i, grid(after))
    BY <2>4 DEF SumHeld, grid
  <2>8. SumHeld(i, views) = Amount(i, views[Hand].stack) + Sum(i, grid(views))
    BY DEF SumHeld, grid
  <2> QED BY <1>2, <2>6, <2>7, <2>8 DEF after
<1> QED BY <1>3, <1>4

LEMMA SumOfHoldsNothing ==
  /\ HoldsNothing \in [OwnSlots -> Held]
  /\ \A i \in Items : SumHeld(i, HoldsNothing) = 0
<1>1. HoldsNothing \in [OwnSlots -> Held]
  BY HeldType DEF HoldsNothing
<1>2. ASSUME NEW i \in Items PROVE SumHeld(i, HoldsNothing) = 0
  <2>1. \A k \in OwnSlots : HoldsNothing[k].stack = Empty
    BY HeldType DEF HoldsNothing
  <2>2. Sum(i, [k \in Grid |-> HoldsNothing[k].stack]) = 0
    <3> DEFINE st == [k \in Grid |-> HoldsNothing[k].stack]
    <3>1. st \in [1 .. GridSlots -> MaybeStack] /\ \A k \in 1 .. GridSlots : st[k] = Empty
      BY <1>1, <2>1, HandsAreSlots DEF Grid
    <3> HIDE DEF st
    <3>2. Sum(i, st) = 0
      BY <3>1, SumOfNothing, InventoryAssumption
    <3> QED BY <3>2 DEF st
  <2>3. Amount(i, HoldsNothing[Hand].stack) = 0
    BY <2>1, HandsAreSlots, AmountOfEmpty
  <2> QED BY <2>2, <2>3 DEF SumHeld
<1> QED BY <1>1, <1>2

-----------------------------------------------------------------------------
(* Counting: the block, a player's share, and all of them together.        *)

PCs == {"idle", "putBack", "swapPut", "clear", "owner", "write", "open"}

\* InJob and Share as functions of the player's own part of the state.
Work(i, inv, place, j) ==
  IF place \in {"putBack", "owner"} THEN Amount(i, j.stack)
  ELSE IF place = "swapPut" THEN Amount(i, j.mine.stack) + Amount(i, j.other.stack)
  ELSE IF place = "write" THEN Sum(i, j.main) - Sum(i, inv)
  ELSE 0
Holds(i, inv, hand, gone, place, j) ==
  Sum(i, inv) + SumHeld(i, hand) + SumHeld(i, gone) + Work(i, inv, place, j)

LEMMA ShareHolds ==
  ASSUME NEW i, NEW p
  PROVE  /\ Share(i, p) = Holds(i, main[p], held[p], old[p], pc[p], job[p])
         /\ Share(i, p)' = Holds(i, main'[p], held'[p], old'[p], pc'[p], job'[p])
BY DEF Share, InJob, Holds, Work

\* An inventory's sum is a number, and so is a block's.
LEMMA InventorySum ==
  \A i \in Items : /\ \A n \in Nat : \A inv \in Inventories(n) : Sum(i, inv) \in Nat
                   /\ \A d \in Data : Sum(i, d) \in Nat
<1> SUFFICES ASSUME NEW i \in Items
             PROVE  /\ \A n \in Nat : \A inv \in Inventories(n) : Sum(i, inv) \in Nat
                    /\ \A d \in Data : Sum(i, d) \in Nat
  OBVIOUS
<1>1. ASSUME NEW n \in Nat, NEW inv \in Inventories(n) PROVE Sum(i, inv) \in Nat
  <2>1. inv \in [1 .. n -> MaybeStack]
    BY SlotType DEF Inventories
  <2> QED BY <2>1, SumType
<1>2. ChestSlots \in Nat
  BY InventoryAssumption
<1> QED BY <1>1, <1>2, SumOfNoData DEF Data

LEMMA BlockSum ==
  ASSUME NEW i \in Items, NEW b, b.data \in Data
  PROVE  InBlock(i, b) \in Nat
BY InventorySum DEF InBlock

\* What a request works on, by its place.
LEMMA WorkType ==
  ASSUME NEW i \in Items, NEW inv \in Inventories(MainSlots), NEW place \in PCs,
         NEW j \in JobAt(place)
  PROVE  /\ Work(i, inv, place, j) \in Int
         /\ place # "write" => Work(i, inv, place, j) \in Nat
         /\ place \in {"idle", "clear", "open"} => Work(i, inv, place, j) = 0
<1>1. CASE place \in {"putBack", "owner"}
  <2>1. j.stack \in MaybeStack
    BY <1>1, SlotType DEF JobAt
  <2>2. Work(i, inv, place, j) = Amount(i, j.stack)
    BY <1>1 DEF Work
  <2> QED BY <1>1, <2>1, <2>2, AmountType
<1>2. CASE place = "swapPut"
  <2>1. j.mine.stack \in MaybeStack /\ j.other.stack \in MaybeStack
    BY <1>2, HeldType DEF JobAt
  <2>2. Work(i, inv, place, j) = Amount(i, j.mine.stack) + Amount(i, j.other.stack)
    BY <1>2 DEF Work
  <2> QED BY <1>2, <2>1, <2>2, AmountType
<1>3. CASE place = "write"
  <2>1. j.main \in Inventories(MainSlots)
    BY <1>3 DEF JobAt
  <2>2. Work(i, inv, place, j) = Sum(i, j.main) - Sum(i, inv)
    BY <1>3 DEF Work
  <2>3. Sum(i, j.main) \in Nat /\ Sum(i, inv) \in Nat
    BY <2>1, InventorySum, InventoryAssumption
  <2> QED BY <1>3, <2>2, <2>3
<1>4. CASE place \in {"idle", "clear", "open"}
  BY <1>4 DEF Work
<1> QED BY <1>1, <1>2, <1>3, <1>4 DEF PCs

\* The numbers of a player's share.
Numbers(i, inv, hand, gone, place, j) ==
  /\ Sum(i, inv) \in Nat /\ SumHeld(i, hand) \in Nat /\ SumHeld(i, gone) \in Nat
  /\ Work(i, inv, place, j) \in Int

LEMMA NumbersType ==
  ASSUME NEW i \in Items, NEW inv \in Inventories(MainSlots), NEW hand \in [OwnSlots -> Held],
         NEW gone \in [OwnSlots -> Held], NEW place \in PCs, NEW j \in JobAt(place)
  PROVE  /\ Numbers(i, inv, hand, gone, place, j)
         /\ Holds(i, inv, hand, gone, place, j) \in Int
<1>1. Numbers(i, inv, hand, gone, place, j)
  BY WorkType, SumHeldType, InventorySum, InventoryAssumption DEF Numbers
<1> QED BY <1>1 DEF Numbers, Holds

LEMMA PlayerNumbers ==
  ASSUME NEW p \in Players, NEW i \in Items
  PROVE  /\ TypeOK => /\ Numbers(i, main[p], held[p], old[p], pc[p], job[p])
                      /\ Share(i, p) \in Int /\ InBlock(i, block) \in Nat
         /\ TypeOK' => /\ Numbers(i, main'[p], held'[p], old'[p], pc'[p], job'[p])
                       /\ Share(i, p)' \in Int /\ InBlock(i, block') \in Nat
<1>1. ASSUME TypeOK
      PROVE  /\ main[p] \in Inventories(MainSlots) /\ held[p] \in [OwnSlots -> Held]
             /\ old[p] \in [OwnSlots -> Held] /\ pc[p] \in PCs /\ job[p] \in JobAt(pc[p])
             /\ block.data \in Data
  BY <1>1 DEF TypeOK, PCs
<1>2. ASSUME TypeOK'
      PROVE  /\ main'[p] \in Inventories(MainSlots) /\ held'[p] \in [OwnSlots -> Held]
             /\ old'[p] \in [OwnSlots -> Held] /\ pc'[p] \in PCs /\ job'[p] \in JobAt(pc'[p])
             /\ block'.data \in Data
  BY <1>2 DEF TypeOK, PCs
<1> QED BY <1>1, <1>2, NumbersType, ShareHolds, BlockSum

\* A step of one player changes no other player's share.
OthersSame(p) ==
  \A q \in Players \ {p} : /\ main'[q] = main[q] /\ held'[q] = held[q] /\ old'[q] = old[q]
                           /\ pc'[q] = pc[q] /\ job'[q] = job[q]

\* The books: what changes in total is what changes in the block and in the one
\* player's inventory, hand and grid, ended session and request.
Before(i, p) == InBlock(i, block) + Holds(i, main[p], held[p], old[p], pc[p], job[p])
After(i, p) == InBlock(i, block') + Holds(i, main'[p], held'[p], old'[p], pc'[p], job'[p])

LEMMA TotalIs ==
  ASSUME NEW i
  PROVE  /\ Total(i) = InBlock(i, block) + Tally([q \in Players |-> Share(i, q)])
         /\ Total(i)' = InBlock(i, block') + Tally([q \in Players |-> Share(i, q)'])
BY DEF Total

LEMMA Books ==
  ASSUME TypeOK, TypeOK', NEW p \in Players, OthersSame(p), NEW i \in Items
  PROVE  /\ Total(i)' + Before(i, p) = Total(i) + After(i, p)
         /\ Total(i) \in Int /\ Total(i)' \in Int /\ Before(i, p) \in Int /\ After(i, p) \in Int
<1> DEFINE g == [q \in Players |-> Share(i, q)]
           h == [q \in Players |-> Share(i, q)']
<1>1. \A q \in Players : Share(i, q) \in Int /\ Share(i, q)' \in Int
  BY PlayerNumbers
<1>2. \A q \in Players \ {p} : Share(i, q) = Share(i, q)'
  BY ShareHolds DEF OthersSame
<1>3. g \in [Players -> Int] /\ h \in [Players -> Int]
  BY <1>1
<1>4. g[p] = Share(i, p) /\ h[p] = Share(i, p)' /\ \A q \in Players : q # p => g[q] = h[q]
  BY <1>2
<1>5. Total(i) = InBlock(i, block) + Tally(g) /\ Total(i)' = InBlock(i, block') + Tally(h)
  BY TotalIs
<1> HIDE DEF g, h
<1> IsFiniteSet(Players)
  BY InventoryAssumption
<1>6. Tally(h) + g[p] = Tally(g) + h[p]
  BY <1>3, <1>4, TallyExcept
<1>7. Tally(g) \in Int /\ Tally(h) \in Int
  BY <1>3, TallyType
<1>8. InBlock(i, block) \in Int /\ InBlock(i, block') \in Int
  BY PlayerNumbers
<1>9. Before(i, p) = InBlock(i, block) + g[p] /\ After(i, p) = InBlock(i, block') + h[p]
  BY <1>4, ShareHolds DEF Before, After
<1>10. g[p] \in Int /\ h[p] \in Int
  BY <1>1, <1>4
<1> QED BY <1>5, <1>6, <1>7, <1>8, <1>9, <1>10

-----------------------------------------------------------------------------
(* What taking, putting and returning do to an inventory or the block.     *)

\* The types of what is stored, of what the sessions have, and of the requests:
\* TypeOK in parts.
StoresOK ==
  /\ main \in [Players -> Inventories(MainSlots)]
  /\ block \in [type : {"air", ChestItem}, data : Data, dirty : BOOLEAN]
  /\ saved \in [type : {"air", ChestItem}, data : Data]
HandsOK ==
  /\ online \subseteq Players /\ open \subseteq Players
  /\ held \in [Players -> [OwnSlots -> Held]] /\ old \in [Players -> [OwnSlots -> Held]]
PlacesOK ==
  /\ pc \in [Players -> PCs]
  /\ job = [p \in Players |-> job[p]] /\ \A p \in Players : job[p] \in JobAt(pc[p])
  /\ holder \in Players \cup {NoPlayer}
  /\ \A p \in Players : holder = p <=> pc[p] = "write"

LEMMA TypeParts ==
  /\ TypeOK <=> StoresOK /\ HandsOK /\ PlacesOK /\ faults \in 0 .. MaxFaults
  /\ TypeOK' <=> StoresOK' /\ HandsOK' /\ PlacesOK' /\ faults' \in 0 .. MaxFaults
BY DEF TypeOK, StoresOK, HandsOK, PlacesOK, PCs

\* A slot of an inventory or of the chest holds a stack or nothing.
LEMMA AtType ==
  ASSUME TypeOK, NEW p \in Players, NEW v \in Views, NEW k \in SlotsOf(v)
  PROVE  At(p, v, k) \in Slot /\ (~HasSlots(v) => At(p, v, k) = Empty)
<1>1. CASE v = "main"
  <2>1. main[p] \in [1 .. MainSlots -> Slot] /\ k \in 1 .. MainSlots
    BY <1>1 DEF TypeOK, Inventories, SlotsOf
  <2> QED BY <1>1, <2>1 DEF At, HasSlots
<1>2. CASE v # "main" /\ block.data = NoData
  BY <1>2, SlotType DEF At
<1>3. CASE v # "main" /\ block.data # NoData
  <2>1. block.data \in [1 .. ChestSlots -> Slot] /\ k \in 1 .. ChestSlots
    BY <1>3 DEF TypeOK, Data, Inventories, SlotsOf
  <2> QED BY <1>3, <2>1 DEF At, HasSlots
<1> QED BY <1>1, <1>2, <1>3

\* One slot of an inventory changes.
LEMMA SlotChanges ==
  ASSUME NEW n \in Nat, NEW inv \in Inventories(n), NEW k \in 1 .. n, NEW s \in Slot
  PROVE  /\ [inv EXCEPT ![k] = s] \in Inventories(n)
         /\ \A i \in Items : Sum(i, [inv EXCEPT ![k] = s]) + Amount(i, inv[k])
                               = Sum(i, inv) + Amount(i, s)
<1>1. inv \in [1 .. n -> MaybeStack] /\ s \in MaybeStack
  BY SlotType DEF Inventories
<1>2. [inv EXCEPT ![k] = s] \in Inventories(n)
  BY DEF Inventories
<1> QED BY <1>1, <1>2, SumExcept

\* A chest's data are not NoData.
LEMMA DataIsNoNoData == NoData \notin Inventories(ChestSlots)
BY InventoryAssumption DEF NoData, Inventories

\* What a take or a put writes: the slot and nothing else, marked dirty in a chest.
LEMMA WriteStores ==
  ASSUME TypeOK, NEW p \in Players, NEW v \in Views, NEW k \in SlotsOf(v), NEW s \in Slot,
         Write(p, v, k, s)
  PROVE  /\ main' \in [Players -> Inventories(MainSlots)]
         /\ block' \in [type : {"air", ChestItem}, data : Data, dirty : BOOLEAN]
         /\ \A q \in Players \ {p} : main'[q] = main[q]
         /\ main' = main \/ InventoryFree
         /\ block' = block \/ block'.dirty
         /\ \A i \in Items :
              InBlock(i, block') + Sum(i, main'[p]) + Amount(i, At(p, v, k))
                = InBlock(i, block) + Sum(i, main[p])
                    + Amount(i, IF HasSlots(v) THEN s ELSE Empty)
<1>1. /\ main \in [Players -> Inventories(MainSlots)] /\ MainSlots \in Nat /\ ChestSlots \in Nat
      /\ block \in [type : {"air", ChestItem}, data : Data, dirty : BOOLEAN]
  BY InventoryAssumption DEF TypeOK
<1>2. \A i \in Items : InBlock(i, block) \in Nat /\ Sum(i, main[p]) \in Nat
                       /\ Amount(i, At(p, v, k)) \in Nat
  BY <1>1, InventorySum, BlockSum, AtType, AmountType, SlotType
<1>3. CASE v = "main"
  <2>1. main' = [main EXCEPT ![p][k] = s] /\ block' = block /\ InventoryFree
    BY <1>3 DEF Write
  <2>2. main[p] \in Inventories(MainSlots) /\ k \in 1 .. MainSlots
    BY <1>1, <1>3 DEF SlotsOf
  <2>3. PICK inv \in Inventories(MainSlots) :
          /\ inv = [main[p] EXCEPT ![k] = s]
          /\ \A i \in Items : Sum(i, inv) + Amount(i, main[p][k]) = Sum(i, main[p]) + Amount(i, s)
    BY <1>1, <2>2, SlotChanges
  <2>4. main' = [main EXCEPT ![p] = inv]
    BY <1>1, <2>1, <2>3
  <2>5. /\ main' \in [Players -> Inventories(MainSlots)] /\ main'[p] = inv
        /\ \A q \in Players \ {p} : main'[q] = main[q]
    BY <1>1, <2>4
  <2>6. At(p, v, k) = main[p][k] /\ HasSlots(v)
    BY <1>3 DEF At, HasSlots
  <2>7. \A i \in Items : Amount(i, s) \in Nat /\ Sum(i, inv) \in Nat
    BY <1>1, <2>3, InventorySum, AmountType, SlotType
  <2>8. ASSUME NEW i \in Items
        PROVE  InBlock(i, block') + Sum(i, main'[p]) + Amount(i, At(p, v, k))
                 = InBlock(i, block) + Sum(i, main[p])
                     + Amount(i, IF HasSlots(v) THEN s ELSE Empty)
    <3>1. Amount(i, IF HasSlots(v) THEN s ELSE Empty) = Amount(i, s)
      BY <2>6
    <3>2. InBlock(i, block') = InBlock(i, block) /\ Sum(i, main'[p]) = Sum(i, inv)
      BY <2>1, <2>5
    <3>3. Sum(i, inv) + Amount(i, At(p, v, k)) = Sum(i, main[p]) + Amount(i, s)
      BY <2>3, <2>6
    <3> QED BY <1>2, <2>7, <3>1, <3>2, <3>3
  <2> QED BY <1>1, <2>1, <2>5, <2>8
<1>4. CASE v = "chest"
  <2>1. /\ main' = main /\ block'.dirty /\ block'.type = block.type
        /\ block' = [type |-> block.type, dirty |-> TRUE,
                     data |-> IF block.data = NoData THEN NoData ELSE [block.data EXCEPT ![k] = s]]
    BY <1>1, <1>4 DEF Write
  <2>2. CASE block.data = NoData
    <3>1. block'.data = block.data
      BY <2>1, <2>2
    <3>2. \A i \in Items : InBlock(i, block') = InBlock(i, block)
      BY <2>1, <3>1 DEF InBlock
    <3>3. At(p, v, k) = Empty /\ ~HasSlots(v)
      BY <1>4, <2>2 DEF At, HasSlots
    <3>4. block' \in [type : {"air", ChestItem}, data : Data, dirty : BOOLEAN]
      BY <1>1, <2>1, <2>2 DEF Data
    <3> QED BY <1>1, <2>1, <3>2, <3>3, <3>4
  <2>3. CASE block.data # NoData
    <3>1. block.data \in Inventories(ChestSlots) /\ k \in 1 .. ChestSlots
      BY <1>1, <1>4, <2>3 DEF Data, SlotsOf
    <3>2. PICK inv \in Inventories(ChestSlots) :
            /\ inv = [block.data EXCEPT ![k] = s]
            /\ \A i \in Items : Sum(i, inv) + Amount(i, block.data[k]) = Sum(i, block.data) + Amount(i, s)
      BY <1>1, <3>1, SlotChanges
    <3>3. block'.data = inv
      BY <2>1, <2>3, <3>2
    <3>4. At(p, v, k) = block.data[k] /\ HasSlots(v)
      BY <1>4, <2>3 DEF At, HasSlots
    <3>5. block' \in [type : {"air", ChestItem}, data : Data, dirty : BOOLEAN]
      BY <1>1, <2>1, <2>3, <3>2 DEF Data
    <3>6. ASSUME NEW i \in Items
          PROVE  InBlock(i, block') + Amount(i, At(p, v, k)) = InBlock(i, block) + Amount(i, s)
      <4>1. /\ Sum(i, inv) \in Nat /\ Sum(i, block.data) \in Nat /\ Amount(i, s) \in Nat
            /\ Amount(i, block.data[k]) \in Nat
        BY <1>1, <1>2, <3>1, <3>2, <3>4, InventorySum, AmountType, SlotType
      <4>2. PICK b \in Nat : b = IF block.type = i THEN 1 ELSE 0
        OBVIOUS
      <4>3. InBlock(i, block) = Sum(i, block.data) + b /\ InBlock(i, block') = Sum(i, inv) + b
        BY <2>1, <3>3, <4>2 DEF InBlock
      <4> QED BY <3>2, <3>4, <4>1, <4>2, <4>3
    <3>7. \A i \in Items : InBlock(i, block') \in Nat /\ Amount(i, s) \in Nat
      BY <3>5, BlockSum, AmountType, SlotType
    <3>8. ASSUME NEW i \in Items
          PROVE  InBlock(i, block') + Sum(i, main'[p]) + Amount(i, At(p, v, k))
                   = InBlock(i, block) + Sum(i, main[p])
                       + Amount(i, IF HasSlots(v) THEN s ELSE Empty)
      <4>1. Amount(i, IF HasSlots(v) THEN s ELSE Empty) = Amount(i, s)
        BY <3>4
      <4>2. Sum(i, main'[p]) = Sum(i, main[p])
        BY <2>1
      <4> QED BY <1>2, <3>6, <3>7, <4>1, <4>2
    <3> QED BY <1>1, <2>1, <3>5, <3>8
  <2> QED BY <2>2, <2>3
<1> QED BY <1>3, <1>4 DEF Views

\* What a put leaves in the slot and leaves over.
LEMMA KeptType ==
  ASSUME TypeOK, NEW p \in Players, NEW v \in Views, NEW k \in SlotsOf(v), NEW s \in Slot
  PROVE  /\ Kept(p, v, k, s) \in Slot /\ Leftover(p, v, k, s) \in Slot
         /\ Leftover(p, v, k, s) # Empty =>
              /\ Leftover(p, v, k, s).item = s.item /\ Leftover(p, v, k, s).qty <= s.qty
         /\ \A i \in Items :
              Amount(i, IF HasSlots(v) THEN Kept(p, v, k, s) ELSE Empty)
                + Amount(i, Leftover(p, v, k, s)) = Amount(i, At(p, v, k)) + Amount(i, s)
<1> DEFINE m == Merge(At(p, v, k), s)
<1>1. At(p, v, k) \in Slot /\ (~HasSlots(v) => At(p, v, k) = Empty)
  BY AtType
<1>2. /\ m.kept \in Slot /\ m.left \in Slot
      /\ m.left # Empty => m.left.item = s.item /\ m.left.qty <= s.qty
  BY <1>1, MergeFits
<1>3. \A i \in Items : Amount(i, m.kept) + Amount(i, m.left) = Amount(i, At(p, v, k)) + Amount(i, s)
  BY <1>1, MergeConserves, SlotType
<1>4. Kept(p, v, k, s) = m.kept /\ Leftover(p, v, k, s) = IF HasSlots(v) THEN m.left ELSE s
  BY DEF Kept, Leftover
<1> HIDE DEF m
<1>5. CASE HasSlots(v)
  BY <1>2, <1>3, <1>4, <1>5
<1>6. CASE ~HasSlots(v)
  <2>1. s # Empty => s.qty \in Nat
    BY SlotType DEF Stack
  <2>2. \A i \in Items : Amount(i, Empty) + Amount(i, s) = Amount(i, At(p, v, k)) + Amount(i, s)
    BY <1>1, <1>6
  <2> QED BY <1>2, <1>4, <1>6, <2>1, <2>2
<1> QED BY <1>5, <1>6

\* What a put adds, with what it leaves over, is what was put.
LEMMA PutStores ==
  ASSUME TypeOK, NEW p \in Players, NEW v \in Views, NEW k \in SlotsOf(v), NEW s \in Slot,
         Write(p, v, k, Kept(p, v, k, s)), NEW i \in Items
  PROVE  InBlock(i, block') + Sum(i, main'[p]) + Amount(i, Leftover(p, v, k, s))
           = InBlock(i, block) + Sum(i, main[p]) + Amount(i, s)
<1>1. /\ Kept(p, v, k, s) \in Slot /\ Leftover(p, v, k, s) \in Slot
      /\ Amount(i, IF HasSlots(v) THEN Kept(p, v, k, s) ELSE Empty)
           + Amount(i, Leftover(p, v, k, s)) = Amount(i, At(p, v, k)) + Amount(i, s)
  BY KeptType
<1>2. /\ InBlock(i, block') + Sum(i, main'[p]) + Amount(i, At(p, v, k))
           = InBlock(i, block) + Sum(i, main[p])
               + Amount(i, IF HasSlots(v) THEN Kept(p, v, k, s) ELSE Empty)
      /\ main' \in [Players -> Inventories(MainSlots)]
      /\ block' \in [type : {"air", ChestItem}, data : Data, dirty : BOOLEAN]
  BY <1>1, WriteStores
<1>3. /\ InBlock(i, block') \in Nat /\ InBlock(i, block) \in Nat
      /\ Sum(i, main'[p]) \in Nat /\ Sum(i, main[p]) \in Nat
  BY <1>2, BlockSum, InventorySum, InventoryAssumption DEF TypeOK
<1>4. /\ Amount(i, At(p, v, k)) \in Nat /\ Amount(i, s) \in Nat
      /\ Amount(i, Leftover(p, v, k, s)) \in Nat
      /\ Amount(i, IF HasSlots(v) THEN Kept(p, v, k, s) ELSE Empty) \in Nat
  BY <1>1, AtType, AmountType, SlotType
<1> QED BY <1>1, <1>2, <1>3, <1>4

\* What a take or a swap takes away is what it gets.
LEMMA TakeStores ==
  ASSUME TypeOK, NEW p \in Players, NEW v \in Views, NEW k \in SlotsOf(v),
         NEW s \in Slot, NEW got \in Slot, Write(p, v, k, s), NEW i \in Items,
         Amount(i, s) + Amount(i, got) = Amount(i, At(p, v, k)),
         At(p, v, k) = Empty => s = Empty
  PROVE  InBlock(i, block') + Sum(i, main'[p]) + Amount(i, got)
           = InBlock(i, block) + Sum(i, main[p])
<1>1. /\ InBlock(i, block') + Sum(i, main'[p]) + Amount(i, At(p, v, k))
           = InBlock(i, block) + Sum(i, main[p]) + Amount(i, IF HasSlots(v) THEN s ELSE Empty)
      /\ main' \in [Players -> Inventories(MainSlots)]
      /\ block' \in [type : {"air", ChestItem}, data : Data, dirty : BOOLEAN]
  BY WriteStores
<1>2. /\ InBlock(i, block') \in Nat /\ InBlock(i, block) \in Nat
      /\ Sum(i, main'[p]) \in Nat /\ Sum(i, main[p]) \in Nat
  BY <1>1, BlockSum, InventorySum, InventoryAssumption DEF TypeOK
<1>3. (IF HasSlots(v) THEN s ELSE Empty) = s
  BY AtType
<1>4. Amount(i, At(p, v, k)) \in Nat /\ Amount(i, s) \in Nat /\ Amount(i, got) \in Nat
  BY AtType, AmountType, SlotType
<1> QED BY <1>1, <1>2, <1>3, <1>4

\* A stack that goes home: what its home has afterwards, and what found no room.
LEMMA HomeConserves ==
  ASSUME NEW n \in Nat, NEW inv \in Inventories(n), NEW k \in 1 .. n, NEW s \in Slot
  PROVE  /\ Home(inv, k, s).inv \in Inventories(n) /\ Home(inv, k, s).left \in Slot
         /\ \A i \in Items : Sum(i, Home(inv, k, s).inv) + Amount(i, Home(inv, k, s).left)
                               = Sum(i, inv) + Amount(i, s)
         /\ Home(inv, k, s).left # Empty =>
              /\ NoRoomAt(inv, s)
              /\ Home(inv, k, s).left.item = s.item /\ Home(inv, k, s).left.qty <= s.qty
<1> DEFINE m == Merge(inv[k], s)
           after == [inv EXCEPT ![k] = m.kept]
<1>1. inv \in [1 .. n -> Slot] /\ inv[k] \in Slot /\ inv[k] \in MaybeStack /\ s \in MaybeStack
  BY SlotType DEF Inventories
<1>2. /\ m.kept \in Slot /\ m.left \in Slot
      /\ m.left # Empty =>
           /\ s # Empty /\ inv[k] # Empty /\ (Mergeable(inv[k], s) => Room(inv[k]) < s.qty)
           /\ m.left.item = s.item /\ m.left.qty <= s.qty
  BY <1>1, MergeFits
<1>3. \A i \in Items : Amount(i, m.kept) + Amount(i, m.left) = Amount(i, inv[k]) + Amount(i, s)
  BY <1>1, MergeConserves
<1>4. /\ after \in Inventories(n) /\ after \in [1 .. n -> Slot]
      /\ \A j \in 1 .. n : j # k => after[j] = inv[j]
      /\ \A i \in Items : Sum(i, after) + Amount(i, inv[k]) = Sum(i, inv) + Amount(i, m.kept)
  <2>1. PICK kept \in Slot : kept = m.kept
    BY <1>2
  <2>2. /\ [inv EXCEPT ![k] = kept] \in Inventories(n)
        /\ \A i \in Items : Sum(i, [inv EXCEPT ![k] = kept]) + Amount(i, inv[k])
                              = Sum(i, inv) + Amount(i, kept)
    BY SlotChanges
  <2>3. after = [inv EXCEPT ![k] = kept]
    BY <2>1
  <2>4. \A j \in 1 .. n : j # k => after[j] = inv[j]
    BY <1>1, <2>3
  <2> HIDE DEF after
  <2> QED BY <2>1, <2>2, <2>3, <2>4 DEF Inventories
<1>5. /\ m.left = Empty => Home(inv, k, s) = [inv |-> after, left |-> Empty]
      /\ m.left # Empty => Home(inv, k, s) = TryInsert(after, m.left)
  BY DEF Home
<1> HIDE DEF m, after
<1>6. \A i \in Items : /\ Sum(i, after) \in Nat /\ Sum(i, inv) \in Nat /\ Amount(i, s) \in Nat
                       /\ Amount(i, m.kept) \in Nat /\ Amount(i, m.left) \in Nat
                       /\ Amount(i, inv[k]) \in Nat
  BY <1>1, <1>2, <1>4, InventorySum, AmountType, SlotType
<1>7. \A i \in Items : Sum(i, after) + Amount(i, m.left) = Sum(i, inv) + Amount(i, s)
  <2> SUFFICES ASSUME NEW i \in Items
               PROVE  Sum(i, after) + Amount(i, m.left) = Sum(i, inv) + Amount(i, s)
    OBVIOUS
  <2>1. Amount(i, m.kept) + Amount(i, m.left) = Amount(i, inv[k]) + Amount(i, s)
    BY <1>3
  <2>2. Sum(i, after) + Amount(i, inv[k]) = Sum(i, inv) + Amount(i, m.kept)
    BY <1>4
  <2>3. /\ Sum(i, after) \in Nat /\ Sum(i, inv) \in Nat /\ Amount(i, s) \in Nat
        /\ Amount(i, m.kept) \in Nat /\ Amount(i, m.left) \in Nat
        /\ Amount(i, inv[k]) \in Nat
    BY <1>6
  <2> QED BY <2>1, <2>2, <2>3
<1>8. CASE m.left = Empty
  <2>1. Home(inv, k, s).inv = after /\ Home(inv, k, s).left = Empty
    BY <1>5, <1>8
  <2> QED BY <1>4, <1>7, <1>8, <2>1, SlotType
<1>9. CASE m.left # Empty
  <2> DEFINE t == TryInsert(after, m.left)
  <2>1. /\ t.inv \in [1 .. n -> Slot] /\ t.left \in Slot
        /\ \A i \in Items : Sum(i, t.inv) + Amount(i, t.left) = Sum(i, after) + Amount(i, m.left)
        /\ t.left # Empty =>
             /\ NoRoomAt(after, m.left)
             /\ t.left.item = m.left.item /\ t.left.qty <= m.left.qty
    BY <1>2, <1>4, InsertConserves
  <2>2. Home(inv, k, s).inv = t.inv /\ Home(inv, k, s).left = t.left
    BY <1>5, <1>9
  <2> HIDE DEF t
  <2>3. NoRoomAt(after, m.left) => NoRoomAt(inv, s)
    <3> SUFFICES ASSUME NoRoomAt(after, m.left), NEW j \in 1 .. n
                 PROVE  inv[j] # Empty /\ (Mergeable(inv[j], s) => Room(inv[j]) < s.qty)
      BY <1>1 DEF NoRoomAt
    <3>1. CASE j = k
      BY <1>2, <1>9, <3>1
    <3>2. CASE j # k
      <4>1. after[j] = inv[j] /\ j \in DOMAIN after
        BY <1>4, <3>2
      <4>2. inv[j] # Empty /\ (Mergeable(inv[j], m.left) => Room(inv[j]) < m.left.qty)
        BY <4>1 DEF NoRoomAt
      <4>3. Mergeable(inv[j], s) => Mergeable(inv[j], m.left)
        BY <1>2, <1>9 DEF Mergeable
      <4>4. inv[j] \in Stack /\ m.left \in Stack /\ s \in Stack
        BY <1>1, <1>2, <1>9, <4>2, SlotType
      <4>5. Room(inv[j]) \in Nat /\ m.left.qty \in Nat /\ s.qty \in Nat
        BY <4>4, RoomType DEF Stack
      <4> QED BY <1>2, <1>9, <4>2, <4>3, <4>5
    <3> QED BY <3>1, <3>2
  <2>4. t.left # Empty => t.left.item = s.item /\ t.left.qty <= s.qty
    <3>1. t.left # Empty => t.left.qty \in Nat /\ m.left.qty \in Nat /\ s.qty \in Nat
      BY <1>2, <1>9, <2>1, SlotType DEF Stack
    <3> QED BY <1>2, <1>9, <2>1, <3>1
  <2> QED BY <1>7, <2>1, <2>2, <2>3, <2>4 DEF Inventories
<1> QED BY <1>8, <1>9

\* A borrowed stack returns, or finds no place at home.
LEMMA SettledConserves ==
  ASSUME TypeOK, NEW p \in Players, NEW h \in Held, h # NothingHeld
  PROVE  /\ Settled(p, h).inv \in Inventories(MainSlots)
         /\ Settled(p, h).data \in Data
         /\ Settled(p, h).left \in Slot
         /\ \A i \in Items :
              Sum(i, Settled(p, h).inv) + Sum(i, Settled(p, h).data) + Amount(i, Settled(p, h).left)
                = Sum(i, main[p]) + Sum(i, block.data) + Amount(i, h.stack)
         /\ \A i \in Items : Sum(i, block.data) <= Sum(i, Settled(p, h).data)
         /\ Settled(p, h).left # Empty => NoRoomAtHome(p, h)
         /\ h.from.where # "main" => Settled(p, h).inv = main[p]
<1>1. /\ main[p] \in Inventories(MainSlots) /\ block.data \in Data
      /\ MainSlots \in Nat /\ ChestSlots \in Nat /\ h.stack \in Slot /\ h.from \in Origins
  BY HeldType, InventoryAssumption DEF TypeOK
<1>2. \A i \in Items : /\ Sum(i, main[p]) \in Nat /\ Sum(i, block.data) \in Nat
                       /\ Amount(i, h.stack) \in Nat
  BY <1>1, InventorySum, AmountType, SlotType
<1>3. CASE h.from.where = "none" \/ (h.from.where = "chest" /\ block.data = NoData)
  <2>1. Settled(p, h) = [inv |-> main[p], data |-> block.data, left |-> h.stack]
    BY <1>3 DEF Settled
  <2>2. NoRoomAtHome(p, h)
    BY <1>3 DEF NoRoomAtHome, NoRoomAt, NoData
  <2> QED BY <1>1, <1>2, <2>1, <2>2
<1>4. CASE h.from.where = "main"
  <2>1. h.from.slot \in 1 .. MainSlots
    BY <1>1, <1>4 DEF Origins, Places, Nowhere
  <2>2. main[p] # NoData
    BY <1>1, <2>1 DEF Inventories, NoData
  <2> DEFINE r == Home(main[p], h.from.slot, h.stack)
  <2>3. Settled(p, h) = [inv |-> r.inv, data |-> block.data, left |-> r.left]
    BY <1>4, <2>2 DEF Settled
  <2>4. /\ r.inv \in Inventories(MainSlots) /\ r.left \in Slot
        /\ \A i \in Items : Sum(i, r.inv) + Amount(i, r.left) = Sum(i, main[p]) + Amount(i, h.stack)
        /\ r.left # Empty => NoRoomAt(main[p], h.stack)
    <3>1. PICK k \in 1 .. MainSlots, s \in Slot : k = h.from.slot /\ s = h.stack
      BY <1>1, <2>1
    <3> QED BY <1>1, <3>1, HomeConserves
  <2> HIDE DEF r
  <2>5. ASSUME NEW i \in Items
        PROVE  Sum(i, r.inv) + Sum(i, block.data) + Amount(i, r.left)
                 = Sum(i, main[p]) + Sum(i, block.data) + Amount(i, h.stack)
    <3>1. Sum(i, r.inv) \in Nat /\ Amount(i, r.left) \in Nat
      BY <1>1, <2>4, InventorySum, AmountType, SlotType
    <3> QED BY <1>2, <2>4, <3>1
  <2>6. ASSUME NEW i \in Items PROVE Sum(i, block.data) <= Sum(i, block.data)
    <3>1. Sum(i, block.data) \in Nat
      BY <1>2
    <3> QED BY <3>1
  <2> QED BY <1>1, <1>4, <2>3, <2>4, <2>5, <2>6 DEF NoRoomAtHome
<1>5. CASE h.from.where = "chest" /\ block.data # NoData
  <2>1. h.from.slot \in 1 .. ChestSlots /\ block.data \in Inventories(ChestSlots)
    BY <1>1, <1>5 DEF Origins, Places, Nowhere, Data
  <2> DEFINE r == Home(block.data, h.from.slot, h.stack)
  <2>3. Settled(p, h) = [inv |-> main[p], data |-> r.inv, left |-> r.left]
    BY <1>5 DEF Settled
  <2>4. /\ r.inv \in Inventories(ChestSlots) /\ r.left \in Slot
        /\ \A i \in Items : Sum(i, r.inv) + Amount(i, r.left) = Sum(i, block.data) + Amount(i, h.stack)
        /\ r.left # Empty => NoRoomAt(block.data, h.stack)
        /\ \A i \in Items : Amount(i, r.left) <= Amount(i, h.stack)
    <3>1. PICK k \in 1 .. ChestSlots, s \in Slot : k = h.from.slot /\ s = h.stack
      BY <1>1, <2>1
    <3>2. /\ r.inv \in Inventories(ChestSlots) /\ r.left \in Slot
          /\ \A i \in Items : Sum(i, r.inv) + Amount(i, r.left) = Sum(i, block.data) + Amount(i, s)
          /\ r.left # Empty => /\ NoRoomAt(block.data, s)
                               /\ r.left.item = s.item /\ r.left.qty <= s.qty
      BY <1>1, <2>1, <3>1, HomeConserves
    <3> HIDE DEF r
    <3>3. \A i \in Items : Amount(i, r.left) <= Amount(i, s)
      BY <3>2, PartAtMost
    <3> QED BY <3>1, <3>2, <3>3
  <2> HIDE DEF r
  <2>5. ASSUME NEW i \in Items
        PROVE  /\ Sum(i, main[p]) + Sum(i, r.inv) + Amount(i, r.left)
                    = Sum(i, main[p]) + Sum(i, block.data) + Amount(i, h.stack)
               /\ Sum(i, block.data) <= Sum(i, r.inv)
    <3>1. Sum(i, r.inv) \in Nat /\ Amount(i, r.left) \in Nat
      BY <1>1, <2>4, InventorySum, AmountType, SlotType
    <3> QED BY <1>2, <2>4, <3>1
  <2> QED BY <1>1, <1>5, <2>3, <2>4, <2>5 DEF NoRoomAtHome, Data
<1> QED BY <1>1, <1>3, <1>4, <1>5 DEF Origins, Places, Nowhere

\* What is stored after a stack has returned.
LEMMA SettleStores ==
  ASSUME TypeOK, NEW p \in Players, NEW h \in Held, h # NothingHeld, Settle(p, h)
  PROVE  /\ main' \in [Players -> Inventories(MainSlots)]
         /\ block' \in [type : {"air", ChestItem}, data : Data, dirty : BOOLEAN]
         /\ \A q \in Players \ {p} : main'[q] = main[q]
         /\ main' = main \/ InventoryFree
         /\ block'.dirty = block.dirty
         /\ \A i \in Items :
              /\ InBlock(i, block) <= InBlock(i, block')
              /\ InBlock(i, block') + Sum(i, main'[p]) + Amount(i, Settled(p, h).left)
                   = InBlock(i, block) + Sum(i, main[p]) + Amount(i, h.stack)
         /\ Settled(p, h).left \in Slot
         /\ Settled(p, h).left # Empty => NoRoomAtHome(p, h)
<1> DEFINE r == Settled(p, h)
<1>1. /\ r.inv \in Inventories(MainSlots) /\ r.data \in Data /\ r.left \in Slot
      /\ \A i \in Items : Sum(i, r.inv) + Sum(i, r.data) + Amount(i, r.left)
                            = Sum(i, main[p]) + Sum(i, block.data) + Amount(i, h.stack)
      /\ \A i \in Items : Sum(i, block.data) <= Sum(i, r.data)
      /\ r.left # Empty => NoRoomAtHome(p, h)
      /\ h.from.where # "main" => r.inv = main[p]
  BY SettledConserves
<1>2. /\ main \in [Players -> Inventories(MainSlots)] /\ block.data \in Data
      /\ block \in [type : {"air", ChestItem}, data : Data, dirty : BOOLEAN]
      /\ MainSlots \in Nat /\ h.stack \in MaybeStack
  BY HeldType, InventoryAssumption DEF TypeOK
<1>3. /\ main' = [main EXCEPT ![p] = r.inv] /\ block' = [block EXCEPT !.data = r.data]
      /\ h.from.where = "main" => InventoryFree
  BY DEF Settle
<1> HIDE DEF r
<1>4. /\ main' \in [Players -> Inventories(MainSlots)] /\ main'[p] = r.inv
      /\ \A q \in Players \ {p} : main'[q] = main[q]
      /\ r.inv = main[p] => main' = main
  BY <1>1, <1>2, <1>3
<1>5. /\ block' \in [type : {"air", ChestItem}, data : Data, dirty : BOOLEAN]
      /\ block'.dirty = block.dirty /\ block'.data = r.data /\ block'.type = block.type
  BY <1>1, <1>2, <1>3
<1>6. ASSUME NEW i \in Items
      PROVE  /\ InBlock(i, block) <= InBlock(i, block')
             /\ InBlock(i, block') + Sum(i, main'[p]) + Amount(i, r.left)
                  = InBlock(i, block) + Sum(i, main[p]) + Amount(i, h.stack)
  <2>1. /\ Sum(i, r.inv) \in Nat /\ Sum(i, r.data) \in Nat /\ Amount(i, r.left) \in Nat
        /\ Sum(i, main[p]) \in Nat /\ Sum(i, block.data) \in Nat /\ Amount(i, h.stack) \in Nat
    BY <1>1, <1>2, InventorySum, AmountType, SlotType
  <2>2. PICK b \in Nat : b = IF block.type = i THEN 1 ELSE 0
    OBVIOUS
  <2>3. InBlock(i, block) = Sum(i, block.data) + b /\ InBlock(i, block') = Sum(i, r.data) + b
    BY <1>5, <2>2 DEF InBlock
  <2>4. /\ Sum(i, r.inv) + Sum(i, r.data) + Amount(i, r.left)
             = Sum(i, main[p]) + Sum(i, block.data) + Amount(i, h.stack)
        /\ Sum(i, block.data) <= Sum(i, r.data)
    BY <1>1
  <2>5. Sum(i, main'[p]) = Sum(i, r.inv)
    BY <1>4
  <2> QED BY <2>1, <2>2, <2>3, <2>4, <2>5
<1> QED BY <1>1, <1>3, <1>4, <1>5, <1>6 DEF r

-----------------------------------------------------------------------------
(***************************************************************************)
(* ItemsInv is inductive.  A player's step changes what is stored, what    *)
(* the player's sessions have, and the place of the player's request;      *)
(* each part is shown once for every way in which a step may change it.    *)
(***************************************************************************)

\* What is stored stays typed, and a chest that is not marked dirty loses nothing.
StockMoves(p) ==
  /\ main' \in [Players -> Inventories(MainSlots)]
  /\ block' \in [type : {"air", ChestItem}, data : Data, dirty : BOOLEAN]
  /\ saved' = saved
  /\ \A q \in Players \ {p} : main'[q] = main[q]
  /\ \/ block'.dirty
     \/ block'.dirty = block.dirty /\ \A i \in Items : InBlock(i, block) <= InBlock(i, block')

HandMoves(p) ==
  /\ HandsOK'
  /\ \A q \in Players \ {p} : held'[q] = held[q] /\ old'[q] = old[q]

PlaceMoves(p) ==
  /\ PlacesOK'
  /\ \A q \in Players \ {p} : pc'[q] = pc[q] /\ job'[q] = job[q]
  /\ pc'[p] = "swapPut" => held'[p][Hand] = NothingHeld
  /\ pc'[p] = "putBack" /\ LimitsKept => Merge(job'[p].seen, job'[p].stack).left = Empty

\* What is shown of a player's step.
PlayerKeeps(p) == StoresOK' /\ HandsOK' /\ PlacesOK' /\ RequestsOK' /\ CleanHoldsSaved' /\ OthersSame(p)

LEMMA PlayerStep ==
  ASSUME ItemsInv, NEW p \in Players, StockMoves(p), HandMoves(p), PlaceMoves(p)
  PROVE  PlayerKeeps(p)
<1>1. StoresOK' /\ HandsOK' /\ PlacesOK' /\ OthersSame(p)
  BY DEF ItemsInv, TypeOK, StoresOK, StockMoves, HandMoves, PlaceMoves, OthersSame
<1>2. RequestsOK'
  <2> SUFFICES ASSUME NEW q \in Players
               PROVE  /\ pc'[q] = "swapPut" => held'[q][Hand] = NothingHeld
                      /\ pc'[q] = "putBack" /\ LimitsKept
                           => Merge(job'[q].seen, job'[q].stack).left = Empty
    BY DEF RequestsOK
  <2>1. CASE q = p
    BY <2>1 DEF PlaceMoves
  <2>2. CASE q # p
    <3>1. pc'[q] = pc[q] /\ job'[q] = job[q] /\ held'[q] = held[q]
      BY <2>2 DEF PlaceMoves, HandMoves
    <3>2. /\ pc[q] = "swapPut" => held[q][Hand] = NothingHeld
          /\ pc[q] = "putBack" /\ LimitsKept => Merge(job[q].seen, job[q].stack).left = Empty
      BY DEF ItemsInv, RequestsOK
    <3> QED BY <3>1, <3>2
  <2> QED BY <2>1, <2>2
<1>3. CleanHoldsSaved'
  <2>1. CASE block'.dirty
    BY <2>1 DEF CleanHoldsSaved
  <2>2. CASE ~block'.dirty
    <3>1. ~block.dirty /\ saved' = saved /\ \A i \in Items : InBlock(i, block) <= InBlock(i, block')
      BY <2>2 DEF StockMoves
    <3>2. \A i \in Items : InBlock(i, Loaded(saved)) <= InBlock(i, block)
      BY <3>1 DEF ItemsInv, CleanHoldsSaved
    <3>3. Loaded(saved).data \in Data /\ block.data \in Data /\ block'.data \in Data
      BY DEF ItemsInv, TypeOK, Loaded, Data, StockMoves
    <3>4. ASSUME NEW i \in Items PROVE InBlock(i, Loaded(saved)) <= InBlock(i, block')
      <4>1. InBlock(i, Loaded(saved)) \in Nat /\ InBlock(i, block) \in Nat /\ InBlock(i, block') \in Nat
        BY <3>3, BlockSum
      <4>2. InBlock(i, Loaded(saved)) <= InBlock(i, block) /\ InBlock(i, block) <= InBlock(i, block')
        BY <3>1, <3>2
      <4> QED BY <4>1, <4>2
    <3>5. \A i \in Items : InBlock(i, Loaded(saved')) <= InBlock(i, block')
      BY <3>1, <3>4
    <3> QED BY <3>5 DEF CleanHoldsSaved
  <2> QED BY <2>1, <2>2
<1> QED BY <1>1, <1>2, <1>3 DEF PlayerKeeps

\* The ways in which what is stored changes.
LEMMA StockStays ==
  ASSUME ItemsInv, NEW p \in Players, UNCHANGED <<main, block, saved>>
  PROVE  StockMoves(p)
<1>1. ASSUME NEW i \in Items PROVE InBlock(i, block) <= InBlock(i, block')
  <2>1. InBlock(i, block) \in Nat /\ block' = block
    BY BlockSum DEF ItemsInv, TypeOK
  <2> QED BY <2>1
<1> QED BY <1>1 DEF StockMoves, ItemsInv, TypeOK

LEMMA StockWrite ==
  ASSUME ItemsInv, NEW p \in Players, NEW v \in Views, NEW k \in SlotsOf(v), NEW s \in Slot,
         Write(p, v, k, s), saved' = saved
  PROVE  StockMoves(p)
<1>1. TypeOK
  BY DEF ItemsInv
<1>2. CASE block' = block
  <2>1. ASSUME NEW i \in Items PROVE InBlock(i, block) <= InBlock(i, block')
    <3>1. InBlock(i, block) \in Nat
      BY <1>1, BlockSum DEF TypeOK
    <3> QED BY <1>2, <3>1
  <2> QED BY <1>1, <1>2, <2>1, WriteStores DEF StockMoves
<1>3. CASE block'.dirty
  BY <1>1, <1>3, WriteStores DEF StockMoves
<1> QED BY <1>1, <1>2, <1>3, WriteStores

LEMMA StockSettle ==
  ASSUME ItemsInv, NEW p \in Players, NEW h \in Held, h # NothingHeld, Settle(p, h),
         saved' = saved
  PROVE  StockMoves(p)
<1>1. TypeOK
  BY DEF ItemsInv
<1> QED BY <1>1, SettleStores DEF StockMoves

\* The ways in which what the sessions have changes.
LEMMA HandsStay ==
  ASSUME ItemsInv, NEW p \in Players, UNCHANGED <<held, old>>,
         online' \subseteq Players, open' \subseteq Players
  PROVE  HandMoves(p)
BY DEF ItemsInv, TypeOK, HandMoves, HandsOK

LEMMA HandSet ==
  ASSUME ItemsInv, NEW p \in Players, NEW c \in OwnSlots, NEW h \in Held,
         held' = [held EXCEPT ![p][c] = h], old' = old,
         online' \subseteq Players, open' \subseteq Players
  PROVE  /\ HandMoves(p) /\ held'[p] = [held[p] EXCEPT ![c] = h]
         /\ held'[p][c] = h
<1>1. held \in [Players -> [OwnSlots -> Held]] /\ old \in [Players -> [OwnSlots -> Held]]
  BY DEF ItemsInv, TypeOK
<1>2. held[p] \in [OwnSlots -> Held]
  BY <1>1
<1>3. held' = [held EXCEPT ![p] = [held[p] EXCEPT ![c] = h]]
  BY <1>1
<1>4. held'[p] = [held[p] EXCEPT ![c] = h] /\ held' \in [Players -> [OwnSlots -> Held]]
      /\ \A q \in Players \ {p} : held'[q] = held[q]
  BY <1>1, <1>2, <1>3
<1>5. held'[p][c] = h
  BY <1>2, <1>4
<1> QED BY <1>1, <1>4, <1>5 DEF HandMoves, HandsOK

\* The ways in which a request goes on.
LEMMA PlaceStays ==
  ASSUME ItemsInv, NEW p \in Players, UNCHANGED <<pc, job, holder>>,
         held'[p][Hand] = held[p][Hand] \/ pc[p] # "swapPut"
  PROVE  PlaceMoves(p)
<1>1. PlacesOK'
  BY DEF ItemsInv, TypeOK, PlacesOK, PCs
<1>2. /\ pc'[p] = "swapPut" => held'[p][Hand] = NothingHeld
      /\ pc'[p] = "putBack" /\ LimitsKept => Merge(job'[p].seen, job'[p].stack).left = Empty
  BY DEF ItemsInv, RequestsOK
<1> QED BY <1>1, <1>2 DEF PlaceMoves

LEMMA PlaceBecomes ==
  ASSUME ItemsInv, NEW p \in Players, NEW w \in PCs \ {"write"}, NEW j \in JobAt(w),
         pc[p] # "write", Become(p, w, j), holder' = holder,
         w = "swapPut" => held'[p][Hand] = NothingHeld,
         w = "putBack" /\ LimitsKept => Merge(j.seen, j.stack).left = Empty
  PROVE  PlaceMoves(p) /\ pc'[p] = w /\ job'[p] = j
<1>1. /\ pc \in [Players -> PCs] /\ job = [q \in Players |-> job[q]]
      /\ \A q \in Players : job[q] \in JobAt(pc[q])
      /\ holder \in Players \cup {NoPlayer} /\ \A q \in Players : holder = q <=> pc[q] = "write"
  BY DEF ItemsInv, TypeOK, PCs
<1>2. pc' = [pc EXCEPT ![p] = w] /\ job' = [job EXCEPT ![p] = j]
  BY DEF Become
<1>3. DOMAIN job = Players
  BY <1>1
<1>4. /\ pc' \in [Players -> PCs] /\ pc'[p] = w /\ job'[p] = j
      /\ \A q \in Players \ {p} : pc'[q] = pc[q] /\ job'[q] = job[q]
  BY <1>1, <1>2, <1>3
<1>5. job' = [q \in Players |-> job'[q]]
  BY <1>2, <1>3
<1>6. \A q \in Players : job'[q] \in JobAt(pc'[q])
  BY <1>1, <1>4
<1>7. \A q \in Players : holder' = q <=> pc'[q] = "write"
  BY <1>1, <1>4
<1>8. PlacesOK'
  BY <1>1, <1>4, <1>5, <1>6, <1>7 DEF PlacesOK
<1> QED BY <1>4, <1>8 DEF PlaceMoves

LEMMA PlaceDone ==
  ASSUME ItemsInv, NEW p \in Players, pc[p] # "write", Done(p), holder' = holder
  PROVE  PlaceMoves(p) /\ pc'[p] = "idle" /\ job'[p] = NoJob
<1>1. NoJob \in JobAt("idle") /\ "idle" \in PCs \ {"write"}
  BY DEF JobAt, PCs
<1>2. Become(p, "idle", NoJob)
  BY DEF Done
<1> QED BY <1>1, <1>2, PlaceBecomes
\* What a request works with.
LEMMA ViewSlots ==
  ASSUME NEW p \in Players, NEW v \in Shared(p), NEW k \in SlotsOf(v)
  PROVE  v \in Views /\ k \in Nat /\ [where |-> v, slot |-> k] \in Origins
BY InventoryAssumption DEF Shared, Views, SlotsOf, Origins, Places

LEMMA Typed ==
  ASSUME ItemsInv
  PROVE  /\ TypeOK /\ online \subseteq Players /\ open \subseteq Players
         /\ held \in [Players -> [OwnSlots -> Held]] /\ old \in [Players -> [OwnSlots -> Held]]
         /\ Hand \in OwnSlots /\ \A k \in Grid : k \in OwnSlots /\ k # Hand
         /\ \A n \in Counts : n \in Nat \ {0}
BY HandsAreSlots, InventoryAssumption DEF ItemsInv, TypeOK

\* The steps of moves and swaps with an inventory.
PickedUp(p, v, k, n, got, m) ==
  /\ m = MergeHeld(held[p][Hand], Wrap(got, [where |-> v, slot |-> k]))
  /\ got \in Slot /\ got = TakeItems(At(p, v, k), n).got
  /\ m.kept \in Held /\ m.left \in Held
  /\ \A i \in Items : Amount(i, m.kept.stack) + Amount(i, m.left.stack)
                        = Amount(i, held[p][Hand].stack) + Amount(i, got)
  /\ held' = [held EXCEPT ![p][Hand] = m.kept]
  /\ TakeItems(At(p, v, k), n).left \in Slot
  /\ At(p, v, k) = Empty => TakeItems(At(p, v, k), n).left = Empty
  /\ Write(p, v, k, TakeItems(At(p, v, k), n).left)
  /\ IF m.left = NothingHeld THEN pc' = pc /\ job' = job
     ELSE Become(p, "putBack", [view |-> v, slot |-> k, stack |-> m.left.stack,
                                seen |-> TakeItems(At(p, v, k), n).left])
  /\ LimitsKept /\ m.left # NothingHeld
       => Merge(TakeItems(At(p, v, k), n).left, m.left.stack).left = Empty

LEMMA PickUpFits ==
  ASSUME ItemsInv, NEW p \in Players, NEW v \in Shared(p), NEW k \in SlotsOf(v),
         NEW n \in Counts, PickUp(p, v, k, n)
  PROVE  \E got, m : PickedUp(p, v, k, n, got, m)
<1> DEFINE t == TakeItems(At(p, v, k), n)
           b == Wrap(t.got, [where |-> v, slot |-> k])
           m == MergeHeld(held[p][Hand], b)
<1>1. At(p, v, k) \in Slot
  BY ViewSlots, Typed, AtType
<1>2. /\ t.left \in Slot /\ t.got \in Slot /\ (At(p, v, k) = Empty => t.left = Empty)
      /\ \A o \in Slot : LimitsKept /\ o.item = t.got.item /\ o.qty <= t.got.qty
                           => Merge(t.left, o).left = Empty
  BY <1>1, Typed, TakeFits
<1>3. /\ Write(p, v, k, t.left) /\ held' = [held EXCEPT ![p][Hand] = m.kept]
      /\ IF m.left = NothingHeld THEN pc' = pc /\ job' = job
         ELSE Become(p, "putBack", [view |-> v, slot |-> k, stack |-> m.left.stack,
                                    seen |-> t.left])
  BY DEF PickUp
<1> HIDE DEF t
<1>4. b \in Held /\ b.stack = t.got
  BY <1>2, ViewSlots, HeldType
<1>5. held[p][Hand] \in Held
  BY Typed
<1> HIDE DEF b
<1>6. /\ m.kept \in Held /\ m.left \in Held
      /\ \A i \in Items : Amount(i, m.kept.stack) + Amount(i, m.left.stack)
                            = Amount(i, held[p][Hand].stack) + Amount(i, b.stack)
      /\ m.left # NothingHeld => m.left.stack.item = b.stack.item /\ m.left.stack.qty <= b.stack.qty
  BY <1>4, <1>5, MergeHeldConserves
<1> HIDE DEF m
<1>7. LimitsKept /\ m.left # NothingHeld => Merge(t.left, m.left.stack).left = Empty
  BY <1>2, <1>4, <1>6, HeldType
<1>8. PickedUp(p, v, k, n, t.got, m)
  BY <1>2, <1>3, <1>4, <1>6, <1>7 DEF t, b, m, PickedUp
<1> QED BY <1>8

LEMMA PickUpKeeps ==
  ASSUME ItemsInv, NEW p \in Players, NEW v \in Shared(p), NEW k \in SlotsOf(v),
         NEW n \in Counts, PickUp(p, v, k, n)
  PROVE  PlayerKeeps(p)
<1>1. PICK left \in Slot, kept \in Held, over \in Held :
        /\ Write(p, v, k, left) /\ held' = [held EXCEPT ![p][Hand] = kept]
        /\ IF over = NothingHeld THEN pc' = pc /\ job' = job
           ELSE Become(p, "putBack", [view |-> v, slot |-> k, stack |-> over.stack, seen |-> left])
        /\ LimitsKept /\ over # NothingHeld => Merge(left, over.stack).left = Empty
  <2>1. PICK got, m : PickedUp(p, v, k, n, got, m)
    BY PickUpFits
  <2> QED BY <2>1 DEF PickedUp
<1>2. Ready(p) /\ UNCHANGED <<saved, online, old, open, holder>>
  BY DEF PickUp
<1>3. StockMoves(p)
  BY <1>1, <1>2, ViewSlots, StockWrite
<1>4. HandMoves(p)
  BY <1>1, <1>2, Typed, HandSet
<1>5. PlaceMoves(p)
  <2>1. CASE over = NothingHeld
    BY <1>1, <1>2, <2>1, PlaceStays DEF Ready
  <2>2. CASE over # NothingHeld
    <3> DEFINE j == [view |-> v, slot |-> k, stack |-> over.stack, seen |-> left]
    <3>1. over.stack \in FitStack
      BY <2>2, HeldType, SlotType
    <3>2. j \in JobAt("putBack") /\ j.seen = left /\ j.stack = over.stack
      BY <3>1, ViewSlots DEF JobAt
    <3>3. Become(p, "putBack", j)
      BY <1>1, <2>2
    <3> HIDE DEF j
    <3> QED BY <1>1, <1>2, <2>2, <3>2, <3>3, PlaceBecomes DEF Ready, PCs
  <2> QED BY <2>1, <2>2
<1> QED BY <1>3, <1>4, <1>5, PlayerStep

LEMMA PutBackKeeps ==
  ASSUME ItemsInv, NEW p \in Players, PutBack(p)
  PROVE  PlayerKeeps(p)
<1>1. /\ pc[p] = "putBack" /\ Done(p) /\ UNCHANGED <<saved, online, held, old, open, holder>>
      /\ \/ Write(p, job[p].view, job[p].slot,
                  Kept(p, job[p].view, job[p].slot, job[p].stack))
         \/ UNCHANGED <<main, block>>
  BY DEF PutBack
<1>2. /\ job[p].view \in Views /\ job[p].slot \in SlotsOf(job[p].view) /\ job[p].stack \in Slot
  <2>1. job[p] \in JobAt("putBack")
    BY <1>1 DEF ItemsInv, TypeOK
  <2> QED BY <2>1, SlotType DEF JobAt
<1>3. StockMoves(p)
  BY <1>1, <1>2, Typed, KeptType, StockWrite, StockStays
<1>4. HandMoves(p)
  BY <1>1, Typed, HandsStay
<1>5. PlaceMoves(p)
  BY <1>1, PlaceDone
<1> QED BY <1>3, <1>4, <1>5, PlayerStep

LEMMA PutDownKeeps ==
  ASSUME ItemsInv, NEW p \in Players, NEW v \in Shared(p), NEW k \in SlotsOf(v),
         NEW n \in Counts, PutDown(p, v, k, n)
  PROVE  PlayerKeeps(p)
<1> DEFINE t == TakeHeld(held[p][Hand], n)
           rest == Wrap(Leftover(p, v, k, t.got.stack), t.got.from)
<1>1. /\ Ready(p) /\ UNCHANGED <<saved, online, old, open, pc, job, holder>>
      /\ \/ /\ Write(p, v, k, Kept(p, v, k, t.got.stack))
            /\ held' = [held EXCEPT ![p][Hand] = MergeHeld(t.left, rest).kept]
         \/ /\ held' = [held EXCEPT ![p][Hand] = t.left]
            /\ UNCHANGED <<main, block>>
  BY DEF PutDown
<1>2. t.left \in Held /\ t.got \in Held
  BY Typed, TakeHeldConserves
<1>3. t.got.stack \in Slot /\ t.got.from \in Origins
  BY <1>2, HeldType
<1>4. Kept(p, v, k, t.got.stack) \in Slot /\ Leftover(p, v, k, t.got.stack) \in Slot
  BY <1>3, ViewSlots, Typed, KeptType
<1>5. rest \in Held
  BY <1>3, <1>4, HeldType
<1> HIDE DEF t, rest
<1>6. MergeHeld(t.left, rest).kept \in Held
  BY <1>2, <1>5, MergeHeldConserves
<1>7. StockMoves(p)
  BY <1>1, <1>4, ViewSlots, StockWrite, StockStays
<1>8. HandMoves(p)
  BY <1>1, <1>2, <1>6, Typed, HandSet
<1>9. PlaceMoves(p)
  BY <1>1, PlaceStays DEF Ready
<1> QED BY <1>7, <1>8, <1>9, PlayerStep

LEMMA SwapTakeKeeps ==
  ASSUME ItemsInv, NEW p \in Players, NEW v \in Shared(p), NEW k \in SlotsOf(v),
         SwapTake(p, v, k)
  PROVE  PlayerKeeps(p)
<1> DEFINE j == [view |-> v, slot |-> k, mine |-> held[p][Hand],
                 other |-> Wrap(At(p, v, k), [where |-> v, slot |-> k])]
<1>1. /\ Ready(p) /\ held' = [held EXCEPT ![p][Hand] = NothingHeld]
      /\ UNCHANGED <<saved, online, old, open, holder>>
      /\ \/ Write(p, v, k, Empty) /\ Become(p, "swapPut", j)
         \/ UNCHANGED <<main, block, pc, job>>
  BY DEF SwapTake
<1>2. j \in JobAt("swapPut")
  <2>1. At(p, v, k) \in Slot
    BY ViewSlots, Typed, AtType
  <2>2. Wrap(At(p, v, k), [where |-> v, slot |-> k]) \in Held /\ held[p][Hand] \in Held
    BY <2>1, ViewSlots, Typed, HeldType
  <2> QED BY <2>2, ViewSlots DEF JobAt
<1> HIDE DEF j
<1>3. StockMoves(p)
  BY <1>1, ViewSlots, SlotType, StockWrite, StockStays
<1>4. HandMoves(p) /\ held'[p][Hand] = NothingHeld
  BY <1>1, Typed, HeldType, HandSet
<1>5. PlaceMoves(p)
  BY <1>1, <1>2, <1>4, PlaceStays, PlaceBecomes DEF Ready, PCs
<1> QED BY <1>3, <1>4, <1>5, PlayerStep

LEMMA SwapPutKeeps ==
  ASSUME ItemsInv, NEW p \in Players, SwapPut(p)
  PROVE  PlayerKeeps(p)
<1>1. /\ pc[p] = "swapPut" /\ Done(p) /\ UNCHANGED <<saved, online, old, open, holder>>
      /\ \/ Write(p, job[p].view, job[p].slot,
                  Kept(p, job[p].view, job[p].slot, job[p].mine.stack))
         \/ UNCHANGED <<main, block>>
      /\ held' = held \/ held' = [held EXCEPT ![p][Hand] = job[p].other]
  BY DEF SwapPut
<1>2. /\ job[p].view \in Views /\ job[p].slot \in SlotsOf(job[p].view)
      /\ job[p].mine.stack \in Slot /\ job[p].other \in Held
  <2>1. job[p] \in JobAt("swapPut")
    BY <1>1 DEF ItemsInv, TypeOK
  <2> QED BY <2>1, HeldType DEF JobAt
<1>3. StockMoves(p)
  BY <1>1, <1>2, Typed, KeptType, StockWrite, StockStays
<1>4. HandMoves(p)
  BY <1>1, <1>2, Typed, HandsStay, HandSet
<1>5. PlaceMoves(p)
  BY <1>1, PlaceDone
<1> QED BY <1>3, <1>4, <1>5, PlayerStep

\* Moves and swaps between hand and grid.
LEMMA GridFits ==
  ASSUME ItemsInv, NEW p \in Players, NEW c \in OwnSlots, NEW d \in OwnSlots, c # d,
         NEW a \in Held, NEW b \in Held,
         held' = [held EXCEPT ![p][c] = a, ![p][d] = b],
         UNCHANGED <<old, online, open>>
  PROVE  /\ HandMoves(p)
         /\ \A i \in Items :
              SumHeld(i, held'[p]) + Amount(i, held[p][c].stack) + Amount(i, held[p][d].stack)
                = SumHeld(i, held[p]) + Amount(i, a.stack) + Amount(i, b.stack)
<1>1. held \in [Players -> [OwnSlots -> Held]] /\ held[p] \in [OwnSlots -> Held]
  BY Typed
<1> DEFINE one == [held[p] EXCEPT ![c] = a]
           two == [one EXCEPT ![d] = b]
<1>2. one \in [OwnSlots -> Held] /\ two \in [OwnSlots -> Held] /\ one[d] = held[p][d]
  BY <1>1
<1>3. held' = [held EXCEPT ![p] = two]
  BY <1>1
<1>4. held' \in [Players -> [OwnSlots -> Held]] /\ held'[p] = two
      /\ \A q \in Players \ {p} : held'[q] = held[q]
  BY <1>1, <1>2, <1>3
<1>5. HandMoves(p)
  BY <1>4, Typed DEF HandMoves, HandsOK
<1>6. ASSUME NEW i \in Items
      PROVE  SumHeld(i, two) + Amount(i, held[p][c].stack) + Amount(i, held[p][d].stack)
               = SumHeld(i, held[p]) + Amount(i, a.stack) + Amount(i, b.stack)
  <2>1. SumHeld(i, one) + Amount(i, held[p][c].stack) = SumHeld(i, held[p]) + Amount(i, a.stack)
    BY <1>1, SumHeldExcept
  <2> HIDE DEF one
  <2>2. SumHeld(i, two) + Amount(i, one[d].stack) = SumHeld(i, one) + Amount(i, b.stack)
    BY <1>2, SumHeldExcept
  <2>3. /\ Amount(i, held[p][c].stack) \in Nat /\ Amount(i, held[p][d].stack) \in Nat
        /\ Amount(i, a.stack) \in Nat /\ Amount(i, b.stack) \in Nat
    BY <1>1, HeldType, AmountType
  <2> HIDE DEF two
  <2>4. SumHeld(i, one) \in Nat /\ SumHeld(i, two) \in Nat /\ SumHeld(i, held[p]) \in Nat
    BY <1>1, <1>2, SumHeldType
  <2> QED BY <1>2, <2>1, <2>2, <2>3, <2>4
<1> HIDE DEF two
<1> QED BY <1>4, <1>5, <1>6

\* A move between two slots of hand and grid: c is where it comes from, d where it goes.
LEMMA MoveFits ==
  ASSUME ItemsInv, NEW p \in Players, NEW c \in OwnSlots, NEW d \in OwnSlots,
         NEW n \in Counts, NEW t, NEW m, t = TakeHeld(held[p][c], n),
         m = MergeHeld(held[p][d], t.got)
  PROVE  /\ m.kept \in Held /\ MergeHeld(t.left, m.left).kept \in Held
         /\ \A i \in Items :
              /\ Amount(i, m.kept.stack) + Amount(i, MergeHeld(t.left, m.left).kept.stack)
                   <= Amount(i, held[p][c].stack) + Amount(i, held[p][d].stack)
              /\ LimitsKept =>
                   Amount(i, m.kept.stack) + Amount(i, MergeHeld(t.left, m.left).kept.stack)
                     = Amount(i, held[p][c].stack) + Amount(i, held[p][d].stack)
<1> DEFINE r == MergeHeld(t.left, m.left)
<1>1. held[p][c] \in Held /\ held[p][d] \in Held
  BY Typed
<1>2. /\ t.left \in Held /\ t.got \in Held
      /\ \A i \in Items : Amount(i, t.left.stack) + Amount(i, t.got.stack)
                            = Amount(i, held[p][c].stack)
      /\ \A o \in Held :
           LimitsKept /\ (o # NothingHeld => /\ o.stack.item = t.got.stack.item
                                             /\ o.stack.qty <= t.got.stack.qty)
             => MergeHeld(t.left, o).left = NothingHeld
  BY <1>1, Typed, TakeHeldConserves
<1>3. /\ m.kept \in Held /\ m.left \in Held
      /\ \A i \in Items : Amount(i, m.kept.stack) + Amount(i, m.left.stack)
                            = Amount(i, held[p][d].stack) + Amount(i, t.got.stack)
      /\ m.left # NothingHeld => /\ m.left.stack.item = t.got.stack.item
                                 /\ m.left.stack.qty <= t.got.stack.qty
  BY <1>1, <1>2, MergeHeldConserves
<1>4. /\ r.kept \in Held /\ r.left \in Held
      /\ \A i \in Items : Amount(i, r.kept.stack) + Amount(i, r.left.stack)
                            = Amount(i, t.left.stack) + Amount(i, m.left.stack)
  BY <1>2, <1>3, MergeHeldConserves
<1>5. LimitsKept => r.left = NothingHeld
  BY <1>2, <1>3
<1> HIDE DEF r
<1>6. ASSUME NEW i \in Items
      PROVE  /\ Amount(i, m.kept.stack) + Amount(i, r.kept.stack)
                  <= Amount(i, held[p][c].stack) + Amount(i, held[p][d].stack)
             /\ LimitsKept => Amount(i, m.kept.stack) + Amount(i, r.kept.stack)
                                = Amount(i, held[p][c].stack) + Amount(i, held[p][d].stack)
  <2>1. /\ Amount(i, m.kept.stack) \in Nat /\ Amount(i, m.left.stack) \in Nat
        /\ Amount(i, r.kept.stack) \in Nat /\ Amount(i, r.left.stack) \in Nat
        /\ Amount(i, t.left.stack) \in Nat /\ Amount(i, t.got.stack) \in Nat
        /\ Amount(i, held[p][c].stack) \in Nat /\ Amount(i, held[p][d].stack) \in Nat
    BY <1>1, <1>2, <1>3, <1>4, HeldType, AmountType
  <2>2. Amount(i, t.left.stack) + Amount(i, t.got.stack) = Amount(i, held[p][c].stack)
    BY <1>2
  <2>3. Amount(i, m.kept.stack) + Amount(i, m.left.stack)
          = Amount(i, held[p][d].stack) + Amount(i, t.got.stack)
    BY <1>3
  <2>4. Amount(i, r.kept.stack) + Amount(i, r.left.stack)
          = Amount(i, t.left.stack) + Amount(i, m.left.stack)
    BY <1>4
  <2>5. LimitsKept => Amount(i, r.left.stack) = 0
    BY <1>5, HeldType, AmountOfEmpty
  <2> QED BY <2>1, <2>2, <2>3, <2>4, <2>5
<1> QED BY <1>3, <1>4, <1>6 DEF r

LEMMA GridKeeps ==
  ASSUME ItemsInv, NEW p \in Players, NEW k \in Grid, NEW n \in Counts,
         FromGrid(p, k, n) \/ ToGrid(p, k, n)
  PROVE  PlayerKeeps(p)
<1>1. Ready(p) /\ UNCHANGED <<main, block, saved, online, old, open, pc, job, holder>>
  BY DEF FromGrid, ToGrid
<1>2. k \in OwnSlots /\ Hand \in OwnSlots /\ k # Hand
  BY Typed
<1>3. HandMoves(p)
  <2>1. CASE FromGrid(p, k, n)
    <3> DEFINE t == TakeHeld(held[p][k], n)
               m == MergeHeld(held[p][Hand], t.got)
    <3>1. held' = [held EXCEPT ![p][Hand] = m.kept, ![p][k] = MergeHeld(t.left, m.left).kept]
      BY <2>1 DEF FromGrid
    <3>2. m.kept \in Held /\ MergeHeld(t.left, m.left).kept \in Held
      BY <1>2, MoveFits
    <3> HIDE DEF t, m
    <3> QED BY <1>1, <1>2, <3>1, <3>2, GridFits
  <2>2. CASE ToGrid(p, k, n)
    <3> DEFINE t == TakeHeld(held[p][Hand], n)
               m == MergeHeld(held[p][k], t.got)
    <3>1. held' = [held EXCEPT ![p][k] = m.kept, ![p][Hand] = MergeHeld(t.left, m.left).kept]
      BY <2>2 DEF ToGrid
    <3>2. m.kept \in Held /\ MergeHeld(t.left, m.left).kept \in Held
      BY <1>2, MoveFits
    <3> HIDE DEF t, m
    <3> QED BY <1>1, <1>2, <3>1, <3>2, GridFits
  <2> QED BY <2>1, <2>2
<1>4. StockMoves(p)
  BY <1>1, StockStays
<1>5. PlaceMoves(p)
  BY <1>1, PlaceStays DEF Ready
<1> QED BY <1>3, <1>4, <1>5, PlayerStep

LEMMA SwapGridKeeps ==
  ASSUME ItemsInv, NEW p \in Players, NEW k \in Grid, SwapGrid(p, k)
  PROVE  PlayerKeeps(p)
<1>1. /\ Ready(p) /\ UNCHANGED <<main, block, saved, online, old, open, pc, job, holder>>
      /\ held' = [held EXCEPT ![p][k] = held[p][Hand], ![p][Hand] = held[p][k]]
  BY DEF SwapGrid
<1>2. /\ k \in OwnSlots /\ Hand \in OwnSlots /\ k # Hand
      /\ held[p][Hand] \in Held /\ held[p][k] \in Held
  BY Typed
<1>3. HandMoves(p)
  BY <1>1, <1>2, GridFits
<1>4. StockMoves(p)
  BY <1>1, StockStays
<1>5. PlaceMoves(p)
  BY <1>1, PlaceStays DEF Ready
<1> QED BY <1>3, <1>4, <1>5, PlayerStep

\* The virtual views.
LEMMA CraftKeeps ==
  ASSUME ItemsInv, NEW p \in Players, Craft(p)
  PROVE  PlayerKeeps(p)
<1>1. PICK r \in Recipes :
        /\ Ready(p) /\ UNCHANGED <<main, block, saved, online, old, open, pc, job, holder>>
        /\ held' = [held EXCEPT ![p] =
                      [k \in OwnSlots |->
                         IF k = Hand THEN MergeHeld(held[p][Hand], Wrap(r.result, Nowhere)).kept
                         ELSE TakeHeld(held[p][k], 1).left]]
  BY DEF Craft
<1>2. r.result \in Slot
  <2>1. r.result \in Stack
    BY InventoryAssumption
  <2> QED BY <2>1 DEF Slot, FitStack, LimitsKept
<1>3. MergeHeld(held[p][Hand], Wrap(r.result, Nowhere)).kept \in Held
  BY <1>2, Typed, HeldType, MergeHeldConserves
<1>4. \A k \in OwnSlots : TakeHeld(held[p][k], 1).left \in Held
  BY Typed, TakeHeldConserves
<1>5. PICK views \in [OwnSlots -> Held] : held' = [held EXCEPT ![p] = views]
  BY <1>1, <1>3, <1>4
<1>6. HandMoves(p)
  BY <1>1, <1>5, Typed DEF HandMoves, HandsOK
<1>7. StockMoves(p)
  BY <1>1, StockStays
<1>8. PlaceMoves(p)
  BY <1>1, PlaceStays DEF Ready
<1> QED BY <1>6, <1>7, <1>8, PlayerStep

LEMMA TakeCreativeFits ==
  ASSUME ItemsInv, NEW p \in Players, NEW i \in Creative, NEW n \in Counts,
         TakeCreative(p, i, n)
  PROVE  \E s, m :
           /\ s \in Slot /\ s = [item |-> i, qty |-> n]
           /\ m = MergeHeld(held[p][Hand], Wrap(s, Nowhere))
           /\ Wrap(s, Nowhere) \in Held /\ Wrap(s, Nowhere).stack = s
           /\ held' = [held EXCEPT ![p][Hand] = m.kept] /\ m.kept \in Held
<1> DEFINE s == [item |-> i, qty |-> n]
           m == MergeHeld(held[p][Hand], Wrap(s, Nowhere))
<1>1. s \in Slot
  <2>1. s \in Stack
    BY Typed, InventoryAssumption DEF Stack
  <2>2. LimitsKept => InLimits(s)
    BY DEF LimitsKept
  <2> QED BY <2>1, <2>2 DEF Slot, FitStack
<1> HIDE DEF s
<1>2. Wrap(s, Nowhere) \in Held /\ Wrap(s, Nowhere).stack = s
  BY <1>1, HeldType
<1>3. m.kept \in Held
  BY <1>2, Typed, MergeHeldConserves
<1>4. held' = [held EXCEPT ![p][Hand] = m.kept]
  BY Typed DEF TakeCreative, s
<1> HIDE DEF m
<1> QED BY <1>1, <1>2, <1>3, <1>4 DEF s, m

LEMMA TakeCreativeKeeps ==
  ASSUME ItemsInv, NEW p \in Players, NEW i \in Creative, NEW n \in Counts,
         TakeCreative(p, i, n)
  PROVE  PlayerKeeps(p)
<1>1. Ready(p) /\ UNCHANGED <<main, block, saved, online, old, open, pc, job, holder>>
  BY DEF TakeCreative
<1>2. PICK h \in Held : held' = [held EXCEPT ![p][Hand] = h]
  BY TakeCreativeFits
<1>3. HandMoves(p)
  BY <1>1, <1>2, Typed, HandSet
<1>4. StockMoves(p)
  BY <1>1, StockStays
<1>5. PlaceMoves(p)
  BY <1>1, PlaceStays DEF Ready
<1> QED BY <1>3, <1>4, <1>5, PlayerStep

\* Returns of a closed popup.
LEMMA CloseKeeps ==
  ASSUME ItemsInv, NEW p \in Players, NEW popup \in Popups, Close(p, popup)
  PROVE  PlayerKeeps(p)
<1>1. /\ Ready(p) /\ UNCHANGED <<main, block, saved, online, held, old, open, holder>>
      /\ Become(p, "clear", [popup |-> popup, slot |-> Hand])
  BY DEF Close
<1>2. [popup |-> popup, slot |-> Hand] \in JobAt("clear") /\ "clear" \in PCs \ {"write"}
  BY Typed DEF JobAt, PCs
<1>3. StockMoves(p) /\ HandMoves(p)
  BY <1>1, Typed, StockStays, HandsStay
<1>4. PlaceMoves(p)
  BY <1>1, <1>2, PlaceBecomes DEF Ready
<1> QED BY <1>3, <1>4, PlayerStep

\* The next slot to clear, or the end of the popup.
LEMMA ProceedFits ==
  ASSUME ItemsInv, NEW p \in Players, NEW j \in JobAt("clear"), Proceed(p, j),
         pc[p] # "write", holder' = holder
  PROVE  /\ PlaceMoves(p) /\ pc'[p] \in {"idle", "clear"} /\ open' \subseteq Players
<1>1. /\ j.popup \in Popups /\ j.slot \in OwnSlots /\ j = [popup |-> j.popup, slot |-> j.slot]
  BY DEF JobAt
<1>2. CASE j.popup = "inventory" /\ p \in Crafters /\ j.slot < GridSlots
  <2> DEFINE i == [j EXCEPT !.slot = @ + 1]
  <2>1. i \in JobAt("clear")
    BY <1>1, <1>2, InventoryAssumption DEF JobAt, OwnSlots
  <2>2. Become(p, "clear", i) /\ open' = open
    BY <1>2 DEF Proceed
  <2> HIDE DEF i
  <2> QED BY <2>1, <2>2, Typed, PlaceBecomes DEF PCs
<1>3. CASE ~(j.popup = "inventory" /\ p \in Crafters /\ j.slot < GridSlots)
  <2>1. Done(p) /\ (open' = open \/ open' = open \ {p})
    BY <1>3 DEF Proceed
  <2> QED BY <2>1, Typed, PlaceDone
<1> QED BY <1>2, <1>3

LEMMA ClearNothingKeeps ==
  ASSUME ItemsInv, NEW p \in Players, ClearNothing(p)
  PROVE  PlayerKeeps(p) /\ pc'[p] \in {"idle", "clear"}
<1>1. /\ pc[p] = "clear" /\ Proceed(p, job[p])
      /\ UNCHANGED <<main, block, saved, online, held, old, holder>>
  BY DEF ClearNothing
<1>2. job[p] \in JobAt("clear")
  BY <1>1 DEF ItemsInv, TypeOK
<1>3. PlaceMoves(p) /\ pc'[p] \in {"idle", "clear"} /\ open' \subseteq Players
  BY <1>1, <1>2, ProceedFits
<1>4. StockMoves(p) /\ HandMoves(p)
  BY <1>1, <1>3, Typed, StockStays, HandsStay
<1> QED BY <1>3, <1>4, PlayerStep

\* A slot that is cleared: the stack is at home, or with its owner, or a call failed.
LEMMA ClearSlotKeeps ==
  ASSUME ItemsInv, NEW p \in Players, ClearSlot(p)
  PROVE  /\ PlayerKeeps(p)
         /\ pc[p] = "clear" /\ job[p].slot \in OwnSlots
         /\ held[p][job[p].slot] \in Held /\ held[p][job[p].slot] # NothingHeld
         /\ held'[p] = [held[p] EXCEPT ![job[p].slot] = NothingHeld]
         /\ old' = old
         /\ \/ /\ Settle(p, held[p][job[p].slot])
               /\ IF Settled(p, held[p][job[p].slot]).left = Empty THEN pc'[p] \in {"idle", "clear"}
                  ELSE pc'[p] = "owner" /\ job'[p].stack = Settled(p, held[p][job[p].slot]).left
            \/ pc'[p] = "idle" /\ faults' # faults /\ UNCHANGED <<main, block>>
<1>1. pc[p] = "clear" /\ job[p] \in JobAt("clear")
  BY DEF ItemsInv, TypeOK, ClearSlot
<1>2. PICK c \in OwnSlots, h \in Held : c = job[p].slot /\ h = held[p][c]
  BY <1>1, Typed DEF JobAt
<1>3. /\ h # NothingHeld /\ held' = [held EXCEPT ![p][c] = NothingHeld]
      /\ UNCHANGED <<saved, online, old, holder>>
      /\ \/ /\ Settle(p, h)
            /\ IF Settled(p, h).left = Empty THEN Proceed(p, job[p])
               ELSE /\ Become(p, "owner", [popup |-> job[p].popup, slot |-> c,
                                           stack |-> Settled(p, h).left])
                    /\ UNCHANGED open
         \/ Fault /\ GiveUp(p) /\ UNCHANGED <<main, block>>
  BY <1>2 DEF ClearSlot
<1>4. Settled(p, h).left \in Slot
  BY <1>3, Typed, SettledConserves
<1>5. StockMoves(p)
  BY <1>3, StockSettle, StockStays
<1>6. /\ PlaceMoves(p) /\ open' \subseteq Players
      /\ \/ /\ Settle(p, h)
            /\ IF Settled(p, h).left = Empty THEN pc'[p] \in {"idle", "clear"}
               ELSE pc'[p] = "owner" /\ job'[p].stack = Settled(p, h).left
         \/ pc'[p] = "idle" /\ faults' # faults /\ UNCHANGED <<main, block>>
  <2> DEFINE j == [popup |-> job[p].popup, slot |-> c, stack |-> Settled(p, h).left]
  <2>1. CASE Settle(p, h) /\ Settled(p, h).left = Empty /\ Proceed(p, job[p])
    BY <1>1, <1>3, <2>1, ProceedFits
  <2>2. CASE Settle(p, h) /\ Settled(p, h).left # Empty /\ Become(p, "owner", j) /\ open' = open
    <3>1. j \in JobAt("owner") /\ j.stack = Settled(p, h).left
      BY <1>1, <1>4, <2>2, SlotType DEF JobAt
    <3> HIDE DEF j
    <3> QED BY <1>1, <1>3, <2>2, <3>1, Typed, PlaceBecomes DEF PCs
  <2>3. CASE Fault /\ GiveUp(p) /\ UNCHANGED <<main, block>>
    <3>1. faults' # faults
      BY <2>3 DEF Fault, ItemsInv, TypeOK
    <3> QED BY <1>1, <1>3, <2>3, <3>1, Typed, PlaceDone DEF GiveUp
  <2> QED BY <1>3, <2>1, <2>2, <2>3
<1>7. HandMoves(p) /\ held'[p] = [held[p] EXCEPT ![c] = NothingHeld]
  BY <1>3, <1>6, Typed, HeldType, HandSet
<1>8. PlayerKeeps(p)
  BY <1>5, <1>6, <1>7, PlayerStep
<1> QED BY <1>1, <1>2, <1>3, <1>6, <1>7, <1>8

\* What found no place at home.
LEMMA ToOwnerKeeps ==
  ASSUME ItemsInv, NEW p \in Players, ToOwner(p)
  PROVE  /\ PlayerKeeps(p)
         /\ pc[p] = "owner" /\ job[p].stack \in Slot
         /\ pc'[p] \in {"idle", "clear"}
         /\ UNCHANGED <<block, held, old>>
         /\ \/ main'[p] = TryInsert(main[p], job[p].stack).inv
            \/ faults' # faults /\ main' = main
<1>1. /\ pc[p] = "owner" /\ job[p] \in JobAt("owner")
      /\ UNCHANGED <<block, saved, online, held, old, holder>>
  BY DEF ItemsInv, TypeOK, ToOwner
<1>2. PICK s \in Slot : s = job[p].stack
  BY <1>1, SlotType DEF JobAt
<1>3. /\ main \in [Players -> Inventories(MainSlots)] /\ MainSlots \in Nat
      /\ main[p] \in [1 .. MainSlots -> Slot]
  BY InventoryAssumption DEF ItemsInv, TypeOK, Inventories
<1>4. TryInsert(main[p], s).inv \in Inventories(MainSlots)
  BY <1>3, InsertConserves DEF Inventories
<1>5. [popup |-> job[p].popup, slot |-> job[p].slot] \in JobAt("clear")
  BY <1>1 DEF JobAt
<1>6. CASE /\ main' = [main EXCEPT ![p] = TryInsert(main[p], s).inv]
           /\ Proceed(p, [popup |-> job[p].popup, slot |-> job[p].slot])
  <2>1. /\ main' \in [Players -> Inventories(MainSlots)] /\ main'[p] = TryInsert(main[p], s).inv
        /\ \A q \in Players \ {p} : main'[q] = main[q]
    BY <1>3, <1>4, <1>6
  <2>2. StockMoves(p)
    <3>1. ASSUME NEW i \in Items PROVE InBlock(i, block) <= InBlock(i, block')
      <4>1. InBlock(i, block) \in Nat
        BY BlockSum DEF ItemsInv, TypeOK
      <4> QED BY <1>1, <4>1
    <3>2. block \in [type : {"air", ChestItem}, data : Data, dirty : BOOLEAN]
      BY DEF ItemsInv, TypeOK
    <3> QED BY <1>1, <2>1, <3>1, <3>2 DEF StockMoves
  <2>3. PlaceMoves(p) /\ pc'[p] \in {"idle", "clear"} /\ open' \subseteq Players
    BY <1>1, <1>5, <1>6, ProceedFits
  <2>4. HandMoves(p)
    BY <1>1, <2>3, Typed, HandsStay
  <2> QED BY <1>1, <1>2, <2>1, <2>2, <2>3, <2>4, PlayerStep
<1>7. CASE Fault /\ GiveUp(p) /\ UNCHANGED main
  <2>1. faults' # faults
    BY <1>7 DEF Fault, ItemsInv, TypeOK
  <2>2. PlaceMoves(p) /\ pc'[p] = "idle" /\ open' = open
    BY <1>1, <1>7, PlaceDone DEF GiveUp
  <2>3. StockMoves(p) /\ HandMoves(p)
    BY <1>1, <1>7, <2>2, Typed, StockStays, HandsStay
  <2> QED BY <1>1, <1>2, <1>7, <2>1, <2>2, <2>3, PlayerStep
<1> QED BY <1>2, <1>6, <1>7 DEF ToOwner
\* Digging and placing take the mutex; the write gives it up.
LEMMA PlaceLocks ==
  ASSUME ItemsInv, NEW p \in Players, InventoryFree, pc[p] = "idle",
         NEW inv \in Inventories(MainSlots), Become(p, "write", [main |-> inv]), holder' = p
  PROVE  PlaceMoves(p) /\ pc'[p] = "write" /\ job'[p].main = inv
<1> DEFINE j == [main |-> inv]
<1>1. /\ pc \in [Players -> PCs] /\ job = [q \in Players |-> job[q]]
      /\ \A q \in Players : job[q] \in JobAt(pc[q])
      /\ \A q \in Players : pc[q] # "write"
  BY InventoryAssumption DEF ItemsInv, TypeOK, PCs, InventoryFree
<1>2. pc' = [pc EXCEPT ![p] = "write"] /\ job' = [job EXCEPT ![p] = j]
  BY DEF Become
<1>3. j \in JobAt("write") /\ j.main = inv
  BY DEF JobAt
<1> HIDE DEF j
<1>4. DOMAIN job = Players
  BY <1>1
<1>5. /\ pc' \in [Players -> PCs] /\ pc'[p] = "write" /\ job'[p] = j
      /\ \A q \in Players \ {p} : pc'[q] = pc[q] /\ job'[q] = job[q]
  BY <1>1, <1>2, <1>4 DEF PCs
<1>6. job' = [q \in Players |-> job'[q]]
  BY <1>2, <1>4
<1>7. \A q \in Players : job'[q] \in JobAt(pc'[q])
  BY <1>1, <1>3, <1>5
<1>8. \A q \in Players : holder' = q <=> pc'[q] = "write"
  BY <1>1, <1>5
<1>9. PlacesOK'
  BY <1>5, <1>6, <1>7, <1>8 DEF PlacesOK
<1> QED BY <1>3, <1>5, <1>9 DEF PlaceMoves

LEMMA PlaceUnlocks ==
  ASSUME ItemsInv, NEW p \in Players, pc[p] = "write", Done(p), holder' = NoPlayer
  PROVE  PlaceMoves(p) /\ pc'[p] = "idle" /\ holder = p
<1>1. /\ pc \in [Players -> PCs] /\ job = [q \in Players |-> job[q]]
      /\ \A q \in Players : job[q] \in JobAt(pc[q])
      /\ holder = p /\ \A q \in Players \ {p} : pc[q] # "write"
  BY DEF ItemsInv, TypeOK, PCs
<1>2. pc' = [pc EXCEPT ![p] = "idle"] /\ job' = [job EXCEPT ![p] = NoJob]
  BY DEF Done, Become
<1>3. DOMAIN job = Players
  BY <1>1
<1>4. /\ pc' \in [Players -> PCs] /\ pc'[p] = "idle" /\ job'[p] = NoJob
      /\ \A q \in Players \ {p} : pc'[q] = pc[q] /\ job'[q] = job[q]
  BY <1>1, <1>2, <1>3 DEF PCs
<1>5. job' = [q \in Players |-> job'[q]]
  BY <1>2, <1>3
<1>6. \A q \in Players : job'[q] \in JobAt(pc'[q])
  BY <1>1, <1>4 DEF JobAt
<1>7. \A q \in Players : holder' = q <=> pc'[q] = "write"
  BY <1>1, <1>4, InventoryAssumption
<1>8. PlacesOK'
  BY <1>4, <1>5, <1>6, <1>7 DEF PlacesOK
<1> QED BY <1>1, <1>4, <1>8 DEF PlaceMoves

\* The item that digging a chest drops.
Dropped == [item |-> ChestItem, qty |-> 1]

LEMMA DroppedType == Dropped \in Slot /\ Dropped # Empty
<1>1. Dropped \in Stack
  BY InventoryAssumption DEF Dropped, Stack
<1>2. LimitsKept => InLimits(Dropped)
  BY DEF LimitsKept, Dropped
<1> QED BY <1>1, <1>2, EmptyIsNoStack DEF Slot, FitStack

LEMMA DigKeeps ==
  ASSUME ItemsInv, NEW p \in Players, Dig(p)
  PROVE  /\ PlayerKeeps(p)
         /\ pc[p] = "idle" /\ pc'[p] = "write"
         /\ job'[p].main = TryInsert(main[p], Dropped).inv
         /\ block.type = ChestItem /\ block'.type = "air" /\ block'.data = block.data
         /\ UNCHANGED <<main, held, old>>
<1>1. /\ Ready(p) /\ InventoryFree /\ block.type = ChestItem
      /\ block' = [block EXCEPT !.type = "air", !.dirty = TRUE] /\ holder' = p
      /\ Become(p, "write", [main |-> TryInsert(main[p], Dropped).inv])
      /\ UNCHANGED <<main, saved, online, held, old, open>>
  BY DEF Dig, Dropped
<1>2. /\ main \in [Players -> Inventories(MainSlots)] /\ MainSlots \in Nat
      /\ main[p] \in [1 .. MainSlots -> Slot]
      /\ block \in [type : {"air", ChestItem}, data : Data, dirty : BOOLEAN]
  BY InventoryAssumption DEF ItemsInv, TypeOK, Inventories
<1>3. TryInsert(main[p], Dropped).inv \in Inventories(MainSlots)
  BY <1>2, DroppedType, InsertConserves DEF Inventories
<1>4. PlaceMoves(p) /\ pc'[p] = "write" /\ job'[p].main = TryInsert(main[p], Dropped).inv
  BY <1>1, <1>3, PlaceLocks DEF Ready
<1>5. StockMoves(p) /\ block'.type = "air" /\ block'.data = block.data
  BY <1>1, <1>2 DEF StockMoves
<1>6. HandMoves(p)
  BY <1>1, Typed, HandsStay
<1> QED BY <1>1, <1>4, <1>5, <1>6, PlayerStep DEF Ready

\* One item less in a stack.
LEMMA DecrementFits ==
  ASSUME NEW s \in FitStack
  PROVE  /\ Decrement(s) \in Slot
         /\ \A i \in Items : Amount(i, Decrement(s)) + (IF s.item = i THEN 1 ELSE 0) = Amount(i, s)
<1>1. s.item \in Items /\ s.qty \in Nat \ {0} /\ s = [item |-> s.item, qty |-> s.qty]
  BY DEF FitStack, Stack
<1>2. CASE s.qty <= 1
  <2>1. Decrement(s) = Empty /\ s.qty = 1
    BY <1>1, <1>2 DEF Decrement
  <2> QED BY <2>1, SlotType, AmountOfEmpty DEF Amount
<1>3. CASE ~(s.qty <= 1)
  <2> DEFINE d == [s EXCEPT !.qty = @ - 1]
  <2>1. Decrement(s) = d
    BY <1>3 DEF Decrement
  <2>2. d.item = s.item /\ d.qty = s.qty - 1 /\ d \in Stack
    BY <1>1, <1>3 DEF Stack
  <2>3. LimitsKept => InLimits(d)
    <3>1. LimitsKept => InLimits(s)
      BY DEF FitStack
    <3>2. s.item \in Stackable => MaxStack[s.item] \in Nat
      BY <1>1, ItemsAssumption
    <3> QED BY <1>1, <2>2, <3>1, <3>2 DEF InLimits
  <2> HIDE DEF d
  <2>4. d \in Slot
    BY <2>2, <2>3 DEF Slot, FitStack
  <2> QED BY <1>1, <2>1, <2>2, <2>4 DEF Amount
<1> QED BY <1>2, <1>3

LEMMA PlaceKeeps ==
  ASSUME ItemsInv, NEW p \in Players, NEW k \in 1 .. MainSlots, Place(p, k)
  PROVE  /\ PlayerKeeps(p)
         /\ pc[p] = "idle" /\ pc'[p] = "write"
         /\ main[p][k] \in FitStack /\ main[p][k].item = ChestItem
         /\ job'[p].main = [main[p] EXCEPT ![k] = Decrement(main[p][k])]
         /\ block.type = "air" /\ block'.type = ChestItem /\ block'.data = NoData
         /\ UNCHANGED <<main, held, old>>
<1>1. /\ Ready(p) /\ InventoryFree /\ main[p][k].item = ChestItem /\ block.type = "air"
      /\ block' = [type |-> ChestItem, data |-> NoData, dirty |-> TRUE] /\ holder' = p
      /\ Become(p, "write", [main |-> [main[p] EXCEPT ![k] = Decrement(@)]])
      /\ UNCHANGED <<main, saved, online, held, old, open>>
  BY DEF Place
<1>2. /\ main \in [Players -> Inventories(MainSlots)] /\ MainSlots \in Nat
      /\ main[p] \in Inventories(MainSlots) /\ main[p][k] \in Slot
  BY InventoryAssumption DEF ItemsInv, TypeOK, Inventories
<1>3. main[p][k] \in FitStack
  BY <1>1, <1>2, SlotType, InventoryAssumption, ItemsAssumption DEF Empty
<1>4. PICK inv \in Inventories(MainSlots) : inv = [main[p] EXCEPT ![k] = Decrement(main[p][k])]
  BY <1>2, <1>3, DecrementFits, SlotChanges
<1>5. Become(p, "write", [main |-> inv])
  BY <1>1, <1>4
<1>6. PlaceMoves(p) /\ pc'[p] = "write" /\ job'[p].main = inv
  BY <1>1, <1>5, PlaceLocks DEF Ready
<1>7. StockMoves(p) /\ block'.type = ChestItem /\ block'.data = NoData
  BY <1>1, <1>2, InventoryAssumption DEF StockMoves, Data
<1>8. HandMoves(p)
  BY <1>1, Typed, HandsStay
<1> QED BY <1>1, <1>3, <1>4, <1>6, <1>7, <1>8, PlayerStep DEF Ready

LEMMA WriteMainKeeps ==
  ASSUME ItemsInv, NEW p \in Players, WriteMain(p)
  PROVE  /\ PlayerKeeps(p)
         /\ pc[p] = "write" /\ pc'[p] = "idle" /\ job[p].main \in Inventories(MainSlots)
         /\ main'[p] = job[p].main \/ faults' # faults
         /\ UNCHANGED <<block, held, old>>
<1>1. /\ pc[p] = "write" /\ holder' = NoPlayer /\ Done(p)
      /\ main' = [main EXCEPT ![p] = job[p].main] \/ (Fault /\ UNCHANGED main)
      /\ UNCHANGED <<block, saved, online, held, old, open>>
  BY DEF WriteMain
<1>2. job[p].main \in Inventories(MainSlots)
  <2>1. job[p] \in JobAt("write")
    BY <1>1 DEF ItemsInv, TypeOK
  <2> QED BY <2>1 DEF JobAt
<1>3. PlaceMoves(p) /\ pc'[p] = "idle"
  BY <1>1, PlaceUnlocks
<1>4. HandMoves(p)
  BY <1>1, Typed, HandsStay
<1>5. CASE main' = [main EXCEPT ![p] = job[p].main]
  <2>1. main \in [Players -> Inventories(MainSlots)]
    BY DEF ItemsInv, TypeOK
  <2>2. /\ main' \in [Players -> Inventories(MainSlots)] /\ main'[p] = job[p].main
        /\ \A q \in Players \ {p} : main'[q] = main[q]
    BY <1>2, <1>5, <2>1
  <2>3. ASSUME NEW i \in Items PROVE InBlock(i, block) <= InBlock(i, block')
    <3>1. InBlock(i, block) \in Nat
      BY BlockSum DEF ItemsInv, TypeOK
    <3> QED BY <1>1, <3>1
  <2>4. block \in [type : {"air", ChestItem}, data : Data, dirty : BOOLEAN]
    BY DEF ItemsInv, TypeOK
  <2>5. StockMoves(p)
    BY <1>1, <2>2, <2>3, <2>4 DEF StockMoves
  <2> QED BY <1>1, <1>2, <1>3, <1>4, <2>2, <2>5, PlayerStep
<1>6. CASE Fault /\ UNCHANGED main
  <2>1. faults' # faults
    BY <1>6 DEF Fault, ItemsInv, TypeOK
  <2>2. StockMoves(p)
    BY <1>1, <1>6, StockStays
  <2> QED BY <1>1, <1>2, <1>3, <1>4, <2>1, <2>2, PlayerStep
<1> QED BY <1>1, <1>5, <1>6

\* Opening a chest.
LEMMA InteractKeeps ==
  ASSUME ItemsInv, NEW p \in Players, Interact(p)
  PROVE  PlayerKeeps(p) /\ pc[p] = "idle" /\ pc'[p] = "open"
<1>1. /\ Ready(p) /\ UNCHANGED <<main, block, saved, online, held, old, open, holder>>
      /\ Become(p, "open", NoJob)
  BY DEF Interact
<1>2. NoJob \in JobAt("open") /\ "open" \in PCs \ {"write"}
  BY DEF JobAt, PCs
<1>3. StockMoves(p) /\ HandMoves(p)
  BY <1>1, Typed, StockStays, HandsStay
<1>4. PlaceMoves(p) /\ pc'[p] = "open"
  BY <1>1, <1>2, PlaceBecomes DEF Ready
<1> QED BY <1>1, <1>3, <1>4, PlayerStep DEF Ready

LEMMA OpenChestKeeps ==
  ASSUME ItemsInv, NEW p \in Players, OpenChest(p)
  PROVE  /\ PlayerKeeps(p)
         /\ pc[p] = "open" /\ pc'[p] = "idle"
         /\ \A i \in Items : InBlock(i, block') = InBlock(i, block)
         /\ UNCHANGED <<main, held, old>>
<1>1. /\ pc[p] = "open" /\ Done(p) /\ UNCHANGED <<main, saved, online, held, old, holder>>
      /\ block' = [block EXCEPT !.data = IF @ = NoData THEN [k \in 1 .. ChestSlots |-> Empty] ELSE @]
      /\ open' \subseteq Players
  BY Typed DEF OpenChest
<1>2. /\ block \in [type : {"air", ChestItem}, data : Data, dirty : BOOLEAN] /\ ChestSlots \in Nat
      /\ main \in [Players -> Inventories(MainSlots)]
  BY InventoryAssumption DEF ItemsInv, TypeOK
<1>3. PICK empty \in Inventories(ChestSlots) : empty = [k \in 1 .. ChestSlots |-> Empty]
  BY SlotType DEF Inventories
<1>4. \A i \in Items : Sum(i, empty) = 0
  <2>1. empty \in [1 .. ChestSlots -> MaybeStack] /\ \A k \in 1 .. ChestSlots : empty[k] = Empty
    BY <1>3, SlotType DEF Inventories
  <2> QED BY <1>2, <2>1, SumOfNothing
<1>5. /\ block' \in [type : {"air", ChestItem}, data : Data, dirty : BOOLEAN]
      /\ block'.type = block.type /\ block'.dirty = block.dirty
      /\ block'.data = IF block.data = NoData THEN empty ELSE block.data
  BY <1>1, <1>2, <1>3 DEF Data
<1>6. ASSUME NEW i \in Items PROVE InBlock(i, block') = InBlock(i, block)
  <2>1. Sum(i, block'.data) = Sum(i, block.data)
    BY <1>4, <1>5, SumOfNoData
  <2> QED BY <1>5, <2>1 DEF InBlock
<1>7. ASSUME NEW i \in Items PROVE InBlock(i, block) <= InBlock(i, block')
  <2>1. InBlock(i, block) \in Nat
    BY <1>2, BlockSum
  <2> QED BY <1>6, <2>1
<1>8. StockMoves(p)
  BY <1>1, <1>2, <1>5, <1>7 DEF StockMoves
<1>9. HandMoves(p)
  BY <1>1, Typed, HandsStay
<1>10. PlaceMoves(p) /\ pc'[p] = "idle"
  BY <1>1, PlaceDone
<1> QED BY <1>1, <1>6, <1>8, <1>9, <1>10, PlayerStep

\* Sessions.
LEMMA ConnectKeeps ==
  ASSUME ItemsInv, NEW p \in Players, Connect(p)
  PROVE  PlayerKeeps(p) /\ UNCHANGED <<main, block, held, old, pc, job>>
<1>1. /\ UNCHANGED <<main, block, saved, held, old, open, pc, job, holder>>
      /\ online' \subseteq Players
  BY Typed DEF Connect
<1>2. StockMoves(p) /\ HandMoves(p) /\ PlaceMoves(p)
  BY <1>1, Typed, StockStays, HandsStay, PlaceStays
<1> QED BY <1>1, <1>2, PlayerStep

LEMMA DisconnectKeeps ==
  ASSUME ItemsInv, NEW p \in Players, Disconnect(p)
  PROVE  /\ PlayerKeeps(p)
         /\ old[p] = HoldsNothing /\ old'[p] = held[p] /\ held'[p] = HoldsNothing
         /\ UNCHANGED <<main, block, pc, job>>
<1>1. /\ Ready(p) /\ old[p] = HoldsNothing /\ UNCHANGED <<main, block, saved, pc, job, holder>>
      /\ online' \subseteq Players /\ open' \subseteq Players
      /\ old' = [old EXCEPT ![p] = held[p]] /\ held' = [held EXCEPT ![p] = HoldsNothing]
  BY Typed DEF Disconnect
<1>2. /\ held' \in [Players -> [OwnSlots -> Held]] /\ old' \in [Players -> [OwnSlots -> Held]]
      /\ old'[p] = held[p] /\ held'[p] = HoldsNothing
      /\ \A q \in Players \ {p} : held'[q] = held[q] /\ old'[q] = old[q]
  BY <1>1, Typed, SumOfHoldsNothing
<1>3. HandMoves(p)
  BY <1>1, <1>2 DEF HandMoves, HandsOK
<1>4. StockMoves(p) /\ PlaceMoves(p)
  BY <1>1, StockStays, PlaceStays DEF Ready
<1> QED BY <1>1, <1>2, <1>3, <1>4, PlayerStep

LEMMA DropViewKeeps ==
  ASSUME ItemsInv, NEW p \in Players, NEW k \in OwnSlots, DropView(p, k)
  PROVE  /\ PlayerKeeps(p)
         /\ old[p][k] \in Held /\ old[p][k] # NothingHeld
         /\ UNCHANGED <<held, pc, job>>
         /\ \/ Settle(p, old[p][k]) /\ old'[p] = [old[p] EXCEPT ![k] = NothingHeld]
            \/ faults' # faults
<1>1. /\ old[p][k] # NothingHeld /\ UNCHANGED <<saved, online, held, open, pc, job, holder>>
      /\ \/ Settle(p, old[p][k]) /\ old' = [old EXCEPT ![p][k] = NothingHeld]
         \/ /\ Fault /\ UNCHANGED <<main, block>>
            /\ old' = [old EXCEPT ![p] = [j \in OwnSlots |->
                         IF k = Hand \/ j # Hand THEN NothingHeld ELSE old[p][Hand]]]
  BY DEF DropView, NextToDrop
<1>2. PICK h \in Held : h = old[p][k]
  BY Typed
<1>3. StockMoves(p)
  BY <1>1, <1>2, StockSettle, StockStays
<1>4. PlaceMoves(p)
  BY <1>1, PlaceStays
<1>5. CASE Settle(p, old[p][k]) /\ old' = [old EXCEPT ![p][k] = NothingHeld]
  <2>1. /\ old' \in [Players -> [OwnSlots -> Held]] /\ old'[p] = [old[p] EXCEPT ![k] = NothingHeld]
        /\ \A q \in Players \ {p} : old'[q] = old[q]
    BY <1>5, Typed, HeldType
  <2>2. HandMoves(p)
    BY <1>1, <2>1, Typed DEF HandMoves, HandsOK
  <2> QED BY <1>1, <1>2, <1>3, <1>4, <1>5, <2>1, <2>2, PlayerStep
<1>6. CASE /\ Fault
           /\ old' = [old EXCEPT ![p] = [j \in OwnSlots |->
                        IF k = Hand \/ j # Hand THEN NothingHeld ELSE old[p][Hand]]]
  <2>1. PICK views \in [OwnSlots -> Held] : old' = [old EXCEPT ![p] = views]
    <3> DEFINE views == [j \in OwnSlots |-> IF k = Hand \/ j # Hand THEN NothingHeld ELSE old[p][Hand]]
    <3>1. NothingHeld \in Held /\ old[p][Hand] \in Held
      BY Typed, HeldType
    <3>2. views \in [OwnSlots -> Held]
      BY <3>1
    <3> QED BY <1>6, <3>2
  <2>2. /\ old' \in [Players -> [OwnSlots -> Held]]
        /\ \A q \in Players \ {p} : old'[q] = old[q]
    BY <2>1, Typed
  <2>3. HandMoves(p)
    BY <1>1, <2>2, Typed DEF HandMoves, HandsOK
  <2>4. faults' # faults
    BY <1>6 DEF Fault, ItemsInv, TypeOK
  <2> QED BY <1>1, <1>2, <1>3, <1>4, <2>3, <2>4, PlayerStep
<1> QED BY <1>1, <1>5, <1>6

\* What the map and the process do.
LEMMA LoadedData ==
  ASSUME NEW s \in [type : {"air", ChestItem}, data : Data]
  PROVE  /\ Loaded(s) \in [type : {"air", ChestItem}, data : Data, dirty : BOOLEAN]
         /\ ~Loaded(s).dirty /\ Loaded(s).type = s.type
         /\ \A i \in Items : InBlock(i, Loaded(s)) <= InBlock(i, s)
         /\ s.type # "air" => \A i \in Items : InBlock(i, Loaded(s)) = InBlock(i, s)
<1>1. /\ Loaded(s) \in [type : {"air", ChestItem}, data : Data, dirty : BOOLEAN]
      /\ ~Loaded(s).dirty /\ Loaded(s).type = s.type
      /\ Loaded(s).data = IF s.type = "air" THEN NoData ELSE s.data
  BY DEF Loaded, Data
<1>2. ASSUME NEW i \in Items
      PROVE  /\ InBlock(i, Loaded(s)) <= InBlock(i, s)
             /\ s.type # "air" => InBlock(i, Loaded(s)) = InBlock(i, s)
  <2>1. Sum(i, s.data) \in Nat /\ Sum(i, NoData) = 0
    BY InventorySum, SumOfNoData
  <2>2. PICK b \in Nat : b = IF s.type = i THEN 1 ELSE 0
    OBVIOUS
  <2>3. InBlock(i, s) = Sum(i, s.data) + b /\ InBlock(i, Loaded(s)) = Sum(i, Loaded(s).data) + b
    BY <1>1, <2>2 DEF InBlock
  <2>4. Sum(i, Loaded(s).data) = IF s.type = "air" THEN 0 ELSE Sum(i, s.data)
    BY <1>1, <2>1
  <2> QED BY <2>1, <2>2, <2>3, <2>4
<1> QED BY <1>1, <1>2

LEMMA SaveKeeps ==
  ASSUME ItemsInv, Save
  PROVE  /\ StoresOK' /\ HandsOK' /\ PlacesOK' /\ RequestsOK' /\ CleanHoldsSaved'
         /\ \A i \in Items : InBlock(i, block') = InBlock(i, block)
         /\ UNCHANGED <<main, held, old, pc, job>>
<1>1. /\ saved' = [type |-> block.type, data |-> block.data]
      /\ block' = [block EXCEPT !.dirty = FALSE]
      /\ UNCHANGED <<main, online, held, old, open, pc, job, holder>>
  BY DEF Save
<1>2. block \in [type : {"air", ChestItem}, data : Data, dirty : BOOLEAN]
  BY DEF ItemsInv, TypeOK
<1>3. /\ saved' \in [type : {"air", ChestItem}, data : Data]
      /\ block' \in [type : {"air", ChestItem}, data : Data, dirty : BOOLEAN]
      /\ block'.type = block.type /\ block'.data = block.data
      /\ saved'.type = block.type /\ saved'.data = block.data
  BY <1>1, <1>2
<1>4. \A i \in Items : InBlock(i, block') = InBlock(i, block) /\ InBlock(i, saved') = InBlock(i, block)
  BY <1>3 DEF InBlock
<1>5. \A i \in Items : InBlock(i, Loaded(saved')) <= InBlock(i, block')
  BY <1>3, <1>4, LoadedData
<1>6. CleanHoldsSaved'
  BY <1>5 DEF CleanHoldsSaved
<1> QED BY <1>1, <1>3, <1>4, <1>6
        DEF ItemsInv, TypeOK, StoresOK, HandsOK, PlacesOK, PCs, RequestsOK

LEMMA EvictKeeps ==
  ASSUME ItemsInv, Evict
  PROVE  /\ StoresOK' /\ HandsOK' /\ PlacesOK' /\ RequestsOK' /\ CleanHoldsSaved'
         /\ UNCHANGED <<main, held, old, pc, job>>
         /\ \/ block.dirty /\ block' = Loaded([type |-> block.type, data |-> block.data])
            \/ ~block.dirty /\ block' = Loaded(saved)
            \/ faults' # faults
<1>1. /\ \/ block.dirty /\ saved' = [type |-> block.type, data |-> block.data]
         \/ ~block.dirty /\ saved' = saved
         \/ Fault /\ saved' = saved
      /\ block' = Loaded(saved')
      /\ UNCHANGED <<main, online, held, old, open, pc, job, holder>>
  BY DEF Evict
<1>2. /\ block \in [type : {"air", ChestItem}, data : Data, dirty : BOOLEAN]
      /\ saved \in [type : {"air", ChestItem}, data : Data]
  BY DEF ItemsInv, TypeOK
<1>3. saved' \in [type : {"air", ChestItem}, data : Data]
  BY <1>1, <1>2
<1>4. block' \in [type : {"air", ChestItem}, data : Data, dirty : BOOLEAN]
  BY <1>1, <1>3, LoadedData
<1>5. CleanHoldsSaved'
  <2>1. ASSUME NEW i \in Items PROVE InBlock(i, Loaded(saved')) <= InBlock(i, block')
    <3>1. InBlock(i, block') \in Nat
      BY <1>4, BlockSum
    <3> QED BY <1>1, <3>1
  <2> QED BY <2>1 DEF CleanHoldsSaved
<1>6. Fault => faults' # faults
  BY DEF Fault, ItemsInv, TypeOK
<1> QED BY <1>1, <1>3, <1>4, <1>5, <1>6
        DEF ItemsInv, TypeOK, StoresOK, HandsOK, PlacesOK, PCs, RequestsOK

LEMMA CrashKeeps ==
  ASSUME ItemsInv, Crash
  PROVE  /\ StoresOK' /\ HandsOK' /\ PlacesOK' /\ RequestsOK' /\ CleanHoldsSaved'
         /\ faults' # faults
<1>1. /\ Fault /\ block' = Loaded(saved) /\ UNCHANGED <<main, saved>>
      /\ online' = {} /\ open' = {}
      /\ held' = [p \in Players |-> HoldsNothing] /\ old' = [p \in Players |-> HoldsNothing]
      /\ pc' = [p \in Players |-> "idle"] /\ job' = [p \in Players |-> NoJob]
      /\ holder' = NoPlayer
  BY DEF Crash
<1>2. block' \in [type : {"air", ChestItem}, data : Data, dirty : BOOLEAN]
  BY <1>1, LoadedData DEF ItemsInv, TypeOK
<1>3. CleanHoldsSaved'
  <2>1. ASSUME NEW i \in Items PROVE InBlock(i, Loaded(saved')) <= InBlock(i, block')
    <3>1. InBlock(i, block') \in Nat
      BY <1>2, BlockSum
    <3> QED BY <1>1, <3>1
  <2> QED BY <2>1 DEF CleanHoldsSaved
<1>4. StoresOK' /\ HandsOK' /\ RequestsOK' /\ faults' # faults
  BY <1>1, <1>2, SumOfHoldsNothing
     DEF ItemsInv, TypeOK, StoresOK, HandsOK, RequestsOK, Fault
<1>5. PlacesOK'
  BY <1>1, InventoryAssumption DEF PlacesOK, PCs, JobAt
<1> QED BY <1>3, <1>4, <1>5

\* What every step does to the bound on faults.
LEMMA FaultsBounded ==
  ItemsInv /\ [Next]_vars => faults' \in 0 .. MaxFaults
<1> SUFFICES ASSUME ItemsInv, [Next]_vars PROVE faults' \in 0 .. MaxFaults
  OBVIOUS
<1>1. faults \in 0 .. MaxFaults /\ MaxFaults \in Nat
  BY InventoryAssumption DEF ItemsInv, TypeOK
<1>2. faults' = faults \/ Fault
  <2>1. ASSUME NEW p, NEW v, NEW k, NEW n,
               PickUp(p, v, k, n) \/ PutDown(p, v, k, n) \/ SwapTake(p, v, k)
                 \/ PutBack(p) \/ SwapPut(p)
        PROVE  faults' = faults \/ Fault
    <3>1. CASE PickUp(p, v, k, n)
      BY <3>1 DEF PickUp
    <3>2. CASE PutDown(p, v, k, n)
      BY <3>2 DEF PutDown
    <3>3. CASE SwapTake(p, v, k)
      BY <3>3 DEF SwapTake
    <3>4. CASE PutBack(p)
      BY <3>4 DEF PutBack
    <3>5. CASE SwapPut(p)
      BY <3>5 DEF SwapPut
    <3> QED BY <2>1, <3>1, <3>2, <3>3, <3>4, <3>5
  <2>2. ASSUME NEW p, NEW k, NEW n, NEW i, NEW popup,
               FromGrid(p, k, n) \/ ToGrid(p, k, n) \/ SwapGrid(p, k) \/ Craft(p)
                 \/ TakeCreative(p, i, n) \/ Close(p, popup)
        PROVE  faults' = faults \/ Fault
    BY <2>2 DEF FromGrid, ToGrid, SwapGrid, Craft, TakeCreative, Close
  <2>3. ASSUME NEW p, ClearNothing(p) \/ ClearSlot(p) \/ ToOwner(p)
        PROVE  faults' = faults \/ Fault
    BY <2>3 DEF ClearNothing, ClearSlot, ToOwner
  <2>4. ASSUME NEW p, NEW k, Dig(p) \/ Place(p, k) \/ WriteMain(p) \/ Interact(p) \/ OpenChest(p)
        PROVE  faults' = faults \/ Fault
    BY <2>4 DEF Dig, Place, WriteMain, Interact, OpenChest
  <2>5. ASSUME NEW p, NEW k, Connect(p) \/ Disconnect(p) \/ DropView(p, k)
        PROVE  faults' = faults \/ Fault
    BY <2>5 DEF Connect, Disconnect, DropView
  <2>6. CASE UNCHANGED vars \/ Save \/ Evict \/ Crash
    BY <2>6 DEF vars, Save, Evict, Crash
  <2>7. ASSUME NEW p \in Players, Acts(p) PROVE faults' = faults \/ Fault
    BY <2>1, <2>2, <2>3, <2>4, <2>5, <2>7 DEF Acts
  <2> QED BY <2>6, <2>7 DEF Next
<1> QED BY <1>1, <1>2 DEF Fault

\* What a player does, in the types that the lemmas above need.
LEMMA ActsKeep ==
  ASSUME ItemsInv, NEW p \in Players, Acts(p)
  PROVE  PlayerKeeps(p)
<1>1. ASSUME NEW v \in Shared(p), NEW n \in Counts, NEW k \in SlotsOf(v),
             PickUp(p, v, k, n) \/ PutDown(p, v, k, n)
      PROVE  PlayerKeeps(p)
  BY <1>1, PickUpKeeps, PutDownKeeps
<1>2. ASSUME NEW v \in Shared(p), NEW k \in SlotsOf(v), SwapTake(p, v, k) PROVE PlayerKeeps(p)
  BY <1>2, SwapTakeKeeps
<1>3. ASSUME NEW k \in Grid, NEW n \in Counts, FromGrid(p, k, n) \/ ToGrid(p, k, n)
      PROVE  PlayerKeeps(p)
  BY <1>3, GridKeeps
<1>4. ASSUME NEW k \in Grid, SwapGrid(p, k) PROVE PlayerKeeps(p)
  BY <1>4, SwapGridKeeps
<1>5. CASE Craft(p) \/ Dig(p) \/ Interact(p) \/ PutBack(p) \/ SwapPut(p) \/ ClearNothing(p)
  BY <1>5, CraftKeeps, DigKeeps, InteractKeeps, PutBackKeeps, SwapPutKeeps, ClearNothingKeeps
<1>6. CASE \/ ClearSlot(p) \/ ToOwner(p) \/ WriteMain(p) \/ OpenChest(p)
           \/ Connect(p) \/ Disconnect(p)
  BY <1>6, ClearSlotKeeps, ToOwnerKeeps, WriteMainKeeps, OpenChestKeeps, ConnectKeeps,
     DisconnectKeeps
<1>7. ASSUME NEW i \in Creative, NEW n \in Counts, TakeCreative(p, i, n) PROVE PlayerKeeps(p)
  BY <1>7, TakeCreativeKeeps
<1>8. ASSUME NEW popup \in {"inventory", "chest"}, Close(p, popup) PROVE PlayerKeeps(p)
  BY <1>8, CloseKeeps DEF Popups
<1>9. ASSUME NEW k \in 1 .. MainSlots, Place(p, k) PROVE PlayerKeeps(p)
  BY <1>9, PlaceKeeps
<1>10. ASSUME NEW k \in OwnSlots, DropView(p, k) PROVE PlayerKeeps(p)
  BY <1>10, DropViewKeeps
<1> QED BY <1>1, <1>2, <1>3, <1>4, <1>5, <1>6, <1>7, <1>8, <1>9, <1>10 DEF Acts

LEMMA ItemsInit == Init => ItemsInv
<1> SUFFICES ASSUME Init PROVE ItemsInv
  OBVIOUS
<1>1. StoresOK
  <2>1. main \in [Players -> Inventories(MainSlots)]
    <3>1. InitMain \in [Players -> [1 .. MainSlots -> MaybeStack]]
      BY InventoryAssumption
    <3>2. \A p \in Players, k \in 1 .. MainSlots : LimitsKept => InLimits(InitMain[p][k])
      BY DEF LimitsKept
    <3>3. \A p \in Players : InitMain[p] \in Inventories(MainSlots)
      BY <3>1, <3>2 DEF Inventories, Slot, FitStack, MaybeStack
    <3> QED BY <3>1, <3>3 DEF Init
  <2> QED BY <2>1 DEF Init, StoresOK, Data
<1>2. HandsOK
  BY SumOfHoldsNothing DEF Init, HandsOK
<1>3. PlacesOK /\ faults \in 0 .. MaxFaults
  BY InventoryAssumption DEF Init, PlacesOK, PCs, JobAt
<1>4. RequestsOK
  BY DEF Init, RequestsOK
<1>5. CleanHoldsSaved
  <2>1. Loaded(saved).type = block.type /\ Loaded(saved).data = block.data
    BY DEF Init, Loaded
  <2>2. block.data \in Data
    BY <1>1 DEF StoresOK
  <2>3. ASSUME NEW i \in Items PROVE InBlock(i, Loaded(saved)) <= InBlock(i, block)
    <3>1. InBlock(i, block) \in Nat
      BY <2>2, BlockSum
    <3> QED BY <2>1, <3>1 DEF InBlock
  <2> QED BY <2>3 DEF CleanHoldsSaved
<1> QED BY <1>1, <1>2, <1>3, <1>4, <1>5, TypeParts DEF ItemsInv

LEMMA ItemsNext == ItemsInv /\ [Next]_vars => ItemsInv'
<1> SUFFICES ASSUME ItemsInv, [Next]_vars PROVE ItemsInv'
  OBVIOUS
<1>1. faults' \in 0 .. MaxFaults
  BY FaultsBounded
<1>2. StoresOK' /\ HandsOK' /\ PlacesOK' /\ RequestsOK' /\ CleanHoldsSaved'
  <2>1. CASE UNCHANGED vars
    BY <2>1 DEF vars, ItemsInv, TypeOK, StoresOK, HandsOK, PlacesOK, PCs, RequestsOK,
                CleanHoldsSaved
  <2>2. CASE \E p \in Players : Acts(p)
    BY <2>2, ActsKeep DEF PlayerKeeps
  <2>3. CASE Save \/ Evict \/ Crash
    BY <2>3, SaveKeeps, EvictKeeps, CrashKeeps
  <2> QED BY <2>1, <2>2, <2>3 DEF Next
<1> QED BY <1>1, <1>2, TypeParts DEF ItemsInv

\* ItemsInv is an invariant.
THEOREM ItemsInvariant == Spec => []ItemsInv
BY ItemsInit, ItemsNext, PTL DEF Spec

\* Eviction never copies items: a chest that is not marked dirty holds in memory at
\* least what the database has for it.
THEOREM EvictionCopiesNothing == Spec => []CleanHoldsSaved
BY ItemsInvariant, PTL DEF ItemsInv

-----------------------------------------------------------------------------
(***************************************************************************)
(* The mutex of the inventory database.  NoLostUpdate needs to know that   *)
(* whoever is about to write an inventory has the mutex and that no one    *)
(* else has it; LockInv says so, and is inductive.                         *)
(***************************************************************************)
LockInv ==
  /\ pc \in [Players -> PCs]
  /\ main = [p \in Players |-> main[p]]
  /\ \A p \in Players : holder = p <=> pc[p] = "write"

\* No one has the mutex at the start.
LEMMA LockInit == Init => LockInv
BY InventoryAssumption DEF Init, LockInv, PCs

\* A request that goes from one place to another, the mutex left alone.
LEMMA PlaceFrame ==
  ASSUME LockInv, NEW p \in Players, NEW w \in PCs \ {"write"}, pc[p] # "write",
         pc' = [pc EXCEPT ![p] = w], holder' = holder,
         main' = main \/ \E inv : main' = [main EXCEPT ![p] = inv]
  PROVE  LockInv'
<1>1. main' = [q \in Players |-> main'[q]]
  BY DEF LockInv
<1>2. pc' \in [Players -> PCs]
  BY DEF LockInv
<1>3. \A q \in Players : holder' = q <=> pc'[q] = "write"
  BY DEF LockInv
<1> QED BY <1>1, <1>2, <1>3 DEF LockInv

\* A step of a request that keeps its place.
LEMMA StayFrame ==
  ASSUME LockInv, NEW p \in Players, pc' = pc, holder' = holder,
         main' = main \/ \E inv : main' = [main EXCEPT ![p] = inv]
  PROVE  LockInv'
BY DEF LockInv

\* What a player's put or take does to the inventories.
LEMMA WriteMainOnly ==
  ASSUME NEW p, NEW v, NEW k, NEW s, Write(p, v, k, s)
  PROVE  /\ main' = main \/ \E inv : main' = [main EXCEPT ![p] = inv]
         /\ main' = main \/ InventoryFree
BY DEF Write

LEMMA SettleMainOnly ==
  ASSUME LockInv, NEW p \in Players, NEW h, Settle(p, h)
  PROVE  /\ main' = main \/ \E inv : main' = [main EXCEPT ![p] = inv]
         /\ main' = main \/ InventoryFree
<1>1. CASE h.from.where = "main"
  BY <1>1 DEF Settle
<1>2. CASE h.from.where # "main"
  <2>1. Settled(p, h).inv = main[p]
    BY <1>2 DEF Settled
  <2>2. main' = [main EXCEPT ![p] = main[p]]
    BY <2>1 DEF Settle
  <2> QED BY <2>2 DEF LockInv
<1> QED BY <1>1, <1>2

\* The end of a clearing step.
LEMMA ProceedPlace ==
  ASSUME NEW p \in Players, NEW j, Proceed(p, j)
  PROVE  \E w \in PCs \ {"write"} : pc' = [pc EXCEPT ![p] = w]
BY DEF Proceed, Become, Done, PCs

\* What a step keeps: LockInv, and the inventories while the mutex is held.
Keeps == LockInv' /\ (main' = main \/ InventoryFree \/ holder' # holder)

\* The moves and swaps.
LEMMA MovesKeep ==
  ASSUME LockInv, NEW p \in Players, NEW v, NEW k, NEW n,
         PickUp(p, v, k, n) \/ PutDown(p, v, k, n) \/ SwapTake(p, v, k)
           \/ PutBack(p) \/ SwapPut(p)
  PROVE  Keeps
<1>1. CASE PickUp(p, v, k, n)
  <2>1. \E s : Write(p, v, k, s)
    BY <1>1 DEF PickUp
  <2>2. pc[p] # "write" /\ holder' = holder
    BY <1>1 DEF PickUp, Ready
  <2>3. pc' = pc \/ pc' = [pc EXCEPT ![p] = "putBack"]
    BY <1>1 DEF PickUp, Become
  <2> QED BY <2>1, <2>2, <2>3, WriteMainOnly, PlaceFrame, StayFrame DEF Keeps, PCs
<1>2. CASE PutDown(p, v, k, n)
  <2>1. (\E s : Write(p, v, k, s)) \/ main' = main
    BY <1>2 DEF PutDown
  <2>2. pc' = pc /\ holder' = holder
    BY <1>2 DEF PutDown
  <2> QED BY <2>1, <2>2, WriteMainOnly, StayFrame DEF Keeps
<1>3. CASE SwapTake(p, v, k)
  <2>1. (\E s : Write(p, v, k, s)) \/ main' = main
    BY <1>3 DEF SwapTake
  <2>2. pc[p] # "write" /\ holder' = holder
    BY <1>3 DEF SwapTake, Ready
  <2>3. pc' = pc \/ pc' = [pc EXCEPT ![p] = "swapPut"]
    BY <1>3 DEF SwapTake, Become
  <2> QED BY <2>1, <2>2, <2>3, WriteMainOnly, PlaceFrame, StayFrame DEF Keeps, PCs
<1>4. CASE PutBack(p)
  <2>1. (\E u, l, s : Write(p, u, l, s)) \/ main' = main
    BY <1>4 DEF PutBack
  <2>2. pc[p] # "write" /\ holder' = holder /\ pc' = [pc EXCEPT ![p] = "idle"]
    BY <1>4 DEF PutBack, Done, Become
  <2> QED BY <2>1, <2>2, WriteMainOnly, PlaceFrame DEF Keeps, PCs
<1>5. CASE SwapPut(p)
  <2>1. (\E u, l, s : Write(p, u, l, s)) \/ main' = main
    BY <1>5 DEF SwapPut
  <2>2. pc[p] # "write" /\ holder' = holder /\ pc' = [pc EXCEPT ![p] = "idle"]
    BY <1>5 DEF SwapPut, Done, Become
  <2> QED BY <2>1, <2>2, WriteMainOnly, PlaceFrame DEF Keeps, PCs
<1> QED BY <1>1, <1>2, <1>3, <1>4, <1>5

\* The returns of a closed popup.
LEMMA ReturnsKeep ==
  ASSUME LockInv, NEW p \in Players, ClearNothing(p) \/ ClearSlot(p) \/ ToOwner(p)
  PROVE  Keeps
<1>1. CASE ClearNothing(p)
  <2>1. PICK w \in PCs \ {"write"} : pc' = [pc EXCEPT ![p] = w]
    BY <1>1, ProceedPlace DEF ClearNothing
  <2> QED BY <1>1, <2>1, PlaceFrame DEF ClearNothing, Keeps
<1>2. CASE ClearSlot(p)
  <2>1. (\E h : Settle(p, h)) \/ main' = main
    BY <1>2 DEF ClearSlot
  <2>2. PICK w \in PCs \ {"write"} : pc' = [pc EXCEPT ![p] = w]
    BY <1>2, ProceedPlace DEF ClearSlot, Become, GiveUp, Done, PCs
  <2>3. pc[p] # "write" /\ holder' = holder
    BY <1>2 DEF ClearSlot
  <2> QED BY <2>1, <2>2, <2>3, SettleMainOnly, PlaceFrame DEF Keeps
<1>3. CASE ToOwner(p)
  <2>1. main' = main \/ (InventoryFree /\ \E inv : main' = [main EXCEPT ![p] = inv])
    BY <1>3 DEF ToOwner
  <2>2. PICK w \in PCs \ {"write"} : pc' = [pc EXCEPT ![p] = w]
    BY <1>3, ProceedPlace DEF ToOwner, Become, GiveUp, Done, PCs
  <2>3. pc[p] # "write" /\ holder' = holder
    BY <1>3 DEF ToOwner
  <2> QED BY <2>1, <2>2, <2>3, PlaceFrame DEF Keeps
<1> QED BY <1>1, <1>2, <1>3

\* Digging and placing take the mutex, and the write gives it up.
LEMMA MutexKeeps ==
  ASSUME LockInv, NEW p \in Players, NEW k, Dig(p) \/ Place(p, k) \/ WriteMain(p)
  PROVE  Keeps
<1>1. CASE Dig(p) \/ Place(p, k)
  <2>1. /\ InventoryFree /\ main' = main /\ holder' = p
        /\ pc' = [pc EXCEPT ![p] = "write"]
    BY <1>1 DEF Dig, Place, Become
  <2>2. \A q \in Players : pc[q] # "write"
    BY <2>1, InventoryAssumption DEF InventoryFree, LockInv
  <2>3. pc' \in [Players -> PCs] /\ \A q \in Players : holder' = q <=> pc'[q] = "write"
    BY <2>1, <2>2 DEF LockInv, PCs
  <2>4. main' = [q \in Players |-> main'[q]]
    BY <2>1 DEF LockInv
  <2> QED BY <2>1, <2>3, <2>4 DEF Keeps, LockInv
<1>2. CASE WriteMain(p)
  <2>1. /\ main' = main \/ \E inv : main' = [main EXCEPT ![p] = inv]
        /\ holder' = NoPlayer /\ pc' = [pc EXCEPT ![p] = "idle"] /\ pc[p] = "write"
    BY <1>2 DEF WriteMain, Done, Become
  <2>2. holder = p /\ holder' # holder
    BY <2>1, InventoryAssumption DEF LockInv
  <2>3. \A q \in Players : pc'[q] # "write"
    BY <2>1, <2>2 DEF LockInv
  <2>4. pc' \in [Players -> PCs] /\ \A q \in Players : holder' = q <=> pc'[q] = "write"
    BY <2>1, <2>3, InventoryAssumption DEF LockInv, PCs
  <2>5. main' = [q \in Players |-> main'[q]]
    BY <2>1 DEF LockInv
  <2> QED BY <2>2, <2>4, <2>5 DEF Keeps, LockInv
<1> QED BY <1>1, <1>2

\* The steps that leave the inventories alone.
LEMMA OthersKeep ==
  ASSUME LockInv, NEW p \in Players, NEW k, NEW i, NEW n, NEW popup,
         \/ SwapGrid(p, k) \/ FromGrid(p, k, n) \/ ToGrid(p, k, n) \/ Craft(p)
         \/ TakeCreative(p, i, n) \/ Close(p, popup) \/ Interact(p) \/ OpenChest(p)
         \/ Connect(p) \/ Disconnect(p)
  PROVE  Keeps
<1>1. main' = main /\ holder' = holder
  BY DEF SwapGrid, FromGrid, ToGrid, Craft, TakeCreative, Close, Interact, OpenChest,
         Connect, Disconnect
<1>2. CASE pc' = pc
  BY <1>1, <1>2, StayFrame DEF Keeps
<1>3. CASE pc' # pc
  <2>1. Close(p, popup) \/ Interact(p) \/ OpenChest(p)
    BY <1>3 DEF SwapGrid, FromGrid, ToGrid, Craft, TakeCreative, Connect, Disconnect
  <2>2. pc[p] # "write" /\ \E w \in PCs \ {"write"} : pc' = [pc EXCEPT ![p] = w]
    BY <2>1 DEF Close, Interact, OpenChest, Ready, Done, Become, PCs
  <2> QED BY <1>1, <2>2, PlaceFrame DEF Keeps
<1> QED BY <1>2, <1>3

\* Dropped views, and what the map and the process do.
LEMMA WorldKeeps ==
  ASSUME LockInv,
         (\E p \in Players, k \in OwnSlots : DropView(p, k)) \/ Save \/ Evict \/ Crash
  PROVE  Keeps
<1>1. CASE \E p \in Players, k \in OwnSlots : DropView(p, k)
  <2>1. PICK p \in Players, k \in OwnSlots : DropView(p, k)
    BY <1>1
  <2>2. (\E h : Settle(p, h)) \/ main' = main
    BY <2>1 DEF DropView
  <2>3. pc' = pc /\ holder' = holder
    BY <2>1 DEF DropView
  <2> QED BY <2>2, <2>3, SettleMainOnly, StayFrame DEF Keeps
<1>2. CASE Save \/ Evict
  BY <1>2 DEF Save, Evict, Keeps, LockInv
<1>3. CASE Crash
  BY <1>3, InventoryAssumption DEF Crash, Keeps, LockInv, PCs
<1> QED BY <1>1, <1>2, <1>3

\* Every step keeps LockInv, and the inventories while the mutex is held.
LEMMA NextKeeps == LockInv /\ [Next]_vars => LockInv' /\ (Keeps \/ UNCHANGED vars)
<1> SUFFICES ASSUME LockInv, [Next]_vars PROVE LockInv' /\ (Keeps \/ UNCHANGED vars)
  OBVIOUS
<1>1. CASE UNCHANGED vars
  BY <1>1 DEF vars, LockInv
<1>2. CASE \E p \in Players : Acts(p)
  BY <1>2, MovesKeep, ReturnsKeep, MutexKeeps, OthersKeep, WorldKeeps DEF Acts, Keeps
<1>3. CASE Save \/ Evict \/ Crash
  BY <1>3, WorldKeeps DEF Keeps
<1> QED BY <1>1, <1>2, <1>3 DEF Next

\* Whoever is about to write an inventory has the mutex of the inventory database,
\* and no one else has it: LockInv always holds.
THEOREM MutexHeldByWriter == Spec => []LockInv
BY LockInit, NextKeeps, PTL DEF Spec

\* While one thread is between reading and writing the inventories, no other changes
\* any, whatever the players, slots, recipes and faults.
THEOREM NothingOverwritten == Spec => NoLostUpdate
<1>1. LockInv /\ [Next]_vars => [holder # NoPlayer /\ holder' = holder => main' = main]_vars
  BY NextKeeps DEF Keeps, InventoryFree, vars
<1> QED BY <1>1, MutexHeldByWriter, PTL DEF Spec, NoLostUpdate
=============================================================================
