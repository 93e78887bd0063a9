---------------------------- MODULE PartsProofs -----------------------------
(***************************************************************************)
(* Proofs about the parts of MCParts whose modules it extends: the furnace *)
(* (Furnace), the registry of block types (BlockTypes), the coordinates    *)
(* (Coordinates), the tools of a player (Tools) and his body (Physics).    *)
(***************************************************************************)
EXTENDS Furnace, BlockTypes, Coordinates, Tools, Physics, CountingLemmas
-----------------------------------------------------------------------------
(***************************************************************************)
(* Proofs about Furnace, for all items, recipes and supplies: what the     *)
(* tick of the furnace makes is paid for with flame, an eviction undoes    *)
(* one finished smelt at most, and every item there was is in a slot, in a *)
(* hand, outside, burnt or counted as lost, and every item there was not   *)
(* is counted as free.  The argument goes over the fields of one furnace:  *)
(* what decrementing and merging do to a slot, then what the flame, a new  *)
(* input and a finished smelt do to the furnace, then the steps, which     *)
(* only move such a furnace between memory and database.  What makes the   *)
(* count inductive is that memory has more than the database by just what  *)
(* was returned unmarked, so that an eviction loses that and no more.      *)
(***************************************************************************)
\* A furnace of which the invariant holds.
Sound(b) ==
  /\ b \in Furnaces /\ Paid(b) /\ SmeltFits(b) /\ AirIsEmpty(b)
  /\ \A s \in Slots : Fits(b.slot[s])
-----------------------------------------------------------------------------
(* Slots                                                                   *)

LEMMA NothingFits == Empty \in MaybeStack /\ Fits(Empty) /\ Empty \notin Stack
BY ItemsAssumption DEF Empty, MaybeStack, Fits, Stack

\* One of an item is a stack that fits.
LEMMA OneFits ==
  ASSUME NEW i \in Items
  PROVE  [item |-> i, qty |-> 1] \in Stack /\ Fits([item |-> i, qty |-> 1])
BY DEF Stack, Fits

\* ItemStack::decrement leaves a slot that fits, and the item unless it was the last.
LEMMA DecrementFits ==
  ASSUME NEW s \in MaybeStack, Fits(s)
  PROVE  /\ Decrement(s) \in MaybeStack /\ Fits(Decrement(s))
         /\ Decrement(s) = Empty \/ Decrement(s).item = s.item
         /\ s = Empty => Decrement(s) = Empty
         /\ s # Empty => s.qty \in Nat /\ Decrement(s).qty = s.qty - 1
<1>1. CASE s.qty <= 1
  <2>1. s # Empty => s.qty \in Nat /\ s.qty = 1
    BY <1>1 DEF MaybeStack, Stack
  <2> QED BY <1>1, <2>1, NothingFits DEF Decrement, Empty
<1>2. CASE ~(s.qty <= 1)
  <2>1. s \in Stack /\ s # Empty
    BY <1>2 DEF MaybeStack, Empty
  <2>2. s.qty \in Nat /\ s.item \in Items /\ MaxStack[s.item] \in Nat
    BY <2>1, ItemsAssumption DEF Stack
  <2>3. s.qty \in 1 .. MaxStack[s.item]
    BY <1>2, <2>1, <2>2 DEF Fits
  <2>4. /\ Decrement(s) = [s EXCEPT !.qty = @ - 1] /\ Decrement(s) \in Stack
        /\ Decrement(s).item = s.item /\ Decrement(s).qty = s.qty - 1
    BY <1>2, <2>1, <2>2 DEF Decrement, Stack
  <2>5. Decrement(s).qty \in 1 .. MaxStack[Decrement(s).item]
    BY <1>2, <2>2, <2>3, <2>4
  <2> QED BY <2>1, <2>2, <2>4, <2>5 DEF Fits, MaybeStack
<1> QED BY <1>1, <1>2

\* ItemStack::try_merge of a stack: both parts are stacks that fit, and together have as many.
LEMMA MergeFits ==
  ASSUME NEW s \in MaybeStack, Fits(s), NEW o \in Stack, Fits(o)
  PROVE  /\ Merge(s, o).kept \in MaybeStack /\ Fits(Merge(s, o).kept)
         /\ s.qty \in Nat /\ Merge(s, o).left.qty \in Nat /\ Merge(s, o).kept.qty \in Nat
         /\ Merge(s, o).left.qty <= o.qty
         /\ Merge(s, o).kept.qty + Merge(s, o).left.qty = s.qty + o.qty
<1> DEFINE moved == Least(o.qty, Room(s))
           kept == [s EXCEPT !.qty = @ + moved]
<1>1. o # Empty /\ o \in MaybeStack /\ o.qty \in Nat \ {0} /\ o.item \in Items
  BY NothingFits DEF Stack, MaybeStack
<1>2. s.qty \in Nat /\ Empty.qty = 0
  BY DEF MaybeStack, Stack, Empty
<1>3. CASE s = Empty
  <2>1. Merge(s, o).kept = o /\ Merge(s, o).left = Empty
    BY <1>1, <1>3 DEF Merge
  <2>2. s.qty = 0
    BY <1>2, <1>3
  <2> QED BY <1>1, <1>2, <2>1, <2>2
<1>4. CASE s # Empty /\ ~Mergeable(s, o)
  <2>1. Merge(s, o).kept = s /\ Merge(s, o).left = o
    BY <1>1, <1>4 DEF Merge
  <2> QED BY <1>1, <1>2, <2>1
<1>5. CASE s # Empty /\ Mergeable(s, o)
  <2>1. s \in Stack /\ s.item \in Items /\ MaxStack[s.item] \in Nat /\ s.qty # 0
    BY <1>5, ItemsAssumption DEF MaybeStack, Stack
  <2>2. /\ Room(s) \in Nat /\ moved \in Nat /\ moved <= o.qty
        /\ moved > 0 => s.qty + moved <= MaxStack[s.item]
    BY <1>1, <1>2, <2>1 DEF Least, Room
  <2>3. kept \in Stack /\ kept.item = s.item /\ kept.qty = s.qty + moved
    BY <1>2, <2>1, <2>2 DEF Stack
  <2>4. Merge(s, o).kept = kept
    BY <1>1, <1>5 DEF Merge
  <2>5. Merge(s, o).left = IF o.qty = moved THEN Empty ELSE [o EXCEPT !.qty = @ - moved]
    BY <1>1, <1>5 DEF Merge
  <2>6. Merge(s, o).left.qty = o.qty - moved
    BY <1>1, <1>2, <2>2, <2>5 DEF Stack
  <2>7. Fits(kept)
    <3>1. CASE moved = 0
      <4>1. kept = s
        BY <1>2, <2>1, <3>1 DEF Stack
      <4> QED BY <4>1
    <3>2. CASE moved # 0
      <4>1. kept.qty \in 1 .. MaxStack[kept.item]
        BY <1>2, <2>1, <2>2, <2>3, <3>2
      <4> QED BY <4>1 DEF Fits
    <3> QED BY <3>1, <3>2
  <2> HIDE DEF kept, moved
  <2>8. kept \in MaybeStack
    BY <2>3 DEF MaybeStack
  <2>9. /\ o.qty - moved \in Nat /\ o.qty - moved <= o.qty
        /\ (s.qty + moved) + (o.qty - moved) = s.qty + o.qty
    BY <1>1, <1>2, <2>2
  <2>10. s.qty + moved \in Nat
    BY <1>2, <2>2
  <2> QED BY <1>2, <2>3, <2>4, <2>6, <2>7, <2>8, <2>9, <2>10
<1> QED BY <1>3, <1>4, <1>5

\* MaybeStack::try_merge_all of one item leaves a slot that fits.
LEMMA MergeAllFits ==
  ASSUME NEW s \in MaybeStack, Fits(s), NEW i \in Items
  PROVE  /\ MergeAll(s, [item |-> i, qty |-> 1]) \in MaybeStack
         /\ Fits(MergeAll(s, [item |-> i, qty |-> 1]))
         /\ s.qty \in Nat
         /\ FitsInto([item |-> i, qty |-> 1], s) =>
              MergeAll(s, [item |-> i, qty |-> 1]).qty = s.qty + 1
<1> DEFINE o == [item |-> i, qty |-> 1]
           moved == Least(o.qty, Room(s))
           kept == [s EXCEPT !.qty = @ + moved]
<1>1. o \in Stack /\ Fits(o) /\ o # Empty /\ o \in MaybeStack
  BY OneFits, NothingFits DEF MaybeStack
<1>0. s.qty \in Nat
  BY DEF MaybeStack, Stack, Empty
<1>2. CASE s = Empty \/ ~Mergeable(s, o)
  <2>1. CASE s = Empty
    <3>1. MergeAll(s, o) = o /\ s.qty = 0
      BY <1>1, <2>1 DEF MergeAll, Merge, Empty
    <3> QED BY <1>0, <1>1, <3>1
  <2>2. CASE s # Empty
    <3>1. MergeAll(s, o) = s /\ ~FitsInto(o, s)
      BY <1>1, <1>2, <2>2 DEF MergeAll, Merge, FitsInto
    <3> QED BY <1>0, <1>1, <3>1
  <2> QED BY <2>1, <2>2
<1>3. CASE s # Empty /\ Mergeable(s, o) /\ moved = o.qty
  <2>1. MergeAll(s, o) = kept
    BY <1>1, <1>3 DEF MergeAll, Merge
  <2>2. s \in Stack /\ s.item \in Items /\ s.qty \in Nat /\ MaxStack[s.item] \in Nat
    BY <1>3, ItemsAssumption DEF MaybeStack, Stack
  <2>3. moved = 1
    BY <1>3
  <2>4. MaxStack[s.item] > s.qty
    BY <2>2, <2>3 DEF Least, Room
  <2>5. kept \in Stack /\ kept.item = s.item /\ kept.qty = s.qty + 1
    BY <2>2, <2>3 DEF Stack
  <2>6. kept.qty \in 1 .. MaxStack[kept.item]
    BY <2>2, <2>4, <2>5
  <2> QED BY <1>0, <2>1, <2>5, <2>6 DEF Fits, MaybeStack
<1>4. CASE s # Empty /\ Mergeable(s, o) /\ moved # o.qty
  <2>1. Merge(s, o).left = [o EXCEPT !.qty = @ - moved]
    BY <1>1, <1>4 DEF Merge
  <2>2. Merge(s, o).left # Empty
    BY <2>1, ItemsAssumption DEF Empty
  <2> QED BY <1>0, <2>2 DEF MergeAll, FitsInto
<1> QED BY <1>2, <1>3, <1>4
-----------------------------------------------------------------------------
(* The tick                                                                *)

\* Fields of a furnace.
LEMMA FurnaceFields ==
  ASSUME NEW b \in Furnaces
  PROVE  /\ b.slot \in [Slots -> MaybeStack] /\ b.type \in {"on", "off", "air"}
         /\ b.flame \in Nat /\ b.flame <= FuelTicks /\ b.burnt \in Nat
         /\ b.progress \in Nat /\ b.progress <= Longest
         /\ b.ticks \in Nat /\ b.ticks <= Longest
         /\ b.made \in Nat /\ b.heat \in Nat /\ b.free \in Nat /\ FuelTicks * b.burnt \in Nat
BY FurnaceAssumption DEF Furnaces

\* How many items a furnace has is a number.
LEMMA InsideType ==
  ASSUME NEW b \in Furnaces
  PROVE  Inside(b) \in Nat /\ \A s \in Slots : b.slot[s] \in MaybeStack /\ b.slot[s].qty \in Nat
<1>1. b.slot \in [Slots -> MaybeStack] /\ b.burnt \in Nat
  BY FurnaceFields
<1>2. \A s \in Slots : b.slot[s] \in MaybeStack /\ b.slot[s].qty \in Nat
  BY <1>1 DEF MaybeStack, Stack, Empty
<1> QED BY <1>1, <1>2 DEF Inside, Slots

\* Slots and flames that are the same count the same.
LEMMA SameInside ==
  ASSUME NEW b, NEW c, c.slot = b.slot, c.burnt = b.burnt
  PROVE  Inside(c) = Inside(b)
BY DEF Inside

\* An item less in a slot, and nothing else.
LEMMA TakeOneSound ==
  ASSUME NEW b, Sound(b), NEW s \in Slots
  PROVE  /\ Sound(TakeOne(b, s))
         /\ TakeOne(b, s).slot[s] = Decrement(b.slot[s])
         /\ \A t \in Slots \ {s} : TakeOne(b, s).slot[t] = b.slot[t]
         /\ \A f \in {"type", "open", "flame", "progress", "ticks", "smelted", "burnt", "free", "made", "heat"} :
              TakeOne(b, s)[f] = b[f]
         /\ b.slot[s] # Empty => Inside(TakeOne(b, s)) = Inside(b) - 1
<1> DEFINE c == TakeOne(b, s)
<1>1. b \in Furnaces /\ b.slot \in [Slots -> MaybeStack]
  BY FurnaceFields DEF Sound
<1>2. Decrement(b.slot[s]) \in MaybeStack /\ Fits(Decrement(b.slot[s]))
  BY <1>1, DecrementFits DEF Sound
<1>3. c = [b EXCEPT !.slot = [b.slot EXCEPT ![s] = Decrement(b.slot[s])]]
  BY <1>1, <1>2 DEF TakeOne, Furnaces
<1>4. c.slot = [b.slot EXCEPT ![s] = Decrement(b.slot[s])]
  BY <1>1 DEF TakeOne, Furnaces
<1>5. /\ c.slot \in [Slots -> MaybeStack] /\ c.slot[s] = Decrement(b.slot[s])
      /\ \A t \in Slots \ {s} : c.slot[t] = b.slot[t]
  BY <1>1, <1>2, <1>4
<1>6. /\ c.type = b.type /\ c.open = b.open /\ c.flame = b.flame /\ c.progress = b.progress
      /\ c.ticks = b.ticks /\ c.smelted = b.smelted /\ c.burnt = b.burnt /\ c.made = b.made
      /\ c.heat = b.heat /\ c.free = b.free
  BY <1>1, <1>3 DEF Furnaces
<1>7. c \in Furnaces
  <2>1. [b.slot EXCEPT ![s] = Decrement(b.slot[s])] \in [Slots -> MaybeStack]
    BY <1>1, <1>2
  <2> QED BY <1>1, <1>3, <2>1 DEF Furnaces
<1>8. \A t \in Slots : Fits(c.slot[t])
  BY <1>2, <1>5 DEF Sound
<1>9. Paid(c) /\ SmeltFits(c)
  BY <1>6 DEF Sound, Paid, SmeltFits
<1>12. AirIsEmpty(c)
  <2> SUFFICES ASSUME c.type = "air" PROVE ~c.open /\ \A t \in Slots : c.slot[t] = Empty
    BY DEF AirIsEmpty
  <2>1. ~b.open /\ \A t \in Slots : b.slot[t] = Empty
    BY <1>6 DEF Sound, AirIsEmpty
  <2>2. Decrement(b.slot[s]) = Empty
    BY <2>1, NothingFits, DecrementFits
  <2> QED BY <1>5, <1>6, <2>1, <2>2
<1> HIDE DEF c
<1>10. Sound(c)
  BY <1>7, <1>8, <1>9, <1>12 DEF Sound
<1>11. \A f \in {"type", "open", "flame", "progress", "ticks", "smelted", "burnt", "free", "made", "heat"} :
        c[f] = b[f]
  BY <1>6
<1>13. ASSUME b.slot[s] # Empty PROVE Inside(c) = Inside(b) - 1
  <2>1. Decrement(b.slot[s]).qty = b.slot[s].qty - 1
    BY <1>1, <1>13, DecrementFits DEF Sound
  <2>2. \A t \in Slots : b.slot[t].qty \in Nat /\ b.burnt \in Nat
    BY <1>1, InsideType, FurnaceFields
  <2> QED BY <1>5, <1>6, <2>1, <2>2 DEF Inside, Slots
<1> QED BY <1>5, <1>10, <1>11, <1>13 DEF c

\* MaybeStack::try_take_all: nothing changes if the stack does not yield.
LEMMA TryTakeSound ==
  ASSUME NEW b, Sound(b), NEW s \in Slots
  PROVE  /\ Sound(TryTakeOne(b, s))
         /\ \A t \in Slots \ {s} : TryTakeOne(b, s).slot[t] = b.slot[t]
         /\ \A f \in {"type", "open", "flame", "progress", "ticks", "smelted", "burnt", "free", "made", "heat"} :
              TryTakeOne(b, s)[f] = b[f]
         /\ b.slot[s] # Empty =>
              Inside(TryTakeOne(b, s)) = IF Yields(b, s) THEN Inside(b) - 1 ELSE Inside(b)
BY TakeOneSound DEF TryTakeOne

\* What a step of the callback has made from nothing is counted as such.
Balanced(b, c) == Inside(c) + b.free = Inside(b) + c.free

\* A fuel more is so many ticks more.
LEMMA OneFuelMore == \A n \in Nat : FuelTicks * (n + 1) = FuelTicks * n + FuelTicks
BY FurnaceAssumption

\* FurnaceTimerCallback up to the smelting: a fuel that is lit is marked, and a tick of the
\* flame is one that the smelting may use.
LEMMA BurnSound ==
  ASSUME NEW b, Sound(b)
  PROVE  /\ Sound(Burn(b).b) /\ Burn(b).marks \in BOOLEAN
         /\ Burn(b).b.slot["input"] = b.slot["input"] /\ Burn(b).b.smelted = b.smelted
         /\ Burn(b).b.made = b.made /\ Burn(b).b.ticks = b.ticks
         /\ ~Burn(b).marks \/ b.flame # 0 \/ ~Recipe(b) => Burn(b).b.burnt = b.burnt
         /\ b.flame # 0 =>
              Burn(b).b.heat + Burn(b).b.progress + Burn(b).b.flame + 1 <= FuelTicks * Burn(b).b.burnt
         /\ Burn(b).b.type # "air" /\ Inside(Burn(b).b) = Inside(b) /\ Burn(b).b.free = b.free
<1>0. /\ b \in Furnaces /\ b.flame \in Nat /\ b.flame <= FuelTicks /\ b.burnt \in Nat /\ b.heat \in Nat
      /\ b.progress \in Nat /\ FuelTicks * b.burnt \in Nat /\ FuelTicks \in Nat
  BY FurnaceFields, FurnaceAssumption DEF Sound
<1>1. CASE b.flame > 0
  <2> DEFINE c == BurnOn(b)
  <2>1. Burn(b) = [b |-> c, marks |-> b.type = "off"]
    BY <1>1 DEF Burn
  <2>2. /\ c \in Furnaces /\ c.slot = b.slot /\ c.flame = b.flame - 1 /\ c.progress = b.progress
        /\ c.ticks = b.ticks /\ c.smelted = b.smelted /\ c.burnt = b.burnt /\ c.made = b.made
        /\ c.heat = b.heat /\ c.type = "on" /\ c.free = b.free
    <3>1. b.flame - 1 \in 0 .. FuelTicks
      BY <1>0, <1>1
    <3> QED BY <1>0, <3>1 DEF BurnOn, Furnaces
  <2>3. Paid(c) /\ SmeltFits(c) /\ c.heat + c.progress + c.flame + 1 <= FuelTicks * c.burnt
    BY <1>0, <1>1, <2>2 DEF Sound, Paid, SmeltFits
  <2> HIDE DEF c
  <2>4. Sound(c) /\ Inside(c) = Inside(b)
    BY <2>2, <2>3, SameInside DEF Sound, AirIsEmpty
  <2> QED BY <2>1, <2>2, <2>3, <2>4
<1>2. CASE ~(b.flame > 0) /\ b.slot["fuel"].item \in Fuels /\ Recipe(b) /\ Yields(b, "fuel")
  <2> DEFINE d == TakeOne(b, "fuel")
             c == Light(b)
  <2>1. Burn(b) = [b |-> c, marks |-> TRUE]
    BY <1>2 DEF Burn
  <2>2. Sound(d) /\ d.slot["input"] = b.slot["input"]
    BY TakeOneSound DEF Slots
  <2>3. /\ d \in Furnaces /\ d.progress = b.progress /\ d.ticks = b.ticks /\ d.smelted = b.smelted
        /\ d.burnt = b.burnt /\ d.made = b.made /\ d.heat = b.heat /\ d.flame = b.flame
        /\ d.free = b.free
    BY <2>2, TakeOneSound DEF Sound, Slots
  <2>4. c = [d EXCEPT !.flame = FuelTicks, !.type = "on", !.burnt = @ + 1]
    BY DEF Light
  <2> HIDE DEF c, d
  <2>5. /\ c \in Furnaces /\ c.slot = d.slot /\ c.flame = FuelTicks /\ c.progress = d.progress
        /\ c.ticks = d.ticks /\ c.smelted = d.smelted /\ c.burnt = d.burnt + 1 /\ c.made = d.made
        /\ c.heat = d.heat /\ c.type = "on" /\ c.free = d.free
    <3>1. FuelTicks \in 0 .. FuelTicks /\ d.burnt + 1 \in Nat
      BY <1>0, <2>3
    <3> QED BY <2>3, <2>4, <3>1 DEF Furnaces
  <2>6. b.flame = 0
    BY <1>0, <1>2
  <2>7. FuelTicks * c.burnt = FuelTicks * b.burnt + FuelTicks
    BY <1>0, <2>3, <2>5, OneFuelMore
  <2>8. b.heat + b.progress + b.flame <= FuelTicks * b.burnt
    BY DEF Sound, Paid
  <2>9. c.heat + c.progress + c.flame <= FuelTicks * c.burnt
    BY <1>0, <2>3, <2>5, <2>6, <2>7, <2>8
  <2>10. Paid(c) /\ SmeltFits(c)
    BY <2>2, <2>5, <2>9 DEF Sound, Paid, SmeltFits
  <2>11. Sound(c)
    BY <2>2, <2>5, <2>10 DEF Sound, AirIsEmpty
  <2>12. Inside(c) = Inside(b)
    <3>1. b.slot["fuel"] # Empty
      BY <1>2, FurnaceAssumption, ItemsAssumption DEF Empty
    <3>2. Inside(d) = Inside(b) - 1
      BY <3>1, TakeOneSound DEF d, Slots
    <3>3. Inside(b) \in Nat /\ d.burnt \in Nat /\ \A s \in Slots : d.slot[s].qty \in Nat
      BY <1>0, <2>3, InsideType
    <3>4. Inside(c) = Inside(d) + 1
      BY <2>5, <3>3 DEF Inside, Slots
    <3> QED BY <3>2, <3>3, <3>4
  <2> QED BY <1>0, <1>2, <2>1, <2>2, <2>3, <2>5, <2>6, <2>11, <2>12
<1>3. CASE ~(b.flame > 0) /\ ~(b.slot["fuel"].item \in Fuels /\ Recipe(b))
  <2> DEFINE c == ShutDown(b)
  <2>1. Burn(b) = [b |-> c, marks |-> c # b]
    BY <1>3 DEF Burn
  <2>2. /\ c \in Furnaces /\ c.slot = b.slot /\ c.flame = b.flame /\ c.progress = 0
        /\ c.ticks = b.ticks /\ c.smelted = b.smelted /\ c.burnt = b.burnt /\ c.made = b.made
        /\ c.heat = b.heat /\ c.type = "off" /\ c.free = b.free
    <3>1. 0 \in 0 .. Longest
      BY FurnaceAssumption
    <3> QED BY <1>0, <3>1 DEF ShutDown, Furnaces
  <2>3. b.flame = 0
    BY <1>0, <1>3
  <2>4. Paid(c) /\ SmeltFits(c)
    BY <1>0, <2>2 DEF Sound, Paid, SmeltFits
  <2> HIDE DEF c
  <2>5. Sound(c) /\ Inside(c) = Inside(b)
    BY <2>2, <2>4, SameInside DEF Sound, AirIsEmpty
  <2> QED BY <2>1, <2>2, <2>3, <2>5
<1>4. CASE ~(b.flame > 0) /\ b.slot["fuel"].item \in Fuels /\ Recipe(b) /\ ~Yields(b, "fuel")
  <2>1. Burn(b) = [b |-> b, marks |-> FALSE]
    BY <1>4 DEF Burn
  <2>2. b.slot["input"] # Empty
    BY <1>4, FurnaceAssumption, ItemsAssumption DEF Recipe, Empty
  <2>3. b.type # "air" /\ b.flame = 0
    BY <1>0, <1>4, <2>2 DEF Sound, AirIsEmpty, Slots
  <2> QED BY <2>1, <2>3
<1> QED BY <1>1, <1>2, <1>3, <1>4

\* A new input: the progress starts anew, with the ticks of the recipe of that input.
LEMMA NewInputSound ==
  ASSUME NEW b, Sound(b)
  PROVE  /\ Sound(NewInput(b).b) /\ NewInput(b).marks \in BOOLEAN
         /\ NewInput(b).b.slot = b.slot
         /\ (~NewInput(b).marks => ~Recipe(b) /\ NewInput(b).b.smelted = NoItem)
         /\ NewInput(b).b.made = b.made /\ NewInput(b).b.burnt = b.burnt
         /\ NewInput(b).b.type = b.type /\ NewInput(b).b.free = b.free
<1>0. /\ b \in Furnaces /\ b.flame \in Nat /\ b.burnt \in Nat /\ b.heat \in Nat
      /\ b.progress \in Nat /\ FuelTicks * b.burnt \in Nat /\ 0 \in 0 .. Longest
  BY FurnaceFields, FurnaceAssumption DEF Sound
<1>1. CASE Recipe(b)
  <2> DEFINE i == b.slot["input"].item
             c == [b EXCEPT !.progress = 0, !.ticks = Smelts[i].ticks, !.smelted = i]
  <2>1. i \in DOMAIN Smelts /\ i \in Items /\ Smelts[i].ticks \in 1 .. Longest
    BY <1>1, FurnaceAssumption DEF Recipe
  <2>2. Smelts[i].ticks \in 0 .. Longest
    BY <2>1, FurnaceAssumption
  <2>3. NewInput(b) = [b |-> c, marks |-> TRUE]
    BY <1>1 DEF NewInput
  <2> HIDE DEF i
  <2>4. /\ c \in Furnaces /\ c.slot = b.slot /\ c.flame = b.flame /\ c.progress = 0
        /\ c.ticks = Smelts[i].ticks /\ c.smelted = i /\ c.burnt = b.burnt /\ c.made = b.made
        /\ c.heat = b.heat /\ c.type = b.type /\ c.open = b.open /\ c.free = b.free
    BY <1>0, <2>1, <2>2 DEF Furnaces
  <2> HIDE DEF c
  <2>5. Paid(c) /\ SmeltFits(c)
    BY <1>0, <2>1, <2>4 DEF Sound, Paid, SmeltFits
  <2>6. Sound(c)
    BY <2>4, <2>5 DEF Sound, AirIsEmpty
  <2> QED BY <2>3, <2>4, <2>6
<1>2. CASE ~Recipe(b)
  <2> DEFINE c == [b EXCEPT !.progress = 0, !.smelted = NoItem]
  <2>1. NewInput(b) = [b |-> c, marks |-> FALSE]
    BY <1>2 DEF NewInput
  <2>2. /\ c \in Furnaces /\ c.slot = b.slot /\ c.flame = b.flame /\ c.progress = 0
        /\ c.ticks = b.ticks /\ c.smelted = NoItem /\ c.burnt = b.burnt /\ c.made = b.made
        /\ c.heat = b.heat /\ c.type = b.type /\ c.open = b.open /\ c.free = b.free
    BY <1>0 DEF Furnaces
  <2> HIDE DEF c
  <2>3. Paid(c) /\ SmeltFits(c)
    BY <1>0, <2>2 DEF Sound, Paid, SmeltFits
  <2>4. Sound(c)
    BY <2>2, <2>3 DEF Sound, AirIsEmpty
  <2> QED BY <1>2, <2>1, <2>2, <2>4
<1> QED BY <1>1, <1>2

\* A smelt that is done is paid for, and free if the input did not yield; without a mark it
\* took the last of the input, and was not free.
LEMMA FinishSound ==
  ASSUME NEW b, Sound(b), b.smelted # NoItem, b.smelted = b.slot["input"].item, b.ticks <= b.progress
  PROVE  /\ Sound(Finish(b).b) /\ Finish(b).marks \in BOOLEAN
         /\ Finish(b).b.burnt = b.burnt /\ Balanced(b, Finish(b).b)
         /\ ~Finish(b).marks => /\ Finish(b).b.made = b.made + 1 /\ Finish(b).b.smelted = NoItem
                                /\ Finish(b).b.free = b.free
<1> DEFINE r == Result(b)
           d == TryTakeOne(b, "input")
           free == IF Yields(b, "input") THEN b.free ELSE b.free + 1
           c == Made(b)
           e == [c EXCEPT !.smelted = NoItem]
<1>1. CASE ~FitsInto(r, b.slot["output"])
  <2>1. Finish(b) = [b |-> b, marks |-> TRUE]
    BY <1>1 DEF Finish
  <2> QED BY <2>1 DEF Balanced
<1>2. CASE FitsInto(r, b.slot["output"])
  <2>1. /\ b.smelted \in DOMAIN Smelts /\ Smelts[b.smelted].to \in Items
        /\ b.ticks = Smelts[b.smelted].ticks /\ Smelts[b.smelted].ticks \in Nat
    BY FurnaceAssumption DEF Sound, SmeltFits
  <2>2. /\ b \in Furnaces /\ b.slot \in [Slots -> MaybeStack] /\ b.slot["output"] \in MaybeStack
        /\ b.slot["input"] \in MaybeStack /\ Fits(b.slot["input"]) /\ Fits(b.slot["output"])
        /\ b.heat \in Nat /\ b.progress \in Nat /\ b.flame \in Nat /\ b.made \in Nat
        /\ FuelTicks * b.burnt \in Nat /\ b.slot["input"] # Empty
    BY FurnaceFields DEF Sound, Slots, Empty
  <2>3. Sound(d) /\ d.slot["input"] = IF Yields(b, "input") THEN Decrement(b.slot["input"])
                                                         ELSE b.slot["input"]
    BY TryTakeSound, TakeOneSound DEF Slots, TryTakeOne
  <2>4. /\ d \in Furnaces /\ d.progress = b.progress /\ d.ticks = b.ticks /\ d.smelted = b.smelted
        /\ d.burnt = b.burnt /\ d.made = b.made /\ d.heat = b.heat /\ d.flame = b.flame
        /\ d.type = b.type /\ d.free = b.free /\ b.free \in Nat /\ free \in Nat
    BY <2>2, <2>3, TryTakeSound, FurnaceFields DEF Sound, Slots
  <2>5. /\ MergeAll(b.slot["output"], r) \in MaybeStack /\ Fits(MergeAll(b.slot["output"], r))
        /\ MergeAll(b.slot["output"], r).qty = b.slot["output"].qty + 1
    BY <1>2, <2>1, <2>2, MergeAllFits DEF Result
  <2>20. /\ Inside(d) = IF Yields(b, "input") THEN Inside(b) - 1 ELSE Inside(b)
         /\ d.slot["output"] = b.slot["output"]
    BY <2>2, TryTakeSound DEF Slots
  <2>6. d.slot \in [Slots -> MaybeStack]
    BY <2>4, FurnaceFields
  <2>23. c = [d EXCEPT !.slot["output"] = MergeAll(b.slot["output"], r),
                      !.progress = 0, !.made = @ + 1, !.heat = @ + Smelts[b.smelted].ticks,
                      !.free = free]
    BY <2>4 DEF Made
  <2>24. free = IF Yields(b, "input") THEN b.free ELSE b.free + 1
    OBVIOUS
  <2>13. Finish(b) = IF Recipe(c) THEN [b |-> c, marks |-> TRUE] ELSE [b |-> e, marks |-> FALSE]
    BY <1>2 DEF Finish
  <2> HIDE DEF d, r, free, c
  <2>7. /\ c.slot = [d.slot EXCEPT !["output"] = MergeAll(b.slot["output"], r)]
        /\ c.flame = d.flame /\ c.progress = 0 /\ c.ticks = d.ticks /\ c.smelted = d.smelted
        /\ c.burnt = d.burnt /\ c.made = d.made + 1 /\ c.heat = d.heat + Smelts[b.smelted].ticks
        /\ c.type = d.type /\ c.free = free
    BY <2>4, <2>23 DEF Furnaces
  <2>8. c.slot \in [Slots -> MaybeStack] /\ \A s \in Slots : Fits(c.slot[s])
    <3>1. \A s \in Slots : Fits(d.slot[s])
      BY <2>3 DEF Sound
    <3>2. \A s \in Slots : c.slot[s] = IF s = "output" THEN MergeAll(b.slot["output"], r) ELSE d.slot[s]
      BY <2>6, <2>7
    <3> QED BY <2>5, <2>6, <2>7, <3>1, <3>2
  <2>9. c.slot["input"] = IF Yields(b, "input") THEN Decrement(b.slot["input"]) ELSE b.slot["input"]
    BY <2>3, <2>6, <2>7 DEF Slots
  <2>10. c \in Furnaces
    <3>1. [d.slot EXCEPT !["output"] = MergeAll(b.slot["output"], r)] \in [Slots -> MaybeStack]
      BY <2>5, <2>6
    <3>2. 0 \in 0 .. Longest /\ d.made + 1 \in Nat /\ d.heat + Smelts[b.smelted].ticks \in Nat
      BY <2>1, <2>2, <2>4, FurnaceAssumption
    <3>3. c = [d EXCEPT !.slot = [d.slot EXCEPT !["output"] = MergeAll(b.slot["output"], r)],
                        !.progress = 0, !.made = d.made + 1,
                        !.heat = d.heat + Smelts[b.smelted].ticks, !.free = free]
      BY <2>4, <2>23, <3>2 DEF Furnaces
    <3> QED BY <2>4, <3>1, <3>2, <3>3 DEF Furnaces
  <2>11. b.heat + b.progress + b.flame <= FuelTicks * b.burnt
    BY DEF Sound, Paid
  <2>12. c.heat + c.progress + c.flame <= FuelTicks * c.burnt
    BY <2>1, <2>2, <2>4, <2>7, <2>11
  <2>21. Balanced(b, c)
    <3>1. /\ c.slot["output"].qty = d.slot["output"].qty + 1 /\ c.slot["input"] = d.slot["input"]
          /\ c.slot["fuel"] = d.slot["fuel"] /\ c.burnt = d.burnt
      BY <2>5, <2>6, <2>7, <2>20 DEF Slots
    <3>2. Inside(b) \in Nat /\ d.burnt \in Nat /\ \A s \in Slots : d.slot[s].qty \in Nat
      BY <2>2, <2>4, InsideType, FurnaceFields
    <3>3. Inside(c) = Inside(d) + 1
      BY <3>1, <3>2 DEF Inside, Slots
    <3> QED BY <2>4, <2>7, <2>20, <2>24, <3>2, <3>3 DEF Balanced
  <2>22. c.type # "air"
    BY <2>2, <2>4, <2>7 DEF Sound, AirIsEmpty, Slots
  <2>14. Sound(c)
    BY <2>1, <2>4, <2>7, <2>8, <2>10, <2>12, <2>22 DEF Sound, Paid, SmeltFits, AirIsEmpty
  <2>15. /\ e \in Furnaces /\ e.slot = c.slot /\ e.flame = c.flame /\ e.progress = c.progress
         /\ e.type = c.type
         /\ e.smelted = NoItem /\ e.burnt = c.burnt /\ e.made = c.made /\ e.heat = c.heat
         /\ e.free = c.free
    BY <2>10 DEF Furnaces
  <2> HIDE DEF e
  <2>16. Sound(e)
    BY <2>8, <2>12, <2>15, <2>22 DEF Sound, Paid, SmeltFits, AirIsEmpty
  <2>25. Balanced(b, e)
    BY <2>15, <2>21, SameInside DEF Balanced
  <2>17. ~Recipe(c) => Yields(b, "input")
    BY <2>1, <2>9 DEF Recipe
  <2>18. CASE Recipe(c)
    BY <2>4, <2>7, <2>13, <2>14, <2>18, <2>21
  <2>19. CASE ~Recipe(c)
    <3>1. Finish(b).b = e /\ Finish(b).marks = FALSE
      BY <2>13, <2>19
    <3>2. e.burnt = b.burnt /\ e.made = b.made + 1 /\ e.smelted = NoItem /\ e.free = b.free
      BY <2>4, <2>7, <2>15, <2>17, <2>19, <2>24
    <3> QED BY <2>16, <2>25, <3>1, <3>2
  <2> QED BY <2>18, <2>19
<1> QED BY <1>1, <1>2

\* What a tick that is not marked has done: nothing that counts, or the last of the input.
Unmarked(b, c) ==
  /\ c.burnt = b.burnt /\ c.free = b.free
  /\ \/ c.made = b.made /\ (b.smelted = NoItem => c.smelted = NoItem)
     \/ c.made = b.made + 1 /\ c.smelted = NoItem /\ b.smelted # NoItem

\* The whole of the callback.
LEMMA SmeltSound ==
  ASSUME NEW b, Sound(b)
  PROVE  /\ Sound(Smelt(Burn(b), b.flame).b) /\ Smelt(Burn(b), b.flame).marks \in BOOLEAN
         /\ ~Smelt(Burn(b), b.flame).marks =>
              Unmarked(b, Smelt(Burn(b), b.flame).b)
         /\ Balanced(b, Smelt(Burn(b), b.flame).b)
<1> DEFINE f == Burn(b)
           c == f.b
           w == [c EXCEPT !.progress = Least(@ + 1, Longest)]
           g == Smelt(f, b.flame)
<1> SUFFICES /\ Sound(g.b) /\ g.marks \in BOOLEAN /\ (~g.marks => Unmarked(b, g.b))
             /\ Balanced(b, g.b)
  OBVIOUS
<1>1. /\ Sound(c) /\ f.marks \in BOOLEAN /\ c.type # "air" /\ Inside(c) = Inside(b) /\ c.free = b.free
      /\ c.smelted = b.smelted
  BY BurnSound
<1>2. c.slot["input"] = b.slot["input"] /\ c.made = b.made
      /\ (~f.marks \/ b.flame # 0 \/ ~Recipe(b) => c.burnt = b.burnt)
  BY BurnSound
<1>3. b.flame # 0 => c.heat + c.progress + c.flame + 1 <= FuelTicks * c.burnt
  BY BurnSound
<1> HIDE DEF f
<1>4. CASE c.smelted # c.slot["input"].item
  <2>1. g = NewInput(c)
    BY <1>4 DEF Smelt
  <2>2. /\ Sound(g.b) /\ g.marks \in BOOLEAN /\ g.b.slot = c.slot /\ g.b.made = c.made
        /\ g.b.burnt = c.burnt /\ (~g.marks => ~Recipe(c) /\ g.b.smelted = NoItem)
        /\ Inside(g.b) = Inside(c) /\ g.b.free = c.free
    BY <1>1, <2>1, NewInputSound, SameInside
  <2>3. Recipe(c) <=> Recipe(b)
    BY <1>2 DEF Recipe
  <2> HIDE DEF g, c
  <2> QED BY <1>1, <1>2, <2>2, <2>3 DEF Unmarked, Balanced
<1>5. CASE c.smelted = c.slot["input"].item /\ (b.flame = 0 \/ c.smelted = NoItem)
  <2>1. g = f
    BY <1>5 DEF Smelt
  <2> HIDE DEF g, c
  <2>2. f.b = c
    BY DEF c
  <2> QED BY <1>1, <1>2, <1>5, <2>1, <2>2 DEF Unmarked, Balanced
<1>6. CASE c.smelted = c.slot["input"].item /\ b.flame # 0 /\ c.smelted # NoItem
  <2>1. /\ c \in Furnaces /\ c.progress \in Nat /\ c.progress <= Longest /\ c.heat \in Nat
        /\ c.flame \in Nat /\ c.ticks \in Nat /\ c.ticks <= Longest
        /\ Longest \in Nat /\ FuelTicks * c.burnt \in Nat
    BY <1>1, FurnaceFields, FurnaceAssumption DEF Sound
  <2>2. Least(c.progress + 1, Longest) \in 0 .. Longest /\ Least(c.progress + 1, Longest) <= c.progress + 1
    BY <2>1 DEF Least
  <2>3. /\ w \in Furnaces /\ w.slot = c.slot /\ w.flame = c.flame
        /\ w.progress = Least(c.progress + 1, Longest)
        /\ w.ticks = c.ticks /\ w.smelted = c.smelted /\ w.burnt = c.burnt /\ w.made = c.made
        /\ w.heat = c.heat /\ w.type = c.type /\ w.free = c.free
    BY <2>1, <2>2 DEF Furnaces
  <2>4. g = IF w.progress < c.ticks THEN [b |-> w, marks |-> TRUE] ELSE Finish(w)
    BY <1>6 DEF Smelt
  <2> HIDE DEF w, g
  <2>5. w.heat + w.progress + w.flame <= FuelTicks * w.burnt
    BY <1>3, <1>6, <2>1, <2>2, <2>3
  <2>6. Sound(w) /\ Inside(w) = Inside(b)
    BY <1>1, <2>3, <2>5, SameInside DEF Sound, Paid, SmeltFits, AirIsEmpty
  <2>7. CASE w.progress < c.ticks
    <3>1. g.b = w /\ g.marks = TRUE
      BY <2>4, <2>7
    <3>2. Balanced(b, w)
      BY <1>1, <2>3, <2>6 DEF Balanced
    <3> QED BY <2>6, <3>1, <3>2
  <2>8. CASE ~(w.progress < c.ticks)
    <3>1. w.ticks <= w.progress
      BY <2>1, <2>2, <2>3, <2>8
    <3>2. /\ Sound(g.b) /\ g.marks \in BOOLEAN
          /\ g.b.burnt = w.burnt /\ Balanced(w, g.b)
          /\ ~g.marks => g.b.made = w.made + 1 /\ g.b.smelted = NoItem /\ g.b.free = w.free
      BY <1>6, <2>3, <2>4, <2>6, <2>8, <3>1, FinishSound
    <3> HIDE DEF c
    <3>3. Balanced(b, g.b)
      BY <1>1, <2>3, <2>6, <3>2 DEF Balanced
    <3> QED BY <1>1, <1>2, <1>6, <2>3, <2>6, <3>2, <3>3 DEF Unmarked
  <2> QED BY <2>7, <2>8
<1> QED BY <1>4, <1>5, <1>6
-----------------------------------------------------------------------------
(* The steps                                                               *)

\* What is outside the furnace is counted in numbers.
Hands == Slots \X Items
HandsFit ==
  /\ dirty \in BOOLEAN /\ outside \in [Items -> Nat] /\ away \in [Hands -> Nat]
  /\ unmarked \in Nat /\ lost \in Nat

LEMMA InvIsSound ==
  /\ FurnaceInv <=> /\ Sound(block) /\ Sound(saved) /\ UnmarkedIsLast /\ Conserved /\ SavedCounts
                    /\ HandsFit
  /\ FurnaceInv' <=> /\ Sound(block') /\ Sound(saved') /\ UnmarkedIsLast' /\ Conserved' /\ SavedCounts'
                     /\ HandsFit'
BY DEF FurnaceInv, FurnaceTypeOK, Sound, Paid, SmeltFits, AirIsEmpty, HandsFit, Hands

\* A count of a finite set grows by n, or n less, at one place: so does the tally.
Adds(f, g, p, n) == g = [f EXCEPT ![p] = f[p] + n]
Spends(f, g, p, n) == n <= f[p] /\ g = [f EXCEPT ![p] = f[p] - n]

LEMMA TallyAdds ==
  ASSUME NEW S, IsFiniteSet(S), NEW f \in [S -> Nat], NEW p \in S, NEW n \in Nat,
         NEW g, Adds(f, g, p, n)
  PROVE  g \in [S -> Nat] /\ Tally(f) \in Int /\ Tally(g) \in Int /\ Tally(g) = Tally(f) + n
<1>1. f[p] \in Nat /\ f[p] + n \in Nat /\ g = [f EXCEPT ![p] = f[p] + n]
  BY DEF Adds
<1>2. g \in [S -> Nat] /\ g[p] = f[p] + n /\ \A q \in S : q # p => f[q] = g[q]
  BY <1>1
<1>3. f \in [S -> Int] /\ g \in [S -> Int]
  BY <1>2
<1>4. Tally(g) + f[p] = Tally(f) + g[p]
  BY <1>2, <1>3, TallyExcept
<1>5. Tally(f) \in Int /\ Tally(g) \in Int
  BY <1>3, TallyType
<1> QED BY <1>1, <1>2, <1>4, <1>5

LEMMA TallyTakes ==
  ASSUME NEW S, IsFiniteSet(S), NEW f \in [S -> Nat], NEW p \in S, NEW n \in Nat,
         NEW g, Spends(f, g, p, n)
  PROVE  g \in [S -> Nat] /\ Tally(f) \in Int /\ Tally(g) \in Int /\ Tally(g) = Tally(f) - n
<1>1. f[p] \in Nat /\ f[p] - n \in Nat /\ g = [f EXCEPT ![p] = f[p] - n]
  BY DEF Spends
<1>2. g \in [S -> Nat] /\ g[p] = f[p] - n /\ \A q \in S : q # p => f[q] = g[q]
  BY <1>1
<1>3. f \in [S -> Int] /\ g \in [S -> Int]
  BY <1>2
<1>4. Tally(g) + f[p] = Tally(f) + g[p]
  BY <1>2, <1>3, TallyExcept
<1>5. Tally(f) \in Int /\ Tally(g) \in Int
  BY <1>3, TallyType
<1> QED BY <1>1, <1>2, <1>4, <1>5

LEMMA HandsFinite ==
  /\ IsFiniteSet(Items) /\ IsFiniteSet(Hands)
  /\ HandsFit => Tally(outside) \in Int /\ Tally(away) \in Int
<1>1. IsFiniteSet(Items) /\ IsFiniteSet(Slots)
  <2>1. IsFiniteSet({"input"})
    BY FS_Singleton
  <2>2. IsFiniteSet({"input"} \cup {"output"})
    BY <2>1, FS_AddElement
  <2>3. IsFiniteSet(({"input"} \cup {"output"}) \cup {"fuel"})
    BY <2>2, FS_AddElement
  <2>4. Slots = ({"input"} \cup {"output"}) \cup {"fuel"}
    BY DEF Slots
  <2> QED BY <2>3, <2>4, FurnaceAssumption
<1>2. IsFiniteSet(Hands)
  BY <1>1, FS_Product DEF Hands
<1>3. HandsFit => Tally(outside) \in Int /\ Tally(away) \in Int
  <2> SUFFICES ASSUME HandsFit PROVE Tally(outside) \in Int /\ Tally(away) \in Int
    OBVIOUS
  <2>1. outside \in [Items -> Int] /\ away \in [Hands -> Int]
    BY DEF HandsFit
  <2> QED BY <1>1, <1>2, <2>1, TallyType
<1> QED BY <1>1, <1>2, <1>3

\* The numbers of an account that holds, whose two sides change alike.
LEMMA AccountNumbers ==
  FurnaceInv => /\ Inside(block) \in Nat /\ Inside(saved) \in Nat /\ Tally(away) \in Int
                /\ Tally(outside) \in Int /\ Tally(Supply) \in Int
                /\ lost \in Nat /\ unmarked \in Nat /\ block.free \in Nat
                /\ Inside(block) + Tally(away) + Tally(outside) + lost = Tally(Supply) + block.free
<1> SUFFICES ASSUME FurnaceInv
             PROVE  /\ Inside(block) \in Nat /\ Inside(saved) \in Nat /\ Tally(away) \in Int
                    /\ Tally(outside) \in Int /\ Tally(Supply) \in Int
                    /\ lost \in Nat /\ unmarked \in Nat /\ block.free \in Nat
                    /\ Inside(block) + Tally(away) + Tally(outside) + lost = Tally(Supply) + block.free
  OBVIOUS
<1>1. Sound(block) /\ Sound(saved) /\ Conserved /\ HandsFit
  BY InvIsSound
<1>2. Inside(block) \in Nat /\ Inside(saved) \in Nat /\ block.free \in Nat
  BY <1>1, InsideType, FurnaceFields DEF Sound
<1>3. Supply \in [Items -> Int] /\ IsFiniteSet(Items)
  BY FurnaceAssumption
<1>4. Tally(Supply) \in Int
  BY <1>3, TallyType
<1> QED BY <1>1, <1>2, <1>4, HandsFinite DEF HandsFit, Conserved

\* Another stack in a slot, and nothing else.
SlotBecomes(b, c, s, m) == c = [b EXCEPT !.slot[s] = m]

LEMMA SlotSound ==
  ASSUME NEW b, Sound(b), b.open, NEW s \in Slots, NEW m \in MaybeStack, Fits(m),
         NEW c, SlotBecomes(b, c, s, m)
  PROVE  /\ Sound(c) /\ c.burnt = b.burnt /\ c.free = b.free /\ c.made = b.made
         /\ c.smelted = b.smelted /\ c.type = b.type
         /\ b.slot[s].qty \in Nat /\ m.qty \in Nat /\ Inside(b) \in Nat /\ Inside(c) \in Nat
         /\ Inside(c) + b.slot[s].qty = Inside(b) + m.qty
<1> DEFINE f == [b.slot EXCEPT ![s] = m]
<1>1. /\ b \in Furnaces /\ b.slot \in [Slots -> MaybeStack] /\ \A t \in Slots : Fits(b.slot[t])
      /\ b.burnt \in Nat
  BY FurnaceFields DEF Sound
<1>2. c = [b EXCEPT !.slot = f]
  BY <1>1 DEF Furnaces, SlotBecomes
<1>3. /\ f \in [Slots -> MaybeStack] /\ \A t \in Slots : Fits(f[t])
      /\ f[s] = m /\ \A t \in Slots \ {s} : f[t] = b.slot[t]
  BY <1>1
<1> HIDE DEF f
<1>4. /\ c \in Furnaces /\ c.slot = f /\ c.flame = b.flame /\ c.progress = b.progress
      /\ c.ticks = b.ticks /\ c.smelted = b.smelted /\ c.burnt = b.burnt /\ c.made = b.made
      /\ c.heat = b.heat /\ c.type = b.type /\ c.open = b.open /\ c.free = b.free
  BY <1>1, <1>2, <1>3 DEF Furnaces
<1>5. Sound(c)
  BY <1>3, <1>4 DEF Sound, Paid, SmeltFits, AirIsEmpty
<1>6. \A t \in Slots : b.slot[t].qty \in Nat /\ f[t].qty \in Nat
  BY <1>1, <1>4, InsideType
<1>7. Inside(b) \in Nat /\ Inside(c) \in Nat
  BY <1>1, <1>4, InsideType
<1>8. Inside(c) + b.slot[s].qty = Inside(b) + m.qty
  <2>1. f[s].qty = m.qty /\ \A t \in Slots \ {s} : f[t].qty = b.slot[t].qty
    BY <1>3
  <2>2. /\ Inside(c) = f["input"].qty + f["output"].qty + f["fuel"].qty + b.burnt
        /\ Inside(b) = b.slot["input"].qty + b.slot["output"].qty + b.slot["fuel"].qty + b.burnt
    BY <1>4 DEF Inside
  <2>3. s = "input" \/ s = "output" \/ s = "fuel"
    BY DEF Slots
  <2> QED BY <1>1, <1>6, <2>1, <2>2, <2>3 DEF Slots
<1> QED BY <1>3, <1>4, <1>5, <1>6, <1>7, <1>8

\* Where there is no furnace, before it is placed or after it was dug.
LEMMA NewFurnace ==
  ASSUME NEW b, b.burnt \in Nat, b.free \in Nat
  PROVE  \A c \in {Fresh(b), [Fresh(b) EXCEPT !.type = "air"]} :
           Sound(c) /\ Inside(c) = b.burnt /\ c.free = b.free
<1> DEFINE new == Fresh(b)
           air == [Fresh(b) EXCEPT !.type = "air"]
<1>1. /\ Empty \in MaybeStack /\ Fits(Empty) /\ 0 <= FuelTicks * b.burnt /\ 0 \in 0 .. FuelTicks
      /\ 0 \in 0 .. Longest
  BY NothingFits, FurnaceAssumption
<1>2. new \in Furnaces /\ air \in Furnaces
  BY <1>1 DEF Fresh, Furnaces
<1>3. \A c \in {new, air} :
        /\ c.slot = [s \in Slots |-> Empty] /\ c.smelted = NoItem /\ c.open = FALSE
        /\ c.heat = 0 /\ c.progress = 0 /\ c.flame = 0 /\ c.burnt = b.burnt /\ c.free = b.free
  BY DEF Fresh
<1> HIDE DEF new, air
<1>4. \A c \in {new, air} : Paid(c) /\ SmeltFits(c) /\ AirIsEmpty(c) /\ \A s \in Slots : Fits(c.slot[s])
  BY <1>1, <1>3 DEF Paid, SmeltFits, AirIsEmpty
<1>5. \A c \in {new, air} : Inside(c) = b.burnt
  <2>1. \A c \in {new, air} : \A s \in Slots : c.slot[s].qty = 0
    BY <1>3 DEF Empty
  <2> QED BY <1>3, <2>1 DEF Inside, Slots
<1>6. \A c \in {new, air} : Sound(c) /\ Inside(c) = b.burnt /\ c.free = b.free
  BY <1>2, <1>3, <1>4, <1>5 DEF Sound
<1> QED BY <1>6 DEF new, air

LEMMA InitSound == FurnaceInit => FurnaceInv
<1> SUFFICES ASSUME FurnaceInit PROVE FurnaceInv
  OBVIOUS
<1> DEFINE none == [burnt |-> 0, free |-> 0]
<1>1. /\ block = Fresh(none) /\ saved = block /\ dirty = FALSE /\ outside = Supply
      /\ away = [p \in Slots \X Items |-> 0] /\ unmarked = 0 /\ lost = 0
  BY DEF FurnaceInit
<1>2. none.burnt = 0 /\ none.free = 0
  OBVIOUS
<1> HIDE DEF none
<1>3. Sound(block) /\ Inside(block) = 0 /\ block.free = 0
  <2>1. none.burnt \in Nat /\ none.free \in Nat
    BY <1>2
  <2>2. /\ Sound(Fresh(none)) /\ Inside(Fresh(none)) = none.burnt
        /\ Fresh(none).free = none.free
    BY <2>1, NewFurnace
  <2> QED BY <1>1, <1>2, <2>2
<1>4. HandsFit
  BY <1>1, FurnaceAssumption DEF HandsFit, Hands
<1>5. Tally(away) = 0
  <2>1. away \in [Hands -> Int] /\ \A p \in Hands : away[p] = 0
    BY <1>1 DEF Hands
  <2> QED BY <2>1, HandsFinite, TallyZero
<1>6. Tally(outside) \in Int
  BY <1>4, HandsFinite
<1>7. Conserved
  BY <1>1, <1>3, <1>5, <1>6 DEF Conserved
<1>8. SavedCounts /\ UnmarkedIsLast
  BY <1>1, <1>3 DEF SavedCounts, UnmarkedIsLast
<1> QED BY <1>1, <1>3, <1>4, <1>7, <1>8, InvIsSound

LEMMA TickKeeps == FurnaceInv /\ Tick => FurnaceInv'
<1> SUFFICES ASSUME FurnaceInv, Tick PROVE FurnaceInv'
  OBVIOUS
<1> DEFINE after == Smelt(Burn(block), block.flame)
<1>1. /\ Sound(block) /\ Sound(saved) /\ UnmarkedIsLast /\ Conserved /\ SavedCounts /\ HandsFit
  BY InvIsSound
<1>2. /\ Sound(after.b) /\ after.marks \in BOOLEAN /\ (~after.marks => Unmarked(block, after.b))
      /\ Balanced(block, after.b)
  BY <1>1, SmeltSound
<1>3. /\ block' = after.b /\ saved' = saved /\ outside' = outside /\ away' = away /\ lost' = lost
      /\ dirty' = (dirty \/ after.marks \/ after.b.type # block.type)
      /\ unmarked' = IF dirty' THEN 0 ELSE unmarked
  BY DEF Tick, Marks, playersVars
<1> HIDE DEF after
<1>4. HandsFit'
  BY <1>1, <1>3 DEF HandsFit
<1>5. /\ Inside(block) \in Nat /\ Inside(block') \in Nat /\ Inside(saved) \in Nat
      /\ block.free \in Nat /\ block'.free \in Nat /\ saved.made \in Nat
      /\ Inside(block') + block.free = Inside(block) + block'.free
  BY <1>1, <1>2, <1>3, InsideType, FurnaceFields DEF Sound, Balanced
<1>6. Conserved'
  <2>3. Inside(block') + Tally(away) + Tally(outside) + lost = Tally(Supply) + block'.free
    BY <1>5, AccountNumbers
  <2> QED BY <1>3, <2>3 DEF Conserved
<1>7. CASE dirty'
  BY <1>1, <1>2, <1>3, <1>4, <1>6, <1>7, InvIsSound DEF SavedCounts, UnmarkedIsLast
<1>8. CASE ~dirty'
  <2>1. ~dirty /\ Unmarked(block, block') /\ unmarked' = unmarked
    BY <1>2, <1>3, <1>8
  <2>2. UnmarkedIsLast'
    BY <1>1, <1>3, <1>5, <2>1 DEF UnmarkedIsLast, Unmarked
  <2>3. block'.free = block.free
    BY <2>1 DEF Unmarked
  <2>4. Inside(block') = Inside(block)
    BY <1>5, <2>3
  <2>5. SavedCounts'
    BY <1>1, <1>3, <1>8, <2>1, <2>4 DEF SavedCounts
  <2> QED BY <1>1, <1>2, <1>3, <1>4, <1>6, <2>2, <2>5, InvIsSound
<1> QED BY <1>7, <1>8

LEMMA OpenKeeps == FurnaceInv /\ Open => FurnaceInv'
<1> SUFFICES ASSUME FurnaceInv, Open PROVE FurnaceInv'
  OBVIOUS
<1>1. /\ Sound(block) /\ Sound(saved) /\ UnmarkedIsLast /\ Conserved /\ SavedCounts /\ HandsFit
      /\ block \in Furnaces
  BY InvIsSound DEF Sound
<1>2. /\ block' = [block EXCEPT !.open = TRUE] /\ saved' = saved /\ dirty' = dirty
      /\ outside' = outside /\ away' = away /\ lost' = lost /\ unmarked' = unmarked
      /\ block.type # "air"
  BY DEF Open, playersVars
<1>3. /\ block' \in Furnaces /\ block'.slot = block.slot /\ block'.flame = block.flame
      /\ block'.progress = block.progress /\ block'.ticks = block.ticks
      /\ block'.smelted = block.smelted /\ block'.burnt = block.burnt /\ block'.made = block.made
      /\ block'.heat = block.heat /\ block'.type # "air" /\ block'.free = block.free
  BY <1>1, <1>2 DEF Furnaces
<1>4. Sound(block')
  BY <1>1, <1>3 DEF Sound, Paid, SmeltFits, AirIsEmpty
<1>5. UnmarkedIsLast' /\ Conserved' /\ SavedCounts' /\ HandsFit'
  BY <1>1, <1>2, <1>3 DEF UnmarkedIsLast, Conserved, SavedCounts, Inside, HandsFit
<1> QED BY <1>1, <1>2, <1>4, <1>5, InvIsSound

LEMMA TakeKeeps ==
  ASSUME NEW s \in Slots
  PROVE  FurnaceInv /\ TakeItem(s) => FurnaceInv'
<1> SUFFICES ASSUME FurnaceInv, TakeItem(s) PROVE FurnaceInv'
  OBVIOUS
<1>1. /\ Sound(block) /\ Sound(saved) /\ HandsFit /\ Conserved
      /\ dirty' = TRUE /\ unmarked' = 0 /\ saved' = saved /\ outside' = outside
  BY InvIsSound DEF TakeItem, Marks
<1>2. SUFFICES Sound(block') /\ Conserved' /\ HandsFit'
  BY <1>1, InvIsSound DEF UnmarkedIsLast, SavedCounts
<1>3. CASE ~(block.open /\ block.slot[s] # Empty)
  <2>1. block' = block /\ away' = away /\ lost' = lost
    BY <1>3 DEF TakeItem
  <2> QED BY <1>1, <2>1 DEF Conserved, HandsFit
<1>4. CASE block.open /\ block.slot[s] # Empty
  <2> DEFINE i == block.slot[s].item
             p == <<s, i>>
  <2>1. /\ block' = TakeOne(block, s)
        /\ \/ away' = [away EXCEPT ![p] = @ + 1] /\ lost' = lost
           \/ away' = away /\ lost' = lost + 1
    BY <1>4 DEF TakeItem
  <2>2. i \in Items
    BY <1>1, <1>4, FurnaceFields DEF Sound, MaybeStack, Stack
  <2>3. p \in Hands
    BY <2>2 DEF Hands
  <2> HIDE DEF i, p
  <2>4. Sound(block') /\ Inside(block') = Inside(block) - 1 /\ block'.free = block.free
    BY <1>1, <1>4, <2>1, TakeOneSound
  <2>5. CASE away' = [away EXCEPT ![p] = @ + 1] /\ lost' = lost
    <3>1. Adds(away, away', p, 1)
      BY <1>1, <2>3, <2>5 DEF Adds, HandsFit
    <3>2. away' \in [Hands -> Nat] /\ Tally(away') = Tally(away) + 1
      BY <1>1, <2>3, <3>1, HandsFinite, TallyAdds DEF HandsFit
    <3>3. Inside(block') + Tally(away') + Tally(outside) + lost = Tally(Supply) + block'.free
      BY <2>4, <3>2, AccountNumbers
    <3> QED BY <1>1, <2>4, <2>5, <3>2, <3>3 DEF Conserved, HandsFit
  <2>6. CASE away' = away /\ lost' = lost + 1
    <3>1. Inside(block') + Tally(away) + Tally(outside) + lost' = Tally(Supply) + block'.free
      BY <2>4, <2>6, AccountNumbers
    <3>2. lost' \in Nat
      BY <2>6, AccountNumbers
    <3> QED BY <1>1, <2>4, <2>6, <3>1, <3>2 DEF Conserved, HandsFit
  <2> QED BY <2>1, <2>5, <2>6
<1> QED BY <1>3, <1>4

LEMMA PutKeeps ==
  ASSUME NEW s \in Slots, NEW i \in Items
  PROVE  FurnaceInv /\ PutItem(i, s) => FurnaceInv'
<1> SUFFICES ASSUME FurnaceInv, PutItem(i, s) PROVE FurnaceInv'
  OBVIOUS
<1> DEFINE m == MergeAll(block.slot[s], [item |-> i, qty |-> 1])
           fits == block.open /\ FitsInto([item |-> i, qty |-> 1], block.slot[s])
           gone == outside' = [outside EXCEPT ![i] = @ - 1]
<1>1. /\ Sound(block) /\ Sound(saved) /\ UnmarkedIsLast /\ SavedCounts /\ HandsFit /\ Conserved
      /\ block.slot[s] \in MaybeStack /\ Fits(block.slot[s])
  BY InvIsSound, FurnaceFields DEF Sound
<1>2. outside[i] > 0 /\ saved' = saved /\ away' = away
  BY DEF PutItem
<1>3. ASSUME gone PROVE outside' \in [Items -> Nat] /\ Tally(outside') = Tally(outside) - 1
  <2>1. Spends(outside, outside', i, 1)
    BY <1>1, <1>2, <1>3 DEF Spends, HandsFit
  <2> QED BY <1>1, <2>1, HandsFinite, TallyTakes DEF HandsFit
<1>4. CASE /\ fits /\ gone
           /\ block' = [block EXCEPT !.slot[s] = MergeAll(@, [item |-> i, qty |-> 1])]
           /\ Marks(TRUE) /\ lost' = lost
  <2>1. dirty' = TRUE /\ unmarked' = 0
    BY <1>4 DEF Marks
  <2>2. m \in MaybeStack /\ Fits(m) /\ m.qty = block.slot[s].qty + 1
    BY <1>1, <1>4, MergeAllFits
  <2>3. SlotBecomes(block, block', s, m)
    BY <1>1, <1>4 DEF SlotBecomes, Sound, Furnaces
  <2> HIDE DEF m
  <2>4. /\ Sound(block') /\ Inside(block') \in Nat /\ block.slot[s].qty \in Nat /\ m.qty \in Nat
        /\ Inside(block') + block.slot[s].qty = Inside(block) + m.qty
        /\ block'.free = block.free
    BY <1>1, <1>4, <2>2, <2>3, SlotSound
  <2>5. Inside(block') + Tally(away) + Tally(outside') + lost = Tally(Supply) + block'.free
    BY <1>3, <1>4, <2>2, <2>4, AccountNumbers
  <2>6. Conserved' /\ HandsFit'
    BY <1>1, <1>2, <1>3, <1>4, <2>1, <2>5 DEF Conserved, HandsFit
  <2> QED BY <1>1, <1>2, <2>1, <2>4, <2>6, InvIsSound DEF UnmarkedIsLast, SavedCounts
<1>5. CASE Marks(TRUE) /\ block' = block /\ outside' = outside /\ lost' = lost
  <2>1. dirty' = TRUE /\ unmarked' = 0
    BY <1>5 DEF Marks
  <2> QED BY <1>1, <1>2, <1>5, <2>1, InvIsSound
          DEF UnmarkedIsLast, SavedCounts, Conserved, HandsFit
<1>6. CASE gone /\ lost' = lost + 1 /\ block' = block /\ (Marks(FALSE) \/ Marks(TRUE))
  <2>1. Inside(block) + Tally(away) + Tally(outside') + lost' = Tally(Supply) + block.free
    BY <1>3, <1>6, AccountNumbers
  <2>2. \/ dirty' = TRUE /\ unmarked' = 0
        \/ dirty' = dirty /\ unmarked' = IF dirty THEN 0 ELSE unmarked
    BY <1>1, <1>6 DEF Marks, HandsFit
  <2>5. lost' \in Nat /\ unmarked' \in Nat
    BY <1>6, <2>2, AccountNumbers
  <2>6. dirty' \in BOOLEAN
    BY <1>1, <2>2 DEF HandsFit
  <2>3. Conserved' /\ HandsFit'
    BY <1>1, <1>2, <1>3, <1>6, <2>1, <2>5, <2>6 DEF Conserved, HandsFit
  <2>4. UnmarkedIsLast' /\ SavedCounts'
    BY <1>1, <1>2, <1>6, <2>2 DEF UnmarkedIsLast, SavedCounts
  <2> QED BY <1>1, <1>2, <1>6, <2>3, <2>4, InvIsSound
<1> QED BY <1>4, <1>5, <1>6 DEF PutItem

\* Between hands and inventories nothing is made or lost.
LEMMA HandKeeps ==
  ASSUME NEW s \in Slots, NEW i \in Items
  PROVE  FurnaceInv /\ (Keep(i, s) \/ Join(i, s)) => FurnaceInv'
<1> SUFFICES ASSUME FurnaceInv, Keep(i, s) \/ Join(i, s) PROVE FurnaceInv'
  OBVIOUS
<1> DEFINE p == <<s, i>>
<1>1. /\ Sound(block) /\ Sound(saved) /\ UnmarkedIsLast /\ SavedCounts /\ HandsFit
      /\ block' = block /\ saved' = saved /\ dirty' = dirty /\ unmarked' = unmarked /\ lost' = lost
  BY InvIsSound DEF Keep, Join
<1>2. p \in Hands
  BY DEF Hands
<1>3. CASE Keep(i, s)
  <2>1. /\ away[p] > 0 /\ away' = [away EXCEPT ![p] = @ - 1]
        /\ outside' = [outside EXCEPT ![i] = @ + 1]
    BY <1>3 DEF Keep
  <2> HIDE DEF p
  <2>2. Spends(away, away', p, 1) /\ Adds(outside, outside', i, 1)
    BY <1>1, <1>2, <2>1 DEF Spends, Adds, HandsFit
  <2>3. away' \in [Hands -> Nat] /\ Tally(away') = Tally(away) - 1
    BY <1>1, <1>2, <2>2, HandsFinite, TallyTakes DEF HandsFit
  <2>4. outside' \in [Items -> Nat] /\ Tally(outside') = Tally(outside) + 1
    BY <1>1, <2>2, HandsFinite, TallyAdds DEF HandsFit
  <2>5. Inside(block) + Tally(away') + Tally(outside') + lost = Tally(Supply) + block.free
    BY <2>3, <2>4, AccountNumbers
  <2> QED BY <1>1, <2>3, <2>4, <2>5, InvIsSound
          DEF Conserved, HandsFit, UnmarkedIsLast, SavedCounts
<1>4. CASE Join(i, s)
  <2>1. /\ outside[i] > 0 /\ away' = [away EXCEPT ![p] = @ + 1]
        /\ outside' = [outside EXCEPT ![i] = @ - 1]
    BY <1>4 DEF Join
  <2> HIDE DEF p
  <2>2. Adds(away, away', p, 1) /\ Spends(outside, outside', i, 1)
    BY <1>1, <1>2, <2>1 DEF Spends, Adds, HandsFit
  <2>3. away' \in [Hands -> Nat] /\ Tally(away') = Tally(away) + 1
    BY <1>1, <1>2, <2>2, HandsFinite, TallyAdds DEF HandsFit
  <2>4. outside' \in [Items -> Nat] /\ Tally(outside') = Tally(outside) - 1
    BY <1>1, <2>2, HandsFinite, TallyTakes DEF HandsFit
  <2>5. Inside(block) + Tally(away') + Tally(outside') + lost = Tally(Supply) + block.free
    BY <2>3, <2>4, AccountNumbers
  <2> QED BY <1>1, <2>3, <2>4, <2>5, InvIsSound
          DEF Conserved, HandsFit, UnmarkedIsLast, SavedCounts
<1> QED BY <1>3, <1>4

\* A return that does not mark the chunk puts into the slot what is counted as unmarked.
LEMMA GiveBackKeeps ==
  ASSUME NEW s \in Slots, NEW i \in Items, NEW n \in Nat, n # 0
  PROVE  FurnaceInv /\ GiveBack(i, n, s) => FurnaceInv'
<1> SUFFICES ASSUME FurnaceInv, GiveBack(i, n, s) PROVE FurnaceInv'
  OBVIOUS
<1> DEFINE p == <<s, i>>
           o == [item |-> i, qty |-> n]
           m == Merge(block.slot[s], o)
           left == IF block.open THEN m.left.qty ELSE n
<1>1. /\ Sound(block) /\ Sound(saved) /\ UnmarkedIsLast /\ SavedCounts /\ HandsFit
      /\ block.slot[s] \in MaybeStack /\ Fits(block.slot[s])
  BY InvIsSound, FurnaceFields DEF Sound
<1>2. p \in Hands /\ o \in Stack /\ o.qty = n
  BY DEF Stack, Hands
<1>3. /\ n <= away[p] /\ Fits(o) /\ away' = [away EXCEPT ![p] = @ - n]
      /\ saved' = saved /\ dirty' = dirty
      /\ \/ /\ block' = IF block.open THEN [block EXCEPT !.slot[s] = m.kept] ELSE block
            /\ unmarked' = IF dirty THEN 0 ELSE unmarked + (n - left)
            /\ \/ outside' = [outside EXCEPT ![i] = @ + left] /\ lost' = lost
               \/ left > 0 /\ lost' = lost + left /\ outside' = outside
         \/ lost' = lost + n /\ block' = block /\ unmarked' = unmarked /\ outside' = outside
  BY DEF GiveBack
<1>4. /\ m.kept \in MaybeStack /\ Fits(m.kept) /\ block.slot[s].qty \in Nat
      /\ m.left.qty \in Nat /\ m.kept.qty \in Nat /\ m.left.qty <= n
      /\ m.kept.qty + m.left.qty = block.slot[s].qty + n
  BY <1>1, <1>2, <1>3, MergeFits
<1>10. left = IF block.open THEN m.left.qty ELSE n
  OBVIOUS
<1> HIDE DEF p, o, m, left
<1>5. left \in Nat /\ left <= n /\ (block.open => left = m.left.qty) /\ (~block.open => left = n)
  BY <1>4, <1>10
<1>6. Spends(away, away', p, n)
  BY <1>1, <1>2, <1>3 DEF Spends, HandsFit
<1>7. away' \in [Hands -> Nat] /\ Tally(away') = Tally(away) - n
  BY <1>1, <1>2, <1>6, HandsFinite, TallyTakes DEF HandsFit
<1>8. CASE /\ block' = IF block.open THEN [block EXCEPT !.slot[s] = m.kept] ELSE block
           /\ unmarked' = IF dirty THEN 0 ELSE unmarked + (n - left)
           /\ \/ outside' = [outside EXCEPT ![i] = @ + left] /\ lost' = lost
              \/ left > 0 /\ lost' = lost + left /\ outside' = outside
  <2>1. /\ Sound(block') /\ Inside(block') \in Nat /\ block'.burnt = block.burnt
        /\ block'.free = block.free /\ block'.made = block.made /\ block'.smelted = block.smelted
        /\ Inside(block') + left = Inside(block) + n
    <3>1. CASE block.open
      <4>1. SlotBecomes(block, block', s, m.kept)
        BY <1>8, <3>1 DEF SlotBecomes
      <4>2. /\ Sound(block') /\ Inside(block') \in Nat /\ block'.burnt = block.burnt
            /\ block'.free = block.free /\ block'.made = block.made
            /\ block'.smelted = block.smelted /\ Inside(block) \in Nat
            /\ Inside(block') + block.slot[s].qty = Inside(block) + m.kept.qty
        BY <1>1, <1>4, <3>1, <4>1, SlotSound
      <4>3. Inside(block') + left = Inside(block) + n
        BY <1>2, <1>4, <1>5, <3>1, <4>2
      <4> QED BY <4>2, <4>3
    <3>2. CASE ~block.open
      <4>1. block' = block /\ left = n
        BY <1>5, <1>8, <3>2
      <4> QED BY <1>1, <1>2, <4>1, AccountNumbers
    <3> QED BY <3>1, <3>2
  <2>2. n - left \in Nat /\ Inside(block') = Inside(block) + (n - left)
    <3>1. Inside(block) \in Nat
      BY AccountNumbers
    <3> QED BY <1>5, <2>1, <3>1
  <2>3. /\ outside' \in [Items -> Nat] /\ lost' \in Nat /\ Tally(outside') \in Int
        /\ Tally(outside') + lost' = Tally(outside) + lost + left
    <3>1. CASE outside' = [outside EXCEPT ![i] = @ + left] /\ lost' = lost
      <4>1. Adds(outside, outside', i, left)
        BY <1>1, <3>1 DEF Adds, HandsFit
      <4>2. /\ outside' \in [Items -> Nat] /\ Tally(outside') \in Int
            /\ Tally(outside') = Tally(outside) + left
        BY <1>1, <1>5, <4>1, HandsFinite, TallyAdds DEF HandsFit
      <4> QED BY <1>5, <3>1, <4>2, AccountNumbers
    <3>2. CASE lost' = lost + left /\ outside' = outside
      BY <1>1, <1>5, <3>2, AccountNumbers DEF HandsFit
    <3> QED BY <1>8, <3>1, <3>2
  <2>4. Inside(block') + Tally(away') + Tally(outside') + lost' = Tally(Supply) + block'.free
    BY <1>2, <1>5, <1>7, <2>1, <2>2, <2>3, AccountNumbers
  <2>5. Conserved'
    BY <2>4 DEF Conserved
  <2>6. HandsFit'
    <3>1. unmarked' \in Nat
      BY <1>8, <2>2, AccountNumbers
    <3> QED BY <1>1, <1>3, <1>7, <2>3, <3>1 DEF HandsFit
  <2>7. UnmarkedIsLast'
    BY <1>1, <1>3, <2>1 DEF UnmarkedIsLast
  <2>8. SavedCounts'
    <3>1. CASE dirty
      BY <1>3, <1>8, <3>1 DEF SavedCounts
    <3>2. CASE ~dirty
      <4>1. unmarked' = unmarked + (n - left) /\ Inside(saved) + unmarked = Inside(block)
        BY <1>1, <1>8, <3>2 DEF SavedCounts
      <4>2. Inside(saved) + unmarked' = Inside(block')
        BY <2>2, <4>1, AccountNumbers
      <4> QED BY <1>3, <3>2, <4>2 DEF SavedCounts
    <3> QED BY <1>1, <3>1, <3>2 DEF HandsFit
  <2> QED BY <1>1, <1>3, <2>1, <2>5, <2>6, <2>7, <2>8, InvIsSound
<1>9. CASE lost' = lost + n /\ block' = block /\ unmarked' = unmarked /\ outside' = outside
  <2>1. Inside(block) + Tally(away') + Tally(outside) + lost' = Tally(Supply) + block.free
    BY <1>2, <1>7, <1>9, AccountNumbers
  <2>2. lost' \in Nat
    BY <1>2, <1>9, AccountNumbers
  <2>3. Conserved' /\ HandsFit'
    BY <1>1, <1>3, <1>7, <1>9, <2>1, <2>2 DEF Conserved, HandsFit
  <2>4. UnmarkedIsLast' /\ SavedCounts'
    BY <1>1, <1>3, <1>9 DEF UnmarkedIsLast, SavedCounts
  <2> QED BY <1>1, <1>3, <1>9, <2>3, <2>4, InvIsSound
<1> QED BY <1>3, <1>8, <1>9

LEMMA MapKeeps == FurnaceInv /\ (Dig \/ Place \/ Evict) => FurnaceInv'
<1> SUFFICES ASSUME FurnaceInv, Dig \/ Place \/ Evict PROVE FurnaceInv'
  OBVIOUS
<1>1. /\ Sound(block) /\ Sound(saved) /\ UnmarkedIsLast /\ SavedCounts /\ HandsFit /\ Conserved
  BY InvIsSound
<1>2. ASSUME block' \in {Fresh(block), [Fresh(block) EXCEPT !.type = "air"]},
             \A s \in Slots : block.slot[s] = Empty,
             dirty' = TRUE, unmarked' = 0, saved' = saved, outside' = outside, away' = away,
             lost' = lost
      PROVE  FurnaceInv'
  <2>1. block.burnt \in Nat /\ block.free \in Nat
    BY <1>1, FurnaceFields DEF Sound
  <2>2. Sound(block') /\ Inside(block') = block.burnt /\ block'.free = block.free
    BY <1>2, <2>1, NewFurnace
  <2>3. Inside(block) = block.burnt
    <3>1. \A s \in Slots : block.slot[s].qty = 0
      BY <1>2 DEF Empty
    <3> QED BY <2>1, <3>1 DEF Inside, Slots
  <2>4. Conserved' /\ SavedCounts' /\ UnmarkedIsLast' /\ HandsFit'
    BY <1>1, <1>2, <2>2, <2>3 DEF Conserved, SavedCounts, UnmarkedIsLast, HandsFit
  <2> QED BY <1>1, <1>2, <2>2, <2>4, InvIsSound
<1>3. CASE Dig
  BY <1>2, <1>3 DEF Dig, Marks, playersVars
<1>4. CASE Place
  <2>1. \A s \in Slots : block.slot[s] = Empty
    BY <1>1, <1>4 DEF Place, Sound, AirIsEmpty
  <2> QED BY <1>2, <1>4, <2>1 DEF Place, Marks, playersVars
<1>5. CASE Evict
  <2>1. Sound(saved') /\ Sound(block') /\ dirty' = FALSE /\ outside' = outside /\ away' = away
    BY <1>1, <1>5 DEF Evict
  <2>2. UnmarkedIsLast'
    BY <1>1, <1>5 DEF Evict, UnmarkedIsLast
  <2>3. /\ IF dirty THEN unmarked = 0 ELSE Inside(saved) + unmarked = Inside(block)
        /\ block.free = IF dirty THEN block.free ELSE saved.free
    BY <1>1 DEF SavedCounts, UnmarkedIsLast
  <2>4. CASE block' = block /\ unmarked' = unmarked /\ lost' = lost
    <3>1. Inside(saved') + unmarked' = Inside(block')
      BY <1>5, <2>3, <2>4, AccountNumbers DEF Evict
    <3>2. SavedCounts' /\ Conserved' /\ HandsFit'
      BY <1>1, <2>1, <2>4, <3>1 DEF SavedCounts, Conserved, HandsFit
    <3> QED BY <2>1, <2>2, <3>2, InvIsSound
  <2>5. CASE block' = saved' /\ unmarked' = 0 /\ lost' = lost + unmarked
    <3>1. Inside(block') \in Nat /\ Inside(block') + unmarked = Inside(block) /\ block'.free = block.free
      <4>1. CASE dirty
        BY <1>5, <2>3, <2>5, <4>1, AccountNumbers DEF Evict
      <4>2. CASE ~dirty
        BY <1>5, <2>3, <2>5, <4>2, AccountNumbers DEF Evict
      <4> QED BY <4>1, <4>2
    <3>2. Inside(block') + Tally(away) + Tally(outside) + lost' = Tally(Supply) + block'.free
      BY <2>5, <3>1, AccountNumbers
    <3>3. Inside(saved') + unmarked' = Inside(block')
      BY <2>5, <3>1
    <3>4. SavedCounts' /\ Conserved'
      BY <2>1, <3>2, <3>3 DEF SavedCounts, Conserved
    <3>5. HandsFit'
      <4>1. lost' \in Nat /\ unmarked' \in Nat
        BY <2>5, AccountNumbers
      <4> QED BY <1>1, <2>1, <4>1 DEF HandsFit
    <3> QED BY <2>1, <2>2, <3>4, <3>5, InvIsSound
  <2> QED BY <1>5, <2>4, <2>5 DEF Evict
<1> QED BY <1>3, <1>4, <1>5

LEMMA FurnaceNextKeeps == FurnaceInv /\ [FurnaceNext]_furnaceVars => FurnaceInv'
<1> SUFFICES ASSUME FurnaceInv, [FurnaceNext]_furnaceVars PROVE FurnaceInv'
  OBVIOUS
<1>1. CASE UNCHANGED furnaceVars
  BY <1>1 DEF furnaceVars, FurnaceInv, FurnaceTypeOK, UnmarkedIsLast, Conserved, SavedCounts
<1>2. CASE Tick \/ Open \/ Dig \/ Place \/ Evict
  BY <1>2, TickKeeps, OpenKeeps, MapKeeps
<1>3. CASE \E s \in Slots : TakeItem(s) \/ \E i \in Items : Uses(s, i)
  <2>1. PICK s \in Slots : TakeItem(s) \/ \E i \in Items : Uses(s, i)
    BY <1>3
  <2>2. CASE TakeItem(s)
    BY <2>2, TakeKeeps
  <2>3. CASE \E i \in Items : Uses(s, i)
    <3>1. PICK i \in Items : Uses(s, i)
      BY <2>3
    <3>2. CASE \E n \in 1 .. away[s, i] : GiveBack(i, n, s)
      <4> DEFINE p == <<s, i>>
      <4>1. PICK n : n \in 1 .. away[p] /\ GiveBack(i, n, s)
        BY <3>2
      <4>2. p \in Hands
        BY DEF Hands
      <4> HIDE DEF p
      <4>3. away[p] \in Nat
        BY <4>2, InvIsSound DEF HandsFit
      <4>4. n \in Nat /\ n # 0
        BY <4>1, <4>3
      <4> QED BY <4>1, <4>4, GiveBackKeeps
    <3> QED BY <3>1, <3>2, PutKeeps, HandKeeps DEF Uses
  <2> QED BY <2>1, <2>2, <2>3
<1> QED BY <1>1, <1>2, <1>3 DEF FurnaceNext
-----------------------------------------------------------------------------
(* The theorems                                                            *)

\* The inductive invariant: in memory and in the database the slots hold no more than a
\* stack, the flame pays for what was smelted and what is being smelted has a recipe; a smelt
\* that was not marked took the last of the input; and memory has more than the database by
\* what was returned to a slot without a mark (FurnaceTimerCallback, clear_if_transient).
THEOREM FurnaceInvariant == FurnaceSpec => []FurnaceInv
BY InitSound, FurnaceNextKeeps, PTL DEF FurnaceSpec

\* No slot ever holds more than a stack, in memory or in the database (furnace.rs, items.rs).
THEOREM FurnaceTypes == FurnaceSpec => []FurnaceTypeOK
<1>1. FurnaceInv => FurnaceTypeOK
  BY DEF FurnaceInv
<1> QED BY <1>1, FurnaceInvariant, PTL

\* What the furnace has made was paid for with flame, whatever players do with the input,
\* the fuel and the output in between (FurnaceTimerCallback::inline_call).
THEOREM SmeltsArePaidFor == FurnaceSpec => []HeatPaid
<1>1. FurnaceInv => HeatPaid
  BY DEF FurnaceInv, HeatPaid
<1> QED BY <1>1, FurnaceInvariant, PTL

\* Every item the players began with is in a slot, in a hand or outside, was burnt, or is lost,
\* by a call that failed, for lack of room, or in an eviction after it was returned unmarked;
\* and an item that is made of none is the result of an input that is not stackable.  Neither
\* a full output nor a change of slots in the middle of a smelt nor an eviction without the
\* unmarked part of a tick makes or destroys one (furnace.rs, inventory.rs).
THEOREM FurnaceConserves == FurnaceSpec => []Conserved
<1>1. FurnaceInv => Conserved
  BY DEF FurnaceInv
<1> QED BY <1>1, FurnaceInvariant, PTL

\* An eviction of a chunk that the callback forgot to mark undoes one finished smelt of the
\* furnace's work at most, and never a fuel that was lit, whatever was returned unmarked (the
\* early returns of FurnaceTimerCallback, clear_if_transient).
THEOREM EvictionsUndoOneSmelt == FurnaceSpec => []EvictionUndoesLittle
<1>1. FurnaceInv => EvictionUndoesLittle
  <2> SUFFICES ASSUME FurnaceInv, ~dirty
               PROVE  block.burnt = saved.burnt /\ block.made <= saved.made + 1
    BY DEF EvictionUndoesLittle
  <2>1. saved.made \in Nat
    BY InvIsSound, FurnaceFields DEF Sound
  <2> QED BY <2>1 DEF FurnaceInv, UnmarkedIsLast
<1> QED BY <1>1, FurnaceInvariant, PTL
-----------------------------------------------------------------------------
(***************************************************************************)
(* Proofs about BlockTypes, for any number of block types, variants and    *)
(* runs: a block of the map comes out of the database as the type that was *)
(* put down, as long as no run was made without that type, and extended    *)
(* data are never those of a block without a type.  Both rest on           *)
(* TypesInv: names and base ids belong to each other in what is saved and  *)
(* in what a run has registered, and the second contains the first.        *)
(***************************************************************************)
Assignments == [name : Plugins, base : Ids]
BlockType == [name : Plugins \cup {NoName}, unknown : BOOLEAN]
-----------------------------------------------------------------------------
(* The arithmetic of ids                                                   *)

\* BlockId: the variant does not show in the index.
LEMMA IndexOfHandle ==
  ASSUME NEW k \in Nat, NEW v \in 0 .. Variants - 1
  PROVE  Index(BaseOfIndex(k) + v) = k /\ Index(BaseOfIndex(k)) = k
<1>1. (k * Variants + v) \div Variants = k
  BY TypesAssumption
<1>2. (k * Variants) \div Variants = k
  BY TypesAssumption
<1> QED BY <1>1, <1>2 DEF Index, BaseOfIndex

\* An index below MaxTypes has ids in the range, and an id in the range such an index.
LEMMA HandleInRange ==
  ASSUME NEW k \in Nat, k < MaxTypes, NEW v \in 0 .. Variants - 1
  PROVE  BaseOfIndex(k) + v \in Ids /\ BaseOfIndex(k) \in Ids
<1>1. k * Variants + Variants <= MaxTypes * Variants
  BY TypesAssumption
<1>2. k * Variants \in Nat /\ MaxTypes * Variants \in Nat
  BY TypesAssumption
<1>3. k * Variants + v \in 0 .. MaxTypes * Variants - 1 /\ k * Variants \in 0 .. MaxTypes * Variants - 1
  BY <1>1, <1>2, TypesAssumption
<1> QED BY <1>3 DEF BaseOfIndex, Ids

LEMMA IndexInRange ==
  ASSUME NEW b \in Ids
  PROVE  Index(b) \in Nat /\ Index(b) < MaxTypes /\ BaseOfIndex(Index(b)) \in Ids
<1>1. b \div Variants \in Nat /\ b \div Variants < MaxTypes
  <2>1. b \in 0 .. MaxTypes * Variants - 1 /\ b \in Nat
    BY TypesAssumption DEF Ids
  <2>2. b \div Variants \in Nat
    BY <2>1, TypesAssumption
  <2>3. b \div Variants < MaxTypes
    BY <2>1, TypesAssumption
  <2> QED BY <2>2, <2>3
<1>2. 0 \in 0 .. Variants - 1
  BY TypesAssumption
<1> QED BY <1>1, <1>2, HandleInRange DEF Index

\* Different indexes have different base ids.
LEMMA BaseIsInjective ==
  ASSUME NEW j \in Nat, NEW k \in Nat, BaseOfIndex(j) = BaseOfIndex(k)
  PROVE  j = k
<1>1. 0 \in 0 .. Variants - 1
  BY TypesAssumption
<1> QED BY <1>1, IndexOfHandle

\* The order of indexes, for the greatest of them.
Less == {p \in Nat \X Nat : p[1] < p[2]}

\* A set of indexes with a bound has a greatest, and Max is that one.
LEMMA MaxOfIndexes ==
  ASSUME NEW n \in Nat, NEW T \in SUBSET (0 .. n), T # {}
  PROVE  Max(T) \in T /\ \A j \in T : j <= Max(T)
<1> DEFINE U == {n - i : i \in T}
<1>1. U \subseteq Nat /\ U # {}
  <2>1. ASSUME NEW i \in 0 .. n PROVE n - i \in Nat
    OBVIOUS
  <2>2. \A i \in T : i \in 0 .. n
    OBVIOUS
  <2>3. U \subseteq Nat
    BY <2>1, <2>2
  <2>4. PICK i \in T : TRUE
    OBVIOUS
  <2>5. n - i \in U
    BY <2>4
  <2> QED BY <2>3, <2>5
<1>2. IsWellFoundedOn(Less, Nat)
  <2>1. Less = OpToRel(<, Nat)
    BY DEF Less, OpToRel
  <2> QED BY <2>1, NatLessThanWellFounded
<1>3. PICK m \in U : \A y \in U : ~(<<y, m>> \in Less)
  <2> HIDE DEF U
  <2> QED BY <1>1, <1>2, WFMin
<1>4. PICK i \in T : m = n - i
  OBVIOUS
<1>5. ASSUME NEW j \in T PROVE i >= j
  <2>1. n - j \in U
    OBVIOUS
  <2>2. ~(n - j < m)
    BY <1>1, <1>3, <2>1 DEF Less
  <2>3. i \in Int /\ j \in Int
    OBVIOUS
  <2>4. ~(n - j < n - i)
    BY <1>4, <2>2
  <2> HIDE DEF U
  <2> QED BY <2>3, <2>4
<1>6. Max(T) \in T /\ \A j \in T : Max(T) >= j
  BY <1>5 DEF Max
<1> QED BY <1>6
-----------------------------------------------------------------------------
(* Registered types                                                        *)

\* The parts of the type invariant as the proofs use them.
LEMMA Shapes ==
  ASSUME TypesInv
  PROVE  /\ types \in Seq(BlockType) /\ Len(types) \in Nat /\ Len(types) <= MaxTypes
         /\ baseOf \in [Plugins -> Ids \cup {NoId}] /\ NoId \notin Ids
         /\ assignments # NoAssignments => assignments \subseteq Assignments
         /\ chunk \in Places \cup {NoChunk, Failed} /\ stored \in Places \cup {NoChunk}
         /\ NoChunk \notin Places /\ Failed \notin Places /\ NoChunk # Failed
         /\ \A as \in SUBSET Assignments : as # NoAssignments
BY TypesAssumption DEF TypesInv, TypesTypeOK, BlockType, Assignments, Ids, Places

\* Who has a number has an index with a type.
LEMMA NumberHasType ==
  ASSUME TypesInv, NEW n \in Plugins, baseOf[n] # NoId
  PROVE  /\ baseOf[n] \in Ids /\ Index(baseOf[n]) \in Nat /\ Index(baseOf[n]) < Len(types)
         /\ Index(baseOf[n]) + 1 \in 1 .. Len(types)
         /\ baseOf[n] = BaseOfIndex(Index(baseOf[n]))
<1>1. baseOf[n] \in Ids /\ Len(types) \in Nat
  BY Shapes
<1>2. Index(baseOf[n]) \in Nat
  BY <1>1, IndexInRange
<1>3. Index(baseOf[n]) < Len(types) /\ baseOf[n] = BaseOfIndex(Index(baseOf[n]))
  BY DEF TypesInv, NamesFit, Known
<1> QED BY <1>1, <1>2, <1>3

\* A registered type stands at the index of its number.
LEMMA RegisteredStands ==
  ASSUME TypesInv, NEW n \in Registered
  PROVE  /\ n \in Plugins /\ baseOf[n] # NoId /\ baseOf[n] \in Ids
         /\ Known(Index(baseOf[n])) /\ TypeAt(baseOf[n]) = [name |-> n, unknown |-> FALSE]
         /\ baseOf[n] = BaseOfIndex(Index(baseOf[n])) /\ Index(baseOf[n]) \in Nat
<1>1. n \in Plugins
  BY DEF Registered
<1>2. PICK i \in 1 .. Len(types) : types[i] = [name |-> n, unknown |-> FALSE]
  BY DEF Registered
<1>3. Len(types) \in Nat /\ Len(types) <= MaxTypes /\ NoId \notin Ids /\ MaxTypes \in Nat
  BY Shapes, TypesAssumption
<1>4. baseOf[n] = BaseOfIndex(i - 1)
  <2>1. types[i] # Placeholder
    BY <1>2 DEF Placeholder
  <2>2. PICK m \in Plugins : types[i] = [name |-> m, unknown |-> FALSE] /\ baseOf[m] = BaseOfIndex(i - 1)
    BY <2>1 DEF TypesInv, TypesFit
  <2> QED BY <1>2, <2>2
<1>5. i - 1 \in Nat /\ i - 1 < MaxTypes /\ i - 1 < Len(types) /\ 0 \in 0 .. Variants - 1
  BY <1>3, TypesAssumption
<1>6. Index(baseOf[n]) = i - 1 /\ baseOf[n] \in Ids
  BY <1>4, <1>5, IndexOfHandle, HandleInRange
<1> QED BY <1>1, <1>2, <1>3, <1>4, <1>5, <1>6 DEF Known, TypeAt
-----------------------------------------------------------------------------
(* The start of a run                                                      *)

LEMMA TypesInitFits == TypesInit => TypesInv
<1> SUFFICES ASSUME TypesInit PROVE TypesInv
  OBVIOUS
<1> USE DEF TypesInit
<1>1. TypesTypeOK
  <2>1. types \in Seq([name : Plugins \cup {NoName}, unknown : BOOLEAN]) /\ Len(types) = 0
    OBVIOUS
  <2> QED BY <2>1, TypesAssumption DEF TypesTypeOK
<1>2. SavedFits /\ NamesFit /\ RunFits
  BY DEF SavedFits, NamesFit, RunFits
<1>3. TypesFit
  BY DEF TypesFit
<1>4. BlocksFit /\ DataHasType
  BY DEF BlocksFit, DataHasType, InMemory
<1> QED BY <1>1, <1>2, <1>3, <1>4 DEF TypesInv

\* What no start of a run touches, and what it leaves of the blocks.
LEMMA StartFrame ==
  ASSUME TypesInv, UNCHANGED <<assignments, dropped, stored>>, chunk' = NoChunk
  PROVE  SavedFits' /\ BlocksFit' /\ DataHasType'
BY DEF TypesInv, SavedFits, BlocksFit, DataHasType, InMemory, Remembered

\* from_proto: a placeholder under every number that is saved.
LEMMA FromProtoFits ==
  ASSUME TypesInv, assignments # NoAssignments, FromProto(assignments)
  PROVE  /\ types' \in Seq(BlockType) /\ Len(types') <= MaxTypes
         /\ baseOf' \in [Plugins -> Ids \cup {NoId}]
         /\ NamesFit' /\ TypesFit' /\ \A a \in assignments : baseOf'[a.name] = a.base
<1> DEFINE T == {Index(a.base) : a \in assignments} \cup {0}
           N == Max(T) + 1
<1>1. assignments \subseteq Assignments /\ NoId \notin Ids
  BY Shapes
<1>2. \A a \in assignments : a.base \in Ids /\ a.name \in Plugins /\ Index(a.base) \in 0 .. MaxTypes - 1
  <2> SUFFICES ASSUME NEW a \in assignments
               PROVE  a.base \in Ids /\ a.name \in Plugins /\ Index(a.base) \in 0 .. MaxTypes - 1
    OBVIOUS
  <2>1. a.base \in Ids /\ a.name \in Plugins
    BY <1>1 DEF Assignments
  <2> QED BY <2>1, IndexInRange, TypesAssumption
<1>3. T \subseteq 0 .. MaxTypes - 1 /\ T # {} /\ MaxTypes - 1 \in Nat
  BY <1>2, TypesAssumption
<1>4. Max(T) \in 0 .. MaxTypes - 1 /\ \A j \in T : j <= Max(T)
  <2> HIDE DEF T
  <2>1. Max(T) \in T /\ \A j \in T : j <= Max(T)
    BY <1>3, MaxOfIndexes
  <2> QED BY <1>3, <2>1
<1>5. N \in Nat /\ N <= MaxTypes /\ \A a \in assignments : Index(a.base) < N /\ Index(a.base) \in Nat
  <2>1. \A a \in assignments : Index(a.base) \in T
    OBVIOUS
  <2> HIDE DEF T
  <2>2. \A a \in assignments : Index(a.base) <= Max(T) /\ Index(a.base) \in Nat
    BY <1>2, <1>4, <2>1
  <2> QED BY <1>4, <2>2, TypesAssumption
<1>6. types' = [i \in 1 .. N |-> Placeholder]
  BY DEF FromProto
<1>7. baseOf' = [n \in Plugins |-> IF \E a \in assignments : a.name = n
                                   THEN (CHOOSE a \in assignments : a.name = n).base ELSE NoId]
  BY DEF FromProto
<1> HIDE DEF N
<1>8. types' \in Seq(BlockType) /\ Len(types') = N
  <2>1. Placeholder \in BlockType
    BY DEF Placeholder, BlockType
  <2> QED BY <1>5, <1>6, <2>1
<1>9. ASSUME NEW a \in assignments PROVE baseOf'[a.name] = a.base
  <2>1. \A b \in assignments : b.name = a.name => b.base = a.base
    BY DEF TypesInv, SavedFits
  <2>2. a.name \in Plugins
    BY <1>2
  <2> DEFINE c == CHOOSE b \in assignments : b.name = a.name
  <2>3. c \in assignments /\ c.name = a.name
    OBVIOUS
  <2>4. baseOf'[a.name] = c.base
    BY <1>7, <2>2
  <2> HIDE DEF c
  <2> QED BY <2>1, <2>3, <2>4
<1>10. ASSUME NEW n \in Plugins, baseOf'[n] # NoId
       PROVE  \E a \in assignments : a.name = n /\ baseOf'[n] = a.base
  <2>1. PICK a \in assignments : a.name = n
    BY <1>7, <1>10
  <2> QED BY <2>1, <1>9
<1>11. baseOf' \in [Plugins -> Ids \cup {NoId}]
  <2>1. \A n \in Plugins : baseOf'[n] \in Ids \cup {NoId}
    BY <1>2, <1>10
  <2>2. baseOf' = [n \in Plugins |-> baseOf'[n]]
    BY <1>7
  <2> QED BY <2>1, <2>2
<1>12. NamesFit'
  <2> SUFFICES ASSUME NEW n \in Plugins, baseOf'[n] # NoId
               PROVE  /\ baseOf'[n] = BaseOfIndex(Index(baseOf'[n])) /\ Index(baseOf'[n]) < Len(types')
                      /\ \A m \in Plugins : baseOf'[m] = baseOf'[n] => m = n
    BY DEF NamesFit, Known, BaseOfIndex, Index
  <2>1. PICK a \in assignments : a.name = n /\ baseOf'[n] = a.base
    BY <1>10
  <2>2. a.base = BaseOfIndex(Index(a.base))
    BY DEF TypesInv, SavedFits
  <2>3. ASSUME NEW m \in Plugins, baseOf'[m] = baseOf'[n] PROVE m = n
    <3>1. PICK b \in assignments : b.name = m /\ baseOf'[m] = b.base
      BY <1>10, <2>3
    <3>2. a.name = b.name
      BY <2>1, <2>3, <3>1 DEF TypesInv, SavedFits
    <3> QED BY <2>1, <3>1, <3>2
  <2> QED BY <1>5, <1>8, <2>1, <2>2, <2>3
<1>13. TypesFit'
  <2> SUFFICES ASSUME NEW i \in 1 .. Len(types') PROVE types'[i] = Placeholder
    BY DEF TypesFit, Placeholder
  <2> QED BY <1>6, <1>8
<1> QED BY <1>5, <1>8, <1>9, <1>11, <1>12, <1>13

\* create_or_load.
LEMMA CreateOrLoadKeeps == TypesInv /\ CreateOrLoad => TypesInv'
<1> SUFFICES ASSUME TypesInv, CreateOrLoad PROVE TypesInv'
  OBVIOUS
<1>1. /\ run' = "registering" /\ runs' \in 0 .. MaxRuns /\ assignments' = assignments /\ dropped' = dropped
      /\ stored' = stored /\ chunk' = chunk /\ chunk = NoChunk
  <2>1. runs' = runs + 1 /\ runs < MaxRuns /\ runs \in 0 .. MaxRuns
    BY DEF CreateOrLoad, TypesInv, TypesTypeOK
  <2>2. runs' \in 0 .. MaxRuns
    BY <2>1, TypesAssumption
  <2> QED BY <2>2 DEF CreateOrLoad, blockVars, TypesInv, RunFits
<1>2. /\ types' \in Seq(BlockType) /\ Len(types') <= MaxTypes
      /\ baseOf' \in [Plugins -> Ids \cup {NoId}]
      /\ NamesFit' /\ TypesFit'
      /\ assignments # NoAssignments => \A a \in assignments : baseOf'[a.name] = a.base
  <2>1. CASE assignments = NoAssignments
    <3>1. types' = <<>> /\ baseOf' = [n \in Plugins |-> NoId]
      BY <2>1 DEF CreateOrLoad
    <3>2. Len(types') = 0 /\ types' \in Seq(BlockType)
      BY <3>1
    <3> QED BY <2>1, <3>1, <3>2, TypesAssumption DEF NamesFit, TypesFit
  <2>2. CASE assignments # NoAssignments
    BY <2>2, FromProtoFits DEF CreateOrLoad
  <2> QED BY <2>1, <2>2
<1>3. TypesTypeOK'
  BY <1>1, <1>2 DEF TypesInv, TypesTypeOK, BlockType
<1>4. RunFits'
  BY <1>1, <1>2 DEF RunFits
<1> QED BY <1>1, <1>2, <1>3, <1>4, StartFrame DEF TypesInv

\* register_block.
LEMMA RegisterKeeps ==
  ASSUME NEW n \in Plugins
  PROVE  TypesInv /\ RegisterBlock(n) => TypesInv'
<1> SUFFICES ASSUME TypesInv, RegisterBlock(n) PROVE TypesInv'
  OBVIOUS
<1> DEFINE t == [name |-> n, unknown |-> FALSE]
<1>1. /\ run = "registering" /\ run' = run /\ runs' = runs /\ assignments' = assignments
      /\ dropped' = dropped /\ stored' = stored /\ chunk' = chunk /\ chunk = NoChunk
  BY DEF RegisterBlock, blockVars, TypesInv, RunFits
<1>2. /\ types \in Seq(BlockType) /\ Len(types) \in Nat /\ Len(types) <= MaxTypes
      /\ baseOf \in [Plugins -> Ids \cup {NoId}] /\ NoId \notin Ids /\ t \in BlockType
  BY Shapes DEF BlockType
<1>3. /\ types' \in Seq(BlockType) /\ Len(types') <= MaxTypes
      /\ baseOf' \in [Plugins -> Ids \cup {NoId}]
      /\ NamesFit' /\ TypesFit' /\ \A m \in Plugins : baseOf[m] # NoId => baseOf'[m] = baseOf[m]
  <2>1. CASE /\ baseOf[n] # NoId
             /\ types' = [types EXCEPT ![Index(baseOf[n]) + 1] = t] /\ baseOf' = baseOf
    <3> DEFINE k == Index(baseOf[n])
    <3>1. k \in Nat /\ k + 1 \in 1 .. Len(types) /\ baseOf[n] = BaseOfIndex(k)
      BY <2>1, NumberHasType
    <3> HIDE DEF k, t
    <3>2. types' = [types EXCEPT ![k + 1] = t]
      BY <2>1 DEF k, t
    <3>3. types' \in Seq(BlockType) /\ Len(types') = Len(types)
      BY <1>2, <3>1, <3>2
    <3>4. \A i \in 1 .. Len(types) : types'[i] = IF i = k + 1 THEN t ELSE types[i]
      BY <1>2, <3>1, <3>2
    <3>5. NamesFit'
      BY <2>1, <3>3 DEF NamesFit, TypesInv, Known, Index, BaseOfIndex
    <3>6. TypesFit'
      <4> SUFFICES ASSUME NEW i \in 1 .. Len(types)
                   PROVE  \/ types'[i] = Placeholder
                          \/ \E m \in Plugins : types'[i] = [name |-> m, unknown |-> FALSE]
                                               /\ baseOf[m] = BaseOfIndex(i - 1)
        BY <2>1, <3>3 DEF TypesFit, Placeholder, BaseOfIndex
      <4>1. CASE i = k + 1
        <5>1. i - 1 = k
          BY <3>1, <4>1
        <5>2. types'[i] = t
          BY <3>4, <4>1
        <5>3. types'[i] = [name |-> n, unknown |-> FALSE]
          BY <5>2 DEF t
        <5> QED BY <3>1, <5>1, <5>3
      <4>2. CASE i # k + 1
        BY <3>4, <4>2 DEF TypesInv, TypesFit
      <4> QED BY <4>1, <4>2
    <3> QED BY <1>2, <2>1, <3>3, <3>5, <3>6
  <2>2. CASE /\ baseOf[n] = NoId /\ Len(types) < MaxTypes /\ types' = Append(types, t)
             /\ baseOf' = [baseOf EXCEPT ![n] = Len(types) * Variants]
    <3> DEFINE k == Len(types)
    <3> HIDE DEF t
    <3>1. /\ types' \in Seq(BlockType) /\ Len(types') = k + 1 /\ types'[k + 1] = t
          /\ \A i \in 1 .. k : types'[i] = types[i]
      BY <1>2, <2>2 DEF t
    <3>2. baseOf' = [baseOf EXCEPT ![n] = BaseOfIndex(k)] /\ baseOf'[n] = BaseOfIndex(k)
      BY <1>2, <2>2 DEF BaseOfIndex
    <3>3. BaseOfIndex(k) \in Ids /\ Index(BaseOfIndex(k)) = k
      <4>1. 0 \in 0 .. Variants - 1
        BY TypesAssumption
      <4> QED BY <1>2, <2>2, <4>1, HandleInRange, IndexOfHandle
    <3> HIDE DEF k
    <3>4. \A m \in Plugins : m # n => baseOf'[m] = baseOf[m]
      BY <1>2, <3>2
    <3>5. NamesFit'
      <4> SUFFICES ASSUME NEW m \in Plugins, baseOf'[m] # NoId
                   PROVE  /\ baseOf'[m] = BaseOfIndex(Index(baseOf'[m])) /\ Index(baseOf'[m]) < k + 1
                          /\ \A o \in Plugins : baseOf'[o] = baseOf'[m] => o = m
        BY <3>1 DEF NamesFit, Known, BaseOfIndex, Index
      <4>1. \A o \in Plugins : o # n /\ baseOf[o] # NoId =>
              /\ Index(baseOf[o]) < k /\ Index(baseOf[o]) \in Nat /\ baseOf[o] = BaseOfIndex(Index(baseOf[o]))
        BY NumberHasType DEF k
      <4>2. k \in Nat
        BY <1>2 DEF k
      <4>3. CASE m = n
        <5>1. \A o \in Plugins : baseOf'[o] = baseOf'[m] => o = m
          BY <3>2, <3>3, <3>4, <4>1, <4>2, <4>3, <1>2
        <5> QED BY <3>2, <3>3, <4>2, <4>3, <5>1
      <4>4. CASE m # n
        <5>1. \A o \in Plugins : baseOf[o] = baseOf[m] => o = m
          BY <3>4, <4>4 DEF TypesInv, NamesFit
        <5>2. baseOf[m] # baseOf'[n]
          BY <3>2, <3>3, <3>4, <4>1, <4>2, <4>4
        <5> QED BY <3>4, <4>1, <4>2, <4>4, <5>1, <5>2
      <4> QED BY <4>3, <4>4
    <3>6. TypesFit'
      <4> SUFFICES ASSUME NEW i \in 1 .. k + 1
                   PROVE  \/ types'[i] = Placeholder
                          \/ \E m \in Plugins : types'[i] = [name |-> m, unknown |-> FALSE]
                                               /\ baseOf'[m] = BaseOfIndex(i - 1)
        BY <3>1 DEF TypesFit, Placeholder, BaseOfIndex
      <4>0. k \in Nat
        BY <1>2 DEF k
      <4>1. CASE i = k + 1
        <5>1. i - 1 = k /\ types'[i] = [name |-> n, unknown |-> FALSE]
          BY <3>1, <4>0, <4>1 DEF t
        <5> QED BY <3>2, <5>1
      <4>2. CASE i \in 1 .. k
        <5>1. CASE types[i] = Placeholder
          BY <3>1, <4>2, <5>1
        <5>2. CASE types[i] # Placeholder
          <6>1. PICK m \in Plugins : types[i] = [name |-> m, unknown |-> FALSE]
                                     /\ baseOf[m] = BaseOfIndex(i - 1)
            BY <4>2, <5>2 DEF TypesInv, TypesFit, k
          <6>2. BaseOfIndex(i - 1) \in Ids
            <7>1. 0 \in 0 .. Variants - 1 /\ i - 1 \in Nat /\ i - 1 < MaxTypes
              BY <1>2, <4>0, <4>2, TypesAssumption DEF k
            <7> QED BY <7>1, HandleInRange
          <6>3. m # n
            BY <1>2, <2>2, <6>1, <6>2
          <6> QED BY <3>1, <3>4, <4>2, <6>1, <6>3
        <5> QED BY <5>1, <5>2
      <4>3. i = k + 1 \/ i \in 1 .. k
        BY <4>0
      <4> QED BY <4>1, <4>2, <4>3
    <3>7. baseOf' \in [Plugins -> Ids \cup {NoId}]
      BY <1>2, <3>2, <3>3
    <3>8. Len(types') <= MaxTypes
      BY <1>2, <2>2, <3>1, TypesAssumption DEF k
    <3> QED BY <2>2, <3>1, <3>4, <3>5, <3>6, <3>7, <3>8
  <2> QED BY <2>1, <2>2 DEF RegisterBlock
<1>4. TypesTypeOK'
  BY <1>1, <1>3 DEF TypesInv, TypesTypeOK, BlockType
<1>5. RunFits'
  <2> SUFFICES ASSUME assignments # NoAssignments, NEW a \in assignments PROVE baseOf'[a.name] = a.base
    BY <1>1 DEF RunFits
  <2>1. a.name \in Plugins /\ a.base \in Ids
    BY Shapes DEF Assignments
  <2>2. baseOf[a.name] = a.base
    BY <1>1 DEF TypesInv, RunFits
  <2> QED BY <1>2, <1>3, <2>1, <2>2
<1> QED BY <1>1, <1>3, <1>4, <1>5, StartFrame DEF TypesInv

\* ServerBuilder::build: the numbers that were saved are saved again, but for placeholders.
LEMMA BuildKeeps == TypesInv /\ Build => TypesInv'
<1> SUFFICES ASSUME TypesInv, Build PROVE TypesInv'
  OBVIOUS
<1>1. /\ run = "registering" /\ run' = "serving" /\ assignments' = ToProto
      /\ dropped' = dropped \cup (NamesIn(assignments) \ Registered)
      /\ types' = types /\ baseOf' = baseOf /\ runs' = runs /\ stored' = stored /\ chunk' = chunk
      /\ chunk = NoChunk
  BY DEF Build, blockVars, TypesInv, RunFits
<1>2. ToProto \in SUBSET Assignments
  <2>1. \A n \in Registered : n \in Plugins /\ baseOf[n] \in Ids
    BY RegisteredStands
  <2> QED BY <2>1 DEF ToProto, Assignments
<1>3. assignments' # NoAssignments
  BY <1>1, <1>2, Shapes
<1>4. NamesIn(assignments) \subseteq Plugins
  BY Shapes DEF NamesIn, Assignments
<1>5. TypesTypeOK'
  BY <1>1, <1>2, <1>4 DEF TypesInv, TypesTypeOK, Assignments
<1>6. SavedFits'
  <2> SUFFICES ASSUME NEW a \in ToProto, NEW b \in ToProto
               PROVE  a.base = BaseOfIndex(Index(a.base)) /\ (a.name = b.name <=> a.base = b.base)
    BY <1>1 DEF SavedFits, BaseOfIndex, Index
  <2>1. PICK m \in Registered : a = [name |-> m, base |-> baseOf[m]]
    BY DEF ToProto
  <2>2. PICK n \in Registered : b = [name |-> n, base |-> baseOf[n]]
    BY DEF ToProto
  <2>3. m \in Plugins /\ n \in Plugins /\ baseOf[m] # NoId /\ baseOf[m] = BaseOfIndex(Index(baseOf[m]))
    BY RegisteredStands
  <2>4. baseOf[n] = baseOf[m] => n = m
    BY <2>3 DEF TypesInv, NamesFit
  <2> QED BY <2>1, <2>2, <2>3, <2>4
<1>7. NamesFit' /\ TypesFit'
  BY <1>1 DEF TypesInv, NamesFit, TypesFit, Known, Index, BaseOfIndex, Placeholder
<1>8. RunFits'
  <2>1. ToProto' = ToProto
    BY <1>1 DEF ToProto, Registered
  <2>2. \A a \in ToProto : baseOf[a.name] = a.base
    BY DEF ToProto
  <2> QED BY <1>1, <2>1, <2>2 DEF RunFits
<1>9. BlocksFit'
  <2> SUFFICES ASSUME stored # NoChunk, stored.name \notin dropped'
               PROVE  [name |-> stored.name, base |-> BaseOfIndex(Index(stored.id))] \in ToProto
    BY <1>1, <1>3 DEF BlocksFit, Remembered, InMemory, BaseOfIndex, Index
  <2> DEFINE a == [name |-> stored.name, base |-> BaseOfIndex(Index(stored.id))]
  <2>1. assignments # NoAssignments /\ a \in assignments
    BY <1>1 DEF TypesInv, BlocksFit, Remembered
  <2>2. baseOf[a.name] = a.base
    BY <1>1, <2>1 DEF TypesInv, RunFits
  <2>3. stored.name \in NamesIn(assignments)
    BY <2>1 DEF NamesIn
  <2>4. stored.name \in Registered
    BY <1>1, <2>3
  <2> QED BY <2>2, <2>4 DEF ToProto
<1>10. DataHasType'
  BY <1>1 DEF DataHasType, InMemory
<1> QED BY <1>5, <1>6, <1>7, <1>8, <1>9, <1>10 DEF TypesInv

LEMMA DownKeeps == TypesInv /\ Down => TypesInv'
<1> SUFFICES ASSUME TypesInv, Down PROVE TypesInv'
  OBVIOUS
<1>1. /\ run' = "down" /\ types' = <<>> /\ baseOf' = [n \in Plugins |-> NoId] /\ chunk' = NoChunk
      /\ assignments' = assignments /\ runs' = runs /\ dropped' = dropped /\ stored' = stored
  BY DEF Down
<1>2. types' \in Seq([name : Plugins \cup {NoName}, unknown : BOOLEAN]) /\ Len(types') = 0
  BY <1>1
<1>3. TypesTypeOK'
  BY <1>1, <1>2, TypesAssumption DEF TypesInv, TypesTypeOK
<1>4. NamesFit' /\ TypesFit' /\ RunFits'
  BY <1>1, <1>2 DEF NamesFit, TypesFit, RunFits
<1> QED BY <1>1, <1>3, <1>4, StartFrame DEF TypesInv
-----------------------------------------------------------------------------
(* The block                                                               *)

\* What the block does while the server serves leaves types and numbers alone.
LEMMA WorkFrame ==
  ASSUME TypesInv, UNCHANGED typeVars, run = "serving",
         chunk' \in Places \cup {NoChunk, Failed}, stored' \in {p \in Places : ~p.dirty} \cup {NoChunk},
         BlocksFit', DataHasType'
  PROVE  TypesInv'
<1>1. /\ assignments' = assignments /\ types' = types /\ baseOf' = baseOf /\ run' = run
      /\ dropped' = dropped /\ runs' = runs
  BY DEF typeVars
<1>2. TypesTypeOK'
  BY <1>1 DEF TypesInv, TypesTypeOK
<1>3. SavedFits' /\ NamesFit' /\ TypesFit'
  BY <1>1 DEF TypesInv, SavedFits, NamesFit, TypesFit, Known, Index, BaseOfIndex, Placeholder
<1>4. RunFits'
  <2>1. ToProto' = ToProto
    BY <1>1 DEF ToProto, Registered
  <2>2. run' = "serving"
    BY <1>1
  <2>3. /\ assignments # NoAssignments => \A a \in assignments : baseOf[a.name] = a.base
        /\ assignments = ToProto
    BY DEF TypesInv, RunFits
  <2> QED BY <1>1, <2>1, <2>2, <2>3 DEF RunFits
<1> QED BY <1>2, <1>3, <1>4 DEF TypesInv

\* A block is in memory only while the server serves.
LEMMA MemoryServes ==
  ASSUME TypesInv, InMemory
  PROVE  run = "serving" /\ chunk \in Places
BY Shapes DEF TypesInv, RunFits, InMemory

\* What is put down is remembered under its name, and has a type.
LEMMA BlockPutKeeps ==
  ASSUME TypesInv, run = "serving", NEW n \in Registered, NEW v \in 0 .. Variants - 1, NEW d \in BOOLEAN,
         Put(n, v, d), UNCHANGED <<stored, typeVars>>
  PROVE  TypesInv'
<1>1. /\ n \in Plugins /\ baseOf[n] \in Ids /\ Known(Index(baseOf[n])) /\ Index(baseOf[n]) \in Nat
      /\ TypeAt(baseOf[n]) = [name |-> n, unknown |-> FALSE] /\ baseOf[n] = BaseOfIndex(Index(baseOf[n]))
  BY RegisteredStands
<1> DEFINE k == Index(baseOf[n])
           id == baseOf[n] + v
<1>2. chunk' = [id |-> id, data |-> d, dirty |-> TRUE, name |-> n]
  BY DEF Put, Handle
<1>3. /\ assignments' = assignments /\ types' = types /\ baseOf' = baseOf /\ run' = run
      /\ dropped' = dropped /\ stored' = stored
  BY DEF typeVars
<1>4. k < MaxTypes
  BY <1>1, IndexInRange
<1> HIDE DEF k
<1>5. Index(id) = k /\ id \in Ids
  BY <1>1, <1>4, IndexOfHandle, HandleInRange DEF k
<1> HIDE DEF id
<1>6. chunk' \in Places
  BY <1>1, <1>2, <1>5 DEF Places
<1>7. [name |-> n, base |-> BaseOfIndex(Index(id))] \in assignments /\ assignments # NoAssignments
  <2>1. assignments = ToProto
    BY DEF TypesInv, RunFits
  <2>2. ToProto \in SUBSET Assignments
    <3>1. \A m \in Registered : m \in Plugins /\ baseOf[m] \in Ids
      BY RegisteredStands
    <3> QED BY <3>1 DEF ToProto, Assignments
  <2>3. [name |-> n, base |-> baseOf[n]] \in ToProto
    BY DEF ToProto
  <2> QED BY <1>1, <1>5, <2>1, <2>2, <2>3, Shapes DEF k
<1>8. BlocksFit'
  BY <1>2, <1>3, <1>7 DEF TypesInv, BlocksFit, Remembered, BaseOfIndex, Index
<1>9. DataHasType'
  <2>1. Known(Index(id)) /\ ~TypeAt(id).unknown
    BY <1>1, <1>5 DEF k, TypeAt
  <2> QED BY <1>2, <1>3, <2>1 DEF DataHasType, Known, TypeAt, Index
<1>10. stored' \in {p \in Places : ~p.dirty} \cup {NoChunk}
  BY <1>3 DEF TypesInv, TypesTypeOK
<1> QED BY <1>6, <1>8, <1>9, <1>10, WorkFrame

\* parse_v1: data of a block that has a type, or none.
LEMMA LoadKeeps == TypesInv /\ LoadChunk => TypesInv'
<1> SUFFICES ASSUME TypesInv, LoadChunk PROVE TypesInv'
  OBVIOUS
<1>1. /\ run = "serving" /\ stored # NoChunk /\ chunk' = Deserialize(stored)
      /\ UNCHANGED typeVars /\ stored' = stored
      /\ assignments' = assignments /\ types' = types /\ dropped' = dropped
  BY DEF LoadChunk, typeVars
<1>2. stored \in Places /\ NoChunk \notin Places /\ Failed \notin Places
  BY <1>1, Shapes
<1>3. \/ chunk' = Failed
      \/ /\ chunk' \in Places /\ chunk'.id = stored.id /\ chunk'.name = stored.name
         /\ chunk'.data => Known(Index(stored.id)) /\ ~TypeAt(stored.id).unknown
  <2>1. CASE ~stored.data
    BY <1>1, <1>2, <2>1 DEF Deserialize
  <2>2. CASE stored.data /\ ~Known(Index(stored.id))
    BY <1>1, <2>2 DEF Deserialize
  <2>3. CASE stored.data /\ Known(Index(stored.id))
    <3> DEFINE u == TypeAt(stored.id).unknown
    <3>1. u \in BOOLEAN
      <4>1. Index(stored.id) \in Nat /\ Index(stored.id) < Len(types) /\ Len(types) \in Nat
        BY <1>2, <2>3, IndexInRange, Shapes DEF Places, Known
      <4>2. Index(stored.id) + 1 \in 1 .. Len(types)
        BY <4>1
      <4>3. TypeAt(stored.id) \in BlockType
        BY <4>2, Shapes DEF TypeAt
      <4> QED BY <4>3 DEF BlockType
    <3>2. chunk' = [stored EXCEPT !.data = ~u]
      BY <1>1, <2>3 DEF Deserialize
    <3> HIDE DEF u
    <3>3. chunk' \in Places /\ chunk'.id = stored.id /\ chunk'.name = stored.name /\ chunk'.data = ~u
      BY <1>2, <3>1, <3>2 DEF Places
    <3> QED BY <2>3, <3>3 DEF u
  <2> QED BY <2>1, <2>2, <2>3
<1>4. BlocksFit'
  <2>1. Remembered(stored)
    BY <1>1 DEF TypesInv, BlocksFit
  <2>2. Remembered(stored)'
    BY <1>1, <2>1 DEF Remembered, Index
  <2>3. chunk' # Failed => Remembered(chunk)'
    BY <1>1, <1>3, <2>1 DEF Remembered, Index
  <2> QED BY <2>2, <2>3 DEF BlocksFit, InMemory
<1>5. DataHasType'
  <2>1. chunk' # Failed /\ chunk'.data => Known(Index(chunk.id))' /\ ~TypeAt(chunk.id)'.unknown
    BY <1>1, <1>3 DEF Known, TypeAt, Index
  <2> QED BY <2>1 DEF DataHasType, InMemory
<1>6. stored' \in {p \in Places : ~p.dirty} \cup {NoChunk}
  BY <1>1 DEF TypesInv, TypesTypeOK
<1> QED BY <1>1, <1>3, <1>4, <1>5, <1>6, WorkFrame

\* Marking, losing data and writing leave number and name of the block.
LEMMA SameBlockKeeps == TypesInv /\ (MutateUnknown \/ Neighbour \/ WriteChunk) => TypesInv'
<1> SUFFICES ASSUME TypesInv, MutateUnknown \/ Neighbour \/ WriteChunk PROVE TypesInv'
  OBVIOUS
<1>1. InMemory /\ UNCHANGED typeVars
  BY DEF MutateUnknown, Neighbour, WriteChunk, typeVars
<1>2. run = "serving" /\ chunk \in Places /\ NoChunk \notin Places /\ Failed \notin Places
  BY <1>1, MemoryServes, Shapes
<1>3. assignments' = assignments /\ types' = types /\ dropped' = dropped
  BY <1>1 DEF typeVars
<1>4. /\ chunk' \in Places /\ chunk'.id = chunk.id /\ chunk'.name = chunk.name
      /\ chunk'.data \in {chunk.data, FALSE}
      /\ stored' = stored \/ (stored' = chunk' /\ ~chunk'.dirty)
  <2>1. CASE MutateUnknown
    <3>1. chunk' = [chunk EXCEPT !.data = FALSE] /\ stored' = stored
      BY <2>1 DEF MutateUnknown
    <3> QED BY <1>2, <3>1 DEF Places
  <2>2. CASE Neighbour
    <3>1. chunk' = [chunk EXCEPT !.dirty = TRUE] /\ stored' = stored
      BY <2>2 DEF Neighbour
    <3> QED BY <1>2, <3>1 DEF Places
  <2>3. CASE WriteChunk
    BY <1>2, <2>3 DEF WriteChunk, Places
  <2> QED BY <2>1, <2>2, <2>3
<1>5. BlocksFit'
  BY <1>1, <1>3, <1>4 DEF TypesInv, BlocksFit, Remembered, InMemory
<1>6. DataHasType'
  <2>1. chunk'.data => chunk.data
    BY <1>4
  <2> QED BY <1>1, <1>3, <1>4, <2>1 DEF TypesInv, DataHasType, InMemory, Known, TypeAt, Index
<1>7. stored' \in {p \in Places : ~p.dirty} \cup {NoChunk}
  BY <1>4 DEF TypesInv, TypesTypeOK
<1> QED BY <1>1, <1>2, <1>4, <1>5, <1>6, <1>7, WorkFrame

LEMMA TypesNextKeeps == TypesInv /\ [TypesNext]_blockTypesVars => TypesInv'
<1> SUFFICES ASSUME TypesInv, [TypesNext]_blockTypesVars PROVE TypesInv'
  OBVIOUS
<1>1. CASE UNCHANGED blockTypesVars
  <2>1. /\ assignments' = assignments /\ types' = types /\ baseOf' = baseOf /\ run' = run
        /\ dropped' = dropped /\ runs' = runs /\ stored' = stored /\ chunk' = chunk
    BY <1>1 DEF blockTypesVars, typeVars, blockVars
  <2>2. TypesTypeOK'
    BY <2>1 DEF TypesInv, TypesTypeOK
  <2>3. SavedFits' /\ NamesFit' /\ TypesFit'
    BY <2>1 DEF TypesInv, SavedFits, NamesFit, TypesFit, Known, Index, BaseOfIndex, Placeholder
  <2>4. RunFits'
    <3>1. ToProto' = ToProto
      BY <2>1 DEF ToProto, Registered
    <3>2. RunFits
      BY DEF TypesInv
    <3> QED BY <2>1, <3>1, <3>2 DEF RunFits
  <2>5. BlocksFit' /\ DataHasType'
    BY <2>1 DEF TypesInv, BlocksFit, DataHasType, Remembered, InMemory, Known, TypeAt, Index, BaseOfIndex
  <2> QED BY <2>2, <2>3, <2>4, <2>5 DEF TypesInv
<1>2. CASE Starts
  BY <1>2, CreateOrLoadKeeps, RegisterKeeps, BuildKeeps, DownKeeps DEF Starts
<1>3. ASSUME NEW n \in Plugins, NEW v \in 0 .. Variants - 1,
             Generate(n, v) \/ \E d \in BOOLEAN : MutateBlock(n, v, d)
      PROVE  TypesInv'
  <2>1. CASE Generate(n, v)
    BY <2>1, BlockPutKeeps DEF Generate
  <2>2. ASSUME NEW d \in BOOLEAN, MutateBlock(n, v, d) PROVE TypesInv'
    BY <2>2, BlockPutKeeps, MemoryServes DEF MutateBlock
  <2> QED BY <1>3, <2>1, <2>2
<1>4. CASE LoadChunk \/ MutateUnknown \/ Neighbour \/ WriteChunk
  BY <1>4, LoadKeeps, SameBlockKeeps
<1> QED BY <1>1, <1>2, <1>3, <1>4 DEF TypesNext, Works
-----------------------------------------------------------------------------
(* The theorems                                                            *)

\* The inductive invariant: names and base ids belong to each other, in what is saved and in
\* what a run has registered, and a run keeps the numbers that are saved (blocks.rs).
THEOREM BlockTypesInvariant == TypesSpec => []TypesInv
BY TypesInitFits, TypesNextKeeps, PTL DEF TypesSpec

\* Every number that is given out or saved fits in 32 bits (register_block).
THEOREM NumbersOfTypesFit == TypesSpec => []TypesTypeOK
<1>1. TypesInv => TypesTypeOK
  BY DEF TypesInv
<1> QED BY <1>1, BlockTypesInvariant, PTL

\* A block comes out of the database as the type that was put down, over any number of runs
\* with other plugins in any order, unless one of them forgot that type (from_proto,
\* register_block and to_proto of blocks.rs, ServerBuilder::build).
THEOREM BlocksKeepTheirNames == TypesSpec => []IdKeepsItsName
<1>1. TypesInv => IdKeepsItsName
  <2> SUFFICES ASSUME TypesInv, InMemory, chunk.name \notin dropped
               PROVE  Known(Index(chunk.id)) /\ TypeAt(chunk.id).name = chunk.name
    BY DEF IdKeepsItsName
  <2>1. run = "serving" /\ chunk \in Places
    BY MemoryServes
  <2> DEFINE k == Index(chunk.id)
  <2>2. [name |-> chunk.name, base |-> BaseOfIndex(k)] \in ToProto
    BY <2>1 DEF TypesInv, BlocksFit, Remembered, RunFits
  <2>3. chunk.name \in Registered /\ baseOf[chunk.name] = BaseOfIndex(k)
    BY <2>2 DEF ToProto
  <2>4. k \in Nat /\ 0 \in 0 .. Variants - 1
    BY <2>1, IndexInRange, TypesAssumption DEF Places
  <2> HIDE DEF k
  <2>5. Index(baseOf[chunk.name]) = k
    BY <2>3, <2>4, IndexOfHandle
  <2>6. Index(baseOf[chunk.name]) = Index(chunk.id)
    BY <2>5 DEF k
  <2>7. /\ Known(Index(baseOf[chunk.name]))
        /\ TypeAt(baseOf[chunk.name]) = [name |-> chunk.name, unknown |-> FALSE]
    BY <2>3, RegisteredStands
  <2>8. TypeAt(chunk.id) = [name |-> chunk.name, unknown |-> FALSE]
    BY <2>6, <2>7 DEF TypeAt
  <2> QED BY <2>6, <2>7, <2>8
<1> QED BY <1>1, BlockTypesInvariant, PTL

\* Extended data in memory are those of a block that has a type, so that no change of it
\* loses them in the early return of mutate_block_atomically, and no write fails over them.
THEOREM DataAlwaysHasType == TypesSpec => []DataHasType
<1>1. TypesInv => DataHasType
  BY DEF TypesInv
<1> QED BY <1>1, BlockTypesInvariant, PTL

-----------------------------------------------------------------------------
(***************************************************************************)
(* Proofs about Coordinates, for any number of chunks along an axis: the   *)
(* address of a block names that block alone, and every chunk whose mesh   *)
(* looks at a block is meshed again with it.                               *)
(***************************************************************************)
\* What div_euclid and rem_euclid by the side of a chunk give for every number.
LEMMA Euclid ==
  ASSUME NEW n \in Int
  PROVE  /\ n \div 16 \in Int /\ n % 16 \in Side
         /\ n = (n \div 16) * 16 + (n % 16)
<1> DEFINE q == n \div 16
           r == n - 16 * q
<1>1. q \in Int
  OBVIOUS
<1>2. r \in 0 .. 15
  OBVIOUS
<1> HIDE DEF q
<1>3. n = q * 16 + r
  BY <1>1
<1>4. n % 16 = r
  <2> HIDE DEF r
  <2> QED BY <1>1, <1>2, <1>3
<1> QED BY <1>1, <1>2, <1>3, <1>4 DEF q, Side

\* The three parts of an index.
LEMMA IndexParts ==
  ASSUME NEW x \in Side, NEW y \in Side, NEW z \in Side
  PROVE  LET i == 256 * z + 16 * y + x
         IN i \in 0 .. 4095 /\ i % 16 = x /\ (i \div 16) % 16 = y /\ (i \div 256) % 16 = z
BY DEF Side

\* A number of the range has its chunk in the range of chunks.
LEMMA ChunkInRange ==
  ASSUME NEW n \in Int32
  PROVE  n \in Int /\ n \div 16 \in -Reach .. Reach - 1
BY ReachAssumption DEF Int32

\* One further along an axis is in the same chunk or in the next.
LEMMA NextChunk ==
  ASSUME NEW n \in Int
  PROVE  /\ (n + 1) \div 16 \in {n \div 16, n \div 16 + 1}
         /\ (n + -1) \div 16 \in {n \div 16, n \div 16 + -1}
         /\ n + 0 = n
OBVIOUS

\* The six steps, one by one.
LEMMA SixSteps ==
  ASSUME NEW d \in Steps
  PROVE  /\ d \in Points({-1, 0, 1})
         /\ \/ d.x \in {-1, 1} /\ d.y = 0 /\ d.z = 0
            \/ d.x = 0 /\ d.y \in {-1, 1} /\ d.z = 0
            \/ d.x = 0 /\ d.y = 0 /\ d.z \in {-1, 1}
BY DEF Steps, Points

LEMMA BackAgain ==
  ASSUME NEW p \in Blocks, NEW d \in Steps
  PROVE  \E e \in Steps : p = Plus(Plus(p, d), e)
<1> DEFINE e == [x |-> -d.x, y |-> -d.y, z |-> -d.z]
<1>1. e \in Steps
  BY SixSteps DEF Steps, Points
<1>2. p.x \in Int /\ p.y \in Int /\ p.z \in Int /\ d.x \in Int /\ d.y \in Int /\ d.z \in Int
  BY SixSteps, ReachAssumption DEF Blocks, Points, Int32
<1>3. p = [x |-> p.x, y |-> p.y, z |-> p.z]
  BY DEF Blocks, Points
<1>4. p.x + d.x + -d.x = p.x /\ p.y + d.y + -d.y = p.y /\ p.z + d.z + -d.z = p.z
  BY <1>2
<1>5. Plus(Plus(p, d), e) = [x |-> p.x + d.x + -d.x, y |-> p.y + d.y + -d.y, z |-> p.z + d.z + -d.z]
  BY DEF Plus
<1> QED BY <1>1, <1>3, <1>4, <1>5

\* The steps there and back lead to neighbours of each other.
LEMMA NeighboursOfEachOther ==
  ASSUME NEW b \in Blocks, NEW n \in Neighbours(b)
  PROVE  n \in Blocks /\ b \in Neighbours(n)
<1>1. PICK d \in Steps : n = Plus(b, d)
  BY DEF Neighbours
<1>2. n \in Blocks
  BY DEF Neighbours
<1>3. PICK e \in Steps : b = Plus(n, e)
  BY <1>1, BackAgain
<1> QED BY <1>2, <1>3 DEF Neighbours

\* BlockCoordinate::with_offset undoes chunk and offset, also below zero.
LEMMA AddressNames ==
  ASSUME NEW b \in Blocks
  PROVE  /\ WithOffset(Chunk(b), FromIndex(AsIndex(Offset(b)))) = b
         /\ AsIndex(Offset(b)) \in 0 .. 4095 /\ IsInBounds(Chunk(b))
<1>1. /\ b.x \in Int32 /\ b.y \in Int32 /\ b.z \in Int32
      /\ b = [x |-> b.x, y |-> b.y, z |-> b.z]
  BY DEF Blocks, Points
<1>2. b.x \in Int /\ b.y \in Int /\ b.z \in Int
  BY <1>1, ChunkInRange
<1> DEFINE rx == b.x % 16
           ry == b.y % 16
           rz == b.z % 16
           i == 256 * rz + 16 * ry + rx
<1>3. /\ rx \in Side /\ ry \in Side /\ rz \in Side
      /\ b.x = (b.x \div 16) * 16 + rx /\ b.y = (b.y \div 16) * 16 + ry /\ b.z = (b.z \div 16) * 16 + rz
  BY <1>2, Euclid
<1>4. AsIndex(Offset(b)) = i
  BY DEF AsIndex, Offset
<1> HIDE DEF rx, ry, rz
<1>5. i \in 0 .. 4095 /\ i % 16 = rx /\ (i \div 16) % 16 = ry /\ (i \div 256) % 16 = rz
  BY <1>3, IndexParts
<1> HIDE DEF i
<1>6. FromIndex(i) = [x |-> rx, y |-> ry, z |-> rz]
  BY <1>5 DEF FromIndex
<1>7. WithOffset(Chunk(b), FromIndex(i))
        = [x |-> (b.x \div 16) * 16 + rx, y |-> (b.y \div 16) * 16 + ry, z |-> (b.z \div 16) * 16 + rz]
  BY <1>6 DEF WithOffset, Chunk
<1>8. WithOffset(Chunk(b), FromIndex(i)) = b
  BY <1>1, <1>3, <1>7
<1>9. IsInBounds(Chunk(b))
  BY <1>1, ChunkInRange DEF IsInBounds, Chunk, Points
<1> QED BY <1>4, <1>5, <1>8, <1>9

\* The chunk of a neighbour is the same or one of those around.
LEMMA NeighbourAround ==
  ASSUME NEW b \in Blocks, NEW n \in Neighbours(b)
  PROVE  Chunk(n) \in Enqueued(Chunk(b))
<1>1. PICK d \in Steps : n = Plus(b, d)
  BY DEF Neighbours
<1>2. n \in Blocks
  BY DEF Neighbours
<1>3. b.x \in Int /\ b.y \in Int /\ b.z \in Int
  BY ChunkInRange DEF Blocks, Points
<1>4. n.x = b.x + d.x /\ n.y = b.y + d.y /\ n.z = b.z + d.z
  BY <1>1 DEF Plus
<1> DEFINE c == Chunk(b)
           m == Chunk(n)
<1>5. /\ c = [x |-> b.x \div 16, y |-> b.y \div 16, z |-> b.z \div 16]
      /\ m = [x |-> n.x \div 16, y |-> n.y \div 16, z |-> n.z \div 16]
  BY DEF Chunk
<1>6. \A p, t \in Int : t \in {-1, 0, 1} => (p + t) \div 16 \in {p \div 16, p \div 16 + t} /\ p \div 16 + 0 = p \div 16
  BY NextChunk
<1>7. \/ m = c
      \/ m = Plus(c, d)
  <2>1. CASE d.x \in {-1, 1} /\ d.y = 0 /\ d.z = 0
    <3>1. n.y \div 16 = b.y \div 16 /\ n.z \div 16 = b.z \div 16
      BY <1>3, <1>4, <2>1, NextChunk
    <3>2. n.x \div 16 \in {b.x \div 16, b.x \div 16 + d.x}
      BY <1>3, <1>4, <2>1, NextChunk
    <3>3. b.y \div 16 + d.y = b.y \div 16 /\ b.z \div 16 + d.z = b.z \div 16
      BY <1>3, <1>6, <2>1
    <3> QED BY <1>5, <3>1, <3>2, <3>3 DEF Plus
  <2>2. CASE d.x = 0 /\ d.y \in {-1, 1} /\ d.z = 0
    <3>1. n.x \div 16 = b.x \div 16 /\ n.z \div 16 = b.z \div 16
      BY <1>3, <1>4, <2>2, NextChunk
    <3>2. n.y \div 16 \in {b.y \div 16, b.y \div 16 + d.y}
      BY <1>3, <1>4, <2>2, NextChunk
    <3>3. b.x \div 16 + d.x = b.x \div 16 /\ b.z \div 16 + d.z = b.z \div 16
      BY <1>3, <1>6, <2>2
    <3> QED BY <1>5, <3>1, <3>2, <3>3 DEF Plus
  <2>3. CASE d.x = 0 /\ d.y = 0 /\ d.z \in {-1, 1}
    <3>1. n.x \div 16 = b.x \div 16 /\ n.y \div 16 = b.y \div 16
      BY <1>3, <1>4, <2>3, NextChunk
    <3>2. n.z \div 16 \in {b.z \div 16, b.z \div 16 + d.z}
      BY <1>3, <1>4, <2>3, NextChunk
    <3>3. b.x \div 16 + d.x = b.x \div 16 /\ b.y \div 16 + d.y = b.y \div 16
      BY <1>3, <1>6, <2>3
    <3> QED BY <1>5, <3>1, <3>2, <3>3 DEF Plus
  <2> QED BY <2>1, <2>2, <2>3, SixSteps
<1>8. IsInBounds(m)
  BY <1>2, AddressNames
<1> HIDE DEF c, m
<1>9. m \in Enqueued(c)
  BY <1>7, <1>8 DEF Enqueued, ChunksAround
<1> QED BY <1>9 DEF c, m

LEMMA LookKeeps ==
  ASSUME NEW b \in Blocks, LooksAt(b)
  PROVE  AddressInv'
<1>1. focus' = b /\ at' = Chunk(b) /\ index' = AsIndex(Offset(b))
  BY DEF LooksAt
<1>2. focus' \in Blocks /\ IsInBounds(at') /\ index' \in 0 .. 4095
  BY <1>1, AddressNames
<1>3. AddressTypeOK'
  BY <1>2 DEF AddressTypeOK, IsInBounds
<1>4. at' = Chunk(focus') /\ index' = AsIndex(Offset(focus'))
  BY <1>1
<1> QED BY <1>3, <1>4 DEF AddressInv

\* The inductive invariant: the address is that of the block that is looked at, and the map
\* has a place for it (coordinates.rs).
THEOREM AddressInvariant == AddressSpec => []AddressInv
<1>1. AddressInit => AddressInv
  <2> SUFFICES ASSUME AddressInit PROVE AddressInv
    OBVIOUS
  <2>1. 0 \in Int32 /\ 0 \div 16 = 0 /\ 0 % 16 = 0
    BY ReachAssumption DEF Int32
  <2>2. Origin \in Blocks /\ Chunk(Origin) = Origin /\ Offset(Origin) = Origin
    BY <2>1 DEF Origin, Blocks, Points, Chunk, Offset
  <2>3. AsIndex(Origin) = 0
    BY DEF AsIndex, Origin
  <2> QED BY <2>2, <2>3, AddressNames DEF AddressInit, AddressInv, AddressTypeOK
<1>2. AddressInv /\ [AddressStep]_addressVars => AddressInv'
  <2>1. CASE UNCHANGED addressVars
    <3>1. focus' = focus /\ at' = at /\ index' = index
      BY <2>1 DEF addressVars
    <3> QED BY <3>1 DEF AddressInv, AddressTypeOK, IsInBounds
  <2>2. CASE AddressStep
    BY <2>2, LookKeeps DEF AddressStep, Neighbours
  <2> QED BY <2>1, <2>2
<1> QED BY <1>1, <1>2, PTL DEF AddressSpec

\* An address names its block and no other, at the ends of the range and below zero too, and
\* every chunk whose mesh looks at a block is meshed again when it changes and when it comes
\* (coordinates.rs, and its callers in cube_renderer.rs and client_context.rs).
THEOREM AddressesNameBlocks == AddressSpec => []AddressesFit
<1>1. AddressInv => AddressesFit
  <2> SUFFICES ASSUME AddressInv PROVE AddressesFit
    OBVIOUS
  <2>1. focus \in Blocks /\ at = Chunk(focus) /\ index = AsIndex(Offset(focus))
    BY DEF AddressInv, AddressTypeOK
  <2>2. Named = focus
    BY <2>1, AddressNames DEF Named
  <2>3. \A n \in Neighbours(focus) : focus \in Neighbours(n) /\ at \in NeedsRemesh(n)
    BY <2>1, NeighboursOfEachOther DEF NeedsRemesh
  <2>4. NeedsRemesh(focus) \subseteq Enqueued(at)
    BY <2>1, NeighbourAround DEF NeedsRemesh, Enqueued
  <2> QED BY <2>2, <2>3, <2>4 DEF AddressesFit
<1> QED BY <1>1, AddressInvariant, PTL
-----------------------------------------------------------------------------
(***************************************************************************)
(* Proofs about Tools, for any items, rules, blocks and rays: ToolsInv is  *)
(* an inductive invariant, so that every step answers presses and digs as  *)
(* ActionsFit says.  Progress on a block goes with the frames for which it *)
(* has been the target, and what was dug is locked for as long.            *)
(***************************************************************************)
\* A set of numbers has a least one.
LEMMA LeastIsThere == ASSUME NEW S \in SUBSET Nat, S # {} PROVE Min(S) \in S
<1> DEFINE Smaller == {ss \in Nat \X Nat : ss[1] < ss[2]}
<1>1. IsWellFoundedOn(Smaller, Nat)
  BY NatLessThanWellFounded DEF OpToRel
<1>2. \A x, y \in Nat : <<y, x>> \in Smaller <=> y < x
  OBVIOUS
<1> HIDE DEF Smaller
<1>3. PICK x \in S : \A y \in S : ~(<<y, x>> \in Smaller)
  BY <1>1, WFMin, Zenon
<1>4. ASSUME NEW y \in S PROVE x =< y
  <2>1. x \in Nat /\ y \in Nat /\ ~(y < x)
    BY <1>2, <1>3
  <2> QED BY <2>1
<1> QED BY <1>4 DEF Min

\* The block pointed at is one of those before the player.
LEMMA TargetIsThere == ASSUME ToolsTypeOK, Pointee # 0 PROVE Target \in Cells
<1> DEFINE I == {i \in 1 .. Len(ray) : Interacts(item, kind[ray[i]])}
<1>1. ray \in Seq(Cells) /\ Len(ray) \in Nat
  BY ToolsAssumption DEF ToolsTypeOK
<1>2. Pointee = IF I # {} THEN Min(I) ELSE 0
  BY DEF Pointee, SelectInSeq
<1>3. I \in SUBSET Nat /\ I # {}
  BY <1>1, <1>2
<1> HIDE DEF I
<1>4. Pointee \in I
  BY <1>2, <1>3, LeastIsThere
<1>5. Pointee \in 1 .. Len(ray)
  BY <1>4 DEF I
<1> QED BY <1>1, <1>5 DEF Target

LEMMA NeighborIsThere ==
  ASSUME ToolsTypeOK, Pointee # 0 PROVE Neighbor # NoBlock => Neighbor \in Cells
<1> DEFINE I == {i \in 1 .. Len(ray) : Interacts(item, kind[ray[i]])}
<1>1. ray \in Seq(Cells) /\ Len(ray) \in Nat
  BY ToolsAssumption DEF ToolsTypeOK
<1>2. Pointee = IF I # {} THEN Min(I) ELSE 0
  BY DEF Pointee, SelectInSeq
<1>3. I \in SUBSET Nat /\ I # {}
  BY <1>1, <1>2
<1> HIDE DEF I
<1>4. Pointee \in I
  BY <1>2, <1>3, LeastIsThere
<1>5. Pointee \in 1 .. Len(ray)
  BY <1>4 DEF I
<1>6. Pointee # 1 => Pointee - 1 \in 1 .. Len(ray)
  BY <1>1, <1>5
<1> QED BY <1>1, <1>6 DEF Neighbor

LEMMA BehaviorIsAWay ==
  ASSUME NEW i \in Holdables, NEW k \in Kinds PROVE DigBehavior(i, k) \in Ways
<1> DEFINE R == Rules[i]
           I == {n \in 1 .. Len(R) : k \in R[n].kinds}
           n == IF I # {} THEN Min(I) ELSE 0
<1>1. R \in Seq([kinds : SUBSET Kinds, dig : Ways])
  <2>1. Rules \in [Holdables -> Seq([kinds : SUBSET Kinds, dig : Ways])]
    BY ToolsAssumption
  <2> QED BY <2>1
<1>2. DigBehavior(i, k) = IF n = 0 THEN "none" ELSE R[n].dig
  BY DEF DigBehavior, SelectInSeq
<1> HIDE DEF R
<1>3. I \in SUBSET Nat
  BY <1>1
<1>4. n # 0 => n \in 1 .. Len(R)
  <2>1. CASE I = {}
    BY <2>1
  <2>2. CASE I # {}
    <3>1. Min(I) \in I
      BY <1>3, <2>2, LeastIsThere
    <3> QED BY <2>2, <3>1
  <2> QED BY <2>1, <2>2
<1> HIDE DEF n
<1>5. CASE n = 0
  BY <1>2, <1>5 DEF Ways
<1>6. CASE n # 0
  <2> DEFINE Form == [kinds : SUBSET Kinds, dig : Ways]
  <2>2. R \in Seq(Form)
    BY <1>1
  <2> HIDE DEF Form
  <2>3. R[n] \in Form
    BY <1>4, <1>6, <2>2
  <2>1. R[n] \in [kinds : SUBSET Kinds, dig : Ways]
    BY <2>3 DEF Form
  <2> QED BY <1>2, <1>6, <2>1
<1> QED BY <1>5, <1>6
-----------------------------------------------------------------------------
\* A dig and a spell are of blocks, unless there is none.
LEMMA DigIsOfABlock ==
  ASSUME NEW d \in {NoDig} \cup [at : Cells, kind : Kinds, how : Ways, progress : 0 .. Locked], d # NoDig
  PROVE  /\ d \in [at : Cells, kind : Kinds, how : Ways, progress : 0 .. Locked]
         /\ d.at # NoBlock
BY ToolsAssumption

LEMMA BlockIsNoDig ==
  ASSUME NEW d \in [at : Cells, kind : Kinds, how : Ways, progress : 0 .. Locked]
  PROVE  d # NoDig
BY ToolsAssumption DEF NoDig

LEMMA WorkIsPositive == Work \in Nat /\ Work # 0 /\ Locked = Work
BY ToolsAssumption DEF Locked

\* What the spell becomes on a target.
LEMMA SpellOn ==
  ASSUME ToolsInv, Pointee # 0, NEW h \in 0 .. 1, NEW g \in 0 .. 1
  PROVE  \E was \in Spells :
           /\ was = IF spell.at = Target /\ spell.kind = kind[Target] THEN spell ELSE NoSpell
           /\ was.held \in 0 .. Work /\ was.dug \in 0 .. 1
           /\ Spell(h, g).at = Target /\ Spell(h, g).kind = kind[Target]
           /\ Spell(h, g).dug = was.dug + g
           /\ Spell(h, g).held = IF was.held = Work THEN Work ELSE was.held + h
           /\ Spell(h, g).held \in 0 .. Work
           /\ was.dug + g \in 0 .. 1 => Spell(h, g) \in Spells
<1> DEFINE was == IF spell.at = Target /\ spell.kind = kind[Target] THEN spell ELSE NoSpell
           counted == IF was.held = Work THEN Work ELSE was.held + h
<1>1. Target \in Cells /\ kind[Target] \in Kinds
  BY TargetIsThere DEF ToolsInv, ToolsTypeOK
<1>2. was \in Spells
  BY DEF ToolsInv, Spells
<1>3. was.held \in 0 .. Work /\ was.dug \in 0 .. 1
  <2> HIDE DEF was
  <2> QED BY <1>2, WorkIsPositive DEF Spells, NoSpell
<1>4. Spell(h, g) = [at |-> Target, kind |-> kind[Target], held |-> counted, dug |-> was.dug + g]
  BY DEF Spell
<1> HIDE DEF was
<1>5. counted \in 0 .. Work
  BY <1>3, WorkIsPositive
<1> HIDE DEF counted
<1>6. was.dug + g \in 0 .. 1 => Spell(h, g) \in Spells
  BY <1>1, <1>4, <1>5 DEF Spells
<1> QED BY <1>2, <1>3, <1>4, <1>5, <1>6 DEF was, counted

LEMMA ToolsInitInv == ToolsInit => ToolsInv
<1> SUFFICES ASSUME ToolsInit PROVE ToolsInv
  OBVIOUS
<1>1. ToolsTypeOK
  BY ToolsAssumption DEF ToolsInit, ToolsTypeOK
<1>2. spell \in Spells /\ spell.dug = 0 /\ dig = NoDig
  BY DEF ToolsInit, Spells, NoSpell
<1> QED BY <1>1, <1>2 DEF ToolsInit, ToolsInv

\* What leaves progress and spell alone.
LEMMA BesidesDigging ==
  ASSUME ToolsInv, ToolsTypeOK', dig' = dig, spell' = spell, presses' \subseteq owed'
  PROVE  ToolsInv'
BY DEF ToolsInv, OfSpell

\* The player turns, the server changes a block, and buttons: nothing is sent.
LEMMA EventsInv ==
  ASSUME ToolsInv, Look \/ BlockChanges \/ (\E b \in Buttons : Press(b) \/ Release(b)) \/ NextFrame
  PROVE  ToolsInv' /\ ActionStep
<1>1. ToolsTypeOK /\ presses \subseteq owed /\ spell \in Spells
  BY DEF ToolsInv
<1>2. dig' = dig /\ spell' = spell /\ sent' = NoAction
  BY DEF Look, BlockChanges, Press, Release, NextFrame, SendsNothing
<1>3. ToolsTypeOK' /\ presses' \subseteq owed'
  <2>1. CASE Look
    BY <1>1, <1>2, <2>1 DEF Look, ToolsTypeOK, input
  <2>2. CASE BlockChanges
    BY <1>1, <1>2, <2>2 DEF BlockChanges, ToolsTypeOK, input
  <2>3. ASSUME NEW b \in Buttons, Press(b) PROVE ToolsTypeOK' /\ presses' \subseteq owed'
    BY <1>1, <1>2, <2>3 DEF Press, ToolsTypeOK, world
  <2>4. ASSUME NEW b \in Buttons, Release(b) PROVE ToolsTypeOK' /\ presses' \subseteq owed'
    BY <1>1, <1>2, <2>4 DEF Release, ToolsTypeOK, world
  <2>5. CASE NextFrame
    BY <1>1, <1>2, <2>5 DEF NextFrame, SetModalActive, ToolsTypeOK, world, input
  <2> QED BY <2>1, <2>2, <2>3, <2>4, <2>5
<1>4. ToolsInv'
  BY <1>2, <1>3, BesidesDigging
<1>5. spell.dug \in 0 .. 1
  BY <1>1 DEF Spells, NoSpell
<1>6. ActionStep
  BY <1>2, <1>5 DEF ActionStep, NoAction
<1> QED BY <1>4, <1>6

\* A block half dug goes on with the new item.
LEMMA UpdateItemInv == ASSUME ToolsInv, UpdateItem PROVE ToolsInv' /\ ActionStep
<1>1. ToolsTypeOK /\ presses \subseteq owed /\ spell \in Spells
  BY DEF ToolsInv
<1>2. /\ item' \in Holdables /\ spell' = spell /\ sent' = NoAction
      /\ dig' = (IF dig = NoDig THEN NoDig ELSE [dig EXCEPT !.how = DigBehavior(item', dig.kind)])
      /\ UNCHANGED <<frame, down, presses, releases, ray, kind, owed>>
  BY DEF UpdateItem, SendsNothing, input, world
<1>3. ASSUME dig = NoDig PROVE ToolsInv'
  <2>1. ToolsTypeOK'
    BY <1>1, <1>2, <1>3 DEF ToolsTypeOK
  <2>2. dig' = dig /\ spell' = spell /\ presses' \subseteq owed'
    BY <1>1, <1>2, <1>3
  <2> QED BY <2>1, <2>2, BesidesDigging
<1>4. ASSUME dig # NoDig PROVE ToolsInv'
  <2>1. /\ dig \in [at : Cells, kind : Kinds, how : Ways, progress : 0 .. Locked]
    BY <1>1, <1>4, DigIsOfABlock DEF ToolsTypeOK
  <2>2. PICK way \in Ways : way = DigBehavior(item', dig.kind)
    BY <1>2, <2>1, BehaviorIsAWay
  <2>3. /\ dig' \in [at : Cells, kind : Kinds, how : Ways, progress : 0 .. Locked]
        /\ dig'.at = dig.at /\ dig'.kind = dig.kind /\ dig'.progress = dig.progress
    BY <1>2, <1>4, <2>1, <2>2
  <2>4. dig' # NoDig
    BY <2>3, BlockIsNoDig
  <2>5. ToolsTypeOK'
    BY <1>1, <1>2, <2>3 DEF ToolsTypeOK
  <2>6. spell' = spell /\ presses' \subseteq owed'
    BY <1>1, <1>2
  <2>7. dig.progress # 0 => OfSpell(dig) /\ dig.progress <= 2 * spell.held
    BY <1>4 DEF ToolsInv
  <2>8. spell.dug # 0 => OfSpell(dig) /\ dig.progress = Locked
    BY DEF ToolsInv
  <2>9. OfSpell(dig) => OfSpell(dig)'
    BY <2>3, <2>4, <2>6 DEF OfSpell
  <2>10. dig'.progress # 0 => OfSpell(dig)' /\ dig'.progress <= 2 * spell'.held
    BY <2>3, <2>6, <2>7, <2>9
  <2>11. spell'.dug # 0 => OfSpell(dig)' /\ dig'.progress = Locked
    BY <2>3, <2>6, <2>8, <2>9
  <2>12. spell' \in Spells
    BY <1>1, <2>6
  <2> QED BY <2>5, <2>6, <2>10, <2>11, <2>12 DEF ToolsInv, Locked
<1>5. ToolsInv'
  BY <1>3, <1>4
<1>6. spell.dug \in 0 .. 1
  BY <1>1 DEF Spells, NoSpell
<1>7. ActionStep
  BY <1>2, <1>6 DEF ActionStep, NoAction
<1> QED BY <1>5, <1>7
-----------------------------------------------------------------------------
(* ToolController::update.                                                 *)

LEMMA NoTargetInv ==
  ASSUME ToolsInv, NoTarget, frame' = FALSE, UNCHANGED <<world, item>>
  PROVE  ToolsInv' /\ ActionStep
<1>1. ToolsTypeOK /\ presses \subseteq owed
  BY DEF ToolsInv
<1>2. dig' = NoDig /\ spell' = NoSpell /\ sent' = NoAction /\ UNCHANGED <<down, presses, releases, owed>>
  BY DEF NoTarget, SendsNothing, input
<1>3. ToolsTypeOK'
  BY <1>1, <1>2 DEF ToolsTypeOK, world
<1>4. spell' \in Spells /\ spell'.dug = 0
  BY <1>2 DEF Spells, NoSpell
<1>5. ToolsInv'
  BY <1>1, <1>2, <1>3, <1>4 DEF ToolsInv
<1>6. spell.dug \in 0 .. 1
  BY DEF ToolsInv, Spells, NoSpell
<1>7. ActionStep
  BY <1>2, <1>4, <1>6 DEF ActionStep, NoAction
<1> QED BY <1>5, <1>7

\* What was dug is not a new target.
LEMMA NewTargetInv ==
  ASSUME ToolsInv, NewTarget, frame' = FALSE, UNCHANGED <<world, item>>
  PROVE  ToolsInv' /\ ActionStep
<1> DEFINE how == DigBehavior(item, kind[Target])
           D == [at |-> Target, kind |-> kind[Target], how |-> how, progress |-> 0]
<1>1. ToolsTypeOK /\ presses \subseteq owed /\ Pointee # 0 /\ ~SameTarget
  BY DEF ToolsInv, NewTarget
<1>2. /\ dig' = IF how = "none" THEN NoDig ELSE D
      /\ IF how = "instant" THEN Sends("dig", Target) ELSE SendsNothing
      /\ spell' = Spell(0, 0) /\ UNCHANGED <<down, presses, releases, owed, ray, kind, item>>
  BY DEF NewTarget, input, world
<1>3. Target \in Cells /\ kind[Target] \in Kinds /\ how \in Ways
  <2>1. Target \in Cells /\ kind[Target] \in Kinds
    BY <1>1, TargetIsThere DEF ToolsTypeOK
  <2> QED BY <1>1, <2>1, BehaviorIsAWay DEF ToolsTypeOK
<1> HIDE DEF how
<1>4. D \in [at : Cells, kind : Kinds, how : Ways, progress : 0 .. Locked] /\ D.progress = 0
  BY <1>3, WorkIsPositive
<1>5. dig' \in {NoDig} \cup [at : Cells, kind : Kinds, how : Ways, progress : 0 .. Locked]
  BY <1>2, <1>4
<1>6. sent' \in {NoAction} \cup [do : {"dig", "tap", "place", "interact"}, at : Cells]
  BY <1>2, <1>3 DEF Sends, SendsNothing
<1>7. ToolsTypeOK'
  BY <1>1, <1>2, <1>5, <1>6 DEF ToolsTypeOK
<1>8. spell'.dug = 0 /\ spell' \in Spells
  <2>1. PICK was \in Spells :
          /\ was = IF spell.at = Target /\ spell.kind = kind[Target] THEN spell ELSE NoSpell
          /\ Spell(0, 0).dug = was.dug + 0 /\ was.dug \in 0 .. 1
          /\ was.dug + 0 \in 0 .. 1 => Spell(0, 0) \in Spells
    BY <1>1, SpellOn
  <2>2. was.dug = 0
    BY <1>1, <2>1 DEF ToolsInv, SameTarget, OfSpell, NoSpell
  <2> QED BY <1>2, <2>1, <2>2
<1>9. ToolsInv'
  BY <1>1, <1>2, <1>4, <1>7, <1>8 DEF ToolsInv
<1>10. sent'.do \in {"none", "dig"} /\ (sent'.do = "dig" => how = "instant")
  BY <1>2 DEF Sends, SendsNothing, NoAction
<1>11. how = "instant" => dig'.how # "oneshot"
  BY <1>2
<1>12. spell.dug \in 0 .. 1
  BY DEF ToolsInv, Spells, NoSpell
<1>13. ActionStep
  BY <1>8, <1>10, <1>11, <1>12 DEF ActionStep
<1> QED BY <1>9, <1>13

\* On the target: what the progress is, and that of the spell.
LEMMA OnTargetIs ==
  ASSUME ToolsInv, OnTarget
  PROVE  /\ dig \in [at : Cells, kind : Kinds, how : Ways, progress : 0 .. Locked]
         /\ dig # NoDig /\ Pointee # 0 /\ dig.at = Target /\ dig.kind = kind[Target]
         /\ Target \in Cells /\ kind[Target] \in Kinds
<1>1. Pointee # 0 /\ dig # NoDig /\ dig.at = Target /\ dig.kind = kind[Target] /\ ToolsTypeOK
  BY DEF OnTarget, SameTarget, ToolsInv
<1>2. Target \in Cells
  BY <1>1, TargetIsThere
<1>3. dig \in [at : Cells, kind : Kinds, how : Ways, progress : 0 .. Locked]
  BY <1>1, DigIsOfABlock DEF ToolsTypeOK
<1> QED BY <1>1, <1>2, <1>3 DEF ToolsTypeOK

\* Digging by time: progress and frames go on together, and at the end of it the dig is locked.
LEMMA DigOnInv ==
  ASSUME ToolsInv, DigOn, frame' = FALSE, UNCHANGED <<world, item>>
  PROVE  ToolsInv' /\ ActionStep
<1> DEFINE rate == Rate(dig.how)
           done == dig.progress + rate >= Work
           g == IF done THEN 1 ELSE 0
           q == IF done THEN Locked ELSE dig.progress + rate
<1>1. /\ ToolsTypeOK /\ presses \subseteq owed /\ OnTarget /\ dig.how \in ByTime /\ dig.progress # Locked
      /\ dig' = [dig EXCEPT !.progress = q]
      /\ IF done THEN Sends("dig", Target) ELSE SendsNothing
      /\ spell' = Spell(1, g) /\ UNCHANGED <<down, presses, releases, owed, ray, kind, item>>
  BY DEF ToolsInv, DigOn, input, world
<1>2. /\ dig \in [at : Cells, kind : Kinds, how : Ways, progress : 0 .. Locked]
      /\ dig # NoDig /\ Pointee # 0 /\ dig.at = Target /\ dig.kind = kind[Target]
      /\ Target \in Cells /\ kind[Target] \in Kinds
  BY <1>1, OnTargetIs
<1>3. rate \in 1 .. 2 /\ dig.progress \in Nat /\ dig.progress <= Work /\ Work \in Nat /\ Work # 0 /\ Locked = Work
  BY <1>2, WorkIsPositive DEF Rate
<1> HIDE DEF rate
<1>4. g \in 0 .. 1 /\ q \in 0 .. Locked /\ q <= dig.progress + rate /\ (g = 1 => q = Locked)
  BY <1>3
<1>5. (g = 1 <=> done) /\ (done => dig.progress + rate >= Work)
  OBVIOUS
<1> HIDE DEF g, q, done
<1>6. /\ dig' \in [at : Cells, kind : Kinds, how : Ways, progress : 0 .. Locked]
      /\ dig'.at = Target /\ dig'.kind = kind[Target] /\ dig'.how = dig.how /\ dig'.progress = q
  BY <1>1, <1>2, <1>4
<1>7. dig' # NoDig
  BY <1>6, BlockIsNoDig
<1>8. sent' \in {NoAction} \cup [do : {"dig", "tap", "place", "interact"}, at : Cells]
  BY <1>1, <1>2 DEF Sends, SendsNothing
<1>9. ToolsTypeOK'
  BY <1>1, <1>6, <1>8 DEF ToolsTypeOK
<1>10. PICK was \in Spells :
         /\ was = IF spell.at = Target /\ spell.kind = kind[Target] THEN spell ELSE NoSpell
         /\ was.held \in 0 .. Work /\ was.dug \in 0 .. 1
         /\ Spell(1, g).at = Target /\ Spell(1, g).kind = kind[Target]
         /\ Spell(1, g).dug = was.dug + g
         /\ Spell(1, g).held = IF was.held = Work THEN Work ELSE was.held + 1
         /\ Spell(1, g).held \in 0 .. Work
         /\ was.dug + g \in 0 .. 1 => Spell(1, g) \in Spells
  BY <1>2, <1>4, SpellOn
<1>11. was.dug = 0
  BY <1>1, <1>2, <1>10 DEF ToolsInv, OfSpell, NoSpell
<1>12. dig.progress <= 2 * was.held
  <2>1. CASE dig.progress = 0
    BY <1>10, <2>1
  <2>2. CASE dig.progress # 0
    <3>1. was = spell /\ dig.progress <= 2 * spell.held
      BY <1>2, <1>10, <2>2 DEF ToolsInv, OfSpell
    <3> QED BY <3>1
  <2> QED BY <2>1, <2>2
<1>13. /\ spell'.dug = g /\ spell' \in Spells /\ spell'.at = Target /\ spell'.kind = kind[Target]
       /\ spell'.held \in 0 .. Work
  BY <1>1, <1>4, <1>10, <1>11
<1>14. q <= 2 * spell'.held /\ (g = 1 => 2 * spell'.held >= Work)
  <2> DEFINE h == was.held
             n == spell'.held
             a == dig.progress
  <2>1. h \in 0 .. Work /\ n \in 0 .. Work /\ (n = IF h = Work THEN Work ELSE h + 1) /\ a <= 2 * h
    BY <1>1, <1>10, <1>12, <1>13
  <2>2. a \in Nat /\ q <= a + rate /\ q <= Work /\ q \in Nat /\ (g = 1 => a + rate >= Work)
    BY <1>3, <1>4, <1>5
  <2> HIDE DEF h, n, a
  <2>3. q <= 2 * n /\ (g = 1 => 2 * n >= Work)
    BY <1>3, <2>1, <2>2
  <2> QED BY <2>3 DEF n
<1>15. OfSpell(dig)'
  BY <1>1, <1>6, <1>7, <1>13 DEF OfSpell
<1>16. ToolsInv'
  BY <1>1, <1>4, <1>6, <1>9, <1>13, <1>14, <1>15 DEF ToolsInv, Locked
<1>17. /\ sent'.do \in {"none", "dig"} /\ dig'.how # "oneshot"
  BY <1>1, <1>6 DEF Sends, SendsNothing, NoAction, ByTime
<1>18. spell.dug \in 0 .. 1
  BY DEF ToolsInv, Spells, NoSpell
<1>19. ActionStep
  BY <1>4, <1>13, <1>14, <1>17, <1>18 DEF ActionStep
<1> QED BY <1>16, <1>19

\* Frames on the target in which progress stays as it is.
LEMMA StaysOnTarget ==
  ASSUME ToolsInv, OnTarget, NEW h \in 0 .. 1, spell' = Spell(h, 0), dig' = dig,
         ToolsTypeOK', presses' \subseteq owed'
  PROVE  ToolsInv' /\ spell'.dug \in 0 .. 1 /\ spell'.dug <= spell.dug
<1>1. /\ dig \in [at : Cells, kind : Kinds, how : Ways, progress : 0 .. Locked]
      /\ dig # NoDig /\ Pointee # 0 /\ dig.at = Target /\ dig.kind = kind[Target]
  BY OnTargetIs
<1>2. PICK was \in Spells :
        /\ was = IF spell.at = Target /\ spell.kind = kind[Target] THEN spell ELSE NoSpell
        /\ was.held \in 0 .. Work /\ was.dug \in 0 .. 1
        /\ Spell(h, 0).at = Target /\ Spell(h, 0).kind = kind[Target]
        /\ Spell(h, 0).dug = was.dug + 0
        /\ Spell(h, 0).held = IF was.held = Work THEN Work ELSE was.held + h
        /\ Spell(h, 0).held \in 0 .. Work
        /\ was.dug + 0 \in 0 .. 1 => Spell(h, 0) \in Spells
  BY <1>1, SpellOn
<1>3. /\ spell'.dug = was.dug /\ spell' \in Spells /\ spell'.at = Target /\ spell'.kind = kind[Target]
      /\ spell'.held \in Nat /\ spell'.held >= was.held
  BY <1>2, WorkIsPositive
<1>4. OfSpell(dig)'
  BY <1>1, <1>3 DEF OfSpell
<1>5. spell.dug \in 0 .. 1 /\ was.dug <= spell.dug
  <2>1. spell.dug \in 0 .. 1
    BY DEF ToolsInv, Spells, NoSpell
  <2> QED BY <1>2, <2>1 DEF NoSpell
<1>6. was.dug # 0 => dig.progress = Locked
  BY <1>2, <1>5 DEF ToolsInv, NoSpell
<1>7. dig.progress # 0 => was = spell /\ dig.progress <= 2 * spell.held
  BY <1>1, <1>2 DEF ToolsInv, OfSpell
<1>8. dig.progress # 0 => dig.progress <= 2 * spell'.held
  <2>1. dig.progress \in Nat /\ was.held \in Nat
    BY <1>1, <1>2, WorkIsPositive
  <2> QED BY <1>3, <1>7, <2>1
<1>9. ToolsInv'
  BY <1>3, <1>4, <1>6, <1>8 DEF ToolsInv, Locked
<1> QED BY <1>2, <1>3, <1>5, <1>9

LEMMA DigOneshotInv ==
  ASSUME ToolsInv, DigOneshot, frame' = FALSE, UNCHANGED <<world, item>>
  PROVE  ToolsInv' /\ ActionStep
<1>1. /\ ToolsTypeOK /\ presses \subseteq owed /\ OnTarget /\ "dig" \in presses
      /\ sent' = [do |-> "dig", at |-> Target] /\ dig' = dig /\ spell' = Spell(1, 0)
      /\ presses' = presses \ {"dig"} /\ owed' = owed \ {"dig"} /\ UNCHANGED <<down, releases, ray, kind, item>>
  BY DEF ToolsInv, DigOneshot, Takes, Sends, world
<1>2. Target \in Cells
  BY <1>1, OnTargetIs
<1>3. ToolsTypeOK'
  BY <1>1, <1>2 DEF ToolsTypeOK
<1>4. ToolsInv' /\ spell'.dug \in 0 .. 1 /\ spell'.dug <= spell.dug
  BY <1>1, <1>3, StaysOnTarget
<1>5. spell.dug \in 0 .. 1
  BY DEF ToolsInv, Spells, NoSpell
<1>6. ActionStep
  BY <1>1, <1>4, <1>5 DEF ActionStep
<1> QED BY <1>4, <1>6

LEMMA DigRestsInv ==
  ASSUME ToolsInv, DigRests, frame' = FALSE, UNCHANGED <<world, item>>
  PROVE  ToolsInv' /\ ActionStep
<1>1. /\ ToolsTypeOK /\ presses \subseteq owed /\ OnTarget /\ sent' = NoAction /\ dig' = dig
      /\ spell' = Spell(1, 0) /\ UNCHANGED <<down, presses, releases, owed, ray, kind, item>>
  BY DEF ToolsInv, DigRests, SendsNothing, input, world
<1>2. ToolsTypeOK'
  BY <1>1 DEF ToolsTypeOK
<1>3. ToolsInv' /\ spell'.dug \in 0 .. 1 /\ spell'.dug <= spell.dug
  BY <1>1, <1>2, StaysOnTarget
<1>4. spell.dug \in 0 .. 1
  BY DEF ToolsInv, Spells, NoSpell
<1>5. ActionStep
  BY <1>1, <1>3, <1>4 DEF ActionStep, NoAction
<1> QED BY <1>3, <1>5

\* The other buttons: an answer is to a press.
LEMMA AnswerInv ==
  ASSUME ToolsInv, Answer, frame' = FALSE, UNCHANGED <<world, item>>
  PROVE  ToolsInv' /\ ActionStep
<1>1. /\ ToolsTypeOK /\ presses \subseteq owed /\ OnTarget /\ dig' = dig
      /\ spell' = Spell(0, 0) /\ UNCHANGED <<ray, kind, item>>
  BY DEF ToolsInv, Answer, world
<1>2. Target \in Cells /\ (Neighbor # NoBlock => Neighbor \in Cells)
  <2>1. Target \in Cells /\ Pointee # 0
    BY <1>1, OnTargetIs
  <2> QED BY <1>1, <2>1, NeighborIsThere
<1>3. /\ down' = down /\ releases' \in {releases, {}} /\ presses' \subseteq presses /\ presses' \subseteq owed'
      /\ owed' \subseteq owed
      /\ sent' \in {NoAction} \cup [do : {"dig", "tap", "place", "interact"}, at : Cells]
      /\ sent'.do \in {"none", "tap"} \cup presses /\ sent'.do # "dig"
  <2>1. CASE "dig" \in releases
    BY <1>1, <1>2, <2>1 DEF Answer, Sends
  <2>2. CASE "dig" \notin releases /\ "place" \in presses /\ Neighbor # NoBlock
    BY <1>1, <1>2, <2>2 DEF Answer, Sends, Takes
  <2>3. CASE "dig" \notin releases /\ ~("place" \in presses /\ Neighbor # NoBlock) /\ "interact" \in presses
    <3>1. /\ sent' = [do |-> "interact", at |-> Target]
          /\ presses' = presses \cap {"dig"} /\ owed' = owed \ {"place", "interact"}
          /\ UNCHANGED <<down, releases>>
      BY <2>3 DEF Answer, Sends
    <3> QED BY <1>1, <1>2, <2>3, <3>1
  <2>4. CASE "dig" \notin releases /\ ~("place" \in presses /\ Neighbor # NoBlock) /\ "interact" \notin presses
    BY <1>1, <2>4 DEF Answer, SendsNothing, Takes, NoAction
  <2> QED BY <2>1, <2>2, <2>3, <2>4
<1>4. ToolsTypeOK'
  BY <1>1, <1>3 DEF ToolsTypeOK
<1>5. ToolsInv' /\ spell'.dug \in 0 .. 1 /\ spell'.dug <= spell.dug
  BY <1>1, <1>3, <1>4, StaysOnTarget
<1>6. spell.dug \in 0 .. 1
  BY DEF ToolsInv, Spells, NoSpell
<1>7. ActionStep
  BY <1>1, <1>3, <1>5, <1>6 DEF ActionStep
<1> QED BY <1>5, <1>7

LEMMA ToolsNextInv == ASSUME ToolsInv, ToolsNext PROVE ToolsInv' /\ ActionStep
<1>1. CASE Update
  <2>1. frame' = FALSE /\ UNCHANGED <<world, item>>
    BY <1>1 DEF Update
  <2> QED BY <1>1, <2>1, NoTargetInv, NewTargetInv, DigOnInv, DigOneshotInv, DigRestsInv, AnswerInv DEF Update
<1>2. CASE UpdateItem
  BY <1>2, UpdateItemInv
<1>3. CASE Look \/ BlockChanges \/ (\E b \in Buttons : Press(b) \/ Release(b)) \/ NextFrame
  BY <1>3, EventsInv
<1> QED BY <1>1, <1>2, <1>3 DEF ToolsNext

\* ToolsSpec: progress and presses are always as the frames and the buttons made them.
THEOREM ToolsInvariant == ToolsSpec => []ToolsInv
<1>1. ToolsInv /\ [ToolsNext]_toolVars => ToolsInv'
  <2>1. ASSUME ToolsInv, UNCHANGED toolVars PROVE ToolsInv'
    BY <2>1 DEF toolVars, input, world, ToolsInv, ToolsTypeOK, OfSpell
  <2> QED BY <2>1, ToolsNextInv
<1> QED BY <1>1, ToolsInitInv, PTL DEF ToolsSpec

\* For all rules of items, blocks and buttons.
THEOREM PressesAndDigsFit == ToolsSpec => ActionsFit
<1>1. ToolsInv /\ [ToolsNext]_toolVars => [ActionStep]_toolVars
  BY ToolsNextInv
<1> QED BY <1>1, ToolsInvariant, PTL DEF ToolsSpec, ActionsFit
-----------------------------------------------------------------------------
(***************************************************************************)
(* Proofs about Physics, for any blocks, worlds and strides that are short *)
(* enough on foot: no frame takes a player into a block that collides.     *)
(*                                                                         *)
(* Along one axis a player covers the numbers from Low to High; a step     *)
(* along that axis stops before the first block that it would cover anew   *)
(* (ClampAlong).  A loop of such steps therefore covers no colliding block *)
(* that was not covered before it, and leaves none out on a straight way   *)
(* (Gone).  Stepping up is one clamp along two axes, which is why strides  *)
(* on foot have to be short (ClampAcross).                                 *)
(***************************************************************************)
\* Positions and blocks, axis by axis.
LEMMA AlongAxes ==
  /\ \A p \in Positions : p.x = p["x"] /\ p.y = p["y"] /\ p.z = p["z"]
  /\ \A i, j, k \in Int : [x |-> i, y |-> j, z |-> k] \in Positions
  /\ \A i, j, k \in Int :
       [x |-> i, y |-> j, z |-> k]["x"] = i /\ [x |-> i, y |-> j, z |-> k]["y"] = j
       /\ [x |-> i, y |-> j, z |-> k]["z"] = k
  /\ \A p \in Positions : p = [x |-> p["x"], y |-> p["y"], z |-> p["z"]]
BY DEF Positions, Axes

LEMMA SamePosition ==
  ASSUME NEW p \in Positions, NEW q \in Positions, \A a \in Axes : p[a] = q[a] PROVE p = q
BY DEF Positions

\* f64::round: to the nearest, halves to one of the two.
LEMMA RoundIs ==
  ASSUME NEW n \in Int, NEW k \in Int
  PROVE  /\ Round(n) \in Int
         /\ n <= 400 * k + 199 => Round(n) <= k
         /\ n >= 400 * k - 199 => Round(n) >= k
         /\ n = 400 * k + 200 => Round(n) \in {k, k + 1}
         /\ Round(n) <= k => n <= 400 * k + 200
         /\ Round(n) >= k => n >= 400 * k - 200
BY DEF Round, AbsOf, Sign, Block

LEMMA RoundGrows == ASSUME NEW m \in Int, NEW n \in Int, m <= n PROVE Round(m) <= Round(n)
BY DEF Round, AbsOf, Sign, Block

\* A player is thinner than a block from side to side, and not two blocks high.
LEMMA Corners ==
  ASSUME NEW a \in Axes
  PROVE  /\ CornerPos[a] \in Int /\ CornerNeg[a] \in Int
         /\ CornerPos[a] - CornerNeg[a] \in {300, 680}
         /\ a \in {"x", "z"} => CornerPos[a] - CornerNeg[a] = 300
BY DEF Axes, CornerPos, CornerNeg

LEMMA Covers ==
  ASSUME NEW p \in Positions, NEW a \in Axes
  PROVE  p[a] \in Int /\ Low(p, a) \in Int /\ High(p, a) \in Int /\ Low(p, a) <= High(p, a)
<1>1. p[a] \in Int
  BY DEF Positions
<1>2. /\ p[a] + CornerNeg[a] \in Int /\ p[a] + CornerPos[a] \in Int
      /\ p[a] + CornerNeg[a] <= p[a] + CornerPos[a]
  BY <1>1, Corners
<1> QED BY <1>1, <1>2, RoundIs, RoundGrows DEF Low, High

\* What is covered is what is covered along every axis.
LEMMA BoxedIs ==
  ASSUME NEW p \in Positions
  PROVE  \A b : b \in Boxed(p) <=> b \in Positions /\ \A a \in Axes : b[a] \in Low(p, a) .. High(p, a)
<1>1. \A a \in Axes : Low(p, a) \in Int /\ High(p, a) \in Int
  BY Covers
<1> DEFINE X == Low(p, "x") .. High(p, "x")
           Y == Low(p, "y") .. High(p, "y")
           Z == Low(p, "z") .. High(p, "z")
<1>2. X \subseteq Int /\ Y \subseteq Int /\ Z \subseteq Int
  BY <1>1 DEF Axes
<1>3. Boxed(p) = {[x |-> i, y |-> j, z |-> k] : i \in X, j \in Y, k \in Z}
  BY DEF Boxed
<1> HIDE DEF X, Y, Z
<1>4. ASSUME NEW b \in Boxed(p) PROVE b \in Positions /\ b["x"] \in X /\ b["y"] \in Y /\ b["z"] \in Z
  <2>1. PICK i \in X, j \in Y, k \in Z : b = [x |-> i, y |-> j, z |-> k]
    BY <1>3
  <2> QED BY <1>2, <2>1, AlongAxes
<1>5. ASSUME NEW b \in Positions, b["x"] \in X, b["y"] \in Y, b["z"] \in Z PROVE b \in Boxed(p)
  <2>1. b = [x |-> b["x"], y |-> b["y"], z |-> b["z"]]
    BY AlongAxes
  <2> QED BY <1>3, <1>5, <2>1
<1>6. \A b : (\A a \in Axes : b[a] \in Low(p, a) .. High(p, a)) <=> b["x"] \in X /\ b["y"] \in Y /\ b["z"] \in Z
  BY DEF X, Y, Z, Axes
<1> QED BY <1>4, <1>5, <1>6, Zenon

\* Some whole numbers with a bound have a greatest, or a least.
LEMMA LeastOfNumbers ==
  ASSUME NEW U \in SUBSET Nat, U # {} PROVE \E m \in U : \A u \in U : m <= u
<1> DEFINE Smaller == {ss \in Nat \X Nat : ss[1] < ss[2]}
<1>1. IsWellFoundedOn(Smaller, Nat)
  BY NatLessThanWellFounded DEF OpToRel
<1>2. \A x, y \in Nat : <<y, x>> \in Smaller <=> y < x
  OBVIOUS
<1> HIDE DEF Smaller
<1>3. PICK x \in U : \A y \in U : ~(<<y, x>> \in Smaller)
  BY <1>1, WFMin, Zenon
<1>4. \A y \in U : x <= y
  <2> SUFFICES ASSUME NEW y \in U PROVE x <= y
    OBVIOUS
  <2>1. x \in Nat /\ y \in Nat /\ ~(y < x)
    BY <1>2, <1>3
  <2> QED BY <2>1
<1> QED BY <1>4

LEMMA GreatestIs ==
  ASSUME NEW S \in SUBSET Int, S # {}, NEW n \in Int, \A s \in S : s <= n
  PROVE  Max(S) \in S /\ \A s \in S : s <= Max(S)
<1> DEFINE U == {n - s : s \in S}
<1>1. U \in SUBSET Nat /\ U # {}
  <2>1. \A s \in S : n - s \in Nat
    OBVIOUS
  <2>2. PICK s \in S : TRUE
    OBVIOUS
  <2>3. n - s \in U
    BY <2>2
  <2> QED BY <2>1, <2>3
<1>2. PICK m \in U : \A u \in U : m <= u
  <2> HIDE DEF U
  <2> QED BY <1>1, LeastOfNumbers
<1>3. PICK x \in S : m = n - x
  OBVIOUS
<1>4. ASSUME NEW s \in S PROVE x >= s
  <2>1. n - s \in U
    OBVIOUS
  <2>2. m <= n - s /\ s \in Int /\ x \in Int
    BY <1>2, <2>1
  <2> QED BY <1>3, <2>2
<1>5. Max(S) \in S /\ \A s \in S : Max(S) >= s
  BY <1>4 DEF Max
<1> QED BY <1>5

LEMMA LeastIs ==
  ASSUME NEW S \in SUBSET Int, S # {}, NEW n \in Int, \A s \in S : n <= s
  PROVE  Min(S) \in S /\ \A s \in S : Min(S) <= s
<1> DEFINE U == {s - n : s \in S}
<1>1. U \in SUBSET Nat /\ U # {}
  <2>1. \A s \in S : s - n \in Nat
    OBVIOUS
  <2>2. PICK s \in S : TRUE
    OBVIOUS
  <2>3. s - n \in U
    BY <2>2
  <2> QED BY <2>1, <2>3
<1>2. PICK m \in U : \A u \in U : m <= u
  <2> HIDE DEF U
  <2> QED BY <1>1, LeastOfNumbers
<1>3. PICK x \in S : m = x - n
  OBVIOUS
<1>4. ASSUME NEW s \in S PROVE x =< s
  <2>1. s - n \in U
    OBVIOUS
  <2>2. m <= s - n /\ s \in Int /\ x \in Int
    BY <1>2, <2>1
  <2> QED BY <1>3, <2>2
<1>5. Min(S) \in S /\ \A s \in S : Min(S) =< s
  BY <1>4 DEF Min
<1> QED BY <1>5
-----------------------------------------------------------------------------
(* A clamp along one axis.                                                 *)

\* What is covered from v along an axis, and how far a clamp may be to go.
LowAt(a, v) == Round(v + CornerNeg[a])
HighAt(a, v) == Round(v + CornerPos[a])
Within(i, a, v) == LowAt(a, v) <= i /\ i <= HighAt(a, v)
Span(a) == IF a = "y" THEN 279 ELSE 299
\* The boundary of a block that is met from above, and from below.
FloorOf(a, k) == 400 * k + 200 - CornerNeg[a]
WallOf(a, k) == 400 * k - 200 - CornerPos[a]

LEMMA LowIs ==
  ASSUME NEW a \in Axes, NEW v \in Int, NEW k \in Int
  PROVE  /\ LowAt(a, v) \in Int /\ FloorOf(a, k) \in Int
         /\ v < FloorOf(a, k) => LowAt(a, v) <= k
         /\ v > FloorOf(a, k) => LowAt(a, v) > k
         /\ LowAt(a, v) <= k => v <= FloorOf(a, k)
         /\ LowAt(a, v) > k => v >= FloorOf(a, k)
<1>1. CornerNeg[a] \in Int
  BY Corners
<1> DEFINE n == v + CornerNeg[a]
<1>2. n \in Int /\ k + 1 \in Int
  BY <1>1
<1> HIDE DEF n
<1>3. /\ Round(n) \in Int
      /\ n <= 400 * k + 199 => Round(n) <= k
      /\ n >= 400 * (k + 1) - 199 => Round(n) >= k + 1
      /\ Round(n) <= k => n <= 400 * k + 200
      /\ Round(n) >= k + 1 => n >= 400 * (k + 1) - 200
  BY <1>2, RoundIs
<1>4. LowAt(a, v) = Round(n)
  BY DEF LowAt, n
<1> QED BY <1>1, <1>2, <1>3, <1>4 DEF FloorOf, n

LEMMA HighIs ==
  ASSUME NEW a \in Axes, NEW v \in Int, NEW k \in Int
  PROVE  /\ HighAt(a, v) \in Int /\ WallOf(a, k) \in Int
         /\ v < WallOf(a, k) => HighAt(a, v) < k
         /\ v > WallOf(a, k) => HighAt(a, v) >= k
         /\ HighAt(a, v) < k => v <= WallOf(a, k)
         /\ HighAt(a, v) >= k => v >= WallOf(a, k)
<1>1. CornerPos[a] \in Int
  BY Corners
<1> DEFINE n == v + CornerPos[a]
<1>2. n \in Int /\ k - 1 \in Int
  BY <1>1
<1> HIDE DEF n
<1>3. /\ Round(n) \in Int
      /\ n <= 400 * (k - 1) + 199 => Round(n) <= k - 1
      /\ n >= 400 * k - 199 => Round(n) >= k
      /\ Round(n) <= k - 1 => n <= 400 * (k - 1) + 200
      /\ Round(n) >= k => n >= 400 * k - 200
  BY <1>2, RoundIs
<1>4. HighAt(a, v) = Round(n)
  BY DEF HighAt, n
<1> QED BY <1>1, <1>2, <1>3, <1>4 DEF WallOf, n

\* Who is further along an axis covers no less far.
LEMMA FurtherCovers ==
  ASSUME NEW a \in Axes, NEW u \in Int, NEW v \in Int, u <= v
  PROVE  LowAt(a, u) <= LowAt(a, v) /\ HighAt(a, u) <= HighAt(a, v)
<1>1. CornerNeg[a] \in Int /\ CornerPos[a] \in Int
  BY Corners
<1> QED BY <1>1, RoundGrows DEF LowAt, HighAt

\* Down to a floor: what is covered just above it, and on the way to it.
LEMMA OnFloor ==
  ASSUME NEW a \in Axes, NEW k \in Int, NEW o \in Int, NEW n \in Int, n < o, o - n <= Span(a),
         n <= FloorOf(a, k), FloorOf(a, k) <= o
  PROVE  /\ LowAt(a, FloorOf(a, k) + 1) = k + 1
         /\ HighAt(a, FloorOf(a, k) + 1) <= HighAt(a, n)
         /\ HighAt(a, FloorOf(a, k) + 1) <= HighAt(a, o)
<1> DEFINE w == FloorOf(a, k)
<1>1. w \in Int /\ CornerPos[a] \in Int /\ CornerNeg[a] \in Int
  BY Corners, LowIs
<1>2. CornerPos[a] - CornerNeg[a] = IF a = "y" THEN 680 ELSE 300
  BY DEF Axes, CornerPos, CornerNeg
<1> HIDE DEF w
<1>3. LowAt(a, w + 1) = k + 1
  <2>1. FloorOf(a, k + 1) = w + 400
    BY <1>1 DEF FloorOf, w
  <2>2. LowAt(a, w + 1) > k /\ LowAt(a, w + 1) <= k + 1 /\ LowAt(a, w + 1) \in Int
    BY <1>1, <2>1, LowIs DEF w
  <2> QED BY <2>2
<1> DEFINE h == IF a = "y" THEN k + 2 ELSE k + 1
<1>4. h \in Int /\ WallOf(a, h + 1) = w + (IF a = "y" THEN 120 ELSE 100) /\ WallOf(a, h) = w - (IF a = "y" THEN 280 ELSE 300)
  BY <1>1, <1>2 DEF FloorOf, WallOf, w
<1> HIDE DEF h
<1>5. HighAt(a, w + 1) < h + 1 /\ HighAt(a, w + 1) \in Int
  BY <1>1, <1>4, HighIs
<1>6. HighAt(a, n) >= h /\ HighAt(a, n) \in Int /\ HighAt(a, o) >= h /\ HighAt(a, o) \in Int
  <2>1. n > WallOf(a, h) /\ o > WallOf(a, h)
    BY <1>1, <1>4 DEF Span, w
  <2> QED BY <1>4, <2>1, HighIs
<1> QED BY <1>3, <1>4, <1>5, <1>6 DEF w

\* Up to a wall.
LEMMA OnWall ==
  ASSUME NEW a \in Axes, NEW k \in Int, NEW o \in Int, NEW n \in Int, n > o, n - o <= Span(a),
         n >= WallOf(a, k), WallOf(a, k) >= o
  PROVE  /\ HighAt(a, WallOf(a, k) - 1) = k - 1
         /\ LowAt(a, WallOf(a, k) - 1) >= LowAt(a, n)
         /\ LowAt(a, WallOf(a, k) - 1) >= LowAt(a, o)
<1> DEFINE w == WallOf(a, k)
<1>1. w \in Int /\ CornerPos[a] \in Int /\ CornerNeg[a] \in Int
  BY Corners, HighIs
<1>2. CornerPos[a] - CornerNeg[a] = IF a = "y" THEN 680 ELSE 300
  BY DEF Axes, CornerPos, CornerNeg
<1> HIDE DEF w
<1>3. HighAt(a, w - 1) = k - 1
  <2>1. WallOf(a, k - 1) = w - 400
    BY <1>1 DEF WallOf, w
  <2>2. HighAt(a, w - 1) < k /\ HighAt(a, w - 1) >= k - 1 /\ HighAt(a, w - 1) \in Int
    BY <1>1, <2>1, HighIs DEF w
  <2> QED BY <2>2
<1> DEFINE l == IF a = "y" THEN k - 2 ELSE k - 1
<1>4. l \in Int /\ FloorOf(a, l - 1) = w - (IF a = "y" THEN 120 ELSE 100) /\ FloorOf(a, l) = w + (IF a = "y" THEN 280 ELSE 300)
  BY <1>1, <1>2 DEF FloorOf, WallOf, w
<1> HIDE DEF l
<1>5. LowAt(a, w - 1) > l - 1 /\ LowAt(a, w - 1) \in Int
  BY <1>1, <1>4, LowIs
<1>6. LowAt(a, n) <= l /\ LowAt(a, n) \in Int /\ LowAt(a, o) <= l /\ LowAt(a, o) \in Int
  <2>1. n < FloorOf(a, l) /\ o < FloorOf(a, l)
    BY <1>1, <1>4 DEF Span, w
  <2> QED BY <1>4, <2>1, LowIs
<1> QED BY <1>3, <1>4, <1>5, <1>6 DEF w

\* What ClampAxis makes of a way down, a way up, and no way, when all blocks are in what
\* is to be covered.
Meets(a, n, blocks) == blocks \subseteq Positions /\ \A b \in blocks : Within(b[a], a, n)

LEMMA ClampDown ==
  ASSUME NEW a \in Axes, NEW o \in Int, NEW n \in Int, NEW B, Meets(a, n, B), n < o, o - n <= Span(a),
         NEW r, r = ClampAxis(a, o, n, B)
  PROVE  /\ r \in Int /\ n <= r /\ r <= o + 1
         /\ r = o + 1 => \E k \in Int : o = FloorOf(a, k)
         /\ LowAt(a, n) <= LowAt(a, r) /\ HighAt(a, r) <= HighAt(a, n)
         /\ \A b \in B : Within(b[a], a, r) => Within(b[a], a, o)
         /\ HighAt(a, r) <= HighAt(a, o)
         /\ (\A b \in B : ~Within(b[a], a, o)) => LowAt(a, r) <= LowAt(a, o)
<1> DEFINE low == {400 * b[a] + 200 - CornerNeg[a] : b \in B}
           F == {w \in low : o + 1 > w /\ n - 1 < w}
<1>1. CornerNeg[a] \in Int /\ \A b \in B : b[a] \in Int /\ Within(b[a], a, n)
  BY Corners DEF Meets, Positions
<1>2. low \subseteq Int
  BY <1>1
<1>3. r = IF F # {} THEN Max(F) + 1 ELSE n
  <2>1. Block * 1 = 400 /\ Block \div 2 = 200 /\ Block = 400 /\ Eps = 1
    BY DEF Block, Eps
  <2>2. low = {Block * b[a] + Block \div 2 - CornerNeg[a] : b \in B}
    BY <2>1
  <2>3. F = {w \in low : o + Eps > w /\ n - Eps < w}
    BY <2>1
  <2> HIDE DEF low, F
  <2>4. ~(n > o)
    OBVIOUS
  <2>5. ClampAxis(a, o, n, B) = IF n < o /\ F # {} THEN Max(F) + Eps ELSE n
    BY <2>2, <2>3, <2>4, Zenon DEF ClampAxis
  <2> QED BY <2>1, <2>5
<1>4. \A i \in Int : /\ LowAt(a, n) \in Int /\ HighAt(a, n) \in Int /\ LowAt(a, o) \in Int /\ HighAt(a, o) \in Int
                     /\ LowAt(a, n) <= LowAt(a, o) /\ HighAt(a, n) <= HighAt(a, o)
  BY LowIs, HighIs, FurtherCovers
<1>5. \A w : w \in F <=> w \in Int /\ w <= o /\ n <= w /\ \E b \in B : w = FloorOf(a, b[a])
  <2>1. \A w : w \in low <=> \E b \in B : w = FloorOf(a, b[a])
    BY DEF FloorOf
  <2>2. \A w \in Int : (o + 1 > w <=> w <= o) /\ (n - 1 < w <=> n <= w)
    OBVIOUS
  <2> HIDE DEF low
  <2> QED BY <1>2, <2>1, <2>2
<1>6. ASSUME NEW b \in B, ~Within(b[a], a, o) PROVE b[a] < LowAt(a, o) /\ FloorOf(a, b[a]) \in F
  <2>1. b[a] \in Int /\ LowAt(a, n) <= b[a] /\ b[a] <= HighAt(a, n)
    BY <1>1 DEF Within
  <2>2. b[a] < LowAt(a, o)
    BY <1>4, <1>6, <2>1 DEF Within
  <2>3. FloorOf(a, b[a]) \in Int /\ FloorOf(a, b[a]) <= o /\ n <= FloorOf(a, b[a])
    BY <1>4, <2>1, <2>2, LowIs
  <2> QED BY <1>5, <2>2, <2>3
<1> HIDE DEF low, F
<1>7. CASE F = {}
  <2>1. r = n
    BY <1>3, <1>7
  <2> QED BY <1>4, <1>6, <1>7, <2>1
<1>8. CASE F # {}
  <2>1. Max(F) \in F /\ \A w \in F : w <= Max(F)
    <3>1. F \in SUBSET Int /\ \A w \in F : w <= o
      BY <1>5
    <3> QED BY <1>8, <3>1, GreatestIs
  <2>2. PICK b0 \in B : Max(F) = FloorOf(a, b0[a])
    BY <1>5, <2>1
  <2> DEFINE k == b0[a]
  <2>3. k \in Int /\ r = FloorOf(a, k) + 1 /\ FloorOf(a, k) \in Int /\ n <= FloorOf(a, k) /\ FloorOf(a, k) <= o
    BY <1>1, <1>3, <1>5, <1>8, <2>1, <2>2
  <2>4. LowAt(a, r) = k + 1 /\ HighAt(a, r) <= HighAt(a, n) /\ HighAt(a, r) <= HighAt(a, o)
    BY <2>3, OnFloor
  <2>5. r \in Int /\ n <= r /\ r <= o + 1 /\ (r = o + 1 => o = FloorOf(a, k))
    BY <2>3
  <2>6. LowAt(a, n) <= LowAt(a, r)
    BY <2>5, FurtherCovers
  <2>7. ASSUME NEW b \in B, ~Within(b[a], a, o) PROVE b[a] <= k
    <3>1. FloorOf(a, b[a]) <= FloorOf(a, k) /\ b[a] \in Int
      BY <1>1, <1>6, <2>1, <2>2, <2>7
    <3> QED BY <1>1, <2>3, <3>1 DEF FloorOf
  <2>8. ASSUME NEW b \in B, Within(b[a], a, r) PROVE Within(b[a], a, o)
    <3>1. b[a] \in Int /\ k + 1 <= b[a]
      BY <1>1, <2>4, <2>8 DEF Within
    <3> QED BY <2>3, <2>7, <3>1
  <2>9. ASSUME \A b \in B : ~Within(b[a], a, o) PROVE LowAt(a, r) <= LowAt(a, o)
    <3>1. k < LowAt(a, o)
      BY <1>6, <2>9
    <3> QED BY <1>4, <2>3, <2>4, <3>1
  <2> QED BY <2>3, <2>4, <2>5, <2>6, <2>8, <2>9
<1> QED BY <1>7, <1>8

LEMMA ClampUp ==
  ASSUME NEW a \in Axes, NEW o \in Int, NEW n \in Int, NEW B, Meets(a, n, B), n > o, n - o <= Span(a),
         NEW r, r = ClampAxis(a, o, n, B)
  PROVE  /\ r \in Int /\ r <= n /\ o - 1 <= r
         /\ r = o - 1 => \E k \in Int : o = WallOf(a, k)
         /\ LowAt(a, n) <= LowAt(a, r) /\ HighAt(a, r) <= HighAt(a, n)
         /\ \A b \in B : Within(b[a], a, r) => Within(b[a], a, o)
         /\ LowAt(a, o) <= LowAt(a, r)
         /\ (\A b \in B : ~Within(b[a], a, o)) => HighAt(a, o) <= HighAt(a, r)
<1> DEFINE high == {400 * b[a] - 200 - CornerPos[a] : b \in B}
           W == {w \in high : o - 1 < w /\ n + 1 > w}
<1>1. CornerPos[a] \in Int /\ \A b \in B : b[a] \in Int /\ Within(b[a], a, n)
  BY Corners DEF Meets, Positions
<1>2. high \subseteq Int
  BY <1>1
<1>3. r = IF W # {} THEN Min(W) - 1 ELSE n
  <2>1. Block * 1 = 400 /\ Block \div 2 = 200 /\ Block = 400 /\ Eps = 1
    BY DEF Block, Eps
  <2>2. high = {Block * b[a] - Block \div 2 - CornerPos[a] : b \in B}
    BY <2>1
  <2>3. W = {w \in high : o - Eps < w /\ n + Eps > w}
    BY <2>1
  <2> HIDE DEF high, W
  <2>4. ~(n < o)
    OBVIOUS
  <2>5. ClampAxis(a, o, n, B) = IF n > o /\ W # {} THEN Min(W) - Eps ELSE n
    BY <2>2, <2>3, <2>4, Zenon DEF ClampAxis
  <2> QED BY <2>1, <2>5
<1>4. \A i \in Int : /\ LowAt(a, n) \in Int /\ HighAt(a, n) \in Int /\ LowAt(a, o) \in Int /\ HighAt(a, o) \in Int
                     /\ LowAt(a, o) <= LowAt(a, n) /\ HighAt(a, o) <= HighAt(a, n)
  BY LowIs, HighIs, FurtherCovers
<1>5. \A w : w \in W <=> w \in Int /\ w >= o /\ n >= w /\ \E b \in B : w = WallOf(a, b[a])
  <2>1. \A w : w \in high <=> \E b \in B : w = WallOf(a, b[a])
    BY DEF WallOf
  <2>2. \A w \in Int : (o - 1 < w <=> w >= o) /\ (n + 1 > w <=> n >= w)
    OBVIOUS
  <2> HIDE DEF high
  <2> QED BY <1>2, <2>1, <2>2
<1>6. ASSUME NEW b \in B, ~Within(b[a], a, o) PROVE b[a] > HighAt(a, o) /\ WallOf(a, b[a]) \in W
  <2>1. b[a] \in Int /\ LowAt(a, n) <= b[a] /\ b[a] <= HighAt(a, n)
    BY <1>1 DEF Within
  <2>2. b[a] > HighAt(a, o)
    BY <1>4, <1>6, <2>1 DEF Within
  <2>3. WallOf(a, b[a]) \in Int /\ WallOf(a, b[a]) >= o /\ n >= WallOf(a, b[a])
    BY <1>4, <2>1, <2>2, HighIs
  <2> QED BY <1>5, <2>2, <2>3
<1> HIDE DEF high, W
<1>7. CASE W = {}
  <2>1. r = n
    BY <1>3, <1>7
  <2> QED BY <1>4, <1>6, <1>7, <2>1
<1>8. CASE W # {}
  <2>1. Min(W) \in W /\ \A w \in W : Min(W) <= w
    <3>1. W \in SUBSET Int /\ \A w \in W : o <= w
      BY <1>5
    <3> QED BY <1>8, <3>1, LeastIs
  <2>2. PICK b0 \in B : Min(W) = WallOf(a, b0[a])
    BY <1>5, <2>1
  <2> DEFINE k == b0[a]
  <2>3. k \in Int /\ r = WallOf(a, k) - 1 /\ WallOf(a, k) \in Int /\ n >= WallOf(a, k) /\ WallOf(a, k) >= o
    BY <1>1, <1>3, <1>5, <1>8, <2>1, <2>2
  <2>4. HighAt(a, r) = k - 1 /\ LowAt(a, r) >= LowAt(a, n) /\ LowAt(a, r) >= LowAt(a, o)
    BY <2>3, OnWall
  <2>5. r \in Int /\ r <= n /\ o - 1 <= r /\ (r = o - 1 => o = WallOf(a, k))
    BY <2>3
  <2>6. HighAt(a, r) <= HighAt(a, n)
    BY <2>5, FurtherCovers
  <2>7. ASSUME NEW b \in B, ~Within(b[a], a, o) PROVE b[a] >= k
    <3>1. WallOf(a, b[a]) >= WallOf(a, k) /\ b[a] \in Int
      BY <1>1, <1>6, <2>1, <2>2, <2>7
    <3> QED BY <1>1, <2>3, <3>1 DEF WallOf
  <2>8. ASSUME NEW b \in B, Within(b[a], a, r) PROVE Within(b[a], a, o)
    <3>1. b[a] \in Int /\ k - 1 >= b[a]
      BY <1>1, <2>4, <2>8 DEF Within
    <3> QED BY <2>3, <2>7, <3>1
  <2>9. ASSUME \A b \in B : ~Within(b[a], a, o) PROVE HighAt(a, o) <= HighAt(a, r)
    <3>1. k > HighAt(a, o)
      BY <1>6, <2>9
    <3> QED BY <1>4, <2>3, <2>4, <3>1
  <2>10. LowAt(a, r) \in Int /\ HighAt(a, r) \in Int
    BY <2>5, LowIs, HighIs
  <2> QED BY <1>4, <2>3, <2>4, <2>5, <2>6, <2>8, <2>9, <2>10
<1> QED BY <1>7, <1>8

LEMMA ClampStay ==
  ASSUME NEW a, NEW o \in Int, NEW B
  PROVE  ClampAxis(a, o, o, B) = o
<1>1. ~(o < o) /\ ~(o > o)
  OBVIOUS
<1> QED BY <1>1, Zenon DEF ClampAxis
-----------------------------------------------------------------------------
(* A clamp.                                                                *)

\* Where a clamp leaves a player along an axis, on a way to n; on a way along that axis
\* alone he covers no more behind him than before.
Clamped(a, o, n, r) ==
  /\ r \in Int /\ (n = o => r = o)
  /\ n < o => /\ n <= r /\ r <= o + 1 /\ HighAt(a, r) <= HighAt(a, o)
              /\ r = o + 1 => \E k \in Int : o = FloorOf(a, k)
  /\ n > o => /\ r <= n /\ o - 1 <= r /\ LowAt(a, o) <= LowAt(a, r)
              /\ r = o - 1 => \E k \in Int : o = WallOf(a, k)
Onward(a, s, o, r) ==
  /\ s <= 0 => LowAt(a, r) <= LowAt(a, o) /\ HighAt(a, r) <= HighAt(a, o)
  /\ s >= 0 => LowAt(a, o) <= LowAt(a, r) /\ HighAt(a, o) <= HighAt(a, r)
\* Nothing that collides is covered but what was covered before.
Quiet(p, q) == \A b \in Boxed(q) : IsCollision(b) => b \in Boxed(p)

LEMMA QuietOn ==
  ASSUME NEW p, NEW q, NEW r, Quiet(p, q), Quiet(q, r) PROVE Quiet(p, r)
BY DEF Quiet

LEMMA Covered ==
  ASSUME NEW p \in Positions
  PROVE  /\ \A b : b \in Boxed(p) <=> b \in Positions /\ \A a \in Axes : Within(b[a], a, p[a])
         /\ \A a \in Axes : p[a] \in Int /\ LowAt(a, p[a]) \in Int /\ HighAt(a, p[a]) \in Int /\ LowAt(a, p[a]) <= HighAt(a, p[a])
<1>1. \A a \in Axes : Low(p, a) = LowAt(a, p[a]) /\ High(p, a) = HighAt(a, p[a])
  BY DEF Low, High, LowAt, HighAt
<1>2. \A b \in Positions, a \in Axes : b[a] \in Int
  BY DEF Positions
<1>3. \A b \in Positions, a \in Axes : b[a] \in Low(p, a) .. High(p, a) <=> Within(b[a], a, p[a])
  BY <1>1, <1>2, Covers DEF Within
<1> QED BY <1>1, <1>3, BoxedIs, Covers

LEMMA ClampIs ==
  ASSUME NEW old \in Positions, NEW new \in Positions,
         \A a \in Axes : new[a] - old[a] <= Span(a) /\ old[a] - new[a] <= Span(a),
         NEW r, r = Clamp(old, new)
  PROVE  /\ r \in Positions /\ Quiet(old, r)
         /\ \A a \in Axes : Clamped(a, old[a], new[a], r[a])
         /\ \A a \in Axes : (\A c \in Axes \ {a} : new[c] = old[c]) => Onward(a, new[a] - old[a], old[a], r[a])
<1> DEFINE B == {b \in Boxed(new) \ Boxed(old) : IsCollision(b)}
<1>1. \A a \in Axes : old[a] \in Int /\ new[a] \in Int
  BY DEF Positions
<1>2. \A a \in Axes : /\ new[a] <= old[a] => LowAt(a, new[a]) <= LowAt(a, old[a]) /\ HighAt(a, new[a]) <= HighAt(a, old[a])
                      /\ new[a] >= old[a] => LowAt(a, old[a]) <= LowAt(a, new[a]) /\ HighAt(a, old[a]) <= HighAt(a, new[a])
  BY <1>1, FurtherCovers
<1>3. CASE SameBox(new, old)
  <2>1. r = new
    BY <1>3 DEF Clamp
  <2>2. \A a \in Axes : LowAt(a, new[a]) = LowAt(a, old[a]) /\ HighAt(a, new[a]) = HighAt(a, old[a])
    BY <1>3 DEF SameBox, Low, High, LowAt, HighAt
  <2>3. \A b : b \in Boxed(new) <=> b \in Boxed(old)
    BY <2>2, Covered DEF Within
  <2>4. \A a \in Axes : Clamped(a, old[a], new[a], r[a]) /\ Onward(a, new[a] - old[a], old[a], r[a])
    BY <1>1, <1>2, <2>1, Covered DEF Clamped, Onward
  <2> QED BY <2>1, <2>3, <2>4 DEF Quiet
<1>4. CASE ~SameBox(new, old)
  <2>1. r = [x |-> ClampAxis("x", old["x"], new["x"], B), y |-> ClampAxis("y", old["y"], new["y"], B),
             z |-> ClampAxis("z", old["z"], new["z"], B)]
    BY <1>4, Zenon DEF Clamp, Along
  <2>2. \A a \in Axes : r[a] = ClampAxis(a, old[a], new[a], B)
    BY <2>1 DEF Axes
  <2>3. \A a \in Axes : Meets(a, new[a], B)
    BY Covered DEF Meets
  <2> HIDE DEF B
  <2>4. ASSUME NEW a \in Axes
        PROVE  /\ Clamped(a, old[a], new[a], r[a])
               /\ LowAt(a, new[a]) <= LowAt(a, r[a]) /\ HighAt(a, r[a]) <= HighAt(a, new[a])
               /\ \A b \in B : Within(b[a], a, r[a]) => Within(b[a], a, old[a])
               /\ (\A b \in B : ~Within(b[a], a, old[a])) => Onward(a, new[a] - old[a], old[a], r[a])
    <3>1. old[a] \in Int /\ new[a] \in Int /\ new[a] - old[a] <= Span(a) /\ old[a] - new[a] <= Span(a)
      BY <1>1
    <3>2. CASE new[a] < old[a]
      <4>1. /\ r[a] \in Int /\ new[a] <= r[a] /\ r[a] <= old[a] + 1
            /\ r[a] = old[a] + 1 => \E k \in Int : old[a] = FloorOf(a, k)
            /\ LowAt(a, new[a]) <= LowAt(a, r[a]) /\ HighAt(a, r[a]) <= HighAt(a, new[a])
            /\ \A b \in B : Within(b[a], a, r[a]) => Within(b[a], a, old[a])
            /\ HighAt(a, r[a]) <= HighAt(a, old[a])
            /\ (\A b \in B : ~Within(b[a], a, old[a])) => LowAt(a, r[a]) <= LowAt(a, old[a])
        BY <2>2, <2>3, <3>1, <3>2, ClampDown
      <4> QED BY <3>1, <3>2, <4>1 DEF Clamped, Onward
    <3>3. CASE new[a] > old[a]
      <4>1. /\ r[a] \in Int /\ r[a] <= new[a] /\ old[a] - 1 <= r[a]
            /\ r[a] = old[a] - 1 => \E k \in Int : old[a] = WallOf(a, k)
            /\ LowAt(a, new[a]) <= LowAt(a, r[a]) /\ HighAt(a, r[a]) <= HighAt(a, new[a])
            /\ \A b \in B : Within(b[a], a, r[a]) => Within(b[a], a, old[a])
            /\ LowAt(a, old[a]) <= LowAt(a, r[a])
            /\ (\A b \in B : ~Within(b[a], a, old[a])) => HighAt(a, old[a]) <= HighAt(a, r[a])
        BY <2>2, <2>3, <3>1, <3>3, ClampUp
      <4> QED BY <3>1, <3>3, <4>1 DEF Clamped, Onward
    <3>4. CASE new[a] = old[a]
      <4>1. r[a] = old[a]
        BY <2>2, <3>1, <3>4, ClampStay
      <4> QED BY <3>1, <3>4, <4>1, Covered DEF Clamped, Onward
    <3> QED BY <3>1, <3>2, <3>3, <3>4
  <2>5. r \in Positions
    <3>1. r["x"] \in Int /\ r["y"] \in Int /\ r["z"] \in Int
      BY <2>4 DEF Clamped, Axes
    <3>2. r = [x |-> r["x"], y |-> r["y"], z |-> r["z"]]
      BY <2>1, <2>2 DEF Axes
    <3> QED BY <3>1, <3>2, AlongAxes
  <2>6. ASSUME NEW b \in Boxed(r), IsCollision(b) PROVE b \in Boxed(old)
    <3>1. b \in Positions /\ \A a \in Axes : b[a] \in Int /\ Within(b[a], a, r[a])
      BY <2>5, Covered DEF Positions
    <3>2. \A a \in Axes : Within(b[a], a, new[a])
      BY <2>4, <2>5, <3>1, Covered DEF Within
    <3>3. b \in Boxed(new)
      BY <3>1, <3>2, Covered
    <3>4. b \notin Boxed(old) => b \in B
      BY <2>6, <3>3 DEF B
    <3> QED BY <2>4, <3>1, <3>4, Covered
  <2>7. ASSUME NEW a \in Axes, \A c \in Axes \ {a} : new[c] = old[c]
        PROVE  Onward(a, new[a] - old[a], old[a], r[a])
    <3>1. ASSUME NEW b \in B PROVE ~Within(b[a], a, old[a])
      <4>1. b \in Positions /\ (\A c \in Axes : Within(b[c], c, new[c])) /\ b \notin Boxed(old)
        BY Covered DEF B
      <4> QED BY <2>7, <4>1, Covered
    <3> QED BY <2>4, <3>1
  <2> QED BY <2>4, <2>5, <2>6, <2>7 DEF Quiet
<1> QED BY <1>3, <1>4
-----------------------------------------------------------------------------
(* Steps.                                                                  *)

LEMMA QuotientUpTo ==
  ASSUME NEW m \in Nat, NEW l \in Nat, l > 0, NEW k \in Nat, m < (k + 1) * l
  PROVE  m \div l \in Nat /\ m \div l <= k
<1> DEFINE q == m \div l
<1>1. q \in Int /\ q >= 0 /\ q * l <= m
  OBVIOUS
<1> HIDE DEF q
<1>2. ASSUME q > k PROVE FALSE
  <2>1. (k + 1) * l <= q * l
    <3>1. q - (k + 1) \in Nat
      BY <1>1, <1>2
    <3>2. (q - (k + 1)) * l >= 0
      BY <3>1
    <3>3. (q - (k + 1)) * l = q * l - (k + 1) * l
      BY <1>1
    <3> QED BY <1>1, <3>2, <3>3
  <2> QED BY <1>1, <2>1
<1> QED BY <1>1, <1>2 DEF q

\* A short step goes no further than where it is going, along any axis.
LEMMA TowardIs ==
  ASSUME NEW d \in Positions, NEW e, e = Toward(d)
  PROVE  /\ e \in Positions
         /\ \A a \in Axes : /\ d[a] >= 0 => 0 <= e[a] /\ e[a] <= d[a]
                            /\ d[a] <= 0 => d[a] <= e[a] /\ e[a] <= 0
                            /\ -20 <= e[a] /\ e[a] <= 20
<1> DEFINE L == Max({AbsOf(d[a]) : a \in Axes})
           Sh(n) == Sign(n) * ((20 * AbsOf(n) + L - 1) \div L)
<1>1. \A a \in Axes : d[a] \in Int /\ AbsOf(d[a]) \in Nat
  BY DEF Positions, AbsOf, Sign
<1>2. L \in Nat /\ \A a \in Axes : AbsOf(d[a]) <= L
  <2> DEFINE S == {AbsOf(d[a]) : a \in Axes}
             n == AbsOf(d["x"]) + AbsOf(d["y"]) + AbsOf(d["z"])
  <2>1. S \in SUBSET Int /\ S # {} /\ S \subseteq Nat /\ n \in Int /\ \A s \in S : s <= n
    <3>1. AbsOf(d["x"]) \in Nat /\ AbsOf(d["y"]) \in Nat /\ AbsOf(d["z"]) \in Nat
      BY <1>1 DEF Axes
    <3>2. S = {AbsOf(d["x"]), AbsOf(d["y"]), AbsOf(d["z"])}
      BY DEF Axes
    <3> QED BY <3>1, <3>2
  <2> HIDE DEF n
  <2>2. \A a \in Axes : AbsOf(d[a]) \in S
    OBVIOUS
  <2>3. L = Max(S)
    OBVIOUS
  <2> HIDE DEF S, L
  <2>4. Max(S) \in S /\ \A s \in S : s <= Max(S)
    BY <2>1, GreatestIs
  <2> QED BY <2>1, <2>2, <2>3, <2>4
<1>3. e = IF L <= 20 THEN d ELSE [x |-> Sh(d["x"]), y |-> Sh(d["y"]), z |-> Sh(d["z"])]
  <2>1. StepLength = 20
    BY DEF StepLength
  <2> QED BY <2>1, Zenon DEF Toward, Along
<1> HIDE DEF L
<1>4. CASE L <= 20
  <2>1. e = d
    BY <1>3, <1>4
  <2>2. ASSUME NEW a \in Axes PROVE -20 <= d[a] /\ d[a] <= 20
    <3>1. AbsOf(d[a]) <= 20 /\ d[a] \in Int
      BY <1>1, <1>2, <1>4
    <3> QED BY <3>1 DEF AbsOf, Sign
  <2> QED BY <1>1, <2>1, <2>2
<1>5. CASE ~(L <= 20)
  <2>1. \A a \in Axes : e[a] = Sh(d[a])
    BY <1>3, <1>5 DEF Axes
  <2>2. ASSUME NEW a \in Axes
        PROVE  /\ e[a] \in Int
               /\ d[a] >= 0 => 0 <= e[a] /\ e[a] <= d[a]
               /\ d[a] <= 0 => d[a] <= e[a] /\ e[a] <= 0
               /\ -20 <= e[a] /\ e[a] <= 20
    <3> DEFINE k == AbsOf(d[a])
               q == (20 * k + L - 1) \div L
    <3>1. k \in Nat /\ k <= L /\ L > 20 /\ L \in Nat
      BY <1>1, <1>2, <1>5
    <3> HIDE DEF k
    <3>2. 20 * k + L - 1 \in Nat /\ 20 * k + L - 1 < (20 + 1) * L
      BY <3>1
    <3>3. q \in Nat /\ q <= 20
      BY <3>1, <3>2, QuotientUpTo
    <3>4. q <= k
      <4>1. 20 * k + L - 1 < (k + 1) * L
        <5>1. (L - 20) * k >= 0 /\ (L - 20) * k = L * k - 20 * k /\ (k + 1) * L = L * k + L
          BY <3>1
        <5> QED BY <3>1, <5>1
      <4> QED BY <3>1, <3>2, <4>1, QuotientUpTo
    <3> HIDE DEF q
    <3>5. e[a] = Sign(d[a]) * q /\ d[a] = Sign(d[a]) * k
      <4>1. e[a] = Sign(d[a]) * q
        BY <2>1 DEF q, k
      <4>2. d[a] \in Int
        BY <1>1
      <4> QED BY <4>1, <4>2 DEF k, AbsOf, Sign
    <3>6. Sign(d[a]) \in {-1, 0, 1} /\ (d[a] > 0 => Sign(d[a]) = 1) /\ (d[a] < 0 => Sign(d[a]) = -1) /\ (d[a] = 0 => Sign(d[a]) = 0)
      BY <1>1 DEF Sign
    <3>7. CASE d[a] > 0
      BY <3>1, <3>3, <3>4, <3>5, <3>6, <3>7
    <3>8. CASE d[a] < 0
      BY <3>1, <3>3, <3>4, <3>5, <3>6, <3>8
    <3>9. CASE d[a] = 0
      BY <3>1, <3>3, <3>4, <3>5, <3>6, <3>9
    <3> QED BY <1>1, <3>7, <3>8, <3>9
  <2>3. e \in Positions
    <3>1. e = [x |-> e["x"], y |-> e["y"], z |-> e["z"]] /\ e["x"] \in Int /\ e["y"] \in Int /\ e["z"] \in Int
      BY <1>3, <1>5, <2>1, <2>2 DEF Axes
    <3> QED BY <3>1, AlongAxes
  <2> QED BY <2>2, <2>3
<1> QED BY <1>2, <1>4, <1>5
-----------------------------------------------------------------------------
(* A way that is straight step by step.                                    *)

\* From p to q what is covered moves one way along each axis (s says which); what collides
\* is not covered anew, and on a way along one axis none is left out between.
Straight(p, q, a) ==
  \A c \in Axes \ {a} : LowAt(c, q[c]) = LowAt(c, p[c]) /\ HighAt(c, q[c]) = HighAt(c, p[c])
Between(i, a, u, v) ==
  (LowAt(a, u) <= i \/ LowAt(a, v) <= i) /\ (i <= HighAt(a, u) \/ i <= HighAt(a, v))
Misses(p, q, a) ==
  \A b \in Positions :
    IsCollision(b) /\ Between(b[a], a, p[a], q[a]) /\ (\A c \in Axes \ {a} : Within(b[c], c, p[c])) =>
      b \in Boxed(p)
Goes(s, p, q) ==
  /\ q \in Positions /\ Quiet(p, q)
  /\ \A a \in Axes : Onward(a, s[a], p[a], q[a]) /\ (s[a] = 0 => q[a] = p[a])
  /\ \A a \in Axes : Straight(p, q, a) => Misses(p, q, a)

LEMMA GoesNowhere == ASSUME NEW s \in Positions, NEW p \in Positions PROVE Goes(s, p, p)
<1>1. \A a \in Axes, b \in Positions : b[a] \in Int /\ (Between(b[a], a, p[a], p[a]) => Within(b[a], a, p[a]))
  BY DEF Between, Within, Positions
<1>2. \A a \in Axes : Misses(p, p, a)
  BY <1>1, Covered DEF Misses
<1> QED BY <1>2, Covered DEF Goes, Quiet, Onward

LEMMA GoesOn ==
  ASSUME NEW s \in Positions, NEW p \in Positions, NEW q, NEW r, Goes(s, p, q), Goes(s, q, r)
  PROVE  Goes(s, p, r)
<1>1. q \in Positions /\ r \in Positions /\ Quiet(p, r)
  BY QuietOn DEF Goes
<1>2. ASSUME NEW a \in Axes
      PROVE  /\ Onward(a, s[a], p[a], r[a]) /\ Onward(a, s[a], p[a], q[a]) /\ Onward(a, s[a], q[a], r[a])
             /\ s[a] = 0 => r[a] = p[a]
             /\ s[a] \in Int
             /\ \A v \in {p, q, r} : LowAt(a, v[a]) \in Int /\ HighAt(a, v[a]) \in Int /\ LowAt(a, v[a]) <= HighAt(a, v[a])
  <2>1. \A v \in {p, q, r} : LowAt(a, v[a]) \in Int /\ HighAt(a, v[a]) \in Int /\ LowAt(a, v[a]) <= HighAt(a, v[a])
    BY <1>1, Covered
  <2>2. Onward(a, s[a], p[a], q[a]) /\ Onward(a, s[a], q[a], r[a]) /\ (s[a] = 0 => r[a] = p[a])
    BY DEF Goes
  <2>3. s[a] \in Int
    BY DEF Positions
  <2>4. Onward(a, s[a], p[a], r[a])
    BY <2>1, <2>2, <2>3 DEF Onward
  <2> QED BY <2>1, <2>2, <2>3, <2>4
<1>3. ASSUME NEW a \in Axes, Straight(p, r, a) PROVE Misses(p, r, a)
  <2>1. Straight(p, q, a) /\ Straight(q, r, a)
    BY <1>2, <1>3 DEF Straight, Onward
  <2>2. Misses(p, q, a) /\ Misses(q, r, a)
    BY <2>1 DEF Goes
  <2>3. ASSUME NEW b \in Positions, IsCollision(b), Between(b[a], a, p[a], r[a]), \A c \in Axes \ {a} : Within(b[c], c, p[c])
        PROVE  b \in Boxed(p)
    <3>1. b[a] \in Int
      BY DEF Positions
    <3>2. CASE Between(b[a], a, p[a], q[a])
      BY <2>2, <2>3, <3>2 DEF Misses
    <3>3. CASE Between(b[a], a, q[a], r[a])
      <4>1. \A c \in Axes \ {a} : Within(b[c], c, q[c])
        BY <2>1, <2>3 DEF Within, Straight
      <4>2. b \in Boxed(q)
        BY <2>2, <2>3, <3>3, <4>1 DEF Misses
      <4> QED BY <2>3, <4>2 DEF Goes, Quiet
    <3>4. Between(b[a], a, p[a], q[a]) \/ Between(b[a], a, q[a], r[a])
      BY <1>2, <2>3, <3>1 DEF Between, Onward
    <3> QED BY <3>2, <3>3, <3>4
  <2> QED BY <2>3 DEF Misses
<1> QED BY <1>1, <1>2, <1>3 DEF Goes

\* A block fits between what is covered from two places only if they are far apart.
LEMMA NoGap ==
  ASSUME NEW a \in Axes, NEW u \in Int, NEW v \in Int, u - v <= 300, v - u <= 300, NEW i \in Int,
         Between(i, a, u, v)
  PROVE  Within(i, a, u) \/ Within(i, a, v)
<1>1. \A w \in {u, v} : LowAt(a, w) \in Int /\ HighAt(a, w) \in Int
  BY LowIs, HighIs
<1>2. FloorOf(a, i) \in Int /\ WallOf(a, i) \in Int /\ FloorOf(a, i) - WallOf(a, i) >= 700
  BY LowIs, HighIs, Corners DEF FloorOf, WallOf
<1>3. \A w \in {u, v} : (HighAt(a, w) < i => w <= WallOf(a, i)) /\ (LowAt(a, w) > i => w >= FloorOf(a, i))
  BY LowIs, HighIs
<1>4. /\ u <= v => LowAt(a, u) <= LowAt(a, v) /\ HighAt(a, u) <= HighAt(a, v)
      /\ v <= u => LowAt(a, v) <= LowAt(a, u) /\ HighAt(a, v) <= HighAt(a, u)
  BY FurtherCovers
<1> QED BY <1>1, <1>2, <1>3, <1>4 DEF Between, Within

\* A clamp along one axis.
Apart(p, q, a) == \A c \in Axes \ {a} : q[c] = p[c]

LEMMA ClampGoes ==
  ASSUME NEW s \in Positions, NEW p \in Positions, NEW new \in Positions, NEW a \in Axes,
         Apart(p, new, a), new[a] - p[a] <= 250, p[a] - new[a] <= 250,
         new[a] < p[a] => s[a] < 0, new[a] > p[a] => s[a] > 0, NEW r, r = Clamp(p, new)
  PROVE  Goes(s, p, r) /\ Clamped(a, p[a], new[a], r[a]) /\ Apart(p, r, a)
<1> DEFINE n == new[a]
<1>1. new[a] = n /\ n \in Int /\ \A c \in Axes \ {a} : new[c] = p[c]
  BY DEF Positions, Apart
<1>2. \A c \in Axes : p[c] \in Int /\ s[c] \in Int
  BY DEF Positions
<1>3. \A c \in Axes : new[c] - p[c] <= Span(c) /\ p[c] - new[c] <= Span(c)
  BY <1>1, <1>2 DEF Span
<1> HIDE DEF n
<1>5. /\ r \in Positions /\ Quiet(p, r)
      /\ \A c \in Axes : Clamped(c, p[c], new[c], r[c])
      /\ Onward(a, new[a] - p[a], p[a], r[a])
  BY <1>1, <1>3, ClampIs
<1>6. Clamped(a, p[a], n, r[a]) /\ \A c \in Axes \ {a} : r[c] = p[c]
  BY <1>1, <1>2, <1>5 DEF Clamped
<1>7. ASSUME NEW c \in Axes PROVE Onward(c, s[c], p[c], r[c]) /\ (s[c] = 0 => r[c] = p[c])
  <2>1. CASE c # a
    <3>1. r[c] = p[c]
      BY <1>6, <2>1
    <3>2. Onward(c, s[c], p[c], p[c])
      BY Covered DEF Onward
    <3> QED BY <3>1, <3>2
  <2>2. CASE c = a
    <3>1. n = p[a] => r[a] = p[a]
      BY <1>6 DEF Clamped
    <3>2. Onward(a, n - p[a], p[a], r[a])
      BY <1>1, <1>5
    <3>3. \A v \in {p, r} : LowAt(a, v[a]) \in Int /\ HighAt(a, v[a]) \in Int
      BY <1>5, Covered
    <3> QED BY <1>1, <1>2, <2>2, <3>1, <3>2, <3>3 DEF Onward
  <2> QED BY <2>1, <2>2
<1>8. ASSUME NEW d \in Axes PROVE Misses(p, r, d)
  <2> SUFFICES ASSUME NEW b \in Positions, IsCollision(b), Between(b[d], d, p[d], r[d]),
                      \A c \in Axes \ {d} : Within(b[c], c, p[c])
               PROVE  b \in Boxed(p)
    BY DEF Misses
  <2>1. p[d] - r[d] <= 300 /\ r[d] - p[d] <= 300 /\ r[d] \in Int /\ p[d] \in Int /\ b[d] \in Int
    <3>1. p[d] \in Int /\ r[d] \in Int /\ b[d] \in Int
      BY <1>2, <1>5 DEF Positions
    <3>2. CASE d = a
      BY <1>1, <1>2, <1>3, <1>6, <3>1, <3>2 DEF Clamped
    <3>3. CASE d # a
      <4>1. r[d] = p[d]
        BY <1>6, <3>3
      <4> QED BY <3>1, <4>1
    <3> QED BY <3>1, <3>2, <3>3
  <2>2. CASE Within(b[d], d, p[d])
    BY <2>2, Covered
  <2>3. CASE Within(b[d], d, r[d]) /\ d = a
    <3>1. \A c \in Axes : Within(b[c], c, r[c])
      BY <1>6, <2>3
    <3> QED BY <1>5, <3>1, Covered DEF Quiet
  <2>4. CASE Within(b[d], d, r[d]) /\ d # a
    <3>1. r[d] = p[d]
      BY <1>6, <2>4
    <3> QED BY <2>4, <3>1, Covered
  <2> QED BY <2>1, <2>2, <2>3, <2>4, NoGap
<1>9. Goes(s, p, r)
  BY <1>5, <1>7, <1>8 DEF Goes
<1> QED BY <1>1, <1>6, <1>9 DEF Apart
-----------------------------------------------------------------------------
(* A loop of short steps.                                                  *)

\* Where the loop may be along an axis, from o to t: never beyond t, and at most the
\* epsilon behind o.
OnWay(a, o, t, v) ==
  /\ v \in Int /\ (t = o => v = o)
  /\ t < o => t <= v /\ v <= o + 1 /\ (v = o + 1 => \E k \in Int : o = FloorOf(a, k))
  /\ t > o => v <= t /\ o - 1 <= v /\ (v = o - 1 => \E k \in Int : o = WallOf(a, k))

LEMMA OnWayOn ==
  ASSUME NEW a \in Axes, NEW o \in Int, NEW t \in Int, NEW u \in Int, NEW n \in Int, NEW r,
         OnWay(a, o, t, u), Clamped(a, u, n, r),
         u <= t => u <= n /\ n <= t, u >= t => t <= n /\ n <= u
  PROVE  OnWay(a, o, t, r)
<1>1. r \in Int /\ (n = u => r = u)
  BY DEF Clamped
<1>2. CASE n = u
  BY <1>1, <1>2
<1>3. CASE n < u
  <2>1. t < o /\ t < u /\ t <= n
    BY <1>3 DEF OnWay
  <2>2. u <= o + 1 /\ (u = o + 1 => \E k \in Int : o = FloorOf(a, k))
    BY <2>1 DEF OnWay
  <2>3. n <= r /\ r <= u + 1 /\ (r = u + 1 => \E k \in Int : u = FloorOf(a, k))
    BY <1>3 DEF Clamped
  <2>4. ~(u = o + 1 /\ r = u + 1)
    <3> SUFFICES ASSUME u = o + 1, r = u + 1 PROVE FALSE
      OBVIOUS
    <3>1. PICK k \in Int, l \in Int : o = FloorOf(a, k) /\ u = FloorOf(a, l)
      BY <2>2, <2>3
    <3>2. CornerNeg[a] \in Int
      BY Corners
    <3>3. 400 * l - 400 * k = 1
      BY <3>1, <3>2 DEF FloorOf
    <3> QED BY <3>3
  <2>5. r <= o + 1 /\ (r = o + 1 => u = o + 1 \/ (u = o /\ r = u + 1))
    <3>1. u <= o + 1 /\ r <= u + 1 /\ r \in Int
      BY <1>1, <2>2, <2>3
    <3>2. CASE u = o + 1
      <4>1. r # u + 1
        BY <2>4, <3>2
      <4>2. r <= u
        BY <3>1, <4>1
      <4> QED BY <3>1, <3>2, <4>2
    <3>3. CASE u <= o
      BY <3>1, <3>3
    <3> QED BY <3>1, <3>2, <3>3
  <2>6. r = o + 1 => \E k \in Int : o = FloorOf(a, k)
    BY <2>2, <2>3, <2>5
  <2> QED BY <1>1, <2>1, <2>3, <2>5, <2>6 DEF OnWay
<1>4. CASE n > u
  <2>1. t > o /\ t > u /\ n <= t
    BY <1>4 DEF OnWay
  <2>2. o - 1 <= u /\ (u = o - 1 => \E k \in Int : o = WallOf(a, k))
    BY <2>1 DEF OnWay
  <2>3. r <= n /\ u - 1 <= r /\ (r = u - 1 => \E k \in Int : u = WallOf(a, k))
    BY <1>4 DEF Clamped
  <2>4. ~(u = o - 1 /\ r = u - 1)
    <3> SUFFICES ASSUME u = o - 1, r = u - 1 PROVE FALSE
      OBVIOUS
    <3>1. PICK k \in Int, l \in Int : o = WallOf(a, k) /\ u = WallOf(a, l)
      BY <2>2, <2>3
    <3>2. CornerPos[a] \in Int
      BY Corners
    <3>3. 400 * k - 400 * l = 1
      BY <3>1, <3>2 DEF WallOf
    <3> QED BY <3>3
  <2>5. o - 1 <= r /\ (r = o - 1 => u = o - 1 \/ (u = o /\ r = u - 1))
    <3>1. o - 1 <= u /\ u - 1 <= r /\ r \in Int
      BY <1>1, <2>2, <2>3
    <3>2. CASE u = o - 1
      <4>1. r # u - 1
        BY <2>4, <3>2
      <4>2. r >= u
        BY <3>1, <4>1
      <4> QED BY <3>1, <3>2, <4>2
    <3>3. CASE u >= o
      BY <3>1, <3>3
    <3> QED BY <3>1, <3>2, <3>3
  <2>6. r = o - 1 => \E k \in Int : o = WallOf(a, k)
    BY <2>2, <2>3, <2>5
  <2> QED BY <1>1, <2>1, <2>3, <2>5, <2>6 DEF OnWay
<1> QED BY <1>2, <1>3, <1>4

\* A player is on his way from old to target.
From(old, target) == [a \in Axes |-> target[a] - old[a]]
Way(old, target, p) == Goes(From(old, target), old, p) /\ \A a \in Axes : OnWay(a, old[a], target[a], p[a])

LEMMA FromIs ==
  ASSUME NEW old \in Positions, NEW target \in Positions
  PROVE  From(old, target) \in Positions /\ \A a \in Axes : From(old, target)[a] = target[a] - old[a]
BY DEF From, Positions

LEMMA WayStarts ==
  ASSUME NEW old \in Positions, NEW target \in Positions PROVE Way(old, target, old)
<1>1. Goes(From(old, target), old, old)
  BY FromIs, GoesNowhere
<1>2. \A a \in Axes : OnWay(a, old[a], target[a], old[a])
  BY DEF OnWay, Positions
<1> QED BY <1>1, <1>2 DEF Way

\* m is a step from u towards t.
StepTo(u, t, m) ==
  /\ m \in Int /\ -20 <= m /\ m <= 20
  /\ t >= u => 0 <= m /\ m <= t - u
  /\ t <= u => t - u <= m /\ m <= 0

LEMMA WayGoesOn ==
  ASSUME NEW old \in Positions, NEW target \in Positions, NEW p, Way(old, target, p),
         NEW new \in Positions, NEW a \in Axes, Apart(p, new, a), StepTo(p[a], target[a], new[a] - p[a]),
         NEW r, r = Clamp(p, new)
  PROVE  Way(old, target, r) /\ r \in Positions /\ Apart(p, r, a)
<1> DEFINE s == From(old, target)
           n == new[a]
<1>1. p \in Positions /\ s \in Positions /\ \A c \in Axes : s[c] = target[c] - old[c]
  BY FromIs DEF Way, Goes
<1>2. p[a] \in Int /\ target[a] \in Int /\ old[a] \in Int /\ n \in Int
  BY <1>1 DEF Positions
<1>3. /\ n - p[a] <= 250 /\ p[a] - n <= 250
      /\ p[a] <= target[a] => p[a] <= n /\ n <= target[a]
      /\ p[a] >= target[a] => target[a] <= n /\ n <= p[a]
  BY <1>2 DEF StepTo
<1>4. (n < p[a] => s[a] < 0) /\ (n > p[a] => s[a] > 0)
  <2>1. OnWay(a, old[a], target[a], p[a])
    BY DEF Way
  <2> QED BY <1>1, <1>2, <1>3, <2>1 DEF OnWay
<1> HIDE DEF s
<1>6. Goes(s, p, r) /\ Clamped(a, p[a], n, r[a]) /\ Apart(p, r, a)
  BY <1>1, <1>3, <1>4, ClampGoes
<1> HIDE DEF n
<1>7. Goes(s, old, r)
  BY <1>1, <1>6, GoesOn DEF Way, s
<1>8. OnWay(a, old[a], target[a], r[a])
  BY <1>2, <1>3, <1>6, OnWayOn DEF Way
<1>9. \A c \in Axes : OnWay(c, old[c], target[c], r[c])
  BY <1>6, <1>8 DEF Way, Apart
<1> QED BY <1>6, <1>7, <1>9 DEF Way, Goes, s

LEMMA WayTakesAStep ==
  ASSUME NEW old \in Positions, NEW target \in Positions, NEW p, Way(old, target, p)
  PROVE  Way(old, target, ShortStep(p, target))
<1> DEFINE d == Along(LAMBDA a : target[a] - p[a])
           step == Toward(d)
           byX == Clamp(p, [p EXCEPT !["x"] = @ + step["x"]])
           byY == Clamp(byX, [byX EXCEPT !["y"] = @ + step["y"]])
           byZ == Clamp(byY, [byY EXCEPT !["z"] = @ + step["z"]])
<1>1. p \in Positions
  BY DEF Way, Goes
<1>2. d \in Positions /\ \A a \in Axes : d[a] = target[a] - p[a]
  <2>1. d = [x |-> target["x"] - p["x"], y |-> target["y"] - p["y"], z |-> target["z"] - p["z"]]
    BY Zenon DEF Along
  <2> HIDE DEF d
  <2>2. \A a \in Axes : target[a] - p[a] \in Int
    BY <1>1 DEF Positions
  <2>3. \A a \in Axes : d[a] = target[a] - p[a]
    BY <2>1 DEF Axes
  <2>4. d \in Positions
    <3>1. target["x"] - p["x"] \in Int /\ target["y"] - p["y"] \in Int /\ target["z"] - p["z"] \in Int
      BY <2>2 DEF Axes
    <3> QED BY <2>1, <3>1, AlongAxes
  <2> QED BY <2>3, <2>4
<1> HIDE DEF d
<1>3. step \in Positions /\ \A a \in Axes : StepTo(p[a], target[a], step[a])
  <2>1. /\ step \in Positions
        /\ \A a \in Axes : /\ d[a] >= 0 => 0 <= step[a] /\ step[a] <= d[a]
                           /\ d[a] <= 0 => d[a] <= step[a] /\ step[a] <= 0
                           /\ -20 <= step[a] /\ step[a] <= 20
    BY <1>2, TowardIs
  <2> HIDE DEF step
  <2>2. \A a \in Axes : p[a] \in Int /\ target[a] \in Int /\ step[a] \in Int
    BY <1>1, <2>1 DEF Positions
  <2> QED BY <1>2, <2>1, <2>2 DEF StepTo
<1>4. ShortStep(p, target) = byZ
  <2>1. step.x = step["x"] /\ step.y = step["y"] /\ step.z = step["z"]
    BY <1>3, AlongAxes
  <2> QED BY <2>1, Zenon DEF ShortStep, d
<1> HIDE DEF step
<1>5. \A a \in Axes, q \in Positions :
        /\ [q EXCEPT ![a] = @ + step[a]] \in Positions
        /\ Apart(q, [q EXCEPT ![a] = @ + step[a]], a)
        /\ q[a] = p[a] => StepTo(q[a], target[a], [q EXCEPT ![a] = @ + step[a]][a] - q[a])
  <2> HIDE DEF step
  <2> SUFFICES ASSUME NEW a \in Axes, NEW q \in Positions, NEW qq, qq = [q EXCEPT ![a] = @ + step[a]]
               PROVE  qq \in Positions /\ Apart(q, qq, a) /\ (q[a] = p[a] => StepTo(q[a], target[a], qq[a] - q[a]))
    OBVIOUS
  <2>1. q[a] \in Int /\ step[a] \in Int
    BY <1>3 DEF Positions
  <2>2. qq \in Positions /\ qq[a] = q[a] + step[a] /\ Apart(q, qq, a)
    BY <2>1 DEF Positions, Apart
  <2>3. qq[a] - q[a] = step[a]
    BY <2>1, <2>2
  <2> QED BY <1>3, <2>2, <2>3
<1>6. "x" \in Axes /\ "y" \in Axes /\ "z" \in Axes /\ "x" # "y" /\ "x" # "z" /\ "y" # "z"
  BY DEF Axes
<1> DEFINE toX == [p EXCEPT !["x"] = @ + step["x"]]
           toY == [byX EXCEPT !["y"] = @ + step["y"]]
           toZ == [byY EXCEPT !["z"] = @ + step["z"]]
<1>7. toX \in Positions /\ Apart(p, toX, "x") /\ StepTo(p["x"], target["x"], toX["x"] - p["x"]) /\ byX = Clamp(p, toX)
  BY <1>1, <1>5, <1>6
<1> HIDE DEF toX, byX, step
<1>8. Way(old, target, byX) /\ byX \in Positions /\ byX["y"] = p["y"] /\ byX["z"] = p["z"]
  <2>1. Way(old, target, byX) /\ byX \in Positions /\ Apart(p, byX, "x")
    BY <1>6, <1>7, WayGoesOn
  <2> QED BY <1>6, <2>1 DEF Apart
<1>9. toY \in Positions /\ Apart(byX, toY, "y") /\ StepTo(byX["y"], target["y"], toY["y"] - byX["y"]) /\ byY = Clamp(byX, toY)
  BY <1>5, <1>6, <1>8
<1> HIDE DEF toY, byY
<1>10. Way(old, target, byY) /\ byY \in Positions /\ byY["z"] = p["z"]
  <2>1. Way(old, target, byY) /\ byY \in Positions /\ Apart(byX, byY, "y")
    BY <1>6, <1>8, <1>9, WayGoesOn
  <2> QED BY <1>6, <1>8, <2>1 DEF Apart
<1>11. toZ \in Positions /\ Apart(byY, toZ, "z") /\ StepTo(byY["z"], target["z"], toZ["z"] - byY["z"]) /\ byZ = Clamp(byY, toZ)
  BY <1>5, <1>6, <1>10
<1> HIDE DEF toZ, byZ
<1> QED BY <1>4, <1>6, <1>10, <1>11, WayGoesOn

\* However many short steps there are.
LEMMA ClampLoopGoes ==
  ASSUME NEW old \in Positions, NEW target \in Positions PROVE Way(old, target, ClampLoop(old, target))
<1> DEFINE n == MaxSteps
           W == {p \in Positions : Way(old, target, p)}
           T == [at : W, done : BOOLEAN]
           f == Rounds(old, target)
           Next1(t) == LET now == ShortStep(t.at, target)
                       IN IF t.done THEN t
                          ELSE [at |-> now, done |-> Near(now, target) \/ Near(now, t.at)]
           b == [at |-> old, done |-> Near(old, target)]
           step == [k \in 1 .. n |-> [t \in T |-> Next1(t)]]
<1>1. n \in Nat
  BY BodyAssumption
<1>2. \A p, q : Near(p, q) \in BOOLEAN
  BY DEF Near
<1>3. \A t \in T : Next1(t) \in T
  <2> SUFFICES ASSUME NEW t \in T PROVE Next1(t) \in T
    OBVIOUS
  <2>1. t.at \in W
    OBVIOUS
  <2>2. ShortStep(t.at, target) \in W
    BY <2>1, WayTakesAStep DEF Way, Goes
  <2> HIDE DEF W
  <2> QED BY <1>2, <2>2
<1>4. b \in T
  BY <1>2, WayStarts
<1> HIDE DEF T, Next1, b
<1>5. step \in StepsTo(n, T) /\ \A k \in 1 .. n, t \in T : step[k][t] = Next1(t)
  BY <1>3 DEF StepsTo
<1> HIDE DEF step
<1>6. PICK g : Recursive(g, n, T, b, step)
  BY <1>1, <1>4, <1>5, RecursionExists
<1>7. g \in [0 .. n -> T] /\ g[0] = b /\ \A k \in 1 .. n : g[k - 1] \in T /\ g[k] = Next1(g[k - 1])
  <2>1. \A k \in 1 .. n : k - 1 \in 0 .. n
    BY <1>1
  <2> QED BY <1>5, <1>6, <2>1 DEF Recursive
<1>8. g = [k \in 0 .. n |-> IF k = 0 THEN b ELSE Next1(g[k - 1])]
  <2>1. \A k \in 0 .. n : g[k] = IF k = 0 THEN b ELSE Next1(g[k - 1])
    BY <1>1, <1>7
  <2> QED BY <1>7, <2>1
<1>9. f = [k \in 0 .. n |-> IF k = 0 THEN b ELSE Next1(f[k - 1])]
  BY <1>8, Zenon DEF Rounds, Next1, b
<1> HIDE DEF f
<1>10. f[0] = b /\ \A k \in 1 .. n : f[k] = Next1(f[k - 1])
  BY <1>1, <1>9
<1>11. f[n] = g[n]
  <2>1. Alike(f, g, n)
    BY <1>7, <1>10 DEF Alike
  <2>2. n \in 0 .. n
    BY <1>1
  <2> QED BY <1>1, <2>1, <2>2, RecursionUnique
<1>12. f[n] \in T
  BY <1>1, <1>7, <1>11
<1> QED BY <1>12 DEF ClampLoop, f, T
-----------------------------------------------------------------------------
(* Frames.                                                                 *)

LEMMA SmallestAndGreatest ==
  ASSUME NEW u \in Int, NEW v \in Int
  PROVE  /\ Min({u, v}) = (IF u <= v THEN u ELSE v) /\ Max({u, v}) = (IF u <= v THEN v ELSE u)
<1> DEFINE l == IF u <= v THEN u ELSE v
           h == IF u <= v THEN v ELSE u
<1>1. l \in Int /\ h \in Int /\ {u, v} \in SUBSET Int /\ {u, v} # {} /\ (\A w \in {u, v} : l <= w /\ w <= h) /\ l \in {u, v} /\ h \in {u, v}
  OBVIOUS
<1> HIDE DEF l, h
<1>2. Min({u, v}) \in {u, v} /\ \A w \in {u, v} : Min({u, v}) <= w
  BY <1>1, LeastIs
<1>3. Max({u, v}) \in {u, v} /\ \A w \in {u, v} : w <= Max({u, v})
  BY <1>1, GreatestIs
<1>4. Min({u, v}) = l /\ Max({u, v}) = h
  BY <1>1, <1>2, <1>3
<1> QED BY <1>4 DEF l, h

\* What a player passes is what he comes to, or is on a straight way along some axis.
LEMMA PassedIs ==
  ASSUME NEW p \in Positions, NEW q \in Positions, NEW b \in Passed(p, q)
  PROVE  \/ b \in Boxed(q)
         \/ \E a \in Axes :
              /\ b \in Positions /\ \A c \in Axes \ {a} : q[c] = p[c] /\ Within(b[c], c, p[c])
              /\ Between(b[a], a, p[a], q[a])
<1> DEFINE D == {a \in Axes : p[a] # q[a]}
           from == Along(LAMBDA a : Min({p[a], q[a]}))
           to == Along(LAMBDA a : Max({p[a], q[a]}))
<1>1. CASE Cardinality(D) > 1
  BY <1>1 DEF Passed
<1>2. CASE ~(Cardinality(D) > 1)
  <2>1. b \in {c \in Loaded : \A a \in Axes : c[a] \in Low(from, a) .. High(to, a)} \/ b \in Boxed(q)
    <3> HIDE DEF D, from, to
    <3>1. Passed(p, q) = {c \in Loaded : \A a \in Axes : c[a] \in Low(from, a) .. High(to, a)} \cup Boxed(q)
      BY <1>2, Zenon DEF Passed, D, from, to
    <3> QED BY <3>1
  <2>2. PICK a \in Axes : D \subseteq {a}
    <3>1. ASSUME NEW a \in D, NEW c \in D, a # c PROVE FALSE
      <4>1. IsFiniteSet({a, c}) /\ Cardinality({a, c}) = 2
        <5>1. IsFiniteSet({c}) /\ Cardinality({c}) = 1
          BY FS_Singleton
        <5>2. a \notin {c} /\ {c} \cup {a} = {a, c}
          BY <3>1
        <5> QED BY <5>1, <5>2, FS_AddElement
      <4>2. IsFiniteSet(D)
        <5>1. IsFiniteSet(({"x"} \cup {"y"}) \cup {"z"})
          BY FS_Singleton, FS_Union
        <5>2. D \subseteq ({"x"} \cup {"y"}) \cup {"z"}
          BY DEF Axes
        <5> QED BY <5>1, <5>2, FS_Subset
      <4>3. Cardinality({a, c}) <= Cardinality(D)
        BY <4>1, <4>2, FS_Subset
      <4>4. Cardinality(D) \in Nat
        BY <4>2, FS_CardinalityType
      <4> QED BY <1>2, <4>1, <4>3, <4>4
    <3> QED BY <3>1 DEF Axes
  <2>3. \A c \in Axes : p[c] \in Int /\ q[c] \in Int
    BY DEF Positions
  <2>4. \A c \in Axes : from[c] = Min({p[c], q[c]}) /\ to[c] = Max({p[c], q[c]})
    <3>1. /\ from = [x |-> Min({p["x"], q["x"]}), y |-> Min({p["y"], q["y"]}), z |-> Min({p["z"], q["z"]})]
          /\ to = [x |-> Max({p["x"], q["x"]}), y |-> Max({p["y"], q["y"]}), z |-> Max({p["z"], q["z"]})]
      BY Zenon DEF Along
    <3> HIDE DEF from, to
    <3> QED BY <3>1 DEF Axes
  <2> HIDE DEF from, to
  <2>5. CASE b \in Loaded /\ \A c \in Axes : b[c] \in Low(from, c) .. High(to, c)
    <3>1. b \in Positions
      BY <2>5, BodyAssumption DEF Positions
    <3>2. ASSUME NEW c \in Axes PROVE LowAt(c, from[c]) <= b[c] /\ b[c] <= HighAt(c, to[c])
      <4>1. Low(from, c) = LowAt(c, from[c]) /\ High(to, c) = HighAt(c, to[c])
        BY DEF Low, High, LowAt, HighAt
      <4>2. from[c] \in Int /\ to[c] \in Int
        BY <2>3, <2>4, SmallestAndGreatest
      <4>3. LowAt(c, from[c]) \in Int /\ HighAt(c, to[c]) \in Int /\ b[c] \in Int
        BY <3>1, <4>2, Covered, LowIs, HighIs DEF Positions
      <4> QED BY <2>5, <4>1, <4>3
    <3>3. \A c \in Axes \ {a} : p[c] = q[c]
      BY <2>2
    <3>4. \A c \in Axes \ {a} : Within(b[c], c, p[c])
      <4> SUFFICES ASSUME NEW c \in Axes \ {a} PROVE Within(b[c], c, p[c])
        OBVIOUS
      <4>1. from[c] = p[c] /\ to[c] = p[c]
        BY <2>3, <2>4, <3>3, SmallestAndGreatest
      <4> QED BY <3>2, <4>1 DEF Within
    <3>5. Between(b[a], a, p[a], q[a])
      <4>1. from[a] \in {p[a], q[a]} /\ to[a] \in {p[a], q[a]}
        BY <2>3, <2>4, SmallestAndGreatest
      <4> QED BY <3>2, <4>1 DEF Between
    <3> QED BY <3>1, <3>3, <3>4, <3>5
  <2> QED BY <2>1, <2>5
<1> QED BY <1>1, <1>2

\* Nothing on the way from p to q collides that was not covered at p.
Clear(p, q) == \A b \in Passed(p, q) : IsCollision(b) => b \in Boxed(p)

LEMMA WayIsClear ==
  ASSUME NEW p \in Positions, NEW target \in Positions, NEW q, Way(p, target, q) PROVE q \in Positions /\ Clear(p, q)
<1>1. q \in Positions /\ Quiet(p, q) /\ \A a \in Axes : Straight(p, q, a) => Misses(p, q, a)
  BY DEF Way, Goes
<1>2. ASSUME NEW b \in Passed(p, q), IsCollision(b) PROVE b \in Boxed(p)
  <2>1. CASE b \in Boxed(q)
    BY <1>1, <1>2, <2>1 DEF Quiet
  <2>2. ASSUME NEW a \in Axes, b \in Positions, \A c \in Axes \ {a} : q[c] = p[c] /\ Within(b[c], c, p[c]),
               Between(b[a], a, p[a], q[a])
        PROVE  b \in Boxed(p)
    <3>1. Misses(p, q, a)
      BY <1>1, <2>2 DEF Straight
    <3> QED BY <1>2, <2>2, <3>1 DEF Misses
  <2> QED BY <1>1, <2>1, <2>2, PassedIs
<1> QED BY <1>1, <1>2 DEF Clear

\* To step up, on and down again covers nothing anew; to the side it goes as far as on.
LEMMA BumpIs ==
  ASSUME NEW here \in Positions, NEW target \in Positions,
         \A c \in {"x", "z"} : target[c] - here[c] <= 299 /\ here[c] - target[c] <= 299,
         NEW height \in Int, -279 <= height, height <= 279, NEW q, q = Bump(here, target, height)
  PROVE  /\ q \in Positions /\ Quiet(here, q)
         /\ \A c \in {"x", "z"} : Clamped(c, here[c], target[c], q[c]) \/ q = here
         /\ q # here => \E c \in {"x", "z"} : q[c] > here[c] + 1 \/ q[c] < here[c] - 1
<1> DEFINE lifted == Raised(here, height)
           up == ClampLoop(here, lifted)
           over == [target EXCEPT !["y"] = up["y"]]
           on == Clamp(up, over)
           low == Raised(on, -height)
           lowered == Clamp(on, low)
<1> USE DEF Axes
<1>1. lifted \in Positions /\ lifted["x"] = here["x"] /\ lifted["z"] = here["z"]
  BY DEF Positions, Raised
<1> HIDE DEF lifted
<1>2. up \in Positions /\ Quiet(here, up) /\ up["x"] = here["x"] /\ up["z"] = here["z"]
  <2>1. Goes(From(here, lifted), here, up)
    BY <1>1, ClampLoopGoes DEF Way
  <2>2. From(here, lifted)["x"] = 0 /\ From(here, lifted)["z"] = 0
    <3>1. here["x"] \in Int /\ here["z"] \in Int
      BY DEF Positions
    <3> QED BY <1>1, <3>1, FromIs
  <2> QED BY <2>1, <2>2 DEF Goes
<1>3. up.y = up["y"]
  BY <1>2, AlongAxes
<1> HIDE DEF up
<1>4. over \in Positions /\ over["x"] = target["x"] /\ over["y"] = up["y"] /\ over["z"] = target["z"]
  BY <1>2 DEF Positions
<1>5. \A a \in Axes : target[a] \in Int /\ here[a] \in Int /\ up[a] \in Int
  BY <1>2 DEF Positions
<1>6. \A a \in Axes : over[a] - up[a] <= Span(a) /\ up[a] - over[a] <= Span(a)
  BY <1>2, <1>4, <1>5 DEF Span
<1>7. on = Clamp(up, [target EXCEPT !.y = up.y])
  BY <1>3, Zenon
<1> HIDE DEF over
<1>8. on \in Positions /\ Quiet(up, on) /\ \A a \in Axes : Clamped(a, up[a], over[a], on[a])
  BY <1>2, <1>4, <1>6, ClampIs
<1>9. \A c \in {"x", "z"} : Clamped(c, here[c], target[c], on[c])
  BY <1>2, <1>4, <1>8
<1> HIDE DEF on
<1>10. low \in Positions /\ low["x"] = on["x"] /\ low["z"] = on["z"] /\ low["y"] = on["y"] - height
  BY <1>8 DEF Positions, Raised
<1> HIDE DEF low
<1>11. \A a \in Axes : low[a] - on[a] <= Span(a) /\ on[a] - low[a] <= Span(a)
  <2>1. \A a \in Axes : on[a] \in Int
    BY <1>8 DEF Positions
  <2> QED BY <1>10, <2>1 DEF Span
<1>12. lowered \in Positions /\ Quiet(on, lowered) /\ \A a \in Axes : Clamped(a, on[a], low[a], lowered[a])
  BY <1>8, <1>10, <1>11, ClampIs
<1>13. lowered["x"] = on["x"] /\ lowered["z"] = on["z"]
  BY <1>10, <1>12 DEF Clamped
<1>14. q = IF Differ(on, here) THEN lowered ELSE here
  BY <1>7, Zenon DEF Bump, lifted, up, low
<1> HIDE DEF lowered
<1>15. CASE Differ(on, here)
  <2>1. q = lowered
    BY <1>14, <1>15
  <2>2. Quiet(here, q)
    BY <1>2, <1>8, <1>12, <2>1, QuietOn
  <2>3. \E c \in {"x", "z"} : on[c] > here[c] + 1 \/ on[c] < here[c] - 1
    <3>1. /\ on["x"] \in Int /\ on["z"] \in Int /\ here["x"] \in Int /\ here["z"] \in Int
          /\ on.x = on["x"] /\ on.z = on["z"] /\ here.x = here["x"] /\ here.z = here["z"]
      BY <1>8, AlongAxes DEF Positions
    <3>2. AbsOf(on["x"] - here["x"]) > 1 \/ AbsOf(on["z"] - here["z"]) > 1
      BY <1>15, <3>1 DEF Differ, Eps
    <3>3. \A n \in Int : AbsOf(n) > 1 => n > 1 \/ n < -1
      BY DEF AbsOf, Sign
    <3>4. CASE AbsOf(on["x"] - here["x"]) > 1
      <4>1. on["x"] > here["x"] + 1 \/ on["x"] < here["x"] - 1
        BY <3>1, <3>3, <3>4
      <4> QED BY <4>1
    <3>5. CASE AbsOf(on["z"] - here["z"]) > 1
      <4>1. on["z"] > here["z"] + 1 \/ on["z"] < here["z"] - 1
        BY <3>1, <3>3, <3>5
      <4> QED BY <4>1
    <3> QED BY <3>2, <3>4, <3>5
  <2> QED BY <1>9, <1>12, <1>13, <2>1, <2>2, <2>3
<1>16. CASE ~Differ(on, here)
  BY <1>14, <1>16 DEF Quiet
<1> QED BY <1>15, <1>16

\* On foot: up a step, when there is one.
LEMMA BumpIsClear ==
  ASSUME NEW p \in Positions, NEW target \in Positions,
         \A c \in {"x", "z"} : target[c] - p[c] <= 298 /\ p[c] - target[c] <= 298,
         NEW here, Way(p, target, here), NEW height \in Int, -279 <= height, height <= 279
  PROVE  Bump(here, target, height) \in Positions /\ Clear(p, Bump(here, target, height))
<1> DEFINE q == Bump(here, target, height)
<1>1. here \in Positions /\ Quiet(p, here) /\ \A c \in Axes : OnWay(c, p[c], target[c], here[c])
  BY DEF Way, Goes
<1>2. \A c \in Axes : p[c] \in Int /\ target[c] \in Int /\ here[c] \in Int
  BY <1>1 DEF Positions
<1>3. "x" \in Axes /\ "y" \in Axes /\ "z" \in Axes /\ {"x", "z"} \subseteq Axes
  BY DEF Axes
<1>4. \A c \in {"x", "z"} : target[c] - here[c] <= 299 /\ here[c] - target[c] <= 299
  <2> SUFFICES ASSUME NEW c \in {"x", "z"} PROVE target[c] - here[c] <= 299 /\ here[c] - target[c] <= 299
    OBVIOUS
  <2>1. p[c] \in Int /\ target[c] \in Int /\ here[c] \in Int /\ OnWay(c, p[c], target[c], here[c])
    BY <1>1, <1>2, <1>3
  <2> QED BY <2>1 DEF OnWay
<1> HIDE DEF q
<1>5. /\ q \in Positions /\ Quiet(here, q)
      /\ \A c \in {"x", "z"} : Clamped(c, here[c], target[c], q[c]) \/ q = here
      /\ q # here => \E c \in {"x", "z"} : q[c] > here[c] + 1 \/ q[c] < here[c] - 1
  BY <1>1, <1>4, BumpIs DEF q
<1>6. Quiet(p, q)
  BY <1>1, <1>5, QuietOn
<1>7. CASE q = here
  BY <1>7, WayIsClear DEF q
<1>8. CASE q # here
  <2>1. ASSUME NEW c \in {"x", "z"}
        PROVE  /\ q[c] - p[c] <= 300 /\ p[c] - q[c] <= 300 /\ q[c] \in Int
               /\ q[c] > here[c] + 1 \/ q[c] < here[c] - 1 => q[c] # p[c]
    <3>1. p[c] \in Int /\ target[c] \in Int /\ here[c] \in Int /\ OnWay(c, p[c], target[c], here[c])
      BY <1>1, <1>2, <1>3
    <3>2. Clamped(c, here[c], target[c], q[c]) /\ q[c] \in Int
      BY <1>5, <1>8 DEF Clamped
    <3>3. target[c] - p[c] <= 298 /\ p[c] - target[c] <= 298
      OBVIOUS
    <3>4. CASE target[c] = p[c]
      BY <3>1, <3>2, <3>4 DEF OnWay, Clamped
    <3>5. CASE target[c] < p[c]
      <4>1. target[c] <= here[c] /\ here[c] <= p[c] + 1
        BY <3>1, <3>5 DEF OnWay
      <4>2. target[c] <= q[c] /\ q[c] <= here[c] + 1
        BY <3>1, <3>2, <4>1 DEF Clamped
      <4> QED BY <3>1, <3>2, <3>3, <3>5, <4>1, <4>2
    <3>6. CASE target[c] > p[c]
      <4>1. here[c] <= target[c] /\ p[c] - 1 <= here[c]
        BY <3>1, <3>6 DEF OnWay
      <4>2. q[c] <= target[c] /\ here[c] - 1 <= q[c]
        BY <3>1, <3>2, <4>1 DEF Clamped
      <4> QED BY <3>1, <3>2, <3>3, <3>6, <4>1, <4>2
    <3> QED BY <3>1, <3>4, <3>5, <3>6
  <2>2. PICK e \in {"x", "z"} : q[e] # p[e]
    BY <1>5, <1>8, <2>1
  <2>3. ASSUME NEW b \in Passed(p, q), IsCollision(b) PROVE b \in Boxed(p)
    <3>1. CASE b \in Boxed(q)
      BY <1>6, <2>3, <3>1 DEF Quiet
    <3>2. ASSUME NEW a \in Axes, b \in Positions, \A c \in Axes \ {a} : q[c] = p[c] /\ Within(b[c], c, p[c]),
                 Between(b[a], a, p[a], q[a])
          PROVE  b \in Boxed(p)
      <4>1. a = e /\ a \in {"x", "z"}
        BY <1>3, <2>2, <3>2
      <4>2. b[a] \in Int /\ p[a] \in Int /\ q[a] \in Int
        BY <1>2, <1>5, <3>2 DEF Positions
      <4>3. Within(b[a], a, p[a]) \/ Within(b[a], a, q[a])
        BY <2>1, <3>2, <4>1, <4>2, NoGap
      <4>4. CASE Within(b[a], a, p[a])
        BY <3>2, <4>4, Covered
      <4>5. CASE Within(b[a], a, q[a])
        <5>1. \A c \in Axes : Within(b[c], c, q[c])
          BY <3>2, <4>5
        <5>2. b \in Boxed(q)
          BY <1>5, <3>2, <5>1, Covered
        <5> QED BY <1>6, <2>3, <5>2 DEF Quiet
      <4> QED BY <4>3, <4>4, <4>5
    <3> QED BY <1>5, <3>1, <3>2, PassedIs
  <2> QED BY <1>5, <2>3 DEF Clear, q
<1> QED BY <1>7, <1>8

LEMMA FrameIsClear ==
  ASSUME BodyTypeOK, Frame
  PROVE  pos' \in Positions /\ mode' \in Modes /\ (mode' # "noclip" => Clear(pos, pos'))
<1>1. pos \in Positions /\ mode' \in Modes
  BY DEF BodyTypeOK, Frame, NextMode, Modes
<1>2. PICK d \in Strides[mode'] :
        CASE mode' = "standard" -> UpdateStandard(Moved(pos, d))
          [] mode' = "flying" -> UpdateFlying(Moved(pos, d))
          [] OTHER -> UpdateNoclip(Moved(pos, d)) /\ Boxed(Moved(pos, d)) \subseteq Loaded
  BY Zenon DEF Frame
<1> DEFINE target == Moved(pos, d)
<1>3. d \in Positions /\ (mode' = "standard" => d \in Strides["standard"])
  BY <1>1, BodyAssumption
<1>4. target \in Positions /\ \A a \in Axes : target[a] = pos[a] + d[a]
  <2>1. target = [x |-> pos["x"] + d["x"], y |-> pos["y"] + d["y"], z |-> pos["z"] + d["z"]]
    BY Zenon DEF Moved, Along
  <2> HIDE DEF target
  <2>2. \A a \in Axes : pos[a] + d[a] \in Int
    BY <1>1, <1>3 DEF Positions
  <2>3. pos["x"] + d["x"] \in Int /\ pos["y"] + d["y"] \in Int /\ pos["z"] + d["z"] \in Int
    BY <2>2 DEF Axes
  <2>4. target \in Positions
    BY <2>1, <2>3, AlongAxes
  <2> QED BY <2>1, <2>4 DEF Axes
<1> HIDE DEF target
<1>5. CASE mode' = "standard"
  <2>1. UpdateStandard(target)
    BY <1>2, <1>5 DEF target
  <2> DEFINE here == ClampLoop(pos, target)
  <2>2. PICK height \in {BumpLanded, 0, BumpMidair} :
          pos' = IF height > 0 /\ Differ(here, target) THEN Bump(here, target, height) ELSE here
    BY <2>1 DEF UpdateStandard
  <2>3. Way(pos, target, here)
    BY <1>1, <1>4, ClampLoopGoes
  <2>4. height \in Int /\ -279 <= height /\ height <= 279
    BY DEF BumpLanded, BumpMidair
  <2>5. \A c \in {"x", "z"} : target[c] - pos[c] <= 298 /\ pos[c] - target[c] <= 298
    <3> SUFFICES ASSUME NEW c \in {"x", "z"} PROVE target[c] - pos[c] <= 298 /\ pos[c] - target[c] <= 298
      OBVIOUS
    <3>1. c \in Axes /\ pos[c] \in Int /\ d[c] \in Int
      BY <1>1, <1>3 DEF Axes, Positions
    <3>2. Thickness = 300 /\ Eps = 1
      BY DEF Thickness, CornerPos, CornerNeg, Eps
    <3>3. d[c] + 2 * Eps <= Thickness /\ -d[c] + 2 * Eps <= Thickness
      BY <1>3, <1>5, BodyAssumption
    <3> QED BY <1>4, <3>1, <3>2, <3>3
  <2> HIDE DEF here
  <2>6. Bump(here, target, height) \in Positions /\ Clear(pos, Bump(here, target, height))
    BY <1>1, <1>4, <2>3, <2>4, <2>5, BumpIsClear
  <2>7. here \in Positions /\ Clear(pos, here)
    BY <1>1, <1>4, <2>3, WayIsClear
  <2>8. pos' \in {here, Bump(here, target, height)}
    BY <2>2
  <2>9. \A q \in {here, Bump(here, target, height)} : q \in Positions /\ Clear(pos, q)
    BY <2>6, <2>7, Zenon
  <2> QED BY <1>1, <2>8, <2>9
<1>6. CASE mode' = "flying"
  <2>1. pos' = ClampLoop(pos, target)
    BY <1>2, <1>6 DEF target, UpdateFlying
  <2>2. \A q : q = ClampLoop(pos, target) => q \in Positions /\ Clear(pos, q)
    BY <1>1, <1>4, ClampLoopGoes, WayIsClear
  <2> QED BY <1>1, <2>1, <2>2
<1>7. CASE mode' = "noclip"
  BY <1>1, <1>2, <1>4, <1>7 DEF target, UpdateNoclip
<1> QED BY <1>1, <1>5, <1>6, <1>7 DEF Modes

\* The type invariant of a player among blocks.
THEOREM BodyTypes == BodySpec => []BodyTypeOK
<1>1. BodyInit => BodyTypeOK
  BY BodyAssumption DEF BodyInit, BodyTypeOK, Modes
<1>2. BodyTypeOK /\ [BodyNext]_bodyVars => BodyTypeOK'
  <2> SUFFICES ASSUME BodyTypeOK, [BodyNext]_bodyVars PROVE BodyTypeOK'
    OBVIOUS
  <2>1. CASE Frame
    <3>1. pos' \in Positions /\ mode' \in Modes
      BY <2>1, FrameIsClear
    <3>2. frames' \in 0 .. MaxFrames /\ solid' = solid
      BY <2>1, BodyAssumption DEF Frame, Count, BodyTypeOK
    <3> QED BY <3>1, <3>2 DEF BodyTypeOK
  <2>2. CASE SetPosition
    BY <2>2, BodyAssumption DEF SetPosition, Count, BodyTypeOK
  <2>3. CASE WorldChanges
    BY <2>3, BodyAssumption DEF WorldChanges, Count, BodyTypeOK
  <2>4. CASE UNCHANGED bodyVars
    BY <2>4 DEF bodyVars, BodyTypeOK
  <2> QED BY <2>1, <2>2, <2>3, <2>4 DEF BodyNext
<1> QED BY <1>1, <1>2, PTL DEF BodySpec

\* In a mode with collisions no frame takes a player into a block that collides, nor
\* straight through one, unless he was in that block before it: whatever the blocks, and
\* however long and many the frames, as long as one on foot is shorter than a player is
\* thick.
THEOREM BodyStaysOut == BodySpec => StaysOut
<1>1. BodyTypeOK /\ [BodyNext]_bodyVars => MoveStep
  <2> SUFFICES ASSUME BodyTypeOK, [BodyNext]_bodyVars, mode' # "noclip", pos' \notin {pos} \cup Spawns
               PROVE  Clear(pos, pos')
    BY DEF MoveStep, Clear
  <2>1. CASE Frame
    BY <2>1, FrameIsClear
  <2>2. CASE SetPosition
    BY <2>2 DEF SetPosition
  <2>3. CASE WorldChanges
    BY <2>3 DEF WorldChanges
  <2>4. CASE UNCHANGED bodyVars
    BY <2>4 DEF bodyVars
  <2> QED BY <2>1, <2>2, <2>3, <2>4 DEF BodyNext
<1>2. BodyTypeOK /\ [BodyNext]_bodyVars => [MoveStep]_bodyVars
  BY <1>1
<1> QED BY <1>2, BodyTypes, PTL DEF BodySpec, StaysOut
=============================================================================
