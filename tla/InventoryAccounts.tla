------------------------- MODULE InventoryAccounts --------------------------
(***************************************************************************)
(* ItemsAccounted, for all values of the constants of InventoryViews: no   *)
(* interleaving of any number of players makes an item, and each one that  *)
(* is destroyed had nowhere to go.                                         *)
(*                                                                         *)
(* The total of an item is what the block has and a share of each player;  *)
(* a player's step changes one share, so it is enough to compare the block *)
(* and that share before and after it (Books). Each action has a lemma     *)
(* that does so, under ItemsInv.                                           *)
(***************************************************************************)
EXTENDS InventoryProofs

-----------------------------------------------------------------------------
(***************************************************************************)
(* The accounts: what each step makes of what there was of an item, with   *)
(* what its player's request is still to put away.                         *)
(***************************************************************************)

\* The entries of the books.
LEMMA Entries ==
  ASSUME ItemsInv, TypeOK', NEW p \in Players, NEW i \in Items
  PROVE  /\ Before(i, p) = InBlock(i, block) + Sum(i, main[p]) + SumHeld(i, held[p])
                             + SumHeld(i, old[p]) + Work(i, main[p], pc[p], job[p])
         /\ After(i, p) = InBlock(i, block') + Sum(i, main'[p]) + SumHeld(i, held'[p])
                            + SumHeld(i, old'[p]) + Work(i, main'[p], pc'[p], job'[p])
         /\ InBlock(i, block) \in Nat /\ Sum(i, main[p]) \in Nat /\ SumHeld(i, held[p]) \in Nat
         /\ SumHeld(i, old[p]) \in Nat /\ Work(i, main[p], pc[p], job[p]) \in Int
         /\ InBlock(i, block') \in Nat /\ Sum(i, main'[p]) \in Nat /\ SumHeld(i, held'[p]) \in Nat
         /\ SumHeld(i, old'[p]) \in Nat /\ Work(i, main'[p], pc'[p], job'[p]) \in Int
<1>1. TypeOK
  BY DEF ItemsInv
<1>2. Numbers(i, main[p], held[p], old[p], pc[p], job[p]) /\ InBlock(i, block) \in Nat
  BY <1>1, PlayerNumbers
<1>3. Numbers(i, main'[p], held'[p], old'[p], pc'[p], job'[p]) /\ InBlock(i, block') \in Nat
  BY PlayerNumbers
<1> QED BY <1>2, <1>3 DEF Numbers, Before, After, Holds

\* One slot of hand and grid changes.
LEMMA HandCount ==
  ASSUME ItemsInv, NEW p \in Players, NEW c \in OwnSlots, NEW h \in Held, NEW i \in Items,
         held'[p] = [held[p] EXCEPT ![c] = h]
  PROVE  /\ SumHeld(i, held'[p]) + Amount(i, held[p][c].stack)
              = SumHeld(i, held[p]) + Amount(i, h.stack)
         /\ Amount(i, held[p][c].stack) \in Nat /\ Amount(i, h.stack) \in Nat
<1>1. held[p] \in [OwnSlots -> Held] /\ held[p][c] \in Held
  BY Typed
<1>2. SumHeld(i, [held[p] EXCEPT ![c] = h]) + Amount(i, held[p][c].stack)
        = SumHeld(i, held[p]) + Amount(i, h.stack)
  BY <1>1, SumHeldExcept
<1> QED BY <1>1, <1>2, HeldType, AmountType

LEMMA Becoming ==
  ASSUME ItemsInv, NEW p \in Players, NEW w, NEW j, Become(p, w, j)
  PROVE  pc'[p] = w /\ job'[p] = j
<1>1. pc \in [Players -> PCs] /\ job = [q \in Players |-> job[q]]
  BY DEF ItemsInv, TypeOK, PCs
<1>2. DOMAIN job = Players
  BY <1>1
<1> QED BY <1>1, <1>2 DEF Become

\* Requests without items on the way.
LEMMA NoWork ==
  \A i, inv, place, j : place \in {"idle", "clear", "open"} => Work(i, inv, place, j) = 0
BY DEF Work

\* A move to the hand neither makes nor destroys items.
LEMMA PickUpCounts ==
  ASSUME ItemsInv, TypeOK', NEW p \in Players, NEW v \in Shared(p), NEW k \in SlotsOf(v),
         NEW n \in Counts, PickUp(p, v, k, n), NEW i \in Items
  PROVE  After(i, p) = Before(i, p)
<1>1. PICK got, m : PickedUp(p, v, k, n, got, m)
  BY PickUpFits
<1>2. Ready(p) /\ old' = old
  BY DEF PickUp
<1> DEFINE left == TakeItems(At(p, v, k), n).left
<1>3. /\ got \in Slot /\ left \in Slot /\ Write(p, v, k, left)
      /\ At(p, v, k) = Empty => left = Empty
  BY <1>1 DEF PickedUp
<1>4. Amount(i, left) + Amount(i, got) = Amount(i, At(p, v, k))
  <2>1. At(p, v, k) \in MaybeStack /\ n \in Nat \ {0}
    BY ViewSlots, Typed, AtType, SlotType
  <2>2. got = TakeItems(At(p, v, k), n).got
    BY <1>1 DEF PickedUp
  <2> QED BY <2>1, <2>2, TakeConserves
<1> HIDE DEF left
<1>5. InBlock(i, block') + Sum(i, main'[p]) + Amount(i, got) = InBlock(i, block) + Sum(i, main[p])
  <2>1. v \in Views /\ TypeOK
    BY ViewSlots, Typed
  <2> QED BY <1>3, <1>4, <2>1, TakeStores
<1>6. /\ m.kept \in Held /\ m.left \in Held /\ held' = [held EXCEPT ![p][Hand] = m.kept]
      /\ Amount(i, m.kept.stack) + Amount(i, m.left.stack)
           = Amount(i, held[p][Hand].stack) + Amount(i, got)
  BY <1>1 DEF PickedUp
<1>7. held'[p] = [held[p] EXCEPT ![Hand] = m.kept]
  BY <1>6, Typed
<1>8. /\ SumHeld(i, held'[p]) + Amount(i, held[p][Hand].stack)
           = SumHeld(i, held[p]) + Amount(i, m.kept.stack)
      /\ Amount(i, held[p][Hand].stack) \in Nat /\ Amount(i, m.kept.stack) \in Nat
  BY <1>6, <1>7, Typed, HandCount
<1>9. Work(i, main[p], pc[p], job[p]) = 0
  BY <1>2, NoWork DEF Ready
<1>10. Work(i, main'[p], pc'[p], job'[p]) = Amount(i, m.left.stack)
  <2>1. CASE m.left = NothingHeld
    <3>1. pc' = pc /\ Amount(i, m.left.stack) = 0
      BY <1>1, <2>1, HeldType, AmountOfEmpty DEF PickedUp
    <3> QED BY <1>2, <3>1, NoWork DEF Ready
  <2>2. CASE m.left # NothingHeld
    <3> DEFINE j == [view |-> v, slot |-> k, stack |-> m.left.stack,
                     seen |-> TakeItems(At(p, v, k), n).left]
    <3>1. Become(p, "putBack", j) /\ j.stack = m.left.stack
      BY <1>1, <2>2 DEF PickedUp
    <3> HIDE DEF j
    <3>2. pc'[p] = "putBack" /\ job'[p] = j
      BY <3>1, Becoming
    <3> QED BY <3>1, <3>2 DEF Work
  <2> QED BY <2>1, <2>2
<1>11. Amount(i, m.left.stack) \in Nat /\ Amount(i, got) \in Nat
  BY <1>3, <1>6, HeldType, SlotType, AmountType
<1> QED BY <1>2, <1>5, <1>6, <1>8, <1>9, <1>10, <1>11, Entries

\* What a move gives back makes no items, and destroys some only if the slot has changed.
LEMMA PutBackCounts ==
  ASSUME ItemsInv, TypeOK', NEW p \in Players, PutBack(p), NEW i \in Items
  PROVE  \/ faults' # faults
         \/ /\ After(i, p) <= Before(i, p)
            /\ LimitsKept /\ HasSlots(job[p].view) /\ At(p, job[p].view, job[p].slot) = job[p].seen
                 => After(i, p) = Before(i, p)
<1>1. /\ pc[p] = "putBack" /\ Done(p) /\ UNCHANGED <<held, old>>
      /\ \/ Write(p, job[p].view, job[p].slot,
                  Kept(p, job[p].view, job[p].slot, job[p].stack))
         \/ Fault
  BY DEF PutBack
<1>2. job[p] \in JobAt("putBack") /\ (Fault => faults' # faults)
  BY <1>1 DEF ItemsInv, TypeOK, Fault
<1>3. PICK v \in Views, k \in SlotsOf(job[p].view), s \in Slot :
        v = job[p].view /\ k = job[p].slot /\ s = job[p].stack
  BY <1>2, SlotType DEF JobAt
<1>4. CASE Write(p, v, k, Kept(p, v, k, s))
  <2>1. InBlock(i, block') + Sum(i, main'[p]) + Amount(i, Leftover(p, v, k, s))
          = InBlock(i, block) + Sum(i, main[p]) + Amount(i, s)
    BY <1>3, <1>4, Typed, PutStores
  <2>2. Leftover(p, v, k, s) \in Slot
    BY <1>3, Typed, KeptType
  <2>3. Work(i, main[p], pc[p], job[p]) = Amount(i, s)
    BY <1>1, <1>3 DEF Work
  <2>4. Work(i, main'[p], pc'[p], job'[p]) = 0
    BY <1>1, Becoming, NoWork DEF Done
  <2>5. LimitsKept /\ HasSlots(v) /\ At(p, v, k) = job[p].seen => Amount(i, Leftover(p, v, k, s)) = 0
    <3>1. LimitsKept => Merge(job[p].seen, job[p].stack).left = Empty
      BY <1>1 DEF ItemsInv, RequestsOK
    <3> QED BY <1>3, <3>1, AmountOfEmpty DEF Leftover
  <2>6. Amount(i, s) \in Nat /\ Amount(i, Leftover(p, v, k, s)) \in Nat
    BY <2>2, SlotType, AmountType
  <2> QED BY <1>1, <1>3, <2>1, <2>3, <2>4, <2>5, <2>6, Entries
<1> QED BY <1>1, <1>2, <1>3, <1>4

\* A move from the hand neither makes nor destroys items.
LEMMA PutDownCounts ==
  ASSUME ItemsInv, TypeOK', NEW p \in Players, NEW v \in Shared(p), NEW k \in SlotsOf(v),
         NEW n \in Counts, PutDown(p, v, k, n), NEW i \in Items
  PROVE  \/ faults' # faults
         \/ After(i, p) <= Before(i, p) /\ (LimitsKept => After(i, p) = Before(i, p))
<1> DEFINE t == TakeHeld(held[p][Hand], n)
           over == Leftover(p, v, k, t.got.stack)
           rest == Wrap(over, t.got.from)
           m == MergeHeld(t.left, rest)
<1>1. /\ Ready(p) /\ UNCHANGED <<old, pc, job>>
      /\ \/ /\ Write(p, v, k, Kept(p, v, k, t.got.stack))
            /\ held' = [held EXCEPT ![p][Hand] = m.kept]
         \/ Fault
  BY DEF PutDown
<1>2. /\ t.left \in Held /\ t.got \in Held
      /\ Amount(i, t.left.stack) + Amount(i, t.got.stack) = Amount(i, held[p][Hand].stack)
      /\ \A o \in Held :
           LimitsKept /\ (o # NothingHeld => /\ o.stack.item = t.got.stack.item
                                             /\ o.stack.qty <= t.got.stack.qty)
             => MergeHeld(t.left, o).left = NothingHeld
  BY Typed, TakeHeldConserves
<1>3. t.got.stack \in Slot /\ t.got.from \in Origins
  BY <1>2, HeldType
<1>4. /\ over \in Slot
      /\ over # Empty => over.item = t.got.stack.item /\ over.qty <= t.got.stack.qty
  BY <1>3, ViewSlots, Typed, KeptType
<1>5. rest \in Held /\ rest.stack = over /\ (rest # NothingHeld => over # Empty)
  BY <1>3, <1>4, HeldType
<1> HIDE DEF rest
<1>6. /\ m.kept \in Held /\ m.left \in Held
      /\ Amount(i, m.kept.stack) + Amount(i, m.left.stack)
           = Amount(i, t.left.stack) + Amount(i, rest.stack)
  BY <1>2, <1>5, MergeHeldConserves
<1>7. LimitsKept => m.left = NothingHeld
  BY <1>2, <1>4, <1>5
<1>8. CASE Write(p, v, k, Kept(p, v, k, t.got.stack)) /\ held' = [held EXCEPT ![p][Hand] = m.kept]
  <2>1. InBlock(i, block') + Sum(i, main'[p]) + Amount(i, over)
          = InBlock(i, block) + Sum(i, main[p]) + Amount(i, t.got.stack)
    <3>1. v \in Views /\ TypeOK
      BY ViewSlots, Typed
    <3>2. PICK s \in Slot : s = t.got.stack
      BY <1>3
    <3> HIDE DEF t
    <3> QED BY <1>8, <3>1, <3>2, PutStores
  <2> HIDE DEF t, over, m
  <2>2. held'[p] = [held[p] EXCEPT ![Hand] = m.kept]
    BY <1>8, Typed
  <2>3. /\ SumHeld(i, held'[p]) + Amount(i, held[p][Hand].stack)
             = SumHeld(i, held[p]) + Amount(i, m.kept.stack)
        /\ Amount(i, held[p][Hand].stack) \in Nat /\ Amount(i, m.kept.stack) \in Nat
    BY <1>6, <2>2, Typed, HandCount
  <2>4. Work(i, main[p], pc[p], job[p]) = 0 /\ Work(i, main'[p], pc'[p], job'[p]) = 0
    BY <1>1, NoWork DEF Ready
  <2>5. /\ Amount(i, t.left.stack) \in Nat /\ Amount(i, t.got.stack) \in Nat
        /\ Amount(i, over) \in Nat /\ Amount(i, m.left.stack) \in Nat
    BY <1>2, <1>4, <1>6, HeldType, SlotType, AmountType
  <2>6. LimitsKept => Amount(i, m.left.stack) = 0
    BY <1>7, HeldType, AmountOfEmpty
  <2>7. Amount(i, rest.stack) = Amount(i, over)
    BY <1>5
  <2> QED BY <1>1, <1>2, <1>6, <2>1, <2>3, <2>4, <2>5, <2>6, <2>7, Entries
<1>9. Fault => faults' # faults
  BY DEF Fault, ItemsInv, TypeOK
<1> QED BY <1>1, <1>8, <1>9

\* The first half of a swap takes what it puts into the request.
LEMMA SwapTakeCounts ==
  ASSUME ItemsInv, TypeOK', NEW p \in Players, NEW v \in Shared(p), NEW k \in SlotsOf(v),
         SwapTake(p, v, k), NEW i \in Items
  PROVE  faults' # faults \/ After(i, p) = Before(i, p)
<1> DEFINE s == At(p, v, k)
           j == [view |-> v, slot |-> k, mine |-> held[p][Hand],
                 other |-> Wrap(s, [where |-> v, slot |-> k])]
<1>1. /\ Ready(p) /\ held' = [held EXCEPT ![p][Hand] = NothingHeld] /\ old' = old
      /\ \/ Write(p, v, k, Empty) /\ Become(p, "swapPut", j)
         \/ Fault
  BY DEF SwapTake
<1>2. s \in Slot
  BY ViewSlots, Typed, AtType
<1>3. j.mine = held[p][Hand] /\ j.other.stack = s
  BY <1>2, ViewSlots, HeldType
<1>4. CASE Write(p, v, k, Empty) /\ Become(p, "swapPut", j)
  <2>1. Amount(i, Empty) + Amount(i, s) = Amount(i, At(p, v, k))
    BY <1>2, AmountOfEmpty, AmountType, SlotType
  <2>2. InBlock(i, block') + Sum(i, main'[p]) + Amount(i, s) = InBlock(i, block) + Sum(i, main[p])
    BY <1>2, <1>4, <2>1, ViewSlots, Typed, SlotType, TakeStores
  <2> HIDE DEF s, j
  <2>3. pc'[p] = "swapPut" /\ job'[p] = j
    BY <1>4, Becoming
  <2>4. Work(i, main'[p], pc'[p], job'[p]) = Amount(i, held[p][Hand].stack) + Amount(i, s)
    BY <1>3, <2>3 DEF Work
  <2>5. Work(i, main[p], pc[p], job[p]) = 0
    BY <1>1, NoWork DEF Ready
  <2>6. held'[p] = [held[p] EXCEPT ![Hand] = NothingHeld]
    BY <1>1, Typed
  <2>7. /\ SumHeld(i, held'[p]) + Amount(i, held[p][Hand].stack)
             = SumHeld(i, held[p]) + Amount(i, NothingHeld.stack)
        /\ Amount(i, held[p][Hand].stack) \in Nat
    <3>1. PICK h \in Held : h = NothingHeld
      BY HeldType
    <3>2. held[p] \in [OwnSlots -> Held] /\ Hand \in OwnSlots
      BY Typed
    <3>3. SumHeld(i, [held[p] EXCEPT ![Hand] = h]) + Amount(i, held[p][Hand].stack)
            = SumHeld(i, held[p]) + Amount(i, h.stack)
      BY <3>2, SumHeldExcept
    <3>4. Amount(i, held[p][Hand].stack) \in Nat
      BY <3>2, HeldType, AmountType
    <3> QED BY <2>6, <3>1, <3>3, <3>4
  <2>8. Amount(i, NothingHeld.stack) = 0 /\ Amount(i, s) \in Nat
    BY <1>2, HeldType, AmountOfEmpty, SlotType, AmountType
  <2> QED BY <1>1, <2>2, <2>4, <2>5, <2>7, <2>8, Entries
<1>5. Fault => faults' # faults
  BY DEF Fault, ItemsInv, TypeOK
<1> QED BY <1>1, <1>4, <1>5

\* The second half makes no items, and destroys some only if the slot has been filled.
LEMMA SwapPutCounts ==
  ASSUME ItemsInv, TypeOK', NEW p \in Players, SwapPut(p), NEW i \in Items
  PROVE  \/ faults' # faults
         \/ /\ After(i, p) <= Before(i, p)
            /\ HasSlots(job[p].view) /\ At(p, job[p].view, job[p].slot) = Empty
                 => After(i, p) = Before(i, p)
<1>1. pc[p] = "swapPut" /\ Done(p) /\ old' = old /\ held[p][Hand] = NothingHeld
  BY DEF SwapPut, ItemsInv, RequestsOK
<1>2. job[p] \in JobAt("swapPut") /\ (Fault => faults' # faults)
  BY <1>1 DEF ItemsInv, TypeOK, Fault
<1>3. PICK v \in Views, k \in SlotsOf(job[p].view), mine \in Held, other \in Held :
        v = job[p].view /\ k = job[p].slot /\ mine = job[p].mine /\ other = job[p].other
  BY <1>2 DEF JobAt
<1>4. mine.stack \in Slot
  BY HeldType
<1> DEFINE over == Leftover(p, v, k, mine.stack)
<1>5. CASE /\ IF mine = NothingHeld THEN UNCHANGED <<main, block>>
              ELSE Write(p, v, k, Kept(p, v, k, mine.stack))
           /\ held' = IF over = Empty THEN [held EXCEPT ![p][Hand] = other] ELSE held
  <2>1. /\ over \in Slot
        /\ HasSlots(v) /\ At(p, v, k) = Empty => over = Empty
        /\ mine = NothingHeld => over = Empty
    <3>1. over \in Slot
      BY <1>3, <1>4, Typed, KeptType
    <3>2. HasSlots(v) /\ At(p, v, k) = Empty => over = Empty
      BY <1>4, SlotType, MergeFits DEF Leftover
    <3>3. mine = NothingHeld => over = Empty
      <4>1. At(p, v, k) \in Slot
        BY <1>3, Typed, AtType
      <4> QED BY <4>1, SlotType, HeldType, MergeFits DEF Leftover
    <3> QED BY <3>1, <3>2, <3>3
  <2>2. InBlock(i, block') + Sum(i, main'[p]) + Amount(i, over)
          = InBlock(i, block) + Sum(i, main[p]) + Amount(i, mine.stack)
    <3>1. CASE mine = NothingHeld
      <4>1. Amount(i, over) = 0 /\ Amount(i, mine.stack) = 0
        BY <2>1, <3>1, HeldType, AmountOfEmpty
      <4>2. main' = main /\ block' = block
        BY <1>5, <3>1
      <4>3. InBlock(i, block) \in Nat /\ Sum(i, main[p]) \in Nat
        BY Entries
      <4> HIDE DEF over
      <4> QED BY <4>1, <4>2, <4>3
    <3>2. CASE mine # NothingHeld
      BY <1>3, <1>4, <1>5, <3>2, Typed, PutStores
    <3> QED BY <3>1, <3>2
  <2> HIDE DEF over
  <2>3. Work(i, main[p], pc[p], job[p]) = Amount(i, mine.stack) + Amount(i, other.stack)
    BY <1>1, <1>3 DEF Work
  <2>4. Work(i, main'[p], pc'[p], job'[p]) = 0
    BY <1>1, Becoming, NoWork DEF Done
  <2>5. /\ Amount(i, mine.stack) \in Nat /\ Amount(i, other.stack) \in Nat
        /\ Amount(i, over) \in Nat /\ Amount(i, NothingHeld.stack) = 0
    BY <2>1, HeldType, SlotType, AmountType, AmountOfEmpty
  <2>6. CASE over = Empty
    <3>1. held'[p] = [held[p] EXCEPT ![Hand] = other]
      BY <1>5, <2>6, Typed
    <3>2. SumHeld(i, held'[p]) + Amount(i, held[p][Hand].stack)
            = SumHeld(i, held[p]) + Amount(i, other.stack)
      BY <3>1, Typed, HandCount
    <3>3. Amount(i, over) = 0
      BY <2>6, AmountOfEmpty
    <3> QED BY <1>1, <2>2, <2>3, <2>4, <2>5, <3>2, <3>3, Entries
  <2>7. CASE over # Empty
    <3>1. held' = held /\ ~(HasSlots(v) /\ At(p, v, k) = Empty)
      BY <1>5, <2>1, <2>7
    <3> QED BY <1>1, <1>3, <2>2, <2>3, <2>4, <2>5, <3>1, Entries
  <2> QED BY <2>6, <2>7
<1>6. \/ Fault
      \/ /\ IF mine = NothingHeld THEN UNCHANGED <<main, block>>
            ELSE Write(p, v, k, Kept(p, v, k, mine.stack))
         /\ held' = IF over = Empty THEN [held EXCEPT ![p][Hand] = other] ELSE held
  BY <1>3 DEF SwapPut
<1> QED BY <1>2, <1>5, <1>6

\* Two slots of hand and grid change.
LEMMA TwoSlotsCount ==
  ASSUME NEW i \in Items, NEW views \in [OwnSlots -> Held], NEW c \in OwnSlots, NEW d \in OwnSlots,
         c # d, NEW a \in Held, NEW b \in Held, NEW after,
         after = [views EXCEPT ![c] = a, ![d] = b]
  PROVE  SumHeld(i, after)
           + Amount(i, views[c].stack) + Amount(i, views[d].stack)
           = SumHeld(i, views) + Amount(i, a.stack) + Amount(i, b.stack)
<1> DEFINE one == [views EXCEPT ![c] = a]
           two == [one EXCEPT ![d] = b]
<1>1. one \in [OwnSlots -> Held] /\ two \in [OwnSlots -> Held] /\ one[d] = views[d]
  OBVIOUS
<1>2. SumHeld(i, one) + Amount(i, views[c].stack) = SumHeld(i, views) + Amount(i, a.stack)
  BY SumHeldExcept
<1> HIDE DEF one
<1>3. SumHeld(i, two) + Amount(i, one[d].stack) = SumHeld(i, one) + Amount(i, b.stack)
  BY <1>1, SumHeldExcept
<1> HIDE DEF two
<1>4. /\ Amount(i, views[c].stack) \in Nat /\ Amount(i, views[d].stack) \in Nat
      /\ Amount(i, a.stack) \in Nat /\ Amount(i, b.stack) \in Nat
  BY HeldType, AmountType
<1>5. SumHeld(i, one) \in Nat /\ SumHeld(i, two) \in Nat /\ SumHeld(i, views) \in Nat
  BY <1>1, SumHeldType
<1>6. SumHeld(i, two) + Amount(i, views[c].stack) + Amount(i, views[d].stack)
        = SumHeld(i, views) + Amount(i, a.stack) + Amount(i, b.stack)
  BY <1>1, <1>2, <1>3, <1>4, <1>5
<1>7. after = two
  BY DEF one, two
<1> QED BY <1>6, <1>7

\* Moves between hand and grid.
LEMMA GridCounts ==
  ASSUME ItemsInv, TypeOK', NEW p \in Players, NEW k \in Grid, NEW n \in Counts,
         FromGrid(p, k, n) \/ ToGrid(p, k, n), NEW i \in Items
  PROVE  After(i, p) <= Before(i, p) /\ (LimitsKept => After(i, p) = Before(i, p))
<1>1. Ready(p) /\ UNCHANGED <<main, block, online, old, open, pc, job>>
  BY DEF FromGrid, ToGrid
<1>2. k \in OwnSlots /\ Hand \in OwnSlots /\ k # Hand
  BY Typed
<1>3. PICK c \in OwnSlots, d \in OwnSlots : 
        /\ c # d
        /\ LET t == TakeHeld(held[p][c], n)
               m == MergeHeld(held[p][d], t.got)
           IN held' = [held EXCEPT ![p][d] = m.kept, ![p][c] = MergeHeld(t.left, m.left).kept]
  <2>1. CASE FromGrid(p, k, n)
    BY <1>2, <2>1 DEF FromGrid
  <2>2. CASE ToGrid(p, k, n)
    BY <1>2, <2>2 DEF ToGrid
  <2> QED BY <2>1, <2>2
<1>4. PICK t, m : /\ t = TakeHeld(held[p][c], n) /\ m = MergeHeld(held[p][d], t.got)
                  /\ held' = [held EXCEPT ![p][d] = m.kept, ![p][c] = MergeHeld(t.left, m.left).kept]
  BY <1>3
<1>5. /\ m.kept \in Held /\ MergeHeld(t.left, m.left).kept \in Held
      /\ \A x \in Items :
           /\ Amount(x, m.kept.stack) + Amount(x, MergeHeld(t.left, m.left).kept.stack)
                <= Amount(x, held[p][c].stack) + Amount(x, held[p][d].stack)
           /\ LimitsKept =>
                Amount(x, m.kept.stack) + Amount(x, MergeHeld(t.left, m.left).kept.stack)
                  = Amount(x, held[p][c].stack) + Amount(x, held[p][d].stack)
  BY <1>4, MoveFits
<1>6. PICK a \in Held, b \in Held : a = m.kept /\ b = MergeHeld(t.left, m.left).kept
  BY <1>5
<1>7. SumHeld(i, held'[p]) + Amount(i, held[p][d].stack) + Amount(i, held[p][c].stack)
        = SumHeld(i, held[p]) + Amount(i, a.stack) + Amount(i, b.stack)
  <2>1. held \in [Players -> [OwnSlots -> Held]] /\ held[p] \in [OwnSlots -> Held]
    BY Typed
  <2>2. held'[p] = [held[p] EXCEPT ![d] = a, ![c] = b] /\ d # c
    BY <1>3, <1>4, <1>6, <2>1
  <2>3. PICK views, after :
          /\ views \in [OwnSlots -> Held]
          /\ views = held[p] /\ after = held'[p] /\ after = [views EXCEPT ![d] = a, ![c] = b]
    BY <2>1, <2>2
  <2>4. SumHeld(i, after) + Amount(i, views[d].stack) + Amount(i, views[c].stack)
          = SumHeld(i, views) + Amount(i, a.stack) + Amount(i, b.stack)
    BY <2>2, <2>3, TwoSlotsCount
  <2> QED BY <2>3, <2>4
<1>8. /\ Amount(i, a.stack) + Amount(i, b.stack)
           <= Amount(i, held[p][c].stack) + Amount(i, held[p][d].stack)
      /\ LimitsKept => Amount(i, a.stack) + Amount(i, b.stack)
                         = Amount(i, held[p][c].stack) + Amount(i, held[p][d].stack)
  BY <1>5, <1>6
<1>9. /\ Amount(i, a.stack) \in Nat /\ Amount(i, b.stack) \in Nat
      /\ Amount(i, held[p][c].stack) \in Nat /\ Amount(i, held[p][d].stack) \in Nat
  BY Typed, HeldType, AmountType
<1>10. Work(i, main[p], pc[p], job[p]) = 0 /\ Work(i, main'[p], pc'[p], job'[p]) = 0
  BY <1>1, NoWork DEF Ready
<1> QED BY <1>1, <1>7, <1>8, <1>9, <1>10, Entries

LEMMA SwapGridCounts ==
  ASSUME ItemsInv, TypeOK', NEW p \in Players, NEW k \in Grid, SwapGrid(p, k), NEW i \in Items
  PROVE  After(i, p) = Before(i, p)
<1>1. /\ Ready(p) /\ UNCHANGED <<main, block, online, old, open, pc, job>>
      /\ held' = [held EXCEPT ![p][k] = held[p][Hand], ![p][Hand] = held[p][k]]
  BY DEF SwapGrid
<1>2. PICK c \in OwnSlots, d \in OwnSlots, a \in Held, b \in Held :
        c = k /\ d = Hand /\ c # d /\ a = held[p][Hand] /\ b = held[p][k]
  BY Typed
<1>3. held' = [held EXCEPT ![p][c] = a, ![p][d] = b]
  BY <1>1, <1>2
<1>4. SumHeld(i, held'[p]) + Amount(i, held[p][c].stack) + Amount(i, held[p][d].stack)
        = SumHeld(i, held[p]) + Amount(i, a.stack) + Amount(i, b.stack)
  <2>1. held \in [Players -> [OwnSlots -> Held]] /\ held[p] \in [OwnSlots -> Held]
    BY Typed
  <2>2. held'[p] = [held[p] EXCEPT ![c] = a, ![d] = b]
    BY <1>2, <1>3, <2>1
  <2>3. PICK views, after :
          /\ views \in [OwnSlots -> Held]
          /\ views = held[p] /\ after = held'[p] /\ after = [views EXCEPT ![c] = a, ![d] = b]
    BY <2>1, <2>2
  <2>4. SumHeld(i, after) + Amount(i, views[c].stack) + Amount(i, views[d].stack)
          = SumHeld(i, views) + Amount(i, a.stack) + Amount(i, b.stack)
    BY <1>2, <2>3, TwoSlotsCount
  <2> QED BY <2>3, <2>4
<1>5. /\ Amount(i, a.stack) \in Nat /\ Amount(i, b.stack) \in Nat
      /\ held[p][c] = b /\ held[p][d] = a
  BY <1>2, HeldType, AmountType
<1>6. SumHeld(i, held'[p]) = SumHeld(i, held[p])
  <2>1. SumHeld(i, held'[p]) \in Nat /\ SumHeld(i, held[p]) \in Nat
    BY Entries
  <2> QED BY <1>4, <1>5, <2>1
<1>7. Work(i, main[p], pc[p], job[p]) = 0 /\ Work(i, main'[p], pc'[p], job'[p]) = 0
  BY <1>1, NoWork DEF Ready
<1>8. /\ Sum(i, main'[p]) = Sum(i, main[p]) /\ SumHeld(i, old'[p]) = SumHeld(i, old[p])
      /\ InBlock(i, block') = InBlock(i, block)
  BY <1>1
<1> QED BY <1>6, <1>7, <1>8, Entries

\* The creative view gives the item that was asked for, and takes nothing.
LEMMA TakeCreativeCounts ==
  ASSUME ItemsInv, TypeOK', NEW p \in Players, NEW given \in Creative, NEW n \in Counts,
         TakeCreative(p, given, n), NEW i \in Items
  PROVE  Before(i, p) <= After(i, p) /\ (i # given => After(i, p) = Before(i, p))
<1>1. Ready(p) /\ UNCHANGED <<main, block, old, pc, job>>
  BY DEF TakeCreative
<1>2. PICK s \in Slot, o \in Held, kept \in Held :
        /\ s = [item |-> given, qty |-> n] /\ o.stack = s
        /\ kept = MergeHeld(held[p][Hand], o).kept
        /\ held' = [held EXCEPT ![p][Hand] = kept]
  BY TakeCreativeFits
<1> DEFINE m == MergeHeld(held[p][Hand], o)
<1>3. held[p][Hand] \in Held
  BY Typed
<1>4. /\ m.left \in Held
      /\ Amount(i, m.kept.stack) + Amount(i, m.left.stack)
           = Amount(i, held[p][Hand].stack) + Amount(i, s)
      /\ m.left # NothingHeld => m.left.stack.item = s.item /\ m.left.stack.qty <= s.qty
      /\ m.kept = kept
  BY <1>2, <1>3, MergeHeldConserves
<1> HIDE DEF m
<1>5. Amount(i, m.left.stack) <= Amount(i, s)
  <2>1. m.left.stack \in Slot /\ (m.left.stack # Empty => m.left # NothingHeld)
    BY <1>4, HeldType
  <2> QED BY <1>4, <2>1, PartAtMost
<1>6. i # given => Amount(i, s) = 0
  BY <1>2 DEF Amount
<1>7. held'[p] = [held[p] EXCEPT ![Hand] = kept]
  BY <1>2, Typed
<1>8. /\ SumHeld(i, held'[p]) + Amount(i, held[p][Hand].stack)
           = SumHeld(i, held[p]) + Amount(i, kept.stack)
      /\ Amount(i, held[p][Hand].stack) \in Nat /\ Amount(i, kept.stack) \in Nat
  <2>1. held[p] \in [OwnSlots -> Held] /\ Hand \in OwnSlots
    BY Typed
  <2>2. SumHeld(i, [held[p] EXCEPT ![Hand] = kept]) + Amount(i, held[p][Hand].stack)
          = SumHeld(i, held[p]) + Amount(i, kept.stack)
    BY <2>1, SumHeldExcept
  <2> QED BY <1>3, <1>7, <2>2, HeldType, AmountType
<1>9. Amount(i, m.left.stack) \in Nat /\ Amount(i, s) \in Nat
  BY <1>4, HeldType, SlotType, AmountType
<1>10. Work(i, main[p], pc[p], job[p]) = 0 /\ Work(i, main'[p], pc'[p], job'[p]) = 0
  BY <1>1, NoWork DEF Ready
<1>11. SumHeld(i, held[p]) \in Nat /\ SumHeld(i, held'[p]) \in Nat
  BY Entries
<1>12. /\ SumHeld(i, held[p]) <= SumHeld(i, held'[p])
       /\ i # given => SumHeld(i, held'[p]) = SumHeld(i, held[p])
  BY <1>4, <1>5, <1>6, <1>8, <1>9, <1>11
<1> QED BY <1>1, <1>10, <1>12, Entries

\* Steps of a request that move no items.
LEMMA IdleCounts ==
  ASSUME ItemsInv, TypeOK', NEW p \in Players, NEW i \in Items,
         UNCHANGED <<main, held, old>>, InBlock(i, block') = InBlock(i, block),
         \/ pc[p] \in {"idle", "clear", "open"} /\ pc'[p] \in {"idle", "clear", "open"}
         \/ UNCHANGED <<pc, job>>
  PROVE  After(i, p) = Before(i, p)
<1>1. Work(i, main'[p], pc'[p], job'[p]) = Work(i, main[p], pc[p], job[p])
  BY NoWork
<1> QED BY <1>1, Entries

LEMMA QuietCounts ==
  ASSUME ItemsInv, TypeOK', NEW p \in Players, NEW popup \in Popups, NEW i \in Items,
         \/ Close(p, popup) \/ ClearNothing(p) \/ Interact(p) \/ OpenChest(p) \/ Connect(p)
  PROVE  After(i, p) = Before(i, p)
<1>1. CASE Close(p, popup)
  <2>1. UNCHANGED <<main, held, old, block>> /\ pc[p] = "idle" /\ pc'[p] = "clear"
    BY <1>1, Becoming DEF Close, Ready
  <2> QED BY <2>1, IdleCounts
<1>2. CASE ClearNothing(p)
  <2>1. UNCHANGED <<main, held, old, block>> /\ pc[p] = "clear" /\ pc'[p] \in {"idle", "clear"}
    BY <1>2, ClearNothingKeeps DEF ClearNothing
  <2> QED BY <2>1, IdleCounts
<1>3. CASE Interact(p)
  <2>1. UNCHANGED <<main, held, old, block>> /\ pc[p] = "idle" /\ pc'[p] = "open"
    BY <1>3, InteractKeeps DEF Interact
  <2> QED BY <2>1, IdleCounts
<1>4. CASE OpenChest(p)
  BY <1>4, OpenChestKeeps, IdleCounts
<1>5. CASE Connect(p)
  BY <1>5, ConnectKeeps, IdleCounts
<1> QED BY <1>1, <1>2, <1>3, <1>4, <1>5

LEMMA DisconnectCounts ==
  ASSUME ItemsInv, TypeOK', NEW p \in Players, Disconnect(p), NEW i \in Items
  PROVE  After(i, p) = Before(i, p)
<1>1. /\ old[p] = HoldsNothing /\ old'[p] = held[p] /\ held'[p] = HoldsNothing
      /\ UNCHANGED <<main, block, pc, job>>
  BY DisconnectKeeps
<1>2. SumHeld(i, HoldsNothing) = 0
  BY SumOfHoldsNothing
<1> QED BY <1>1, <1>2, Entries

\* A returned stack is at home, or on its way to its owner.
LEMMA ClearSlotCounts ==
  ASSUME ItemsInv, TypeOK', NEW p \in Players, ClearSlot(p), NEW i \in Items
  PROVE  faults' # faults \/ After(i, p) = Before(i, p)
<1>1. PICK c \in OwnSlots, h \in Held :
        /\ pc[p] = "clear" /\ h = held[p][c] /\ h # NothingHeld
        /\ held'[p] = [held[p] EXCEPT ![c] = NothingHeld] /\ old' = old
        /\ \/ /\ Settle(p, h)
              /\ IF Settled(p, h).left = Empty THEN pc'[p] \in {"idle", "clear"}
                 ELSE pc'[p] = "owner" /\ job'[p].stack = Settled(p, h).left
           \/ faults' # faults
  BY ClearSlotKeeps
<1>2. CASE /\ Settle(p, h)
           /\ IF Settled(p, h).left = Empty THEN pc'[p] \in {"idle", "clear"}
              ELSE pc'[p] = "owner" /\ job'[p].stack = Settled(p, h).left
  <2>1. /\ InBlock(i, block') + Sum(i, main'[p]) + Amount(i, Settled(p, h).left)
             = InBlock(i, block) + Sum(i, main[p]) + Amount(i, h.stack)
        /\ Settled(p, h).left \in Slot
    BY <1>1, <1>2, Typed, SettleStores
  <2>2. Work(i, main[p], pc[p], job[p]) = 0
    BY <1>1, NoWork
  <2>3. Work(i, main'[p], pc'[p], job'[p]) = Amount(i, Settled(p, h).left)
    BY <1>2, NoWork, AmountOfEmpty DEF Work
  <2>4. SumHeld(i, held'[p]) + Amount(i, h.stack) = SumHeld(i, held[p]) + Amount(i, NothingHeld.stack)
    <3>1. PICK n \in Held : n = NothingHeld
      BY HeldType
    <3>2. SumHeld(i, held'[p]) + Amount(i, held[p][c].stack) = SumHeld(i, held[p]) + Amount(i, n.stack)
      BY <1>1, <3>1, HandCount
    <3> QED BY <1>1, <3>1, <3>2
  <2>5. /\ Amount(i, NothingHeld.stack) = 0 /\ Amount(i, h.stack) \in Nat
        /\ Amount(i, Settled(p, h).left) \in Nat
    BY <2>1, HeldType, AmountOfEmpty, SlotType, AmountType
  <2>6. SumHeld(i, old'[p]) = SumHeld(i, old[p])
    BY <1>1
  <2> QED BY <2>1, <2>2, <2>3, <2>4, <2>5, <2>6, Entries
<1> QED BY <1>1, <1>2

\* What found no place at home is in the main inventory, or had no room there.
LEMMA ToOwnerCounts ==
  ASSUME ItemsInv, TypeOK', NEW p \in Players, ToOwner(p), NEW i \in Items
  PROVE  \/ faults' # faults
         \/ /\ After(i, p) <= Before(i, p)
            /\ After(i, p) = Before(i, p) \/ NoRoomAt(main[p], job[p].stack)
<1>1. /\ pc[p] = "owner" /\ job[p].stack \in Slot /\ pc'[p] \in {"idle", "clear"}
      /\ UNCHANGED <<block, held, old>>
      /\ \/ main'[p] = TryInsert(main[p], job[p].stack).inv
         \/ faults' # faults
  BY ToOwnerKeeps
<1>2. PICK s \in Slot : s = job[p].stack
  BY <1>1
<1>3. CASE main'[p] = TryInsert(main[p], s).inv
  <2> DEFINE t == TryInsert(main[p], s)
  <2>1. /\ t.left \in Slot
        /\ Sum(i, t.inv) + Amount(i, t.left) = Sum(i, main[p]) + Amount(i, s)
        /\ t.left # Empty => NoRoomAt(main[p], s)
    <3>1. MainSlots \in Nat /\ main[p] \in [1 .. MainSlots -> Slot]
      BY InventoryAssumption DEF ItemsInv, TypeOK, Inventories
    <3> QED BY <3>1, InsertConserves
  <2>2. main'[p] = t.inv
    BY <1>3
  <2> HIDE DEF t
  <2>3. Work(i, main[p], pc[p], job[p]) = Amount(i, s) /\ Work(i, main'[p], pc'[p], job'[p]) = 0
    BY <1>1, <1>2, NoWork DEF Work
  <2>4. Amount(i, s) \in Nat /\ Amount(i, t.left) \in Nat /\ (t.left = Empty => Amount(i, t.left) = 0)
    BY <2>1, SlotType, AmountType, AmountOfEmpty
  <2> QED BY <1>1, <1>2, <2>1, <2>2, <2>3, <2>4, Entries
<1> QED BY <1>1, <1>2, <1>3

\* A dug chest is in the inventory to be written, or had no room there.
LEMMA DigCounts ==
  ASSUME ItemsInv, TypeOK', NEW p \in Players, Dig(p), NEW i \in Items
  PROVE  /\ After(i, p) <= Before(i, p)
         /\ After(i, p) = Before(i, p) \/ NoRoomAt(main[p], Dropped)
<1>1. /\ pc[p] = "idle" /\ pc'[p] = "write" /\ job'[p].main = TryInsert(main[p], Dropped).inv
      /\ block.type = ChestItem /\ block'.type = "air" /\ block'.data = block.data
      /\ UNCHANGED <<main, held, old>>
  BY DigKeeps
<1> DEFINE t == TryInsert(main[p], Dropped)
<1>2. /\ t.left \in Slot /\ t.inv \in Inventories(MainSlots)
      /\ Sum(i, t.inv) + Amount(i, t.left) = Sum(i, main[p]) + Amount(i, Dropped)
      /\ t.left # Empty => NoRoomAt(main[p], Dropped)
  <2>1. MainSlots \in Nat /\ main[p] \in [1 .. MainSlots -> Slot]
    BY InventoryAssumption DEF ItemsInv, TypeOK, Inventories
  <2> QED BY <2>1, DroppedType, InsertConserves DEF Inventories
<1> HIDE DEF t
<1>3. Work(i, main[p], pc[p], job[p]) = 0
  BY <1>1, NoWork
<1>4. Work(i, main'[p], pc'[p], job'[p]) = Sum(i, t.inv) - Sum(i, main[p])
  BY <1>1 DEF Work, t
<1>5. InBlock(i, block) = InBlock(i, block') + Amount(i, Dropped)
  <2>1. PICK d \in Nat : d = Sum(i, block.data)
    BY InventorySum DEF ItemsInv, TypeOK
  <2>2. InBlock(i, block) = d + (IF ChestItem = i THEN 1 ELSE 0) /\ InBlock(i, block') = d + 0
    BY <1>1, <2>1, InventoryAssumption DEF InBlock
  <2>3. Amount(i, Dropped) = IF ChestItem = i THEN 1 ELSE 0
    BY DEF Amount, Dropped
  <2> QED BY <2>1, <2>2, <2>3
<1>6. /\ Amount(i, Dropped) \in Nat /\ Amount(i, t.left) \in Nat /\ Sum(i, t.inv) \in Nat
      /\ t.left = Empty => Amount(i, t.left) = 0
  BY <1>2, DroppedType, SlotType, AmountType, AmountOfEmpty, InventorySum, InventoryAssumption
<1> QED BY <1>1, <1>2, <1>3, <1>4, <1>5, <1>6, Entries

\* A placed chest is no longer in the inventory to be written; what its place still had
\* is gone.
LEMMA PlaceCounts ==
  ASSUME ItemsInv, TypeOK', NEW p \in Players, NEW k \in 1 .. MainSlots, Place(p, k), NEW i \in Items
  PROVE  After(i, p) <= Before(i, p) /\ (block.data = NoData => After(i, p) = Before(i, p))
<1>1. /\ pc[p] = "idle" /\ pc'[p] = "write"
      /\ main[p][k] \in FitStack /\ main[p][k].item = ChestItem
      /\ job'[p].main = [main[p] EXCEPT ![k] = Decrement(main[p][k])]
      /\ block.type = "air" /\ block'.type = ChestItem /\ block'.data = NoData
      /\ UNCHANGED <<main, held, old>>
  BY PlaceKeeps
<1>2. PICK s \in Slot : s = Decrement(main[p][k])
  BY <1>1, DecrementFits
<1> DEFINE one == IF ChestItem = i THEN 1 ELSE 0
           inv == [main[p] EXCEPT ![k] = s]
<1>3. Amount(i, s) + one = Amount(i, main[p][k])
  BY <1>1, <1>2, DecrementFits
<1>4. /\ inv \in Inventories(MainSlots)
      /\ Sum(i, inv) + Amount(i, main[p][k]) = Sum(i, main[p]) + Amount(i, s)
  <2>1. MainSlots \in Nat /\ main[p] \in Inventories(MainSlots)
    BY InventoryAssumption DEF ItemsInv, TypeOK
  <2> QED BY <2>1, SlotChanges
<1>5. Work(i, main[p], pc[p], job[p]) = 0
  BY <1>1, NoWork
<1>6. Work(i, main'[p], pc'[p], job'[p]) = Sum(i, inv) - Sum(i, main[p])
  BY <1>1, <1>2 DEF Work
<1>7. PICK d \in Nat : d = Sum(i, block.data)
  BY InventorySum DEF ItemsInv, TypeOK
<1>8. InBlock(i, block) = d /\ InBlock(i, block') = one /\ (block.data = NoData => d = 0)
  BY <1>1, <1>7, SumOfNoData, InventoryAssumption DEF InBlock
<1>9. Amount(i, s) \in Nat /\ Amount(i, main[p][k]) \in Nat /\ Sum(i, inv) \in Nat /\ one \in Nat
  BY <1>1, <1>4, SlotType, AmountType, InventorySum, InventoryAssumption
<1> HIDE DEF one, inv
<1>10. /\ Sum(i, main'[p]) = Sum(i, main[p]) /\ SumHeld(i, held'[p]) = SumHeld(i, held[p])
       /\ SumHeld(i, old'[p]) = SumHeld(i, old[p])
  BY <1>1
<1>11. /\ Before(i, p) = d + Sum(i, main[p]) + SumHeld(i, held[p]) + SumHeld(i, old[p])
       /\ After(i, p) = one + SumHeld(i, held[p]) + SumHeld(i, old[p]) + Sum(i, inv)
       /\ Sum(i, main[p]) \in Nat /\ SumHeld(i, held[p]) \in Nat /\ SumHeld(i, old[p]) \in Nat
  BY <1>5, <1>6, <1>8, <1>9, <1>10, Entries
<1> QED BY <1>3, <1>4, <1>7, <1>8, <1>9, <1>11

LEMMA WriteMainCounts ==
  ASSUME ItemsInv, TypeOK', NEW p \in Players, WriteMain(p), NEW i \in Items
  PROVE  faults' # faults \/ After(i, p) = Before(i, p)
<1>1. /\ pc[p] = "write" /\ pc'[p] = "idle" /\ job[p].main \in Inventories(MainSlots)
      /\ main'[p] = job[p].main \/ faults' # faults
      /\ UNCHANGED <<block, held, old>>
  BY WriteMainKeeps
<1>2. Work(i, main[p], pc[p], job[p]) = Sum(i, job[p].main) - Sum(i, main[p])
  BY <1>1 DEF Work
<1>3. Work(i, main'[p], pc'[p], job'[p]) = 0
  BY <1>1, NoWork
<1>4. Sum(i, job[p].main) \in Nat
  BY <1>1, InventorySum, InventoryAssumption
<1> QED BY <1>1, <1>2, <1>3, <1>4, Entries

\* A dropped view's stack is at home, or had no room there.
LEMMA DropViewCounts ==
  ASSUME ItemsInv, TypeOK', NEW p \in Players, NEW k \in OwnSlots, DropView(p, k), NEW i \in Items
  PROVE  \/ faults' # faults
         \/ /\ After(i, p) <= Before(i, p)
            /\ After(i, p) = Before(i, p) \/ NoRoomAtHome(p, old[p][k])
<1>1. /\ old[p][k] \in Held /\ old[p][k] # NothingHeld /\ UNCHANGED <<held, pc, job>>
      /\ \/ Settle(p, old[p][k]) /\ old'[p] = [old[p] EXCEPT ![k] = NothingHeld]
         \/ faults' # faults
  BY DropViewKeeps
<1>2. PICK h \in Held : h = old[p][k]
  BY <1>1
<1>3. CASE Settle(p, h) /\ old'[p] = [old[p] EXCEPT ![k] = NothingHeld]
  <2>1. /\ InBlock(i, block') + Sum(i, main'[p]) + Amount(i, Settled(p, h).left)
             = InBlock(i, block) + Sum(i, main[p]) + Amount(i, h.stack)
        /\ Settled(p, h).left \in Slot
        /\ Settled(p, h).left # Empty => NoRoomAtHome(p, h)
    BY <1>1, <1>2, <1>3, Typed, SettleStores
  <2>2. SumHeld(i, old'[p]) + Amount(i, h.stack) = SumHeld(i, old[p]) + Amount(i, NothingHeld.stack)
    <3>1. old[p] \in [OwnSlots -> Held] /\ NothingHeld \in Held
      BY Typed, HeldType
    <3>2. PICK n \in Held : n = NothingHeld
      BY <3>1
    <3>3. SumHeld(i, [old[p] EXCEPT ![k] = n]) + Amount(i, old[p][k].stack)
            = SumHeld(i, old[p]) + Amount(i, n.stack)
      BY <3>1, SumHeldExcept
    <3> QED BY <1>2, <1>3, <3>2, <3>3
  <2>3. /\ Amount(i, NothingHeld.stack) = 0 /\ Amount(i, h.stack) \in Nat
        /\ Amount(i, Settled(p, h).left) \in Nat
        /\ Settled(p, h).left = Empty => Amount(i, Settled(p, h).left) = 0
    BY <2>1, HeldType, AmountOfEmpty, SlotType, AmountType
  <2>4. Work(i, main'[p], pc'[p], job'[p]) = Work(i, main[p], pc[p], job[p])
    <3>1. CASE main'[p] = main[p]
      BY <1>1, <3>1
    <3>2. CASE main'[p] # main[p]
      <4>1. InventoryFree
        BY <1>2, <1>3, <3>2, <1>1, Typed, SettleStores
      <4>2. pc[p] # "write"
        BY <4>1, InventoryAssumption DEF InventoryFree, ItemsInv, TypeOK
      <4> QED BY <1>1, <4>2 DEF Work
    <3> QED BY <3>1, <3>2
  <2> QED BY <1>1, <1>2, <2>1, <2>2, <2>3, <2>4, Entries
<1> QED BY <1>1, <1>2, <1>3
\* What the books say of the total.
LEMMA BooksClose ==
  ASSUME ItemsInv, TypeOK', NEW p \in Players, OthersSame(p), NEW i \in Items
  PROVE  /\ After(i, p) <= Before(i, p) => Total(i)' <= Total(i)
         /\ Before(i, p) <= After(i, p) => Total(i)' >= Total(i)
         /\ After(i, p) \in Int /\ Before(i, p) \in Int
<1>1. TypeOK
  BY DEF ItemsInv
<1>2. /\ Total(i)' + Before(i, p) = Total(i) + After(i, p)
      /\ Total(i) \in Int /\ Total(i)' \in Int /\ Before(i, p) \in Int /\ After(i, p) \in Int
  BY <1>1, Books
<1> QED BY <1>2

\* No step of a player makes items other than by crafting and by the creative view.
LEMMA ActsMakeNothing ==
  ASSUME ItemsInv, TypeOK', NEW p \in Players, Acts(p), NEW i \in Items
  PROVE  \/ Total(i)' <= Total(i)
         \/ faults' # faults
         \/ Craft(p) \/ \E n \in Counts : TakeCreative(p, i, n)
<1> DEFINE Goal == \/ After(i, p) <= Before(i, p)
                   \/ faults' # faults
                   \/ Craft(p) \/ \E n \in Counts : TakeCreative(p, i, n)
<1>0. OthersSame(p)
  BY ActsKeep DEF PlayerKeeps
<1>1. After(i, p) \in Int /\ Before(i, p) \in Int
  BY <1>0, BooksClose
<1>2. ASSUME NEW v \in Shared(p), NEW n \in Counts, NEW k \in SlotsOf(v),
             PickUp(p, v, k, n) \/ PutDown(p, v, k, n)
      PROVE  Goal
  BY <1>1, <1>2, PickUpCounts, PutDownCounts
<1>3. ASSUME NEW v \in Shared(p), NEW k \in SlotsOf(v), SwapTake(p, v, k) PROVE Goal
  BY <1>1, <1>3, SwapTakeCounts
<1>4. ASSUME NEW k \in Grid, NEW n \in Counts, FromGrid(p, k, n) \/ ToGrid(p, k, n) PROVE Goal
  BY <1>4, GridCounts
<1>5. ASSUME NEW k \in Grid, SwapGrid(p, k) PROVE Goal
  BY <1>1, <1>5, SwapGridCounts
<1>6. ASSUME NEW given \in Creative, NEW n \in Counts, TakeCreative(p, given, n) PROVE Goal
  <2>1. CASE i = given
    BY <1>6, <2>1
  <2>2. CASE i # given
    BY <1>1, <1>6, <2>2, TakeCreativeCounts
  <2> QED BY <2>1, <2>2
<1>7. ASSUME NEW popup \in {"inventory", "chest"}, Close(p, popup) PROVE Goal
  BY <1>1, <1>7, QuietCounts DEF Popups
<1>8. ASSUME ClearNothing(p) \/ Interact(p) \/ OpenChest(p) \/ Connect(p) PROVE Goal
  <2>1. "chest" \in Popups
    BY DEF Popups
  <2>2. After(i, p) = Before(i, p)
    BY <1>8, <2>1, QuietCounts
  <2> QED BY <1>1, <2>2
<1>9. ASSUME PutBack(p) \/ SwapPut(p) \/ ToOwner(p) \/ Dig(p) PROVE Goal
  BY <1>9, PutBackCounts, SwapPutCounts, ToOwnerCounts, DigCounts
<1>10. ASSUME ClearSlot(p) \/ WriteMain(p) \/ Disconnect(p) PROVE Goal
  BY <1>1, <1>10, ClearSlotCounts, WriteMainCounts, DisconnectCounts
<1>11. ASSUME NEW k \in 1 .. MainSlots, Place(p, k) PROVE Goal
  BY <1>11, PlaceCounts
<1>12. ASSUME NEW k \in OwnSlots, DropView(p, k) PROVE Goal
  BY <1>12, DropViewCounts
<1>13. ASSUME Craft(p) PROVE Goal
  BY <1>13
<1> HIDE DEF Goal
<1>14. Goal
  BY <1>2, <1>3, <1>4, <1>5, <1>6, <1>7, <1>8, <1>9, <1>10, <1>11, <1>12, <1>13 DEF Acts
<1> QED BY <1>0, <1>14, BooksClose DEF Goal

\* The steps of a player that destroy items, by LossStep.
Destroys(p) ==
  \/ Craft(p)
  \/ PutBack(p) /\ ~(HasSlots(job[p].view) /\ At(p, job[p].view, job[p].slot) = job[p].seen)
  \/ SwapPut(p) /\ ~(HasSlots(job[p].view) /\ At(p, job[p].view, job[p].slot) = Empty)
  \/ ToOwner(p) /\ NoRoomAt(main[p], job[p].stack)
  \/ Dig(p) /\ NoRoomAt(main[p], [item |-> ChestItem, qty |-> 1])
  \/ (\E k \in 1 .. MainSlots : Place(p, k)) /\ block.data # NoData
  \/ \E k \in OwnSlots : DropView(p, k) /\ NoRoomAtHome(p, old[p][k])

LEMMA ActsDestroyNothing ==
  ASSUME ItemsInv, TypeOK', NEW p \in Players, Acts(p), NEW i \in Items, LimitsKept
  PROVE  Total(i)' >= Total(i) \/ faults' # faults \/ Destroys(p)
<1> DEFINE Goal == Before(i, p) <= After(i, p) \/ faults' # faults \/ Destroys(p)
<1>0. OthersSame(p)
  BY ActsKeep DEF PlayerKeeps
<1>1. After(i, p) \in Int /\ Before(i, p) \in Int
  BY <1>0, BooksClose
<1>2. ASSUME NEW v \in Shared(p), NEW n \in Counts, NEW k \in SlotsOf(v),
             PickUp(p, v, k, n) \/ PutDown(p, v, k, n)
      PROVE  Goal
  BY <1>1, <1>2, PickUpCounts, PutDownCounts
<1>3. ASSUME NEW v \in Shared(p), NEW k \in SlotsOf(v), SwapTake(p, v, k) PROVE Goal
  BY <1>1, <1>3, SwapTakeCounts
<1>4. ASSUME NEW k \in Grid, NEW n \in Counts, FromGrid(p, k, n) \/ ToGrid(p, k, n) PROVE Goal
  BY <1>1, <1>4, GridCounts
<1>5. ASSUME NEW k \in Grid, SwapGrid(p, k) PROVE Goal
  BY <1>1, <1>5, SwapGridCounts
<1>6. ASSUME NEW given \in Creative, NEW n \in Counts, TakeCreative(p, given, n) PROVE Goal
  BY <1>6, TakeCreativeCounts
<1>7. ASSUME NEW popup \in {"inventory", "chest"}, Close(p, popup) PROVE Goal
  BY <1>1, <1>7, QuietCounts DEF Popups
<1>8. ASSUME ClearNothing(p) \/ Interact(p) \/ OpenChest(p) \/ Connect(p) PROVE Goal
  <2>1. "chest" \in Popups
    BY DEF Popups
  <2>2. After(i, p) = Before(i, p)
    BY <1>8, <2>1, QuietCounts
  <2> QED BY <1>1, <2>2
<1>9. ASSUME PutBack(p) PROVE Goal
  BY <1>1, <1>9, PutBackCounts DEF Destroys
<1>10. ASSUME SwapPut(p) PROVE Goal
  BY <1>1, <1>10, SwapPutCounts DEF Destroys
<1>11. ASSUME ToOwner(p) PROVE Goal
  BY <1>1, <1>11, ToOwnerCounts DEF Destroys
<1>12. ASSUME Dig(p) PROVE Goal
  BY <1>1, <1>12, DigCounts DEF Destroys, Dropped
<1>13. ASSUME ClearSlot(p) \/ WriteMain(p) \/ Disconnect(p) PROVE Goal
  BY <1>1, <1>13, ClearSlotCounts, WriteMainCounts, DisconnectCounts
<1>14. ASSUME NEW k \in 1 .. MainSlots, Place(p, k) PROVE Goal
  BY <1>1, <1>14, PlaceCounts DEF Destroys
<1>15. ASSUME NEW k \in OwnSlots, DropView(p, k) PROVE Goal
  BY <1>1, <1>15, DropViewCounts DEF Destroys
<1>16. ASSUME Craft(p) PROVE Goal
  BY <1>16 DEF Destroys
<1> HIDE DEF Goal
<1>17. Goal
  BY <1>2, <1>3, <1>4, <1>5, <1>6, <1>7, <1>8, <1>9, <1>10, <1>11, <1>12, <1>13, <1>14,
     <1>15, <1>16 DEF Acts
<1> QED BY <1>0, <1>17, BooksClose DEF Goal

\* Saving and unloading change the block only.
LEMMA SharesStay ==
  ASSUME ItemsInv, TypeOK', UNCHANGED <<main, held, old, pc, job>>, NEW i \in Items
  PROVE  /\ InBlock(i, block') <= InBlock(i, block) => Total(i)' <= Total(i)
         /\ InBlock(i, block') >= InBlock(i, block) => Total(i)' >= Total(i)
<1> DEFINE g == [q \in Players |-> Share(i, q)]
           h == [q \in Players |-> Share(i, q)']
<1>1. \A q \in Players : Share(i, q) \in Int /\ Share(i, q)' = Share(i, q)
  BY PlayerNumbers, ShareHolds DEF ItemsInv
<1>2. h = g /\ g \in [Players -> Int]
  BY <1>1
<1>3. Total(i) = InBlock(i, block) + Tally(g) /\ Total(i)' = InBlock(i, block') + Tally(h)
  BY TotalIs
<1>4. InBlock(i, block) \in Nat /\ InBlock(i, block') \in Nat
  BY BlockSum DEF ItemsInv, TypeOK
<1> HIDE DEF g, h
<1>5. IsFiniteSet(Players)
  BY InventoryAssumption
<1>6. Tally(g) \in Int
  BY <1>2, <1>5, TallyType
<1> QED BY <1>2, <1>3, <1>4, <1>6

LEMMA SaveCounts ==
  ASSUME ItemsInv, TypeOK', Save, NEW i \in Items
  PROVE  Total(i)' <= Total(i) /\ Total(i)' >= Total(i)
<1>1. InBlock(i, block') = InBlock(i, block) /\ UNCHANGED <<main, held, old, pc, job>>
  BY SaveKeeps
<1>2. InBlock(i, block) \in Nat
  BY BlockSum DEF ItemsInv, TypeOK
<1> QED BY <1>1, <1>2, SharesStay

LEMMA EvictCounts ==
  ASSUME ItemsInv, TypeOK', Evict, NEW i \in Items
  PROVE  \/ faults' # faults
         \/ /\ Total(i)' <= Total(i)
            /\ \/ Total(i)' >= Total(i)
               \/ block.type = "air" \/ (~block.dirty /\ block # Loaded(saved))
<1>1. /\ UNCHANGED <<main, held, old, pc, job>>
      /\ \/ block.dirty /\ block' = Loaded([type |-> block.type, data |-> block.data])
         \/ ~block.dirty /\ block' = Loaded(saved)
         \/ faults' # faults
  BY EvictKeeps
<1>2. InBlock(i, block) \in Nat /\ InBlock(i, block') \in Nat
  BY BlockSum DEF ItemsInv, TypeOK
<1>3. CASE block.dirty /\ block' = Loaded([type |-> block.type, data |-> block.data])
  <2>1. PICK s \in [type : {"air", ChestItem}, data : Data] :
          s = [type |-> block.type, data |-> block.data]
    BY DEF ItemsInv, TypeOK
  <2>2. /\ InBlock(i, Loaded(s)) <= InBlock(i, s)
        /\ s.type # "air" => InBlock(i, Loaded(s)) = InBlock(i, s)
    BY LoadedData
  <2>3. InBlock(i, s) = InBlock(i, block) /\ s.type = block.type
    BY <2>1 DEF InBlock
  <2> QED BY <1>1, <1>2, <1>3, <2>1, <2>2, <2>3, SharesStay
<1>4. CASE ~block.dirty /\ block' = Loaded(saved)
  <2>1. InBlock(i, block') <= InBlock(i, block)
    BY <1>4 DEF ItemsInv, CleanHoldsSaved
  <2>2. block = Loaded(saved) => InBlock(i, block') >= InBlock(i, block)
    BY <1>2, <1>4
  <2> QED BY <1>1, <1>4, <2>1, <2>2, SharesStay
<1> QED BY <1>1, <1>3, <1>4

\* A killed process takes hands, grids and requests with it.
LEMMA CrashCounts ==
  ASSUME ItemsInv, TypeOK', Crash, ~block.dirty, holder = NoPlayer, NEW i \in Items
  PROVE  Total(i)' <= Total(i)
<1> DEFINE g == [q \in Players |-> Share(i, q)]
           h == [q \in Players |-> Share(i, q)']
<1>1. ASSUME NEW q \in Players
      PROVE  Share(i, q) \in Int /\ Share(i, q)' \in Int /\ Share(i, q)' <= Share(i, q)
  <2>1. /\ main'[q] = main[q] /\ held'[q] = HoldsNothing /\ old'[q] = HoldsNothing
        /\ pc'[q] = "idle"
    BY DEF Crash
  <2>2. pc[q] # "write" /\ pc[q] \in PCs /\ job[q] \in JobAt(pc[q]) /\ main[q] \in Inventories(MainSlots)
    BY InventoryAssumption DEF ItemsInv, TypeOK, PCs
  <2>3. Work(i, main[q], pc[q], job[q]) \in Nat /\ Work(i, main'[q], pc'[q], job'[q]) = 0
    BY <2>1, <2>2, WorkType, NoWork
  <2>4. SumHeld(i, held'[q]) = 0 /\ SumHeld(i, old'[q]) = 0
    BY <2>1, SumOfHoldsNothing
  <2>5. Sum(i, main[q]) \in Nat /\ SumHeld(i, held[q]) \in Nat /\ SumHeld(i, old[q]) \in Nat
    BY PlayerNumbers DEF ItemsInv, Numbers
  <2>6. /\ Share(i, q) = Sum(i, main[q]) + SumHeld(i, held[q]) + SumHeld(i, old[q])
                           + Work(i, main[q], pc[q], job[q])
        /\ Share(i, q)' = Sum(i, main'[q]) + SumHeld(i, held'[q]) + SumHeld(i, old'[q])
                            + Work(i, main'[q], pc'[q], job'[q])
    BY ShareHolds DEF Holds
  <2>7. Sum(i, main'[q]) = Sum(i, main[q])
    BY <2>1
  <2> QED BY <2>3, <2>4, <2>5, <2>6, <2>7
<1>2. g \in [Players -> Int] /\ h \in [Players -> Int] /\ \A q \in Players : h[q] <= g[q]
  BY <1>1
<1>3. Total(i) = InBlock(i, block) + Tally(g) /\ Total(i)' = InBlock(i, block') + Tally(h)
  BY TotalIs
<1> HIDE DEF g, h
<1>4. IsFiniteSet(Players)
  BY InventoryAssumption
<1>5. Tally(g) \in Int /\ Tally(h) \in Int /\ Tally(h) <= Tally(g)
  BY <1>2, <1>4, TallyType, TallyAtMost
<1>6. InBlock(i, block) \in Nat /\ InBlock(i, block') \in Nat
  BY BlockSum DEF ItemsInv, TypeOK
<1>7. InBlock(i, block') <= InBlock(i, block)
  BY DEF ItemsInv, CleanHoldsSaved, Crash
<1> QED BY <1>3, <1>5, <1>6, <1>7

LEMMA StutterCounts ==
  ASSUME ItemsInv, UNCHANGED vars, NEW i \in Items
  PROVE  Total(i)' <= Total(i) /\ Total(i)' >= Total(i)
<1>1. TypeOK' /\ UNCHANGED <<main, held, old, pc, job>> /\ block' = block
  BY DEF vars, ItemsInv, TypeOK
<1>2. InBlock(i, block') \in Nat /\ InBlock(i, block') = InBlock(i, block)
  BY <1>1, BlockSum DEF TypeOK
<1> QED BY <1>1, <1>2, SharesStay

\* No interleaving makes items.
LEMMA StepGains == ItemsInv /\ [Next]_vars => GainStep
<1> SUFFICES ASSUME ItemsInv, [Next]_vars, NEW i \in Items
             PROVE  \/ Total(i)' <= Total(i)
                    \/ faults' # faults /\ (Crash => (block.dirty \/ holder # NoPlayer))
                    \/ \E p \in Players : Craft(p) \/ \E n \in Counts : TakeCreative(p, i, n)
  BY DEF GainStep
<1>1. TypeOK'
  BY ItemsNext DEF ItemsInv
<1>2. CASE Crash
  <2>1. CASE block.dirty \/ holder # NoPlayer
    BY <1>2, <2>1, CrashKeeps
  <2>2. CASE ~block.dirty /\ holder = NoPlayer
    BY <1>1, <1>2, <2>2, CrashCounts
  <2> QED BY <2>1, <2>2
<1>3. CASE ~Crash
  <2>1. ASSUME NEW p \in Players, Acts(p)
        PROVE  \/ Total(i)' <= Total(i)
               \/ faults' # faults
               \/ Craft(p) \/ \E n \in Counts : TakeCreative(p, i, n)
    BY <1>1, <2>1, ActsMakeNothing
  <2>2. CASE Save \/ Evict \/ UNCHANGED vars
    BY <1>1, <1>3, <2>2, SaveCounts, EvictCounts, StutterCounts
  <2> QED BY <1>3, <2>1, <2>2 DEF Next
<1> QED BY <1>2, <1>3

\* An item that is destroyed had nowhere to go.
LEMMA StepLoses == LimitsKept /\ ItemsInv /\ [Next]_vars => LossStep
<1> SUFFICES ASSUME LimitsKept, ItemsInv, [Next]_vars, NEW i \in Items
             PROVE  \/ Total(i)' >= Total(i)
                    \/ faults' # faults
                    \/ Evict /\ (block.type = "air" \/ (~block.dirty /\ block # Loaded(saved)))
                    \/ \E p \in Players : Destroys(p)
  BY DEF LossStep, Destroys
<1>1. TypeOK'
  BY ItemsNext DEF ItemsInv
<1>2. ASSUME NEW p \in Players, Acts(p)
      PROVE  Total(i)' >= Total(i) \/ faults' # faults \/ Destroys(p)
  BY <1>1, <1>2, ActsDestroyNothing
<1>3. CASE Save \/ Evict \/ UNCHANGED vars
  BY <1>1, <1>3, SaveCounts, EvictCounts, StutterCounts
<1>4. CASE Crash
  BY <1>4, CrashKeeps
<1> QED BY <1>2, <1>3, <1>4 DEF Next

\* No interleaving of any number of players makes an item: they come from crafting, the
\* creative view, and calls that fail only.
THEOREM NothingIsMade == Spec => [][GainStep]_vars
<1>1. ItemsInv /\ [Next]_vars => [GainStep]_vars
  BY StepGains
<1> QED BY <1>1, ItemsInvariant, PTL DEF Spec

\* Both halves, if no stack that can be split is larger than its limit to begin with.
THEOREM ItemsAreAccounted ==
  ASSUME LimitsKept
  PROVE  Spec => ItemsAccounted
<1>1. ItemsInv /\ [Next]_vars => [GainStep /\ LossStep]_vars
  BY StepGains, StepLoses
<1> QED BY <1>1, ItemsInvariant, PTL DEF Spec, ItemsAccounted
=============================================================================
