------------------------------- MODULE Furnace -------------------------------
(***************************************************************************)
(* One furnace of the default game: its timer tick, which is an inline     *)
(* callback and so one step under the mutex of its chunk, the views of     *)
(* players on its three slots, digging and placing, and the eviction of    *)
(* its chunk, which writes only what is marked dirty (furnace.rs).  The    *)
(* tick forgets to mark in some of its early returns.                      *)
(***************************************************************************)
EXTENDS ItemStacks, FiniteSets

CONSTANTS
  Fuels,      \* items the book of fuels finds a recipe for
  FuelTicks,  \* metadata of that recipe
  Smelts,     \* what the book of smelting finds: result and ticks by item
  Longest,    \* bound: ticks of the longest smelting
  Supply      \* how many of each item the players have

\* No recipe for what is not an item; smelting takes a tick at least.
ASSUME FurnaceAssumption ==
  /\ Fuels \subseteq Items /\ FuelTicks \in Nat /\ Longest \in Nat
  /\ DOMAIN Smelts \subseteq Items /\ Smelts \in [DOMAIN Smelts -> [to : Items, ticks : 1 .. Longest]]
  /\ IsFiniteSet(Items) /\ Supply \in [Items -> Nat]

VARIABLES block,    \* the furnace in memory; burnt, free, made, heat count what it has done
          saved,    \* the furnace in the database
          dirty,    \* MapChunk::dirty
          outside,  \* how many of each item the players hold
          away,     \* how many are in their hands that go back into a slot when a popup closes
          unmarked, \* (history) how many items went back so since the chunk was marked or loaded
          lost      \* (history) how many are gone: in an eviction, with a call that failed, for lack of room

furnaceVars == <<block, saved, dirty, outside, away, unmarked, lost>>
playersVars == <<outside, away, lost>>

Slots == {"input", "output", "fuel"}

\* A furnace that is placed in the place of b; what has burnt or was given is counted on.
Fresh(b) == [type |-> "off", open |-> FALSE, slot |-> [s \in Slots |-> Empty],
             flame |-> 0, progress |-> 0, ticks |-> 0, smelted |-> NoItem,
             burnt |-> b.burnt, free |-> b.free, made |-> 0, heat |-> 0]

\* What a slot may hold: a stack, or one of an item that does not stack.
Fits(s) == s = Empty \/ s.qty = 1 \/ s.qty \in 1 .. MaxStack[s.item]

Furnaces == [type : {"on", "off", "air"}, open : BOOLEAN, slot : [Slots -> MaybeStack],
             flame : 0 .. FuelTicks, progress : 0 .. Longest, ticks : 0 .. Longest,
             smelted : Items \cup {NoItem}, burnt : Nat, free : Nat, made : Nat, heat : Nat]

\* The type invariant: no slot holds more than a stack.
FurnaceTypeOK ==
  /\ block \in Furnaces /\ saved \in Furnaces /\ dirty \in BOOLEAN
  /\ outside \in [Items -> Nat] /\ away \in [Slots \X Items -> Nat]
  /\ unmarked \in Nat /\ lost \in Nat
  /\ \A s \in Slots : Fits(block.slot[s]) /\ Fits(saved.slot[s])

FurnaceInit ==
  /\ block = Fresh([burnt |-> 0, free |-> 0]) /\ saved = block /\ dirty = FALSE
  /\ outside = Supply /\ away = [p \in Slots \X Items |-> 0]
  /\ unmarked = 0 /\ lost = 0
-----------------------------------------------------------------------------
(* FurnaceTimerCallback: the flame, then the smelting.                     *)

Recipe(b) == b.slot["input"].item \in DOMAIN Smelts
TakeOne(b, s) == [b EXCEPT !.slot[s] = Decrement(@)]

\* MaybeStack::try_take_all(Some(1)): nothing of a stack that is not stackable.
Yields(b, s) == b.slot[s].item \in Stackable
TryTakeOne(b, s) == IF Yields(b, s) THEN TakeOne(b, s) ELSE b

ShutDown(b) == [b EXCEPT !.type = "off", !.progress = 0]
Light(b) == [TakeOne(b, "fuel") EXCEPT !.flame = FuelTicks, !.type = "on", !.burnt = @ + 1]
BurnOn(b) == [b EXCEPT !.flame = @ - 1, !.type = "on"]

\* Mutant of Burn: lighting the furnace is not marked.
BurnUnmarked(b) ==
  IF b.flame > 0 THEN [b |-> BurnOn(b), marks |-> b.type = "off"]
  ELSE IF b.slot["fuel"].item \in Fuels /\ Recipe(b)
  THEN [b |-> IF Yields(b, "fuel") THEN Light(b) ELSE b, marks |-> FALSE]
  ELSE [b |-> ShutDown(b), marks |-> ShutDown(b) # b]

\* What the flame does, and whether that sets set_dirty.
Burn(b) ==
  IF b.flame > 0 THEN [b |-> BurnOn(b), marks |-> b.type = "off"]
  ELSE IF b.slot["fuel"].item \in Fuels /\ Recipe(b)
  THEN IF Yields(b, "fuel") THEN [b |-> Light(b), marks |-> TRUE] ELSE [b |-> b, marks |-> FALSE]
  ELSE [b |-> ShutDown(b), marks |-> ShutDown(b) # b]

\* Mutant of NewInput: the ticks of the item before are kept.
NewInputSameTicks(b) ==
  IF Recipe(b) THEN [b |-> [b EXCEPT !.progress = 0, !.smelted = b.slot["input"].item],
                     marks |-> TRUE]
  ELSE [b |-> [b EXCEPT !.progress = 0, !.smelted = NoItem], marks |-> FALSE]

\* The input is another item than the one being smelted; without a recipe for it the
\* callback returns before it marks anything.
NewInput(b) ==
  IF Recipe(b)
  THEN [b |-> [b EXCEPT !.progress = 0, !.ticks = Smelts[b.slot["input"].item].ticks,
                        !.smelted = b.slot["input"].item],
        marks |-> TRUE]
  ELSE [b |-> [b EXCEPT !.progress = 0, !.smelted = NoItem], marks |-> FALSE]

\* MaybeStack::try_merge_all: all of the stack or nothing.
MergeAll(s, o) == IF Merge(s, o).left = Empty THEN Merge(s, o).kept ELSE s
FitsInto(o, s) == Merge(s, o).left = Empty

\* One item is done: its result is in the output, or waits for room there.  An input that does
\* not yield is kept, and the result is free.  The last of the input ends in an early return
\* that marks nothing.  (Recipes take one item of a stack.)
Result(b) == [item |-> Smelts[b.smelted].to, qty |-> 1]
Made(b) == [TryTakeOne(b, "input") EXCEPT
              !.slot["output"] = MergeAll(b.slot["output"], Result(b)),
              !.progress = 0, !.made = @ + 1, !.heat = @ + Smelts[b.smelted].ticks,
              !.free = IF Yields(b, "input") THEN @ ELSE @ + 1]

\* Mutant of Finish: the input is taken before the output is found to be full.
FinishAnyway(b) ==
  IF Recipe(Made(b)) THEN [b |-> Made(b), marks |-> TRUE]
  ELSE [b |-> [Made(b) EXCEPT !.smelted = NoItem], marks |-> FALSE]

Finish(b) ==
  IF ~FitsInto(Result(b), b.slot["output"]) THEN [b |-> b, marks |-> TRUE]
  ELSE IF Recipe(Made(b)) THEN [b |-> Made(b), marks |-> TRUE]
  ELSE [b |-> [Made(b) EXCEPT !.smelted = NoItem], marks |-> FALSE]

\* The rest of the callback after the flame left f; progress counts up to Longest here.
Smelt(f, flame) ==
  LET b == f.b
      warmer == [b EXCEPT !.progress = Least(@ + 1, Longest)]
  IN IF b.smelted # b.slot["input"].item THEN NewInput(b)
     ELSE IF flame = 0 \/ b.smelted = NoItem THEN f
     ELSE IF warmer.progress < b.ticks THEN [b |-> warmer, marks |-> TRUE]
     ELSE Finish(warmer)

\* The chunk is marked if m; then the next eviction writes what was not marked, too.
Marks(m) == dirty' = (dirty \/ m) /\ unmarked' = IF dirty' THEN 0 ELSE unmarked

\* A tick of the timer; without the three inventories it does nothing.
Tick ==
  /\ block.type # "air" /\ block.open
  /\ LET after == Smelt(Burn(block), block.flame)
     IN block' = after.b /\ Marks(after.marks \/ after.b.type # block.type)
  /\ UNCHANGED <<saved, playersVars>>
-----------------------------------------------------------------------------
(* What players do with it: a stack goes from a slot to a hand and from a  *)
(* hand to a slot, one item at a time here, and the view marks the chunk,  *)
(* also if nothing moves.  A hand goes on to return what it took to the    *)
(* slot it took it from, until it is empty; what else it holds counts as   *)
(* outside.  A call may fail before it has done anything, or after, when   *)
(* the change cannot be enqueued; then what it was given, or would have    *)
(* returned, is gone.                                                      *)

\* make_furnace_popup: the inventories are made, and not marked.
Open ==
  /\ block.type # "air" /\ ~block.open
  /\ block' = [block EXCEPT !.open = TRUE]
  /\ UNCHANGED <<saved, dirty, unmarked, playersVars>>

\* An item is put into a slot that takes any, or stays where it was without room.
PutItem(i, s) ==
  LET fits == block.open /\ FitsInto([item |-> i, qty |-> 1], block.slot[s])
      gone == outside' = [outside EXCEPT ![i] = @ - 1]
  IN /\ s # "output" /\ outside[i] > 0
     /\ \/ /\ fits /\ gone
           /\ block' = [block EXCEPT !.slot[s] = MergeAll(@, [item |-> i, qty |-> 1])]
           /\ Marks(TRUE) /\ UNCHANGED lost
        \/ ~fits /\ Marks(TRUE) /\ UNCHANGED <<block, outside, lost>>
        \/ /\ gone /\ lost' = lost + 1 /\ UNCHANGED block
           /\ Marks(FALSE) \/ (~fits /\ Marks(TRUE))
     /\ UNCHANGED <<saved, away>>

TakeItem(s) ==
  LET some == block.open /\ block.slot[s] # Empty
  IN /\ block' = IF some THEN TakeOne(block, s) ELSE block
     /\ \/ /\ away' = IF some THEN [away EXCEPT ![<<s, block.slot[s].item>>] = @ + 1] ELSE away
           /\ UNCHANGED lost
        \/ some /\ lost' = lost + 1 /\ UNCHANGED away
     /\ Marks(TRUE)
     /\ UNCHANGED <<saved, outside>>

\* An item of a hand goes into an inventory of the player, or joins a hand that holds its like.
Keep(i, s) ==
  /\ away[s, i] > 0
  /\ away' = [away EXCEPT ![<<s, i>>] = @ - 1] /\ outside' = [outside EXCEPT ![i] = @ + 1]
  /\ UNCHANGED <<block, saved, dirty, unmarked, lost>>
Join(i, s) ==
  /\ away[s, i] > 0 /\ outside[i] > 0
  /\ away' = [away EXCEPT ![<<s, i>>] = @ + 1] /\ outside' = [outside EXCEPT ![i] = @ - 1]
  /\ UNCHANGED <<block, saved, dirty, unmarked, lost>>

\* clear_if_transient, as a popup closes or a session ends: a hand with n of an item is merged
\* back into the slot, which marks nothing; the rest goes to the player, or is gone without
\* room or with the session; all of it is gone if the call fails.
GiveBack(i, n, s) ==
  LET m == Merge(block.slot[s], [item |-> i, qty |-> n])
      left == IF block.open THEN m.left.qty ELSE n
  IN /\ n <= away[s, i] /\ Fits([item |-> i, qty |-> n])
     /\ away' = [away EXCEPT ![<<s, i>>] = @ - n]
     /\ \/ /\ block' = IF block.open THEN [block EXCEPT !.slot[s] = m.kept] ELSE block
           /\ unmarked' = IF dirty THEN 0 ELSE unmarked + (n - left)
           /\ \/ outside' = [outside EXCEPT ![i] = @ + left] /\ UNCHANGED lost
              \/ left > 0 /\ lost' = lost + left /\ UNCHANGED outside
        \/ lost' = lost + n /\ UNCHANGED <<block, unmarked, outside>>
     /\ UNCHANGED <<saved, dirty>>

-----------------------------------------------------------------------------
(* What the map does with it.                                              *)

\* furnace_dig_handler refuses while anything is in a slot; a furnace is placed anew.
Dig ==
  /\ block.type # "air" /\ \A s \in Slots : block.slot[s] = Empty
  /\ block' = [Fresh(block) EXCEPT !.type = "air"] /\ Marks(TRUE)
  /\ UNCHANGED <<saved, playersVars>>

Place ==
  /\ block.type = "air"
  /\ block' = Fresh(block) /\ Marks(TRUE)
  /\ UNCHANGED <<saved, playersVars>>

\* The chunk is written if it is dirty, and stays, or it leaves the cache and comes back as it
\* was written.  (A put of the chunk that fails and a kill of the process, which set back the
\* chunk but not what players have, are steps of GameMap and left out here.)
Evict ==
  /\ saved' = IF dirty THEN block ELSE saved
  /\ dirty' = FALSE
  /\ \/ UNCHANGED <<block, unmarked, lost>>
     \/ block' = saved' /\ unmarked' = 0 /\ lost' = lost + unmarked
  /\ UNCHANGED <<outside, away>>

Uses(s, i) == PutItem(i, s) \/ Keep(i, s) \/ Join(i, s) \/ \E n \in 1 .. away[s, i] : GiveBack(i, n, s)
FurnaceNext ==
  \/ Tick \/ Open \/ Dig \/ Place \/ Evict
  \/ \E s \in Slots : TakeItem(s) \/ \E i \in Items : Uses(s, i)
FurnaceSpec == FurnaceInit /\ [][FurnaceNext]_furnaceVars
-----------------------------------------------------------------------------
\* Items are neither lost nor made but in ways that can be named, whatever slots players use,
\* whenever the output is full, and whenever an unmarked chunk is evicted: an item is in a
\* slot, in a hand, with the players, was burnt, or is lost.  Lost are those that were put
\* or returned by a call that failed, those that were returned and found no room, and, in
\* an eviction, those that were returned unmarked before it, no other.  Made from nothing
\* are only the results of inputs that are not stackable, which are not consumed.  This is
\* while every put of the chunk succeeds and the process is not killed.
Inside(b) == b.slot["input"].qty + b.slot["output"].qty + b.slot["fuel"].qty + b.burnt
Conserved == Inside(block) + Tally(away) + Tally(outside) + lost = Tally(Supply) + block.free

\* All that was made was paid for with flame: swapping the input halfway, refuelling
\* or blocking the output never yields an item before its ticks have burnt.
Paid(b) == b.heat + b.progress + b.flame <= FuelTicks * b.burnt
HeatPaid == Paid(block)

\* What an eviction can undo of the furnace's work is one finished smelt, never a fuel that was
\* lit.  (It can undo unmarked returns of stacks besides, which Conserved counts.)
EvictionUndoesLittle ==
  ~dirty => block.burnt = saved.burnt /\ block.made <= saved.made + 1
-----------------------------------------------------------------------------
(* What the three properties rest on: the inductive invariant.             *)

\* What is being smelted has a recipe, and takes the ticks of that recipe.
SmeltFits(b) == b.smelted # NoItem => b.smelted \in DOMAIN Smelts /\ b.ticks = Smelts[b.smelted].ticks

\* A smelt that was not marked took the last of the input, so that another input, put or
\* returned, is marked before it is smelted; and it was not free.
UnmarkedIsLast ==
  ~dirty => /\ block.burnt = saved.burnt /\ block.free = saved.free
            /\ \/ block.made = saved.made
               \/ block.made = saved.made + 1 /\ block.smelted = NoItem

\* Memory has more than the database by what was returned and not marked.
SavedCounts ==
  IF dirty THEN unmarked = 0 ELSE Inside(saved) + unmarked = Inside(block)

\* Where there is no furnace there are no slots.
AirIsEmpty(b) == b.type = "air" => ~b.open /\ \A s \in Slots : b.slot[s] = Empty

FurnaceInv ==
  /\ FurnaceTypeOK /\ UnmarkedIsLast
  /\ Conserved /\ SavedCounts
  /\ \A b \in {block, saved} : Paid(b) /\ SmeltFits(b) /\ AirIsEmpty(b)
=============================================================================
