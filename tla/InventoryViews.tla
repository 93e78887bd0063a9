--------------------------- MODULE InventoryViews ---------------------------
(***************************************************************************)
(* Items and the views through which players move them: inventory.rs,      *)
(* items.rs, the inventory actions of player.rs and the handlers of        *)
(* client_context.rs that touch items.  Every player has a main inventory  *)
(* in the inventory database, a stack in hand and a crafting grid in       *)
(* memory; one block of the map is a chest, or air.                        *)
(*                                                                         *)
(* The inbound loop of a session handles one request at a time.  A request *)
(* is one step as long as it touches only what no one else sees (hand,     *)
(* grid), and a step of its own for each call into the inventory manager   *)
(* or the map after the first.                                             *)
(***************************************************************************)
EXTENDS ItemStacks, Integers, Sequences, FiniteSetsExt, FiniteSets

CONSTANTS
  Players, NoPlayer,
  Crafters,     \* the players whose inventory popup has a crafting grid
  MainSlots, GridSlots, ChestSlots,  \* numbers of slots
  ChestItem,    \* the item that is placed as a chest and dropped by digging one
  Recipes,      \* records [slots, result]: what the grid must hold, what it makes
  Creative,     \* the items the creative view offers
  Counts,       \* counts a client asks for
  InitMain,     \* the main inventories at the start
  MaxFaults,    \* bound: calls into the inventories and the map that fail, and kills
  MaxItems      \* bound: the creative view gives nothing to a world with more

Hand == 0
OwnSlots == 0 .. GridSlots
Grid == 1 .. GridSlots
NoData == <<>>
Nowhere == [where |-> "none", slot |-> 0]
NothingHeld == [stack |-> Empty, from |-> Nowhere]
HoldsNothing == [k \in OwnSlots |-> NothingHeld]

ASSUME InventoryAssumption ==
  /\ IsFiniteSet(Players) /\ NoPlayer \notin Players /\ Crafters \subseteq Players
  /\ MainSlots \in Nat /\ GridSlots \in Nat /\ ChestSlots \in Nat \ {0}
  /\ ChestItem \in Items /\ Creative \subseteq Items /\ "air" \notin Items
  /\ Counts \subseteq Nat \ {0}
  /\ Recipes \subseteq [slots : [Grid -> Items \cup {NoItem}], result : Stack]
  /\ InitMain \in [Players -> [1 .. MainSlots -> MaybeStack]]
  /\ MaxFaults \in Nat /\ MaxItems \in Nat

VARIABLES
  main,     \* stored inventories, by player
  block,    \* the block and its extended data in memory, and whether they are to be saved
  saved,    \* the same in the map database
  online,   \* the players with a session
  held,     \* hand and grid of each player's session
  old,      \* hand and grid of a session that has ended, until they are dropped
  open,     \* the players with the chest's popup open
  pc, job,  \* how far each player's request is, and what it works on
  holder,   \* who holds the mutex of the inventory database across a call into the map
  faults    \* how many calls have failed, and how often the process was killed

vars == <<main, block, saved, online, held, old, open, pc, job, holder, faults>>

NoJob == [kind |-> "none"]

(***************************************************************************)
(* How many items there are: in stored inventories, in the block and as a  *)
(* block, in hands and grids, and on the way between two steps.            *)
(***************************************************************************)
Amount(i, s) == IF s.item = i THEN s.qty ELSE 0
Sum(i, stacks) ==
  LET upTo[k \in 0 .. Len(stacks)] ==
        IF k = 0 THEN 0 ELSE upTo[k - 1] + Amount(i, stacks[k])
  IN upTo[Len(stacks)]
SumHeld(i, views) == Amount(i, views[Hand].stack) + Sum(i, [k \in Grid |-> views[k].stack])
InBlock(i, b) == Sum(i, b.data) + IF b.type = i THEN 1 ELSE 0
InJob(i, p) ==
  IF pc[p] \in {"putBack", "owner"} THEN Amount(i, job[p].stack)
  ELSE IF pc[p] = "swapPut" THEN Amount(i, job[p].mine.stack) + Amount(i, job[p].other.stack)
  ELSE IF pc[p] = "write" THEN Sum(i, job[p].main) - Sum(i, main[p])
  ELSE 0
Share(i, p) == Sum(i, main[p]) + SumHeld(i, held[p]) + SumHeld(i, old[p]) + InJob(i, p)
Total(i) == InBlock(i, block) + Tally([p \in Players |-> Share(i, p)])

Init ==
  /\ main = InitMain
  /\ block = [type |-> "air", data |-> NoData, dirty |-> FALSE]
  /\ saved = [type |-> "air", data |-> NoData]
  /\ online = {} /\ open = {}
  /\ held = [p \in Players |-> HoldsNothing]
  /\ old = [p \in Players |-> HoldsNothing]
  /\ pc = [p \in Players |-> "idle"]
  /\ job = [p \in Players |-> NoJob]
  /\ holder = NoPlayer
  /\ faults = 0

-----------------------------------------------------------------------------
(* What a view shows, and what taking and putting do to it.                *)

Ready(p) == p \in online /\ pc[p] = "idle"
Become(p, where, what) == pc' = [pc EXCEPT ![p] = where] /\ job' = [job EXCEPT ![p] = what]
Done(p) == Become(p, "idle", NoJob)
Fault == faults < MaxFaults /\ faults' = faults + 1
InventoryFree == holder = NoPlayer

\* find_inv_view: the views with real items that other threads reach as well.
Shared(p) == {"main"} \cup (IF p \in open THEN {"chest"} ELSE {})
SlotsOf(v) == IF v = "main" THEN 1 .. MainSlots ELSE 1 .. ChestSlots

\* A chest's view works on whatever inventory the block has, chest or not.
HasSlots(v) == v = "main" \/ block.data # NoData
At(p, v, k) ==
  IF v = "main" THEN main[p][k] ELSE IF block.data = NoData THEN Empty ELSE block.data[k]

Kept(p, v, k, s) == Merge(At(p, v, k), s).kept
Leftover(p, v, k, s) == IF HasSlots(v) THEN Merge(At(p, v, k), s).left ELSE s

\* Mutants of Write: the inventory is written without the mutex; the chunk is not
\* marked dirty.
WriteUnlocked(p, v, k, s) ==
  \/ /\ v = "main"
     /\ main' = [main EXCEPT ![p][k] = s]
     /\ UNCHANGED block
  \/ /\ v = "chest"
     /\ block' = [block EXCEPT !.dirty = TRUE,
                               !.data = IF @ = NoData THEN @ ELSE [@ EXCEPT ![k] = s]]
     /\ UNCHANGED main

WriteUnmarked(p, v, k, s) ==
  \/ /\ v = "main" /\ InventoryFree
     /\ main' = [main EXCEPT ![p][k] = s]
     /\ UNCHANGED block
  \/ /\ v = "chest"
     /\ block' = [block EXCEPT !.data = IF @ = NoData THEN @ ELSE [@ EXCEPT ![k] = s]]
     /\ UNCHANGED main

\* The mutation of take and put: written at once, or the chunk is marked dirty.
Write(p, v, k, s) ==
  \/ /\ v = "main" /\ InventoryFree
     /\ main' = [main EXCEPT ![p][k] = s]
     /\ UNCHANGED block
  \/ /\ v = "chest"
     /\ block' = [block EXCEPT !.dirty = TRUE,
                               !.data = IF @ = NoData THEN @ ELSE [@ EXCEPT ![k] = s]]
     /\ UNCHANGED main

Wrap(s, from) == IF s = Empty THEN NothingHeld ELSE [stack |-> s, from |-> from]

\* put into a transient view: the origin of the stack that was there stays.
MergeHeld(h, b) ==
  IF b = NothingHeld THEN [kept |-> h, left |-> NothingHeld]
  ELSE IF h = NothingHeld THEN [kept |-> b, left |-> NothingHeld]
  ELSE LET m == Merge(h.stack, b.stack)
       IN [kept |-> [stack |-> m.kept, from |-> IF h.from.where = "none" THEN b.from ELSE h.from],
           left |-> Wrap(m.left, b.from)]

TakeHeld(h, count) ==
  LET t == TakeItems(h.stack, count)
  IN [left |-> Wrap(t.left, h.from), got |-> Wrap(t.got, h.from)]
-----------------------------------------------------------------------------
(***************************************************************************)
(* handle_inventory_action.  The client always has its hand at one end, as *)
(* source or as destination (egui_ui.rs); counts and views are what it has *)
(* last seen, so they may be out of date.                                  *)
(***************************************************************************)

\* A move from main inventory or chest to the hand; what the hand cannot take goes back.
PickUp(p, v, k, n) ==
  LET t == TakeItems(At(p, v, k), n)
      m == MergeHeld(held[p][Hand], Wrap(t.got, [where |-> v, slot |-> k]))
  IN /\ Ready(p) /\ v \in Shared(p)
     /\ Write(p, v, k, t.left)
     /\ held' = [held EXCEPT ![p][Hand] = m.kept]
     /\ IF m.left = NothingHeld THEN UNCHANGED <<pc, job>>
        ELSE Become(p, "putBack", [view |-> v, slot |-> k, stack |-> m.left.stack, seen |-> t.left])
     /\ UNCHANGED <<saved, online, old, open, holder, faults>>

\* The second put of a move; what still does not fit is destroyed.
PutBack(p) ==
  LET j == job[p] IN
  /\ pc[p] = "putBack"
  /\ \/ Write(p, j.view, j.slot, Kept(p, j.view, j.slot, j.stack)) /\ UNCHANGED faults
     \/ Fault /\ UNCHANGED <<main, block>>
  /\ Done(p)
  /\ UNCHANGED <<saved, online, held, old, open, holder>>

\* Mutant of PutDown: the hand does not take back what does not fit.
PutDownOnce(p, v, k, n) ==
  LET t == TakeHeld(held[p][Hand], n)
  IN /\ Ready(p) /\ v \in Shared(p) /\ t.got # NothingHeld
     /\ Write(p, v, k, Kept(p, v, k, t.got.stack))
     /\ held' = [held EXCEPT ![p][Hand] = t.left]
     /\ UNCHANGED <<saved, online, old, open, pc, job, holder, faults>>

\* A move from the hand; the hand takes back what does not fit.
PutDown(p, v, k, n) ==
  LET t == TakeHeld(held[p][Hand], n)
      rest == Wrap(Leftover(p, v, k, t.got.stack), t.got.from)
  IN /\ Ready(p) /\ v \in Shared(p) /\ t.got # NothingHeld
     /\ \/ /\ Write(p, v, k, Kept(p, v, k, t.got.stack))
           /\ held' = [held EXCEPT ![p][Hand] = MergeHeld(t.left, rest).kept]
           /\ UNCHANGED faults
        \/ /\ Fault
           /\ held' = [held EXCEPT ![p][Hand] = t.left]
           /\ UNCHANGED <<main, block>>
     /\ UNCHANGED <<saved, online, old, open, pc, job, holder>>

\* swap, up to the second take.
SwapTake(p, v, k) ==
  /\ Ready(p) /\ v \in Shared(p)
  /\ held' = [held EXCEPT ![p][Hand] = NothingHeld]
  /\ \/ /\ Write(p, v, k, Empty)
        /\ Become(p, "swapPut", [view |-> v, slot |-> k, mine |-> held[p][Hand],
                                 other |-> Wrap(At(p, v, k), [where |-> v, slot |-> k])])
        /\ UNCHANGED faults
     \/ Fault /\ UNCHANGED <<main, block, pc, job>>
  /\ UNCHANGED <<saved, online, old, open, holder>>

\* Both puts.  If the first leaves anything over, the second is not reached.
SwapPut(p) ==
  LET j == job[p] IN
  /\ pc[p] = "swapPut"
  /\ \/ /\ IF j.mine = NothingHeld THEN UNCHANGED <<main, block>>
           ELSE Write(p, j.view, j.slot, Kept(p, j.view, j.slot, j.mine.stack))
        /\ held' = IF Leftover(p, j.view, j.slot, j.mine.stack) = Empty
                   THEN [held EXCEPT ![p][Hand] = j.other] ELSE held
        /\ UNCHANGED faults
     \/ j.mine # NothingHeld /\ Fault /\ UNCHANGED <<main, block, held>>
  /\ Done(p)
  /\ UNCHANGED <<saved, online, old, open, holder>>

\* A move or a swap between hand and grid, both of which only this session sees.
FromGrid(p, k, n) ==
  LET t == TakeHeld(held[p][k], n)
      m == MergeHeld(held[p][Hand], t.got)
  IN /\ Ready(p) /\ p \in Crafters
     /\ held' = [held EXCEPT ![p][Hand] = m.kept, ![p][k] = MergeHeld(t.left, m.left).kept]
     /\ UNCHANGED <<main, block, saved, online, old, open, pc, job, holder, faults>>

ToGrid(p, k, n) ==
  LET t == TakeHeld(held[p][Hand], n)
      m == MergeHeld(held[p][k], t.got)
  IN /\ Ready(p) /\ p \in Crafters
     /\ held' = [held EXCEPT ![p][k] = m.kept, ![p][Hand] = MergeHeld(t.left, m.left).kept]
     /\ UNCHANGED <<main, block, saved, online, old, open, pc, job, holder, faults>>

SwapGrid(p, k) ==
  /\ Ready(p) /\ p \in Crafters
  /\ held' = [held EXCEPT ![p][k] = held[p][Hand], ![p][Hand] = held[p][k]]
  /\ UNCHANGED <<main, block, saved, online, old, open, pc, job, holder, faults>>
-----------------------------------------------------------------------------
(* The virtual views of the inventory popup (game_behaviors.rs).           *)

\* The result of the recipe the grid matches, and the grid after one item of each input.
Matches(r, p) == \A k \in Grid : held[p][k].stack.item = r.slots[k]

Craft(p) ==
  \E r \in Recipes :
    /\ Ready(p) /\ p \in Crafters /\ Matches(r, p)
    /\ held' = [held EXCEPT ![p] =
                  [k \in OwnSlots |->
                     IF k = Hand THEN MergeHeld(held[p][Hand], Wrap(r.result, Nowhere)).kept
                     ELSE TakeHeld(held[p][k], 1).left]]
    /\ UNCHANGED <<main, block, saved, online, old, open, pc, job, holder, faults>>

TakeCreative(p, i, n) ==
  /\ Ready(p) /\ MapThenSumSet(Total, Items) + n <= MaxItems
  /\ held' = [held EXCEPT ![p][Hand] =
                MergeHeld(@, Wrap([item |-> i, qty |-> n], Nowhere)).kept]
  /\ UNCHANGED <<main, block, saved, online, old, open, pc, job, holder, faults>>
-----------------------------------------------------------------------------
(***************************************************************************)
(* handle_popup_response for a closed popup: the hand and, if it was the   *)
(* inventory popup, the grid return their stacks to where they came from,  *)
(* else to the main inventory.  The first call that fails ends it.         *)
(***************************************************************************)
Close(p, popup) ==
  /\ Ready(p) /\ (popup = "chest" => p \in open)
  /\ Become(p, "clear", [popup |-> popup, slot |-> Hand])
  /\ UNCHANGED <<main, block, saved, online, held, old, open, holder, faults>>

\* A stack on its way home: merged with what is in its slot, then inserted.
Home(inv, k, s) ==
  LET m == Merge(inv[k], s)
  IN IF m.left = Empty THEN [inv |-> [inv EXCEPT ![k] = m.kept], left |-> Empty]
     ELSE TryInsert([inv EXCEPT ![k] = m.kept], m.left)

\* One borrowed stack of p returns: the inventory and the block after it, and
\* what found no place.  The chest is changed without being marked dirty.
Settled(p, h) ==
  LET there == IF h.from.where = "main" THEN main[p] ELSE block.data
      r == Home(there, h.from.slot, h.stack)
  IN IF h.from.where = "none" \/ there = NoData
     THEN [inv |-> main[p], data |-> block.data, left |-> h.stack]
     ELSE IF h.from.where = "main" THEN [inv |-> r.inv, data |-> block.data, left |-> r.left]
     ELSE [inv |-> main[p], data |-> r.inv, left |-> r.left]

\* Mutant of Settle: it does not wait for the mutex.
SettleUnlocked(p, h) ==
  /\ main' = [main EXCEPT ![p] = Settled(p, h).inv]
  /\ block' = [block EXCEPT !.data = Settled(p, h).data]

Settle(p, h) ==
  /\ h.from.where = "main" => InventoryFree
  /\ main' = [main EXCEPT ![p] = Settled(p, h).inv]
  /\ block' = [block EXCEPT !.data = Settled(p, h).data]

\* The next slot to clear, or the end of the popup.
Proceed(p, j) ==
  IF j.popup = "inventory" /\ p \in Crafters /\ j.slot < GridSlots
  THEN Become(p, "clear", [j EXCEPT !.slot = @ + 1]) /\ UNCHANGED open
  ELSE Done(p) /\ open' = IF j.popup = "chest" THEN open \ {p} ELSE open

GiveUp(p) == Done(p) /\ UNCHANGED open

ClearNothing(p) ==
  /\ pc[p] = "clear" /\ held[p][job[p].slot] = NothingHeld
  /\ Proceed(p, job[p])
  /\ UNCHANGED <<main, block, saved, online, held, old, holder, faults>>

\* Mutant of ClearSlot: what found no place at home is not offered to the owner.
ClearSlotHomeOnly(p) ==
  LET j == job[p]
      h == held[p][j.slot]
  IN /\ pc[p] = "clear" /\ h # NothingHeld
     /\ held' = [held EXCEPT ![p][j.slot] = NothingHeld]
     /\ Settle(p, h) /\ Proceed(p, j)
     /\ UNCHANGED <<saved, online, old, holder, faults>>

ClearSlot(p) ==
  LET j == job[p]
      h == held[p][j.slot]
  IN /\ pc[p] = "clear" /\ h # NothingHeld
     /\ held' = [held EXCEPT ![p][j.slot] = NothingHeld]
     /\ \/ /\ Settle(p, h)
           /\ IF Settled(p, h).left = Empty THEN Proceed(p, j)
              ELSE /\ Become(p, "owner", [popup |-> j.popup, slot |-> j.slot,
                                          stack |-> Settled(p, h).left])
                   /\ UNCHANGED open
           /\ UNCHANGED faults
        \/ h.from # Nowhere /\ Fault /\ GiveUp(p) /\ UNCHANGED <<main, block>>
     /\ UNCHANGED <<saved, online, old, holder>>

\* What found no place goes to the main inventory, or is destroyed.
ToOwner(p) ==
  LET j == job[p] IN
  /\ pc[p] = "owner"
  /\ \/ /\ InventoryFree
        /\ main' = [main EXCEPT ![p] = TryInsert(main[p], j.stack).inv]
        /\ Proceed(p, [popup |-> j.popup, slot |-> j.slot])
        /\ UNCHANGED faults
     \/ Fault /\ GiveUp(p) /\ UNCHANGED main
  /\ UNCHANGED <<block, saved, online, held, old, holder>>
-----------------------------------------------------------------------------
(***************************************************************************)
(* Digging, placing, opening.  dig and place hold the mutex of the         *)
(* inventory database while they call the map, and write the inventory     *)
(* afterwards.                                                             *)
(***************************************************************************)
Dig(p) ==
  /\ Ready(p) /\ InventoryFree
  /\ block.type = ChestItem
  /\ block' = [block EXCEPT !.type = "air", !.dirty = TRUE]
  /\ holder' = p
  /\ Become(p, "write", [main |-> TryInsert(main[p], [item |-> ChestItem, qty |-> 1]).inv])
  /\ UNCHANGED <<main, saved, online, held, old, open, faults>>

\* Mutant of Place: the item that is placed stays in the inventory.
PlaceForFree(p, k) ==
  /\ Ready(p) /\ InventoryFree
  /\ main[p][k].item = ChestItem
  /\ block.type = "air"
  /\ block' = [type |-> ChestItem, data |-> NoData, dirty |-> TRUE]
  /\ holder' = p
  /\ Become(p, "write", [main |-> main[p]])
  /\ UNCHANGED <<main, saved, online, held, old, open, faults>>

Place(p, k) ==
  /\ Ready(p) /\ InventoryFree
  /\ main[p][k].item = ChestItem
  /\ block.type = "air"
  /\ block' = [type |-> ChestItem, data |-> NoData, dirty |-> TRUE]
  /\ holder' = p
  /\ Become(p, "write", [main |-> [main[p] EXCEPT ![k] = Decrement(@)]])
  /\ UNCHANGED <<main, saved, online, held, old, open, faults>>

\* The put that ends mutate_inventory_atomically.
WriteMain(p) ==
  /\ pc[p] = "write"
  /\ \/ main' = [main EXCEPT ![p] = job[p].main] /\ UNCHANGED faults
     \/ Fault /\ UNCHANGED main
  /\ holder' = NoPlayer
  /\ Done(p)
  /\ UNCHANGED <<block, saved, online, held, old, open>>

\* handle_interact_key: the block is looked up before the handler's new_block.
Interact(p) ==
  /\ Ready(p) /\ p \notin open
  /\ block.type = ChestItem
  /\ Become(p, "open", NoJob)
  /\ UNCHANGED <<main, block, saved, online, held, old, open, holder, faults>>

OpenChest(p) ==
  /\ pc[p] = "open"
  /\ block' = [block EXCEPT !.data = IF @ = NoData THEN [k \in 1 .. ChestSlots |-> Empty] ELSE @]
  /\ open' = open \cup {p}
  /\ Done(p)
  /\ UNCHANGED <<main, saved, online, held, old, holder, faults>>
-----------------------------------------------------------------------------
(* Sessions (player.rs), and what the map does with the chunk.             *)

Connect(p) ==
  /\ p \notin online
  /\ online' = online \cup {p}
  /\ UNCHANGED <<main, block, saved, held, old, open, pc, job, holder, faults>>

\* Mutant of Disconnect: a new session of the player finds what the old one held.
DisconnectAndKeep(p) ==
  /\ Ready(p) /\ old[p] = HoldsNothing
  /\ online' = online \ {p} /\ open' = open \ {p}
  /\ old' = [old EXCEPT ![p] = held[p]]
  /\ UNCHANGED <<main, block, saved, held, pc, job, holder, faults>>

\* The session is gone at once, its views are dropped afterwards.  One ended
\* session of a player at a time (a bound).
Disconnect(p) ==
  /\ Ready(p) /\ old[p] = HoldsNothing
  /\ online' = online \ {p} /\ open' = open \ {p}
  /\ old' = [old EXCEPT ![p] = held[p]]
  /\ held' = [held EXCEPT ![p] = HoldsNothing]
  /\ UNCHANGED <<main, block, saved, pc, job, holder, faults>>

\* Drop of a view: without an owner.  The popup's views go before the hand; a
\* call that fails ends the view, not the others.
NextToDrop(p, k) ==
  /\ old[p][k] # NothingHeld
  /\ \A j \in Grid : old[p][j] # NothingHeld => k # Hand /\ k <= j

DropView(p, k) ==
  /\ NextToDrop(p, k)
  /\ \/ /\ Settle(p, old[p][k])
        /\ old' = [old EXCEPT ![p][k] = NothingHeld]
        /\ UNCHANGED faults
     \/ /\ old[p][k].from # Nowhere /\ Fault
        /\ old' = [old EXCEPT ![p] = [j \in OwnSlots |->
                     IF k = Hand \/ j # Hand THEN NothingHeld ELSE old[p][Hand]]]
        /\ UNCHANGED <<main, block>>
  /\ UNCHANGED <<saved, online, held, open, pc, job, holder>>

Save ==
  /\ saved' = [type |-> block.type, data |-> block.data]
  /\ block' = [block EXCEPT !.dirty = FALSE]
  /\ UNCHANGED <<main, online, held, old, open, pc, job, holder, faults>>

\* parse_v1: a block that has no extended data loses what was stored for it.
Loaded(s) == [type |-> s.type, data |-> IF s.type = "air" THEN NoData ELSE s.data, dirty |-> FALSE]

\* unload_chunk_locked, and the load at the next call.
Evict ==
  /\ \/ /\ saved' = IF block.dirty THEN [type |-> block.type, data |-> block.data] ELSE saved
        /\ UNCHANGED faults
     \/ block.dirty /\ Fault /\ UNCHANGED saved
  /\ block' = Loaded(saved')
  /\ UNCHANGED <<main, online, held, old, open, pc, job, holder>>

\* The process is killed; both databases stay.
Crash ==
  /\ Fault
  /\ block' = Loaded(saved)
  /\ online' = {} /\ open' = {}
  /\ held' = [p \in Players |-> HoldsNothing]
  /\ old' = [p \in Players |-> HoldsNothing]
  /\ pc' = [p \in Players |-> "idle"]
  /\ job' = [p \in Players |-> NoJob]
  /\ holder' = NoPlayer
  /\ UNCHANGED <<main, saved>>
-----------------------------------------------------------------------------
Acts(p) ==
  \/ \E v \in Shared(p), n \in Counts : \E k \in SlotsOf(v) : PickUp(p, v, k, n) \/ PutDown(p, v, k, n)
  \/ \E v \in Shared(p) : \E k \in SlotsOf(v) : SwapTake(p, v, k)
  \/ \E k \in Grid : SwapGrid(p, k) \/ \E n \in Counts : FromGrid(p, k, n) \/ ToGrid(p, k, n)
  \/ Craft(p)
  \/ \E i \in Creative, n \in Counts : TakeCreative(p, i, n)
  \/ \E popup \in {"inventory", "chest"} : Close(p, popup)
  \/ Dig(p) \/ (\E k \in 1 .. MainSlots : Place(p, k)) \/ Interact(p)
  \/ PutBack(p) \/ SwapPut(p) \/ ClearNothing(p) \/ ClearSlot(p) \/ ToOwner(p)
  \/ WriteMain(p) \/ OpenChest(p)
  \/ Connect(p) \/ Disconnect(p) \/ \E k \in OwnSlots : DropView(p, k)

Next == (\E p \in Players : Acts(p)) \/ Save \/ Evict \/ Crash

Spec == Init /\ [][Next]_vars
-----------------------------------------------------------------------------
\* No stack that can be split is larger than its limit, if none is made so: the creative
\* view and recipes may make stacks that are (items.rs:113).
InLimits(s) == s.item \in Stackable => s.qty <= MaxStack[s.item]
LimitsKept ==
  /\ \A p \in Players, k \in 1 .. MainSlots : InLimits(InitMain[p][k])
  /\ \A r \in Recipes : InLimits(r.result)
  /\ \A i \in Creative, n \in Counts : InLimits([item |-> i, qty |-> n])
  /\ InLimits([item |-> ChestItem, qty |-> 1])

FitStack == {s \in Stack : LimitsKept => InLimits(s)}
Slot == FitStack \cup {Empty}
Inventories(n) == [1 .. n -> Slot]
Data == {NoData} \cup Inventories(ChestSlots)
Places == [where : {"main"}, slot : 1 .. MainSlots] \cup [where : {"chest"}, slot : 1 .. ChestSlots]
Origins == Places \cup {Nowhere}
Held == [stack : FitStack, from : Origins] \cup {NothingHeld}

\* What a request at a place works on.
Views == {"main", "chest"}
Popups == {"inventory", "chest"}
JobAt(place) ==
  CASE place = "putBack" ->
         {j \in [view : Views, slot : Nat, stack : FitStack, seen : Slot] : j.slot \in SlotsOf(j.view)}
    [] place = "swapPut" ->
         {j \in [view : Views, slot : Nat, mine : Held, other : Held] : j.slot \in SlotsOf(j.view)}
    [] place = "clear" -> [popup : Popups, slot : OwnSlots]
    [] place = "owner" -> [popup : Popups, slot : OwnSlots, stack : FitStack]
    [] place = "write" -> [main : Inventories(MainSlots)]
    [] OTHER -> {NoJob}

\* The types of the variables, the bound on faults, and that the mutex is held
\* exactly by the player whose inventory is about to be written.
TypeOK ==
  /\ main \in [Players -> Inventories(MainSlots)]
  /\ block \in [type : {"air", ChestItem}, data : Data, dirty : BOOLEAN]
  /\ saved \in [type : {"air", ChestItem}, data : Data]
  /\ online \subseteq Players /\ open \subseteq Players
  /\ held \in [Players -> [OwnSlots -> Held]] /\ old \in [Players -> [OwnSlots -> Held]]
  /\ pc \in [Players -> {"idle", "putBack", "swapPut", "clear", "owner", "write", "open"}]
  /\ job = [p \in Players |-> job[p]] /\ \A p \in Players : job[p] \in JobAt(pc[p])
  /\ holder \in Players \cup {NoPlayer}
  /\ faults \in 0 .. MaxFaults
  /\ \A p \in Players : holder = p <=> pc[p] = "write"

\* Between the steps of a request its hand stays as it was left: empty in a swap.  What a
\* move gives back fits onto what it was taken from.
RequestsOK ==
  \A p \in Players :
    /\ pc[p] = "swapPut" => held[p][Hand] = NothingHeld
    /\ pc[p] = "putBack" /\ LimitsKept => Merge(job[p].seen, job[p].stack).left = Empty

\* While one thread is between reading and writing the inventories (it digs or
\* places a block in between), no other changes any: nothing that a move or a return
\* has put there is overwritten by the older copy (mutate_inventory_atomically).
NoLostUpdate == [][holder # NoPlayer /\ holder' = holder => main' = main]_vars

\* Eviction never copies items: a chest that is not marked dirty holds in memory at
\* least what the database has for it (set_dirty in take and put of inventory.rs;
\* what clear_if_transient returns without set_dirty only adds).
CleanHoldsSaved ==
  ~block.dirty => \A i \in Items : InBlock(i, Loaded(saved)) <= InBlock(i, block)

\* The inductive invariant of the proofs.
ItemsInv == TypeOK /\ RequestsOK /\ CleanHoldsSaved

\* Items come from crafting and the creative view only.  No interleaving of moves,
\* swaps, returns, digging and placing makes any, unless a call fails; a killed
\* process makes none if the chest was saved and no inventory was still to be written.
GainStep ==
  \A i \in Items :
    Total(i)' <= Total(i)
      \/ (faults' # faults /\ (Crash => (block.dirty \/ holder # NoPlayer)))
      \/ \E p \in Players : Craft(p) \/ \E n \in Counts : TakeCreative(p, i, n)

NoRoomAt(inv, s) ==
  \A k \in DOMAIN inv : inv[k] # Empty /\ (Mergeable(inv[k], s) => Room(inv[k]) < s.qty)

NoRoomAtHome(p, h) ==
  \/ h.from.where = "none"
  \/ h.from.where = "main" /\ NoRoomAt(main[p], h.stack)
  \/ h.from.where = "chest" /\ NoRoomAt(block.data, h.stack)

\* An item is destroyed only if a call fails, the process is killed, or there is no
\* room for it: a move's leftover finds that someone else has changed its slot, a
\* swap that someone has filled the slot it emptied, a returned or dug item that the
\* inventory is full; an ended session's stack that its home has no room for it (it
\* has no owner to go to); the contents
\* of a chest that was dug go when the chunk is loaded again or a block is placed.
LossStep ==
     \A i \in Items :
       Total(i)' >= Total(i)
         \/ faults' # faults
         \/ (Evict /\ (block.type = "air" \/ (~block.dirty /\ block # Loaded(saved))))
         \/ \E p \in Players :
              \/ Craft(p)
              \/ PutBack(p) /\ ~(HasSlots(job[p].view) /\ At(p, job[p].view, job[p].slot) = job[p].seen)
              \/ SwapPut(p) /\ ~(HasSlots(job[p].view) /\ At(p, job[p].view, job[p].slot) = Empty)
              \/ ToOwner(p) /\ NoRoomAt(main[p], job[p].stack)
              \/ Dig(p) /\ NoRoomAt(main[p], [item |-> ChestItem, qty |-> 1])
              \/ (\E k \in 1 .. MainSlots : Place(p, k)) /\ block.data # NoData
              \/ \E k \in OwnSlots : DropView(p, k) /\ NoRoomAtHome(p, old[p][k])

\* Both: no interleaving makes an item, and each one that is destroyed had nowhere to go.
ItemsAccounted == [][GainStep /\ LossStep]_vars

\* "This *must* be called after making meaningful changes to the extended data", says
\* blocks.rs of set_dirty: a chest that is not marked dirty holds what the database
\* holds for it, so that unloading its chunk loses nothing.
CleanBlockIsSaved == ~block.dirty => \A i \in Items : InBlock(i, block) <= InBlock(i, saved)
=============================================================================
