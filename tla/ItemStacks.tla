----------------------------- MODULE ItemStacks -----------------------------
(***************************************************************************)
(* Stacks of items and the operations on them: items.rs, and try_insert of *)
(* inventory.rs.  An Option<ItemStack> is a record; Empty is None.  What a *)
(* stack's max_stack and stackable say is the same for all stacks of an    *)
(* item: MaxStack and Stackable.                                           *)
(***************************************************************************)
EXTENDS Naturals, Functions

CONSTANTS
  Items,      \* the registered items
  NoItem,     \* the item of an empty slot (the empty name in the stored form)
  MaxStack,   \* max_stack of the stacks of an item; 0 if they are never merged
  Stackable   \* the items whose stacks can be split

ASSUME ItemsAssumption ==
  /\ NoItem \notin Items
  /\ MaxStack \in [Items -> Nat]
  /\ Stackable \subseteq Items

Stack == [item : Items, qty : Nat \ {0}]
Empty == [item |-> NoItem, qty |-> 0]
MaybeStack == Stack \cup {Empty}

Least(a, b) == IF a <= b THEN a ELSE b

\* The sum of all that f counts.
Tally(f) == FoldFunction(+, 0, f)

\* Room for more items in a stack; stacks of the creative view may be overfull.
Room(s) == IF MaxStack[s.item] > s.qty THEN MaxStack[s.item] - s.qty ELSE 0

Mergeable(s, o) == s.item = o.item /\ MaxStack[s.item] # 0

\* MaybeStack::try_merge: what s becomes, and what of o is left over.
Merge(s, o) ==
  IF o = Empty THEN [kept |-> s, left |-> Empty]
  ELSE IF s = Empty THEN [kept |-> o, left |-> Empty]
  ELSE IF ~Mergeable(s, o) THEN [kept |-> s, left |-> o]
  ELSE LET moved == Least(o.qty, Room(s))
       IN [kept |-> [s EXCEPT !.qty = @ + moved],
           left |-> IF o.qty = moved THEN Empty ELSE [o EXCEPT !.qty = @ - moved]]

\* MaybeStack::take_items(Some(count)): what is left in the slot, what was got.
TakeItems(s, count) ==
  IF s = Empty \/ s.item \notin Stackable THEN [left |-> s, got |-> Empty]
  ELSE IF s.qty <= count THEN [left |-> Empty, got |-> s]
  ELSE [left |-> [s EXCEPT !.qty = @ - count], got |-> [s EXCEPT !.qty = count]]

\* ItemStack::decrement
Decrement(s) == IF s.qty <= 1 THEN Empty ELSE [s EXCEPT !.qty = @ - 1]

(***************************************************************************)
(* Inventory::try_insert: merge into the stacks there are, slot by slot,   *)
(* then put what remains into the first empty slot.                        *)
(***************************************************************************)
TryInsert(inv, s) ==
  LET Before(k) == k - 1
      rest[k \in {0} \cup DOMAIN inv] ==
        IF k = 0 THEN s
        ELSE IF inv[k] = Empty THEN rest[Before(k)]
        ELSE Merge(inv[k], rest[Before(k)]).left
      merged == [k \in DOMAIN inv |->
                   IF inv[k] = Empty THEN Empty ELSE Merge(inv[k], rest[Before(k)]).kept]
      free == {k \in DOMAIN inv : inv[k] = Empty}
      last == CHOOSE k \in {0} \cup DOMAIN inv : \A j \in DOMAIN inv : j <= k
      first == CHOOSE k \in free : \A j \in free : k <= j
  IN IF rest[last] = Empty THEN [inv |-> merged, left |-> Empty]
     ELSE IF free = {} THEN [inv |-> merged, left |-> rest[last]]
     ELSE [inv |-> [merged EXCEPT ![first] = rest[last]], left |-> Empty]
=============================================================================
