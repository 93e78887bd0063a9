-------------------------- MODULE MCInventoryViews --------------------------
(* Instances of InventoryViews for TLC: two players, of whom one has dirt *)
(* and the other the chest; and one player with the chest.                *)
EXTENDS InventoryViews

CONSTANTS ann, bob, dirt, chest

MCItems == {dirt, chest}
MCMaxStack == [i \in MCItems |-> 2]
One(i) == [item |-> i, qty |-> 1]

\* Two players with a slot each.
Both == {ann, bob}
EachOne == [p \in Both |-> [k \in {1} |-> One(IF p = ann THEN dirt ELSE chest)]]
NoRecipes == {}

\* Without failures nobody kills the process either.
MovesSpec == Init /\ [][(\E p \in Players : Acts(p)) \/ Save \/ Evict]_vars

\* One player with a slot and the chest in it, who can get dirt and turn it into
\* another chest.
Ann == {ann}
AnnsChest == [p \in Ann |-> [k \in {1} |-> One(chest)]]
ChestOfDirt == {[slots |-> [k \in Grid |-> dirt], result |-> One(chest)]}
=============================================================================
