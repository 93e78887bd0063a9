----------------------------- MODULE BlockStore -----------------------------
(***************************************************************************)
(* What ServerGameMap promises to the code that calls it, with no cache,   *)
(* no locks and no background tasks: every chunk has one current content,  *)
(* an operation of the map observes it and may replace it in one step, and *)
(* the database holds a copy that is only ever refreshed from the current  *)
(* content.  A crash falls back to that copy.  GameMap implements this.    *)
(***************************************************************************)
CONSTANTS
  Chunks,        \* chunk coordinates
  Users,         \* threads that call the map
  Vals,          \* contents a chunk can have
  NoVal,         \* "nothing": no value observed yet
  Gen,           \* Gen[c]: what the map generator makes of chunk c
  StorageFails   \* TRUE if a database write may fail

VARIABLES
  current,       \* current[c]: the content every reader of c must see
  saved,         \* saved[c]: the content a restart would find
  observed       \* observed[u]: what the last operation of u saw

vars == <<current, saved, observed>>

TypeOK ==
  /\ current \in [Chunks -> Vals]
  /\ saved \in [Chunks -> Vals]
  /\ observed \in [Users -> Vals \cup {NoVal}]

Init ==
  /\ current = Gen
  /\ saved = Gen
  /\ observed = [u \in Users |-> NoVal]

\* get_block, and every operation that ends up changing nothing.
Read(u, c) ==
  /\ observed' = [observed EXCEPT ![u] = current[c]]
  /\ UNCHANGED <<current, saved>>

\* set_block, a matching compare_and_set_block, a mutator that changes c.
Write(u, c) ==
  /\ observed' = [observed EXCEPT ![u] = current[c]]
  /\ \E v \in Vals : current' = [current EXCEPT ![c] = v]
  /\ UNCHANGED saved

\* The database copy catches up with the current content, never with an older one.
Save(c) ==
  /\ saved' = [saved EXCEPT ![c] = current[c]]
  /\ UNCHANGED <<current, observed>>

\* An eviction whose database write fails: the unsaved content is gone.
Lose(c) ==
  /\ StorageFails
  /\ current' = [current EXCEPT ![c] = saved[c]]
  /\ UNCHANGED <<saved, observed>>

Crash ==
  /\ current' = saved
  /\ observed' = [u \in Users |-> NoVal]
  /\ UNCHANGED saved

Next ==
  \/ \E c \in Chunks : \/ \E u \in Users : Read(u, c) \/ Write(u, c)
                       \/ Save(c)
                       \/ Lose(c)
  \/ Crash

Spec == Init /\ [][Next]_vars
=============================================================================
