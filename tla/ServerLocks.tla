----------------------------- MODULE ServerLocks -----------------------------
(***************************************************************************)
(* The locks of the server, and who takes which inside which: the mutex    *)
(* around the inventories, which is held while the handlers of items and   *)
(* blocks run (inventory.rs says of it: "there is a massive deadlock"),    *)
(* the table of active players, the state of each player, the table of     *)
(* live chunks and the mutex of each chunk.                                *)
(*                                                                         *)
(* Handlers are those of the default game.  Left out: locks that are taken *)
(* with no other inside (databases, recipes, task handles), those of       *)
(* single views, which only the holder of their player takes, and waiting  *)
(* for room in the write-back queue, which GameMap models.                 *)
(***************************************************************************)
EXTENDS LockSteps

CONSTANTS Keepers,       \* the threads that run the map's own tasks; all others serve players
          PlayerStates,  \* a player is the name of its lock, Player::state
          Chunks         \* a chunk is the name of its lock, MapChunkHolder::chunk

\* Finitely many players and chunks, and every lock has a name of its own.
ASSUME ServerLocksAssumption ==
  /\ IsFiniteSet(PlayerStates) /\ IsFiniteSet(Chunks) /\ PlayerStates \cap Chunks = {}
  /\ {"active_players", "inventories", "last_accessed", "live_chunks"} \cap (PlayerStates \cup Chunks) = {}
  /\ NoThread \notin Threads

Mutexes == {"active_players", "inventories", "last_accessed"} \cup PlayerStates \cup Chunks
Tables == {"live_chunks"}
-----------------------------------------------------------------------------
(* The map.                                                                *)

\* get_chunk and wait_and_get, of a chunk that is there or one that is loaded first; the
\* guards of the table and of the chunk are held while body runs.
WithChunk(c, cached, body) ==
  IF cached THEN Reading("live_chunks", Hold(c, body))
  ELSE Look("live_chunks") \o Step("write", "live_chunks") \o Step("downgrade", "live_chunks")
         \o Use(c) \o Hold(c, body) \o Step("unread", "live_chunks")

\* get_block, set_block, compare_and_set_block, mutate_block_atomically: what is called under
\* the mutex of the chunk (furnace, chest, dropped items) calls no map and no inventory.
Calls == {WithChunk(c, cached, <<>>) : c \in Chunks, cached \in BOOLEAN}

\* Mutant of Interactions: the full handler is run before the chunk is given up.
FullHandlerInside == Calls \cup {WithChunk(c, TRUE, after) : c \in Chunks, after \in Calls}

\* run_block_interaction: the inline handler under the chunk, a full one after it.
Interactions == Calls \cup {call \o after : call, after \in Calls}

\* GameMapTimer::do_tick, GameMapWriteback::do_writebacks
OverChunks == Reading("live_chunks", UseEach(Chunks))

\* MapCacheCleanup::do_cleanup, ServerGameMap::flush
Unloads == Writing("live_chunks", Use("last_accessed") \o UseEach(Chunks))

BumpAccessTime == Reading("live_chunks", Use("last_accessed"))
-----------------------------------------------------------------------------
(* Inventories and views.                                                  *)

\* InventoryView::take, put, peek and clear_if_transient, by where the items are.
OnView == Calls \cup {Use("inventories")}

\* map_handler_sync: dig and tap, with the item's handler or the block's.
DigOrTap == {Hold("inventories", i) : i \in Interactions}

\* handle_place
HandlePlace == {Hold("inventories", call) : call \in Calls}

\* handle_inventory_action: taken from one view, put into another, both shown.
HandleInventoryAction == {Hold(p, from \o to) : p \in PlayerStates, from, to \in OnView}

\* handle_popup_response
HandlePopupResponse == {Hold(p, Use("inventories") \o back) : p \in PlayerStates, back \in OnView}

\* handle_interact_key_sync: the block is read, the popup made and then given to the player.
HandleInteractKey == {call \o view \o Use(p) : p \in PlayerStates, call \in Calls, view \in OnView}

\* ClientOutboundContext::handle_inventory_update, send_popup_updates, initialize_outbound_loop
ShowViews == {Hold(p, view) : p \in PlayerStates, view \in OnView}

\* handle_pos_update, teleport_player, last_position
LookAtPlayer == {Use(p) : p \in PlayerStates}

\* A dropped Player gives back what its views hold.
DroppedPlayer == OnView
-----------------------------------------------------------------------------
(* The table of players.                                                   *)

\* connect: the views are made, and a new player is written, under the table's mutex.
ConnectPlayer == {Hold("active_players", Use("inventories") \o Use(p)) : p \in PlayerStates}

\* drop_disconnect
DropDisconnect == {Hold("active_players", Use(p)) : p \in PlayerStates}

\* flush
Flush == Hold("active_players", UseEach(PlayerStates))
-----------------------------------------------------------------------------
\* Timers, write-back and cleanup run for ever; the rest is done for one player or another.
Tasks(t) ==
  IF t \in Keepers THEN {OverChunks, Unloads}
  ELSE Calls \cup DigOrTap \cup HandlePlace \cup HandleInventoryAction
         \cup HandlePopupResponse \cup HandleInteractKey \cup ShowViews \cup LookAtPlayer \cup DroppedPlayer
         \cup ConnectPlayer \cup DropDisconnect \cup {Flush, BumpAccessTime}

\* The type invariant: of the locks.
ServerTypeOK == LocksOK(LockOps, Mutexes, Tables)

ServerInit == LocksFree(Mutexes, Tables)
ServerNext ==
  \E t \in Threads :
    \/ Starts(t, Tasks(t))
    \/ Pass(t) \/ Lock(t) \/ Unlock(t) \/ Read(t) \/ Unread(t) \/ Write(t) \/ Downgrade(t)

ServerSpec == ServerInit /\ [][ServerNext]_lockVars
-----------------------------------------------------------------------------
\* The tasks of the server never wait for each other in a circle: every task takes the
\* table of players before a player, a player before the inventories, the inventories
\* before the live chunks and those before a chunk, and none takes the live chunks twice,
\* which a cleanup waiting to write would turn into a deadlock.  With the handlers of the
\* default game the deadlock of inventory.rs:172 is not there.
NoTaskCycle == NoCircle
=============================================================================
