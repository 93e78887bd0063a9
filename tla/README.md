# Cuberef in TLA+

Cuberef is a voxel game in Rust: a server that keeps a map, players, inventories
and block types in a database, clients that connect over gRPC and see the part of
the map around them, and an API with which a game is written.  This directory
models the parts of it in which threads, tasks, channels, caches and failures
meet, model-checks them with TLC and proves the main facts with TLAPS.  Paths
below are relative to `src/`; `game_map.rs` without a path is
`cuberef_server/src/game_state/game_map.rs`.

## 1. The system

### Server

| component | state | operations | interacts with | hard | what makes it correct |
|---|---|---|---|---|---|
| map cache `ServerGameMap` (game_map.rs) | `live_chunks`: RwLock over a map from coordinates to holders (mutex, condition variable, empty / error / chunk with dirty flag) | get_block, set_block, compare_and_set_block, mutate_block_atomically, get_chunk_client_proto, flush | database, map generator, writeback queue, block update broadcast | two-phase locking, loading outside the mutex, eviction | it behaves as a store without a cache; nothing dirty is dropped |
| map writeback `GameMapWriteback` | bounded channel of 256 requests, a batch | gather (coalesce, deduplicate), do_writebacks | `live_chunks` read lock, chunk mutexes, database | requests before their chunk, failure of the task, full queue | what was asked to be written is written; no deadlock |
| cache cleanup `MapCacheCleanup` | ages of entries | do_cleanup every 3 s | write lock, unload_chunk_locked | eviction against loading and writeback | bounds the cache, loses nothing |
| map timers `GameMapTimer` | shards, each a task | run_shard, do_tick, handle_chunk | read lock held over all chunks, chunk mutex, queue | runs during shutdown, ends at a failed chunk | every live chunk is visited; changes are saved |
| client contexts, outbound (network_server/client_context.rs) | chunks known to the client, interested chunks, receivers of two broadcast channels | block updates, inventory updates, position updates | broadcast channels, map, gRPC stream of capacity 4 | lag, batches, chunks newer than updates | the client's copy converges to the map |
| client contexts, inbound | AIMD pacing, player | handle_message: dig, tap, place, interact, inventory, popups | map, inventories, player state | acknowledgement against effects, errors without acknowledgement | each message has its effect once and is acknowledged |
| inventories (inventory.rs) | stored inventories in the database behind one mutex; views (transient, stored, in a block, virtual) | take, put, mutate, clear_if_transient | players, blocks' extended data | failures between two steps, origins of returned items | items are neither lost nor copied |
| players (player.rs) | active players, stored players | connect, disconnect, periodic writeback, inventory actions | database, inventory views | reconnect while the old session ends | one session per player; the stored player is the last state |
| block types (blocks.rs) | ids of names, stored assignments | register, load, save, resolve | every stored chunk | restarts with and without a plugin | an id keeps its meaning |
| items, handlers, events | registered items | dig and place handlers | map, inventories | handlers under locks | – |
| authentication (auth.rs) | registered users | register, log in (OPAQUE) | database | two registrations at a time | whoever is let in has an account |
| databases | key-value store | get, put, flush | – | failure of a call | – |
| shutdown (game_state/mod.rs, server.rs) | cancellation tokens | start_shutdown, finish_shutdown | all of the above | order of the steps, failed tasks | everything is flushed |

### Client

| component | state | operations | hard | what makes it correct |
|---|---|---|---|---|
| message loops (net_client) | acknowledgement map, sequence numbers | send actions and positions, handle messages | withheld position updates, one loop ending before the other | progress of positions; no loop is left behind |
| threads and locks (game_state/mod.rs) | a dozen locks of `ClientState` | frames, events, messages, meshing | locks taken in both orders, guards taken twice | no circle of waiting |
| chunks and mesh worker (game_state/chunk.rs, mesh_worker.rs) | chunks, their meshes, a queue | insert, delta, unsubscribe, mesh | two threads mesh the same chunk | a mesh shows the contents in the end |
| hotbar (game_ui/hud.rs) | slot, its picture | scroll, draw, take an update | read under one lock, used under another | display, tool and view agree |
| tools (tool_controller.rs, input.rs) | buttons, dig progress | update, select | resets and lock-outs | one answer per press, one dig per completed progress |
| physics (physics.rs) | position, mode | update_and_get, set_position | clamping axis by axis, corners, stepping up | nobody is moved into a block or through one |
| coordinates (cuberef_core/coordinates.rs) | – | chunk, offset, with_offset, try_delta | negative numbers, ends of the range | an address names its block |
| UI, rendering | – | – | GPU | locks and meshed neighbours only |

### Game API (cuberef_game_api)

Registration of blocks and items, the default game with its furnace (a map timer
that consumes fuel and converts items), recipes and map generation.

## 2. Modules

| module | models | status |
|---|---|---|
| `BlockStore` | the abstract map: one content per chunk, reads, writes, saves, crashes | done |
| `GameMap` | cache, operations, writeback, cleanup, timers, shutdown, crash of `ServerGameMap` | done |
| `GameMapProofs` | theorems about `GameMap` | done |
| `MCGameMap`, `MCGameMapLive` | instances for TLC | done |
| `ClientSync` | block updates, chunks, positions and acknowledgements between the map and a client's copy of it | done |
| `ClientSyncProofs` | theorems about `ClientSync` | done |
| `MCClientSync` | instances for TLC | done |
| `ItemStacks` | merging, taking and inserting stacks of items | done |
| `InventoryViews` | moves, swaps and returns of items between hands, grids, inventories and a chest; digging and placing it; sessions, failures, crashes | done |
| `CountingLemmas` | lemmas about counting over slots, players and items | done |
| `InventoryProofs`, `InventoryAccounts` | theorems about `ItemStacks` and `InventoryViews`: what stacks do, the invariant; where items go | done |
| `MCInventoryViews` | instances for TLC | done |
| `PlayerSessions` | login, connect, positions, disconnect, periodic write-back and shutdown, from the first message of a stream to the last trace of its player | done |
| `BlockTypes` | the numbers of block types over runs of a server with and without a plugin, and a stored block | done |
| `Furnace` | the furnace of the default game under ticks, players and evictions | done |
| `Connection` | the two loops at either end of a game stream and the two bounded channels between them | done |
| `LockSteps` | threads that take mutexes and readers-writer locks, and what a circle of waiting is | done |
| `ClientThreads` | the threads of the client over its locks, chunks and meshes | done |
| `ServerLocks` | which task of the server takes which lock inside which | done |
| `Tools`, `Hotbar` | digging, tapping, placing, interacting; the slot in use and who knows of it | done |
| `Physics` | moving among blocks | done |
| `Coordinates` | blocks, chunks, offsets, indices, neighbours | done |
| `MCThreads`, `MCParts` | small instances of these and of `InventoryViews` for TLC | done |
| `ThreadsProofs` | theorems about `Hotbar`, `Connection`, `PlayerSessions` | done |
| `LockProofs` | theorems about `ServerLocks`, `ClientThreads` | done |
| `PartsProofs` | theorems about `Furnace`, `BlockTypes`, `Coordinates`, `Tools`, `Physics` | done |

`GameMap` and `ClientSync` meet at the block updates: `AnnouncedIsCurrent` of
`GameMap` says that they tell the content of a chunk whenever its mutex is free,
which is why a change and its update are one step in `ClientSync`.  `GameMap` and
`InventoryViews` meet at the dirty flag: `CleanMatchesDb` of `GameMap` holds because
mutate marks a change, and what happens to a chest that is changed without the mark
is the subject of `CleanBlockIsSaved`.

`InventoryViews` and `PlayerSessions` meet where a session ends: what its views hold
goes back while the same player may be in again; the first follows the items, the
second the record, the table and the streams.  `Connection` and `ClientSync` share
the stream: what its messages say is in `ClientSync`, how its loops end in
`Connection`.  `LockSteps` is used by `ClientThreads` and `ServerLocks`.

Every safety property of the runs that pass has a theorem; where it is for some runs of
the system only, the section of its module says for which.  Not proved: liveness, and
what needs ENABLED.  Section 7 says what is in the way.

## 3. GameMap

### State

`live[c]` is the entry of `live_chunks` for `c`: absent, empty (being loaded),
error, or a chunk with its content and dirty flag.  `db[c]` is the stored chunk.
Each thread `t` has a place `pc[t]`, the call it is making `job[t]`, and what its
last call saw `observed[t]`.  `announced[c]` is the content according to the last
block update.  `queue`, `wb` and `batch` are the writeback channel, the task and
what it has gathered; `cleanup` and `unloading` the cleanup task and the chunks a
writer has yet to unload; `cancelled` the map's token; `phase` is finish_shutdown.

Locks are not variables.  Who holds one follows from where each thread is:
`ReadLocked` are the places inside a read guard, `Critical` those inside the
mutex of the chunk, `Claimed` says that a writer waits for or has `live_chunks`,
which in parking_lot stops new readers, `HasReaders` that it still has to wait.

### Actions and code

| action | code |
|---|---|
| `Call`, `GetChunk`, `ClaimToInsert`, `InsertHolder` | get_chunk up to the downgrade (918-961) |
| `Load`, `CheckShutdown`/`SendRequest` from genCheck/genSend, `Fill`, `SetErr` | the load under the read lock (962-975, 987-1004) |
| `ChunkFailed`, `Lock` | wait_and_get, try_get (497-519) |
| `GetBlock`, `SetBlock`, `CompareAndSet`, `MutateBlock` | the operations (643-819) under the mutex |
| `CheckShutdown`, `SendRequest`, `SendFailed`, `Broadcast` | enqueue_writeback, broadcast_block_change (1039-1063) |
| `Tick`, `TickSkips`, `TickEnds`, `ShardExit` | run_shard, do_tick, handle_chunk (1481-1566) |
| `WbReceive`, `WbGathered`, `WbLock`, `WbChunk`, `WbNext` | GameMapWriteback (1223-1362) |
| `CleanupClaim`, `CleanupLock`, `Unload`, `CleanupUnlock`, `CleanupExit` | MapCacheCleanup (1158-1209), unload_chunk_locked (1010-1036) |
| `RequestShutdown`, `AwaitWriteback`, `AwaitCleanup`, `FlushClaim`, `FlushLock`, `FlushUnlock` | finish_shutdown, await_shutdown, flush (1100-1135) |
| `Crash` | the process is killed; the database stays |

Abstractions.  The content of a chunk is one value of `Vals`: the cache treats a
chunk as a whole, and an operation that changes one block changes the content.  A
timer's callbacks on one chunk are one change, made under one mutex.  Everything
done under a mutex up to the point where other threads can tell is one step.
Ages of entries are left open: the cleanup task may evict any entries that its two
limits allow.  `gather` keeps a set, because it deduplicates what it received and
the order of the writes within a batch changes nothing else.  `Drained` says
whether callers are gone when finish_shutdown begins: tonic waits for open
connections, but the tasks of a broken connection may still be inside the map.
In do_tick the shard may skip any chunk; a chunk that is not its own, or whose
blocks have no timer, is one it skips.  InlineUnlocked callbacks, which run with
the mutex held, are not modelled.

### Properties

| property | says | run |
|---|---|---|
| `CleanMatchesDb` | a clean chunk is what the database holds | GameMapFaults |
| `FillsEmptyHolder` | the assertions of fill and set_err | GameMapFaults |
| `LoadIsNotStale` | a load is still up to date when it fills the holder | GameMapFaults |
| `WriterSeesNoEmpty` | the "should never happen" of unload_chunk_locked | GameMapFaults |
| `AnnouncedIsCurrent` | the block updates sent tell the content, whenever the mutex is free | GameMapTimers |
| `DownMeansSaved` | after an orderly stop the database holds what was announced last | GameMapTimers |
| `StallOnlyOnFullQueue` | the only way for the map to stop is the full writeback queue | GameMapFaults |
| `ImplementsStore` | the map is a `BlockStore` | GameMapFaults |
| `MapOK` | the inductive invariants of the proofs, `IInv` (its first conjunct is `TypeOK`, with the bound of the queue) and `WaitersFit`; `CanMove` is what TLC finds enabled | GameMapFaults |
| `CallsReturn`, `ChangeIsSaved`, `ShutdownEnds` | liveness | GameMapLive |

The refinement mapping takes `current` to what a reader must see (the holder's
content if there is one, else the database, else what the generator makes) and
`saved` to the database.  That every step of the cache is a step of the store or
invisible says, among other things, that eviction, loading and writeback never
change what a reader sees, that the database only ever receives the current
content, and that without a storage failure nothing is lost.

### Runs and bounds

| run | instance |
|---|---|
| GameMapFaults | 1 chunk, 2 callers that mutate, a cache that keeps nothing, puts and loads that fail, crashes, callers left at shutdown, queue of 1 |
| GameMapTimers | 1 chunk, 1 caller with every kind of call, 1 timer shard, queue of 1, crashes |
| GameMapLive | 1 chunk, 2 callers, 1 shard, 4 starts in all, queue of 8 |

Two callers and a chunk are what a lost race, a wait on the condition variable and
a conflict on the mutex take; the cleanup task, which may take the chunk away
between any two of their steps, is the third party; a queue of one is full after a
single request.  Two contents are enough to tell an old one from a new one.  In
GameMapFaults all calls are of the kind that changes a chunk with or without
marking it (mutate), the hardest for the dirty flag; the other kinds run in
GameMapTimers.  `KeepRecent = 0` lets the cleanup task take any entry.  No counter
is bounded except the number of starts in `MCGameMapLive`.  What more chunks,
callers and shards could add to the safety properties is answered by the proofs.
CHECK_DEADLOCK is off because the system does stop: after a shutdown, and on the
full queue.

### Fairness

`Fairness` is weak fairness of what every thread does inside a call, of the
writeback task, of a writer that has claimed the lock, and of the shutdown: the
tokio runtime and the operating system run every task that can go on, and
parking_lot hands its locks to those who wait.  Starting a call, a tick or a
cleanup pass is never assumed.  Liveness is checked with fewer starts than the
queue has room for, because with a full queue the map can stop for ever; that is
what `StallOnlyOnFullQueue` and the run GameMapWritebackDeadlock are about.

### Where the code and its documentation disagree

| run | what it shows |
|---|---|
| GameMapFailedStop | one failed put ends the writeback task; shutdown then panics before the flush |
| GameMapWritebackDeadlock | the deadlock under heavy writeback traffic that furnace.rs wonders about |

Two more were seen while modelling and have no run.  The comment at game_map.rs:1001
says that the writeback request of a generated chunk executes only after its mutex
is released; the request is sent (`genSend`) before the holder is filled, and the
task can take it, find an empty holder and drop it (the second disjunct of
`WbChunk`).  And set_block leaves before its broadcast when its writeback request
fails (`SendFailed`, `GiveUp`), although the doc of subscribe promises all changes;
that is why `AnnouncedIsCurrent` is stated for maps whose calls do not fail.

### Proofs

`GameMapProofs` proves for every value of the constants allowed by
`GameMapAssumption`:

| theorem | statement |
|---|---|
| `Invariance` | `Spec => []IInv` |
| `TypeCorrect`, `FillNeverPanics`, `NoStaleLoad`, `CleanIsSaved`, `NoEmptyUnload` | the safety properties that follow from `IInv` |
| `Refinement` | `Spec => ImplementsStore` |
| `NoOtherDeadlock` | `Spec => []StallOnlyOnFullQueue` |
| `OrderlyInvariance` | `OrderlyRun` implies `Spec => []OrderlyInv` |
| `SubscribersAreTold`, `OrderlyStopSaves` | under `OrderlyRun`, `AnnouncedIsCurrent` and `DownMeansSaved` always hold |

None of the safety properties is inductive by itself.  That a clean chunk matches
the database needs that a load is not stale; that needs that nobody writes to the
database for a chunk that is being loaded, hence that its holder is empty, that it
has one loader, and that no writer removes it, hence that a loader is a reader and
that a writer at work has no readers.  `IInv` is the conjunction: `TypeOK`, the
calls of the threads (`JobsOK`), the exclusion of writers and readers (`LocksOK`),
one owner per mutex who finds the chunk loaded (`MutexOK`), a loader for every
empty holder (`EmptyHasLoader`), `FillsEmptyHolder`, `LoadIsNotStale` and
`CleanMatchesDb`.  There is one lemma per action; the two frame lemmas
`ThreadFrame` and `TaskFrame` carry the conjuncts that an action cannot disturb.
`Refinement` uses `IInv` in every step and has a lemma per kind of step.

`AnnouncedIsCurrent` and `DownMeansSaved` are false when a put fails or a caller is
left behind at shutdown, which is what the code does (see above).  The last three
theorems therefore assume `OrderlyRun`: no call fails (`Faults = {}`) and tonic has
waited for the callers (`Drained`); crashes, timers and a full queue remain.  Their
invariant `OrderlyInv` joins `IInv`: no holder and no task is given up
(`NothingFails`), a shard loads no chunk and tells what it does (`ShardsOnlyTick`), only
a shutdown cancels the token, finds no caller in the map, and unloads all that is there
(`StopIsOrderly`), and whoever has set a block and not told of it is still inside the
mutex with what it has set (`ToldOrTelling`).  So the subscribers of a chunk are behind
only while somebody is to tell them.  That timers go on during the shutdown does not
spoil the flush: they need a chunk that is there, and the flush writes a chunk and takes
it away while it has the lock of the table, on which they wait.

`StallOnlyOnFullQueue` says when threads and tasks may go on by the guards of their
actions (`CanMove`), not by ENABLED, which the prover does not support; that the guards
say the same is a conjunct of `MapOK`.  `NoOtherDeadlock` needs `WaitersFit` besides
`IInv`: who waits for a mutex has an entry to wait for, which is why the lock of
`live_chunks` is kept while waiting, and a shutdown has cancelled the token.  The argument
takes a state in which nothing can go on.  If somebody waits for room in the queue, the
queue is full and has a reader, and the reader waits for the mutex of a chunk, whose owner
can only be waiting for room too, or for a writer: that is `QueueJam`.  If nobody does,
nobody is inside a mutex or loading, hence every holder is filled, nobody waits for one,
`live_chunks` has no readers, then no writer, and the shutdown has nothing to wait for.

Left to TLC: liveness (`CallsReturn`, `ChangeIsSaved`, `ShutdownEnds`), which the prover
does not support.

## 4. ClientSync

### State

`world[b]` is a block of the map, `events` what the receiver `block_events` holds,
`lost` the blocks whose updates it has lost since it last reported a lag (`Lagged`:
there are some).  The outbound loop has a place `pc` and its own `batch`, `known`
(chunks_known_to_client), `interested` (interested_chunks), `pending` (the full
chunk it is about to send), `visit` (the position it works at and how many chunks
it may still send) and `unsub`.  `pos` and `posNew` are the watch channel
own_positions; `inbound` is the inbound loop; `wire` the stream to the client,
that is the channel of capacity 4 (grpc_service.rs:67) together with what gRPC
holds; `uplink` a position on its way.  On the client, `client[c]` is its copy of
chunk `c`, `withheld` that it waits for an acknowledgement, `complained` that it
has sent a BugCheck.  `missed` is a history variable: the blocks of which the loop
dropped an update and took nothing newer since.

### Actions and code

(client_context.rs is the server's unless it says client)

| action | code |
|---|---|
| `Change` | a change of a block with broadcast_block_change (game_map.rs:1039-1044), and the loss of the oldest update when the receiver is full |
| `Move`, `SendPosition` | the timer of the client's outbound loop and send_position_update (client 103-140, 216-222) |
| `HandlePosition`, `SendAck` | handle_pos_update (844-888), send_ack (825-842) |
| `TakeUpdate`, `TakeLagged` | block_events.recv in the select, handle_block_update_lagged (285-299, 357-366) |
| `Drain`, `DrainLagged`, `DrainEnds` | the try_recv loop (300-315) and wants_block_update (353-355) |
| `Fill`, `FillSend`, `SendBatch` | maybe_send_full_chunk (375-409) and the batch (318-350) |
| `TakePosition`, `Load`, `LoadSend`, `LoadEnds` | handle_position_update (439-535) with get_chunk_client_proto (game_map.rs:1072-1098) |
| `Receive`: `TakeChunk`, `TakeDeltas`, `TakeUnsubscribe`, `TakeAck` | the client's handlers (350-536) with insert_or_update, update_from and apply_delta |

Abstractions.  Distances are three sets per place (eager, lazy, keep), eager within
the other two; the order in which the chunks of one round or one batch go out is
left open.  The pace of chunks (an AIMD on floating point) is any of `Paces`.  The
loop waits for room between fetching a chunk and sending it, so those are two
steps.  Not modelled: inventory updates and popups on the same stream, the
teleport of a player whose position is invalid, errors that end a loop, shutdown.

### Properties

| property | says | run |
|---|---|---|
| `NeverComplains` | the client never gets a message that does not fit what it has | ClientSyncMoves |
| `StaleOnlyIfMissed` | when nothing is under way, the client is right about every known chunk but for dropped updates | ClientSyncMoves |
| `IInv` | the inductive invariant of the proofs; its first conjunct is `TypeOK`, with the bounds of batch, receiver and stream | ClientSyncMoves |
| `NearChunksArrive` | the chunks near a player who stays somewhere arrive and remain | ClientSyncLive |

### Runs and bounds

| run | instance |
|---|---|
| ClientSyncMoves | 2 places, near and too far to keep the chunk, 1 chunk of 2 blocks, batches of 2, receiver of 1, stream of 1 |
| ClientSyncLive | 2 places, 2 chunks of which one is near only the first, updates that need not change anything, stream of 1 |

Two blocks of one chunk are what it takes for a batch to mix updates that pass the
filter and that do not, for a full chunk to be newer than one update and older
than another, and for a lag to lose a block that no update in the receiver makes
up for; a receiver of one overflows at every turn; a second place from which the
chunk is dropped is what an unsubscription takes.  A stream of one is full all the
time.  Longer streams, in which acknowledgements come between a chunk and its
updates, and batches over several chunks are left to the proofs.  `Paces = {0}`
makes every round end after one chunk, so that two chunks need two position
updates.  Deadlock is checked in both runs: the loops and the client never all
wait for each other.

### Fairness

Weak fairness of the steps that nothing disables again (the client receives, the
loop goes on with a branch it has chosen, the inbound loop takes a position, the
client's timer ticks every 0.1 s), and strong fairness of those that compete:
tokio's select! tries its branches in random order, so a branch that is ready
again and again is chosen at some time, and a bounded channel serves those that
wait for room in the order in which they came.  `NearChunksArrive` assumes that the
player stays somewhere and that the map does not change for ever: the drain loop
is bounded by the size of the batch but not by the updates that fail its filter,
and whether it outruns the changes is a question of time.

### Where the code and its documentation disagree

| run | what it shows |
|---|---|
| ClientSyncStale | nothing ever inserts into interested_chunks, so all updates of a batch but the first are dropped and the copy of a known chunk stays stale |

Three more were seen while modelling and have no run.  A lag met while draining is
logged and never dealt with (`DrainLagged`), although the comment at
client_context.rs:310 says that the main loop will.  After a lag a chunk between the
eager and the unload distance is neither sent again nor, no longer being known,
unsubscribed from (`TakeLagged`, `ToLoad`, `TakePosition`), although the comment at
292 speaks of a resync; it stays on the client as it was.  And
get_chunk_client_proto returns nothing for a chunk it is not asked to load
(game_map.rs:1085-1097), cached or not, contrary to its doc, so the lazy distance
has no effect (`ToLoad`).

### Proofs

`ClientSyncProofs` proves for every value of the constants allowed by
`ClientSyncAssumption`:

| theorem | statement |
|---|---|
| `Invariance` | `Spec => []IInv` |
| `TypeCorrect`, `ClientNeverComplains`, `StaleOnlyWhereMissed` | the safety properties that follow from `IInv` |

`NeverComplains` and `StaleOnlyIfMissed` speak of a client that has taken
everything; the invariant must speak of the messages on the way.  `Held(w, have, i,
c)` is what the client will have when it comes to the i-th message: `WireFits` says
that each message fits then, `KnownIsHeld` that the known chunks, and those about
to be unsubscribed from, are held at the end.  `KnownWillBeRight` says that the last
message about a block of a known chunk tells it as it is, unless an update of it is
still in the batch, in the receiver, or lost (`Unsettled`); `EventsEndRight`,
`BatchEndsRight` and `PendingIsRight` say the same of the receiver, the batch and
the chunk at hand.  That is why a full chunk that overtakes older updates does no
harm: a block with an update under way is allowed to be wrong, and the last update
makes it right.  `AcksOK` counts positions and acknowledgements, and `LoopOK` ties
the loop's data to its place.  The lemmas on sequences (`After*`, `Held*`, `Fits*`,
`Right*`) say what putting a message at the end of the wire, or handling its first,
does to these; there is one lemma per action.

Left to TLC: `NearChunksArrive` (liveness).

## 5. InventoryViews

### State

`main[p]` is a player's main inventory as the inventory database has it; there is no
cache.  `block` is one block of the map, a chest or air, with the inventory in its
extended data (`NoData` if it has none) and the dirty flag of its chunk; `saved` is
the same in the map database.  `held[p]` are the slots that only the session of `p`
reaches: slot `Hand` is the view that carries items with the mouse
(inventory_manipulation_view), the others are the crafting grid of the inventory
popup.  Each held stack remembers where it came from (`BorrowLocation`).  `old[p]` are
these views of a session that has ended and not yet been dropped.  `open` are the
players with the chest's popup, `pc` and `job` how far the request of each player is,
`holder` who keeps the mutex of the inventory database across a call into the map.

### Actions and code

| action | code |
|---|---|
| `PickUp`, `PutBack`, `PutDown` | handle_inventory_action without swap (player.rs:198-211) |
| `SwapTake`, `SwapPut` | handle_inventory_action with swap (player.rs:180-197) |
| `FromGrid`, `ToGrid`, `SwapGrid` | the same between hand and grid |
| `Craft`, `TakeCreative` | take of the virtual views (default_game/game_behaviors.rs:46-98) and the put into the hand |
| `Close`, `ClearNothing`, `ClearSlot`, `ToOwner` | handle_popup_response (client_context.rs:991-1074), clear_if_transient (inventory.rs:522-580) |
| `Dig`, `Place`, `WriteMain` | map_handler_sync, handle_place (client_context.rs:750-938) and the handlers of blocks.rs in cuberef_game_api, inside mutate_inventory_atomically |
| `Interact`, `OpenChest` | handle_interact_key_sync (1092-1144), new_block (inventory.rs:471-518) |
| `Connect`, `Disconnect`, `DropView` | PlayerManager (player.rs:306-356), Drop of a view (inventory.rs:959-965) |
| `Save`, `Evict`, `Crash` | do_writebacks, unload_chunk_locked and the load after it (parse_v1), the process is killed |

A request is cut where other threads can tell: each call into the inventory manager
or the map that changes something after the first is a step of its own, and so is
the one that ends `mutate_inventory_atomically` around a call into the map.  What
happens only in the hand and the grid belongs to the step beside it.

Abstractions.  The client has its hand at one end of every move (egui_ui.rs:500-728),
and counts and slots are whatever it last saw; a swap has the hand as its source.
It opens one popup of the chest at a time.  A call fails before it changes anything:
the one that does not, a change of a block whose writeback request fails because the
map is shutting down, is left out.  Views are taken out of memory while nothing else
of the session runs, one ended session per player at a time.  The chest is the only
block that is dug and placed; the stored inventory of a player exists from the start.
Updates to the client, the virtual input view (`todo!()` in the code) and buttons are
not modelled.

### Properties

| property | says | run |
|---|---|---|
| `ItemsInv` | the inductive invariant of the proofs: `TypeOK`, what a request in the middle relies on (`RequestsOK`), `CleanHoldsSaved` | Threads |
| `ItemsAccounted` | two conjuncts. `GainStep`: no interleaving of requests, evictions and ended sessions makes an item, a failed call or a kill only in the ways it names. `LossStep`: an item is destroyed only if it finds no room where the code looks for it, or for one of the reasons it names | InventoryMoves |
| `CleanHoldsSaved` | a chest that is not marked dirty has at least what the database has, so that loading it makes no copy | InventoryMoves |
| `NoLostUpdate` | nobody changes an inventory between another thread's read and write | InventoryMoves |

`Total` counts an item everywhere: inventories, chest, hands, grids, ended sessions
and stacks between two steps of a request.  The exceptions of `LossStep` are
what the code does: leftovers of a move are destroyed if somebody has changed the
slot meanwhile; a swap whose first put leaves something over gives up what it took
(`ensure!`); whatever finds an inventory full is logged and gone; a view that is
dropped has no owner to fall back on; the inventory of a dug chest stays under the
air until the chunk is loaded again or a block is placed.

### Runs and bounds

| run | instance |
|---|---|
| InventoryMoves | 2 players with one slot each (dirt, the chest), a chest of one slot, stacks of up to 2, no failure |
| Threads (subject `items`) | 1 player with one slot, a grid of one, a recipe, a creative view that gives when the world is empty, a chest, at most one failed call or kill |

Two players and one slot are what a conflict takes: whatever one puts down lies where
the other's stack came from.  Stacks of up to 2 make merges that fit and, with
the other item, merges that do not.  One fault, at any point of any request, is what
`ItemsInv` can meet at a time; with two the instance is too large.  With one player the
other party is his own previous session, whose views are dropped while the new one
runs.  InventoryMoves checks for deadlock: a player can always connect or go on.
InventoryMoves leaves out `Crash` with the other faults (`MovesSpec`): what these do to
the number of items is answered by the proofs.  With the few items of the second
instance a leftover that goes back (`PutBack`) only comes after a fault, so that a
failure of that put is in the proofs and not in any run.

### Where the code and its documentation disagree

| run | what it shows |
|---|---|
| InventoryReturnUnsaved | clear_if_transient returns a stack to a chest without set_dirty, against the data loss warning of blocks.rs:271; the next eviction loses the stack |

Others were seen while modelling and have no run.  The dig handler of blocks.rs
(cuberef_game_api) makes the block air and leaves the chest's inventory in place
(`Dig`), although the doc of mutate_block_atomically asks a mutator that changes the
type to set fitting extended data.  The comment at items.rs:113 calls a stack with
max_stack 0 non-stackable; register_crafting_recipe makes stacks that are not
stackable with max_stack set to their quantity, so the two fields can disagree
(`Mergeable` looks at one, `TakeItems` at the other).

### Proofs

`InventoryProofs` and `InventoryAccounts` prove for every value of the
constants allowed by `ItemsAssumption` and `InventoryAssumption`:

| theorem | statement |
|---|---|
| `MergeConserves`, `TakeConserves`, `InsertConserves` | merging, taking from a slot, inserting into an inventory neither make nor destroy items |
| `ItemsInvariant` | `Spec => []ItemsInv` |
| `EvictionCopiesNothing` | `Spec => []CleanHoldsSaved` |
| `MutexHeldByWriter` | `Spec => []LockInv` |
| `NothingOverwritten` | `Spec => NoLostUpdate` |
| `NothingIsMade` | `Spec => [][GainStep]_vars` |
| `ItemsAreAccounted` | `LimitsKept` implies `Spec => ItemsAccounted` |

The invariant.  That a move conserves items needs the types of everything it touches:
that a slot holds nothing or a stack of at least one, that a request in the middle
knows a slot that is there, and that the block is air or a chest.  `RequestsOK` adds
that the hand is empty in the middle of a swap, and that what a move gives back fits
onto what it was taken from.  The type of a slot depends on the instance: with
`LimitsKept` no stack that can be split is over its limit, and none comes to be.
`LimitsKept` is a statement about the constants (what players begin with, recipes,
creative view), which a game may break (items.rs:113); it is needed by `LossStep`
alone, where a leftover that goes back finds the room it came from only if what was
there fitted.  `CleanHoldsSaved` is in the invariant because `Save`, `Evict` and the
chest's views meet there, and `NoLostUpdate` has an invariant of its own: `LockInv`,
that a player is at `write` exactly if he has the mutex.

Sums.  `Total` adds up amounts over slots, players and the block with the folds of the
community modules, and `TryInsert` walks through the slots.  What such a definition
computes is proved by a set of those prefixes for which the claim holds and the
theorem that a set of numbers has a least element (`CountingLemmas`): adding one slot
adds its amount, changing one slot changes the sum by the difference.  `Total` is then
the block plus a share for every player (`Tally`), and each request touches the share
of its player and at most one inventory; the lemmas of `InventoryAccounts` named for
the requests say what each does to the two, with the failures in their disjuncts.

Left to TLC: nothing of this module but the violation above.

## 6. The parts of the runs Threads and Parts

`MCThreads` has seven small instances of the modules in which threads, tasks and
messages meet, `MCParts` five of those that do one thing after another.  The parts of
a run keep no state in common, so that a behaviour is one of one part: `subject` says
which.  The modules that have proofs are extended, so that TLC evaluates the assumptions
and definitions that the proofs use; `InventoryViews` and, a second time,
`ClientThreads` are instantiated, and `x1`, `x2`, ... stand for variables of theirs.
`ServerLocks` and `ClientThreads` share the variables of `LockSteps`, for one subject
each: three threads, which serve players or the map at the server and are the window,
the inbound loop and the mesh worker at the client.  The
variables of all parts but one rest.  Each property is about the states of its own
part.  The bounds are in the .cfg files and beside the instances.  The two streams are
symmetric.  CHECK_DEADLOCK is off because parts may stop: a server that has shut down,
a stream that has closed, block types after the last run, a body after the last frame.
Where a standstill would be an error an invariant says so (`ShutdownGoesOn`,
`NothingIsLeft`, `NoLockCycle`, `NoTaskCycle`).  Fairness is assumed nowhere: all
properties are invariants or action properties.

| property | run, subject | says | proved |
|---|---|---|---|
| `PartsOK` | both, all | the inductive invariant of the part, types and bounds included; the types alone for locks, server and body; for the body also that no loop of short steps is longer than its bound; for meshes the types and the two properties of `ClientThreads`; for sessions and stream also that the guards of the next two agree with ENABLED | each in its module, but for the length of loops and ENABLED |
| `OneSession` | Threads, sessions | whoever was let in and has not begun to leave is the one in the table | `PlayerIsInGameOnce` |
| `RecordIsLatest`, `RecordGoesForward` | Threads, sessions | the record is the last position accepted; it is never replaced by an older one, nor its inventory by another | `RecordKeepsLastPosition`, `RecordsGoForward` |
| `ItemsReturn` | Threads, sessions | what views held is back when the last of a session has gone, unless a call failed or its room was taken | `ItemsComeBack` |
| `ShutdownGoesOn` | Threads, sessions | from start_shutdown on something can go on until the server has ended | `ShutdownsGoOn` |
| `AnswersFit` | Threads, stream | acknowledgements are awaited, a withheld position waits for something | `AnswersAlwaysFit` |
| `NothingIsLeft` | Threads, stream | no loop is left behind, with two exceptions | `NoLoopIsLeft` |
| `NoTaskCycle` | Threads, server | no tasks of the server wait in a circle | `ServerHasNoTaskCycle` |
| `NoLockCycle` | Threads, locks | no threads of the client wait in a circle | `ClientHasNoLockCycle` |
| `MeshIsCurrent` | Threads, locks and meshes | once settled, chunks look as they are, but for a mesh that an older one has replaced | `ClientMeshIsCurrent` |
| `HotbarFits` | Threads, hotbar | display, tool and view agree, but for a display drawn in the middle of an update | `HotbarAgrees` |
| `IdKeepsItsName` | Parts, types | a block in memory has the name it was placed with, unless that name was left out of a save | `BlocksKeepTheirNames` |
| `DataHasType` | Parts, types | extended data have a type that is known | `DataAlwaysHasType` |
| `Conserved` | Parts, furnace | what slots, hands and players hold, the fuel burnt and what was lost in one of four ways is what there was to begin with, and what inputs that do not stack gave for nothing | `FurnaceConserves` |
| `HeatPaid`, `EvictionUndoesLittle` | Parts, furnace | what is made is paid with fuel; of the furnace's work an eviction undoes one smelt at most | `SmeltsArePaidFor`, `EvictionsUndoOneSmelt` |
| `ActionsFit` | Parts, tools | a press is answered once, a block dug once | `PressesAndDigsFit` |
| `StaysOut` | Parts, body | nobody is moved into a block or straight through one | `BodyStaysOut` |
| `AddressesFit` | Parts, places | addresses name their blocks, neighbours are meshed again | `AddressesNameBlocks` |

The theorems are in `ThreadsProofs`, `LockProofs` and `PartsProofs`; each rests on the inductive
invariant of its part, proved first (`SessionsInvariant`, `ConnectionInvariant`, ...), and
on the assumption of its module about the constants (`SessionsAssumption`, ...).  These
say that values such as Nobody or Empty are none of those they stand beside, and that
bounds are numbers of which there is at least one where the code needs one.  What each
argument turns on is said with its part.

### PlayerSessions

A stream goes through `phase` from its first message to "leaving"; `loops` are the
contexts that hold its PlayerContext, `player` its Player.  `active` is
`active_players`, whose mutex is taken for a step (`Connect`, `Disconnect`) or for a
walk (`flush`); `record` and `accounts` are the database.  Of a player's items one is
followed (`item`): it is in the main inventory, in the views of a stream, lost with a
call that failed or by a kill, or spilt, as the main inventory had no room for it
(`full`).

| action | code |
|---|---|
| `StartAuthentication` to `FinishLogin`, `Refuse` | do_auth_flow (grpc_service.rs), auth.rs |
| `Connect` | PlayerManager::connect, new_player and its first write_back |
| `ClientInitialReady`, `NotReady` | the message after it, make_client_contexts |
| `UpdatePosition`, `MoveItem` | handle_pos_update, an inventory action or the end of a popup |
| `FillMain` | what a player digs or moves takes the room that the item has left |
| `Returns` (in `MoveItem`, `DropPlayer`) | clear_if_transient, with its failures (inventory.rs:522-580) |
| `Leave`, `InboundLoopEnds`, `OutboundLoopEnds` | the ends of the two loops, the token they share |
| `Disconnect`, `DropPlayer` | drop_disconnect; then the Player and its views |
| `FlushStart`, `FlushOne`, `FlushEnd` | flush, of writeback_loop and of the shutdown |
| `StartShutdown`, `ServeReturns`, `AwaitShutdown`, `Crash` | server.rs, game_state/mod.rs, the process is killed |

Instance: one name, two streams, two positions, two calls that fail or kills.  Two
streams of one name are what a reconnect and a race of registrations take, two faults
a disconnect that is not written before a kill.  Names meet only in the mutex of the
table and in the server's shutdown; with a second name, and one position and one
fault, the instance has 735 000 states and the properties hold as well, which is too
long for a run: the proofs answer for it.  `missed` names the exception of
`RecordIsLatest`: a disconnect whose write failed, or a kill.  The exceptions of
`ItemsReturn` are those of the code: clear_if_transient loses a stack when its call fails,
and when no slot has room for it, which for the views of a session that has ended may be
the doing of the next session of the same player (`FillMain`).  What may never happen is
that the views go with the item in them, that two sessions hold it, or that it is gone
although no call failed and its room was never taken.

Proof, for any names and streams.  `SessionsInv` adds to the properties what each phase
of a stream means for its name, player and loops (`StreamsFit`), that an entry of the
table is a stream of that name in the game and that a flush walks entries only
(`TableFits`), and that the record of whoever is in the table is behind him in his
position at most (`RecordsFit`).  The last is what `RecordIsLatest` needs when a
disconnect writes, and `RecordGoesForward` when a flush does, which may come at any
point of a login or a disconnect but not between their steps under the table's mutex.
`ShutdownGoesOn` is in terms of the guards of the actions (`StreamMayGo`, `ServerMayGo`)
and follows from `SessionsInv` alone: who is in the game after start_shutdown has a loop
that was cancelled or is leaving, and the table's mutex is taken by a flush at most, which
goes on.  The periodic flush does not count as going on, only the last one.

Seen and without a property: streams in the handshake are not kicked at a shutdown,
although mod.rs:118 says that it will kick all players off (`ServeReturns` allows for
the cut of such a stream); a first write_back that fails leaves an inventory that no
record names; finish_shutdown unwraps the result of the map before it comes to the
players, so that a failed map costs their last flush (`AwaitShutdown`).

### BlockTypes

A run loads the saved assignments with a placeholder for every index, registers
types in any order, saves and serves.  `stored` and `chunk` are one block with its id
and whether it has extended data, and (history) what was placed.  Instance: three
names, two variants, room for three types, three runs: enough to register a type,
leave it out of a run with its number reused or not, and register it again.  The
exception of `IdKeepsItsName` is `dropped`: a type whose plugin is missing in a run is
left out when the assignments are saved, so that its number may go to another.

Proof, for any plugins, variants, room and number of runs.  `TypesInv` ties the three
places of an assignment together: what is saved (`SavedFits`), the table by name and the
table by index of the run (`NamesFit`, `TypesFit`), and the ids that blocks use
(`BlocksFit`: a name that was not left out is saved with the number of the block, or
registered in this run).  The step that could break it is the load, which walks through
the saved pairs and fills the gaps; it rests on the lemmas about handles (`IndexOfHandle`,
`BaseIsInjective`) and on the greatest index of a set.

### Furnace

A tick is one step, under the mutex of the chunk.  Players take a stack from a slot into
a view that remembers the slot (`away`, the hands) and put it down in a slot, in an
inventory of theirs (`Keep`) or onto another view (`Join`); what a hand still holds when
its popup closes or its session ends is merged back into the slot it came from.  An
eviction writes what is marked and may load what was written.  `burnt`, `made`, `free`
and `heat` count what the furnace in memory has done.

| action | code |
|---|---|
| `Tick` (`Burn`, `NewInput`, `Smelt`, `Finish`) | FurnaceTimerCallback (furnace.rs:70-202) |
| `TryTakeOne`, `Yields` | MaybeStack::try_take_all, which takes nothing of a stack that is not stackable (items.rs:250-274) |
| `PutItem`, `TakeItem` | put and take of a view on a slot, which mark always (inventory.rs:804-825, 881-900) |
| `GiveBack` | clear_if_transient, which never marks (inventory.rs:522-580) |
| `Open`, `Dig`, `Place` | make_furnace_popup, furnace_dig_handler, a furnace placed anew |
| `Evict` | unload_chunk_locked and the load after it |

Three things the code does make the accounts of a furnace come out wrong, and all three
are in the model.  A return marks nothing, so that the next eviction loses it (the
violation of section 5, here for a furnace): `unmarked` counts what was returned since
the chunk was last marked, written with the mark, or loaded.  A call that fails, before
or after it has changed the slot, and a return that finds no room lose what they carry.
And an input that is not stackable is smelted and not consumed (furnace.rs:177 logs a
warning): its result is `free`; a fuel that is not stackable does not light.
`Conserved` says that these are all the ways there are: `lost` grows by just what they
say.  In particular the unmarked early returns of the callback (furnace.rs 157, 176,
191), a full output and a swap of the input halfway neither lose nor copy an item, also
over evictions; `EvictionUndoesLittle` bounds what the early returns cost in work.

Instance: a chain of two smelts of one and two ticks, two of the raw item and two coals;
the item in the middle does not stack, and is a fuel besides, so that it gets into the
input and the fuel slot and is not consumed there.  Evictions here always succeed and the
process is not killed: a failed put of the chunk or a kill sets the furnace back and not
what the players have, by as much as had changed.  `PartsView` lets TLC forget the furnace
in the database while the chunk is dirty.  That is sound: no step reads it then (the next
eviction writes it over), and of the invariants only `FurnaceInv` speaks of it, which held
of it as the one in memory when it was written, or in the beginning.

Proof, for any items, stackable or not, recipes, fuels and supplies.  `FurnaceInv` says
of the furnace in memory and of the one in the database that its flame and smelt are
paid for (`Paid`), that a smelt under way has a recipe (`SmeltFits`), that no slot holds
more than a stack, and, where the mark is missing, that the database lacks one finished
smelt at most, and none that was free (`UnmarkedIsLast`), and `unmarked` items
(`SavedCounts`).  With the last an eviction moves to `lost` just what memory has more
than the database.  The lemmas go over the fields of one furnace: what decrementing and
merging do to a slot, then what flame, input and finished smelt do to the furnace; what a
return does is proved from what merging leaves over.  `Conserved` counts items of all
kinds together, since a smelt makes one of another, and burnt fuel as still there.

### Connection

Every loop waits for room in its channel between deciding on a message and sending
it.  The stream closes when the network breaks or when the client drops its
receiving half.  Instance: channels of two, four numbered messages, any failure at
any time.  `NothingIsLeft` has two exceptions that the code has: a mesh worker that
fails ends the inbound loop of the client without cancelling the outbound one
(`MeshWorkerFails`), and an outbound loop whose own position or velocity is not finite
ends with an error that is only logged (`PositionFails`, client_context.rs:127 of the
client, mod.rs:149), so that the other three loops run on without it.  A server refuses
such a position too, without an acknowledgement; as the client's conversion comes first,
and before a number is taken, `HandleMessage` never meets one.

Proof, for any sizes of the channels and any number of messages.  `ConnectionInv` follows
the numbers of the messages through both channels and both processes: a number on its
way is one that the client waits for (`NumbersFit`), is on its way once, the older the
further (`InOrder`), that of the last position is a position, which gets an answer if it is handled
(`PositionsFit`), and the message that starts the server's loops has none
(`ReadyComesFirst`).  `NothingIsLeft` writes the guards of the loops out
(`ClientEndMayGo`, `ServerEndMayGo`); its proof adds `EndsFit`: what a loop has in hand it
has while it is up, and a loop that has ended otherwise than by crashing has closed the
stream, cancelled the token of its end or told the other loop.  The channels must have room for one message
(`ConnectionAssumption`), as tokio's must.

### LockSteps, ClientThreads, ServerLocks

A thread is the sequence of steps it still has to do; a step takes or releases a
lock or works on the chunks under it.  parking_lot's `read` waits for a writer that
waits, `read_recursive` does not; mutexes are not reentrant.  A thread whose next step
takes a lock may not have called for it yet, so that a reader may still come before a
writer; `WaitsFor` says whom it waits for once it has.  `NoCircle` says that in every set of
threads one waits for nobody of that set: no circle, whoever has called for a lock by then.

`ClientThreads` writes each function of the client as the locks it takes in order
(`Frame`, `InboundHandleMessage`, `MeshChunk`, ...).  The outbound loop never holds one lock
while it takes another, so that it is in no circle, and is left out.  `MCThreads` has
it twice: with all threads and one chunk for the locks, with the inbound loop and the worker
and two neighbouring chunks for the meshes.  A mesh is drafted and stored in two
steps; the thread that stores last wins, which is the race of chunk.rs:182 and the
exception of `MeshIsCurrent` (`overtaken`): the property does not catch that race, it says
that no chunk is forgotten besides.  The order of the chunks in the queue (by
distance) is left open; batches are unbounded because `MESH_BATCH_SIZE` is given to
`shrink_to`.

`ServerLocks` does the same for the server: the table of players, the state of a
player, the mutex of the inventories, the table of live chunks, a chunk, with every
combination of views, cached and uncached chunks.  The comment at inventory.rs:172
speaks of a massive deadlock: with the handlers of the default game it is not there;
a handler that takes the inventories or a player out of order would bring it, which is
what the mutant of `NoTaskCycle` does.  Left
out are the locks of single views, leaf locks, and waiting on the full write-back
queue (section 3).  Instance: two threads that serve players, one that runs the
map's own tasks, two players, one chunk.

Proofs (`LockProofs`).  A program is a sequence of steps; `Leads(D, p, m, n)` says that
`p` goes from `m` to `n` by moves of `D`, which are steps with what a thread has before
and after them.  The lemmas about it say that programs may be put together, also one for
each member of a set (`EachOf` flattens a sequence of them), and that what is left after
the first step leads on from there.  The invariants are about programs: what a thread
still has to do leads from the locks it has now to none.  That every program of the code
does so is shown once, by lemmas on the pieces that handlers are made of; what is to be
known of a thread that is at some step is then read off the moves.

`NoTaskCycle`, for any threads, players and chunks.  The locks have ranks: the table of
players, a player, the inventories, the table of live chunks, a chunk (and the leaf
`last_accessed`).  A move takes only a lock of higher rank than all that the thread has,
or gives one back.  In a set of waiting threads take one whose lock has the greatest
rank: who has that lock waits for none of the set, as it could only wait for a lock of
higher rank.  So the thread waits for nobody of the set, or it wants to read and a writer
waits before it; then it is the writer who waits for nobody of the set.  Nobody reads
live_chunks while he reads it already, so that a waiting writer never holds up a reader
whom it waits for.

`NoLockCycle`, for any chunks and neighbourhoods.  The order of the server is not there:
drawing the hud takes `input` under `hud`, next_frame takes `egui` under `input`, and the
inbound loop takes `hud` under `egui`.  But `input`, `physics` and `tool_controller` are held across another
lock by the window thread alone (`Own`): it never waits for them, and the others ask for
them with no other lock in hand.  Without those three there are ranks (`ClientRank`).
What is left out of the order is the guard of a chunk that is taken again, or beside that
of a neighbour, while a chunk is meshed.  Whoever does that writes no chunk
(`TakesAgain`), so that it waits for the inbound loop alone, the only one that writes; and
a guard that the thread has itself is taken with read_recursive, which no waiting writer
holds up.  `HighestIsNotWaiting` puts it together as at the server.

`MeshIsCurrent`, for any number of changes too.  The moves also say what work a thread
owes: the chunks it is to queue and to mesh, the chunk of its draft, one that it has
dropped and has to take out of the queue, one that it may change.  The invariant
`ClientInv` says that some `g` gives every thread such a work, that each may go on to the
end with it (`MayGoOn`), and that with it nothing is forgotten (`ChunksOK`): a subscribed
chunk looks as it is, or it is in the queue, or a thread owes it a mesh or has a draft of it as it
is now (`Pending`).  That alone is not kept: an older draft may replace a newer mesh.  So
`StaleOK` follows the drafts that are out of date: where one is, the mesh of the
chunk is the newest, so that storing the draft is what `overtaken` counts, or another thread owes
a mesh, or has the newest draft.  A change needs the table of chunks and leaves all
that it affects owed in the same step; a chunk that comes needs the table for writing,
while every draft is made by a thread that reads it (`DueOK`).  Once the queue
is empty, the inbound loop is between messages and no mesh is before the worker, nobody
owes anything, and `Pending` is the property.  TLC checks what follows from `ClientInv`
and not `ClientInv` itself, which says of some run of some program that it exists.

### Tools, Hotbar

`Tools` follows the buttons (`down`, `presses`, `releases`), the blocks before the
player (`ray`, `kind`), the item and `dig_progress`, frame by frame; time is counted
in frames.  Instance: two blocks of two kinds, the hand, a pick and a wand whose
rules have all ways of digging but one, two units of work.  `owed` and `spell`
remember presses and frames.  A dig key that is let go counts as a release also if a
window has made the client forget that it was down (`Release`).  `Hotbar` has the slot, the picture, the tool and the
view with the window thread and the inbound loop between their locks.  Instance:
two slots, one item.  The exception of `HotbarFits` is `crossed`: a frame that reads
the view while an update is between the display and the view; the picture then stays
wrong until the next update, which the property leaves out.
`HotbarInv` says who is behind at each point of the two threads and that there an update
is under way (`NobodyIsBehind`); it is proved for any number of slots.

`ToolsInv`, proved for any items, rules, blocks and rays: what was pressed and not answered
is owed, progress belongs to the target as it has been since `spell` began and took its
frames, and what was dug by time is locked.

Seen and without a property: a press with no target is answered when one comes; the
walk of the ray gives the block before the target, which need not be its neighbour
where a chunk is missing; a block whose first matching rule has no way of digging is
selectable through a later one and then never dug, tapped, placed on or interacted
with, although items.proto:58 speaks of blocks that are not even selectable; after
login the tool holds the bare hand until the first update or scroll; next_frame drops
an action when its channel is full (here it counts as sent); and an item that digs
instantly digs whatever it is turned to with no button held (`NewTarget`,
tool_controller.rs:105), although items.proto:60 says of it "as long as the mouse is
held down".

### Physics

Lengths are integers, 400 to a block; the epsilon of the code is one of them, and a
move of exactly that counts as none.  `ClampLoop` goes towards the target in steps of
20, axis by axis; `Bump` steps up, on and down again.  A frame may aim at any of a few
distances of its mode: speeds, gravity, fluids and angles are left out, and the height
of a bump in mid-air is either of its two values.  The loop is cut off after `MaxSteps`
rounds, more than any way of the instance takes.  Instance: a room of three by four by
two blocks with a wall or with furniture, strides of half a block on foot and of
nearly two blocks in flight, two frames.

Proof, for any blocks, worlds and strides, but those on foot that are longer to a side
than a player is thick (300; at walking speed a frame of a quarter of a second).  Along an
axis a player covers the blocks from `Low` to `High`.  A clamp leaves him just above the
highest boundary it met or just below the lowest, so that the blocks it is told of are
out of what he covers, and what he covers has moved on along the way and no further than
it was to (`ClampDown`, `ClampUp`, `ClampIs`).  He may come to stand the epsilon behind
where he was, but only if that was on the boundary of a block, where it makes no
difference to what he covers.  `Goes` is what a way of such clamps, each along one axis,
has in common with one of them: it covers nothing that collides anew and, where all but
one axis see the same blocks at both ends, leaves none out between.  Such ways can be
joined (`GoesOn`), so that any number of short steps makes one (`ClampLoopGoes`, by the
induction of `CountingLemmas`).  `Bump` clamps once along two axes, and a frame in which
it got anywhere has moved to a side, no further than a player is thick, and leaves no
room for a block between (`NoGap`).  On foot the bound matters: a clamp over more than
that may go past a block it does not look at, and a single frame of more than a block may
pass a wall; the code's own todo is to handle long deltas (physics.rs:168).

### Coordinates

The coordinates of a block, its chunk and its index as it goes from neighbour to
neighbour.  Instance: two chunks along each axis, from the smallest number to the
largest; 2^27 times as many change neither the remainders nor the ends.

## 7. Model-checked only

- Liveness (`CallsReturn`, `ChangeIsSaved`, `ShutdownEnds`, `NearChunksArrive`): the
  prover does not support it, nor ENABLED, for which the properties about standstills
  write the guards out; that the two agree is checked (`MapOK`, `PartsOK`).
- That a loop of short steps is over within its bound (`LoopsEnd`, in `PartsOK`): how
  many steps a way takes depends on the way.  `BodyStaysOut` holds for any bound.
- The violations: a counterexample is all there is to say.

## 8. Not modelled

- Media: read-only files loaded at start.
- Rendering on the GPU, layout of the user interface, the main menu.
- The OPAQUE exchanges of authentication (a library), login on the client's side.
- The noise of the map generator; the bytes of the chunk format; the storage engine.
- The choice of MapCacheCleanup by age: any entries that its limits allow may go
  (game_map.rs:1198: a cache of young entries is not bounded).
- InlineUnlocked timer callbacks (game_map.rs:1596), which run with the mutex of their
  chunk held and would wait for themselves if they called the map; the default game
  has none.
- Chat, permissions, buttons and text fields of popups, the virtual input view
  (`todo!()`), mutate_inventories_atomically (nothing calls it), handlers of games.
