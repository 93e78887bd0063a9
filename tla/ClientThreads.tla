---------------------------- MODULE ClientThreads ----------------------------
(***************************************************************************)
(* The threads of the client and the locks of ClientState: the window      *)
(* thread with its frames, the task of the inbound message loop, the mesh  *)
(* worker; and what the last two do to the chunks under those locks        *)
(* (game_state/mod.rs, chunk.rs, physics.rs, tool_controller.rs, hud.rs,   *)
(* egui_ui.rs, net_client/client_context.rs, mesh_worker.rs).  The         *)
(* outbound loop never holds a lock while it takes another, so that it is  *)
(* in no circle, and is left out.                                          *)
(*                                                                         *)
(* A thread takes and releases the locks (LockSteps) and works on the      *)
(* chunks in between.  A chunk's contents are the number of the change     *)
(* that made them.                                                         *)
(***************************************************************************)
EXTENDS LockSteps

CONSTANTS ClientChunks,  \* a chunk is the name of its lock, ClientChunk::block_ids
          Absent,        \* of a chunk that is not in the table, and of a mesh that is not there
          Near,          \* the neighbours of each chunk
          MaxChanges     \* bound: changes of one chunk

VARIABLES ids,      \* ClientChunk::block_ids of the chunks in the table: the last change
          mesh,     \* cached_vertex_data: the contents of the chunk and its neighbours it shows
          draft,    \* a mesh that a thread is making
          queue,    \* MeshWorker::queue
          overtaken \* (history) chunks whose newer mesh was replaced by an older one

chunkVars == <<ids, mesh, draft, queue, overtaken>>
threadsVars == <<lockVars, chunkVars>>

ClientMutexes == {"input", "egui", "hud", "inventories", "tool_controller", "physics", "queue"}
ClientTables == {"chunks"} \cup ClientChunks   \* ChunkManager::chunks, and block_ids of each chunk

\* The threads, finitely many chunks, who are each other's neighbours, and names for their
\* locks; what is absent is no chunk, no contents and no mesh.
ASSUME ClientThreadsAssumption ==
  /\ {"inbound", "worker"} \subseteq Threads /\ Threads \subseteq {"window", "inbound", "worker"}
  /\ IsFiniteSet(ClientChunks) /\ Near \in [ClientChunks -> SUBSET ClientChunks]
  /\ \A c \in ClientChunks : c \notin Near[c] /\ \A n \in Near[c] : c \in Near[n]
  /\ ClientChunks \cap (ClientMutexes \cup {"chunks"}) = {}
  /\ MaxChanges \in Nat /\ Absent \notin ClientChunks \cup Nat
  /\ \A c \in ClientChunks : Absent \notin [{c} \cup Near[c] -> Nat \cup {Absent}]
-----------------------------------------------------------------------------
(* The window thread: an event, then a frame.                              *)

\* ClientState::window_event, EguiAdapter::window_event
Event == Use("egui") \o Use("input")

\* get_block, compute_pointee: ClientChunk::get under the lock of the table
LookAtBlocks == Reading("chunks", EachOf(ClientChunks, Look))

\* PhysicsState::update_and_get
UpdateAndGet == Hold("input", LookAtBlocks)

\* ToolController::update: compute_pointee, then the buttons
UpdateTool == Use("physics") \o LookAtBlocks \o Use("input")

\* ClientState::next_frame
NextFrame ==
  Hold("input", Use("egui") \o Use("egui"))
    \o Hold("physics", UpdateAndGet) \o Hold("tool_controller", UpdateTool)

\* GameHud::set_slot
SetSlot == Use("inventories") \o Use("tool_controller")

\* GameHud::update_and_render
UpdateAndRender == Use("input") \o Use("inventories") \o SetSlot \o Use("inventories")

\* EguiAdapter::draw: the views of the popups, the carried stack
DrawEgui == Hold("egui", Use("inventories") \o Use("inventories"))

\* build_command_buffers
Frame == NextFrame \o Look("chunks") \o Hold("hud", UpdateAndRender) \o DrawEgui
-----------------------------------------------------------------------------
(* The loops and the worker.                                               *)

\* Mutant of MeshChunk: the guards of the chunk's own ids are those of RwLock::read.
MeshChunkPlain(c) ==
  Step("mesh", c)
    \o Reading(c, Reading(c, EachOf(Near[c], Look)))
    \o Step("store", c)

\* mesh_chunk: block by block, with a guard of the chunk's ids inside another, and the
\* neighbours'; the mesh is stored at the end.
MeshChunk(c) ==
  Step("mesh", c)
    \o ReadingAgain(c, ReadingAgain(c, EachOf(Near[c], Look)))
    \o Step("store", c)

\* ClientChunk::update_from, apply_delta
SetBlocks(c) == Writing(c, Step("set", c))

\* Mutant of HandleMapChunk: the chunks are queued before the table has the new one.
QueuedFirst(c) ==
  EachOf({c} \cup Near[c], LAMBDA n : Hold("queue", Step("enqueue", n)))
    \o Writing("chunks", SetBlocks(c))

\* handle_mapchunk: the chunk and its neighbours, one at a time, after the table is free
HandleMapChunk(c) ==
  Writing("chunks", SetBlocks(c))
    \o EachOf({c} \cup Near[c], LAMBDA n : Hold("queue", Step("enqueue", n)))

\* handle_unsubscribe
HandleUnsubscribe(c) == Writing("chunks", Step("remove", c)) \o Hold("queue", Step("dequeue", c))

\* map_delta_update_sync, with a change at the border of the chunk
HandleDelta(c) == Reading("chunks", SetBlocks(c) \o EachOf({c} \cup Near[c], MeshChunk))

\* handle_inventory_update, of the hotbar's view or another
HandleInventoryUpdate(own) ==
  IF own THEN Use("hud") \o Use("tool_controller") \o Use("inventories")
  ELSE Hold("hud", Use("inventories"))

\* handle_client_state_update
HandleClientStateUpdate == Use("physics") \o Hold("egui", Use("hud"))

\* InboundContext::handle_message; a popup is shown at once.
InboundHandleMessage ==
  {HandleMapChunk(c) : c \in {c \in ClientChunks : ids[c] # MaxChanges}}
    \cup {HandleUnsubscribe(c) : c \in {c \in ClientChunks : ids[c] # Absent}}
    \cup {HandleDelta(c) : c \in {c \in ClientChunks : ids[c] \in 0 .. MaxChanges - 1}}
    \cup {HandleInventoryUpdate(own) : own \in BOOLEAN} \cup {HandleClientStateUpdate, Use("egui")}

\* run_mesh_worker: the whole queue is taken, the position looked at before that.
WorkerTakes == Use("physics") \o Hold("queue", Step("take", "queue"))
WorkerMeshes(S) == EachOf(S, LAMBDA c : Reading("chunks", MeshChunk(c)))
-----------------------------------------------------------------------------
\* What is done to a chunk between the steps of the locks.
WorkOps == {"set", "remove", "enqueue", "dequeue", "take", "mesh", "store"}

ChunkContents == 0 .. MaxChanges
ChunkMeshes(c) == [{c} \cup Near[c] -> ChunkContents \cup {Absent}]

\* The type invariant: a lock is read or written, and what is queued or drawn has a form.
ThreadsTypeOK ==
  /\ LocksOK(LockOps \cup WorkOps, ClientMutexes, ClientTables)
  /\ ids \in [ClientChunks -> ChunkContents \cup {Absent}]
  /\ mesh \in [ClientChunks -> (UNION {ChunkMeshes(c) : c \in ClientChunks}) \cup {Absent}]
  /\ \A c \in ClientChunks : mesh[c] \in ChunkMeshes(c) \cup {Absent}
  /\ draft \in [Threads -> (UNION {ChunkMeshes(c) : c \in ClientChunks}) \cup {Absent}]
  /\ queue \subseteq ClientChunks /\ overtaken \subseteq ClientChunks

NoChunks ==
  /\ ids = [c \in ClientChunks |-> Absent] /\ mesh = [c \in ClientChunks |-> Absent]
  /\ draft = [t \in Threads |-> Absent]
  /\ queue = {} /\ overtaken = {}

ThreadsInit == LocksFree(ClientMutexes, ClientTables) /\ NoChunks

Programs(t) ==
  CASE t = "window" -> {Event \o Frame}
    [] t = "inbound" -> InboundHandleMessage
    [] t = "worker" -> {WorkerTakes}

Begin(t) == Starts(t, Programs(t)) /\ UNCHANGED chunkVars
Locking(t) ==
  /\ Pass(t) \/ Lock(t) \/ Unlock(t) \/ Read(t) \/ Unread(t) \/ Write(t)
  /\ UNCHANGED chunkVars
-----------------------------------------------------------------------------
(* Work on the chunks.                                                     *)

\* What a mesh of c made now shows of c and its neighbours.
Shows(c) == [n \in {c} \cup Near[c] |-> ids[n]]

Set(t) ==
  /\ Now(t, "set") /\ Moves(t)
  /\ ids' = [ids EXCEPT ![On(t)] = IF @ = Absent THEN 0 ELSE @ + 1]
  /\ UNCHANGED <<holder, readers, mesh, draft, queue, overtaken>>

Unsubscribe(t) ==
  /\ Now(t, "remove") /\ Moves(t)
  /\ ids' = [ids EXCEPT ![On(t)] = Absent] /\ mesh' = [mesh EXCEPT ![On(t)] = Absent]
  /\ overtaken' = overtaken \ {On(t)}
  /\ UNCHANGED <<holder, readers, draft, queue>>

Queue(t) ==
  /\ \/ Now(t, "enqueue") /\ queue' = queue \cup {On(t)}
     \/ Now(t, "dequeue") /\ queue' = queue \ {On(t)}
  /\ Moves(t)
  /\ UNCHANGED <<holder, readers, ids, mesh, draft, overtaken>>

Take(t) ==
  /\ Now(t, "take")
  /\ todo' = [todo EXCEPT ![t] = Tail(@) \o WorkerMeshes(queue)]
  /\ queue' = {}
  /\ UNCHANGED <<holder, readers, ids, mesh, draft, overtaken>>

Mesh(t) ==
  /\ Now(t, "mesh") /\ Moves(t)
  /\ draft' = [draft EXCEPT ![t] = Shows(On(t))]
  /\ UNCHANGED <<holder, readers, ids, mesh, queue, overtaken>>

\* Only into a chunk of the table (maybe_mesh_chunk, mesh_chunk); the last one to store wins.
Store(t) ==
  /\ Now(t, "store") /\ Moves(t)
  /\ draft' = [draft EXCEPT ![t] = Absent]
  /\ IF ids[On(t)] = Absent THEN UNCHANGED <<mesh, overtaken>>
     ELSE /\ mesh' = [mesh EXCEPT ![On(t)] = draft[t]]
          /\ overtaken' = IF draft[t] = Shows(On(t)) THEN overtaken \ {On(t)}
                          ELSE IF mesh[On(t)] = Shows(On(t)) THEN overtaken \cup {On(t)}
                          ELSE overtaken
  /\ UNCHANGED <<holder, readers, ids, queue>>
-----------------------------------------------------------------------------
ThreadsNext ==
  \E t \in Threads :
    \/ Begin(t) \/ Locking(t)
    \/ Set(t) \/ Unsubscribe(t) \/ Queue(t) \/ Take(t) \/ Mesh(t) \/ Store(t)

ThreadsSpec == ThreadsInit /\ [][ThreadsNext]_threadsVars
-----------------------------------------------------------------------------
\* The threads of the client never wait for each other in a circle, nor one for itself:
\* not over the mutexes that are taken in both orders (egui before hud, and from hud to
\* egui by way of input), not over the guards of a chunk's ids that are taken twice
\* while the inbound loop waits to change them.
NoLockCycle == NoCircle

\* Once the queue is empty and nobody is meshing, every chunk looks as it is, up to the
\* border with its neighbours, whatever was subscribed, changed and dropped meanwhile;
\* but for a chunk whose newer mesh was overtaken by an older one that took longer.
Settled ==
  /\ queue = {} /\ todo["inbound"] = <<>>
  /\ \A i \in DOMAIN todo["worker"] : todo["worker"][i].op \notin {"mesh", "store"}
MeshIsCurrent ==
  Settled => \A c \in ClientChunks : ids[c] # Absent /\ c \notin overtaken =>
               /\ mesh[c] # Absent
               /\ \A n \in DOMAIN Shows(c) : ids[n] # Absent => mesh[c][n] = ids[n]
=============================================================================
