------------------------------ MODULE GameMap ------------------------------
(***************************************************************************)
(* ServerGameMap (cuberef_server/src/game_state/game_map.rs): a write-back *)
(* cache of map chunks over the game database.                             *)
(*                                                                         *)
(* Threads of the game call get_block, set_block, compare_and_set_block    *)
(* and mutate_block_atomically; the shards of the map timers mutate the    *)
(* chunks that are in memory; the writeback task saves the chunks whose    *)
(* coordinates are sent to it over a bounded channel; the cleanup task     *)
(* evicts chunks; finish_shutdown stops both tasks and flushes.            *)
(*                                                                         *)
(* Locks are not variables: who holds one follows from where each thread   *)
(* is.  A thread is a reader of live_chunks from the moment get_chunk      *)
(* returns a guard (or downgrades its write lock) until its operation      *)
(* ends, and owns the mutex of its chunk while it is in Critical.  A       *)
(* writer first claims live_chunks, which stops new readers, and then      *)
(* waits for the readers that are inside (parking_lot's RwLock).           *)
(***************************************************************************)
EXTENDS Integers, Sequences, FiniteSets

CONSTANTS
  Chunks,          \* chunk coordinates
  Users,           \* threads that call the map
  Shards,          \* shards of the map timers, a thread each
  Vals,            \* contents a chunk can have
  NoVal,           \* no content
  Gen,             \* Gen[c]: what the map generator makes of chunk c
  Kinds,           \* the operations the threads perform
  QueueSize,       \* WRITEBACK_QUEUE_SIZE
  KeepRecent,      \* CACHE_CLEANUP_KEEP_N_RECENTLY_USED
  EvictAtOnce,     \* CACHE_CLEANUP_RELOCK_EVERY_N
  MayCrash,        \* TRUE if the process may be killed and restarted
  Drained,         \* TRUE if no caller is left when finish_shutdown begins
  Faults           \* which of the map's calls may fail: "put", "load"

ASSUME GameMapAssumption ==
  /\ Gen \in [Chunks -> Vals]
  /\ NoVal \notin Vals
  /\ NoVal \notin Chunks
  /\ Users \cap Shards = {}
  /\ Kinds \subseteq {"read", "set", "cas", "mutate"}
  /\ QueueSize \in Nat \ {0}
  /\ KeepRecent \in Nat
  /\ EvictAtOnce \in Nat
  /\ MayCrash \in BOOLEAN
  /\ Drained \in BOOLEAN
  /\ Faults \subseteq {"put", "load"}

Threads == Users \cup Shards

VARIABLES
  live,            \* live[c]: the MapChunkHolder of c, if live_chunks has one
  db,              \* db[c]: the stored chunk, NoVal if there is none
  pc, job,         \* per thread: where it is, and the call it is making
  observed,        \* observed[t]: the content the last call of t saw
  announced,       \* announced[c]: the content after the last block update sent
  queue,           \* the writeback channel
  wb, batch,       \* the writeback task and the requests it has gathered
  cleanup,         \* the cleanup task
  unloading,       \* chunks the writer has yet to unload
  cancelled,       \* the shutdown CancellationToken
  phase            \* finish_shutdown

userVars == <<pc, job, observed>>
wbVars == <<wb, batch>>
stopVars == <<cleanup, unloading, phase>>
vars == <<live, db, pc, job, observed, announced, queue, wb, batch,
          cleanup, unloading, cancelled, phase>>

-----------------------------------------------------------------------------
\* The entry of live_chunks for a chunk: HolderState and the MapChunk in it.
Holder == [state : {"absent", "empty", "err", "ok"},
           val : Vals \cup {NoVal}, dirty : BOOLEAN]
Absent == [state |-> "absent", val |-> NoVal, dirty |-> FALSE]
EmptyHolder == [state |-> "empty", val |-> NoVal, dirty |-> FALSE]
ErrHolder == [state |-> "err", val |-> NoVal, dirty |-> FALSE]
Loaded(v, d) == [state |-> "ok", val |-> v, dirty |-> d]

IsLive(c) == live[c].state # "absent"
IsOk(c) == live[c].state = "ok"

\* A call in progress: its arguments, then the chunk get_chunk has loaded for it.
Job == [kind : {"read", "set", "cas", "mutate", "tick", "none"},
        chunk : Chunks \cup {NoVal},
        expect : Vals \cup {NoVal}, val : Vals \cup {NoVal},
        got : Vals \cup {NoVal}, fresh : BOOLEAN]
NewJob(k, c, e, v) == [kind |-> k, chunk |-> c, expect |-> e, val |-> v,
                       got |-> NoVal, fresh |-> FALSE]
NoJob == NewJob("none", NoVal, NoVal, NoVal)

\* get_chunk fills the holder it inserted; then the caller works on the chunk.
Loading == {"load", "genCheck", "genSend", "fill", "setErr"}
\* Mutant of Critical: the mutex is released before the update is broadcast.
CriticalNoBcast == {"check", "send"}

Critical == {"check", "send", "bcast"}
\* Mutants of ReadLocked: get_chunk loads without the lock; it upgrades its
\* read lock instead of giving it up first.
ReadLockedNotLoading == {"wait", "scan"} \cup Critical
ReadLockedUpgrading == Loading \cup {"wait", "scan", "upgrade"} \cup Critical

ReadLocked == Loading \cup {"wait", "scan"} \cup Critical

Chunk(t) == job[t].chunk
MutexFree(c) == \A t \in Threads : ~(pc[t] \in Critical /\ Chunk(t) = c)

\* Who is inside live_chunks, who has claimed it for writing, who writes.
HasReaders == wb = "write" \/ \E t \in Threads : pc[t] \in ReadLocked
Claimed == \/ cleanup \in {"drain", "unload"}
           \/ phase \in {"drain", "unload"}
           \/ \E t \in Threads : pc[t] = "drain"
WriteLocked == cleanup = "unload" \/ phase = "unload"

\* The receiver lives in the writeback task and is dropped with it.
ReceiverGone == wb \in {"done", "dead"}

\* What the database (or, if it has nothing, the map generator) says of c.
Stored(c) == IF db[c] = NoVal THEN Gen[c] ELSE db[c]

-----------------------------------------------------------------------------
Init ==
  /\ live = [c \in Chunks |-> Absent]
  /\ db = [c \in Chunks |-> NoVal]
  /\ pc = [t \in Threads |-> "idle"]
  /\ job = [t \in Threads |-> NoJob]
  /\ observed = [t \in Threads |-> NoVal]
  /\ announced = Gen
  /\ queue = <<>>
  /\ wb = "gather"
  /\ batch = {}
  /\ cleanup = "idle"
  /\ unloading = {}
  /\ cancelled = FALSE
  /\ phase = "running"

Goto(t, l) == pc' = [pc EXCEPT ![t] = l]

Leave(t, l) == /\ Goto(t, l)
               /\ job' = [job EXCEPT ![t] = NoJob]

\* The call is over and its guards are dropped.  A shard that is done with a
\* chunk gives up the mutex and keeps its read lock for the next one.
Return(t) == Leave(t, IF t \in Shards THEN "scan" ELSE "idle")

\* An error: a caller gets it as a result, a timer shard ends with it.
GiveUp(t) == Leave(t, IF t \in Shards THEN "ended" ELSE "idle")

-----------------------------------------------------------------------------
(* get_chunk *)

Call(u, k, c, e, v) ==
  /\ pc[u] = "idle"
  /\ IF Drained THEN phase = "running" ELSE phase \notin {"down", "failed"}
  /\ Goto(u, "get")
  /\ job' = [job EXCEPT ![u] = NewJob(k, c, e, v)]
  /\ UNCHANGED <<live, db, observed, announced, queue, wbVars, stopVars, cancelled>>

\* do_tick visits a chunk that was in memory a moment ago; its callbacks will
\* leave v.  It takes the read lock for the first chunk and keeps it for those
\* that follow; it goes on, and may start once more, after the cancellation.
Tick(s, c, v) ==
  /\ phase \notin {"down", "failed"}
  /\ \/ pc[s] = "idle" /\ Goto(s, "get")
     \/ pc[s] = "scan" /\ IsLive(c) /\ Goto(s, "wait")
  /\ job' = [job EXCEPT ![s] = NewJob("tick", c, NoVal, v)]
  /\ UNCHANGED <<live, db, observed, announced, queue, wbVars, stopVars, cancelled>>

\* The end of do_tick, or RwLockReadGuard::bump, which lets waiting writers in.
TickEnds(s) ==
  /\ pc[s] = "scan"
  /\ Goto(s, "idle")
  /\ UNCHANGED <<live, db, job, observed, announced, queue, wbVars, stopVars, cancelled>>

ShardExit(s) ==
  /\ pc[s] = "idle"
  /\ cancelled
  /\ Goto(s, "ended")
  /\ UNCHANGED <<live, db, job, observed, announced, queue, wbVars, stopVars, cancelled>>

\* Under the read lock: an entry that is there is all get_chunk needs, and
\* do_tick wants no other.
GetChunk(t) ==
  /\ pc[t] = "get"
  /\ ~Claimed
  /\ \/ IsLive(Chunk(t)) /\ Goto(t, "wait") /\ UNCHANGED job
     \/ ~IsLive(Chunk(t)) /\ t \in Users /\ Goto(t, "upgrade") /\ UNCHANGED job
     \/ ~IsLive(Chunk(t)) /\ t \in Shards /\ Return(t)
  /\ UNCHANGED <<live, db, observed, announced, queue, wbVars, stopVars, cancelled>>

ClaimToInsert(u) ==
  /\ pc[u] = "upgrade"
  /\ ~Claimed
  /\ Goto(u, "drain")
  /\ UNCHANGED <<live, db, job, observed, announced, queue, wbVars, stopVars, cancelled>>

\* Mutant of InsertHolder: if another thread was faster, it goes for the write
\* lock again.
InsertHolderAgain(u) ==
  /\ pc[u] = "drain"
  /\ ~HasReaders
  /\ IF IsLive(Chunk(u))
       THEN Goto(u, "upgrade") /\ UNCHANGED live
       ELSE Goto(u, "load") /\ live' = [live EXCEPT ![Chunk(u)] = EmptyHolder]
  /\ UNCHANGED <<db, job, observed, announced, queue, wbVars, stopVars, cancelled>>

\* Under the write lock: try again if another thread was faster, else insert
\* an empty holder and keep the lock as a reader.
InsertHolder(u) ==
  /\ pc[u] = "drain"
  /\ ~HasReaders
  /\ IF IsLive(Chunk(u))
       THEN Goto(u, "get") /\ UNCHANGED live
       ELSE Goto(u, "load") /\ live' = [live EXCEPT ![Chunk(u)] = EmptyHolder]
  /\ UNCHANGED <<db, job, observed, announced, queue, wbVars, stopVars, cancelled>>

\* Mutant of Load: a stored chunk that cannot be read is generated anew.
LoadOrRegenerate(u) ==
  /\ pc[u] = "load"
  /\ LET c == Chunk(u) fresh == db[c] = NoVal IN
       \/ /\ Goto(u, IF fresh THEN "genCheck" ELSE "fill")
          /\ job' = [job EXCEPT ![u].got = Stored(c), ![u].fresh = fresh]
       \/ /\ "load" \in Faults
          /\ Goto(u, "genCheck")
          /\ job' = [job EXCEPT ![u].got = Gen[c], ![u].fresh = TRUE]
  /\ UNCHANGED <<live, db, observed, announced, queue, wbVars, stopVars, cancelled>>

\* load_uncached_or_generate_chunk: the stored chunk if there is one, else a
\* generated one, dirty and to be written back; either may fail.
Load(u) ==
  /\ pc[u] = "load"
  /\ LET c == Chunk(u) fresh == db[c] = NoVal IN
       \/ /\ Goto(u, IF fresh THEN "genCheck" ELSE "fill")
          /\ job' = [job EXCEPT ![u].got = Stored(c), ![u].fresh = fresh]
       \/ /\ "load" \in Faults
          /\ Goto(u, "setErr")
          /\ UNCHANGED job
  /\ UNCHANGED <<live, db, observed, announced, queue, wbVars, stopVars, cancelled>>

\* MapChunkHolder::fill asserts that the holder is empty, see FillsEmptyHolder.
Fill(u) ==
  /\ pc[u] = "fill"
  /\ live' = [live EXCEPT ![Chunk(u)] = Loaded(job[u].got, job[u].fresh)]
  /\ Goto(u, "wait")
  /\ UNCHANGED <<db, job, observed, announced, queue, wbVars, stopVars, cancelled>>

\* Mutant of SetErr: the error is returned but the holder is left as it is.
SetErrForgotten(u) ==
  /\ pc[u] = "setErr"
  /\ Return(u)
  /\ UNCHANGED <<live, db, observed, announced, queue, wbVars, stopVars, cancelled>>

SetErr(u) ==
  /\ pc[u] = "setErr"
  /\ live' = [live EXCEPT ![Chunk(u)] = ErrHolder]
  /\ Return(u)
  /\ UNCHANGED <<db, observed, announced, queue, wbVars, stopVars, cancelled>>

-----------------------------------------------------------------------------
(* wait_and_get and try_get, and what each operation does once it has the   *)
(* mutex.  An empty holder keeps the callers of wait_and_get on the         *)
(* condition variable; a timer passes over it.                              *)

ChunkFailed(t) ==
  /\ pc[t] = "wait"
  /\ live[Chunk(t)].state = "err"
  /\ GiveUp(t)
  /\ UNCHANGED <<live, db, observed, announced, queue, wbVars, stopVars, cancelled>>

TickSkips(s) ==
  /\ s \in Shards
  /\ pc[s] = "wait"
  /\ live[Chunk(s)].state = "empty"
  /\ Return(s)
  /\ UNCHANGED <<live, db, observed, announced, queue, wbVars, stopVars, cancelled>>

\* t owns the mutex of its loaded chunk and has seen what is in it.
Lock(t, kinds) ==
  /\ pc[t] = "wait"
  /\ job[t].kind \in kinds
  /\ IsOk(Chunk(t))
  /\ MutexFree(Chunk(t))
  /\ observed' = [observed EXCEPT ![t] = live[Chunk(t)].val]
  /\ UNCHANGED <<db, queue, wbVars, stopVars, cancelled>>

\* get_block and its variants, and any call that fails before it changes a block.
GetBlock(u) ==
  /\ Lock(u, {"read"})
  /\ Return(u)
  /\ UNCHANGED <<live, announced>>

SetBlock(u) ==
  /\ Lock(u, {"set"})
  /\ live' = [live EXCEPT ![Chunk(u)] = Loaded(job[u].val, TRUE)]
  /\ Goto(u, "check")
  /\ UNCHANGED <<job, announced>>

CompareAndSet(u) ==
  /\ Lock(u, {"cas"})
  /\ IF live[Chunk(u)].val = job[u].expect
       THEN /\ live' = [live EXCEPT ![Chunk(u)] = Loaded(job[u].val, TRUE)]
            /\ Goto(u, "check")
            /\ UNCHANGED job
       ELSE Return(u) /\ UNCHANGED live
  /\ UNCHANGED announced

\* Mutant of MutateBlock: only set_dirty makes the chunk dirty.
MutateBlockNotDirty(t) ==
  /\ Lock(t, {"mutate", "tick"})
  /\ \E touched \in BOOLEAN :
       LET old == live[Chunk(t)]
           new == Loaded(job[t].val, old.dirty \/ touched)
       IN /\ live' = [live EXCEPT ![Chunk(t)] = new]
          /\ IF new.dirty THEN Goto(t, "check") /\ UNCHANGED job ELSE Return(t)
          /\ announced' = IF new.val = old.val THEN announced
                          ELSE [announced EXCEPT ![Chunk(t)] = new.val]

\* The mutator, or a timer's callbacks, leave val; touched: set_dirty was
\* called.  The update is sent before the writeback request, which a chunk
\* that was dirty before gets too.
MutateBlock(t) ==
  /\ Lock(t, {"mutate", "tick"})
  /\ \E touched \in BOOLEAN :
       LET old == live[Chunk(t)]
           new == Loaded(job[t].val, old.dirty \/ touched \/ job[t].val # old.val)
       IN /\ live' = [live EXCEPT ![Chunk(t)] = new]
          /\ IF new.dirty THEN Goto(t, "check") /\ UNCHANGED job ELSE Return(t)
          /\ announced' = IF new.val = old.val THEN announced
                          ELSE [announced EXCEPT ![Chunk(t)] = new.val]

-----------------------------------------------------------------------------
(* enqueue_writeback: called for a generated chunk before the holder is     *)
(* filled, and by an operation that holds the mutex of the chunk.           *)

EnqueueFailed(t) ==
  /\ IF pc[t] \in Loading THEN Goto(t, "setErr") /\ UNCHANGED job ELSE GiveUp(t)
  /\ UNCHANGED <<live, db, observed, announced, queue, wbVars, stopVars, cancelled>>

CheckShutdown(t) ==
  /\ pc[t] \in {"check", "genCheck"}
  /\ IF cancelled
       THEN EnqueueFailed(t)
       ELSE /\ Goto(t, IF pc[t] = "check" THEN "send" ELSE "genSend")
            /\ UNCHANGED <<live, db, job, observed, announced, queue, wbVars,
                           stopVars, cancelled>>

\* blocking_send: waits for room, fails when the writeback task is gone.
SendRequest(t) ==
  /\ pc[t] \in {"send", "genSend"}
  /\ ~ReceiverGone
  /\ Len(queue) < QueueSize
  /\ queue' = Append(queue, Chunk(t))
  /\ \/ pc[t] = "genSend" /\ Goto(t, "fill") /\ UNCHANGED job
     \/ pc[t] = "send" /\ job[t].kind \in {"mutate", "tick"} /\ Return(t)
     \/ pc[t] = "send" /\ job[t].kind \in {"set", "cas"} /\ Goto(t, "bcast") /\ UNCHANGED job
  /\ UNCHANGED <<live, db, observed, announced, wbVars, stopVars, cancelled>>

SendFailed(t) ==
  /\ pc[t] \in {"send", "genSend"}
  /\ ReceiverGone
  /\ EnqueueFailed(t)

\* broadcast_block_change of set_block and compare_and_set_block.
Broadcast(u) ==
  /\ pc[u] = "bcast"
  /\ announced' = [announced EXCEPT ![Chunk(u)] = job[u].val]
  /\ Return(u)
  /\ UNCHANGED <<live, db, observed, queue, wbVars, stopVars, cancelled>>

-----------------------------------------------------------------------------
(* GameMapWriteback *)

\* gather: receives while it coalesces and while it catches up.
WbReceive ==
  /\ wb = "gather"
  /\ queue # <<>>
  /\ batch' = batch \cup {Head(queue)}
  /\ queue' = Tail(queue)
  /\ UNCHANGED <<live, db, userVars, announced, wb, stopVars, cancelled>>

\* gather returns with the channel empty: it has something, or was cancelled.
WbGathered ==
  /\ wb = "gather"
  /\ queue = <<>>
  /\ batch # {} \/ cancelled
  /\ wb' = "lock"
  /\ UNCHANGED <<live, db, userVars, announced, queue, batch, stopVars, cancelled>>

WbLock ==
  /\ wb = "lock"
  /\ ~Claimed
  /\ wb' = "write"
  /\ UNCHANGED <<live, db, userVars, announced, queue, batch, stopVars, cancelled>>

\* A failed writeback ends the task; dropping it cancels the whole map.
WbDie ==
  /\ wb' = "dead"
  /\ batch' = {}
  /\ queue' = <<>>
  /\ cancelled' = TRUE
  /\ UNCHANGED <<live, db>>

\* Mutants of WbChunk: a failed put is only logged; a chunk whose mutex is
\* taken is skipped.
WbChunkLogsFailure(c) ==
  /\ wb = "write"
  /\ c \in batch
  /\ MutexFree(c)
  /\ batch' = batch \ {c}
  /\ live' = IF IsOk(c) THEN [live EXCEPT ![c] = Loaded(live[c].val, FALSE)] ELSE live
  /\ \/ db' = IF IsOk(c) THEN [db EXCEPT ![c] = live[c].val] ELSE db
     \/ "put" \in Faults /\ UNCHANGED db
  /\ UNCHANGED <<userVars, announced, wb, queue, cancelled, stopVars>>

WbChunkTryLock(c) ==
  /\ wb = "write"
  /\ c \in batch
  /\ batch' = batch \ {c}
  /\ IF IsOk(c) /\ MutexFree(c)
       THEN /\ db' = [db EXCEPT ![c] = live[c].val]
            /\ live' = [live EXCEPT ![c] = Loaded(live[c].val, FALSE)]
       ELSE UNCHANGED <<db, live>>
  /\ UNCHANGED <<userVars, announced, wb, queue, cancelled, stopVars>>

\* One coordinate of do_writebacks.  A chunk that is not in memory, or whose
\* holder is still empty, is skipped.
WbChunk(c) ==
  /\ wb = "write"
  /\ c \in batch
  /\ MutexFree(c)
  /\ \/ /\ IsOk(c)
        /\ db' = [db EXCEPT ![c] = live[c].val]
        /\ live' = [live EXCEPT ![c] = Loaded(live[c].val, FALSE)]
        /\ batch' = batch \ {c}
        /\ UNCHANGED <<wb, queue, cancelled>>
     \/ /\ live[c].state \in {"absent", "empty"}
        /\ batch' = batch \ {c}
        /\ UNCHANGED <<db, live, wb, queue, cancelled>>
     \/ /\ live[c].state = "err" \/ (IsOk(c) /\ "put" \in Faults)
        /\ WbDie
  /\ UNCHANGED <<userVars, announced, stopVars>>

\* Mutant of WbNext: the task does not look at the token.
WbNextForever ==
  /\ wb = "write"
  /\ batch = {}
  /\ wb' = "gather"
  /\ UNCHANGED <<live, db, userVars, announced, queue, batch, stopVars, cancelled>>

\* End of do_writebacks; the loop ends once the token is cancelled.
WbNext ==
  /\ wb = "write"
  /\ batch = {}
  /\ wb' = IF cancelled THEN "done" ELSE "gather"
  /\ queue' = IF cancelled THEN <<>> ELSE queue
  /\ UNCHANGED <<live, db, userVars, announced, batch, stopVars, cancelled>>

-----------------------------------------------------------------------------
(* MapCacheCleanup *)

LiveChunks == {c \in Chunks : IsLive(c)}

CleanupClaim ==
  /\ cleanup = "idle"
  /\ ~Claimed
  /\ cleanup' = "drain"
  /\ UNCHANGED <<live, db, userVars, announced, queue, wbVars, unloading, phase, cancelled>>

\* Mutant of CleanupLock: it does not wait for the readers.
CleanupLockAtOnce ==
  /\ cleanup = "drain"
  /\ \E evict \in SUBSET LiveChunks :
       /\ Cardinality(evict) <= EvictAtOnce
       /\ unloading' = evict
  /\ cleanup' = "unload"
  /\ UNCHANGED <<live, db, userVars, announced, queue, wbVars, phase, cancelled>>

\* do_cleanup: of the entries that are old enough, all but the KeepRecent
\* most recent go, EvictAtOnce at a time.  Ages are left open.
CleanupLock ==
  /\ cleanup = "drain"
  /\ ~HasReaders
  /\ \E evict \in SUBSET LiveChunks :
       /\ Cardinality(evict) <= EvictAtOnce
       /\ evict # {} => Cardinality(evict) + KeepRecent <= Cardinality(LiveChunks)
       /\ unloading' = evict
  /\ cleanup' = "unload"
  /\ UNCHANGED <<live, db, userVars, announced, queue, wbVars, phase, cancelled>>

CleanupExit ==
  /\ cleanup = "idle"
  /\ cancelled
  /\ cleanup' = "done"
  /\ UNCHANGED <<live, db, userVars, announced, queue, wbVars, unloading, phase, cancelled>>

\* Mutant of Unload: it leaves a dirty chunk to the writeback task.
UnloadNoPut(c) ==
  /\ WriteLocked
  /\ c \in unloading
  /\ live' = [live EXCEPT ![c] = Absent]
  /\ unloading' = unloading \ {c}
  /\ UNCHANGED <<db, cleanup, userVars, announced, queue, wbVars, phase, cancelled>>

\* unload_chunk_locked: the entry goes first, then a dirty chunk is saved.
\* The cleanup task ends at the first failure, flush carries on.
Unload(c) ==
  /\ WriteLocked
  /\ c \in unloading
  /\ live' = [live EXCEPT ![c] = Absent]
  /\ \/ /\ db' = IF IsOk(c) /\ live[c].dirty
                   THEN [db EXCEPT ![c] = live[c].val] ELSE db
        /\ unloading' = unloading \ {c}
        /\ UNCHANGED cleanup
     \/ /\ IsOk(c) /\ live[c].dirty /\ "put" \in Faults
        /\ IF cleanup = "unload"
             THEN unloading' = {} /\ cleanup' = "dead"
             ELSE unloading' = unloading \ {c} /\ UNCHANGED cleanup
        /\ UNCHANGED db
  /\ UNCHANGED <<userVars, announced, queue, wbVars, phase, cancelled>>

CleanupUnlock ==
  /\ cleanup = "unload"
  /\ unloading = {}
  /\ cleanup' = "idle"
  /\ UNCHANGED <<live, db, userVars, announced, queue, wbVars, unloading, phase, cancelled>>

-----------------------------------------------------------------------------
(* finish_shutdown: serve_with_shutdown waits for the open connections, so   *)
(* no caller is inside the map, except the tasks of a connection that broke. *)
(* The timers are not waited for.  A task that failed makes it panic.        *)

RequestShutdown ==
  /\ phase = "running"
  /\ Drained => \A u \in Users : pc[u] = "idle"
  /\ phase' = "awaitWb"
  /\ cancelled' = TRUE
  /\ UNCHANGED <<live, db, userVars, announced, queue, wbVars, cleanup, unloading>>

AwaitWriteback ==
  /\ phase = "awaitWb"
  /\ ReceiverGone
  /\ phase' = IF wb = "done" THEN "awaitCleanup" ELSE "failed"
  /\ UNCHANGED <<live, db, userVars, announced, queue, wbVars, cleanup, unloading, cancelled>>

AwaitCleanup ==
  /\ phase = "awaitCleanup"
  /\ cleanup \in {"done", "dead"}
  /\ phase' = IF cleanup = "done" THEN "flush" ELSE "failed"
  /\ UNCHANGED <<live, db, userVars, announced, queue, wbVars, cleanup, unloading, cancelled>>

FlushClaim ==
  /\ phase = "flush"
  /\ ~Claimed
  /\ phase' = "drain"
  /\ UNCHANGED <<live, db, userVars, announced, queue, wbVars, cleanup, unloading, cancelled>>

FlushLock ==
  /\ phase = "drain"
  /\ ~HasReaders
  /\ phase' = "unload"
  /\ unloading' = LiveChunks
  /\ UNCHANGED <<live, db, userVars, announced, queue, wbVars, cleanup, cancelled>>

FlushUnlock ==
  /\ phase = "unload"
  /\ unloading = {}
  /\ phase' = "down"
  /\ UNCHANGED <<live, db, userVars, announced, queue, wbVars, cleanup, unloading, cancelled>>

\* The process is killed and started again: only the database is left.
Crash ==
  /\ MayCrash
  /\ live' = [c \in Chunks |-> Absent]
  /\ pc' = [t \in Threads |-> "idle"]
  /\ job' = [t \in Threads |-> NoJob]
  /\ observed' = [t \in Threads |-> NoVal]
  /\ announced' = [c \in Chunks |-> Stored(c)]
  /\ queue' = <<>>
  /\ wb' = "gather"
  /\ batch' = {}
  /\ cleanup' = "idle"
  /\ unloading' = {}
  /\ cancelled' = FALSE
  /\ phase' = "running"
  /\ UNCHANGED db

-----------------------------------------------------------------------------
Calls(u) ==
  \E c \in Chunks, v \in Vals :
    \/ "read" \in Kinds /\ Call(u, "read", c, NoVal, NoVal)
    \/ "set" \in Kinds /\ Call(u, "set", c, NoVal, v)
    \/ "mutate" \in Kinds /\ Call(u, "mutate", c, NoVal, v)
    \/ "cas" \in Kinds /\ \E e \in Vals : Call(u, "cas", c, e, v)

Ticks(s) == \E c \in Chunks, v \in Vals : Tick(s, c, v)

\* What a thread does once it is inside a call of the map.
Inside(t) ==
  \/ GetChunk(t) \/ ClaimToInsert(t) \/ InsertHolder(t)
  \/ Load(t) \/ Fill(t) \/ SetErr(t) \/ ChunkFailed(t) \/ TickSkips(t) \/ TickEnds(t)
  \/ GetBlock(t) \/ SetBlock(t) \/ CompareAndSet(t) \/ MutateBlock(t)
  \/ CheckShutdown(t) \/ SendRequest(t) \/ SendFailed(t) \/ Broadcast(t)

Writeback == WbReceive \/ WbGathered \/ WbLock \/ WbNext \/ \E c \in Chunks : WbChunk(c)

\* What a writer does once it has claimed live_chunks.
Unloads == \/ CleanupLock \/ CleanupUnlock \/ FlushLock \/ FlushUnlock
           \/ \E c \in Chunks : Unload(c)

Shutdown == AwaitWriteback \/ AwaitCleanup \/ FlushClaim \/ CleanupExit

Next ==
  \/ \E u \in Users : Calls(u)
  \/ \E s \in Shards : Ticks(s) \/ ShardExit(s)
  \/ \E t \in Threads : Inside(t)
  \/ Writeback
  \/ CleanupClaim
  \/ Unloads
  \/ RequestShutdown
  \/ Shutdown
  \/ Crash

Spec == Init /\ [][Next]_vars

-----------------------------------------------------------------------------
(* Correctness *)

\* What any reader of c must see, wherever c is kept at the moment.
Current(c) == IF IsOk(c) THEN live[c].val ELSE Stored(c)

Places == Loading \cup Critical \cup {"idle", "get", "upgrade", "drain", "wait", "scan", "ended"}

\* Every variable has its type, and a loaded holder has content.
TypeOK ==
  /\ live \in [Chunks -> Holder]
  /\ \A c \in Chunks : IsOk(c) => live[c].val \in Vals
  /\ db \in [Chunks -> Vals \cup {NoVal}]
  /\ pc \in [Threads -> Places]
  /\ job \in [Threads -> Job]
  /\ observed \in [Threads -> Vals \cup {NoVal}]
  /\ announced \in [Chunks -> Vals]
  /\ queue \in Seq(Chunks) /\ Len(queue) <= QueueSize
  /\ wb \in {"gather", "lock", "write", "done", "dead"}
  /\ batch \subseteq Chunks
  /\ cleanup \in {"idle", "drain", "unload", "done", "dead"}
  /\ unloading \subseteq Chunks
  /\ cancelled \in BOOLEAN
  /\ phase \in {"running", "awaitWb", "awaitCleanup", "flush", "drain", "unload",
                "down", "failed"}

\* A chunk whose dirty flag is clear is exactly what the database holds, so
\* unload_chunk_locked may drop it without a put.  Writers, the writeback task,
\* the cleanup task and the timers all touch the flag.
CleanMatchesDb == \A c \in Chunks : IsOk(c) /\ ~live[c].dirty => live[c].val = db[c]

\* The assertions of fill and set_err: whoever loads a chunk still finds the
\* empty holder it inserted, which no other thread fills and no task removes.
FillsEmptyHolder ==
  \A t \in Threads : pc[t] \in Loading =>
    /\ live[Chunk(t)].state = "empty"
    /\ \A s \in Threads \ {t} : pc[s] \in Loading => Chunk(s) # Chunk(t)

\* The warning of load_uncached_or_generate_chunk: what it has read is still
\* what the database holds when the holder is filled with it.
LoadIsNotStale ==
  \A t \in Threads : pc[t] \in {"genCheck", "genSend", "fill"} =>
    /\ job[t].got = Stored(Chunk(t))
    /\ job[t].fresh = (db[Chunk(t)] = NoVal)

\* unload_chunk_locked: "got a chunk with an empty holder. This should never
\* happen".  Whoever holds the write lock finds every chunk loaded or failed.
WriterSeesNoEmpty == WriteLocked => \A c \in Chunks : live[c].state # "empty"

\* Once no operation is in the middle of a chunk, the block updates sent for it
\* have told the subscribers its content (as long as no call of the map fails:
\* no database error, and no caller left at shutdown).
AnnouncedIsCurrent == \A c \in Chunks : MutexFree(c) => announced[c] = Current(c)

\* After an orderly stop (Drained) nothing is left in memory and the database
\* holds what the subscribers were told last, timers that still run included.
DownMeansSaved ==
  phase = "down" => \A c \in Chunks : ~IsLive(c) /\ Stored(c) = announced[c]

\* A sender waits for room in the queue, and the writeback task, which would
\* make room, waits for the sender: for the mutex of its chunk, or for a writer
\* that waits for it to leave.
QueueJam ==
  /\ Len(queue) = QueueSize
  /\ \E t \in Threads :
       \/ pc[t] = "send" /\ wb = "write" /\ Chunk(t) \in batch
       \/ pc[t] \in {"send", "genSend"} /\ wb = "lock" /\ Claimed

AtRest == /\ \A t \in Threads : pc[t] \in {"idle", "ended"}
          /\ wb \in {"gather", "done", "dead"}
          /\ cleanup \in {"idle", "done", "dead"}
          /\ phase \in {"running", "down", "failed"}

\* What the threads and tasks do by themselves, and where they may: the guards of these steps.
Moves == (\E t \in Threads : Inside(t)) \/ Writeback \/ Unloads \/ Shutdown
ThreadMayGo(t) ==
  \/ pc[t] \in {"load", "fill", "setErr", "genCheck", "check", "bcast", "scan"}
  \/ pc[t] \in {"get", "upgrade"} /\ ~Claimed
  \/ pc[t] = "drain" /\ ~HasReaders
  \/ pc[t] = "wait" /\ \/ live[Chunk(t)].state = "err"
                       \/ live[Chunk(t)].state = "empty" /\ t \in Shards
                       \/ IsOk(Chunk(t)) /\ MutexFree(Chunk(t))
  \/ pc[t] \in {"send", "genSend"} /\ (ReceiverGone \/ Len(queue) < QueueSize)
WritebackMayGo ==
  \/ wb = "gather" /\ (queue # <<>> \/ batch # {} \/ cancelled)
  \/ wb = "lock" /\ ~Claimed
  \/ wb = "write" /\ (batch = {} \/ \E c \in batch : MutexFree(c))
WritersMayGo ==
  \/ (cleanup = "drain" \/ phase = "drain") /\ ~HasReaders
  \/ WriteLocked
  \/ cleanup = "idle" /\ cancelled
StopMayGo ==
  \/ phase = "awaitWb" /\ ReceiverGone
  \/ phase = "awaitCleanup" /\ cleanup \in {"done", "dead"}
  \/ phase = "flush" /\ ~Claimed
CanMove == (\E t \in Threads : ThreadMayGo(t)) \/ WritebackMayGo \/ WritersMayGo \/ StopMayGo

\* The locks, the condition variable and the queue stop the threads of the map
\* only in one way: the writeback queue is full and its reader waits for a sender.
StallOnlyOnFullQueue == AtRest \/ CanMove \/ QueueJam

\* The map is a store of chunks with no cache: see BlockStore.
Store == INSTANCE BlockStore WITH
  Users <- Threads,
  StorageFails <- "put" \in Faults,
  current <- [c \in Chunks |-> Current(c)],
  saved <- [c \in Chunks |-> Stored(c)]

ImplementsStore == Store!Spec

-----------------------------------------------------------------------------
(* Liveness.  The runtime schedules every thread and task that can run, and *)
(* parking_lot's locks are fair to those that wait for them.                *)

Fairness == /\ \A t \in Threads : WF_vars(Inside(t))
            /\ WF_vars(Writeback)
            /\ WF_vars(Unloads)
            /\ WF_vars(Shutdown)

\* Every call of the map returns to its caller.
CallsReturn == \A u \in Users : pc[u] = "get" ~> pc[u] = "idle"

\* A change that has asked for writeback reaches the database, unless the map
\* is stopped first (flush takes over) or the chunk changes again.
ChangeIsSaved ==
  \A t \in Threads, c \in Chunks :
    pc[t] = "send" /\ Chunk(t) = c ~> cancelled \/ (IsOk(c) => ~live[c].dirty)

\* finish_shutdown returns, and with it the last chunk is in the database.
ShutdownEnds == phase = "awaitWb" ~> phase = "down"

-----------------------------------------------------------------------------
(* What the source says of the map and the code does not do. *)

\* finish_shutdown: "wait for them to safely flush data".  It has ended and no
\* chunk is left in memory with content that is not in the database.
ShutdownSaves ==
  phase \in {"down", "failed"} => \A c \in Chunks : IsOk(c) => live[c].val = db[c]

\* The furnace timer marks its block dirty: "todo diagnose the deadlock that
\* happens during heavy levels of writeback traffic" (default_game/furnace.rs).
\* As long as anybody is inside the map, somebody can go on.
NeverStuck == AtRest \/ CanMove

-----------------------------------------------------------------------------
(* The inductive invariant of the safety properties, see GameMapProofs. *)

\* A thread inside a call works on a chunk, and knows what to write to it.
JobsOK ==
  \A t \in Threads :
    /\ pc[t] \notin {"idle", "scan", "ended"} => Chunk(t) \in Chunks
    /\ job[t].kind \in {"set", "cas", "mutate", "tick"} => job[t].val \in Vals
    /\ pc[t] \in Critical => job[t].kind \in {"set", "cas", "mutate", "tick"}

\* live_chunks is claimed by one writer at a time, and one that unloads chunks
\* has no reader beside it.
LocksOK ==
  /\ WriteLocked => ~HasReaders
  /\ \A s, t \in Threads : pc[s] = "drain" /\ pc[t] = "drain" => s = t
  /\ cleanup \in {"drain", "unload"} =>
       /\ \A t \in Threads : pc[t] # "drain"
       /\ phase \notin {"drain", "unload"}
  /\ phase \in {"drain", "unload"} => \A t \in Threads : pc[t] # "drain"

\* An empty holder is being loaded.
EmptyHasLoader ==
  \A c \in Chunks : live[c].state = "empty" =>
    \E t \in Threads : pc[t] \in Loading /\ Chunk(t) = c

\* The mutex of a chunk has one owner, who finds it loaded.
MutexOK ==
  \A t \in Threads : pc[t] \in Critical =>
    /\ IsOk(Chunk(t))
    /\ \A s \in Threads \ {t} : pc[s] \in Critical => Chunk(s) # Chunk(t)

IInv == /\ TypeOK /\ JobsOK /\ LocksOK /\ MutexOK /\ EmptyHasLoader
        /\ FillsEmptyHolder /\ LoadIsNotStale /\ CleanMatchesDb

(* What AnnouncedIsCurrent and DownMeansSaved rest on besides, when no call of the map *)
(* fails and no caller is left at shutdown (Drained).                                  *)

\* No holder and no task is given up.
NothingFails ==
  /\ \A t \in Threads : pc[t] # "setErr"
  /\ \A c \in Chunks : live[c].state # "err"
  /\ wb # "dead" /\ (wb = "done" => cancelled)

\* Shards load no chunk, and what they do to one they tell while they have its mutex.
ShardsOnlyTick ==
  \A s \in Shards : /\ pc[s] \notin Loading \cup {"upgrade", "drain", "bcast"}
                     /\ job[s].kind \in {"tick", "none"}

\* The token is cancelled by a shutdown alone, which finds no caller in the map; and flush
\* unloads what is there.
StopIsOrderly ==
  /\ cancelled = (phase # "running")
  /\ cancelled => \A u \in Users : pc[u] = "idle"
  /\ phase = "unload" => LiveChunks \subseteq unloading
  /\ phase = "down" => LiveChunks = {}

\* Who has set a block has yet to tell of it, and a chunk whose subscribers are behind has one
\* who will tell them.
MustTell(t) == pc[t] \in Critical /\ job[t].kind \in {"set", "cas"}
ToldOrTelling ==
  /\ \A t \in Threads : MustTell(t) => live[Chunk(t)].val = job[t].val
  /\ \A t \in Threads : pc[t] = "bcast" => MustTell(t)
  /\ \A c \in Chunks : announced[c] # Current(c) => \E t \in Threads : MustTell(t) /\ Chunk(t) = c

OrderlyInv == NothingFails /\ ShardsOnlyTick /\ StopIsOrderly /\ ToldOrTelling

(* What StallOnlyOnFullQueue rests on besides. *)

\* Who waits for the mutex of a chunk has read-locked an entry that is there, and nobody
\* removes it; a shutdown begins with the cancellation.
WaitersFit ==
  /\ \A t \in Threads : pc[t] = "wait" => IsLive(Chunk(t))
  /\ phase # "running" => cancelled

=============================================================================
