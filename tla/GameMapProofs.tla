---------------------------- MODULE GameMapProofs ----------------------------
(***************************************************************************)
(* Proofs about GameMap, for all values of its constants: IInv is an       *)
(* inductive invariant of Spec, it implies the safety properties TypeOK,   *)
(* FillsEmptyHolder, LoadIsNotStale, CleanMatchesDb and WriterSeesNoEmpty, *)
(* and under it every step of GameMap is a step of BlockStore or changes   *)
(* nothing there.  Then, from the same invariant, what the subscribers are *)
(* told (OrderlyInv) and that only a full queue stops the map.             *)
(*                                                                         *)
(* The argument.  While a chunk is loaded its holder is empty, and only    *)
(* its loader may fill it; the writeback task leaves empty holders alone   *)
(* and a writer that unloads chunks has no reader, hence no loader, beside *)
(* it.  So the database keeps what the loader has read, and the holder is  *)
(* filled with it.  From then on content changes only together with the    *)
(* dirty flag, and the flag is cleared only when the same content is put.  *)
(***************************************************************************)
EXTENDS GameMap, TLAPS

-----------------------------------------------------------------------------
(* Types *)

\* The job of an idle thread is a job.
LEMMA NoJobType == NoJob \in Job
BY DEF NoJob, NewJob, Job

\* What a filled holder is.
LEMMA LoadedType ==
  \A v \in Vals, d \in BOOLEAN : Loaded(v, d) \in Holder /\ Loaded(v, d).val = v
BY DEF Loaded, Holder

\* An empty queue is a queue.
LEMMA EmptyQueueType == <<>> \in Seq(Chunks) /\ Len(<<>>) <= QueueSize
BY GameMapAssumption

\* What the database or the map generator says of a chunk is content.
LEMMA StoredType ==
  ASSUME TypeOK, NEW c \in Chunks PROVE Stored(c) \in Vals
BY GameMapAssumption DEF TypeOK, Stored

-----------------------------------------------------------------------------
(* Two frames: what is left to show of a step that touches no holder. *)

\* A step of a background task that leaves the threads and the chunks alone.
LEMMA TaskFrame ==
  ASSUME IInv, TypeOK', LocksOK', UNCHANGED <<live, db, pc, job>>
  PROVE  IInv'
BY DEF IInv, JobsOK, MutexOK, EmptyHasLoader, FillsEmptyHolder, LoadIsNotStale,
       CleanMatchesDb, IsOk, Chunk, Stored

\* A step of a thread that leaves the chunks alone: the loaders stay the same,
\* with what they have read, and nobody takes a mutex.
LoadersStay ==
  \A s \in Threads :
    /\ pc'[s] \in Loading <=> pc[s] \in Loading
    /\ pc'[s] \in Loading \cup Critical => Chunk(s)' = Chunk(s)
    /\ pc'[s] \in Critical => pc[s] \in Critical
    /\ pc'[s] \in {"genCheck", "genSend", "fill"} =>
         /\ pc[s] \in {"genCheck", "genSend", "fill"}
         /\ job'[s].got = job[s].got /\ job'[s].fresh = job[s].fresh

\* So the inductive invariant is kept, given that the step keeps the types, the
\* jobs and the locks.
LEMMA ThreadFrame ==
  ASSUME IInv, TypeOK', JobsOK', LocksOK', UNCHANGED <<live, db>>, LoadersStay
  PROVE  IInv'
<1>1. EmptyHasLoader' /\ FillsEmptyHolder'
  BY DEF IInv, EmptyHasLoader, FillsEmptyHolder, LoadersStay
<1>2. MutexOK' /\ CleanMatchesDb'
  BY DEF IInv, MutexOK, CleanMatchesDb, LoadersStay, IsOk
<1>3. LoadIsNotStale'
  BY DEF IInv, LoadIsNotStale, LoadersStay, Loading, Stored
<1> QED
  BY <1>1, <1>2, <1>3 DEF IInv

-----------------------------------------------------------------------------
(* The inductive invariant holds at the start and is kept by every action. *)

\* Nothing is in memory at the start, and no thread is inside the map.
LEMMA InitIInv == Init => IInv
<1> SUFFICES ASSUME Init PROVE IInv
  OBVIOUS
<1> USE GameMapAssumption DEF Init
<1>1. TypeOK
  <2>1. live \in [Chunks -> Holder] /\ \A c \in Chunks : ~IsOk(c)
    BY DEF Holder, Absent, IsOk
  <2>2. pc \in [Threads -> Places] /\ job \in [Threads -> Job]
    BY NoJobType DEF Places
  <2> QED
    BY <2>1, <2>2, EmptyQueueType DEF TypeOK
<1>2. JobsOK /\ LocksOK /\ MutexOK
  BY DEF JobsOK, LocksOK, MutexOK, NoJob, NewJob, Critical, WriteLocked, HasReaders,
         ReadLocked, Loading
<1>3. EmptyHasLoader /\ FillsEmptyHolder /\ LoadIsNotStale /\ CleanMatchesDb
  BY DEF EmptyHasLoader, FillsEmptyHolder, LoadIsNotStale, CleanMatchesDb, Loading,
         Absent, IsOk
<1> QED
  BY <1>1, <1>2, <1>3 DEF IInv

\* A caller enters the map with a chunk and, if it will write, a content.
LEMMA CallStep ==
  ASSUME IInv, NEW u \in Users, Calls(u) PROVE IInv'
<1> USE DEF Threads, Call, Goto, userVars, wbVars, stopVars
<1> PICK c \in Chunks, e \in Vals \cup {NoVal}, v \in Vals \cup {NoVal}, k \in Kinds :
      Call(u, k, c, e, v) /\ (k # "read" => v \in Vals)
  BY DEF Calls
<1>1. TypeOK'
  BY GameMapAssumption DEF IInv, TypeOK, Job, NewJob, Places, IsOk
<1>2. JobsOK'
  BY GameMapAssumption DEF IInv, TypeOK, JobsOK, Job, NewJob, Critical, Chunk
<1>3. LocksOK'
  BY DEF IInv, TypeOK, LocksOK, WriteLocked, HasReaders, ReadLocked, Loading, Critical
<1>4. MutexOK'
  BY DEF IInv, TypeOK, MutexOK, Critical, Chunk, IsOk
<1>5. EmptyHasLoader' /\ FillsEmptyHolder'
  BY DEF IInv, TypeOK, EmptyHasLoader, FillsEmptyHolder, Loading, Chunk
<1>6. LoadIsNotStale' /\ CleanMatchesDb'
  BY DEF IInv, TypeOK, LoadIsNotStale, CleanMatchesDb, Stored, Chunk, IsOk
<1> QED
  BY <1>1, <1>2, <1>3, <1>4, <1>5, <1>6 DEF IInv

\* A timer shard starts on a chunk.
LEMMA TickStep ==
  ASSUME IInv, NEW s \in Shards, NEW c \in Chunks, NEW v \in Vals, Tick(s, c, v)
  PROVE  IInv'
<1> USE DEF Threads, Tick, Goto, userVars, wbVars, stopVars
<1>1. TypeOK'
  <2>1. pc' \in [Threads -> Places]
    BY DEF IInv, TypeOK, Places, Loading, Critical
  <2>2. NewJob("tick", c, NoVal, v) \in Job
    BY DEF Job, NewJob
  <2>3. job' \in [Threads -> Job]
    BY <2>2 DEF IInv, TypeOK
  <2> QED
    BY <2>1, <2>3 DEF IInv, TypeOK, IsOk
<1>2. JobsOK'
  BY GameMapAssumption DEF IInv, TypeOK, JobsOK, Job, NoJob, NewJob, Critical, Chunk
<1>3. LocksOK'
  BY DEF IInv, TypeOK, LocksOK, WriteLocked, HasReaders, ReadLocked, Loading, Critical
<1>4. LoadersStay
  BY DEF IInv, TypeOK, LoadersStay, Loading, Critical, Chunk, Job
<1> QED
  BY <1>1, <1>2, <1>3, <1>4, ThreadFrame

\* A timer shard gives up the read lock.
LEMMA TickEndsStep == ASSUME IInv, NEW s \in Threads, TickEnds(s) PROVE IInv'
<1> USE DEF Threads, TickEnds, Goto, userVars, wbVars, stopVars
<1>1. TypeOK'
  BY GameMapAssumption DEF IInv, TypeOK, JobsOK, LoadIsNotStale, Stored, Holder, Job,
         Places, Loading, Critical, Chunk, IsOk
<1>2. JobsOK'
  BY GameMapAssumption DEF IInv, TypeOK, JobsOK, Job, NoJob, NewJob, Critical, Chunk
<1>3. LocksOK'
  BY DEF IInv, TypeOK, LocksOK, WriteLocked, HasReaders, ReadLocked, Loading, Critical
<1>4. LoadersStay
  BY DEF IInv, TypeOK, LoadersStay, Loading, Critical, Chunk, Job
<1> QED
  BY <1>1, <1>2, <1>3, <1>4, ThreadFrame

\* A timer shard ends.
LEMMA ShardExitStep == ASSUME IInv, NEW s \in Shards, ShardExit(s) PROVE IInv'
<1> USE DEF Threads, ShardExit, Goto, userVars, wbVars, stopVars
<1>1. TypeOK'
  BY GameMapAssumption DEF IInv, TypeOK, JobsOK, LoadIsNotStale, Stored, Holder, Job,
         Places, Loading, Critical, Chunk, IsOk
<1>2. JobsOK'
  BY GameMapAssumption DEF IInv, TypeOK, JobsOK, Job, NoJob, NewJob, Critical, Chunk
<1>3. LocksOK'
  BY DEF IInv, TypeOK, LocksOK, WriteLocked, HasReaders, ReadLocked, Loading, Critical
<1>4. LoadersStay
  BY DEF IInv, TypeOK, LoadersStay, Loading, Critical, Chunk, Job
<1> QED
  BY <1>1, <1>2, <1>3, <1>4, ThreadFrame

\* get_chunk or do_tick looks the chunk up.
LEMMA GetChunkStep == ASSUME IInv, NEW t \in Threads, GetChunk(t) PROVE IInv'
<1> USE DEF Threads, GetChunk, Goto, Return, Leave, Claimed, IsLive, userVars, wbVars, stopVars
<1>1. TypeOK'
  <2>1. pc' \in [Threads -> Places]
    BY DEF IInv, TypeOK, Places, Loading, Critical
  <2>2. job' \in [Threads -> Job]
    BY NoJobType DEF IInv, TypeOK
  <2> QED
    BY <2>1, <2>2 DEF IInv, TypeOK, IsOk
<1>2. JobsOK'
  BY GameMapAssumption DEF IInv, TypeOK, JobsOK, Job, NoJob, NewJob, Critical, Chunk
<1>3. LocksOK'
  BY DEF IInv, TypeOK, LocksOK, WriteLocked, HasReaders, ReadLocked, Loading, Critical
<1>4. LoadersStay
  BY DEF IInv, TypeOK, LoadersStay, Loading, Critical, Chunk, Job
<1> QED
  BY <1>1, <1>2, <1>3, <1>4, ThreadFrame

\* get_chunk asks for the write lock: nobody else has claimed it.
LEMMA ClaimToInsertStep == ASSUME IInv, NEW t \in Threads, ClaimToInsert(t) PROVE IInv'
<1> USE DEF Threads, ClaimToInsert, Goto, Claimed, userVars, wbVars, stopVars
<1>1. TypeOK'
  BY GameMapAssumption DEF IInv, TypeOK, JobsOK, LoadIsNotStale, Stored, Holder, Job,
         Places, Loading, Critical, Chunk, IsOk
<1>2. JobsOK'
  BY GameMapAssumption DEF IInv, TypeOK, JobsOK, Job, NoJob, NewJob, Critical, Chunk
<1>3. LocksOK'
  BY DEF IInv, TypeOK, LocksOK, WriteLocked, HasReaders, ReadLocked, Loading, Critical
<1>4. LoadersStay
  BY DEF IInv, TypeOK, LoadersStay, Loading, Critical, Chunk, Job
<1> QED
  BY <1>1, <1>2, <1>3, <1>4, ThreadFrame

\* The empty holder is inserted with no reader inside, so nobody loads this
\* chunk yet and nobody works on it.
LEMMA InsertHolderStep == ASSUME IInv, NEW t \in Threads, InsertHolder(t) PROVE IInv'
<1> USE DEF Threads, InsertHolder, Goto, IsLive, userVars, wbVars, stopVars
<1>1. TypeOK'
  <2>1. pc' \in [Threads -> Places]
    BY DEF IInv, TypeOK, Places, Loading, Critical
  <2>2. Chunk(t) \in Chunks
    BY DEF IInv, JobsOK, Critical, Chunk, TypeOK
  <2>3. EmptyHolder \in Holder
    BY DEF Holder, EmptyHolder
  <2>4. live' \in [Chunks -> Holder] /\ \A c \in Chunks : IsOk(c)' => live'[c].val \in Vals
    <3>1. CASE live' = live
      BY <3>1 DEF IInv, TypeOK, IsOk
    <3>2. CASE live' = [live EXCEPT ![Chunk(t)] = EmptyHolder]
      BY <2>2, <2>3, <3>2 DEF IInv, TypeOK, IsOk, EmptyHolder
    <3> QED
      BY <3>1, <3>2
  <2> QED
    BY <2>1, <2>2, <2>3, <2>4 DEF IInv, TypeOK, IsOk
<1>2. JobsOK'
  BY GameMapAssumption DEF IInv, TypeOK, JobsOK, Job, NoJob, NewJob, Critical, Chunk
<1>3. LocksOK'
  BY DEF IInv, TypeOK, LocksOK, WriteLocked, HasReaders, ReadLocked, Loading, Critical
<1>4. MutexOK'
  BY DEF IInv, TypeOK, JobsOK, MutexOK, LocksOK, WriteLocked, HasReaders, ReadLocked,
         Critical, Chunk, IsOk, Holder, EmptyHolder
<1>5. EmptyHasLoader'
  <2>1. \A s \in Threads : pc[s] \in Loading => s # t
    BY DEF Loading
  <2>2. \A c \in Chunks : live'[c].state = "empty" => 
                 live[c].state = "empty" \/ (c = Chunk(t) /\ pc'[t] = "load")
    BY DEF IInv, TypeOK, JobsOK
  <2> QED
    BY <2>1, <2>2 DEF IInv, TypeOK, EmptyHasLoader, Loading, Chunk
<1>6. FillsEmptyHolder'
  BY DEF IInv, TypeOK, JobsOK, FillsEmptyHolder, LocksOK, WriteLocked, HasReaders,
         ReadLocked, Loading, Chunk, IsOk, Holder, EmptyHolder
<1>7. LoadIsNotStale'
  BY DEF IInv, TypeOK, JobsOK, LoadIsNotStale, FillsEmptyHolder, LocksOK, WriteLocked,
         HasReaders, ReadLocked, Loading, Stored, Chunk, IsOk, Job, EmptyHolder
<1>8. CleanMatchesDb'
  BY DEF IInv, TypeOK, JobsOK, CleanMatchesDb, LoadIsNotStale, Stored, Chunk, IsOk,
         Holder, Job, EmptyHolder
<1> QED
  BY <1>1, <1>2, <1>3, <1>4, <1>5, <1>6, <1>7, <1>8 DEF IInv

\* What is read from the database is current, and stays so: see WbChunkStep and
\* UnloadStep.
LEMMA LoadStep == ASSUME IInv, NEW t \in Threads, Load(t) PROVE IInv'
<1> USE DEF Threads, Load, Goto, userVars, wbVars, stopVars
<1>1. TypeOK'
  <2>1. pc' \in [Threads -> Places]
    BY DEF IInv, TypeOK, Places, Loading, Critical
  <2>2. Chunk(t) \in Chunks
    BY DEF IInv, JobsOK, Critical, Chunk, TypeOK
  <2>3. job' \in [Threads -> Job]
    BY <2>2, StoredType DEF IInv, TypeOK, Job
  <2> QED
    BY <2>1, <2>2, <2>3 DEF IInv, TypeOK, IsOk
<1>2. JobsOK'
  <2>1. \A s \in Threads \ {t} : pc'[s] = pc[s] /\ job'[s] = job[s]
    BY DEF IInv, TypeOK
  <2>2. /\ pc[t] \notin {"idle", "scan", "ended"} /\ pc'[t] \notin Critical
        /\ job'[t].chunk = job[t].chunk /\ job'[t].kind = job[t].kind
        /\ job'[t].val = job[t].val
    BY DEF IInv, TypeOK, Job, Critical
  <2> QED
    BY <2>1, <2>2 DEF IInv, JobsOK, Chunk
<1>3. LocksOK'
  BY DEF IInv, TypeOK, LocksOK, WriteLocked, HasReaders, ReadLocked, Loading, Critical
<1>4. MutexOK'
  <2>1. \A s \in Threads : pc'[s] \in Critical => pc[s] \in Critical /\ s # t
    BY DEF IInv, TypeOK, Critical
  <2>2. \A s \in Threads \ {t} : Chunk(s)' = Chunk(s)
    BY DEF IInv, TypeOK, Chunk
  <2>3. \A c \in Chunks : IsOk(c) => IsOk(c)'
    BY DEF IInv, TypeOK, IsOk, FillsEmptyHolder, Loading, Chunk, Holder, JobsOK
  <2>4. \A s \in Threads : Chunk(s) \in Chunks \/ pc[s] \notin Critical
    BY DEF IInv, JobsOK, Critical, Chunk, TypeOK
  <2> QED
    BY <2>1, <2>2, <2>3, <2>4 DEF IInv, MutexOK
<1>5. EmptyHasLoader'
  <2>1. \A s \in Threads : pc[s] \in Loading => pc'[s] \in Loading /\ Chunk(s)' = Chunk(s)
    <3>1. \A s \in Threads : Chunk(s)' = Chunk(s)
      BY DEF IInv, TypeOK, Job, Chunk
    <3>2. \A s \in Threads : pc[s] \in Loading => pc'[s] \in Loading
      BY DEF IInv, TypeOK, Loading
    <3> QED
      BY <3>1, <3>2
  <2>2. \A c \in Chunks : live'[c].state = "empty" => live[c].state = "empty"
    BY DEF IInv, TypeOK, IsOk, Chunk, Holder, JobsOK
  <2> QED
    BY <2>1, <2>2 DEF IInv, EmptyHasLoader
<1>6. FillsEmptyHolder'
  <2>1. \A s \in Threads : pc'[s] \in Loading => pc[s] \in Loading /\ Chunk(s)' = Chunk(s)
    BY DEF IInv, TypeOK, Loading, Job, Chunk
  <2>2. \A c \in Chunks : live[c].state = "empty" => live'[c].state = "empty"
    BY DEF IInv, TypeOK, IsOk, Chunk, Holder, JobsOK
  <2> QED
    BY <2>1, <2>2 DEF IInv, FillsEmptyHolder, JobsOK, Loading
<1>7. LoadIsNotStale'
  BY DEF IInv, TypeOK, JobsOK, LoadIsNotStale, FillsEmptyHolder, LocksOK, WriteLocked,
         HasReaders, ReadLocked, Loading, Stored, Chunk, IsOk, Job
<1>8. CleanMatchesDb'
  BY DEF IInv, TypeOK, JobsOK, CleanMatchesDb, LoadIsNotStale, Stored, Chunk, IsOk,
         Holder, Job
<1> QED
  BY <1>1, <1>2, <1>3, <1>4, <1>5, <1>6, <1>7, <1>8 DEF IInv

\* A holder is filled with what the database holds, or dirty.
LEMMA FillStep == ASSUME IInv, NEW t \in Threads, Fill(t) PROVE IInv'
<1> USE DEF Threads, Fill, Goto, userVars, wbVars, stopVars
<1>1. TypeOK'
  <2>1. pc' \in [Threads -> Places]
    BY DEF IInv, TypeOK, Places, Loading, Critical
  <2>2. Chunk(t) \in Chunks
    BY DEF IInv, JobsOK, Critical, Chunk, TypeOK
  <2>3. job[t].got \in Vals
    BY <2>2, StoredType DEF IInv, LoadIsNotStale
  <2>4. job[t].fresh \in BOOLEAN
    BY DEF IInv, TypeOK, Job
  <2>5. live' \in [Chunks -> Holder] /\ \A c \in Chunks : IsOk(c)' => live'[c].val \in Vals
    BY <2>2, <2>3, <2>4, LoadedType DEF IInv, TypeOK, IsOk
  <2> QED
    BY <2>1, <2>2, <2>3, <2>4, <2>5 DEF IInv, TypeOK, IsOk
<1>2. JobsOK'
  BY GameMapAssumption DEF IInv, TypeOK, JobsOK, Job, NoJob, NewJob, Critical, Chunk
<1>3. LocksOK'
  BY DEF IInv, TypeOK, LocksOK, WriteLocked, HasReaders, ReadLocked, Loading, Critical
<1>4. MutexOK'
  BY DEF IInv, TypeOK, JobsOK, MutexOK, LocksOK, WriteLocked, HasReaders, ReadLocked,
         Critical, Chunk, IsOk, Holder, Loaded
<1>5. EmptyHasLoader'
  BY DEF IInv, TypeOK, JobsOK, EmptyHasLoader, FillsEmptyHolder, Loading, Chunk, IsOk,
         Holder, Loaded
<1>6. FillsEmptyHolder'
  BY DEF IInv, TypeOK, JobsOK, FillsEmptyHolder, LocksOK, WriteLocked, HasReaders,
         ReadLocked, Loading, Chunk, IsOk, Holder, Loaded
<1>7. LoadIsNotStale'
  BY DEF IInv, TypeOK, JobsOK, LoadIsNotStale, FillsEmptyHolder, LocksOK, WriteLocked,
         HasReaders, ReadLocked, Loading, Stored, Chunk, IsOk, Job, Loaded
<1>8. CleanMatchesDb'
  BY DEF IInv, TypeOK, JobsOK, CleanMatchesDb, LoadIsNotStale, Stored, Chunk, IsOk,
         Holder, Job, Loaded
<1> QED
  BY <1>1, <1>2, <1>3, <1>4, <1>5, <1>6, <1>7, <1>8 DEF IInv

\* A failed load leaves a holder without content.
LEMMA SetErrStep == ASSUME IInv, NEW t \in Threads, SetErr(t) PROVE IInv'
<1> USE DEF Threads, SetErr, Goto, Return, Leave, userVars, wbVars, stopVars
<1>1. TypeOK'
  BY GameMapAssumption DEF IInv, TypeOK, JobsOK, LoadIsNotStale, Stored, Holder, Job,
         Places, Loading, Critical, Chunk, IsOk, ErrHolder, NoJob, NewJob
<1>2. JobsOK'
  BY GameMapAssumption DEF IInv, TypeOK, JobsOK, Job, NoJob, NewJob, Critical, Chunk
<1>3. LocksOK'
  BY DEF IInv, TypeOK, LocksOK, WriteLocked, HasReaders, ReadLocked, Loading, Critical
<1>4. MutexOK'
  <2>1. \A s \in Threads : pc'[s] \in Critical => pc[s] \in Critical /\ Chunk(s)' = Chunk(s)
    BY DEF IInv, TypeOK, Critical, Chunk
  <2>2. \A s \in Threads : pc[s] \in Critical /\ IsOk(Chunk(s)) => live'[Chunk(s)].state = "ok"
    BY DEF IInv, TypeOK, JobsOK, FillsEmptyHolder, Loading, Critical, Chunk, IsOk
  <2> QED
    BY <2>1, <2>2 DEF IInv, MutexOK, IsOk
<1>5. EmptyHasLoader'
  BY DEF IInv, TypeOK, JobsOK, EmptyHasLoader, FillsEmptyHolder, Loading, Chunk, IsOk,
         Holder, ErrHolder
<1>6. FillsEmptyHolder'
  BY DEF IInv, TypeOK, JobsOK, FillsEmptyHolder, LocksOK, WriteLocked, HasReaders,
         ReadLocked, Loading, Chunk, IsOk, Holder, ErrHolder
<1>7. LoadIsNotStale'
  BY DEF IInv, TypeOK, JobsOK, LoadIsNotStale, FillsEmptyHolder, LocksOK, WriteLocked,
         HasReaders, ReadLocked, Loading, Stored, Chunk, IsOk, Job, ErrHolder
<1>8. CleanMatchesDb'
  BY DEF IInv, TypeOK, JobsOK, CleanMatchesDb, LoadIsNotStale, Stored, Chunk, IsOk,
         Holder, Job, ErrHolder
<1> QED
  BY <1>1, <1>2, <1>3, <1>4, <1>5, <1>6, <1>7, <1>8 DEF IInv

\* A thread meets a chunk that failed to load.
LEMMA ChunkFailedStep == ASSUME IInv, NEW t \in Threads, ChunkFailed(t) PROVE IInv'
<1> USE DEF Threads, ChunkFailed, Goto, GiveUp, Leave, userVars, wbVars, stopVars
<1>1. TypeOK'
  BY GameMapAssumption DEF IInv, TypeOK, JobsOK, LoadIsNotStale, Stored, Holder, Job,
         Places, Loading, Critical, Chunk, IsOk, NoJob, NewJob
<1>2. JobsOK'
  BY GameMapAssumption DEF IInv, TypeOK, JobsOK, Job, NoJob, NewJob, Critical, Chunk
<1>3. LocksOK'
  BY DEF IInv, TypeOK, LocksOK, WriteLocked, HasReaders, ReadLocked, Loading, Critical
<1>4. LoadersStay
  BY DEF IInv, TypeOK, LoadersStay, Loading, Critical, Chunk, Job
<1> QED
  BY <1>1, <1>2, <1>3, <1>4, ThreadFrame

\* A timer passes over a chunk that is being loaded.
LEMMA TickSkipsStep == ASSUME IInv, NEW t \in Threads, TickSkips(t) PROVE IInv'
<1> USE DEF Threads, TickSkips, Goto, Return, Leave, userVars, wbVars, stopVars
<1>1. TypeOK'
  BY GameMapAssumption DEF IInv, TypeOK, JobsOK, LoadIsNotStale, Stored, Holder, Job,
         Places, Loading, Critical, Chunk, IsOk, NoJob, NewJob
<1>2. JobsOK'
  BY GameMapAssumption DEF IInv, TypeOK, JobsOK, Job, NoJob, NewJob, Critical, Chunk
<1>3. LocksOK'
  BY DEF IInv, TypeOK, LocksOK, WriteLocked, HasReaders, ReadLocked, Loading, Critical
<1>4. LoadersStay
  BY DEF IInv, TypeOK, LoadersStay, Loading, Critical, Chunk, Job
<1> QED
  BY <1>1, <1>2, <1>3, <1>4, ThreadFrame

\* A call that changes nothing.
LEMMA GetBlockStep == ASSUME IInv, NEW t \in Threads, GetBlock(t) PROVE IInv'
<1> USE DEF Threads, GetBlock, Lock, Goto, Return, Leave, userVars, wbVars, stopVars
<1>1. TypeOK'
  BY GameMapAssumption DEF IInv, TypeOK, JobsOK, LoadIsNotStale, Stored, Holder, Job,
         Places, Loading, Critical, Chunk, IsOk, NoJob, NewJob
<1>2. JobsOK'
  BY GameMapAssumption DEF IInv, TypeOK, JobsOK, Job, NoJob, NewJob, Critical, Chunk
<1>3. LocksOK'
  BY DEF IInv, TypeOK, LocksOK, WriteLocked, HasReaders, ReadLocked, Loading, Critical
<1>4. LoadersStay
  BY DEF IInv, TypeOK, LoadersStay, Loading, Critical, Chunk, Job
<1> QED
  BY <1>1, <1>2, <1>3, <1>4, ThreadFrame

\* The chunk is loaded and its mutex free, so it is not being loaded.
LEMMA SetBlockStep == ASSUME IInv, NEW t \in Threads, SetBlock(t) PROVE IInv'
<1> USE DEF Threads, SetBlock, Lock, Goto, MutexFree, userVars, wbVars, stopVars
<1>1. TypeOK'
  BY GameMapAssumption DEF IInv, TypeOK, JobsOK, LoadIsNotStale, Stored, Holder, Job,
         Places, Loading, Critical, Chunk, IsOk, Loaded
<1>2. JobsOK'
  BY GameMapAssumption DEF IInv, TypeOK, JobsOK, Job, NoJob, NewJob, Critical, Chunk
<1>3. LocksOK'
  BY DEF IInv, TypeOK, LocksOK, WriteLocked, HasReaders, ReadLocked, Loading, Critical
<1>4. MutexOK'
  BY DEF IInv, TypeOK, JobsOK, MutexOK, LocksOK, WriteLocked, HasReaders, ReadLocked,
         Critical, Chunk, IsOk, Holder, Loaded
<1>5. EmptyHasLoader'
  BY DEF IInv, TypeOK, JobsOK, EmptyHasLoader, FillsEmptyHolder, Loading, Chunk, IsOk,
         Holder, Loaded
<1>6. FillsEmptyHolder'
  BY DEF IInv, TypeOK, JobsOK, FillsEmptyHolder, LocksOK, WriteLocked, HasReaders,
         ReadLocked, Loading, Chunk, IsOk, Holder, Loaded
<1>7. LoadIsNotStale'
  BY DEF IInv, TypeOK, JobsOK, LoadIsNotStale, FillsEmptyHolder, LocksOK, WriteLocked,
         HasReaders, ReadLocked, Loading, Stored, Chunk, IsOk, Job, Loaded
<1>8. CleanMatchesDb'
  BY DEF IInv, TypeOK, JobsOK, CleanMatchesDb, LoadIsNotStale, Stored, Chunk, IsOk,
         Holder, Job, Loaded
<1> QED
  BY <1>1, <1>2, <1>3, <1>4, <1>5, <1>6, <1>7, <1>8 DEF IInv

\* As SetBlock if the block is the expected one, as GetBlock if it is not.
LEMMA CompareAndSetStep == ASSUME IInv, NEW t \in Threads, CompareAndSet(t) PROVE IInv'
<1> USE DEF Threads, CompareAndSet, Lock, Goto, MutexFree, Return, Leave, userVars, wbVars, stopVars
<1>1. TypeOK'
  <2>1. pc' \in [Threads -> Places]
    BY DEF IInv, TypeOK, Places, Loading, Critical
  <2>2. Chunk(t) \in Chunks
    BY DEF IInv, JobsOK, Critical, Chunk, TypeOK
  <2>3. job[t].val \in Vals
    BY DEF IInv, JobsOK
  <2>4. job' \in [Threads -> Job]
    BY NoJobType DEF IInv, TypeOK
  <2>5. live' \in [Chunks -> Holder] /\ \A c \in Chunks : IsOk(c)' => live'[c].val \in Vals
    BY <2>2, <2>3, LoadedType DEF IInv, TypeOK, IsOk
  <2>6. observed' \in [Threads -> Vals \cup {NoVal}]
    BY <2>2 DEF IInv, TypeOK, IsOk
  <2> QED
    BY <2>1, <2>2, <2>3, <2>4, <2>5, <2>6 DEF IInv, TypeOK, IsOk
<1>2. JobsOK'
  <2>1. CASE live[Chunk(t)].val = job[t].expect
    BY <2>1 DEF IInv, TypeOK, JobsOK, Critical, Chunk
  <2>2. CASE live[Chunk(t)].val # job[t].expect
    BY <2>2 DEF IInv, TypeOK, JobsOK, Critical, Chunk, NoJob, NewJob
  <2> QED
    BY <2>1, <2>2
<1>3. LocksOK'
  BY DEF IInv, TypeOK, LocksOK, WriteLocked, HasReaders, ReadLocked, Loading, Critical
<1>4. MutexOK'
  <2>1. \A s \in Threads \ {t} : pc'[s] = pc[s] /\ job'[s] = job[s]
    BY DEF IInv, TypeOK
  <2>2. \/ pc'[t] = "check" /\ job'[t] = job[t]
        \/ pc'[t] \in {"idle", "scan"} /\ UNCHANGED live
    BY DEF IInv, TypeOK
  <2>3. \A c \in Chunks : IsOk(c) => IsOk(c)'
    <3>1. CASE UNCHANGED live
      BY <3>1 DEF IsOk
    <3>2. CASE live' = [live EXCEPT ![Chunk(t)] = Loaded(job[t].val, TRUE)]
      BY <3>2 DEF IInv, TypeOK, IsOk, Loaded
    <3> QED
      BY <3>1, <3>2
  <2> QED
    BY <2>1, <2>2, <2>3 DEF IInv, JobsOK, MutexOK, Chunk, Critical
<1>5. EmptyHasLoader'
  <2>1. \A s \in Threads : pc[s] \in Loading => pc'[s] \in Loading /\ Chunk(s)' = Chunk(s)
    BY DEF IInv, TypeOK, Loading, Job, Chunk
  <2>2. \A c \in Chunks : live'[c].state = "empty" => live[c].state = "empty"
    <3>1. Chunk(t) \in Chunks
      BY DEF IInv, JobsOK
    <3>2. \A c \in Chunks : live'[c] = live[c] \/ live'[c] = Loaded(job[t].val, TRUE)
      BY <3>1 DEF IInv, TypeOK
    <3> QED
      BY <3>2 DEF Loaded
  <2> QED
    BY <2>1, <2>2 DEF IInv, EmptyHasLoader
<1>6. FillsEmptyHolder'
  <2>1. \A s \in Threads : pc'[s] \in Loading => pc[s] \in Loading /\ Chunk(s)' = Chunk(s)
    BY DEF IInv, TypeOK, Loading, Job, Chunk
  <2>2. \A c \in Chunks : live[c].state = "empty" => live'[c].state = "empty"
    BY DEF IInv, TypeOK, JobsOK, Loaded, IsOk
  <2> QED
    BY <2>1, <2>2 DEF IInv, FillsEmptyHolder, JobsOK, Loading
<1>7. LoadIsNotStale'
  BY DEF IInv, TypeOK, JobsOK, LoadIsNotStale, FillsEmptyHolder, LocksOK, WriteLocked,
         HasReaders, ReadLocked, Loading, Stored, Chunk, IsOk, Job, Loaded
<1>8. CleanMatchesDb'
  <2>1. Chunk(t) \in Chunks
    BY DEF IInv, JobsOK
  <2>2. \A c \in Chunks : live'[c] = live[c] \/ live'[c] = Loaded(job[t].val, TRUE)
    BY <2>1 DEF IInv, TypeOK
  <2> QED
    BY <2>2 DEF IInv, CleanMatchesDb, Loaded, IsOk
<1> QED
  BY <1>1, <1>2, <1>3, <1>4, <1>5, <1>6, <1>7, <1>8 DEF IInv

\* New content always comes with the dirty flag.
LEMMA MutateBlockStep == ASSUME IInv, NEW t \in Threads, MutateBlock(t) PROVE IInv'
<1> USE DEF Threads, MutateBlock, Lock, Goto, MutexFree, Return, Leave, userVars, wbVars, stopVars
<1>1. TypeOK'
  <2>1. pc' \in [Threads -> Places]
    BY DEF IInv, TypeOK, Places, Loading, Critical
  <2>2. Chunk(t) \in Chunks
    BY DEF IInv, JobsOK, Critical, Chunk, TypeOK
  <2>3. job[t].val \in Vals
    BY DEF IInv, JobsOK
  <2>4. job' \in [Threads -> Job]
    BY NoJobType DEF IInv, TypeOK
  <2>5. \E d \in BOOLEAN : live' = [live EXCEPT ![Chunk(t)] = Loaded(job[t].val, d)]
    BY <2>2 DEF IInv, TypeOK, Holder
  <2>6. live' \in [Chunks -> Holder] /\ \A c \in Chunks : IsOk(c)' => live'[c].val \in Vals
    BY <2>2, <2>3, <2>5, LoadedType DEF IInv, TypeOK, IsOk
  <2>7. observed' \in [Threads -> Vals \cup {NoVal}] /\ announced' \in [Chunks -> Vals]
    BY <2>2, <2>3 DEF IInv, TypeOK, Loaded, IsOk
  <2> QED
    BY <2>1, <2>2, <2>3, <2>4, <2>5, <2>6, <2>7 DEF IInv, TypeOK, IsOk
<1>2. JobsOK'
  <2>1. \A s \in Threads \ {t} : pc'[s] = pc[s] /\ job'[s] = job[s]
    BY DEF IInv, TypeOK
  <2>2. \/ pc'[t] = "check" /\ job'[t] = job[t]
        \/ pc'[t] \in {"idle", "scan"} /\ job'[t] = NoJob
    BY DEF IInv, TypeOK
  <2> QED
    BY <2>1, <2>2 DEF IInv, JobsOK, Chunk, Critical, NoJob, NewJob
<1>3. LocksOK'
  BY DEF IInv, TypeOK, LocksOK, WriteLocked, HasReaders, ReadLocked, Loading, Critical
<1>4. MutexOK'
  <2>1. Chunk(t) \in Chunks /\ \A s \in Threads \ {t} : pc'[s] = pc[s] /\ Chunk(s)' = Chunk(s)
    BY DEF IInv, TypeOK, JobsOK, Chunk
  <2>2. pc'[t] \in Critical => Chunk(t)' = Chunk(t)
    BY DEF IInv, TypeOK, Critical, Chunk
  <2>3. \A c \in Chunks : live[c].state = "ok" => live'[c].state = "ok"
    BY <2>1 DEF IInv, TypeOK, Loaded
  <2> QED
    BY <2>1, <2>2, <2>3 DEF IInv, MutexOK, JobsOK, Critical, IsOk
<1>5. EmptyHasLoader'
  <2>1. \A s \in Threads : pc[s] \in Loading => pc'[s] \in Loading /\ Chunk(s)' = Chunk(s)
    BY DEF IInv, TypeOK, Loading, Job, Chunk
  <2>2. \A c \in Chunks : live'[c].state = "empty" => live[c].state = "empty"
    BY DEF IInv, TypeOK, JobsOK, Loaded, IsOk
  <2> QED
    BY <2>1, <2>2 DEF IInv, EmptyHasLoader
<1>6. FillsEmptyHolder'
  <2>1. \A s \in Threads : pc'[s] \in Loading => pc[s] \in Loading /\ Chunk(s)' = Chunk(s)
    BY DEF IInv, TypeOK, Loading, Job, Chunk
  <2>2. \A c \in Chunks : live[c].state = "empty" => live'[c].state = "empty"
    BY DEF IInv, TypeOK, JobsOK, Loaded, IsOk
  <2> QED
    BY <2>1, <2>2 DEF IInv, FillsEmptyHolder, JobsOK, Loading
<1>7. LoadIsNotStale'
  BY DEF IInv, TypeOK, JobsOK, LoadIsNotStale, FillsEmptyHolder, LocksOK, WriteLocked,
         HasReaders, ReadLocked, Loading, Stored, Chunk, IsOk, Job, Loaded
<1>8. CleanMatchesDb'
  <2>1. PICK touched \in BOOLEAN :
          live' = [live EXCEPT ![Chunk(t)] = Loaded(job[t].val,
                     live[Chunk(t)].dirty \/ touched \/ job[t].val # live[Chunk(t)].val)]
    OBVIOUS
  <2>2. Chunk(t) \in Chunks
    BY DEF IInv, JobsOK
  <2>3. \A d \in Chunks \ {Chunk(t)} : live'[d] = live[d]
    BY <2>1, <2>2 DEF IInv, TypeOK
  <2>4. IsOk(Chunk(t)) /\ ~live'[Chunk(t)].dirty =>
          ~live[Chunk(t)].dirty /\ live'[Chunk(t)].val = live[Chunk(t)].val
    BY <2>1, <2>2 DEF IInv, TypeOK, Loaded
  <2> QED
    BY <2>2, <2>3, <2>4 DEF IInv, CleanMatchesDb, IsOk
<1> QED
  BY <1>1, <1>2, <1>3, <1>4, <1>5, <1>6, <1>7, <1>8 DEF IInv

\* enqueue_writeback, first half.
LEMMA CheckShutdownStep == ASSUME IInv, NEW t \in Threads, CheckShutdown(t) PROVE IInv'
<1> USE DEF Threads, CheckShutdown, EnqueueFailed, GiveUp, Goto, Leave, userVars, wbVars, stopVars
<1>1. TypeOK'
  <2>1. pc' \in [Threads -> Places]
    BY DEF IInv, TypeOK, Places, Loading, Critical
  <2>2. job' \in [Threads -> Job]
    BY NoJobType DEF IInv, TypeOK
  <2> QED
    BY <2>1, <2>2 DEF IInv, TypeOK, IsOk
<1>2. JobsOK'
  BY GameMapAssumption DEF IInv, TypeOK, JobsOK, Job, NoJob, NewJob, Critical, Chunk
<1>3. LocksOK'
  BY DEF IInv, TypeOK, LocksOK, WriteLocked, HasReaders, ReadLocked, Loading, Critical
<1>4. LoadersStay
  BY DEF IInv, TypeOK, LoadersStay, Loading, Critical, Chunk, Job
<1> QED
  BY <1>1, <1>2, <1>3, <1>4, ThreadFrame

\* enqueue_writeback sends: the queue keeps its bound.
LEMMA SendRequestStep == ASSUME IInv, NEW t \in Threads, SendRequest(t) PROVE IInv'
<1> USE DEF Threads, SendRequest, ReceiverGone, Goto, Return, Leave, userVars, wbVars, stopVars
<1>1. TypeOK'
  <2>1. pc' \in [Threads -> Places]
    BY DEF IInv, TypeOK, Places, Loading, Critical
  <2>2. job' \in [Threads -> Job]
    BY NoJobType DEF IInv, TypeOK
  <2>3. queue' \in Seq(Chunks) /\ Len(queue') <= QueueSize
    BY GameMapAssumption DEF IInv, TypeOK, JobsOK, Chunk
  <2> QED
    BY <2>1, <2>2, <2>3 DEF IInv, TypeOK, IsOk
<1>2. JobsOK'
  <2>1. \A s \in Threads \ {t} : pc'[s] = pc[s] /\ job'[s] = job[s]
    BY DEF IInv, TypeOK
  <2>2. \/ pc'[t] \in {"idle", "scan"} /\ job'[t] = NoJob
        \/ pc'[t] = "fill" /\ pc[t] = "genSend" /\ job'[t] = job[t]
        \/ /\ pc'[t] = "bcast" /\ pc[t] = "send" /\ job'[t] = job[t]
           /\ job[t].kind \in {"set", "cas"}
    BY DEF IInv, TypeOK
  <2>3. pc[t] \in {"send", "genSend"} /\ NoJob.kind = "none"
    BY DEF NoJob, NewJob
  <2> QED
    BY <2>1, <2>2, <2>3 DEF IInv, JobsOK, Critical, Chunk
<1>3. LocksOK'
  BY DEF IInv, TypeOK, LocksOK, WriteLocked, HasReaders, ReadLocked, Loading, Critical
<1>4. LoadersStay
  BY DEF IInv, TypeOK, LoadersStay, Loading, Critical, Chunk, Job
<1> QED
  BY <1>1, <1>2, <1>3, <1>4, ThreadFrame

\* enqueue_writeback fails.
LEMMA SendFailedStep == ASSUME IInv, NEW t \in Threads, SendFailed(t) PROVE IInv'
<1> USE DEF Threads, SendFailed, EnqueueFailed, GiveUp, Goto, Leave, userVars, wbVars, stopVars
<1>1. TypeOK'
  <2>1. pc' \in [Threads -> Places]
    BY DEF IInv, TypeOK, Places, Loading, Critical
  <2>2. job' \in [Threads -> Job]
    BY NoJobType DEF IInv, TypeOK
  <2> QED
    BY <2>1, <2>2 DEF IInv, TypeOK, IsOk
<1>2. JobsOK'
  BY GameMapAssumption DEF IInv, TypeOK, JobsOK, Job, NoJob, NewJob, Critical, Chunk
<1>3. LocksOK'
  BY DEF IInv, TypeOK, LocksOK, WriteLocked, HasReaders, ReadLocked, Loading, Critical
<1>4. LoadersStay
  BY DEF IInv, TypeOK, LoadersStay, Loading, Critical, Chunk, Job
<1> QED
  BY <1>1, <1>2, <1>3, <1>4, ThreadFrame

\* The operation ends, and gives its mutex back.
LEMMA BroadcastStep == ASSUME IInv, NEW t \in Threads, Broadcast(t) PROVE IInv'
<1> USE DEF Threads, Broadcast, Goto, Return, Leave, userVars, wbVars, stopVars
<1>1. TypeOK'
  BY GameMapAssumption DEF IInv, TypeOK, JobsOK, LoadIsNotStale, Stored, Holder, Job,
         Places, Loading, Critical, Chunk, IsOk, NoJob, NewJob
<1>2. JobsOK'
  BY GameMapAssumption DEF IInv, TypeOK, JobsOK, Job, NoJob, NewJob, Critical, Chunk
<1>3. LocksOK'
  BY DEF IInv, TypeOK, LocksOK, WriteLocked, HasReaders, ReadLocked, Loading, Critical
<1>4. LoadersStay
  BY DEF IInv, TypeOK, LoadersStay, Loading, Critical, Chunk, Job
<1> QED
  BY <1>1, <1>2, <1>3, <1>4, ThreadFrame

\* The writeback task takes a request.
LEMMA WbReceiveStep == ASSUME IInv, WbReceive PROVE IInv'
<1> USE DEF Threads, WbReceive, userVars, wbVars, stopVars
<1>1. TypeOK'
  BY GameMapAssumption DEF IInv, TypeOK, JobsOK, LoadIsNotStale, Stored, Holder, Job,
         Places, Loading, Critical, Chunk, IsOk
<1>2. LocksOK'
  BY DEF IInv, TypeOK, LocksOK, WriteLocked, HasReaders, ReadLocked, Loading, Critical
<1> QED
  BY <1>1, <1>2, TaskFrame

\* The writeback task has a batch.
LEMMA WbGatheredStep == ASSUME IInv, WbGathered PROVE IInv'
<1> USE DEF Threads, WbGathered, userVars, wbVars, stopVars
<1>1. TypeOK'
  BY GameMapAssumption DEF IInv, TypeOK, JobsOK, LoadIsNotStale, Stored, Holder, Job,
         Places, Loading, Critical, Chunk, IsOk
<1>2. LocksOK'
  BY DEF IInv, TypeOK, LocksOK, WriteLocked, HasReaders, ReadLocked, Loading, Critical
<1> QED
  BY <1>1, <1>2, TaskFrame

\* The writeback task becomes a reader: no writer has claimed the lock.
LEMMA WbLockStep == ASSUME IInv, WbLock PROVE IInv'
<1> USE DEF Threads, WbLock, Claimed, userVars, wbVars, stopVars
<1>1. TypeOK'
  BY GameMapAssumption DEF IInv, TypeOK, JobsOK, LoadIsNotStale, Stored, Holder, Job,
         Places, Loading, Critical, Chunk, IsOk
<1>2. LocksOK'
  BY DEF IInv, TypeOK, LocksOK, WriteLocked, HasReaders, ReadLocked, Loading, Critical
<1> QED
  BY <1>1, <1>2, TaskFrame

\* A chunk is saved only if it is loaded, so a chunk being loaded keeps its
\* entry of the database, and its dirty flag is cleared with the same content.
LEMMA WbChunkStep == ASSUME IInv, NEW c \in Chunks, WbChunk(c) PROVE IInv'
<1> USE DEF Threads, WbChunk, WbDie, MutexFree, userVars, wbVars, stopVars
<1>1. TypeOK'
  <2>1. IsOk(c) => Loaded(live[c].val, FALSE) \in Holder
    BY LoadedType DEF IInv, TypeOK
  <2>2. live' \in [Chunks -> Holder] /\ \A d \in Chunks : IsOk(d)' => live'[d].val \in Vals
    <3>1. CASE live' = live
      BY <3>1 DEF IInv, TypeOK, IsOk
    <3>2. CASE IsOk(c) /\ live' = [live EXCEPT ![c] = Loaded(live[c].val, FALSE)]
      BY <2>1, <3>2, LoadedType DEF IInv, TypeOK, IsOk
    <3> QED
      BY <3>1, <3>2
  <2>3. db' \in [Chunks -> Vals \cup {NoVal}]
    BY DEF IInv, TypeOK, IsOk
  <2>4. queue' \in Seq(Chunks) /\ Len(queue') <= QueueSize
    BY EmptyQueueType DEF IInv, TypeOK
  <2>5. wb' \in {"write", "dead"} /\ batch' \subseteq Chunks /\ cancelled' \in BOOLEAN
    BY DEF IInv, TypeOK
  <2> QED
    BY <2>1, <2>2, <2>3, <2>4, <2>5 DEF IInv, TypeOK, IsOk
<1>2. JobsOK'
  BY GameMapAssumption DEF IInv, TypeOK, JobsOK, Job, NoJob, NewJob, Critical, Chunk
<1>3. LocksOK'
  BY DEF IInv, TypeOK, LocksOK, WriteLocked, HasReaders, ReadLocked, Loading, Critical
<1>4. MutexOK'
  BY DEF IInv, TypeOK, JobsOK, MutexOK, LocksOK, WriteLocked, HasReaders, ReadLocked,
         Critical, Chunk, IsOk, Holder
<1>5. EmptyHasLoader'
  <2>1. \A s \in Threads : pc[s] \in Loading => pc'[s] \in Loading /\ Chunk(s)' = Chunk(s)
    BY DEF Loading, Chunk
  <2>2. \A d \in Chunks : live'[d].state = "empty" => live[d].state = "empty"
    BY DEF IInv, TypeOK, Loaded, IsOk
  <2> QED
    BY <2>1, <2>2 DEF IInv, EmptyHasLoader
<1>6. FillsEmptyHolder'
  BY DEF IInv, TypeOK, JobsOK, FillsEmptyHolder, LocksOK, WriteLocked, HasReaders,
         ReadLocked, Loading, Chunk, IsOk, Holder
<1>7. LoadIsNotStale'
  <2>1. \A s \in Threads : pc[s] \in Loading => db'[Chunk(s)] = db[Chunk(s)]
    BY DEF IInv, TypeOK, JobsOK, FillsEmptyHolder, Loading, IsOk
  <2> QED
    BY <2>1 DEF IInv, LoadIsNotStale, Loading, Stored, Chunk
<1>8. CleanMatchesDb'
  <2>1. \A d \in Chunks \ {c} : live'[d] = live[d] /\ db'[d] = db[d]
    BY DEF IInv, TypeOK
  <2>2. \/ live'[c] = live[c] /\ db'[c] = db[c]
        \/ live'[c].val = live[c].val /\ db'[c] = live[c].val
    BY DEF IInv, TypeOK, Loaded
  <2> QED
    BY <2>1, <2>2 DEF IInv, CleanMatchesDb, IsOk
<1> QED
  BY <1>1, <1>2, <1>3, <1>4, <1>5, <1>6, <1>7, <1>8 DEF IInv

\* The writeback task goes on, or ends.
LEMMA WbNextStep == ASSUME IInv, WbNext PROVE IInv'
<1> USE DEF Threads, WbNext, userVars, wbVars, stopVars
<1>1. TypeOK'
  BY GameMapAssumption DEF IInv, TypeOK, JobsOK, LoadIsNotStale, Stored, Holder, Job,
         Places, Loading, Critical, Chunk, IsOk
<1>2. LocksOK'
  BY DEF IInv, TypeOK, LocksOK, WriteLocked, HasReaders, ReadLocked, Loading, Critical
<1> QED
  BY <1>1, <1>2, TaskFrame

\* The cleanup task asks for the write lock.
LEMMA CleanupClaimStep == ASSUME IInv, CleanupClaim PROVE IInv'
<1> USE DEF Threads, CleanupClaim, Claimed, userVars, wbVars, stopVars
<1>1. TypeOK'
  BY GameMapAssumption DEF IInv, TypeOK, JobsOK, LoadIsNotStale, Stored, Holder, Job,
         Places, Loading, Critical, Chunk, IsOk
<1>2. LocksOK'
  BY DEF IInv, TypeOK, LocksOK, WriteLocked, HasReaders, ReadLocked, Loading, Critical
<1> QED
  BY <1>1, <1>2, TaskFrame

\* The cleanup task has the write lock: there are no readers.
LEMMA CleanupLockStep == ASSUME IInv, CleanupLock PROVE IInv'
<1> USE DEF Threads, CleanupLock, LiveChunks, IsLive, userVars, wbVars, stopVars
<1>1. TypeOK'
  BY GameMapAssumption DEF IInv, TypeOK, JobsOK, LoadIsNotStale, Stored, Holder, Job,
         Places, Loading, Critical, Chunk, IsOk
<1>2. LocksOK'
  BY DEF IInv, TypeOK, LocksOK, WriteLocked, HasReaders, ReadLocked, Loading, Critical
<1> QED
  BY <1>1, <1>2, TaskFrame

\* The cleanup task ends.
LEMMA CleanupExitStep == ASSUME IInv, CleanupExit PROVE IInv'
<1> USE DEF Threads, CleanupExit, userVars, wbVars, stopVars
<1>1. TypeOK'
  BY GameMapAssumption DEF IInv, TypeOK, JobsOK, LoadIsNotStale, Stored, Holder, Job,
         Places, Loading, Critical, Chunk, IsOk
<1>2. LocksOK'
  BY DEF IInv, TypeOK, LocksOK, WriteLocked, HasReaders, ReadLocked, Loading, Critical
<1> QED
  BY <1>1, <1>2, TaskFrame

\* The cleanup task gives the write lock back.
LEMMA CleanupUnlockStep == ASSUME IInv, CleanupUnlock PROVE IInv'
<1> USE DEF Threads, CleanupUnlock, userVars, wbVars, stopVars
<1>1. TypeOK'
  BY GameMapAssumption DEF IInv, TypeOK, JobsOK, LoadIsNotStale, Stored, Holder, Job,
         Places, Loading, Critical, Chunk, IsOk
<1>2. LocksOK'
  BY DEF IInv, TypeOK, LocksOK, WriteLocked, HasReaders, ReadLocked, Loading, Critical
<1> QED
  BY <1>1, <1>2, TaskFrame

\* The writer has no reader beside it, so no chunk is being loaded or worked on.
LEMMA UnloadStep == ASSUME IInv, NEW c \in Chunks, Unload(c) PROVE IInv'
<1> USE DEF Threads, Unload, userVars, wbVars, stopVars
<1>1. TypeOK'
  BY GameMapAssumption DEF IInv, TypeOK, JobsOK, LoadIsNotStale, Stored, Holder, Job,
         Places, Loading, Critical, Chunk, IsOk, Absent
<1>2. JobsOK'
  BY GameMapAssumption DEF IInv, TypeOK, JobsOK, Job, NoJob, NewJob, Critical, Chunk
<1>3. LocksOK'
  BY DEF IInv, TypeOK, LocksOK, WriteLocked, HasReaders, ReadLocked, Loading, Critical
<1>4. MutexOK'
  BY DEF IInv, TypeOK, JobsOK, MutexOK, LocksOK, WriteLocked, HasReaders, ReadLocked,
         Critical, Chunk, IsOk, Holder, Absent
<1>5. EmptyHasLoader'
  BY DEF IInv, TypeOK, JobsOK, EmptyHasLoader, FillsEmptyHolder, Loading, Chunk, IsOk,
         Holder, Absent
<1>6. FillsEmptyHolder'
  BY DEF IInv, TypeOK, JobsOK, FillsEmptyHolder, LocksOK, WriteLocked, HasReaders,
         ReadLocked, Loading, Chunk, IsOk, Holder, Absent
<1>7. LoadIsNotStale'
  BY DEF IInv, TypeOK, JobsOK, LoadIsNotStale, FillsEmptyHolder, LocksOK, WriteLocked,
         HasReaders, ReadLocked, Loading, Stored, Chunk, IsOk, Job, Absent
<1>8. CleanMatchesDb'
  BY DEF IInv, TypeOK, JobsOK, CleanMatchesDb, LoadIsNotStale, Stored, Chunk, IsOk,
         Holder, Job, Absent
<1> QED
  BY <1>1, <1>2, <1>3, <1>4, <1>5, <1>6, <1>7, <1>8 DEF IInv

\* finish_shutdown cancels the token.
LEMMA RequestShutdownStep == ASSUME IInv, RequestShutdown PROVE IInv'
<1> USE DEF Threads, RequestShutdown, userVars, wbVars, stopVars
<1>1. TypeOK'
  BY GameMapAssumption DEF IInv, TypeOK, JobsOK, LoadIsNotStale, Stored, Holder, Job,
         Places, Loading, Critical, Chunk, IsOk
<1>2. LocksOK'
  BY DEF IInv, TypeOK, LocksOK, WriteLocked, HasReaders, ReadLocked, Loading, Critical
<1> QED
  BY <1>1, <1>2, TaskFrame

\* finish_shutdown has waited for the writeback task.
LEMMA AwaitWritebackStep == ASSUME IInv, AwaitWriteback PROVE IInv'
<1> USE DEF Threads, AwaitWriteback, userVars, wbVars, stopVars
<1>1. TypeOK'
  BY GameMapAssumption DEF IInv, TypeOK, JobsOK, LoadIsNotStale, Stored, Holder, Job,
         Places, Loading, Critical, Chunk, IsOk
<1>2. LocksOK'
  BY DEF IInv, TypeOK, LocksOK, WriteLocked, HasReaders, ReadLocked, Loading, Critical
<1> QED
  BY <1>1, <1>2, TaskFrame

\* finish_shutdown has waited for the cleanup task.
LEMMA AwaitCleanupStep == ASSUME IInv, AwaitCleanup PROVE IInv'
<1> USE DEF Threads, AwaitCleanup, userVars, wbVars, stopVars
<1>1. TypeOK'
  BY GameMapAssumption DEF IInv, TypeOK, JobsOK, LoadIsNotStale, Stored, Holder, Job,
         Places, Loading, Critical, Chunk, IsOk
<1>2. LocksOK'
  BY DEF IInv, TypeOK, LocksOK, WriteLocked, HasReaders, ReadLocked, Loading, Critical
<1> QED
  BY <1>1, <1>2, TaskFrame

\* flush asks for the write lock.
LEMMA FlushClaimStep == ASSUME IInv, FlushClaim PROVE IInv'
<1> USE DEF Threads, FlushClaim, Claimed, userVars, wbVars, stopVars
<1>1. TypeOK'
  BY GameMapAssumption DEF IInv, TypeOK, JobsOK, LoadIsNotStale, Stored, Holder, Job,
         Places, Loading, Critical, Chunk, IsOk
<1>2. LocksOK'
  BY DEF IInv, TypeOK, LocksOK, WriteLocked, HasReaders, ReadLocked, Loading, Critical
<1> QED
  BY <1>1, <1>2, TaskFrame

\* flush has the write lock: there are no readers.
LEMMA FlushLockStep == ASSUME IInv, FlushLock PROVE IInv'
<1> USE DEF Threads, FlushLock, LiveChunks, IsLive, userVars, wbVars, stopVars
<1>1. TypeOK'
  BY GameMapAssumption DEF IInv, TypeOK, JobsOK, LoadIsNotStale, Stored, Holder, Job,
         Places, Loading, Critical, Chunk, IsOk
<1>2. LocksOK'
  BY DEF IInv, TypeOK, LocksOK, WriteLocked, HasReaders, ReadLocked, Loading, Critical
<1> QED
  BY <1>1, <1>2, TaskFrame

\* flush gives the write lock back.
LEMMA FlushUnlockStep == ASSUME IInv, FlushUnlock PROVE IInv'
<1> USE DEF Threads, FlushUnlock, userVars, wbVars, stopVars
<1>1. TypeOK'
  BY GameMapAssumption DEF IInv, TypeOK, JobsOK, LoadIsNotStale, Stored, Holder, Job,
         Places, Loading, Critical, Chunk, IsOk
<1>2. LocksOK'
  BY DEF IInv, TypeOK, LocksOK, WriteLocked, HasReaders, ReadLocked, Loading, Critical
<1> QED
  BY <1>1, <1>2, TaskFrame

\* After a restart nothing is in memory.
LEMMA CrashStep == ASSUME IInv, Crash PROVE IInv'
<1> USE DEF Threads, Crash, userVars, wbVars, stopVars
<1>1. TypeOK'
  <2>1. live' \in [Chunks -> Holder] /\ \A c \in Chunks : IsOk(c)' => live'[c].val \in Vals
    BY DEF IInv, TypeOK, Absent, Holder, IsOk
  <2>2. pc' \in [Threads -> Places] /\ job' \in [Threads -> Job]
    BY NoJobType DEF Places
  <2>3. queue' \in Seq(Chunks) /\ Len(queue') <= QueueSize
    BY EmptyQueueType
  <2>4. announced' \in [Chunks -> Vals]
    BY StoredType DEF IInv
  <2> QED
    BY <2>1, <2>2, <2>3, <2>4 DEF IInv, TypeOK, IsOk
<1>2. JobsOK'
  BY GameMapAssumption DEF IInv, TypeOK, JobsOK, Job, NoJob, NewJob, Critical, Chunk
<1>3. LocksOK'
  BY DEF IInv, TypeOK, LocksOK, WriteLocked, HasReaders, ReadLocked, Loading, Critical
<1>4. MutexOK'
  BY DEF IInv, TypeOK, JobsOK, MutexOK, LocksOK, WriteLocked, HasReaders, ReadLocked,
         Critical, Chunk, IsOk, Holder, Absent
<1>5. EmptyHasLoader'
  BY DEF IInv, TypeOK, JobsOK, EmptyHasLoader, FillsEmptyHolder, Loading, Chunk, IsOk,
         Holder, Absent
<1>6. FillsEmptyHolder'
  BY DEF IInv, TypeOK, JobsOK, FillsEmptyHolder, LocksOK, WriteLocked, HasReaders,
         ReadLocked, Loading, Chunk, IsOk, Holder, Absent
<1>7. LoadIsNotStale'
  BY DEF IInv, TypeOK, JobsOK, LoadIsNotStale, FillsEmptyHolder, LocksOK, WriteLocked,
         HasReaders, ReadLocked, Loading, Stored, Chunk, IsOk, Job, Absent
<1>8. CleanMatchesDb'
  BY DEF IInv, TypeOK, JobsOK, CleanMatchesDb, LoadIsNotStale, Stored, Chunk, IsOk,
         Holder, Job, Absent
<1> QED
  BY <1>1, <1>2, <1>3, <1>4, <1>5, <1>6, <1>7, <1>8 DEF IInv

\* Every step keeps the inductive invariant.
LEMMA NextIInv == IInv /\ [Next]_vars => IInv'
<1> SUFFICES ASSUME IInv, [Next]_vars PROVE IInv'
  OBVIOUS
<1>1. CASE \E u \in Users : Calls(u)
  BY <1>1, CallStep
<1>2. CASE \E s \in Shards : Ticks(s) \/ ShardExit(s)
  BY <1>2, TickStep, ShardExitStep DEF Ticks
<1>3. CASE \E t \in Threads : Inside(t)
  <2> PICK t \in Threads : Inside(t)
    BY <1>3
  <2>1. CASE GetChunk(t) \/ ClaimToInsert(t) \/ InsertHolder(t)
    BY <2>1, GetChunkStep, ClaimToInsertStep, InsertHolderStep
  <2>2. CASE Load(t) \/ Fill(t) \/ SetErr(t) \/ ChunkFailed(t) \/ TickSkips(t) \/ TickEnds(t)
    BY <2>2, LoadStep, FillStep, SetErrStep, ChunkFailedStep, TickSkipsStep, TickEndsStep
  <2>3. CASE GetBlock(t) \/ SetBlock(t) \/ CompareAndSet(t) \/ MutateBlock(t)
    BY <2>3, GetBlockStep, SetBlockStep, CompareAndSetStep, MutateBlockStep
  <2>4. CASE CheckShutdown(t) \/ SendRequest(t) \/ SendFailed(t) \/ Broadcast(t)
    BY <2>4, CheckShutdownStep, SendRequestStep, SendFailedStep, BroadcastStep
  <2> QED
    BY <2>1, <2>2, <2>3, <2>4 DEF Inside
<1>4. CASE Writeback
  BY <1>4, WbReceiveStep, WbGatheredStep, WbLockStep, WbNextStep, WbChunkStep DEF Writeback
<1>5. CASE CleanupClaim
  BY <1>5, CleanupClaimStep
<1>6. CASE Unloads
  BY <1>6, CleanupLockStep, CleanupUnlockStep, FlushLockStep, FlushUnlockStep, UnloadStep
     DEF Unloads
<1>7. CASE RequestShutdown
  BY <1>7, RequestShutdownStep
<1>8. CASE Shutdown
  BY <1>8, AwaitWritebackStep, AwaitCleanupStep, FlushClaimStep, CleanupExitStep DEF
         Shutdown
<1>9. CASE Crash
  BY <1>9, CrashStep
<1>10. CASE UNCHANGED vars
  BY <1>10 DEF vars, userVars, wbVars, stopVars, IInv, TypeOK, JobsOK, LocksOK, MutexOK,
     EmptyHasLoader, FillsEmptyHolder, LoadIsNotStale, CleanMatchesDb, IsOk, Chunk, Stored,
     WriteLocked, HasReaders
<1> QED
  BY <1>1, <1>2, <1>3, <1>4, <1>5, <1>6, <1>7, <1>8, <1>9, <1>10 DEF Next

\* The inductive invariant holds in every reachable state, whatever the chunks,
\* the threads, the operations, the queue, the crashes and the faults.
THEOREM Invariance == Spec => []IInv
<1> QED
  BY InitIInv, NextIInv, PTL DEF Spec

-----------------------------------------------------------------------------
(* The safety properties *)

\* Every variable keeps its type, the bound of the writeback queue included.
THEOREM TypeCorrect == Spec => []TypeOK
<1>1. IInv => TypeOK
  BY DEF IInv
<1> QED
  BY <1>1, Invariance, PTL

\* The assertions of fill and set_err never fail, and a chunk has one loader.
THEOREM FillNeverPanics == Spec => []FillsEmptyHolder
<1>1. IInv => FillsEmptyHolder
  BY DEF IInv
<1> QED
  BY <1>1, Invariance, PTL

\* A holder is never filled with content that the database no longer holds.
THEOREM NoStaleLoad == Spec => []LoadIsNotStale
<1>1. IInv => LoadIsNotStale
  BY DEF IInv
<1> QED
  BY <1>1, Invariance, PTL

\* A chunk that is not dirty can be dropped: the database holds its content.
THEOREM CleanIsSaved == Spec => []CleanMatchesDb
<1>1. IInv => CleanMatchesDb
  BY DEF IInv
<1> QED
  BY <1>1, Invariance, PTL

\* unload_chunk_locked never meets the empty holder it warns of.
THEOREM NoEmptyUnload == Spec => []WriterSeesNoEmpty
<1>1. IInv => WriterSeesNoEmpty
  BY DEF IInv, LocksOK, EmptyHasLoader, WriterSeesNoEmpty, HasReaders, ReadLocked
<1> QED
  BY <1>1, Invariance, PTL

-----------------------------------------------------------------------------
(* Refinement: the map is the store of BlockStore *)

\* What a step does to no chunk's content, seen from the store.
LEMMA Stutters ==
  ASSUME \A c \in Chunks : Current(c)' = Current(c) /\ Stored(c)' = Stored(c),
         UNCHANGED observed
  PROVE  UNCHANGED Store!vars
BY DEF Store!vars

\* A step that leaves the holders, the database and the callers' results alone.
LEMMA HiddenStutters == ASSUME UNCHANGED <<live, db, observed>> PROVE UNCHANGED Store!vars
<1>1. \A c \in Chunks : Current(c)' = Current(c) /\ Stored(c)' = Stored(c)
  BY DEF Current, Stored, IsOk
<1> QED
  BY <1>1, Stutters

\* Loading a chunk changes nothing that a caller could see: the holder that is
\* inserted, filled or given up stands for what the database holds.
LEMMA LoadingStutters ==
  ASSUME IInv, NEW t \in Threads, InsertHolder(t) \/ Fill(t) \/ SetErr(t)
  PROVE  UNCHANGED Store!vars
<1> USE DEF IInv, TypeOK, Current, Stored, IsOk, stopVars, wbVars
<1> SUFFICES \A c \in Chunks : Current(c)' = Current(c) /\ Stored(c)' = Stored(c)
  BY Stutters DEF InsertHolder, Fill, SetErr
<1>1. pc[t] \in {"drain", "fill", "setErr"} /\ Chunk(t) \in Chunks
  BY DEF InsertHolder, Fill, SetErr, JobsOK
<1>2. CASE InsertHolder(t)
  BY <1>1, <1>2 DEF InsertHolder, IsLive, EmptyHolder
<1>3. CASE Fill(t)
  <2>1. live[Chunk(t)].state = "empty" /\ job[t].got = Stored(Chunk(t))
    BY <1>3 DEF Fill, FillsEmptyHolder, LoadIsNotStale, Loading
  <2> QED
    BY <1>1, <1>3, <2>1 DEF Fill, Loaded
<1>4. CASE SetErr(t)
  <2>1. live[Chunk(t)].state = "empty"
    BY <1>4 DEF SetErr, FillsEmptyHolder, Loading
  <2> QED
    BY <1>1, <1>4, <2>1 DEF SetErr, ErrHolder
<1> QED
  BY <1>2, <1>3, <1>4

\* An operation that has the mutex of its chunk reads or writes the store.
LEMMA OperationReadsOrWrites ==
  ASSUME IInv, NEW t \in Threads,
         GetBlock(t) \/ SetBlock(t) \/ CompareAndSet(t) \/ MutateBlock(t)
  PROVE  Store!Read(t, Chunk(t)) \/ Store!Write(t, Chunk(t))
<1> USE DEF IInv, TypeOK, Lock
<1> PICK c \in Chunks : c = Chunk(t)
  BY DEF GetBlock, SetBlock, CompareAndSet, MutateBlock, JobsOK
<1>1. /\ IsOk(c) /\ UNCHANGED db
      /\ observed' = [observed EXCEPT ![t] = Current(c)]
      /\ job[t].kind # "read" => job[t].val \in Vals
  BY DEF GetBlock, SetBlock, CompareAndSet, MutateBlock, Current, JobsOK, Job
<1>2. [d \in Chunks |-> Stored(d)]' = [d \in Chunks |-> Stored(d)]
  BY <1>1 DEF Stored
<1>3. observed' = [observed EXCEPT ![t] = [d \in Chunks |-> Current(d)][c]]
  BY <1>1
<1>4. CASE UNCHANGED live
  <2>1. [d \in Chunks |-> Current(d)]' = [d \in Chunks |-> Current(d)]
    BY <1>1, <1>4 DEF Current, Stored, IsOk
  <2> QED
    BY <1>2, <1>3, <2>1 DEF Store!Read
<1>5. CASE \E d \in BOOLEAN : live' = [live EXCEPT ![c] = Loaded(job[t].val, d)]
                              /\ job[t].kind # "read"
  <2> PICK v \in Vals : v = job[t].val
    BY <1>1, <1>5
  <2>1. Current(c)' = v
    BY <1>1, <1>5 DEF Current, IsOk, Loaded
  <2>2. \A d \in Chunks : d # c => Current(d)' = Current(d)
    BY <1>1, <1>5 DEF Current, Stored, IsOk
  <2>3. [d \in Chunks |-> Current(d)]' = [[d \in Chunks |-> Current(d)] EXCEPT ![c] = v]
    BY <2>1, <2>2
  <2> QED
    BY <1>2, <1>3, <2>3 DEF Store!Write
<1>6. UNCHANGED live \/ \E d \in BOOLEAN :
        live' = [live EXCEPT ![c] = Loaded(job[t].val, d)] /\ job[t].kind # "read"
  <2>1. CASE GetBlock(t)
    BY <2>1 DEF GetBlock
  <2>2. CASE SetBlock(t)
    BY <2>2 DEF SetBlock
  <2>3. CASE CompareAndSet(t)
    BY <2>3 DEF CompareAndSet
  <2>4. CASE MutateBlock(t)
    <3>1. live[c].dirty \in BOOLEAN
      BY <1>1 DEF Holder
    <3> QED
      BY <2>4, <3>1 DEF MutateBlock
  <2> QED
    BY <2>1, <2>2, <2>3, <2>4
<1> QED
  BY <1>4, <1>5, <1>6

\* The writeback task saves the content of the store, or does nothing to it.
LEMMA WritebackSaves ==
  ASSUME IInv, NEW c \in Chunks, WbChunk(c)
  PROVE  Store!Save(c) \/ UNCHANGED Store!vars
<1> USE DEF IInv, TypeOK, userVars
<1>1. CASE UNCHANGED <<live, db>>
  BY <1>1, HiddenStutters DEF WbChunk
<1>2. CASE /\ IsOk(c)
           /\ db' = [db EXCEPT ![c] = live[c].val]
           /\ live' = [live EXCEPT ![c] = Loaded(live[c].val, FALSE)]
  <2>1. live[c].val # NoVal
    BY <1>2, GameMapAssumption
  <2>2. [d \in Chunks |-> Current(d)]' = [d \in Chunks |-> Current(d)]
    BY <1>2 DEF Current, Stored, IsOk, Loaded
  <2>3. [d \in Chunks |-> Stored(d)]' = [[d \in Chunks |-> Stored(d)] EXCEPT ![c] = Current(c)]
    BY <1>2, <2>1 DEF Current, Stored
  <2> QED
    BY <2>2, <2>3 DEF Store!Save, WbChunk
<1> QED
  BY <1>1, <1>2 DEF WbChunk, WbDie

\* Unloading a chunk saves it, has nothing to save, or loses what a failing
\* database does not take.
LEMMA UnloadSaves ==
  ASSUME IInv, NEW c \in Chunks, Unload(c)
  PROVE  Store!Save(c) \/ Store!Lose(c) \/ UNCHANGED Store!vars
<1> USE DEF IInv, TypeOK, userVars
<1>1. live' = [live EXCEPT ![c] = Absent] /\ UNCHANGED observed
  BY DEF Unload
<1>2. CASE ~(IsOk(c) /\ live[c].dirty)
  <2>1. UNCHANGED db
    BY <1>2 DEF Unload
  <2>2. IsOk(c) => live[c].val = Stored(c)
    BY <1>2, GameMapAssumption DEF CleanMatchesDb, Stored
  <2>3. \A d \in Chunks : Current(d)' = Current(d) /\ Stored(d)' = Stored(d)
    BY <1>1, <2>1, <2>2 DEF Current, Stored, IsOk, Absent
  <2> QED
    BY <1>1, <2>3, Stutters
<1>3. CASE IsOk(c) /\ db' = [db EXCEPT ![c] = live[c].val]
  <2>1. live[c].val # NoVal
    BY <1>3, GameMapAssumption
  <2>2. [d \in Chunks |-> Current(d)]' = [d \in Chunks |-> Current(d)]
    BY <1>1, <1>3, <2>1 DEF Current, Stored, IsOk, Absent
  <2>3. [d \in Chunks |-> Stored(d)]' = [[d \in Chunks |-> Stored(d)] EXCEPT ![c] = Current(c)]
    BY <1>3, <2>1 DEF Current, Stored
  <2> QED
    BY <1>1, <2>2, <2>3 DEF Store!Save
<1>4. CASE IsOk(c) /\ "put" \in Faults /\ UNCHANGED db
  <2>1. [d \in Chunks |-> Current(d)]' = [[d \in Chunks |-> Current(d)] EXCEPT ![c] = Stored(c)]
    BY <1>1, <1>4 DEF Current, Stored, IsOk, Absent
  <2>2. [d \in Chunks |-> Stored(d)]' = [d \in Chunks |-> Stored(d)]
    BY <1>4 DEF Stored
  <2> QED
    BY <1>1, <1>4, <2>1, <2>2 DEF Store!Lose
<1> QED
  BY <1>2, <1>3, <1>4 DEF Unload

\* A restart falls back to the database.
LEMMA CrashFallsBack == ASSUME IInv, Crash PROVE Store!Crash
<1>1. [c \in Chunks |-> Stored(c)]' = [c \in Chunks |-> Stored(c)]
  BY DEF Crash, Stored
<1>2. [c \in Chunks |-> Current(c)]' = [c \in Chunks |-> Stored(c)]
  BY DEF Crash, Current, Stored, IsOk, Absent
<1> QED
  BY <1>1, <1>2 DEF Store!Crash, Crash

\* Every step of the map is a step of the store or leaves it alone.
LEMMA NextImplements == ASSUME IInv, [Next]_vars PROVE [Store!Next]_Store!vars
<1> USE DEF userVars, wbVars, stopVars, Store!Next
<1>1. CASE \E u \in Users : Calls(u)
  BY <1>1, HiddenStutters DEF Calls, Call
<1>2. CASE \E s \in Shards : Ticks(s) \/ ShardExit(s)
  BY <1>2, HiddenStutters DEF Ticks, Tick, ShardExit
<1>3. CASE \E t \in Threads : Inside(t)
  <2> PICK t \in Threads : Inside(t)
    BY <1>3
  <2>1. CASE \/ GetChunk(t) \/ ClaimToInsert(t) \/ Load(t)
             \/ ChunkFailed(t) \/ TickSkips(t) \/ TickEnds(t)
    BY <2>1, HiddenStutters DEF GetChunk, ClaimToInsert, Load, ChunkFailed, TickSkips, TickEnds
  <2>2. CASE InsertHolder(t) \/ Fill(t) \/ SetErr(t)
    BY <2>2, LoadingStutters
  <2>3. CASE GetBlock(t) \/ SetBlock(t) \/ CompareAndSet(t) \/ MutateBlock(t)
    <3>1. Chunk(t) \in Chunks
      BY <2>3 DEF GetBlock, SetBlock, CompareAndSet, MutateBlock, Lock, IInv, JobsOK
    <3> QED
      BY <2>3, <3>1, OperationReadsOrWrites
  <2>4. CASE CheckShutdown(t) \/ SendRequest(t) \/ SendFailed(t) \/ Broadcast(t)
    BY <2>4, HiddenStutters DEF CheckShutdown, SendRequest, SendFailed, Broadcast, EnqueueFailed
  <2> QED
    BY <2>1, <2>2, <2>3, <2>4 DEF Inside
<1>4. CASE Writeback
  <2>1. CASE WbReceive \/ WbGathered \/ WbLock \/ WbNext
    BY <2>1, HiddenStutters DEF WbReceive, WbGathered, WbLock, WbNext
  <2> QED
    BY <1>4, <2>1, WritebackSaves DEF Writeback
<1>5. CASE CleanupClaim \/ RequestShutdown \/ Shutdown
  BY <1>5, HiddenStutters DEF CleanupClaim, RequestShutdown, Shutdown, AwaitWriteback,
     AwaitCleanup, FlushClaim, CleanupExit
<1>6. CASE Unloads
  <2>1. CASE CleanupLock \/ CleanupUnlock \/ FlushLock \/ FlushUnlock
    BY <2>1, HiddenStutters DEF CleanupLock, CleanupUnlock, FlushLock, FlushUnlock
  <2> QED
    BY <1>6, <2>1, UnloadSaves DEF Unloads
<1>7. CASE Crash
  BY <1>7, CrashFallsBack
<1>8. CASE UNCHANGED vars
  BY <1>8, HiddenStutters DEF vars
<1> QED
  BY <1>1, <1>2, <1>3, <1>4, <1>5, <1>6, <1>7, <1>8 DEF Next

\* The map with its cache, locks, queue, background tasks, faults and crashes
\* implements the store without them.
THEOREM Refinement == Spec => ImplementsStore
<1>1. Init => Store!Init
  <2> SUFFICES ASSUME Init PROVE Store!Init
    OBVIOUS
  <2>1. \A c \in Chunks : Current(c) = Gen[c] /\ Stored(c) = Gen[c]
    BY DEF Init, Current, Stored, IsOk, Absent
  <2> QED
    BY <2>1, GameMapAssumption DEF Init, Store!Init
<1>2. IInv /\ [Next]_vars => [Store!Next]_Store!vars
  BY NextImplements
<1> QED
  BY <1>1, <1>2, Invariance, PTL DEF Spec, ImplementsStore, Store!Spec

-----------------------------------------------------------------------------
(* Block updates and the flush, when no call of the map fails and no caller  *)
(* is left at shutdown.  OrderlyInv joins IInv.  A thread that has changed a *)
(* block before it tells of it owns the mutex of the chunk until it has, so  *)
(* the subscribers of a chunk are behind only while somebody is to tell.     *)

OrderlyRun == Drained /\ Faults = {}

\* Who has to tell of a block goes on to do so.
LEMMA ToldFrame ==
  ASSUME IInv, ToldOrTelling, UNCHANGED <<live, db, announced>>,
         \A s \in Threads : /\ MustTell(s)' <=> MustTell(s)
                            /\ MustTell(s) => job'[s] = job[s]
                            /\ pc'[s] = "bcast" => MustTell(s)'
  PROVE  ToldOrTelling'
<1>1. \A s \in Threads : MustTell(s)' => live'[Chunk(s)'].val = job'[s].val
  BY DEF ToldOrTelling, Chunk
<1>2. \A c \in Chunks : announced'[c] # Current(c)' =>
        \E s \in Threads : MustTell(s)' /\ Chunk(s)' = c
  BY DEF ToldOrTelling, Chunk, Current, Stored, IsOk
<1> QED
  BY <1>1, <1>2 DEF ToldOrTelling

\* A step of a background task that leaves the threads and the chunks alone.
LEMMA TaskIsQuiet ==
  ASSUME IInv, OrderlyInv, UNCHANGED <<live, db, announced, pc, job>>,
         wb' # "dead" /\ (wb' = "done" => cancelled'), StopIsOrderly'
  PROVE  OrderlyInv'
<1>1. NothingFails' /\ ShardsOnlyTick'
  BY DEF OrderlyInv, NothingFails, ShardsOnlyTick
<1>2. ToldOrTelling'
  BY ToldFrame DEF OrderlyInv, ToldOrTelling, MustTell
<1> QED
  BY <1>1, <1>2 DEF OrderlyInv

\* A step of t alone that touches no chunk, after which t has to tell of a block
\* if it had to before.
Quiet(t) ==
  /\ UNCHANGED <<live, db, announced, wb, unloading, phase, cancelled>>
  /\ \A s \in Threads \ {t} : pc'[s] = pc[s] /\ job'[s] = job[s]
  /\ pc'[t] # "setErr"
  /\ t \in Shards => /\ pc'[t] \notin Loading \cup {"upgrade", "drain", "bcast"}
                     /\ job'[t].kind \in {"tick", "none"}
  /\ t \in Users /\ cancelled => pc'[t] = "idle"
  /\ MustTell(t)' <=> MustTell(t)
  /\ MustTell(t) => job'[t] = job[t]
  /\ pc'[t] = "bcast" => MustTell(t)'

LEMMA QuietStep ==
  ASSUME IInv, OrderlyInv, NEW t \in Threads, Quiet(t) PROVE OrderlyInv'
<1> USE DEF OrderlyInv, Quiet
<1>1. NothingFails' /\ ShardsOnlyTick'
  BY DEF NothingFails, ShardsOnlyTick, Threads
<1>2. StopIsOrderly'
  BY DEF StopIsOrderly, Threads, LiveChunks, IsLive
<1>3. ToldOrTelling'
  <2>1. \A s \in Threads : /\ MustTell(s)' <=> MustTell(s)
                           /\ MustTell(s) => job'[s] = job[s]
                           /\ pc'[s] = "bcast" => MustTell(s)'
    BY DEF MustTell, ToldOrTelling
  <2> QED
    BY <2>1, ToldFrame
<1> QED
  BY <1>1, <1>2, <1>3

\* The steps of the threads that touch no chunk.
LEMMA ThreadsAreQuiet ==
  ASSUME OrderlyRun, IInv, OrderlyInv, NEW t \in Threads,
         \/ t \in Users /\ Calls(t)
         \/ t \in Shards /\ (Ticks(t) \/ ShardExit(t))
         \/ GetChunk(t) \/ ClaimToInsert(t) \/ Load(t) \/ ChunkFailed(t) \/ TickSkips(t)
         \/ TickEnds(t) \/ GetBlock(t) \/ CheckShutdown(t) \/ SendRequest(t) \/ SendFailed(t)
  PROVE  Quiet(t)
<1> USE DEF OrderlyInv, IInv, TypeOK, Quiet, Goto, Leave, Return, GiveUp, userVars, wbVars,
            stopVars, MustTell
<1>1. t \in Users => t \notin Shards
  BY GameMapAssumption DEF Threads
<1>2. t \in Users /\ cancelled => pc[t] = "idle"
  BY DEF StopIsOrderly
<1>3. t \in Shards => /\ pc[t] \notin Loading \cup {"upgrade", "drain", "bcast"}
                      /\ job[t].kind \in {"tick", "none"}
  BY DEF ShardsOnlyTick
<1>4. t \in Users \/ t \in Shards
  BY DEF Threads
<1>5. CASE t \in Users /\ Calls(t)
  <2>1. ~cancelled
    BY <1>5 DEF OrderlyRun, StopIsOrderly, Calls, Call
  <2> QED
    BY <1>1, <1>5, <2>1 DEF Calls, Call, Critical
<1>6. CASE t \in Shards /\ (Ticks(t) \/ ShardExit(t))
  BY <1>1, <1>3, <1>6 DEF Ticks, Tick, NewJob, ShardExit, Critical, Loading
<1>7. CASE GetChunk(t)
  BY <1>1, <1>2, <1>3, <1>4, <1>7 DEF GetChunk, NoJob, NewJob, Critical, Loading
<1>8. CASE ClaimToInsert(t)
  BY <1>1, <1>2, <1>3, <1>4, <1>8 DEF ClaimToInsert, Critical, Loading
<1>9. CASE Load(t)
  <2>1. t \in Users /\ ~cancelled
    BY <1>2, <1>3, <1>4, <1>9 DEF Load, Loading
  <2> QED
    BY <1>1, <1>9, <2>1 DEF Load, OrderlyRun, Critical, Loading
<1>10. CASE ChunkFailed(t)
  BY <1>10 DEF ChunkFailed, NothingFails, JobsOK
<1>11. CASE TickSkips(t) \/ TickEnds(t)
  BY <1>1, <1>2, <1>3, <1>4, <1>11 DEF TickSkips, TickEnds, NoJob, NewJob, Critical, Loading
<1>12. CASE GetBlock(t)
  BY <1>1, <1>2, <1>3, <1>4, <1>12 DEF GetBlock, Lock, NoJob, NewJob, Critical, Loading
<1>13. CASE CheckShutdown(t)
  BY <1>1, <1>2, <1>3, <1>4, <1>13 DEF CheckShutdown, EnqueueFailed, NoJob, NewJob, Critical, Loading
<1>14. CASE SendRequest(t)
  BY <1>1, <1>2, <1>3, <1>4, <1>14 DEF SendRequest, NoJob, NewJob, Critical, Loading
<1>15. CASE SendFailed(t)
  <2>1. cancelled
    BY <1>15 DEF SendFailed, ReceiverGone, NothingFails
  <2> QED
    BY <1>1, <1>2, <1>3, <1>4, <1>15, <2>1 DEF SendFailed, EnqueueFailed, NoJob, NewJob, Critical, Loading
<1> QED
  BY <1>5, <1>6, <1>7, <1>8, <1>9, <1>10, <1>11, <1>12, <1>13, <1>14, <1>15

\* A loader inserts and fills its holder: what readers of the chunk must see stays.
LEMMA LoadingTellsNothing ==
  ASSUME OrderlyRun, IInv, OrderlyInv, NEW t \in Threads, InsertHolder(t) \/ Fill(t)
  PROVE  OrderlyInv'
<1> USE DEF OrderlyInv, IInv, TypeOK, Goto, wbVars, stopVars
<1> PICK k \in Chunks : k = Chunk(t)
  BY DEF InsertHolder, Fill, JobsOK
<1>1. /\ t \in Users /\ t \notin Shards /\ pc[t] \in {"drain", "fill"}
      /\ ~cancelled /\ phase = "running"
  BY GameMapAssumption
     DEF Threads, InsertHolder, Fill, ShardsOnlyTick, StopIsOrderly, JobsOK, Loading
<1>2. /\ UNCHANGED <<db, job, announced, wb, unloading, phase, cancelled>>
      /\ \A s \in Threads \ {t} : pc'[s] = pc[s]
      /\ pc'[t] \in {"get", "load", "wait"}
  BY DEF InsertHolder, Fill
<1>3. \A c \in Chunks : live'[c].state # "err" /\ Current(c)' = Current(c)
  <2>1. Current(k)' = Current(k) /\ live'[k].state # "err"
    <3>1. CASE InsertHolder(t)
      BY <1>1, <3>1
         DEF InsertHolder, IsLive, EmptyHolder, Current, Stored, IsOk, NothingFails
    <3>2. CASE Fill(t)
      <4>1. live[Chunk(t)].state = "empty" /\ job[t].got = Stored(Chunk(t))
        BY <3>2 DEF Fill, FillsEmptyHolder, LoadIsNotStale, Loading
      <4> QED
        BY <1>1, <3>2, <4>1 DEF Fill, Loaded, Current, Stored, IsOk
    <3> QED
      BY <3>1, <3>2
  <2>2. \A c \in Chunks \ {k} : live'[c] = live[c]
    BY DEF InsertHolder, Fill
  <2> QED
    BY <1>2, <2>1, <2>2 DEF NothingFails, Current, Stored, IsOk
<1>4. NothingFails' /\ ShardsOnlyTick'
  <2>1. \A s \in Threads : pc'[s] # "setErr"
    BY <1>2 DEF NothingFails
  <2>2. NothingFails'
    BY <1>2, <1>3, <2>1 DEF NothingFails
  <2>3. ShardsOnlyTick'
    BY <1>1, <1>2 DEF ShardsOnlyTick, Threads
  <2> QED
    BY <2>2, <2>3
<1>5. StopIsOrderly'
  BY <1>1, <1>2 DEF StopIsOrderly
<1>6. ToldOrTelling'
  <2>1. \A s \in Threads : (MustTell(s)' <=> MustTell(s)) /\ Chunk(s)' = Chunk(s)
    BY <1>1, <1>2 DEF MustTell, Critical, Chunk
  <2>2. \A s \in Threads : MustTell(s) => live'[Chunk(s)] = live[Chunk(s)]
    <3> SUFFICES ASSUME NEW s \in Threads, MustTell(s) PROVE live'[Chunk(s)] = live[Chunk(s)]
      OBVIOUS
    <3>1. IsOk(Chunk(s)) /\ Chunk(s) \in Chunks
      BY DEF MustTell, MutexOK, JobsOK, Critical
    <3>2. CASE InsertHolder(t)
      BY <1>1, <3>1, <3>2 DEF InsertHolder, IsLive, IsOk
    <3>3. CASE Fill(t)
      <4>1. live[Chunk(t)].state = "empty"
        BY <3>3 DEF Fill, FillsEmptyHolder, Loading
      <4> QED
        BY <1>1, <3>1, <3>3, <4>1 DEF Fill, IsOk
    <3> QED
      BY <3>2, <3>3
  <2>3. \A s \in Threads : MustTell(s)' => live'[Chunk(s)'].val = job'[s].val
    BY <1>2, <2>1, <2>2 DEF ToldOrTelling
  <2>4. \A s \in Threads : pc'[s] = "bcast" => MustTell(s)'
    BY <1>2, <2>1 DEF ToldOrTelling
  <2>5. \A c \in Chunks : announced'[c] # Current(c)' => \E s \in Threads : MustTell(s)' /\ Chunk(s)' = c
    BY <1>2, <1>3, <2>1 DEF ToldOrTelling
  <2> QED
    BY <2>3, <2>4, <2>5 DEF ToldOrTelling
<1> QED
  BY <1>4, <1>5, <1>6

\* A chunk whose mutex is free is as its subscribers were told.
LEMMA FreeIsTold ==
  ASSUME ToldOrTelling, NEW c \in Chunks, MutexFree(c) PROVE announced[c] = Current(c)
BY DEF ToldOrTelling, MustTell, MutexFree

\* An operation that sets a block takes it upon itself to tell; a mutator, which tells
\* before it asks for writeback, leaves nothing to tell.
LEMMA OperationsTell ==
  ASSUME OrderlyRun, IInv, OrderlyInv, NEW t \in Threads,
         SetBlock(t) \/ CompareAndSet(t) \/ MutateBlock(t)
  PROVE  OrderlyInv'
<1> USE DEF OrderlyInv, IInv, TypeOK
<1> PICK c \in Chunks : c = Chunk(t)
  BY DEF SetBlock, CompareAndSet, MutateBlock, Lock, JobsOK
<1>1. /\ pc[t] = "wait" /\ IsOk(c) /\ MutexFree(c)
      /\ job[t].kind \in {"set", "cas", "mutate", "tick"} /\ job[t].val \in Vals
      /\ UNCHANGED <<db, wb, unloading, phase, cancelled, queue>>
  BY DEF SetBlock, CompareAndSet, MutateBlock, Lock, JobsOK, wbVars, stopVars
<1>2. \A s \in Threads \ {t} : pc'[s] = pc[s] /\ job'[s] = job[s]
  BY DEF SetBlock, CompareAndSet, MutateBlock, Goto, Return, Leave
<1>3. \A d \in Chunks \ {c} : live'[d] = live[d] /\ announced'[d] = announced[d]
  BY DEF SetBlock, CompareAndSet, MutateBlock
<1>4. announced[c] = Current(c) /\ Current(c) = live[c].val
  BY <1>1, FreeIsTold DEF Current
<1>5. /\ IsOk(c)'
      /\ pc'[t] \in {"idle", "scan", "check"}
      /\ pc'[t] = "check" => job'[t] = job[t]
      /\ pc'[t] # "check" => job'[t] = NoJob /\ (t \in Shards <=> pc'[t] = "scan")
  <2>1. CASE SetBlock(t)
    BY <1>1, <2>1 DEF SetBlock, Goto, Loaded, IsOk
  <2>2. CASE CompareAndSet(t)
    BY <1>1, <2>2 DEF CompareAndSet, Goto, Return, Leave, Loaded, IsOk
  <2>3. CASE MutateBlock(t)
    BY <1>1, <2>3 DEF MutateBlock, Goto, Return, Leave, Loaded, IsOk
  <2> QED
    BY <2>1, <2>2, <2>3
<1>6. \/ MustTell(t)' /\ live'[c].val = job'[t].val
      \/ ~MustTell(t)' /\ announced'[c] = live'[c].val
  <2>1. CASE SetBlock(t)
    BY <1>1, <2>1 DEF SetBlock, Lock, Goto, Loaded, MustTell, Critical
  <2>2. CASE CompareAndSet(t)
    BY <1>1, <1>4, <2>2
       DEF CompareAndSet, Lock, Goto, Return, Leave, Loaded, MustTell, Critical
  <2>3. CASE MutateBlock(t)
    <3>1. ~MustTell(t)'
      BY <1>1, <2>3
         DEF MutateBlock, Lock, Goto, Return, Leave, MustTell, NoJob, NewJob
    <3>2. live'[c].val = job[t].val
      BY <1>1, <2>3 DEF MutateBlock, Loaded
    <3>3. announced'[c] = job[t].val
      BY <1>1, <1>4, <2>3 DEF MutateBlock, Loaded
    <3> QED
      BY <3>1, <3>2, <3>3
  <2> QED
    BY <2>1, <2>2, <2>3
<1>7. NothingFails'
  <2>1. \A s \in Threads : pc'[s] # "setErr"
    BY <1>2, <1>5 DEF NothingFails
  <2>2. \A d \in Chunks : live'[d].state # "err"
    BY <1>3, <1>5 DEF NothingFails, IsOk
  <2> QED
    BY <1>1, <2>1, <2>2 DEF NothingFails
<1>8. ShardsOnlyTick'
  BY <1>1, <1>2, <1>5 DEF ShardsOnlyTick, NoJob, NewJob, Loading, Threads
<1>9. StopIsOrderly'
  <2>1. LiveChunks' = LiveChunks
    BY <1>1, <1>3, <1>5 DEF LiveChunks, IsLive, IsOk
  <2>2. cancelled => t \notin Users
    BY <1>1 DEF StopIsOrderly
  <2> QED
    BY <1>1, <1>2, <2>1, <2>2 DEF StopIsOrderly, Threads
<1>10. ToldOrTelling'
  <2>1. \A s \in Threads \ {t} : /\ MustTell(s)' <=> MustTell(s)
                                 /\ MustTell(s) => Chunk(s) \in Chunks \ {c}
                                 /\ Chunk(s)' = Chunk(s)
    BY <1>1, <1>2 DEF MustTell, MutexFree, JobsOK, Critical, Chunk
  <2>2. MustTell(t)' => Chunk(t)' = c /\ live'[c].val = job'[t].val
    BY <1>5, <1>6 DEF MustTell, Critical, Chunk
  <2>3. \A s \in Threads : MustTell(s)' => live'[Chunk(s)'].val = job'[s].val
    BY <1>2, <1>3, <2>1, <2>2 DEF ToldOrTelling
  <2>4. \A s \in Threads : pc'[s] = "bcast" => MustTell(s)'
    BY <1>2, <1>5, <2>1 DEF ToldOrTelling
  <2>5. \A d \in Chunks \ {c} : Current(d)' = Current(d)
    BY <1>1, <1>3 DEF Current, Stored, IsOk
  <2>6. \A d \in Chunks \ {c} : announced'[d] # Current(d)' =>
          \E s \in Threads \ {t} : MustTell(s)' /\ Chunk(s)' = d
    <3> SUFFICES ASSUME NEW d \in Chunks \ {c}, announced'[d] # Current(d)'
                 PROVE  \E s \in Threads \ {t} : MustTell(s)' /\ Chunk(s)' = d
      OBVIOUS
    <3>1. PICK s \in Threads : MustTell(s) /\ Chunk(s) = d
      BY <1>3, <2>5 DEF ToldOrTelling
    <3>2. s # t
      BY <1>1, <3>1 DEF MustTell, Critical
    <3> QED
      BY <2>1, <3>1, <3>2
  <2>7. announced'[c] # Current(c)' => MustTell(t)'
    BY <1>5, <1>6 DEF Current
  <2> QED
    BY <2>2, <2>3, <2>4, <2>6, <2>7 DEF ToldOrTelling
<1> QED
  BY <1>7, <1>8, <1>9, <1>10

\* The chunk is current again for its subscribers: whoever sends the update has the mutex.
LEMMA BroadcastTells ==
  ASSUME OrderlyRun, IInv, OrderlyInv, NEW t \in Threads, Broadcast(t)
  PROVE  OrderlyInv'
<1> USE DEF OrderlyInv, IInv, TypeOK
<1> PICK c \in Chunks : c = Chunk(t)
  BY DEF Broadcast, JobsOK
<1>1. /\ MustTell(t) /\ IsOk(c) /\ live[c].val = job[t].val /\ t \notin Shards
      /\ UNCHANGED <<live, db, wb, unloading, phase, cancelled>>
  BY DEF Broadcast, ToldOrTelling, MustTell, MutexOK, ShardsOnlyTick, wbVars, stopVars
<1>2. \A s \in Threads \ {t} : pc'[s] = pc[s] /\ job'[s] = job[s]
  BY DEF Broadcast, Goto, Return, Leave
<1>3. pc'[t] = "idle" /\ announced' = [announced EXCEPT ![c] = live[c].val]
  BY <1>1 DEF Broadcast, Goto, Return, Leave
<1>4. NothingFails' /\ ShardsOnlyTick'
  BY <1>1, <1>2, <1>3 DEF NothingFails, ShardsOnlyTick, Threads
<1>5. StopIsOrderly'
  BY <1>1, <1>2, <1>3 DEF StopIsOrderly, LiveChunks, IsLive, Threads
<1>6. ToldOrTelling'
  <2>1. \A s \in Threads \ {t} : /\ MustTell(s)' <=> MustTell(s)
                                 /\ Chunk(s)' = Chunk(s)
    BY <1>2 DEF MustTell, Chunk
  <2>2. ~MustTell(t)'
    BY <1>3 DEF MustTell, Critical
  <2>3. \A s \in Threads : MustTell(s)' => live'[Chunk(s)'].val = job'[s].val
    BY <1>1, <1>2, <2>1, <2>2 DEF ToldOrTelling
  <2>4. \A s \in Threads : pc'[s] = "bcast" => MustTell(s)'
    BY <1>2, <1>3, <2>1 DEF ToldOrTelling
  <2>5. \A d \in Chunks : announced'[d] # Current(d)' => \E s \in Threads : MustTell(s)' /\ Chunk(s)' = d
    <3> SUFFICES ASSUME NEW d \in Chunks, announced'[d] # Current(d)'
                 PROVE  \E s \in Threads : MustTell(s)' /\ Chunk(s)' = d
      OBVIOUS
    <3>1. Current(d)' = Current(d)
      BY <1>1 DEF Current, Stored, IsOk
    <3>2. d # c /\ announced[d] # Current(d)
      BY <1>1, <1>3, <3>1 DEF Current
    <3>3. PICK s \in Threads : MustTell(s) /\ Chunk(s) = d
      BY <3>2 DEF ToldOrTelling
    <3> QED
      BY <2>1, <3>2, <3>3
  <2> QED
    BY <2>3, <2>4, <2>5 DEF ToldOrTelling
<1> QED
  BY <1>4, <1>5, <1>6

\* A save and an eviction leave every chunk as it is for its readers: what goes from memory
\* is in the database.
LEMMA SavesTellNothing ==
  ASSUME OrderlyRun, IInv, OrderlyInv, NEW c \in Chunks, WbChunk(c) \/ Unload(c)
  PROVE  OrderlyInv'
<1> USE DEF OrderlyInv, IInv, TypeOK
<1>1. UNCHANGED <<pc, job, announced, wb, phase, cancelled>>
  BY DEF WbChunk, Unload, OrderlyRun, NothingFails, userVars, wbVars, stopVars
<1>2. \A d \in Chunks \ {c} : live'[d] = live[d] /\ db'[d] = db[d]
  BY DEF WbChunk, Unload, OrderlyRun, NothingFails
<1>3. live[c].val # NoVal \/ ~IsOk(c)
  BY GameMapAssumption
<1>4. /\ Current(c)' = Current(c) /\ live'[c].state # "err"
      /\ unloading' = unloading \/ (~IsLive(c)' /\ unloading' = unloading \ {c})
      /\ IsLive(c)' => IsLive(c)
  <2>1. CASE WbChunk(c)
    BY <1>3, <2>1 DEF WbChunk, OrderlyRun, NothingFails, Current, Stored, IsOk, IsLive, Loaded,
       stopVars
  <2>2. CASE Unload(c)
    <3>1. ~(IsOk(c) /\ live[c].dirty) => UNCHANGED db /\ (IsOk(c) => live[c].val = db[c])
      BY <2>2 DEF Unload, CleanMatchesDb
    <3>2. IsOk(c) /\ live[c].dirty => db'[c] = live[c].val
      BY <2>2 DEF Unload, OrderlyRun
    <3>3. ~IsOk(c)' /\ ~IsLive(c)' /\ live'[c].state # "err" /\ unloading' = unloading \ {c}
      BY <2>2 DEF Unload, Absent, IsOk, IsLive, OrderlyRun
    <3> QED
      BY <1>3, <3>1, <3>2, <3>3 DEF Current, Stored
  <2> QED
    BY <2>1, <2>2
<1>5. NothingFails' /\ ShardsOnlyTick'
  BY <1>1, <1>2, <1>4 DEF NothingFails, ShardsOnlyTick
<1>6. StopIsOrderly'
  <2>1. LiveChunks' \subseteq LiveChunks
    BY <1>2, <1>4 DEF LiveChunks, IsLive
  <2>2. LiveChunks \subseteq unloading => LiveChunks' \subseteq unloading'
    BY <1>4, <2>1 DEF LiveChunks
  <2> QED
    BY <1>1, <2>1, <2>2 DEF StopIsOrderly
<1>7. ToldOrTelling'
  <2>1. \A s \in Threads : (MustTell(s)' <=> MustTell(s)) /\ Chunk(s)' = Chunk(s)
    BY <1>1 DEF MustTell, Chunk
  <2>2. \A s \in Threads : MustTell(s) => live'[Chunk(s)].val = live[Chunk(s)].val
    <3> SUFFICES ASSUME NEW s \in Threads, MustTell(s)
                 PROVE  live'[Chunk(s)].val = live[Chunk(s)].val
      OBVIOUS
    <3>1. pc[s] \in Critical /\ Chunk(s) \in Chunks
      BY DEF MustTell, JobsOK, Critical
    <3>2. Chunk(s) # c
      BY <3>1 DEF WbChunk, MutexFree, Unload, LocksOK, HasReaders, ReadLocked
    <3> QED
      BY <1>2, <3>1, <3>2
  <2>3. \A s \in Threads : MustTell(s)' => live'[Chunk(s)'].val = job'[s].val
    BY <1>1, <2>1, <2>2 DEF ToldOrTelling
  <2>4. \A d \in Chunks : Current(d)' = Current(d)
    BY <1>2, <1>4 DEF Current, Stored, IsOk
  <2>5. \A d \in Chunks : announced'[d] # Current(d)' => \E s \in Threads : MustTell(s)' /\ Chunk(s)' = d
    BY <1>1, <2>1, <2>4 DEF ToldOrTelling
  <2>6. \A s \in Threads : pc'[s] = "bcast" => MustTell(s)'
    BY <1>1, <2>1 DEF ToldOrTelling
  <2> QED
    BY <2>3, <2>5, <2>6 DEF ToldOrTelling
<1> QED
  BY <1>5, <1>6, <1>7

\* The background tasks and finish_shutdown change no chunk otherwise, and none of them fails.
LEMMA TasksAreQuiet ==
  ASSUME OrderlyRun, IInv, OrderlyInv,
         \/ WbReceive \/ WbGathered \/ WbLock \/ WbNext
         \/ CleanupClaim \/ CleanupLock \/ CleanupUnlock \/ CleanupExit
         \/ RequestShutdown \/ AwaitWriteback \/ AwaitCleanup
         \/ FlushClaim \/ FlushLock \/ FlushUnlock
  PROVE  OrderlyInv'
<1> USE DEF OrderlyInv, IInv, TypeOK, userVars, wbVars, stopVars
<1>1. UNCHANGED <<live, db, announced, pc, job>>
  BY DEF WbReceive, WbGathered, WbLock, WbNext, CleanupClaim, CleanupLock, CleanupUnlock,
         CleanupExit, RequestShutdown, AwaitWriteback, AwaitCleanup, FlushClaim, FlushLock,
         FlushUnlock
<1>2. LiveChunks' = LiveChunks
  BY <1>1 DEF LiveChunks, IsLive
<1>3. CASE \/ WbReceive \/ WbGathered \/ WbLock \/ WbNext
           \/ CleanupClaim \/ CleanupExit \/ CleanupUnlock
  <2>1. UNCHANGED <<unloading, phase, cancelled>> /\ wb' # "dead" /\ (wb' = "done" => cancelled')
    BY <1>3 DEF WbReceive, WbGathered, WbLock, WbNext, CleanupClaim, CleanupExit,
       CleanupUnlock, NothingFails
  <2> QED
    BY <1>1, <1>2, <2>1, TaskIsQuiet DEF StopIsOrderly
<1>4. CASE RequestShutdown
  <2>1. StopIsOrderly' /\ wb' = wb
    BY <1>1, <1>4 DEF RequestShutdown, StopIsOrderly, OrderlyRun
  <2>2. cancelled'
    BY <1>4 DEF RequestShutdown
  <2> QED
    BY <1>1, <2>1, <2>2, TaskIsQuiet DEF NothingFails
<1>5. CASE CleanupLock \/ AwaitWriteback \/ AwaitCleanup \/ FlushClaim \/ FlushLock \/ FlushUnlock
  <2>1. UNCHANGED <<cancelled, wb>>
    BY <1>5 DEF CleanupLock, AwaitWriteback, AwaitCleanup, FlushClaim, FlushLock, FlushUnlock
  <2>2. StopIsOrderly'
    <3>1. cancelled' = (phase' # "running")
      BY <1>5 DEF CleanupLock, AwaitWriteback, AwaitCleanup, FlushClaim, FlushLock, FlushUnlock,
         StopIsOrderly
    <3>2. phase' = "unload" => LiveChunks \subseteq unloading'
      BY <1>5 DEF CleanupLock, AwaitWriteback, AwaitCleanup, FlushClaim, FlushLock, FlushUnlock,
         LocksOK
    <3>3. phase' = "down" => LiveChunks = {}
      BY <1>5 DEF CleanupLock, AwaitWriteback, AwaitCleanup, FlushClaim, FlushLock, FlushUnlock,
         StopIsOrderly
    <3> QED
      BY <1>1, <1>2, <2>1, <3>1, <3>2, <3>3 DEF StopIsOrderly
  <2> QED
    BY <1>1, <2>1, <2>2, TaskIsQuiet DEF NothingFails
<1> QED
  BY <1>3, <1>4, <1>5

\* After a restart every chunk is as its subscribers are told.
LEMMA CrashIsOrderly == ASSUME Crash PROVE OrderlyInv'
<1> USE DEF Crash, Stored, Absent
<1>1. NothingFails' /\ ShardsOnlyTick'
  BY DEF NothingFails, ShardsOnlyTick, NoJob, NewJob, Loading, Threads
<1>2. StopIsOrderly'
  BY DEF StopIsOrderly, Threads
<1>3. \A t \in Threads : ~MustTell(t)' /\ pc'[t] = "idle"
  BY DEF MustTell, Critical
<1>4. \A c \in Chunks : announced'[c] = Current(c)'
  BY DEF Current, Stored, IsOk
<1> QED
  BY <1>1, <1>2, <1>3, <1>4 DEF OrderlyInv, ToldOrTelling

\* At the start nothing was told, and every chunk is as it is generated.
LEMMA InitIsOrderly == Init => OrderlyInv
<1> SUFFICES ASSUME Init PROVE OrderlyInv
  OBVIOUS
<1> USE DEF Init, Absent
<1>1. NothingFails /\ ShardsOnlyTick
  BY DEF NothingFails, ShardsOnlyTick, NoJob, NewJob, Loading, Threads
<1>2. StopIsOrderly
  BY DEF StopIsOrderly, Threads
<1>3. \A t \in Threads : ~MustTell(t) /\ pc[t] = "idle"
  BY DEF MustTell, Critical
<1>4. \A c \in Chunks : announced[c] = Current(c)
  BY DEF Current, Stored, IsOk
<1> QED
  BY <1>1, <1>2, <1>3, <1>4 DEF OrderlyInv, ToldOrTelling

\* Every step of an orderly run keeps the stronger invariant.
LEMMA NextIsOrderly == OrderlyRun /\ IInv /\ OrderlyInv /\ [Next]_vars => OrderlyInv'
<1> SUFFICES ASSUME OrderlyRun, IInv, OrderlyInv, [Next]_vars PROVE OrderlyInv'
  OBVIOUS
<1>1. CASE \E u \in Users : Calls(u)
  BY <1>1, ThreadsAreQuiet, QuietStep DEF Threads
<1>2. CASE \E s \in Shards : Ticks(s) \/ ShardExit(s)
  BY <1>2, ThreadsAreQuiet, QuietStep DEF Threads
<1>3. CASE \E t \in Threads : Inside(t)
  <2> PICK t \in Threads : Inside(t)
    BY <1>3
  <2>1. CASE \/ GetChunk(t) \/ ClaimToInsert(t) \/ Load(t) \/ ChunkFailed(t) \/ TickSkips(t)
             \/ TickEnds(t) \/ GetBlock(t) \/ CheckShutdown(t) \/ SendRequest(t) \/ SendFailed(t)
    BY <2>1, ThreadsAreQuiet, QuietStep
  <2>2. CASE InsertHolder(t) \/ Fill(t)
    BY <2>2, LoadingTellsNothing
  <2>3. CASE SetBlock(t) \/ CompareAndSet(t) \/ MutateBlock(t)
    BY <2>3, OperationsTell
  <2>4. CASE Broadcast(t)
    BY <2>4, BroadcastTells
  <2>5. ~SetErr(t)
    BY DEF SetErr, OrderlyInv, NothingFails
  <2> QED
    BY <2>1, <2>2, <2>3, <2>4, <2>5 DEF Inside
<1>4. CASE Writeback
  BY <1>4, TasksAreQuiet, SavesTellNothing DEF Writeback
<1>5. CASE CleanupClaim \/ RequestShutdown \/ Shutdown
  BY <1>5, TasksAreQuiet DEF Shutdown
<1>6. CASE Unloads
  BY <1>6, TasksAreQuiet, SavesTellNothing DEF Unloads
<1>7. CASE Crash
  BY <1>7, CrashIsOrderly
<1>8. CASE UNCHANGED vars
  <2>1. UNCHANGED <<live, db, announced, pc, job, wb, cancelled, phase, unloading>>
    BY <1>8 DEF vars
  <2>2. StopIsOrderly'
    BY <2>1 DEF OrderlyInv, StopIsOrderly, LiveChunks, IsLive
  <2> QED
    BY <2>1, <2>2, TaskIsQuiet DEF OrderlyInv, NothingFails
<1> QED
  BY <1>1, <1>2, <1>3, <1>4, <1>5, <1>6, <1>7, <1>8 DEF Next

\* In a run without failing calls, and with no caller left at shutdown, OrderlyInv holds in
\* every reachable state.
THEOREM OrderlyInvariance == ASSUME OrderlyRun PROVE Spec => []OrderlyInv
<1> QED
  BY Invariance, InitIsOrderly, NextIsOrderly, PTL DEF Spec

\* Whenever no operation is in the middle of a chunk, its subscribers were told the content
\* it has: in memory or, if it was evicted or never loaded, in the database.
THEOREM SubscribersAreTold == ASSUME OrderlyRun PROVE Spec => []AnnouncedIsCurrent
<1>1. OrderlyInv => AnnouncedIsCurrent
  BY FreeIsTold DEF OrderlyInv, AnnouncedIsCurrent
<1> QED
  BY <1>1, OrderlyInvariance, PTL

\* When finish_shutdown has returned, nothing is left in memory and the database holds what
\* the subscribers were told last, whatever the timers went on to do.
THEOREM OrderlyStopSaves == ASSUME OrderlyRun PROVE Spec => []DownMeansSaved
<1>1. IInv /\ OrderlyInv => DownMeansSaved
  <2> SUFFICES ASSUME IInv, OrderlyInv, phase = "down", NEW c \in Chunks
               PROVE  ~IsLive(c) /\ Stored(c) = announced[c]
    BY DEF DownMeansSaved
  <2>1. \A d \in Chunks : ~IsLive(d) /\ ~IsOk(d)
    BY DEF OrderlyInv, StopIsOrderly, LiveChunks, IsLive, IsOk
  <2>2. MutexFree(c)
    BY <2>1 DEF IInv, MutexOK, MutexFree
  <2> QED
    BY <2>1, <2>2, FreeIsTold DEF OrderlyInv, Current
<1> QED
  BY <1>1, Invariance, OrderlyInvariance, PTL

-----------------------------------------------------------------------------
(* Nothing of the map stands still but for a full queue. *)

\* A step of a thread that keeps WaitersFit: it removes no entry, and who comes to wait for a mutex
\* finds one.
KeepsEntries(t) ==
  /\ UNCHANGED <<cancelled, phase>>
  /\ \A c \in Chunks : IsLive(c) => IsLive(c)'
  /\ \A s \in Threads \ {t} : pc'[s] = pc[s] /\ job'[s] = job[s]
  /\ pc'[t] = "wait" => IsLive(Chunk(t))'

LEMMA KeepingFits ==
  ASSUME IInv, WaitersFit, NEW t \in Threads, KeepsEntries(t) PROVE WaitersFit'
<1>1. phase' # "running" => cancelled'
  BY DEF WaitersFit, KeepsEntries
<1>2. ASSUME NEW s \in Threads, pc'[s] = "wait" PROVE IsLive(Chunk(s))'
  <2>1. CASE s = t
    BY <1>2, <2>1 DEF KeepsEntries, IsLive, Chunk
  <2>2. CASE s # t
    <3>1. pc[s] = "wait" /\ Chunk(s)' = Chunk(s) /\ Chunk(s) \in Chunks
      BY <1>2, <2>2 DEF KeepsEntries, Chunk, IInv, JobsOK
    <3>2. IsLive(Chunk(s))
      BY <3>1 DEF WaitersFit
    <3> QED
      BY <3>1, <3>2 DEF KeepsEntries, IsLive
  <2> QED
    BY <2>1, <2>2
<1> QED
  BY <1>1, <1>2 DEF WaitersFit

\* So it is with every step of a thread.
LEMMA ThreadsKeepEntries ==
  ASSUME IInv, WaitersFit, NEW t \in Threads,
         \/ t \in Users /\ Calls(t)
         \/ t \in Shards /\ (Ticks(t) \/ ShardExit(t))
         \/ Inside(t)
  PROVE  KeepsEntries(t)
<1> USE DEF IInv, TypeOK, KeepsEntries, Goto, Leave, Return, GiveUp, userVars, wbVars, stopVars,
            IsLive, Chunk
<1>1. pc[t] \notin {"idle", "scan", "ended"} => job[t].chunk \in Chunks
  BY DEF JobsOK
<1>2. CASE t \in Users /\ Calls(t)
  BY <1>2 DEF Calls, Call
<1>3. CASE t \in Shards /\ (Ticks(t) \/ ShardExit(t))
  BY <1>3 DEF Ticks, Tick, NewJob, ShardExit
<1>4. CASE GetChunk(t) \/ ClaimToInsert(t)
  BY <1>1, <1>4 DEF GetChunk, ClaimToInsert
<1>5. CASE InsertHolder(t)
  BY <1>1, <1>5 DEF InsertHolder, EmptyHolder
<1>6. CASE Load(t)
  BY <1>1, <1>6 DEF Load
<1>7. CASE Fill(t)
  BY <1>1, <1>7 DEF Fill, Loaded
<1>8. CASE SetErr(t)
  BY <1>1, <1>8 DEF SetErr, ErrHolder
<1>9. CASE ChunkFailed(t) \/ TickSkips(t) \/ TickEnds(t) \/ GetBlock(t)
  BY <1>1, <1>9 DEF ChunkFailed, TickSkips, TickEnds, GetBlock, Lock
<1>10. CASE SetBlock(t)
  BY <1>1, <1>10 DEF SetBlock, Lock, Loaded
<1>11. CASE CompareAndSet(t)
  BY <1>1, <1>11 DEF CompareAndSet, Lock, Loaded
<1>12. CASE MutateBlock(t)
  <2>1. PICK touched \in BOOLEAN :
          live' = [live EXCEPT ![Chunk(t)] =
                     Loaded(job[t].val, live[Chunk(t)].dirty \/ touched
                                          \/ job[t].val # live[Chunk(t)].val)]
    BY <1>12 DEF MutateBlock
  <2>2. UNCHANGED <<cancelled, phase>>
    BY <1>12 DEF MutateBlock, Lock
  <2>3. pc'[t] # "wait" /\ \A s \in Threads \ {t} : pc'[s] = pc[s] /\ job'[s] = job[s]
    BY <1>12 DEF MutateBlock, Lock
  <2> QED
    BY <1>1, <2>1, <2>2, <2>3 DEF Loaded
<1>13. CASE CheckShutdown(t) \/ SendRequest(t) \/ SendFailed(t) \/ Broadcast(t)
  BY <1>1, <1>13 DEF CheckShutdown, SendRequest, SendFailed, EnqueueFailed, Broadcast
<1> QED
  BY <1>2, <1>3, <1>4, <1>5, <1>6, <1>7, <1>8, <1>9, <1>10, <1>11, <1>12, <1>13 DEF Inside

\* The tasks remove entries only under the write lock, when nobody waits for a mutex.
LEMMA TasksFit ==
  ASSUME IInv, WaitersFit, Writeback \/ CleanupClaim \/ Unloads \/ RequestShutdown \/ Shutdown
  PROVE  WaitersFit'
<1> USE DEF IInv, TypeOK, userVars, wbVars, stopVars
<1>1. pc' = pc /\ job' = job
  BY DEF Writeback, WbReceive, WbGathered, WbLock, WbNext, WbChunk, CleanupClaim, Unloads,
         CleanupLock, CleanupUnlock, FlushLock, FlushUnlock, Unload, RequestShutdown, Shutdown,
         AwaitWriteback, AwaitCleanup, FlushClaim, CleanupExit
<1>2. phase' # "running" => cancelled'
  BY DEF WaitersFit, Writeback, WbReceive, WbGathered, WbLock, WbNext, WbChunk, WbDie,
         CleanupClaim, Unloads, CleanupLock, CleanupUnlock, FlushLock, FlushUnlock, Unload,
         RequestShutdown, Shutdown, AwaitWriteback, AwaitCleanup, FlushClaim, CleanupExit
<1>3. CASE \E c \in Chunks : Unload(c)
  <2>1. \A t \in Threads : pc[t] # "wait"
    BY <1>3 DEF Unload, LocksOK, HasReaders, ReadLocked
  <2> QED
    BY <1>1, <1>2, <2>1 DEF WaitersFit
<1>4. CASE ~ \E c \in Chunks : Unload(c)
  <2>1. \A c \in Chunks : IsLive(c) => IsLive(c)'
    <3>1. CASE UNCHANGED live
      BY <3>1 DEF IsLive
    <3>2. CASE \E c \in Chunks : WbChunk(c)
      BY <3>2 DEF WbChunk, WbDie, IsLive, Loaded
    <3> QED
      BY <1>4, <3>1, <3>2
         DEF Writeback, WbReceive, WbGathered, WbLock, WbNext, CleanupClaim, Unloads,
             CleanupLock, CleanupUnlock, FlushLock, FlushUnlock, RequestShutdown, Shutdown,
             AwaitWriteback, AwaitCleanup, FlushClaim, CleanupExit
  <2>2. \A t \in Threads : pc[t] = "wait" => IsLive(Chunk(t))'
    BY <1>1, <2>1 DEF WaitersFit, JobsOK, Chunk, IsLive
  <2> QED
    BY <1>1, <1>2, <2>2 DEF WaitersFit
<1> QED
  BY <1>3, <1>4

\* WaitersFit holds at the start and is kept by every step.
LEMMA InitFits == Init => WaitersFit
BY DEF Init, WaitersFit

LEMMA NextFits == IInv /\ WaitersFit /\ [Next]_vars => WaitersFit'
<1> SUFFICES ASSUME IInv, WaitersFit, [Next]_vars PROVE WaitersFit'
  OBVIOUS
<1>1. CASE UNCHANGED vars
  BY <1>1 DEF vars, WaitersFit, IsLive, Chunk
<1>2. CASE \E u \in Users : Calls(u)
  BY <1>2, ThreadsKeepEntries, KeepingFits DEF Threads
<1>3. CASE \E s \in Shards : Ticks(s) \/ ShardExit(s)
  BY <1>3, ThreadsKeepEntries, KeepingFits DEF Threads
<1>4. CASE \E t \in Threads : Inside(t)
  BY <1>4, ThreadsKeepEntries, KeepingFits
<1>5. CASE Writeback \/ CleanupClaim \/ Unloads \/ RequestShutdown \/ Shutdown
  BY <1>5, TasksFit
<1>6. CASE Crash
  BY <1>6 DEF Crash, WaitersFit
<1> QED
  BY <1>1, <1>2, <1>3, <1>4, <1>5, <1>6 DEF Next

\* Who waits for room in the queue, and nothing moves: the writeback task waits for the mutex of
\* a chunk whose owner waits for room too, or for a writer.
LEMMA SendersJam ==
  ASSUME IInv, ~CanMove, NEW t \in Threads, pc[t] \in {"send", "genSend"} PROVE QueueJam
<1> USE DEF IInv, TypeOK
<1>1. \A s \in Threads : ~ThreadMayGo(s)
  BY DEF CanMove
<1>2. ~ReceiverGone /\ ~(Len(queue) < QueueSize) /\ wb \in {"gather", "lock", "write"}
  BY <1>1 DEF ThreadMayGo, ReceiverGone
<1>3. Len(queue) = QueueSize
  <2>1. Len(queue) \in Nat /\ QueueSize \in Nat
    BY GameMapAssumption
  <2> QED
    BY <1>2, <2>1
<1>4. queue # <<>>
  BY <1>3, GameMapAssumption
<1>5. ~WritebackMayGo
  BY DEF CanMove
<1>6. CASE wb = "lock"
  BY <1>3, <1>5, <1>6 DEF WritebackMayGo, QueueJam
<1>7. CASE wb = "write"
  <2>1. PICK c \in batch : ~MutexFree(c)
    BY <1>5, <1>7 DEF WritebackMayGo
  <2>2. PICK s \in Threads : pc[s] \in Critical /\ Chunk(s) = c
    BY <2>1 DEF MutexFree
  <2>3. pc[s] = "send"
    BY <1>1, <2>2 DEF ThreadMayGo, Critical
  <2> QED
    BY <1>3, <1>7, <2>2, <2>3 DEF QueueJam
<1> QED
  BY <1>2, <1>4, <1>5, <1>6, <1>7 DEF WritebackMayGo

\* Nobody waits for room, and nothing moves: everything is at rest.
LEMMA OthersRest ==
  ASSUME IInv, WaitersFit, ~CanMove, \A t \in Threads : pc[t] \notin {"send", "genSend"}
  PROVE  AtRest
<1> USE DEF IInv, TypeOK
<1>1. \A s \in Threads : ~ThreadMayGo(s)
  BY DEF CanMove
<1>2. ~WritebackMayGo /\ ~WritersMayGo /\ ~StopMayGo
  BY DEF CanMove
<1>3. \A t \in Threads : pc[t] \notin Critical \cup Loading \cup {"scan"}
  BY <1>1 DEF ThreadMayGo, Critical, Loading
<1>4. \A c \in Chunks : MutexFree(c)
  BY <1>3 DEF MutexFree
<1>5. wb # "write"
  BY <1>2, <1>4 DEF WritebackMayGo
<1>6. \A t \in Threads : pc[t] # "wait"
  <2> SUFFICES ASSUME NEW t \in Threads, pc[t] = "wait" PROVE FALSE
    OBVIOUS
  <2>1. Chunk(t) \in Chunks /\ IsLive(Chunk(t))
    BY DEF JobsOK, WaitersFit
  <2>2. live[Chunk(t)].state \in {"empty", "err", "ok"}
    BY <2>1 DEF IsLive, Holder
  <2>3. live[Chunk(t)].state # "empty"
    BY <1>3, <2>1 DEF EmptyHasLoader
  <2> QED
    BY <1>1, <1>4, <2>1, <2>2, <2>3 DEF ThreadMayGo, IsOk
<1>7. ~HasReaders
  BY <1>3, <1>5, <1>6 DEF HasReaders, ReadLocked
<1>8. /\ cleanup \in {"idle", "done", "dead"}
      /\ phase \notin {"drain", "unload"}
      /\ \A t \in Threads : pc[t] # "drain"
  BY <1>1, <1>2, <1>7 DEF ThreadMayGo, WritersMayGo, WriteLocked
<1>9. ~Claimed
  BY <1>8 DEF Claimed
<1>10. \A t \in Threads : pc[t] \in {"idle", "ended"}
  BY <1>1, <1>3, <1>6, <1>8, <1>9 DEF ThreadMayGo, Places
<1>11. wb \in {"gather", "done", "dead"}
  BY <1>2, <1>5, <1>9 DEF WritebackMayGo
<1>12. phase \in {"running", "down", "failed"}
  BY <1>2, <1>8, <1>9, <1>11
     DEF WritebackMayGo, WritersMayGo, StopMayGo, WaitersFit, ReceiverGone
<1> QED
  BY <1>8, <1>10, <1>11, <1>12 DEF AtRest

\* In every reachable state the map is at rest, or one of its threads and tasks may go on, or
\* the writeback queue is full and its reader waits for one who waits for room: there is no
\* other deadlock of the chunk mutexes, the lock of live_chunks, the condition variables, the
\* channel and the joins of finish_shutdown.
THEOREM NoOtherDeadlock == Spec => []StallOnlyOnFullQueue
<1>1. IInv /\ WaitersFit => StallOnlyOnFullQueue
  BY SendersJam, OthersRest DEF StallOnlyOnFullQueue
<1> QED
  BY <1>1, Invariance, InitFits, NextFits, PTL DEF Spec

=============================================================================
