----------------------------- MODULE ClientSync -----------------------------
(***************************************************************************)
(* How the part of the map around a player reaches the player's client.    *)
(*                                                                         *)
(* The map announces every change of a block on a broadcast channel        *)
(* (game_map.rs).  The outbound loop of the client's context on the server *)
(* (cuberef_server/src/network_server/client_context.rs) takes updates     *)
(* from its receiver in batches, sends a full chunk before the first       *)
(* update of a chunk that the client does not know, sends the chunks near  *)
(* the player and unsubscribes from those left behind.  The inbound loop   *)
(* passes the player's positions on and acknowledges them.  The client     *)
(* (cuberef_client/src/net_client/client_context.rs) keeps a copy of each  *)
(* chunk, and complains with a BugCheck about messages that do not fit.    *)
(*                                                                         *)
(* A change and its announcement are one step: both are made under the     *)
(* mutex of the chunk, which get_chunk_client_proto takes as well.         *)
(***************************************************************************)
EXTENDS Integers, Sequences, FiniteSets, Functions

CONSTANTS
  Chunks, Blocks, Ids,
  ChunkOf,         \* ChunkOf[b]: the chunk in which block b is
  Places,          \* places (chunks) the player can be in
  NoPlace,
  Eager,           \* Eager[p]: chunks within LOAD_EAGER_DISTANCE of p
  Lazy,            \* Lazy[p]: chunks within LOAD_LAZY_DISTANCE of p
  Keep,            \* Keep[p]: chunks within UNLOAD_DISTANCE of p
  Paces,           \* values of chunks_to_send, as client and server pace them
  MaxBatch,        \* MAX_UPDATE_BATCH_SIZE
  BroadcastSize,   \* BROADCAST_CHANNEL_SIZE
  WireSize         \* messages between the loops of the server and the client

ASSUME ClientSyncAssumption ==
  /\ ChunkOf \in [Blocks -> Chunks]
  /\ Eager \in [Places -> SUBSET Chunks]
  /\ Lazy \in [Places -> SUBSET Chunks]
  /\ Keep \in [Places -> SUBSET Chunks]
  /\ \A p \in Places : Eager[p] \subseteq Lazy[p] /\ Eager[p] \subseteq Keep[p]
  /\ NoPlace \notin Places
  /\ Paces \subseteq Nat
  /\ MaxBatch \in Nat \ {0}
  /\ BroadcastSize \in Nat \ {0}
  /\ WireSize \in Nat \ {0}

VARIABLES
  world,           \* world[b]: the block in the map
  events,          \* what the receiver block_events holds
  lost,            \* blocks whose updates it has lost and not yet reported as a lag
  pos, posNew,     \* the watch channel own_positions, and whether it has changed
  pc,              \* the outbound loop
  batch,           \* updates taken from block_events, yet to be sent
  known,           \* chunks_known_to_client
  interested,      \* interested_chunks
  pending,         \* the full chunk to be sent: [chunk, content]
  visit,           \* the position update at work: its place, how many chunks it may send
  unsub,           \* chunks_to_unsubscribe
  inbound,         \* the inbound loop: "idle", or "ack" if it has one to send
  wire,            \* messages from the server to the client
  uplink,          \* a position on its way to the server
  at,              \* where the player is
  withheld,        \* the client waits for the acknowledgement of a position
  client,          \* client[c]: the client's copy of chunk c, if it has one
  complained,      \* the client has sent a BugCheck
  missed           \* blocks of which the loop dropped an update and took nothing newer

mapVars == <<world, events, lost>>
posVars == <<pos, posNew, inbound, uplink, at, withheld>>
loopVars == <<pc, batch, known, interested, pending, visit, unsub>>
clientVars == <<client, complained>>
vars == <<mapVars, posVars, loopVars, wire, clientVars, missed>>

-----------------------------------------------------------------------------
BlocksIn(c) == {b \in Blocks : ChunkOf[b] = c}

Update == [block : Blocks, id : Ids]
Lagged == lost # {}

Touched(updates) == {u.block : u \in Range(updates)}
ChunksOf(updates) == {ChunkOf[b] : b \in Touched(updates)}

\* What block b is after the updates, if it was id before.
After(updates, b, id) ==
  LET about == {i \in DOMAIN updates : updates[i].block = b}
  IN IF about = {} THEN id
     ELSE updates[CHOOSE i \in about : \A j \in about : j <= i].id

Content(c) == [BlocksIn(c) -> Ids]
FullChunk == UNION {[chunk : {c}, content : Content(c)] : c \in Chunks}
NoChunk == [chunk |-> NoPlace]

\* get_chunk_client_proto, as it is when asked to load the chunk.
Fetched(c) == [chunk |-> c, content |-> [b \in BlocksIn(c) |-> world[b]]]

ChunkMessage(full) == [type |-> "MapChunk", full |-> full]
DeltaMessage(updates) == [type |-> "MapDeltaUpdate", updates |-> updates]
UnsubscribeMessage(cs) == [type |-> "MapChunkUnsubscribe", chunks |-> cs]
AckMessage == [type |-> "HandledSequence"]

Init ==
  /\ world \in [Blocks -> Ids]
  /\ events = <<>> /\ lost = {}
  /\ at \in Places
  /\ pos \in [place : {at}, pace : Paces] /\ posNew = FALSE
  /\ pc = "select" /\ batch = <<>>
  /\ known = {} /\ interested = {}
  /\ pending = NoChunk /\ visit = [place |-> NoPlace, left |-> 0] /\ unsub = {}
  /\ inbound = "idle" /\ wire = <<>> /\ uplink = NoPlace /\ withheld = FALSE
  /\ client = [c \in {} |-> 0] /\ complained = FALSE
  /\ missed = {}

Send(message) == /\ Len(wire) < WireSize
                 /\ wire' = Append(wire, message)

-----------------------------------------------------------------------------
(* The map: a block changes and the change is broadcast.  A receiver that    *)
(* has fallen behind by the size of the channel loses its oldest update.     *)

Change(b, id) ==
  /\ world' = [world EXCEPT ![b] = id]
  /\ LET new == [block |-> b, id |-> id]
         full == Len(events) = BroadcastSize
     IN /\ events' = Append(IF full THEN Tail(events) ELSE events, new)
        /\ lost' = IF full THEN lost \cup {Head(events).block} ELSE lost
  /\ UNCHANGED <<posVars, loopVars, wire, clientVars, missed>>

-----------------------------------------------------------------------------
(* Positions: the player moves; the client sends the position unless it      *)
(* waits for the last acknowledgement; the inbound loop hands it on with the *)
(* pace it has worked out, and acknowledges it.                              *)

Move(p) ==
  /\ at' = p
  /\ UNCHANGED <<mapVars, pos, posNew, inbound, uplink, withheld, loopVars, wire,
                 clientVars, missed>>

SendPosition ==
  /\ ~withheld
  /\ uplink' = at
  /\ withheld' = TRUE
  /\ UNCHANGED <<mapVars, pos, posNew, inbound, at, loopVars, wire, clientVars, missed>>

HandlePosition(pace) ==
  /\ inbound = "idle"
  /\ uplink # NoPlace
  /\ pos' = [place |-> uplink, pace |-> pace]
  /\ posNew' = TRUE
  /\ uplink' = NoPlace
  /\ inbound' = "ack"
  /\ UNCHANGED <<mapVars, at, withheld, loopVars, wire, clientVars, missed>>

\* Mutant of SendAck: the inbound loop drops what finds no room.
SendAckIfRoom ==
  /\ inbound = "ack"
  /\ wire' = IF Len(wire) < WireSize THEN Append(wire, AckMessage) ELSE wire
  /\ inbound' = "idle"
  /\ UNCHANGED <<mapVars, pos, posNew, uplink, at, withheld, loopVars, clientVars, missed>>

SendAck ==
  /\ inbound = "ack"
  /\ Send(AckMessage)
  /\ inbound' = "idle"
  /\ UNCHANGED <<mapVars, pos, posNew, uplink, at, withheld, loopVars, clientVars, missed>>

-----------------------------------------------------------------------------
(* The outbound loop on block updates *)

\* What the client will learn from content fetched now: all but the blocks
\* for which an older update is already in the batch.
Refreshed(c) == BlocksIn(c) \ Touched(batch)

TakeUpdate ==
  /\ pc = "select"
  /\ ~Lagged /\ events # <<>>
  /\ batch' = <<Head(events)>>
  /\ events' = Tail(events)
  /\ missed' = missed \ {Head(events).block}
  /\ pc' = "drain"
  /\ UNCHANGED <<world, lost, posVars, known, interested, pending, visit, unsub,
                 wire, clientVars>>

\* Mutant of TakeLagged: the loop carries on with what it believes.
TakeLaggedAndGoOn ==
  /\ pc = "select"
  /\ Lagged
  /\ lost' = {}
  /\ UNCHANGED <<world, events, posVars, loopVars, wire, clientVars, missed>>

\* handle_block_update_lagged.  What resubscribe returns is not used.
TakeLagged ==
  /\ pc = "select"
  /\ Lagged
  /\ lost' = {}
  /\ known' = {}
  /\ interested' = {}
  /\ UNCHANGED <<world, events, posVars, pc, batch, pending, visit, unsub, wire,
                 clientVars, missed>>

\* try_recv: an update passes if its chunk is interesting (wants_block_update).
Drain ==
  /\ pc = "drain"
  /\ Len(batch) < MaxBatch
  /\ ~Lagged /\ events # <<>>
  /\ LET u == Head(events) wanted == ChunkOf[u.block] \in interested
     IN /\ batch' = IF wanted THEN Append(batch, u) ELSE batch
        /\ missed' = IF wanted THEN missed \ {u.block} ELSE missed \cup {u.block}
  /\ events' = Tail(events)
  /\ UNCHANGED <<world, lost, posVars, pc, known, interested, pending, visit, unsub,
                 wire, clientVars>>

\* try_recv reports the lag, once; the loop logs it and tries again.
DrainLagged ==
  /\ pc = "drain"
  /\ Len(batch) < MaxBatch
  /\ Lagged
  /\ lost' = {}
  /\ missed' = missed \cup lost
  /\ UNCHANGED <<world, events, posVars, loopVars, wire, clientVars>>

DrainEnds ==
  /\ pc = "drain"
  /\ Len(batch) = MaxBatch \/ (~Lagged /\ events = <<>>)
  /\ pc' = "fill"
  /\ UNCHANGED <<mapVars, posVars, batch, known, interested, pending, visit, unsub,
                 wire, clientVars, missed>>

\* maybe_send_full_chunk for a chunk of the batch.  The order among the chunks
\* of one batch is left open.
Fill(c) ==
  /\ pc = "fill"
  /\ c \in ChunksOf(batch) \ known
  /\ pending' = Fetched(c)
  /\ known' = known \cup {c}
  /\ missed' = missed \ Refreshed(c)
  /\ pc' = "fillSend"
  /\ UNCHANGED <<mapVars, posVars, batch, interested, visit, unsub, wire, clientVars>>

FillSend ==
  /\ pc = "fillSend"
  /\ Send(ChunkMessage(pending))
  /\ pending' = NoChunk
  /\ pc' = "fill"
  /\ UNCHANGED <<mapVars, posVars, batch, known, interested, visit, unsub, clientVars, missed>>

\* Mutant of SendBatch: it does not send the chunks first.
SendBatchAtOnce ==
  /\ pc = "fill"
  /\ Send(DeltaMessage(batch))
  /\ batch' = <<>>
  /\ pc' = "select"
  /\ UNCHANGED <<mapVars, posVars, known, interested, pending, visit, unsub, clientVars, missed>>

SendBatch ==
  /\ pc = "fill"
  /\ ChunksOf(batch) \subseteq known
  /\ Send(DeltaMessage(batch))
  /\ batch' = <<>>
  /\ pc' = "select"
  /\ UNCHANGED <<mapVars, posVars, known, interested, pending, visit, unsub, clientVars, missed>>

-----------------------------------------------------------------------------
(* The outbound loop on position updates *)

\* borrow_and_update; the chunks that are now too far away are forgotten.  The
\* round ends when it has sent more than chunks_to_send chunks.
TakePosition ==
  /\ pc = "select"
  /\ posNew
  /\ posNew' = FALSE
  /\ unsub' = known \ Keep[pos.place]
  /\ known' = known \cap Keep[pos.place]
  /\ interested' = interested \cap Keep[pos.place]
  /\ visit' = [place |-> pos.place, left |-> pos.pace + 1]
  /\ pc' = "load"
  /\ UNCHANGED <<mapVars, pos, inbound, uplink, at, withheld, batch, pending, wire,
                 clientVars, missed>>

\* The chunks for which get_chunk_client_proto returns content: of those that
\* are near, the ones it is asked to load.
ToLoad == {c \in Lazy[visit.place] \ known : c \in Eager[visit.place]}

\* The nearest chunks go first; the order is left open.
Load(c) ==
  /\ pc = "load"
  /\ visit.left > 0
  /\ c \in ToLoad
  /\ pending' = Fetched(c)
  /\ missed' = missed \ Refreshed(c)
  /\ pc' = "loadSend"
  /\ UNCHANGED <<mapVars, posVars, batch, known, interested, visit, unsub, wire, clientVars>>

LoadSend ==
  /\ pc = "loadSend"
  /\ Send(ChunkMessage(pending))
  /\ known' = known \cup {pending.chunk}
  /\ pending' = NoChunk
  /\ visit' = [visit EXCEPT !.left = @ - 1]
  /\ pc' = "load"
  /\ UNCHANGED <<mapVars, posVars, batch, interested, unsub, clientVars, missed>>

LoadEnds ==
  /\ pc = "load"
  /\ visit.left = 0 \/ ToLoad = {}
  /\ IF unsub = {} THEN UNCHANGED wire ELSE Send(UnsubscribeMessage(unsub))
  /\ unsub' = {}
  /\ visit' = [place |-> NoPlace, left |-> 0]
  /\ pc' = "select"
  /\ UNCHANGED <<mapVars, posVars, batch, known, interested, pending, clientVars, missed>>

-----------------------------------------------------------------------------
(* The client takes the messages in the order in which they were sent.       *)

Received == Head(wire)

\* Mutant of TakeChunk: a chunk that the client has is not replaced.
TakeChunkOnce ==
  /\ Received.type = "MapChunk"
  /\ client' = [c \in DOMAIN client \cup {Received.full.chunk} |->
                  IF c \in DOMAIN client THEN client[c] ELSE Received.full.content]
  /\ UNCHANGED <<complained, withheld>>

\* insert_or_update
TakeChunk ==
  /\ Received.type = "MapChunk"
  /\ client' = [c \in DOMAIN client \cup {Received.full.chunk} |->
                  IF c = Received.full.chunk THEN Received.full.content ELSE client[c]]
  /\ UNCHANGED <<complained, withheld>>

\* map_delta_update_sync
TakeDeltas ==
  /\ Received.type = "MapDeltaUpdate"
  /\ client' = [c \in DOMAIN client |->
                  [b \in BlocksIn(c) |-> After(Received.updates, b, client[c][b])]]
  /\ complained' = (complained \/ ~(ChunksOf(Received.updates) \subseteq DOMAIN client))
  /\ UNCHANGED withheld

\* handle_unsubscribe
TakeUnsubscribe ==
  /\ Received.type = "MapChunkUnsubscribe"
  /\ client' = [c \in DOMAIN client \ Received.chunks |-> client[c]]
  /\ complained' = (complained \/ ~(Received.chunks \subseteq DOMAIN client))
  /\ UNCHANGED withheld

\* handle_ack
TakeAck ==
  /\ Received.type = "HandledSequence"
  /\ complained' = (complained \/ ~withheld)
  /\ withheld' = FALSE
  /\ UNCHANGED client

Receive ==
  /\ wire # <<>>
  /\ TakeChunk \/ TakeDeltas \/ TakeUnsubscribe \/ TakeAck
  /\ wire' = Tail(wire)
  /\ UNCHANGED <<mapVars, pos, posNew, inbound, uplink, at, loopVars, missed>>

-----------------------------------------------------------------------------
Changes == \E b \in Blocks, id \in Ids : Change(b, id)

BlockEvent == TakeUpdate \/ TakeLagged

\* What the outbound loop does once a branch of its select has been chosen.
Handling == \/ Drain \/ DrainLagged \/ DrainEnds
            \/ \E c \in Chunks : Fill(c) \/ Load(c)
            \/ LoadEnds

Sending == FillSend \/ SendBatch \/ LoadSend

Next ==
  \/ Changes
  \/ \E p \in Places : Move(p)
  \/ SendPosition
  \/ \E pace \in Paces : HandlePosition(pace)
  \/ SendAck
  \/ BlockEvent \/ TakePosition \/ Handling \/ Sending
  \/ Receive

Spec == Init /\ [][Next]_vars

\* The branches of tokio's select! are tried in random order, and its channels
\* serve those that wait for room in turn, so none of them is passed over for
\* ever; the client's timer ticks every 0.1 s.
Fairness ==
  /\ WF_vars(SendPosition) /\ WF_vars(Receive) /\ WF_vars(Handling)
  /\ WF_vars(\E pace \in Paces : HandlePosition(pace))
  /\ SF_vars(BlockEvent) /\ SF_vars(TakePosition)
  /\ SF_vars(Sending) /\ SF_vars(LoadEnds) /\ SF_vars(SendAck)

FairSpec == Spec /\ Fairness

-----------------------------------------------------------------------------
(* Correctness *)

Message ==
  [type : {"MapChunk"}, full : FullChunk]
    \cup [type : {"MapDeltaUpdate"}, updates : Seq(Update)]
    \cup [type : {"MapChunkUnsubscribe"}, chunks : SUBSET Chunks]
    \cup {AckMessage}

\* Every variable has its type, and the bounds of batch and channels.
TypeOK ==
  /\ world \in [Blocks -> Ids]
  /\ events \in Seq(Update) /\ Len(events) <= BroadcastSize /\ lost \subseteq Blocks
  /\ pos \in [place : Places, pace : Paces] /\ posNew \in BOOLEAN
  /\ pc \in {"select", "drain", "fill", "fillSend", "load", "loadSend"}
  /\ batch \in Seq(Update) /\ Len(batch) <= MaxBatch
  /\ known \subseteq Chunks /\ interested \subseteq Chunks /\ unsub \subseteq Chunks
  /\ pending \in FullChunk \cup {NoChunk}
  /\ visit \in [place : Places \cup {NoPlace}, left : Nat]
  /\ inbound \in {"idle", "ack"} /\ withheld \in BOOLEAN
  /\ wire \in Seq(Message) /\ Len(wire) <= WireSize
  /\ uplink \in Places \cup {NoPlace} /\ at \in Places
  /\ DOMAIN client \subseteq Chunks
  /\ \A c \in DOMAIN client : client[c] \in Content(c)
  /\ complained \in BOOLEAN
  /\ missed \subseteq Blocks

\* The messages always fit what the client has: no update or unsubscription
\* for a chunk it lacks, no acknowledgement of a position it has not sent,
\* whatever lags, moves and batches come between.
NeverComplains == ~complained

\* Nothing is on its way to the client.
Quiet == events = <<>> /\ ~Lagged /\ pc = "select" /\ wire = <<>>

\* Once things are quiet, the client has every chunk that the server thinks it
\* has, and is right about each of its blocks, except for updates that the loop
\* dropped while it drained the receiver.  Lags that the main loop sees, moves,
\* and chunks that are newer than updates still on their way do no harm.
StaleOnlyIfMissed ==
  Quiet => \A c \in known :
    /\ c \in DOMAIN client
    /\ \A b \in BlocksIn(c) : client[c][b] = world[b] \/ b \in missed

\* The player stays at p, and the map does not change for ever.
StaysAt(p) == <>[](at = p) /\ ~[]<><<Changes>>_vars

\* The chunks near a player who stays somewhere arrive, and remain: whatever
\* pace, lags and full channels there are, and although the client withholds
\* its position until the last one is acknowledged.
NearChunksArrive ==
  \A p \in Places : StaysAt(p) =>
    \A c \in Eager[p] : <>[](c \in known /\ c \in DOMAIN client)

-----------------------------------------------------------------------------
(* What the source says of the updates and the code does not do. *)

\* maybe_send_full_chunk skips a known chunk: "The client already has this
\* chunk and we think they have an up to date copy."
KnownIsUpToDate ==
  Quiet => \A c \in known : \A b \in BlocksIn(c) : client[c][b] = world[b]

-----------------------------------------------------------------------------
(* The inductive invariant of NeverComplains and StaleOnlyIfMissed, see      *)
(* ClientSyncProofs.                                                         *)

\* Messages that give the client chunk c, take it away, tell it of block b.
Gives(m, c) == m.type = "MapChunk" /\ m.full.chunk = c
Takes(m, c) == m.type = "MapChunkUnsubscribe" /\ c \in m.chunks
Tells(m, b) == \/ Gives(m, ChunkOf[b])
               \/ m.type = "MapDeltaUpdate" /\ b \in Touched(m.updates)
Told(m, b) == IF m.type = "MapChunk" THEN m.full.content[b]
              ELSE After(m.updates, b, world[b])

\* The client, which has the chunks have, has chunk c when it comes to the i-th
\* of the messages w.
Held(w, have, i, c) ==
  \/ c \in have /\ \A j \in 1 .. i - 1 : ~Takes(w[j], c)
  \/ \E j \in 1 .. i - 1 : Gives(w[j], c) /\ \A k \in j + 1 .. i - 1 : ~Takes(w[k], c)

\* What a message refers to is there when the client handles it.
Fits(w, have, i) ==
  /\ w[i].type = "MapDeltaUpdate" => \A c \in ChunksOf(w[i].updates) : Held(w, have, i, c)
  /\ w[i].type = "MapChunkUnsubscribe" => \A c \in w[i].chunks : Held(w, have, i, c)

\* Chunks whose content is with the loop, not yet on the wire.
InHand == IF pc = "fillSend" THEN {pending.chunk} ELSE {}

WireFits == \A i \in 1 .. Len(wire) : Fits(wire, DOMAIN client, i)
KnownIsHeld ==
  \A c \in (known \ InHand) \cup unsub : Held(wire, DOMAIN client, Len(wire) + 1, c)

\* Where the loop is, and what it has at hand there.
LoopOK ==
  /\ pc \in {"select", "load", "loadSend"} => batch = <<>>
  /\ pc \in {"fillSend", "loadSend"} => pending \in FullChunk
  /\ pc \notin {"load", "loadSend"} => unsub = {}
  /\ pc \in {"load", "loadSend"} =>
       /\ visit.place \in Places
       /\ (known \cup InHand) \cap unsub = {}
       /\ Keep[visit.place] \cap unsub = {}
  /\ pc = "loadSend" => pending.chunk \in Eager[visit.place] /\ visit.left > 0

\* A position is on its way, or its acknowledgement is, or neither.
AcksOK ==
  LET acks == {i \in 1 .. Len(wire) : wire[i].type = "HandledSequence"}
  IN /\ uplink # NoPlace => inbound = "idle" /\ acks = {} /\ withheld
     /\ inbound = "ack" => acks = {} /\ withheld
     /\ \A i, j \in acks : i = j
     /\ acks # {} => withheld

\* Blocks of which something newer is with the receiver, or has been lost.
Unsettled == Touched(events) \cup lost \cup missed

EventsEndRight == \A b \in Touched(events) : After(events, b, world[b]) = world[b]
BatchEndsRight == \A b \in Touched(batch) \ Unsettled : After(batch, b, world[b]) = world[b]
PendingIsRight ==
  pc \in {"fillSend", "loadSend"} =>
    \A b \in BlocksIn(pending.chunk) \ (Unsettled \cup Touched(batch)) :
      pending.content[b] = world[b]

\* What the client will have for b when it has handled the messages on the wire.
WillBeRight(b) ==
  \/ \E i \in 1 .. Len(wire) :
       /\ Tells(wire[i], b) /\ Told(wire[i], b) = world[b]
       /\ \A j \in i + 1 .. Len(wire) : ~Tells(wire[j], b)
  \/ /\ \A i \in 1 .. Len(wire) : ~Tells(wire[i], b)
     /\ ChunkOf[b] \in DOMAIN client
     /\ client[ChunkOf[b]][b] = world[b]

KnownWillBeRight ==
  \A c \in known \ InHand :
    \A b \in BlocksIn(c) \ (Unsettled \cup Touched(batch)) : WillBeRight(b)

IInv == /\ TypeOK /\ LoopOK /\ AcksOK /\ NeverComplains /\ WireFits /\ KnownIsHeld
        /\ EventsEndRight /\ BatchEndsRight /\ PendingIsRight /\ KnownWillBeRight
=============================================================================
