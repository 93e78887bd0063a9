------------------------------ MODULE MCThreads ------------------------------
(***************************************************************************)
(* Small instances of the parts of Cuberef in which threads, tasks and     *)
(* messages meet and which keep no state in common: the sessions of a      *)
(* player, the game stream, the hotbar, the locks of the server and the    *)
(* threads of the client, whose modules are extended here; the meshes of   *)
(* two chunks side by side and the items of one player under failures,     *)
(* whose modules are instantiated: x1, x2, ... are the variables of such a *)
(* part, in the order in which it declares them.                           *)
(* A behaviour is one of one part, and subject says of which; the          *)
(* variables of the others rest.  The server and the client have their     *)
(* threads in common, under the names that the client gives them.          *)
(***************************************************************************)
EXTENDS PlayerSessions, Connection, Hotbar, ServerLocks, ClientThreads, TLC

CONSTANTS amy, bob, here, yonder, ann, dirt, chest

VARIABLES subject, x1, x2, x3, x4, x5, x6, x7, x8, x9, x10, x11

------------------------------------------------------------------------------
\* Of the client, all threads and one chunk, which has no neighbour.
Alone == here :> {}

\* The inbound loop and the worker, two chunks side by side.
Meshes == INSTANCE ClientThreads WITH
  Threads <- {"inbound", "worker"}, ClientChunks <- {here, yonder},
  Near <- (here :> {yonder} @@ yonder :> {here}), MaxChanges <- 1,
  todo <- x1, holder <- x2, readers <- x3, ids <- x4, mesh <- x5, draft <- x6, queue <- x7,
  overtaken <- x8

\* One player with a slot and the chest in it, who can get dirt and turn it into another
\* chest; one call that fails or kill of the process.
One(i) == [item |-> i, qty |-> 1]
Inventories == INSTANCE InventoryViews WITH
  Items <- {dirt, chest}, Stackable <- {dirt, chest}, MaxStack <- [i \in {dirt, chest} |-> 2],
  Players <- {ann}, Crafters <- {ann}, MainSlots <- 1, GridSlots <- 1, ChestSlots <- 1,
  ChestItem <- chest, Recipes <- {[slots |-> <<dirt>>, result |-> One(chest)]},
  Creative <- {dirt}, Counts <- {1}, InitMain <- (ann :> <<One(chest)>>),
  MaxFaults <- 1, MaxItems <- 1,
  main <- x1, block <- x2, saved <- x3, online <- x4, held <- x5, old <- x6, open <- x7,
  pc <- x8, job <- x9, holder <- x10, faults <- x11
------------------------------------------------------------------------------
(* The variables that a part leaves over are 0.                            *)

Rest9 == <<x9, x10, x11>>
Shared == <<x1, x2, x3, x4, x5, x6, x7, x8, Rest9>>

Zero9 == x9 = 0 /\ x10 = 0 /\ x11 = 0
Zero1 == x1 = 0 /\ x2 = 0 /\ x3 = 0 /\ x4 = 0 /\ x5 = 0 /\ x6 = 0 /\ x7 = 0 /\ x8 = 0 /\ Zero9

Init ==
  /\ SessionsInit /\ ConnectionInit /\ HotbarInit /\ NoChunks
  /\ \/ subject = "locks" /\ LocksFree(ClientMutexes, ClientTables) /\ Zero1
     \/ /\ LocksFree(Mutexes, Tables)
        /\ \/ subject \in {"sessions", "stream", "hotbar", "server"} /\ Zero1
           \/ subject = "meshes" /\ Meshes!ThreadsInit /\ Zero9
           \/ subject = "items" /\ Inventories!Init

Streaming == <<sessionsVars, connectionVars, hotbarVars>>
Extended == <<Streaming, threadsVars>>

Next ==
  /\ UNCHANGED subject
  /\ \/ subject = "sessions" /\ SessionsNext /\ UNCHANGED <<connectionVars, hotbarVars, threadsVars, Shared>>
     \/ subject = "stream" /\ ConnectionNext /\ UNCHANGED <<sessionsVars, hotbarVars, threadsVars, Shared>>
     \/ subject = "hotbar" /\ HotbarNext /\ UNCHANGED <<sessionsVars, connectionVars, threadsVars, Shared>>
     \/ subject = "locks" /\ ThreadsNext /\ UNCHANGED <<Streaming, Shared>>
     \/ subject = "server" /\ ServerNext /\ UNCHANGED <<Streaming, chunkVars, Shared>>
     \/ subject = "meshes" /\ Meshes!ThreadsNext /\ UNCHANGED <<Rest9, Extended>>
     \/ subject = "items" /\ Inventories!Next /\ UNCHANGED Extended

vars == <<subject, Extended, Shared>>
Spec == Init /\ [][Next]_vars
Symmetry == Permutations(Streams)
------------------------------------------------------------------------------
(* The properties of the extended parts are those of their modules; of the *)
(* others, each is one of their own states.                                *)

\* The type invariants of the parts, or the inductive invariants that their proofs use.
PartsOK ==
  CASE subject = "sessions" -> SessionsInv /\ ShutdownMayGoIfEnabled
    [] subject = "stream" -> ConnectionInv /\ EndsFit /\ EndsMayGoIfEnabled
    [] subject = "hotbar" -> HotbarInv
    [] subject = "locks" -> ThreadsTypeOK
    [] subject = "server" -> ServerTypeOK
    [] subject = "meshes" -> Meshes!ThreadsTypeOK /\ Meshes!NoLockCycle /\ Meshes!MeshIsCurrent
    [] subject = "items" -> Inventories!ItemsInv
==============================================================================
