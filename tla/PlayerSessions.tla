---------------------------- MODULE PlayerSessions ----------------------------
(***************************************************************************)
(* From the first message of a game stream to the last trace of its        *)
(* player: login, the table of active players and its mutex, the two       *)
(* client contexts, what a disconnect writes and gives back, the periodic  *)
(* write-back and the shutdown of the server (grpc_service.rs, auth.rs,    *)
(* player.rs, game_state/mod.rs, server.rs).                               *)
(*                                                                         *)
(* A position is the number of the update that set it; of a player's items *)
(* one is followed.  The database is a map whose calls are atomic and may  *)
(* fail.  Cryptography is external: a proof is accepted or it is not.      *)
(***************************************************************************)
EXTENDS Naturals

CONSTANTS Names, Streams,
          Nobody, NoRecord, NoPlayer,
          MaxPosition,   \* bound: position updates of one player
          MaxTroubles    \* bound: calls of the database that fail, and kills of the process

VARIABLES accounts,   \* UserMeta of the database: names with a registration
          record,     \* Player of the database: position and main inventory by name
          made,       \* how many main inventories have been made
          item,       \* where the followed item of each name is: the views of a stream; "main", the
                      \* main inventory, which it may not have come to yet; "lost" by a kill or with
                      \* a call that failed; "spilt", as the main inventory had no room for it
          full,       \* the names whose main inventory has no room for the item that left it
          active,     \* PlayerManager::active_players: the stream by name
          phase, who, \* of each stream: how far it got, under which name
          player,     \* of each stream: its Player object, as long as anything holds it
          loops,      \* of each stream: the contexts that hold its PlayerContext
          gone,       \* streams in play that the client has closed or the network has cut
          flush,      \* who walks active_players, its mutex held, and the names to go
          writeback,  \* the task writeback_loop: "runs", "ended", "failed"
          server,     \* "up", "stopping", "stopped", "flushed", "panicked"
          troubles,
          last,       \* (history) the last position accepted from each name
          missed      \* (history) names whose last session ended without its write

streamVars == <<active, phase, who, player, loops, gone>>
itemVars == <<item, full>>
dbVars == <<accounts, record, made, itemVars>>
taskVars == <<flush, writeback, server>>
history == <<last, missed>>
sessionsVars == <<streamVars, dbVars, taskVars, history, troubles>>

Handshakes == {"registering", "storing", "login", "named", "joined"}
Phases == Handshakes \cup {"idle", "playing", "leaving"}
Players == [pos : 0 .. MaxPosition, inv : Nat]
NoFlush == [by |-> "nobody", todo |-> {}]

\* None of the values that stand for nothing is one of the others.
ASSUME SessionsAssumption ==
  /\ Nobody \notin Streams /\ NoRecord \notin Players /\ NoPlayer \notin Players
  /\ {"main", "lost", "spilt"} \cap Streams = {}
  /\ MaxPosition \in Nat

\* The type invariant: of the maps, the phases and the tables.
SessionsTypeOK ==
  /\ accounts \subseteq Names /\ missed \subseteq Names
  /\ record \in [Names -> Players \cup {NoRecord}] /\ made \in Nat
  /\ item \in [Names -> {"main", "lost", "spilt"} \cup Streams] /\ full \subseteq Names
  /\ active \in [Names -> Streams \cup {Nobody}]
  /\ phase \in [Streams -> Phases] /\ who \in [Streams -> Names \cup {Nobody}]
  /\ player \in [Streams -> Players \cup {NoPlayer}]
  /\ loops \in [Streams -> SUBSET {"in", "out"}]
  /\ gone \subseteq Streams
  /\ flush \in [by : {"nobody", "loop", "final"}, todo : SUBSET Names]
  /\ writeback \in {"runs", "ended", "failed"}
  /\ server \in {"up", "stopping", "stopped", "flushed", "panicked"}
  /\ last \in [Names -> 0 .. MaxPosition] /\ troubles \in Nat
-----------------------------------------------------------------------------
SessionsInit ==
  /\ accounts = {} /\ record = [n \in Names |-> NoRecord] /\ made = 0
  /\ item = [n \in Names |-> "main"] /\ full = {}
  /\ active = [n \in Names |-> Nobody]
  /\ phase = [s \in Streams |-> "idle"] /\ who = [s \in Streams |-> Nobody]
  /\ player = [s \in Streams |-> NoPlayer] /\ loops = [s \in Streams |-> {}]
  /\ gone = {}
  /\ flush = NoFlush /\ writeback = "runs" /\ server = "up"
  /\ last = [n \in Names |-> 0] /\ missed = {} /\ troubles = 0

Fault == troubles < MaxTroubles /\ troubles' = troubles + 1
TableFree == flush = NoFlush
Goes(s, p) == phase' = [phase EXCEPT ![s] = p]

\* The stream ends with an error, or because its client did: nothing of it remains.
Fails(s) ==
  /\ Goes(s, "idle") /\ who' = [who EXCEPT ![s] = Nobody] /\ gone' = gone \ {s}
  /\ UNCHANGED <<active, player, loops>>
-----------------------------------------------------------------------------
(* The authentication flow, one message of the client at a time.           *)

\* game_stream and do_auth_flow: a task for each stream; its first message names the
\* player and says whether to register.
StartAuthentication(s, n) ==
  /\ server = "up" /\ phase[s] = "idle"
  /\ \/ Goes(s, "registering")
     \/ n \in accounts /\ Goes(s, "login")
  /\ who' = [who EXCEPT ![s] = n]
  /\ UNCHANGED <<active, player, loops, gone, dbVars, taskVars, history, troubles>>

\* A name that is refused, another message than the one expected, a wrong proof, none at all.
Refuse(s) ==
  /\ phase[s] \in {"registering", "login"}
  /\ Fails(s)
  /\ UNCHANGED <<dbVars, taskVars, history, troubles>>

\* finish_registration looks the name up ...
LookUpName(s) ==
  /\ phase[s] = "registering"
  /\ \/ /\ who[s] \notin accounts /\ Goes(s, "storing")
        /\ UNCHANGED <<who, gone, active, player, loops>>
     \/ who[s] \in accounts /\ Fails(s)
  /\ UNCHANGED <<dbVars, taskVars, history, troubles>>

\* ... and stores what the client uploaded; AuthSuccess follows.
StoreAccount(s) ==
  /\ phase[s] = "storing"
  /\ \/ /\ accounts' = accounts \cup {who[s]} /\ Goes(s, "named")
        /\ UNCHANGED <<who, gone, active, player, loops, troubles>>
     \/ Fault /\ Fails(s) /\ UNCHANGED accounts
  /\ UNCHANGED <<record, made, itemVars, taskVars, history>>

\* finish_login accepts; AuthSuccess follows.
FinishLogin(s) ==
  /\ phase[s] = "login"
  /\ Goes(s, "named")
  /\ UNCHANGED <<active, who, player, loops, gone, dbVars, taskVars, history, troubles>>
-----------------------------------------------------------------------------
(* PlayerManager::connect: one critical section of active_players.         *)

Enters(s, p) ==
  /\ active' = [active EXCEPT ![who[s]] = s]
  /\ player' = [player EXCEPT ![s] = p]
  /\ Goes(s, "joined")
  /\ last' = [last EXCEPT ![who[s]] = p.pos] /\ missed' = missed \ {who[s]}
  /\ UNCHANGED <<who, loops, gone>>

\* Mutant of ConnectKnown: the name is not looked up in the table.
ConnectAnyway(s) ==
  /\ record[who[s]] # NoRecord
  /\ Enters(s, record[who[s]])
  /\ UNCHANGED <<record, made, itemVars, troubles>>

\* The record is there: the player stands where it says.
ConnectKnown(s) ==
  /\ active[who[s]] = Nobody /\ record[who[s]] # NoRecord
  /\ Enters(s, record[who[s]])
  /\ UNCHANGED <<record, made, itemVars, troubles>>

\* Mutant of ConnectNew: a record that cannot be read counts as none.
ConnectUnread(s) ==
  /\ active[who[s]] = Nobody
  /\ \/ record[who[s]] = NoRecord /\ UNCHANGED troubles
     \/ record[who[s]] # NoRecord /\ Fault
  /\ LET p == [pos |-> 0, inv |-> made + 1]
     IN /\ made' = made + 1
        /\ Enters(s, p) /\ record' = [record EXCEPT ![who[s]] = p]
  /\ UNCHANGED itemVars

\* new_player and its first write_back.
ConnectNew(s) ==
  /\ active[who[s]] = Nobody /\ record[who[s]] = NoRecord
  /\ LET p == [pos |-> 0, inv |-> made + 1]
     IN /\ made' = made + 1
        /\ \/ Enters(s, p) /\ record' = [record EXCEPT ![who[s]] = p] /\ UNCHANGED troubles
           \/ Fault /\ Fails(s) /\ UNCHANGED <<record, history>>   \* the inventory stays behind
  /\ UNCHANGED itemVars

\* The name is in the table, or the database does not answer.
ConnectRefused(s) ==
  /\ \/ active[who[s]] # Nobody /\ UNCHANGED troubles
     \/ active[who[s]] = Nobody /\ Fault
  /\ Fails(s)
  /\ UNCHANGED <<record, made, itemVars, history>>

Connect(s) ==
  /\ phase[s] = "named" /\ TableFree
  /\ ConnectKnown(s) \/ ConnectNew(s) \/ ConnectRefused(s)
  /\ UNCHANGED <<accounts, taskVars>>

\* ClientInitialReady: make_client_contexts, and a task for each of the two loops.
ClientInitialReady(s) ==
  /\ phase[s] = "joined"
  /\ Goes(s, "playing") /\ loops' = [loops EXCEPT ![s] = {"in", "out"}]
  /\ UNCHANGED <<active, who, player, gone, dbVars, taskVars, history, troubles>>

\* Another message, or none: the stream ends and lets go of its PlayerContext.
NotReady(s) ==
  /\ phase[s] = "joined"
  /\ Goes(s, "leaving")
  /\ UNCHANGED <<active, who, player, loops, gone, dbVars, taskVars, history, troubles>>
-----------------------------------------------------------------------------
(* The two loops.                                                          *)

\* handle_pos_update.
UpdatePosition(s) ==
  /\ "in" \in loops[s] /\ player[s].pos < MaxPosition
  /\ player' = [player EXCEPT ![s].pos = @ + 1]
  /\ last' = [last EXCEPT ![who[s]] = player[s].pos + 1]
  /\ UNCHANGED <<active, phase, who, loops, gone, dbVars, taskVars, missed,
                 troubles>>

\* clear_if_transient: the item goes back to its slot, or to any other with room, or nowhere:
\* without room it is spilt, and if the call fails it is gone.
Returns(n) ==
  \/ n \notin full /\ item' = [item EXCEPT ![n] = "main"] /\ UNCHANGED troubles
  \/ n \in full /\ item' = [item EXCEPT ![n] = "spilt"] /\ UNCHANGED troubles
  \/ Fault /\ item' = [item EXCEPT ![n] = "lost"]

\* The item comes from the main inventory to the player's hand, or goes back as a popup closes.
MoveItem(s) ==
  /\ "in" \in loops[s]
  /\ \/ item[who[s]] = "main" /\ item' = [item EXCEPT ![who[s]] = s] /\ UNCHANGED troubles
     \/ item[who[s]] = s /\ Returns(who[s])
  /\ UNCHANGED <<streamVars, accounts, record, made, full, taskVars, history>>

\* What the player digs, or moves from a chest, takes the room that the item has left in the
\* main inventory.  (Room that is made again is as if it had not been taken.)
FillMain(s) ==
  /\ "in" \in loops[s] /\ item[who[s]] \in Streams
  /\ full' = full \cup {who[s]}
  /\ UNCHANGED <<streamVars, accounts, record, made, item, taskVars, history, troubles>>

\* The client closes the stream, or leaves without a word.
Leave(s) ==
  /\ phase[s] = "playing" /\ s \notin gone
  /\ gone' = gone \cup {s}
  /\ UNCHANGED <<active, phase, who, player, loops, dbVars, taskVars, history, troubles>>

\* Mutant of Cancelled: the Drop of the outbound context leaves the token alone.
CancelledByInbound(s) == "in" \notin loops[s]

\* The token that both contexts share; the Drop of either cancels it.
Cancelled(s) == loops[s] # {"in", "out"}

LoopEnds(s, x) ==
  /\ loops' = [loops EXCEPT ![s] = @ \ {x}]
  /\ phase' = [phase EXCEPT ![s] = IF loops[s] = {x} THEN "leaving" ELSE @]
  /\ UNCHANGED <<active, who, player, gone, dbVars, taskVars, history, troubles>>

\* The client has closed its side, or the token is cancelled.
InboundLoopEnds(s) ==
  /\ "in" \in loops[s] /\ (s \in gone \/ Cancelled(s))
  /\ LoopEnds(s, "in")

\* A message that cannot be sent, the token, or the shutdown.
OutboundLoopEnds(s) ==
  /\ "out" \in loops[s] /\ (s \in gone \/ Cancelled(s) \/ server # "up")
  /\ LoopEnds(s, "out")
-----------------------------------------------------------------------------
(* drop_disconnect by the last holder of the PlayerContext.                *)

\* Mutant of Disconnect: the entry goes before the record is written.
DisconnectUnwritten(s) ==
  /\ phase[s] = "leaving" /\ active[who[s]] = s /\ TableFree
  /\ active' = [active EXCEPT ![who[s]] = Nobody]
  /\ UNCHANGED <<record, troubles, missed, phase, who, player, loops, gone,
                 accounts, made, itemVars, last, taskVars>>

\* Under the mutex: the record is written, or the error is logged; the entry goes.
Disconnect(s) ==
  /\ phase[s] = "leaving" /\ active[who[s]] = s /\ TableFree
  /\ active' = [active EXCEPT ![who[s]] = Nobody]
  /\ \/ record' = [record EXCEPT ![who[s]] = player[s]] /\ UNCHANGED <<troubles, missed>>
     \/ Fault /\ missed' = missed \cup {who[s]} /\ UNCHANGED record
  /\ UNCHANGED <<phase, who, player, loops, gone, accounts, made, itemVars, last,
                 taskVars>>

\* Mutant of DropPlayer: the views are dropped with what they hold.
DropPlayerOnly(s) ==
  /\ phase[s] = "leaving" /\ active[who[s]] # s
  /\ Goes(s, "idle") /\ who' = [who EXCEPT ![s] = Nobody]
  /\ player' = [player EXCEPT ![s] = NoPlayer]
  /\ gone' = gone \ {s}
  /\ UNCHANGED <<active, loops, dbVars, taskVars, history, troubles>>

\* Then the Player and its views: what they hold is returned to the main inventory, which a
\* new session of the same name may have filled by now.
DropPlayer(s) ==
  /\ phase[s] = "leaving" /\ active[who[s]] # s
  /\ Goes(s, "idle") /\ who' = [who EXCEPT ![s] = Nobody]
  /\ player' = [player EXCEPT ![s] = NoPlayer]
  /\ gone' = gone \ {s}
  /\ IF item[who[s]] = s THEN Returns(who[s]) ELSE UNCHANGED <<item, troubles>>
  /\ UNCHANGED <<active, loops, accounts, record, made, full, taskVars, history>>
-----------------------------------------------------------------------------
(* PlayerManager::flush, of the periodic task and of the shutdown.         *)

InTable == {n \in Names : active[n] # Nobody}

\* The timer of writeback_loop has run off, or the shutdown woke it.
FlushStart ==
  /\ writeback = "runs" /\ TableFree /\ server # "panicked"
  /\ flush' = [by |-> "loop", todo |-> InTable]
  /\ UNCHANGED <<streamVars, dbVars, writeback, server, history, troubles>>

\* One player is encoded and written; the first that cannot be ends it all.
FlushOne(n) ==
  /\ n \in flush.todo
  /\ \/ /\ record' = [record EXCEPT ![n] = player[active[n]]]
        /\ flush' = [flush EXCEPT !.todo = @ \ {n}]
        /\ UNCHANGED <<writeback, server, troubles>>
     \/ /\ Fault /\ flush' = NoFlush
        /\ writeback' = IF flush.by = "loop" THEN "failed" ELSE writeback
        /\ server' = IF flush.by = "final" THEN "panicked" ELSE server
        /\ UNCHANGED record
  /\ UNCHANGED <<streamVars, accounts, made, itemVars, history>>

\* The task looks at the token only here; the last flush ends the shutdown.
FlushEnd ==
  /\ flush # NoFlush /\ flush.todo = {}
  /\ flush' = NoFlush
  /\ writeback' = IF flush.by = "loop" /\ server \notin {"up", "stopping"} THEN "ended" ELSE writeback
  /\ server' = IF flush.by = "final" THEN "flushed" ELSE server
  /\ UNCHANGED <<streamVars, dbVars, history, troubles>>

\* start_shutdown, or Ctrl+C.
StartShutdown ==
  /\ server = "up" /\ server' = "stopping"
  /\ UNCHANGED <<streamVars, dbVars, flush, writeback, history, troubles>>

\* serve returns once no connection is left (that of a handshake may have been cut); Drop of Server stops the map and the players.
ServeReturns ==
  /\ server = "stopping" /\ \A s \in Streams : phase[s] \in Handshakes \cup {"idle"} \/ s \in gone
  /\ server' = "stopped"
  /\ UNCHANGED <<streamVars, dbVars, flush, writeback, history, troubles>>

\* PlayerManager::await_shutdown, after the map's: an error of the task is the server's.
AwaitShutdown ==
  /\ server = "stopped" /\ TableFree
  /\ \/ /\ writeback = "ended"
        /\ flush' = [by |-> "final", todo |-> InTable] /\ UNCHANGED <<server, troubles>>
     \/ /\ (writeback = "failed" /\ UNCHANGED troubles) \/ Fault     \* or the map could not stop
        /\ server' = "panicked" /\ UNCHANGED flush
  /\ UNCHANGED <<streamVars, dbVars, writeback, history>>

\* The process is killed; another one starts on the same database.
Crash ==
  /\ Fault
  /\ missed' = missed \cup InTable
  /\ item' = [n \in Names |-> IF item[n] \in Streams THEN "lost" ELSE item[n]]
  /\ active' = [n \in Names |-> Nobody]
  /\ phase' = [s \in Streams |-> "idle"] /\ who' = [s \in Streams |-> Nobody]
  /\ player' = [s \in Streams |-> NoPlayer] /\ loops' = [s \in Streams |-> {}]
  /\ gone' = {}
  /\ flush' = NoFlush /\ writeback' = "runs" /\ server' = "up"
  /\ UNCHANGED <<accounts, record, made, full, last>>
-----------------------------------------------------------------------------
LogsIn(s) ==
  \/ (\E n \in Names : StartAuthentication(s, n)) \/ Refuse(s)
  \/ LookUpName(s) \/ StoreAccount(s) \/ FinishLogin(s)
Plays(s) ==
  \/ Connect(s) \/ ClientInitialReady(s) \/ NotReady(s) \/ UpdatePosition(s)
  \/ MoveItem(s) \/ FillMain(s)
Ends(s) ==
  \/ Leave(s)
  \/ InboundLoopEnds(s) \/ OutboundLoopEnds(s) \/ Disconnect(s) \/ DropPlayer(s)
Writes == FlushStart \/ (\E n \in Names : FlushOne(n)) \/ FlushEnd
Stops == StartShutdown \/ ServeReturns \/ AwaitShutdown \/ Crash

SessionsNext == (\E s \in Streams : LogsIn(s) \/ Plays(s) \/ Ends(s)) \/ Writes \/ Stops

SessionsSpec == SessionsInit /\ [][SessionsNext]_sessionsVars
-----------------------------------------------------------------------------
\* A player is in the game once: whoever has been let in and has not begun to leave is
\* the one in the table, however logins, disconnects and flushes follow one another.
OneSession == \A s \in Streams : phase[s] \in {"joined", "playing"} => active[who[s]] = s

\* The record of a player who is not connected holds the last position accepted from
\* them, unless the write of that disconnect failed or the process was killed.
RecordIsLatest ==
  \A n \in Names : active[n] = Nobody /\ record[n] # NoRecord /\ n \notin missed
                      => record[n].pos = last[n]

\* A record is never replaced by an older one, and a player keeps the main inventory of
\* the first login through failed reads and writes, kills and shutdowns.
RecordStep ==
  \A n \in Names : record[n] # NoRecord =>
    /\ record'[n] # NoRecord
    /\ record'[n].inv = record[n].inv /\ record'[n].pos >= record[n].pos
RecordGoesForward == [][RecordStep]_sessionsVars

\* What the views of a session hold belongs to a player who is still there: when the last of
\* a session has gone it is back in the main inventory, however sessions of one name follow
\* one another.  The exceptions are the code's: it is lost only if a call has failed or the
\* process was killed, and spilt only if the room it had left was taken, by that session
\* or by the next one.
ItemsReturn ==
  \A n \in Names :
    /\ item[n] \in Streams => who[item[n]] = n /\ player[item[n]] # NoPlayer
    /\ item[n] = "lost" => troubles > 0
    /\ item[n] = "spilt" => n \in full

(* What these rest on: the inductive invariant.                            *)

InGame == {"joined", "playing", "leaving"}

\* A stream has a name from its first message on, a Player from connect to the drop of its
\* context, and loops while it is in play.
StreamsFit ==
  \A s \in Streams :
    /\ phase[s] # "idle" => who[s] \in Names
    /\ player[s] # NoPlayer <=> phase[s] \in InGame
    /\ loops[s] # {} <=> phase[s] = "playing"

\* An entry of the table is a stream of that name in the game; a flush walks entries only.
TableFits ==
  /\ \A n \in Names : active[n] # Nobody => who[active[n]] = n /\ phase[active[n]] \in InGame
  /\ flush.todo \subseteq InTable

\* Whoever is in the table has a record, which is behind him at most in his position.
RecordsFit ==
  \A n \in Names : active[n] # Nobody =>
    /\ last[n] = player[active[n]].pos
    /\ record[n] # NoRecord
    /\ record[n].inv = player[active[n]].inv /\ record[n].pos <= player[active[n]].pos

SessionsInv ==
  /\ SessionsTypeOK /\ StreamsFit /\ TableFits /\ OneSession
  /\ RecordsFit /\ RecordIsLatest /\ ItemsReturn
-----------------------------------------------------------------------------
\* What the server does by itself during a shutdown, the periodic flush left out; and where
\* a stream and the tasks may do it, which are the guards of these steps.
ShutdownStep ==
  \/ \E s \in Streams : Connect(s) \/ InboundLoopEnds(s) \/ OutboundLoopEnds(s) \/ Disconnect(s) \/ DropPlayer(s)
  \/ FlushStart /\ server = "stopped"
  \/ (\E n \in Names : FlushOne(n)) \/ FlushEnd \/ ServeReturns \/ AwaitShutdown
StreamMayGo(s) ==
  \/ phase[s] = "named" /\ TableFree
  \/ "in" \in loops[s] /\ (s \in gone \/ Cancelled(s))
  \/ "out" \in loops[s]
  \/ phase[s] = "leaving" /\ (active[who[s]] = s => TableFree)
ServerMayGo ==
  \/ flush # NoFlush
  \/ server = "stopping" /\ \A s \in Streams : phase[s] \in Handshakes \cup {"idle"} \/ s \in gone
  \/ server = "stopped"
ShutdownMayGoIfEnabled ==
  server # "up" => (ENABLED ShutdownStep <=> ServerMayGo \/ \E s \in Streams : StreamMayGo(s))

\* A shutdown never stands still, with a player kicked off or not, before the server has
\* come to its end: no loop, disconnect or flush waits for something that never comes.
ShutdownGoesOn ==
  server # "up" =>
    \/ ServerMayGo \/ \E s \in Streams : StreamMayGo(s)
    \/ server \in {"flushed", "panicked"} /\ \A s \in Streams : phase[s] \in Handshakes \cup {"idle"}
=============================================================================
