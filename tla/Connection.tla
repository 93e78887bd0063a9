----------------------------- MODULE Connection -----------------------------
(***************************************************************************)
(* The game stream after login: the inbound and the outbound loop of the   *)
(* client, those of the server, and the two bounded channels between them  *)
(* (client_context.rs of both, net_client/mod.rs, grpc_service.rs).        *)
(*                                                                         *)
(* A send waits for room in its channel, so it is a step of its own after  *)
(* the one that decides on it.  What an update or an action says is left   *)
(* out.  The stream closes for both ends when the network breaks or when   *)
(* the client drops its receiving half; sends then fail and reads end.  A  *)
(* loop that is cancelled may take a message more: select! picks any of    *)
(* what is ready.                                                          *)
(***************************************************************************)
EXTENDS Naturals, Sequences, Functions

CONSTANTS Capacity,     \* of each channel (4 in the code)
          MaxSequence,  \* bound: sequence numbers
          Nothing

VARIABLES sequence, unacked, lastPosition,  \* OutboundContext: sequence, ack_map, last_pos_update_seq
          sending,      \* the message the outbound loop of the client waits to send
          loop,         \* the four loops: "new", "up", "down", or "crashed", with no word to the others
          cancelled,    \* the cancellation tokens of "client" and "server"
          meshing,      \* the mesh worker of the client runs
          told,         \* pending_error: the window knows of a failure
          open, toServer, toClient,
          handling,     \* sequence number of the message that the server has handled and not yet acknowledged
          moved,        \* the position watched by the outbound loop of the server has changed
          giving        \* that loop waits to send an update

clientVars == <<sequence, unacked, lastPosition, sending, meshing, told>>
serverVars == <<handling, moved, giving>>
channels == <<open, toServer, toClient>>
connectionVars == <<clientVars, serverVars, channels, loop, cancelled>>

ClientIn == "client in"    ClientOut == "client out"
ServerIn == "server in"    ServerOut == "server out"
Loops == {ClientIn, ClientOut, ServerIn, ServerOut}
Message(n, k) == [seq |-> n, kind |-> k]
Update == 0   \* whatever else than an acknowledgement goes to the client
Messages == [seq : 0 .. MaxSequence, kind : {"ready", "position", "action", "bug"}]

\* Nothing is neither a number nor a message; a channel of tokio has room for one at least.
ASSUME ConnectionAssumption ==
  /\ Capacity \in Nat \ {0} /\ MaxSequence \in Nat \ {0}
  /\ Nothing \notin Nat /\ Nothing \notin Messages

\* The type invariant; a message to the client is the number it acknowledges, or Update.
ConnectionTypeOK ==
  /\ sequence \in 1 .. MaxSequence /\ unacked \subseteq 1 .. MaxSequence
  /\ lastPosition \in (1 .. MaxSequence) \cup {Nothing}
  /\ sending \in Messages \cup {Nothing}
  /\ loop \in [Loops -> {"new", "up", "down", "crashed"}] /\ cancelled \subseteq {"client", "server"}
  /\ meshing \in BOOLEAN /\ told \in BOOLEAN /\ open \in BOOLEAN
  /\ toServer \in Seq(Messages) /\ Len(toServer) <= Capacity
  /\ toClient \in Seq(0 .. MaxSequence) /\ Len(toClient) <= Capacity
  /\ handling \in (1 .. MaxSequence) \cup {Nothing} /\ moved \in BOOLEAN /\ giving \in BOOLEAN

\* After the login the client starts its loops, and sends that it is ready.
ConnectionInit ==
  /\ sequence = 1 /\ unacked = {} /\ lastPosition = Nothing
  /\ sending = Message(0, "ready")
  /\ loop = [l \in Loops |-> IF l \in {ClientIn, ClientOut} THEN "up" ELSE "new"]
  /\ cancelled = {} /\ meshing = TRUE /\ told = FALSE
  /\ open = TRUE /\ toServer = <<>> /\ toClient = <<>>
  /\ handling = Nothing /\ moved = FALSE /\ giving = FALSE

Up(l) == loop[l] = "up"
Downs(ls) == loop' = [l \in Loops |-> IF l \in ls THEN "down" ELSE loop[l]]

------------------------------------------------------------------------------
(* The outbound loop of the client: one message at a time. *)

\* send_sequenced_message takes a number, notes it, and only then waits for room.
SendSequenced(kind) ==
  /\ Up(ClientOut) /\ sending = Nothing
  /\ sequence < MaxSequence
  /\ sequence' = sequence + 1
  /\ unacked' = unacked \cup {sequence + 1}
  /\ sending' = Message(sequence + 1, kind)
  /\ UNCHANGED <<lastPosition, meshing, told, serverVars, channels, loop, cancelled>>

\* A position is withheld as long as the one before it is not acknowledged.
SendPosition == lastPosition \notin unacked /\ SendSequenced("position")
HandleGameAction == SendSequenced("action")

\* A position or a velocity that is not finite cannot be converted: the loop returns before
\* it takes a number, and nobody hears of it.
PositionFails ==
  /\ Up(ClientOut) /\ sending = Nothing /\ lastPosition \notin unacked
  /\ loop' = [loop EXCEPT ![ClientOut] = "crashed"]
  /\ UNCHANGED <<clientVars, serverVars, channels, cancelled>>

Sent ==
  /\ Up(ClientOut) /\ sending # Nothing
  /\ open /\ Len(toServer) < Capacity
  /\ toServer' = Append(toServer, sending)
  /\ sending' = Nothing
  /\ lastPosition' = IF sending.kind = "position" THEN sending.seq ELSE lastPosition
  /\ UNCHANGED <<sequence, unacked, meshing, told, serverVars, open, toClient, loop, cancelled>>

\* The channel is closed (the send fails), or the cancellation is seen between two messages.
OutboundEnds ==
  /\ Up(ClientOut)
  /\ IF sending = Nothing THEN "client" \in cancelled ELSE ~open
  /\ sending' = Nothing
  /\ Downs({ClientOut})
  /\ UNCHANGED <<sequence, unacked, lastPosition, meshing, told, serverVars, channels, cancelled>>

\* The player returns to the menu or quits; or the window has shown a pending error and drops the game.
Quit == cancelled' = cancelled \cup {"client"}
        /\ UNCHANGED <<clientVars, serverVars, channels, loop>>
ShowError ==
  /\ told /\ told' = FALSE
  /\ cancelled' = cancelled \cup {"client"}
  /\ UNCHANGED <<sequence, unacked, lastPosition, sending, meshing, serverVars, channels, loop>>

------------------------------------------------------------------------------
(* The inbound loop of the client. *)

\* An acknowledgement nobody waits for is answered by a bug check, which waits for room like any message.
HandleAck(n) ==
  /\ unacked' = unacked \ {n}
  /\ IF n \in unacked THEN UNCHANGED toServer
     ELSE Len(toServer) < Capacity /\ toServer' = Append(toServer, Message(0, "bug"))

TakeMessage ==
  /\ Up(ClientIn)
  /\ open /\ toClient # <<>>
  /\ toClient' = Tail(toClient)
  /\ \/ Head(toClient) # Update /\ HandleAck(Head(toClient))
     \/ Head(toClient) = Update /\ UNCHANGED <<unacked, toServer>>
  /\ UNCHANGED <<sequence, lastPosition, sending, meshing, told, serverVars, open, loop, cancelled>>

\* The loop is over and its half of the stream dropped, which closes the stream.
DropsInbound ==
  /\ Downs({ClientIn})
  /\ open' = FALSE /\ toServer' = <<>> /\ toClient' = <<>>
  /\ UNCHANGED <<sequence, unacked, lastPosition, sending, serverVars>>

\* The stream failed: the window is told, the other loop is not.
InboundFails ==
  /\ Up(ClientIn) /\ ~open
  /\ told' = TRUE
  /\ DropsInbound /\ UNCHANGED <<meshing, cancelled>>

\* Both loops of the server are gone and all they sent is read.
Disconnected ==
  /\ Up(ClientIn)
  /\ open /\ toClient = <<>> /\ loop[ServerIn] = "down" /\ loop[ServerOut] = "down"
  /\ cancelled' = cancelled \cup {"client"}
  /\ UNCHANGED <<clientVars, serverVars, channels, loop>>

InboundCancelled ==
  /\ Up(ClientIn) /\ "client" \in cancelled
  /\ DropsInbound /\ UNCHANGED <<meshing, told, cancelled>>

\* The mesh worker fails: the inbound loop returns, and nobody else hears of it.
MeshWorkerFails ==
  /\ Up(ClientIn) /\ meshing
  /\ meshing' = FALSE
  /\ DropsInbound /\ UNCHANGED <<told, cancelled>>

------------------------------------------------------------------------------
(* The loops of the server. *)

ServerUnchanged == UNCHANGED <<clientVars, open, toServer, toClient>>

\* game_stream_impl waits for the ready message before it starts the loops.
Greet ==
  /\ loop[ServerIn] = "new" /\ open /\ toServer # <<>>
  /\ toServer' = Tail(toServer)
  /\ loop' = [l \in Loops |-> IF l \in {ServerIn, ServerOut} THEN "up" ELSE loop[l]]
  /\ UNCHANGED <<clientVars, serverVars, open, toClient, cancelled>>

GreetFails ==
  /\ loop[ServerIn] = "new" /\ ~open
  /\ Downs({ServerIn, ServerOut})
  /\ UNCHANGED <<clientVars, serverVars, channels, cancelled>>

\* An action may be refused, and is then not acknowledged; a message without a number never is.
\* A position would be refused without its vectors or with one that is not finite, which the
\* client cannot send (PositionFails).
HandleMessage ==
  /\ Up(ServerIn) /\ handling = Nothing
  /\ open /\ toServer # <<>>
  /\ toServer' = Tail(toServer)
  /\ LET msg == Head(toServer)
     IN /\ handling' \in IF msg.seq = 0 THEN {Nothing}
                         ELSE IF msg.kind = "action" THEN {msg.seq, Nothing} ELSE {msg.seq}
        /\ moved' = (moved \/ msg.kind = "position")
  /\ UNCHANGED <<clientVars, giving, open, toClient, loop, cancelled>>

\* Mutant of SendAck: an acknowledgement that finds no room is given up.
SendAckOrNot ==
  /\ Up(ServerIn) /\ handling # Nothing
  /\ toClient' = IF open /\ Len(toClient) < Capacity THEN Append(toClient, handling) ELSE toClient
  /\ handling' = Nothing
  /\ UNCHANGED <<clientVars, moved, giving, open, toServer, loop, cancelled>>

SendAck ==
  /\ Up(ServerIn) /\ handling # Nothing
  /\ IF open THEN Len(toClient) < Capacity /\ toClient' = Append(toClient, handling)
             ELSE UNCHANGED toClient
  /\ handling' = Nothing
  /\ UNCHANGED <<clientVars, moved, giving, open, toServer, loop, cancelled>>

\* The end of the stream, or a cancellation seen between two messages; the context is dropped.
ServerInboundEnds ==
  /\ Up(ServerIn) /\ handling = Nothing
  /\ ~open \/ "server" \in cancelled
  /\ Downs({ServerIn}) /\ cancelled' = cancelled \cup {"server"}
  /\ ServerUnchanged /\ UNCHANGED serverVars

\* A new position, or an event of the map or of an inventory: something is to be sent.
HandleUpdate ==
  /\ Up(ServerOut) /\ ~giving
  /\ giving' = TRUE
  /\ moved' \in {moved, FALSE}
  /\ ServerUnchanged /\ UNCHANGED <<handling, loop, cancelled>>

\* Mutant of Give: nobody waits for room.
GiveAnyway ==
  /\ Up(ServerOut) /\ giving
  /\ open /\ toClient' = Append(toClient, Update)
  /\ giving' = FALSE
  /\ UNCHANGED <<clientVars, open, toServer, handling, moved, loop, cancelled>>

Give ==
  /\ Up(ServerOut) /\ giving
  /\ open /\ Len(toClient) < Capacity
  /\ toClient' = Append(toClient, Update)
  /\ giving' = FALSE
  /\ UNCHANGED <<clientVars, handling, moved, open, toServer, loop, cancelled>>

\* Mutant of DropsOutbound: the context of the outbound loop is dropped without cancelling the inbound loop.
DropsOutboundQuietly ==
  /\ Downs({ServerOut}) /\ giving' = FALSE
  /\ ServerUnchanged /\ UNCHANGED <<handling, moved, cancelled>>

\* The context of the outbound loop is dropped, which cancels the inbound loop.
DropsOutbound ==
  /\ Downs({ServerOut}) /\ cancelled' = cancelled \cup {"server"}
  /\ giving' = FALSE
  /\ ServerUnchanged /\ UNCHANGED <<handling, moved>>

\* A send fails, or a chunk cannot be had; the game shuts down; the other loop has ended.
GiveFails == Up(ServerOut) /\ giving /\ ~open /\ DropsOutbound
FetchFails == Up(ServerOut) /\ ~giving /\ moved /\ DropsOutbound
Shutdown == Up(ServerOut) /\ ~giving /\ DropsOutbound
ServerOutboundEnds == Up(ServerOut) /\ ~giving /\ "server" \in cancelled /\ DropsOutbound

------------------------------------------------------------------------------
NetworkBreaks ==
  /\ open /\ open' = FALSE
  /\ toServer' = <<>> /\ toClient' = <<>>
  /\ UNCHANGED <<clientVars, serverVars, loop, cancelled>>

\* What goes on by itself, and what comes from outside.
GoesOn ==
  \/ Sent \/ OutboundEnds \/ ShowError
  \/ TakeMessage \/ InboundFails \/ Disconnected \/ InboundCancelled
  \/ Greet \/ GreetFails \/ HandleMessage \/ SendAck \/ ServerInboundEnds
  \/ Give \/ GiveFails \/ ServerOutboundEnds
ConnectionNext ==
  \/ GoesOn
  \/ SendPosition \/ PositionFails \/ HandleGameAction \/ Quit \/ MeshWorkerFails
  \/ HandleUpdate \/ FetchFails \/ Shutdown \/ NetworkBreaks

ConnectionSpec == ConnectionInit /\ [][ConnectionNext]_connectionVars

------------------------------------------------------------------------------
Acks == Range(toClient) \ {Update}

\* An acknowledgement on its way is one that the client waits for, so that it
\* never sends a bug check; and a position that is withheld waits for something
\* on its way, so that a player whose stream works never stops moving for the
\* others (handle_ack, send_position_update, send_ack).
AnswersFit ==
  /\ Acks \cup ({handling} \ {Nothing}) \subseteq unacked
  /\ open /\ Up(ClientOut) /\ lastPosition \in unacked /\ loop[ServerIn] # "down" =>
       \/ \E i \in DOMAIN toServer : toServer[i].seq = lastPosition
       \/ lastPosition \in Acks \cup {handling}

------------------------------------------------------------------------------
(* What AnswersFit rests on: the inductive invariant. *)

\* The numbers on their way: taken but not sent, sent but not handled, handled but not
\* acknowledged; Acks are those acknowledged.
Taken == IF sending = Nothing THEN {} ELSE {sending.seq} \ {0}
Asked == {toServer[i].seq : i \in DOMAIN toServer} \ {0}
InHand == {handling} \ {Nothing}
OnTheirWay == Acks \cup InHand \cup Asked \cup Taken
LastMoved == {lastPosition} \ {Nothing}

\* Every number on its way is one that the client waits for, and was handed out.
NumbersFit ==
  /\ OnTheirWay \subseteq unacked /\ OnTheirWay \cup LastMoved \subseteq 1 .. sequence

\* Nothing overtakes: a number is on its way once, the older the further.
Before(older, newer) == \A m \in older, n \in newer : m < n
InOrder ==
  /\ \A i, j \in DOMAIN toClient :
       i < j /\ toClient[i] # Update /\ toClient[j] # Update => toClient[i] < toClient[j]
  /\ \A i, j \in DOMAIN toServer :
       i < j /\ toServer[i].seq # 0 /\ toServer[j].seq # 0 => toServer[i].seq < toServer[j].seq
  /\ Before(Acks, InHand \cup Asked) /\ Before(InHand, Asked)
  /\ Before(Acks \cup InHand \cup Asked \cup LastMoved, Taken)

\* What has the number of the last position is a position, which always gets an answer.
PositionsFit ==
  /\ \A i \in DOMAIN toServer : toServer[i].seq = lastPosition => toServer[i].kind = "position"
  /\ sending # Nothing /\ sending.kind = "position" => sending.seq # 0

\* The message that the server waits for to start its loops is one without a number.
ReadyComesFirst ==
  loop[ServerIn] = "new" /\ open =>
    IF toServer = <<>> THEN sending # Nothing /\ sending.seq = 0 ELSE toServer[1].seq = 0

ConnectionInv ==
  /\ ConnectionTypeOK /\ NumbersFit /\ InOrder /\ PositionsFit /\ ReadyComesFirst
  /\ AnswersFit
------------------------------------------------------------------------------
\* What NothingIsLeft rests on besides: who has something in hand runs, and whoever has ended
\* has left a sign of it, the token or the closed stream, for the one that runs on.
EndsFit ==
  /\ loop[ClientIn] # "new" /\ loop[ClientOut] # "new" /\ (loop[ServerIn] = "new" <=> loop[ServerOut] = "new")
  /\ \A l \in Loops \ {ClientOut} : loop[l] # "crashed"
  /\ sending # Nothing => Up(ClientOut)
  /\ handling # Nothing => Up(ServerIn)
  /\ giving => Up(ServerOut)
  /\ open => Up(ClientIn)
  /\ loop[ClientIn] = "down" => told \/ "client" \in cancelled \/ ~meshing
  /\ loop[ClientOut] = "down" => ~open \/ "client" \in cancelled
  /\ loop[ServerIn] # loop[ServerOut] => "server" \in cancelled

\* Where GoesOn has a step: the guards of the actions, at either end.
ClientEndMayGo ==
  \/ Up(ClientOut) /\ IF sending # Nothing THEN ~open \/ Len(toServer) < Capacity
                       ELSE "client" \in cancelled
  \/ told
  \/ Up(ClientIn) /\ \/ ~open \/ "client" \in cancelled
                     \/ toClient # <<>> /\ (Head(toClient) \in unacked \cup {Update} \/ Len(toServer) < Capacity)
                     \/ toClient = <<>> /\ loop[ServerIn] = "down" /\ loop[ServerOut] = "down"
ServerEndMayGo ==
  \/ loop[ServerIn] = "new" /\ (~open \/ toServer # <<>>)
  \/ Up(ServerIn) /\ IF handling # Nothing THEN ~open \/ Len(toClient) < Capacity
                      ELSE ~open \/ toServer # <<>> \/ "server" \in cancelled
  \/ Up(ServerOut) /\ IF giving THEN ~open \/ Len(toClient) < Capacity ELSE "server" \in cancelled
EndsMayGoIfEnabled == ENABLED GoesOn <=> ClientEndMayGo \/ ServerEndMayGo

\* Where nothing goes on by itself any more, either the stream is open, all
\* four loops run and nobody waits for room, or it is closed and every loop has
\* ended, but for the outbound loop of a client whose mesh worker failed: no
\* loop is left behind by the other one, at either end.  The exception is an
\* outbound loop of the client that has crashed over its position: the other
\* three then run on without it.
NothingIsLeft ==
  ~ClientEndMayGo /\ ~ServerEndMayGo =>
    IF open
      THEN /\ \A l \in Loops : Up(l) \/ (l = ClientOut /\ loop[l] = "crashed")
           /\ sending = Nothing /\ handling = Nothing /\ ~giving
           /\ toServer = <<>> /\ toClient = <<>>
      ELSE \A l \in Loops : loop[l] = "down" \/ (l = ClientOut /\ (~meshing \/ loop[l] = "crashed"))

=============================================================================
