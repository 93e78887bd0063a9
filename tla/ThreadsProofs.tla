--------------------------- MODULE ThreadsProofs ----------------------------
(***************************************************************************)
(* Proofs about the parts of MCThreads that are not about locks: the       *)
(* hotbar of the client (Hotbar), its connection (Connection), and, on the *)
(* server, the players (PlayerSessions).                                   *)
(***************************************************************************)
EXTENDS Hotbar, Connection, PlayerSessions, FiniteSetTheorems, SequenceTheorems, TLAPS
-----------------------------------------------------------------------------
(***************************************************************************)
(* Proofs about Hotbar, for a hotbar of any size: whatever the window      *)
(* thread and the inbound loop do, display, tool and view agree unless a   *)
(* frame crossed an update.                                                *)
(***************************************************************************)
\* Contents are not what is there before them, and what is held is a slot with its item.
LEMMA ContentsThere ==
  ASSUME NEW c \in Contents
  PROVE  c # None /\ \A s \in Places : Held(s, c) \in Tools /\ Held(s, c) # None
<1>1. 0 \in Places
  BY HotbarAssumption DEF Places
<1>2. DOMAIN c = Places
  BY DEF Contents
<1>3. c # None
  BY <1>1, <1>2 DEF None
<1>4. ASSUME NEW s \in Places PROVE Held(s, c) \in Tools
  BY DEF Held, Tools, Contents
<1>5. ASSUME NEW s \in Places PROVE Held(s, c) # None
  <2>1. DOMAIN Held(s, c) = {"slot", "item"}
    BY DEF Held
  <2> QED BY <2>1 DEF None
<1> QED BY <1>3, <1>4, <1>5

\* Scrolling goes round the hotbar.
LEMMA ScrollInPlaces ==
  ASSUME NEW s \in Places, NEW w \in -1 .. 1
  PROVE  (s - w) % Slots \in Places
<1>1. s - w \in Int
  BY HotbarAssumption DEF Places
<1> QED BY <1>1, HotbarAssumption DEF Places

LEMMA HotbarInitFits == HotbarInit => HotbarInv
<1> SUFFICES ASSUME HotbarInit PROVE HotbarInv
  OBVIOUS
<1> USE DEF HotbarInit
<1>1. 0 \in Places
  BY HotbarAssumption DEF Places
<1>2. HotbarTypeOK
  <2>1. tool \in Tools /\ wheel \in -1 .. 1
    BY <1>1 DEF Tools
  <2>2. {panicked, toolTold, crossed} \subseteq BOOLEAN
    OBVIOUS
  <2> QED BY <1>1, <2>1, <2>2 DEF HotbarTypeOK
<1> QED BY <1>2 DEF HotbarInv, ViewIsThere, NobodyIsBehind

\* The window thread.
LEMMA WindowKeeps == HotbarInv /\ (Wheel \/ Scroll \/ TellTool \/ Draw) => HotbarInv'
<1> SUFFICES ASSUME HotbarInv, Wheel \/ Scroll \/ TellTool \/ Draw PROVE HotbarInv'
  OBVIOUS
<1>0. HotbarTypeOK /\ ~panicked /\ ViewIsThere /\ NobodyIsBehind
  BY DEF HotbarInv
<1>1. CASE Wheel
  <2>1. HotbarTypeOK' /\ ~panicked'
    BY <1>0, <1>1 DEF Wheel, HotbarTypeOK, hud, frame
  <2>2. ViewIsThere' /\ NobodyIsBehind'
    BY <1>0, <1>1 DEF Wheel, ViewIsThere, NobodyIsBehind, hud, frame, Picture
  <2> QED BY <2>1, <2>2 DEF HotbarInv
<1>2. CASE Scroll
  <2>1. /\ ~rendering /\ rendering' = TRUE /\ wheel' = 0 /\ view' = view /\ known' = known
        /\ drawn' = drawn /\ tool' = tool /\ update' = update /\ panicked' = panicked
        /\ toolTold' = toolTold
    BY <1>2 DEF Scroll
  <2>2. CASE UNCHANGED <<slot, picked, crossed>>
    <3>1. HotbarTypeOK'
      BY <1>0, <2>1, <2>2 DEF HotbarTypeOK
    <3>2. ViewIsThere' /\ NobodyIsBehind'
      BY <1>0, <2>1, <2>2 DEF ViewIsThere, NobodyIsBehind, Picture
    <3> QED BY <1>0, <2>1, <3>1, <3>2 DEF HotbarInv
  <2>3. CASE /\ known /\ view # None /\ slot' = (slot - wheel) % Slots
             /\ picked' = Held(slot', view) /\ crossed' = (crossed \/ update # None)
    <3>1. slot' \in Places
      BY <1>0, <2>3, ScrollInPlaces DEF HotbarTypeOK
    <3>2. picked' \in Tools /\ picked' # None
      BY <1>0, <2>3, <3>1, ContentsThere DEF HotbarTypeOK
    <3>3. HotbarTypeOK'
      <4>1. crossed' \in BOOLEAN
        BY <2>3
      <4> QED BY <1>0, <2>1, <3>1, <3>2, <4>1 DEF HotbarTypeOK
    <3>4. ViewIsThere' /\ NobodyIsBehind'
      BY <1>0, <2>1, <2>3, <3>2 DEF ViewIsThere, NobodyIsBehind, Picture
    <3> QED BY <1>0, <2>1, <3>3, <3>4 DEF HotbarInv
  <2> QED BY <1>2, <2>2, <2>3 DEF Scroll
<1>3. CASE TellTool
  <2>1. /\ picked # None /\ tool' = picked /\ toolTold' = TRUE /\ picked' = None /\ drawn' = None
        /\ view' = view /\ known' = known /\ slot' = slot /\ wheel' = wheel /\ rendering' = rendering
        /\ update' = update /\ panicked' = panicked /\ crossed' = crossed
    BY <1>3 DEF TellTool
  <2>2. HotbarTypeOK'
    BY <1>0, <2>1 DEF HotbarTypeOK
  <2>3. ViewIsThere' /\ NobodyIsBehind'
    BY <1>0, <2>1 DEF ViewIsThere, NobodyIsBehind, Picture
  <2> QED BY <1>0, <2>1, <2>2, <2>3 DEF HotbarInv
<1>4. CASE Draw
  <2>1. /\ picked = None /\ rendering' = FALSE /\ view' = view /\ known' = known /\ slot' = slot
        /\ tool' = tool /\ wheel' = wheel /\ picked' = picked /\ update' = update /\ toolTold' = toolTold
    BY <1>4 DEF Draw
  <2>2. CASE UNCHANGED <<drawn, panicked, crossed>>
    <3>1. HotbarTypeOK'
      BY <1>0, <2>1, <2>2 DEF HotbarTypeOK
    <3>2. ViewIsThere' /\ NobodyIsBehind'
      BY <1>0, <2>1, <2>2 DEF ViewIsThere, NobodyIsBehind, Picture
    <3> QED BY <1>0, <2>2, <3>1, <3>2 DEF HotbarInv
  <2>3. CASE /\ drawn' = IF known /\ view # None THEN Picture ELSE None
             /\ panicked' = (known /\ view = None) /\ crossed' = (crossed \/ update # None)
    <3>1. ~panicked' /\ panicked' \in BOOLEAN
      BY <1>0, <2>3 DEF ViewIsThere
    <3>2. HotbarTypeOK'
      <4>1. crossed' \in BOOLEAN
        BY <2>3
      <4>2. drawn' \in {None} \cup [slot : Places, contents : Contents]
        BY <1>0, <2>3 DEF HotbarTypeOK, Picture
      <4> QED BY <1>0, <2>1, <3>1, <4>1, <4>2 DEF HotbarTypeOK
    <3>3. ViewIsThere'
      BY <1>0, <2>1, <2>3 DEF ViewIsThere
    <3>4. NobodyIsBehind'
      BY <1>0, <2>1, <2>3 DEF NobodyIsBehind, Picture
    <3> QED BY <3>1, <3>2, <3>3, <3>4 DEF HotbarInv
  <2> QED BY <1>4, <2>2, <2>3 DEF Draw
<1> QED BY <1>1, <1>2, <1>3, <1>4

\* The inbound loop.
LEMMA InboundKeeps ==
  /\ HotbarInv
  /\ FirstView \/ HandleClientState \/ UpdateArrives \/ UpdateTells \/ UpdateInserts
  => HotbarInv'
<1> SUFFICES ASSUME HotbarInv,
                    FirstView \/ HandleClientState \/ UpdateArrives \/ UpdateTells \/ UpdateInserts
             PROVE  HotbarInv'
  OBVIOUS
<1>0. HotbarTypeOK /\ ~panicked /\ ViewIsThere /\ NobodyIsBehind
  BY DEF HotbarInv
<1> DEFINE Updates == [told : BOOLEAN, slot : Places, contents : Contents]
<1>1. \A u \in Updates : u # None
  <2> SUFFICES ASSUME NEW u \in Updates PROVE u # None
    OBVIOUS
  <2>1. DOMAIN u = {"told", "slot", "contents"}
    OBVIOUS
  <2> QED BY <2>1 DEF None
<1>2. CASE FirstView
  <2>1. /\ ~known /\ ~rendering /\ view' \in Contents /\ known' = known /\ slot' = slot /\ drawn' = drawn
        /\ tool' = tool /\ wheel' = wheel /\ rendering' = rendering /\ picked' = picked
        /\ update' = update /\ panicked' = panicked /\ toolTold' = toolTold /\ crossed' = crossed
    BY <1>2 DEF FirstView, hud, frame
  <2>2. HotbarTypeOK'
    BY <1>0, <2>1 DEF HotbarTypeOK
  <2>3. ViewIsThere' /\ NobodyIsBehind'
    BY <1>0, <2>1 DEF ViewIsThere, NobodyIsBehind
  <2> QED BY <1>0, <2>1, <2>2, <2>3 DEF HotbarInv
<1>3. CASE HandleClientState
  <2>1. /\ view # None /\ update = None /\ ~rendering /\ known' = TRUE /\ drawn' = None
        /\ view' = view /\ slot' = slot
        /\ tool' = tool /\ wheel' = wheel /\ rendering' = rendering /\ picked' = picked
        /\ update' = update /\ panicked' = panicked /\ toolTold' = toolTold /\ crossed' = crossed
    BY <1>3 DEF HandleClientState, frame
  <2>2. HotbarTypeOK'
    BY <1>0, <2>1 DEF HotbarTypeOK
  <2>3. ViewIsThere' /\ NobodyIsBehind'
    BY <1>0, <2>1 DEF ViewIsThere, NobodyIsBehind
  <2> QED BY <1>0, <2>1, <2>2, <2>3 DEF HotbarInv
<1>4. CASE UpdateArrives
  <2>1. /\ known /\ ~rendering /\ update = None /\ drawn' = None /\ crossed' = FALSE
        /\ view' = view /\ known' = known /\ slot' = slot
        /\ tool' = tool /\ wheel' = wheel /\ rendering' = rendering /\ picked' = picked
        /\ panicked' = panicked /\ toolTold' = toolTold
    BY <1>4 DEF UpdateArrives, frame
  <2>2. update' \in Updates /\ update'.slot = slot /\ update'.told = FALSE
    BY <1>0, <1>4 DEF UpdateArrives, HotbarTypeOK
  <2>3. update' # None
    BY <1>1, <2>2
  <2>4. HotbarTypeOK'
    BY <1>0, <2>1, <2>2 DEF HotbarTypeOK
  <2>5. ViewIsThere' /\ NobodyIsBehind'
    BY <1>0, <2>1, <2>2, <2>3 DEF ViewIsThere, NobodyIsBehind
  <2> QED BY <1>0, <2>1, <2>4, <2>5 DEF HotbarInv
<1>5. CASE UpdateTells
  <2>1. /\ update # None /\ tool' = Held(update.slot, update.contents) /\ toolTold' = TRUE
        /\ view' = view /\ known' = known /\ slot' = slot /\ drawn' = drawn
        /\ wheel' = wheel /\ rendering' = rendering /\ picked' = picked
        /\ panicked' = panicked /\ crossed' = crossed /\ update' = [update EXCEPT !.told = TRUE]
    BY <1>5 DEF UpdateTells, hud, frame
  <2>2. update \in Updates
    BY <1>0, <2>1 DEF HotbarTypeOK
  <2>3. /\ update' \in Updates /\ update'.slot = update.slot /\ update'.contents = update.contents
        /\ tool' \in Tools
    BY <2>1, <2>2, ContentsThere
  <2>4. update' # None
    BY <1>1, <2>3
  <2>5. HotbarTypeOK'
    BY <1>0, <2>1, <2>3 DEF HotbarTypeOK
  <2>6. ViewIsThere'
    BY <1>0, <2>1, <2>4 DEF ViewIsThere
  <2>7. NobodyIsBehind'
    BY <1>0, <2>1, <2>3, <2>4 DEF NobodyIsBehind
  <2> QED BY <1>0, <2>1, <2>5, <2>6, <2>7 DEF HotbarInv
<1>6. CASE UpdateInserts
  <2>1. /\ update # None /\ update.told /\ view' = update.contents /\ update' = None
        /\ known' = known /\ slot' = slot /\ drawn' = drawn
        /\ tool' = tool /\ wheel' = wheel /\ rendering' = rendering /\ picked' = picked
        /\ panicked' = panicked /\ toolTold' = toolTold /\ crossed' = crossed
    BY <1>6 DEF UpdateInserts, hud, frame
  <2>2. view' \in Contents /\ view' # None
    <3>1. update \in Updates
      BY <1>0, <2>1 DEF HotbarTypeOK
    <3> QED BY <2>1, <3>1, ContentsThere
  <2>3. HotbarTypeOK'
    BY <1>0, <2>1, <2>2 DEF HotbarTypeOK
  <2>4. ViewIsThere' /\ NobodyIsBehind'
    BY <1>0, <2>1, <2>2 DEF ViewIsThere, NobodyIsBehind
  <2> QED BY <1>0, <2>1, <2>3, <2>4 DEF HotbarInv
<1> QED BY <1>2, <1>3, <1>4, <1>5, <1>6

LEMMA HotbarNextKeeps == HotbarInv /\ [HotbarNext]_hotbarVars => HotbarInv'
<1> SUFFICES ASSUME HotbarInv, [HotbarNext]_hotbarVars PROVE HotbarInv'
  OBVIOUS
<1>1. CASE UNCHANGED hotbarVars
  BY <1>1 DEF hotbarVars, hud, frame, HotbarInv, HotbarTypeOK, ViewIsThere, NobodyIsBehind, Picture
<1>2. CASE HotbarNext
  BY <1>2, WindowKeeps, InboundKeeps DEF HotbarNext
<1> QED BY <1>1, <1>2

\* The inductive invariant: who acts for the hotbar knows its view, which is there, and
\* between the locks of an update nothing is kept that the update will make stale.
THEOREM HotbarInvariant == HotbarSpec => []HotbarInv
BY HotbarInitFits, HotbarNextKeeps, PTL DEF HotbarSpec

\* No frame panics over the hotbar, and when the window thread and the inbound loop are
\* through, display, tool and view agree, unless a frame read the view while an update was
\* between display and view (hud.rs, tool_controller.rs, handle_inventory_update).
THEOREM HotbarAgrees == HotbarSpec => []HotbarFits
<1>1. HotbarInv => HotbarFits
  BY DEF HotbarInv, HotbarFits, ViewIsThere, NobodyIsBehind
<1> QED BY <1>1, HotbarInvariant, PTL

-----------------------------------------------------------------------------
(***************************************************************************)
(* Proofs about Connection, for any capacity of its channels and any       *)
(* number of messages: ConnectionInv is an inductive invariant of          *)
(* ConnectionSpec, so that the types and AnswersFit always hold.           *)
(*                                                                         *)
(* The argument.  The client hands out its numbers in order; both channels *)
(* keep the order and the server handles one message at a time.  So a      *)
(* number is at one place of its way, behind all that are older, and is    *)
(* acknowledged once: whoever reads the acknowledgement finds the number   *)
(* in ack_map.  The number of the last position is on that way until it is *)
(* acknowledged, since the server answers every position, and since the    *)
(* message that starts its loops unanswered is the one without a number.   *)
(***************************************************************************)
USE ConnectionAssumption

(* What the channels are after a message more or less. *)

LEMMA AppendAt ==
  ASSUME NEW S, NEW q \in Seq(S), NEW e \in S
  PROVE  /\ Append(q, e) \in Seq(S) /\ Len(Append(q, e)) = Len(q) + 1
         /\ DOMAIN q = 1 .. Len(q) /\ DOMAIN Append(q, e) = 1 .. Len(q) + 1
         /\ \A i \in DOMAIN q : Append(q, e)[i] = q[i]
         /\ Append(q, e)[Len(q) + 1] = e
OBVIOUS

LEMMA TailAt ==
  ASSUME NEW S, NEW q \in Seq(S), q # <<>>
  PROVE  /\ Tail(q) \in Seq(S) /\ Len(Tail(q)) = Len(q) - 1 /\ Len(q) \in Nat \ {0}
         /\ DOMAIN q = 1 .. Len(q) /\ DOMAIN Tail(q) = 1 .. Len(q) - 1
         /\ \A i \in DOMAIN Tail(q) : Tail(q)[i] = q[i + 1]
         /\ Head(q) = q[1] /\ Head(q) \in S
OBVIOUS

\* An empty channel is a channel.
LEMMA EmptyChannel ==
  <<>> \in Seq(Messages) /\ <<>> \in Seq(0 .. MaxSequence) /\ Len(<<>>) <= Capacity
OBVIOUS

\* Types of what is on its way.
LEMMA SetsType ==
  ASSUME ConnectionTypeOK
  PROVE  /\ Acks \subseteq 1 .. MaxSequence /\ InHand \subseteq 1 .. MaxSequence
         /\ Asked \subseteq 1 .. MaxSequence /\ Taken \subseteq 1 .. MaxSequence
         /\ LastMoved \subseteq 1 .. MaxSequence
<1> USE DEF ConnectionTypeOK
<1>1. Acks \subseteq 1 .. MaxSequence
  BY DEF Acks, Update, Range
<1>2. InHand \subseteq 1 .. MaxSequence /\ LastMoved \subseteq 1 .. MaxSequence
  BY DEF InHand, LastMoved
<1>3. Asked \subseteq 1 .. MaxSequence
  <2>1. \A i \in DOMAIN toServer : toServer[i] \in Messages
    OBVIOUS
  <2>2. \A m \in Messages : m.seq \in 0 .. MaxSequence
    BY DEF Messages
  <2> QED BY <2>1, <2>2 DEF Asked
<1>4. Taken \subseteq 1 .. MaxSequence
  BY DEF Taken, Messages
<1> QED BY <1>1, <1>2, <1>3, <1>4

LEMMA AskedAppend ==
  ASSUME toServer \in Seq(Messages), NEW m \in Messages, toServer' = Append(toServer, m)
  PROVE  Asked' = Asked \cup ({m.seq} \ {0})
BY AppendAt DEF Asked

LEMMA AskedTail ==
  ASSUME toServer \in Seq(Messages), toServer # <<>>, toServer' = Tail(toServer)
  PROVE  Asked' \subseteq Asked /\ Asked = Asked' \cup ({Head(toServer).seq} \ {0})
<1>2. \A i \in DOMAIN toServer : i = 1 \/ (i - 1 \in DOMAIN Tail(toServer) /\ toServer[i] = Tail(toServer)[i - 1])
  BY TailAt
<1>3. \A i \in DOMAIN Tail(toServer) : i + 1 \in DOMAIN toServer /\ Tail(toServer)[i] = toServer[i + 1]
  BY TailAt
<1>4. Head(toServer) = toServer[1] /\ 1 \in DOMAIN toServer
  BY TailAt
<1>5. Asked' \subseteq Asked
  BY <1>3 DEF Asked
<1>6. Asked \subseteq Asked' \cup ({Head(toServer).seq} \ {0})
  <2> SUFFICES ASSUME NEW i \in DOMAIN toServer, toServer[i].seq # 0
               PROVE  toServer[i].seq \in Asked' \cup ({Head(toServer).seq} \ {0})
    BY DEF Asked
  <2>1. CASE i = 1
    BY <1>4, <2>1
  <2>2. CASE i # 1
    <3>1. i - 1 \in DOMAIN toServer' /\ toServer'[i - 1] = toServer[i]
      BY <1>2, <2>2
    <3> QED BY <3>1 DEF Asked
  <2> QED BY <2>1, <2>2
<1>7. {Head(toServer).seq} \ {0} \subseteq Asked
  BY <1>4 DEF Asked
<1> QED BY <1>5, <1>6, <1>7

LEMMA AcksAppend ==
  ASSUME toClient \in Seq(0 .. MaxSequence), NEW m \in 0 .. MaxSequence, toClient' = Append(toClient, m)
  PROVE  Acks' = Acks \cup ({m} \ {Update})
BY AppendAt DEF Acks, Range

LEMMA AcksTail ==
  ASSUME toClient \in Seq(0 .. MaxSequence), toClient # <<>>, toClient' = Tail(toClient)
  PROVE  Acks' \subseteq Acks /\ Acks = Acks' \cup ({Head(toClient)} \ {Update})
<1>2. \A i \in DOMAIN toClient : i = 1 \/ (i - 1 \in DOMAIN Tail(toClient) /\ toClient[i] = Tail(toClient)[i - 1])
  BY TailAt
<1>3. \A i \in DOMAIN Tail(toClient) : i + 1 \in DOMAIN toClient /\ Tail(toClient)[i] = toClient[i + 1]
  BY TailAt
<1>4. Head(toClient) = toClient[1] /\ 1 \in DOMAIN toClient
  BY TailAt
<1>5. Acks' \subseteq Acks
  BY <1>3 DEF Acks, Range
<1>6. Acks \subseteq Acks' \cup ({Head(toClient)} \ {Update})
  <2> SUFFICES ASSUME NEW i \in DOMAIN toClient, toClient[i] # Update
               PROVE  toClient[i] \in Acks' \cup ({Head(toClient)} \ {Update})
    BY DEF Acks, Range
  <2>1. CASE i = 1
    BY <1>4, <2>1
  <2>2. CASE i # 1
    <3>1. i - 1 \in DOMAIN toClient' /\ toClient'[i - 1] = toClient[i]
      BY <1>2, <2>2
    <3> QED BY <3>1 DEF Acks, Range
  <2> QED BY <2>1, <2>2
<1>7. {Head(toClient)} \ {Update} \subseteq Acks
  BY <1>4 DEF Acks, Range
<1> QED BY <1>5, <1>6, <1>7
-----------------------------------------------------------------------------
LEMMA ConnectionInitInv == ConnectionInit => ConnectionInv
<1> SUFFICES ASSUME ConnectionInit PROVE ConnectionInv
  OBVIOUS
<1> USE DEF ConnectionInit
<1>1. sending = [seq |-> 0, kind |-> "ready"] /\ sending \in Messages /\ sending # Nothing
  BY DEF Message, Messages
<1>2. ConnectionTypeOK
  <2>1. loop \in [Loops -> {"new", "up", "down", "crashed"}]
    OBVIOUS
  <2>2. 1 \in 1 .. MaxSequence
    OBVIOUS
  <2> QED BY <1>1, <2>1, <2>2, EmptyChannel DEF ConnectionTypeOK
<1>3. Acks = {} /\ InHand = {} /\ Asked = {} /\ Taken = {} /\ LastMoved = {}
  BY <1>1 DEF Acks, InHand, Asked, Taken, LastMoved, Range
<1>4. NumbersFit /\ InOrder /\ PositionsFit /\ ReadyComesFirst
  BY <1>1, <1>3 DEF NumbersFit, OnTheirWay, InOrder, Before, PositionsFit, ReadyComesFirst
<1>5. AnswersFit
  BY <1>3 DEF AnswersFit, InHand
<1> QED BY <1>2, <1>4, <1>5 DEF ConnectionInv

\* A step that brings nothing new on its way and takes nothing but what a closed stream drops.
LEMMA LessInv ==
  ASSUME ConnectionInv, ConnectionTypeOK',
         UNCHANGED <<sequence, lastPosition, unacked, handling>>,
         toServer' \in {toServer, <<>>}, toClient' \in {toClient, <<>>},
         sending' \in {sending, Nothing},
         open' => open /\ UNCHANGED <<toServer, toClient, sending>>,
         Up(ClientOut)' => Up(ClientOut), loop'[ServerIn] \in {loop[ServerIn], "down"}
  PROVE  ConnectionInv'
<1> USE DEF ConnectionInv
<1>1. Acks' \subseteq Acks /\ (UNCHANGED toClient => Acks' = Acks)
  BY DEF Acks, Range
<1>2. Asked' \subseteq Asked
  BY DEF Asked
<1>3. InHand' = InHand /\ LastMoved' = LastMoved
  BY DEF InHand, LastMoved
<1>4. Taken' \subseteq Taken
  BY DEF Taken
<1>5. NumbersFit'
  BY <1>1, <1>2, <1>3, <1>4 DEF NumbersFit, OnTheirWay
<1>6. InOrder'
  <2>1. /\ Before(Acks', InHand' \cup Asked') /\ Before(InHand', Asked')
        /\ Before(Acks' \cup InHand' \cup Asked' \cup LastMoved', Taken')
    BY <1>1, <1>2, <1>3, <1>4 DEF InOrder, Before
  <2>2. /\ \A i, j \in DOMAIN toClient' :
             i < j /\ toClient'[i] # Update /\ toClient'[j] # Update => toClient'[i] < toClient'[j]
        /\ \A i, j \in DOMAIN toServer' :
             i < j /\ toServer'[i].seq # 0 /\ toServer'[j].seq # 0 => toServer'[i].seq < toServer'[j].seq
    BY DEF InOrder
  <2> QED BY <2>1, <2>2 DEF InOrder, Before, Update
<1>7. PositionsFit'
  BY DEF PositionsFit
<1>8. ReadyComesFirst'
  BY DEF ReadyComesFirst
<1>9. AnswersFit'
  <2>1. Acks' \cup ({handling'} \ {Nothing}) \subseteq unacked'
    BY <1>1 DEF AnswersFit
  <2>2. CASE open'
    BY <1>1, <2>1, <2>2 DEF AnswersFit
  <2>3. CASE ~open'
    BY <2>1, <2>3 DEF AnswersFit
  <2> QED BY <2>2, <2>3
<1> QED BY <1>5, <1>6, <1>7, <1>8, <1>9

\* The loops that go down stay loops.
LEMMA DownsFit ==
  ASSUME ConnectionTypeOK, NEW ls \in SUBSET Loops, Downs(ls)
  PROVE  /\ loop' \in [Loops -> {"new", "up", "down", "crashed"}]
         /\ loop'[ClientOut] \in {loop[ClientOut], "down"}
         /\ loop'[ServerIn] \in {loop[ServerIn], "down"}
BY DEF ConnectionTypeOK, Downs, Loops

LEMMA ClientEndsInv ==
  ASSUME ConnectionInv,
         OutboundEnds \/ PositionFails \/ InboundFails \/ InboundCancelled \/ MeshWorkerFails
  PROVE  ConnectionInv'
<1>1. ConnectionTypeOK /\ <<>> \in Seq(Messages) /\ <<>> \in Seq(0 .. MaxSequence)
  BY DEF ConnectionInv
<1>2. CASE OutboundEnds
  <2>1. ConnectionTypeOK'
    BY <1>1, <1>2, DownsFit DEF OutboundEnds, ConnectionTypeOK, channels, serverVars, Loops
  <2> QED BY <1>1, <1>2, <2>1, DownsFit, LessInv DEF OutboundEnds, Up, channels, serverVars, Loops
<1>3. CASE InboundFails \/ InboundCancelled \/ MeshWorkerFails
  <2>1. DropsInbound
    BY <1>3 DEF InboundFails, InboundCancelled, MeshWorkerFails
  <2>2. told' \in BOOLEAN /\ meshing' \in BOOLEAN /\ cancelled' = cancelled
    BY <1>1, <1>3 DEF InboundFails, InboundCancelled, MeshWorkerFails, ConnectionTypeOK
  <2>3. loop' \in [Loops -> {"new", "up", "down", "crashed"}]
    BY <1>1, <2>1, DownsFit DEF DropsInbound, Loops
  <2>4. ConnectionTypeOK'
    BY <1>1, <2>1, <2>2, <2>3, EmptyChannel DEF DropsInbound, ConnectionTypeOK, serverVars
  <2> QED BY <1>1, <2>1, <2>4, DownsFit, LessInv DEF DropsInbound, Up, serverVars, Loops
<1>4. CASE PositionFails
  <2>1. /\ loop' \in [Loops -> {"new", "up", "down", "crashed"}] /\ loop'[ClientOut] = "crashed"
        /\ loop'[ServerIn] = loop[ServerIn]
    BY <1>1, <1>4 DEF PositionFails, ConnectionTypeOK, Loops, ClientOut, ServerIn
  <2>2. UNCHANGED <<sequence, unacked, lastPosition, sending, meshing, told, handling, moved, giving, open,
                    toServer, toClient, cancelled>>
    BY <1>4 DEF PositionFails, clientVars, serverVars, channels
  <2>3. ConnectionTypeOK'
    BY <1>1, <2>1, <2>2 DEF ConnectionTypeOK
  <2> QED BY <2>1, <2>2, <2>3, LessInv DEF Up
<1> QED BY <1>2, <1>3, <1>4

LEMMA OutsideInv ==
  ASSUME ConnectionInv, Quit \/ ShowError \/ Disconnected \/ NetworkBreaks
  PROVE  ConnectionInv'
<1>1. ConnectionTypeOK'
  <2>1. ConnectionTypeOK
    BY DEF ConnectionInv
  <2>2. CASE Quit \/ Disconnected
    <3>1. cancelled' \subseteq {"client", "server"}
      BY <2>1, <2>2 DEF Quit, Disconnected, ConnectionTypeOK
    <3>2. UNCHANGED <<clientVars, serverVars, channels, loop>>
      BY <2>2 DEF Quit, Disconnected
    <3> QED BY <2>1, <3>1, <3>2 DEF ConnectionTypeOK, clientVars, serverVars, channels
  <2>3. CASE ShowError
    BY <2>1, <2>3 DEF ShowError, ConnectionTypeOK, serverVars, channels
  <2>4. CASE NetworkBreaks
    BY <2>1, <2>4, EmptyChannel DEF NetworkBreaks, ConnectionTypeOK, serverVars, clientVars
  <2> QED BY <2>2, <2>3, <2>4
<1> QED BY <1>1, LessInv DEF Quit, ShowError, Disconnected, NetworkBreaks, clientVars, channels, serverVars, Up

LEMMA ServerEndsInv ==
  ASSUME ConnectionInv, GreetFails \/ ServerInboundEnds \/ HandleUpdate \/ DropsOutbound
  PROVE  ConnectionInv'
<1>1. ConnectionTypeOK
  BY DEF ConnectionInv
<1>2. CASE HandleUpdate
  <2>1. ConnectionTypeOK'
    <3>1. moved' \in BOOLEAN /\ giving' \in BOOLEAN
      BY <1>1, <1>2 DEF HandleUpdate, ConnectionTypeOK
    <3>2. UNCHANGED <<clientVars, channels, loop, cancelled, handling>>
      BY <1>2 DEF HandleUpdate, ServerUnchanged, channels
    <3>3. UNCHANGED <<sequence, unacked, lastPosition, sending, meshing, told, open, toServer, toClient,
                      loop, cancelled, handling>>
      BY <3>2 DEF clientVars, channels
    <3> QED BY <1>1, <3>1, <3>3 DEF ConnectionTypeOK
  <2> QED BY <1>2, <2>1, LessInv DEF HandleUpdate, ServerUnchanged, clientVars, Up
<1>3. CASE GreetFails \/ ServerInboundEnds \/ DropsOutbound
  <2>1. PICK ls \in SUBSET Loops : Downs(ls)
    BY <1>3 DEF GreetFails, ServerInboundEnds, DropsOutbound, Loops
  <2>2. ConnectionTypeOK'
    BY <1>1, <1>3, <2>1, DownsFit
    DEF GreetFails, ServerInboundEnds, DropsOutbound, ServerUnchanged, ConnectionTypeOK, clientVars, serverVars, channels
  <2> QED BY <1>1, <1>3, <2>1, <2>2, DownsFit, LessInv
      DEF GreetFails, ServerInboundEnds, DropsOutbound, ServerUnchanged, Up, clientVars, serverVars, channels
<1> QED BY <1>2, <1>3
-----------------------------------------------------------------------------
(* A number comes on its way, and goes further on it.                      *)

LEMMA SendSequencedInv ==
  ASSUME ConnectionInv, NEW k \in {"position", "action"}, SendSequenced(k)
  PROVE  ConnectionInv'
<1> USE DEF ConnectionInv
<1>1. sequence + 1 \in 1 .. MaxSequence /\ sequence \in Nat
  BY DEF ConnectionTypeOK, SendSequenced
<1>2. /\ sending' = [seq |-> sequence + 1, kind |-> k] /\ sending' \in Messages /\ sending' # Nothing
      /\ unacked' = unacked \cup {sequence + 1} /\ sequence' = sequence + 1
      /\ UNCHANGED <<lastPosition, meshing, told, handling, moved, giving, open, toServer, toClient, loop, cancelled>>
  BY <1>1 DEF SendSequenced, Message, Messages, serverVars, channels
<1>3. ConnectionTypeOK'
  BY <1>1, <1>2 DEF ConnectionTypeOK
<1>4. /\ Acks' = Acks /\ Asked' = Asked /\ InHand' = InHand /\ LastMoved' = LastMoved
      /\ Taken = {} /\ Taken' = {sequence + 1}
  BY <1>1, <1>2 DEF Acks, Asked, InHand, LastMoved, Taken, SendSequenced
<1>5. NumbersFit'
  BY <1>1, <1>2, <1>4 DEF NumbersFit, OnTheirWay
<1>6. InOrder'
  <2>1. Before(Acks \cup InHand \cup Asked \cup LastMoved, {sequence + 1})
    BY <1>1 DEF NumbersFit, OnTheirWay, Before
  <2> QED BY <1>2, <1>4, <2>1 DEF InOrder, Before
<1>7. PositionsFit'
  BY <1>1, <1>2 DEF PositionsFit
<1>8. ReadyComesFirst'
  BY <1>2 DEF ReadyComesFirst, SendSequenced
<1>9. AnswersFit'
  <2>1. lastPosition \in unacked' => lastPosition \in unacked
    BY <1>1, <1>2, <1>4 DEF NumbersFit, LastMoved
  <2> QED BY <1>2, <1>4, <2>1 DEF AnswersFit, Up
<1> QED BY <1>3, <1>5, <1>6, <1>7, <1>8, <1>9

LEMMA SentInv == ASSUME ConnectionInv, Sent PROVE ConnectionInv'
<1> USE DEF ConnectionInv
<1>1. /\ toServer \in Seq(Messages) /\ sending \in Messages /\ sending.seq \in 0 .. MaxSequence
      /\ Len(toServer) < Capacity /\ sending # Nothing /\ open
  BY DEF ConnectionTypeOK, Sent, Messages
<1>2. /\ toServer' = Append(toServer, sending) /\ sending' = Nothing
      /\ lastPosition' = IF sending.kind = "position" THEN sending.seq ELSE lastPosition
      /\ UNCHANGED <<sequence, unacked, meshing, told, handling, moved, giving, open, toClient, loop, cancelled>>
  BY DEF Sent, serverVars
<1>3. /\ toServer' \in Seq(Messages) /\ Len(toServer') = Len(toServer) + 1 /\ Len(toServer) \in Nat
      /\ DOMAIN toServer = 1 .. Len(toServer) /\ DOMAIN toServer' = 1 .. Len(toServer) + 1
      /\ \A i \in DOMAIN toServer : toServer'[i] = toServer[i]
      /\ toServer'[Len(toServer) + 1] = sending
  BY <1>1, <1>2, AppendAt
<1>4. /\ Acks' = Acks /\ InHand' = InHand /\ Taken = {sending.seq} \ {0} /\ Taken' = {}
      /\ Asked' = Asked \cup Taken /\ LastMoved' \subseteq LastMoved \cup Taken
  <2>1. Asked' = Asked \cup ({sending.seq} \ {0})
    BY <1>1, <1>2, AskedAppend
  <2>2. sending.kind = "position" => sending.seq # 0
    BY <1>1 DEF PositionsFit
  <2> QED BY <1>1, <1>2, <2>1, <2>2 DEF Acks, InHand, Taken, LastMoved
<1>5. ConnectionTypeOK'
  <2>1. lastPosition' \in (1 .. MaxSequence) \cup {Nothing}
    BY <1>1, <1>2 DEF ConnectionTypeOK, PositionsFit
  <2>2. Len(toServer') <= Capacity
    BY <1>1, <1>3
  <2> QED BY <1>2, <1>3, <2>1, <2>2 DEF ConnectionTypeOK
<1>6. NumbersFit'
  BY <1>2, <1>4 DEF NumbersFit, OnTheirWay
<1>7. InOrder'
  <2>1. /\ Before(Acks', InHand' \cup Asked') /\ Before(InHand', Asked')
        /\ Before(Acks' \cup InHand' \cup Asked' \cup LastMoved', Taken')
    BY <1>4 DEF InOrder, Before
  <2>2. ASSUME NEW i \in DOMAIN toServer', NEW j \in DOMAIN toServer', i < j,
               toServer'[i].seq # 0, toServer'[j].seq # 0
        PROVE  toServer'[i].seq < toServer'[j].seq
    <3>1. i \in DOMAIN toServer /\ toServer'[i] = toServer[i] /\ toServer[i].seq \in Asked
      BY <1>3, <2>2 DEF Asked
    <3>2. CASE j \in DOMAIN toServer
      BY <1>3, <2>2, <3>1, <3>2 DEF InOrder
    <3>3. CASE j = Len(toServer) + 1
      BY <1>3, <1>4, <2>2, <3>1, <3>3 DEF InOrder, Before
    <3> QED BY <1>3, <3>2, <3>3
  <2> QED BY <1>2, <2>1, <2>2 DEF InOrder
<1>8. PositionsFit'
  <2>1. ASSUME NEW i \in DOMAIN toServer', toServer'[i].seq = lastPosition'
        PROVE  toServer'[i].kind = "position"
    <3>1. CASE i = Len(toServer) + 1
      <4>1. CASE sending.kind = "position"
        BY <1>3, <3>1, <4>1
      <4>2. CASE sending.kind # "position"
        <5>1. lastPosition \in LastMoved /\ sending.seq \in Taken /\ sending.seq = lastPosition /\ lastPosition \in Nat
          BY <1>1, <1>2, <1>3, <1>4, <2>1, <3>1, <4>2 DEF ConnectionTypeOK, LastMoved
        <5> QED BY <5>1 DEF InOrder, Before
      <4> QED BY <4>1, <4>2
    <3>2. CASE i # Len(toServer) + 1
      <4>1. i \in DOMAIN toServer /\ toServer'[i] = toServer[i]
        BY <1>3, <3>2
      <4>2. CASE sending.kind = "position"
        <5>1. toServer[i].seq = sending.seq /\ sending.seq \in Taken /\ toServer[i].seq \in Asked
          BY <1>1, <1>2, <1>4, <2>1, <4>1, <4>2 DEF PositionsFit, Asked
        <5> QED BY <1>1, <5>1 DEF InOrder, Before
      <4>3. CASE sending.kind # "position"
        BY <1>2, <2>1, <4>1, <4>3 DEF PositionsFit
      <4> QED BY <4>2, <4>3
    <3> QED BY <3>1, <3>2
  <2> QED BY <1>2, <2>1 DEF PositionsFit
<1>9. ReadyComesFirst'
  <2>1. 1 \in DOMAIN toServer' /\ toServer' # <<>>
    BY <1>3
  <2>2. CASE toServer = <<>>
    <3>1. toServer'[1] = sending
      BY <1>3, <2>2
    <3> QED BY <1>2, <2>1, <2>2, <3>1 DEF ReadyComesFirst
  <2>3. CASE toServer # <<>>
    <3>1. toServer'[1] = toServer[1]
      BY <1>3, <2>3
    <3> QED BY <1>2, <2>1, <2>3, <3>1 DEF ReadyComesFirst
  <2> QED BY <2>2, <2>3
<1>10. AnswersFit'
  <2>1. Acks' \cup ({handling'} \ {Nothing}) \subseteq unacked'
    BY <1>2, <1>4 DEF AnswersFit
  <2>2. CASE sending.kind = "position"
    <3>1. Len(toServer) + 1 \in DOMAIN toServer' /\ toServer'[Len(toServer) + 1].seq = lastPosition'
      BY <1>2, <1>3, <2>2
    <3> QED BY <2>1, <3>1 DEF AnswersFit
  <2>3. CASE sending.kind # "position"
    <3>1. lastPosition' = lastPosition /\ \A i \in DOMAIN toServer : i \in DOMAIN toServer' /\ toServer'[i] = toServer[i]
      BY <1>2, <1>3, <2>3
    <3> QED BY <1>2, <1>4, <2>1, <3>1 DEF AnswersFit, Up
  <2> QED BY <2>2, <2>3
<1> QED BY <1>5, <1>6, <1>7, <1>8, <1>9, <1>10

\* What is taken from a channel is older than what is left there.
LEMMA ServerTakes ==
  ASSUME ConnectionTypeOK, InOrder, toServer # <<>>, toServer' = Tail(toServer)
  PROVE  /\ toServer' \in Seq(Messages) /\ Len(toServer') <= Capacity /\ Head(toServer) \in Messages
         /\ Before({Head(toServer).seq} \ {0}, Asked')
         /\ \A i, j \in DOMAIN toServer' :
              i < j /\ toServer'[i].seq # 0 /\ toServer'[j].seq # 0 => toServer'[i].seq < toServer'[j].seq
         /\ \A i \in DOMAIN toServer' : i + 1 \in DOMAIN toServer /\ toServer'[i] = toServer[i + 1]
         /\ \A i \in DOMAIN toServer : i # 1 => i - 1 \in DOMAIN toServer' /\ toServer'[i - 1] = toServer[i]
<1>1. toServer \in Seq(Messages) /\ Len(toServer) <= Capacity
  BY DEF ConnectionTypeOK
<1>2. /\ toServer' \in Seq(Messages) /\ Len(toServer') = Len(toServer) - 1 /\ Len(toServer) \in Nat \ {0}
      /\ DOMAIN toServer = 1 .. Len(toServer) /\ DOMAIN toServer' = 1 .. Len(toServer) - 1
      /\ \A i \in DOMAIN toServer' : toServer'[i] = toServer[i + 1]
      /\ Head(toServer) = toServer[1] /\ Head(toServer) \in Messages
  BY <1>1, TailAt
<1>3. \A i \in DOMAIN toServer' : i + 1 \in DOMAIN toServer /\ toServer'[i] = toServer[i + 1]
  BY <1>2
<1>4. Before({Head(toServer).seq} \ {0}, Asked')
  <2> SUFFICES ASSUME Head(toServer).seq # 0, NEW j \in DOMAIN toServer', toServer'[j].seq # 0
               PROVE  Head(toServer).seq < toServer'[j].seq
    BY DEF Before, Asked
  <2>1. 1 \in DOMAIN toServer /\ 1 < j + 1
    BY <1>2
  <2> QED BY <1>2, <1>3, <2>1 DEF InOrder
<1>5. ASSUME NEW i \in DOMAIN toServer', NEW j \in DOMAIN toServer', i < j,
             toServer'[i].seq # 0, toServer'[j].seq # 0
      PROVE  toServer'[i].seq < toServer'[j].seq
  <2>1. i + 1 < j + 1
    BY <1>2, <1>5
  <2> QED BY <1>3, <1>5, <2>1 DEF InOrder
<1>6. \A i \in DOMAIN toServer : i # 1 => i - 1 \in DOMAIN toServer' /\ toServer'[i - 1] = toServer[i]
  BY <1>2
<1> QED BY <1>1, <1>2, <1>3, <1>4, <1>5, <1>6

LEMMA ClientTakes ==
  ASSUME ConnectionTypeOK, InOrder, toClient # <<>>, toClient' = Tail(toClient)
  PROVE  /\ toClient' \in Seq(0 .. MaxSequence) /\ Len(toClient') <= Capacity
         /\ Head(toClient) \in 0 .. MaxSequence
         /\ Before({Head(toClient)} \ {Update}, Acks')
         /\ \A i, j \in DOMAIN toClient' :
              i < j /\ toClient'[i] # Update /\ toClient'[j] # Update => toClient'[i] < toClient'[j]
<1>1. toClient \in Seq(0 .. MaxSequence) /\ Len(toClient) <= Capacity
  BY DEF ConnectionTypeOK
<1>2. /\ toClient' \in Seq(0 .. MaxSequence) /\ Len(toClient') = Len(toClient) - 1 /\ Len(toClient) \in Nat \ {0}
      /\ DOMAIN toClient = 1 .. Len(toClient) /\ DOMAIN toClient' = 1 .. Len(toClient) - 1
      /\ \A i \in DOMAIN toClient' : toClient'[i] = toClient[i + 1]
      /\ Head(toClient) = toClient[1] /\ Head(toClient) \in 0 .. MaxSequence
  BY <1>1, TailAt
<1>3. \A i \in DOMAIN toClient' : i + 1 \in DOMAIN toClient /\ toClient'[i] = toClient[i + 1]
  BY <1>2
<1>4. Before({Head(toClient)} \ {Update}, Acks')
  <2> SUFFICES ASSUME Head(toClient) # Update, NEW j \in DOMAIN toClient', toClient'[j] # Update
               PROVE  Head(toClient) < toClient'[j]
    BY DEF Before, Acks, Range, Update
  <2>1. 1 \in DOMAIN toClient /\ 1 < j + 1
    BY <1>2
  <2> QED BY <1>2, <1>3, <2>1 DEF InOrder
<1>5. ASSUME NEW i \in DOMAIN toClient', NEW j \in DOMAIN toClient', i < j,
             toClient'[i] # Update, toClient'[j] # Update
      PROVE  toClient'[i] < toClient'[j]
  <2>1. i + 1 < j + 1
    BY <1>2, <1>5
  <2> QED BY <1>3, <1>5, <2>1 DEF InOrder
<1> QED BY <1>1, <1>2, <1>4, <1>5 DEF Update

LEMMA TakeMessageInv == ASSUME ConnectionInv, TakeMessage PROVE ConnectionInv'
<1> USE DEF ConnectionInv
<1> DEFINE n == Head(toClient)
<1>1. /\ toClient \in Seq(0 .. MaxSequence) /\ toClient # <<>> /\ toClient' = Tail(toClient) /\ open
      /\ UNCHANGED <<sequence, lastPosition, sending, meshing, told, handling, moved, giving, open, loop, cancelled>>
  BY DEF ConnectionTypeOK, TakeMessage, serverVars
<1>2. /\ toClient' \in Seq(0 .. MaxSequence) /\ Len(toClient') <= Capacity /\ n \in 0 .. MaxSequence
      /\ Before({n} \ {Update}, Acks')
      /\ \A i, j \in DOMAIN toClient' :
           i < j /\ toClient'[i] # Update /\ toClient'[j] # Update => toClient'[i] < toClient'[j]
  BY <1>1, ClientTakes
<1>3. Acks' \subseteq Acks /\ Acks = Acks' \cup ({n} \ {Update})
  BY <1>1, AcksTail
<1>4. toServer' = toServer /\ unacked' = unacked \ ({n} \ {Update})
  <2>1. n # Update => n \in unacked
    BY <1>3 DEF AnswersFit
  <2> QED BY <2>1 DEF TakeMessage, HandleAck
<1>5. Asked' = Asked /\ InHand' = InHand /\ Taken' = Taken /\ LastMoved' = LastMoved
  BY <1>1, <1>4 DEF Asked, InHand, Taken, LastMoved
<1> HIDE DEF n
<1>6. ConnectionTypeOK'
  BY <1>1, <1>2, <1>4 DEF ConnectionTypeOK
<1>7. n \notin Acks' \cup InHand' \cup Asked' \cup Taken'
  <2>1. CASE n = Update
    BY <2>1, <1>5, SetsType, <1>3 DEF Update
  <2>2. CASE n # Update
    <3>1. n \in Acks
      BY <1>3, <2>2
    <3> QED BY <1>2, <1>5, <2>2, <3>1 DEF InOrder, Before
  <2> QED BY <2>1, <2>2
<1>8. NumbersFit'
  BY <1>1, <1>3, <1>4, <1>5, <1>7 DEF NumbersFit, OnTheirWay
<1>9. InOrder'
  <2>1. /\ Before(Acks', InHand' \cup Asked') /\ Before(InHand', Asked')
        /\ Before(Acks' \cup InHand' \cup Asked' \cup LastMoved', Taken')
    BY <1>3, <1>5 DEF InOrder, Before
  <2> QED BY <1>2, <1>4, <2>1 DEF InOrder, Update
<1>10. PositionsFit' /\ ReadyComesFirst'
  BY <1>1, <1>4 DEF PositionsFit, ReadyComesFirst
<1>11. AnswersFit'
  <2>1. Acks' \cup ({handling'} \ {Nothing}) \subseteq unacked'
    BY <1>8 DEF NumbersFit, OnTheirWay, InHand
  <2>2. lastPosition \in unacked' => lastPosition \in unacked /\ (lastPosition \in Acks => lastPosition \in Acks')
    BY <1>3, <1>4
  <2> QED BY <1>1, <1>3, <1>4, <2>1, <2>2 DEF AnswersFit, Up
<1> QED BY <1>6, <1>8, <1>9, <1>10, <1>11
-----------------------------------------------------------------------------
(* The loops of the server.                                                *)

\* The ready message has no number: no answer to it is missed.
LEMMA GreetInv == ASSUME ConnectionInv, Greet PROVE ConnectionInv'
<1> USE DEF ConnectionInv
<1>1. /\ toServer \in Seq(Messages) /\ toServer # <<>> /\ toServer' = Tail(toServer) /\ open
      /\ UNCHANGED <<sequence, unacked, lastPosition, sending, meshing, told, handling, moved, giving, open,
                     toClient, cancelled>>
      /\ loop[ServerIn] = "new"
  BY DEF ConnectionTypeOK, Greet, clientVars, serverVars
<1>2. /\ loop' \in [Loops -> {"new", "up", "down", "crashed"}] /\ loop'[ServerIn] = "up"
      /\ loop'[ClientOut] = loop[ClientOut]
  BY DEF Greet, ConnectionTypeOK, Loops, ServerIn, ServerOut, ClientOut, ClientIn
<1>3. /\ toServer' \in Seq(Messages) /\ Len(toServer') <= Capacity
      /\ \A i, j \in DOMAIN toServer' :
           i < j /\ toServer'[i].seq # 0 /\ toServer'[j].seq # 0 => toServer'[i].seq < toServer'[j].seq
      /\ \A i \in DOMAIN toServer' : i + 1 \in DOMAIN toServer /\ toServer'[i] = toServer[i + 1]
      /\ \A i \in DOMAIN toServer : i # 1 => i - 1 \in DOMAIN toServer' /\ toServer'[i - 1] = toServer[i]
  BY <1>1, ServerTakes
<1>4. Asked' \subseteq Asked
  BY <1>1, AskedTail
<1>5. Acks' = Acks /\ InHand' = InHand /\ Taken' = Taken /\ LastMoved' = LastMoved
  BY <1>1 DEF Acks, InHand, Taken, LastMoved
<1>6. ConnectionTypeOK'
  BY <1>1, <1>2, <1>3 DEF ConnectionTypeOK
<1>7. NumbersFit'
  BY <1>1, <1>4, <1>5 DEF NumbersFit, OnTheirWay
<1>8. InOrder'
  <2>1. /\ Before(Acks', InHand' \cup Asked') /\ Before(InHand', Asked')
        /\ Before(Acks' \cup InHand' \cup Asked' \cup LastMoved', Taken')
    BY <1>4, <1>5 DEF InOrder, Before
  <2> QED BY <1>1, <1>3, <2>1 DEF InOrder
<1>9. PositionsFit'
  BY <1>1, <1>3 DEF PositionsFit
<1>10. ReadyComesFirst'
  BY <1>2 DEF ReadyComesFirst
<1>11. AnswersFit'
  <2>1. Acks' \cup ({handling'} \ {Nothing}) \subseteq unacked'
    BY <1>1, <1>5 DEF AnswersFit
  <2>2. toServer[1].seq = 0
    BY <1>1 DEF ReadyComesFirst
  <2>3. lastPosition # 0
    BY DEF ConnectionTypeOK
  <2>4. ASSUME open, Up(ClientOut), lastPosition \in unacked
        PROVE  \/ \E i \in DOMAIN toServer' : toServer'[i].seq = lastPosition
               \/ lastPosition \in Acks \cup {handling}
    <3>1. CASE lastPosition \in Acks \cup {handling}
      BY <3>1
    <3>2. CASE lastPosition \notin Acks \cup {handling}
      <4>1. PICK i \in DOMAIN toServer : toServer[i].seq = lastPosition
        BY <1>1, <2>4, <3>2 DEF AnswersFit
      <4>2. i # 1
        BY <2>2, <2>3, <4>1
      <4> QED BY <1>3, <4>1, <4>2
    <3> QED BY <3>1, <3>2
  <2> QED BY <1>1, <1>2, <1>5, <2>1, <2>4 DEF AnswersFit, Up
<1> QED BY <1>6, <1>7, <1>8, <1>9, <1>10, <1>11

LEMMA HandleMessageInv == ASSUME ConnectionInv, HandleMessage PROVE ConnectionInv'
<1> USE DEF ConnectionInv
<1> DEFINE msg == Head(toServer)
<1>1. /\ toServer \in Seq(Messages) /\ toServer # <<>> /\ toServer' = Tail(toServer) /\ open
      /\ UNCHANGED <<sequence, unacked, lastPosition, sending, meshing, told, giving, open, toClient, loop, cancelled>>
      /\ handling = Nothing /\ loop[ServerIn] = "up"
  BY DEF ConnectionTypeOK, HandleMessage, clientVars, Up
<1>2. /\ handling' \in {msg.seq, Nothing} /\ (msg.seq = 0 => handling' = Nothing)
      /\ msg.seq # 0 /\ msg.kind # "action" => handling' = msg.seq
  BY DEF HandleMessage
<1>3. moved' \in BOOLEAN
  BY DEF HandleMessage, ConnectionTypeOK
<1>4. /\ toServer' \in Seq(Messages) /\ Len(toServer') <= Capacity /\ msg \in Messages
      /\ Before({msg.seq} \ {0}, Asked')
      /\ \A i, j \in DOMAIN toServer' :
           i < j /\ toServer'[i].seq # 0 /\ toServer'[j].seq # 0 => toServer'[i].seq < toServer'[j].seq
      /\ \A i \in DOMAIN toServer' : i + 1 \in DOMAIN toServer /\ toServer'[i] = toServer[i + 1]
      /\ \A i \in DOMAIN toServer : i # 1 => i - 1 \in DOMAIN toServer' /\ toServer'[i - 1] = toServer[i]
  BY <1>1, ServerTakes
<1>5. Asked' \subseteq Asked /\ Asked = Asked' \cup ({msg.seq} \ {0})
  BY <1>1, AskedTail
<1>6. 1 \in DOMAIN toServer /\ msg = toServer[1] /\ msg.seq \in 0 .. MaxSequence
  BY <1>1, <1>4, TailAt DEF Messages
<1> HIDE DEF msg
<1>7. /\ Acks' = Acks /\ InHand' \subseteq {msg.seq} \ {0} /\ InHand = {} /\ Taken' = Taken
      /\ LastMoved' = LastMoved
  BY <1>1, <1>2 DEF Acks, InHand, Taken, LastMoved
<1>8. ConnectionTypeOK'
  <2>1. handling' \in (1 .. MaxSequence) \cup {Nothing}
    BY <1>2, <1>6
  <2> QED BY <1>1, <1>3, <1>4, <2>1 DEF ConnectionTypeOK
<1>9. NumbersFit'
  BY <1>1, <1>5, <1>7 DEF NumbersFit, OnTheirWay
<1>10. InOrder'
  <2>1. /\ Before(Acks', InHand' \cup Asked') /\ Before(InHand', Asked')
        /\ Before(Acks' \cup InHand' \cup Asked' \cup LastMoved', Taken')
    BY <1>4, <1>5, <1>7 DEF InOrder, Before
  <2> QED BY <1>1, <1>4, <2>1 DEF InOrder
<1>11. PositionsFit' /\ ReadyComesFirst'
  BY <1>1, <1>4 DEF PositionsFit, ReadyComesFirst
<1>12. AnswersFit'
  <2>1. Acks' \cup ({handling'} \ {Nothing}) \subseteq unacked'
    BY <1>9 DEF NumbersFit, OnTheirWay, InHand
  <2>2. ASSUME Up(ClientOut), lastPosition \in unacked, loop[ServerIn] # "down"
        PROVE  \/ \E i \in DOMAIN toServer' : toServer'[i].seq = lastPosition
               \/ lastPosition \in Acks \cup {handling'}
    <3>1. lastPosition # 0 /\ lastPosition # Nothing
      BY <2>2 DEF ConnectionTypeOK
    <3>2. CASE lastPosition \in Acks
      BY <3>2
    <3>3. CASE lastPosition \notin Acks
      <4>1. PICK i \in DOMAIN toServer : toServer[i].seq = lastPosition
        BY <1>1, <2>2, <3>1, <3>3 DEF AnswersFit
      <4>2. CASE i = 1
        <5>1. msg.seq = lastPosition /\ msg.kind = "position"
          BY <1>6, <4>1, <4>2 DEF PositionsFit
        <5> QED BY <1>2, <3>1, <5>1
      <4>3. CASE i # 1
        BY <1>4, <4>1, <4>3
      <4> QED BY <4>2, <4>3
    <3> QED BY <3>2, <3>3
  <2> QED BY <1>1, <1>7, <2>1, <2>2 DEF AnswersFit, Up
<1> QED BY <1>8, <1>9, <1>10, <1>11, <1>12

\* What goes to the client is younger than all that is on its way there.
LEMMA ClientGets ==
  ASSUME ConnectionTypeOK, InOrder, Len(toClient) < Capacity, NEW n \in 0 .. MaxSequence,
         toClient' = Append(toClient, n), n = Update \/ n \in InHand
  PROVE  /\ toClient' \in Seq(0 .. MaxSequence) /\ Len(toClient') <= Capacity
         /\ Acks' = Acks \cup ({n} \ {Update})
         /\ \A i, j \in DOMAIN toClient' :
              i < j /\ toClient'[i] # Update /\ toClient'[j] # Update => toClient'[i] < toClient'[j]
<1>1. toClient \in Seq(0 .. MaxSequence)
  BY DEF ConnectionTypeOK
<1>2. /\ toClient' \in Seq(0 .. MaxSequence) /\ Len(toClient') = Len(toClient) + 1 /\ Len(toClient) \in Nat
      /\ DOMAIN toClient = 1 .. Len(toClient) /\ DOMAIN toClient' = 1 .. Len(toClient) + 1
      /\ \A i \in DOMAIN toClient : toClient'[i] = toClient[i]
      /\ toClient'[Len(toClient) + 1] = n
  BY <1>1, AppendAt
<1>3. Len(toClient') <= Capacity
  BY <1>2
<1>4. Acks' = Acks \cup ({n} \ {Update})
  BY <1>1, AcksAppend
<1>5. ASSUME NEW i \in DOMAIN toClient', NEW j \in DOMAIN toClient', i < j,
             toClient'[i] # Update, toClient'[j] # Update
      PROVE  toClient'[i] < toClient'[j]
  <2>1. i \in DOMAIN toClient /\ toClient'[i] = toClient[i] /\ toClient[i] \in Acks
    BY <1>2, <1>5 DEF Acks, Range
  <2>2. CASE j \in DOMAIN toClient
    BY <1>2, <1>5, <2>1, <2>2 DEF InOrder
  <2>3. CASE j = Len(toClient) + 1
    BY <1>2, <1>5, <2>1, <2>3 DEF InOrder, Before
  <2> QED BY <1>2, <2>2, <2>3
<1> QED BY <1>2, <1>3, <1>4, <1>5 DEF Update

LEMMA GiveInv == ASSUME ConnectionInv, Give PROVE ConnectionInv'
<1> USE DEF ConnectionInv
<1>1. /\ toClient' = Append(toClient, Update) /\ Len(toClient) < Capacity /\ giving' = FALSE
      /\ UNCHANGED <<sequence, unacked, lastPosition, sending, meshing, told, handling, moved, open, toServer,
                     loop, cancelled>>
  BY DEF Give, clientVars
<1>2. /\ toClient' \in Seq(0 .. MaxSequence) /\ Len(toClient') <= Capacity
      /\ Acks' = Acks
      /\ \A i, j \in DOMAIN toClient' :
           i < j /\ toClient'[i] # Update /\ toClient'[j] # Update => toClient'[i] < toClient'[j]
  <2>1. Update \in 0 .. MaxSequence
    BY DEF Update
  <2> QED BY <1>1, <2>1, ClientGets
<1>3. Asked' = Asked /\ InHand' = InHand /\ Taken' = Taken /\ LastMoved' = LastMoved
  BY <1>1 DEF Asked, InHand, Taken, LastMoved
<1>4. ConnectionTypeOK'
  BY <1>1, <1>2 DEF ConnectionTypeOK
<1>5. NumbersFit' /\ PositionsFit' /\ ReadyComesFirst'
  BY <1>1, <1>2, <1>3 DEF NumbersFit, OnTheirWay, PositionsFit, ReadyComesFirst
<1>6. InOrder'
  BY <1>1, <1>2, <1>3 DEF InOrder, Update
<1>7. AnswersFit'
  BY <1>1, <1>2 DEF AnswersFit, Up
<1> QED BY <1>4, <1>5, <1>6, <1>7

LEMMA SendAckInv == ASSUME ConnectionInv, SendAck PROVE ConnectionInv'
<1> USE DEF ConnectionInv
<1>1. /\ handling \in 1 .. MaxSequence /\ handling' = Nothing
      /\ UNCHANGED <<sequence, unacked, lastPosition, sending, meshing, told, moved, giving, open, toServer,
                     loop, cancelled>>
  BY DEF ConnectionTypeOK, SendAck, clientVars
<1>2. /\ toClient' \in Seq(0 .. MaxSequence) /\ Len(toClient') <= Capacity
      /\ Acks' \subseteq Acks \cup {handling} /\ (open => Acks' = Acks \cup {handling})
      /\ \A i, j \in DOMAIN toClient' :
           i < j /\ toClient'[i] # Update /\ toClient'[j] # Update => toClient'[i] < toClient'[j]
  <2>1. CASE open
    <3>1. toClient' = Append(toClient, handling) /\ Len(toClient) < Capacity
      BY <2>1 DEF SendAck
    <3>2. handling \in InHand /\ handling # Update /\ handling \in 0 .. MaxSequence
      BY <1>1 DEF InHand, Update
    <3> HIDE DEF ConnectionInv
    <3>3. ConnectionTypeOK /\ InOrder
      BY DEF ConnectionInv
    <3> QED BY <2>1, <3>1, <3>2, <3>3, ClientGets
  <2>2. CASE ~open
    <3>1. toClient' = toClient
      BY <2>2 DEF SendAck
    <3>2. Acks' = Acks
      BY <3>1 DEF Acks
    <3> QED BY <2>2, <3>1, <3>2 DEF ConnectionTypeOK, InOrder
  <2> QED BY <2>1, <2>2
<1>3. /\ Asked' = Asked /\ Taken' = Taken /\ LastMoved' = LastMoved
      /\ InHand = {handling} /\ InHand' = {}
  BY <1>1 DEF Asked, InHand, Taken, LastMoved
<1>4. ConnectionTypeOK'
  BY <1>1, <1>2 DEF ConnectionTypeOK
<1>5. NumbersFit'
  BY <1>1, <1>2, <1>3 DEF NumbersFit, OnTheirWay
<1>6. PositionsFit' /\ ReadyComesFirst'
  BY <1>1 DEF PositionsFit, ReadyComesFirst
<1>7. InOrder'
  <2>1. /\ Before(Acks', InHand' \cup Asked') /\ Before(InHand', Asked')
        /\ Before(Acks' \cup InHand' \cup Asked' \cup LastMoved', Taken')
    BY <1>2, <1>3 DEF InOrder, Before
  <2> QED BY <1>1, <1>2, <2>1 DEF InOrder, Update
<1>8. AnswersFit'
  <2>1. Acks' \cup ({handling'} \ {Nothing}) \subseteq unacked'
    BY <1>5, <1>1 DEF NumbersFit, OnTheirWay
  <2> QED BY <1>1, <1>2, <2>1 DEF AnswersFit, Up
<1> QED BY <1>4, <1>5, <1>6, <1>7, <1>8
-----------------------------------------------------------------------------
\* ConnectionInv is inductive.
LEMMA ConnectionNextInv == ConnectionInv /\ [ConnectionNext]_connectionVars => ConnectionInv'
<1> SUFFICES ASSUME ConnectionInv, [ConnectionNext]_connectionVars PROVE ConnectionInv'
  OBVIOUS
<1>1. CASE SendPosition \/ HandleGameAction
  BY <1>1, SendSequencedInv DEF SendPosition, HandleGameAction
<1>2. CASE GiveFails \/ FetchFails \/ Shutdown \/ ServerOutboundEnds
  BY <1>2, ServerEndsInv DEF GiveFails, FetchFails, Shutdown, ServerOutboundEnds
<1>3. CASE UNCHANGED connectionVars
  <2>1. UNCHANGED <<sequence, unacked, lastPosition, sending, meshing, told, handling, moved, giving, open,
                    toServer, toClient, loop, cancelled>>
    BY <1>3 DEF connectionVars, clientVars, serverVars, channels
  <2>2. ConnectionTypeOK'
    BY <2>1 DEF ConnectionInv, ConnectionTypeOK
  <2> QED BY <2>1, <2>2, LessInv DEF Up
<1> QED BY <1>1, <1>2, <1>3, SentInv, ClientEndsInv, OutsideInv, TakeMessageInv, GreetInv, ServerEndsInv,
           HandleMessageInv, SendAckInv, GiveInv DEF ConnectionNext, GoesOn

\* ConnectionInv is an invariant, and with it the types.
THEOREM ConnectionInvariant == ConnectionSpec => []ConnectionInv
BY ConnectionInitInv, ConnectionNextInv, PTL DEF ConnectionSpec

THEOREM ConnectionTypes == ConnectionSpec => []ConnectionTypeOK
<1>1. ConnectionInv => ConnectionTypeOK
  BY DEF ConnectionInv
<1> QED BY <1>1, ConnectionInvariant, PTL

\* handle_ack and send_position_update: what is acknowledged is waited for, and a position
\* that is withheld waits for something on its way.
THEOREM AnswersAlwaysFit == ConnectionSpec => []AnswersFit
<1>1. ConnectionInv => AnswersFit
  BY DEF ConnectionInv
<1> QED BY <1>1, ConnectionInvariant, PTL

\* The four loops as the steps change them.
LEMMA LoopsDown ==
  ASSUME ConnectionTypeOK, NEW ls \in SUBSET Loops, Downs(ls)
  PROVE  \A l \in Loops : loop'[l] = IF l \in ls THEN "down" ELSE loop[l]
BY DEF Downs

LEMMA FourLoops ==
  /\ Loops = {ClientIn, ClientOut, ServerIn, ServerOut}
  /\ ClientIn # ClientOut /\ ClientIn # ServerIn /\ ClientIn # ServerOut
  /\ ClientOut # ServerIn /\ ClientOut # ServerOut /\ ServerIn # ServerOut
BY DEF Loops, ClientIn, ClientOut, ServerIn, ServerOut

LEMMA EndsFitNext == ConnectionTypeOK /\ EndsFit /\ [ConnectionNext]_connectionVars => EndsFit'
<1> SUFFICES ASSUME ConnectionTypeOK, EndsFit, [ConnectionNext]_connectionVars PROVE EndsFit'
  OBVIOUS
<1> USE FourLoops DEF EndsFit, Up
<1>1. CASE SendPosition \/ HandleGameAction
  BY <1>1 DEF SendPosition, HandleGameAction, SendSequenced, serverVars, channels
<1>2. CASE Sent
  BY <1>2 DEF Sent, serverVars
<1>3. CASE OutboundEnds
  <2>1. \A l \in Loops : loop'[l] = IF l \in {ClientOut} THEN "down" ELSE loop[l]
    BY <1>3, LoopsDown DEF OutboundEnds
  <2> QED BY <1>3, <2>1 DEF OutboundEnds, serverVars, channels
<1>4. CASE Quit \/ ShowError
  BY <1>4 DEF Quit, ShowError, clientVars, serverVars, channels
<1>5. CASE TakeMessage
  BY <1>5 DEF TakeMessage, serverVars
<1>6. ASSUME DropsInbound, cancelled' = cancelled,
             told' \/ "client" \in cancelled \/ ~meshing', meshing' \in {meshing, FALSE}
      PROVE  EndsFit'
  <2>1. \A l \in Loops : loop'[l] = IF l \in {ClientIn} THEN "down" ELSE loop[l]
    BY <1>6, LoopsDown DEF DropsInbound
  <2> QED BY <1>6, <2>1 DEF DropsInbound, serverVars
<1>7. CASE InboundFails \/ InboundCancelled \/ MeshWorkerFails
  BY <1>6, <1>7 DEF InboundFails, InboundCancelled, MeshWorkerFails
<1>8. CASE Disconnected
  BY <1>8 DEF Disconnected, clientVars, serverVars, channels
<1>9. CASE Greet
  <2>1. \A l \in Loops : loop'[l] = IF l \in {ServerIn, ServerOut} THEN "up" ELSE loop[l]
    BY <1>9 DEF Greet
  <2> QED BY <1>9, <2>1 DEF Greet, clientVars, serverVars
<1>10. CASE GreetFails
  <2>1. \A l \in Loops : loop'[l] = IF l \in {ServerIn, ServerOut} THEN "down" ELSE loop[l]
    BY <1>10, LoopsDown DEF GreetFails
  <2> QED BY <1>10, <2>1 DEF GreetFails, clientVars, serverVars, channels
<1>11. CASE HandleMessage \/ SendAck
  BY <1>11 DEF HandleMessage, SendAck, clientVars
<1>12. CASE ServerInboundEnds
  <2>1. \A l \in Loops : loop'[l] = IF l \in {ServerIn} THEN "down" ELSE loop[l]
    BY <1>12, LoopsDown DEF ServerInboundEnds
  <2> QED BY <1>12, <2>1 DEF ServerInboundEnds, ServerUnchanged, clientVars, serverVars
<1>13. CASE HandleUpdate \/ Give
  <2>1. /\ UNCHANGED <<sending, handling, loop, open, told, cancelled, meshing>>
        /\ Up(ServerOut)
    BY <1>13 DEF HandleUpdate, Give, ServerUnchanged, clientVars
  <2> QED BY <2>1
<1>14. CASE GiveFails \/ FetchFails \/ Shutdown \/ ServerOutboundEnds
  <2>1. DropsOutbound
    BY <1>14 DEF GiveFails, FetchFails, Shutdown, ServerOutboundEnds
  <2>2. \A l \in Loops : loop'[l] = IF l \in {ServerOut} THEN "down" ELSE loop[l]
    BY <2>1, LoopsDown DEF DropsOutbound
  <2>3. loop[ServerOut] = "up"
    BY <1>14 DEF GiveFails, FetchFails, Shutdown, ServerOutboundEnds
  <2> QED BY <2>1, <2>2, <2>3 DEF DropsOutbound, ServerUnchanged, clientVars
<1>15. CASE NetworkBreaks
  BY <1>15 DEF NetworkBreaks, clientVars, serverVars
<1>16. CASE PositionFails
  <2>1. \A l \in Loops : loop'[l] = IF l = ClientOut THEN "crashed" ELSE loop[l]
    BY <1>16 DEF PositionFails, ConnectionTypeOK
  <2> QED BY <1>16, <2>1 DEF PositionFails, clientVars, serverVars, channels
<1>17. CASE UNCHANGED connectionVars
  BY <1>17 DEF connectionVars, clientVars, serverVars, channels
<1> QED BY <1>1, <1>2, <1>3, <1>4, <1>5, <1>7, <1>8, <1>9, <1>10, <1>11, <1>12, <1>13, <1>14, <1>15, <1>16, <1>17
        DEF ConnectionNext, GoesOn

\* A stream that stands still is open with nobody waiting, or closed with no loop left behind.
LEMMA StandstillFits == ConnectionInv /\ EndsFit => NothingIsLeft
<1> SUFFICES ASSUME ConnectionInv, EndsFit, ~ClientEndMayGo, ~ServerEndMayGo
             PROVE  IF open
                      THEN /\ \A l \in Loops : Up(l) \/ (l = ClientOut /\ loop[l] = "crashed")
                           /\ sending = Nothing /\ handling = Nothing /\ ~giving
                           /\ toServer = <<>> /\ toClient = <<>>
                      ELSE \A l \in Loops :
                             loop[l] = "down" \/ (l = ClientOut /\ (~meshing \/ loop[l] = "crashed"))
  BY DEF NothingIsLeft
<1>1. \A l \in Loops : loop[l] \in {"new", "up", "down", "crashed"}
  BY DEF ConnectionInv, ConnectionTypeOK
<1> USE FourLoops
<1>2. CASE open
  <2>1. Up(ClientIn) /\ "client" \notin cancelled /\ (Up(ClientOut) \/ loop[ClientOut] = "crashed")
    BY <1>1, <1>2 DEF EndsFit, ClientEndMayGo, Up
  <2>2. toClient = <<>>
    <3>1. ASSUME toClient # <<>> PROVE Head(toClient) \in unacked \cup {Update}
      <4>1. Head(toClient) \in Range(toClient)
        BY <3>1, TailAt DEF Range, ConnectionInv, ConnectionTypeOK
      <4> QED BY <4>1 DEF ConnectionInv, AnswersFit, Acks
    <3> QED BY <2>1, <3>1 DEF ClientEndMayGo
  <2>3. Len(toClient) < Capacity
    BY <2>2
  <2>4. loop[ServerIn] # "new"
    <3> SUFFICES ASSUME loop[ServerIn] = "new" PROVE FALSE
      OBVIOUS
    <3>1. toServer = <<>>
      BY DEF ServerEndMayGo
    <3>2. sending # Nothing
      BY <1>2, <3>1 DEF ConnectionInv, ReadyComesFirst
    <3>3. Len(toServer) < Capacity /\ Up(ClientOut)
      BY <3>1, <3>2 DEF EndsFit
    <3> QED BY <2>1, <3>2, <3>3 DEF ClientEndMayGo
  <2>5. loop[ServerIn] = loop[ServerOut]
    BY <1>1, <2>3, <2>4 DEF EndsFit, ServerEndMayGo, Up
  <2>6. Up(ServerIn) /\ Up(ServerOut)
    BY <1>1, <1>2, <2>1, <2>2, <2>4, <2>5 DEF EndsFit, ClientEndMayGo, Up
  <2>7. handling = Nothing /\ ~giving /\ toServer = <<>>
    BY <2>3, <2>6 DEF ServerEndMayGo
  <2>8. sending = Nothing
    <3>1. Len(toServer) < Capacity /\ (sending # Nothing => Up(ClientOut))
      BY <2>7 DEF EndsFit
    <3> QED BY <2>1, <3>1 DEF ClientEndMayGo
  <2> QED BY <1>2, <2>1, <2>2, <2>6, <2>7, <2>8
<1>3. CASE ~open
  <2>1. loop[ClientIn] = "down" /\ loop[ServerIn] = "down"
    BY <1>1, <1>3 DEF EndsFit, ClientEndMayGo, ServerEndMayGo, Up
  <2>2. loop[ServerOut] = "down"
    BY <1>1, <1>3, <2>1 DEF EndsFit, ServerEndMayGo, Up
  <2>3. loop[ClientOut] \in {"down", "crashed"} \/ ~meshing
    BY <1>1, <1>3, <2>1 DEF EndsFit, ClientEndMayGo, Up
  <2> QED BY <1>3, <2>1, <2>2, <2>3
<1> QED BY <1>2, <1>3

\* No loop is left behind by the other one, at either end (client_context.rs of both): where
\* nothing goes on by itself, the stream is open with all its loops and nobody waits for room,
\* or it is closed and every loop has ended, but for that of a client whose mesh worker failed.
\* An outbound loop of the client that fails over its own position is the exception in both.
THEOREM NoLoopIsLeft == ConnectionSpec => []NothingIsLeft
<1>1. ConnectionInit => EndsFit
  BY FourLoops DEF ConnectionInit, EndsFit, Up
<1>2. ConnectionInv => ConnectionTypeOK
  BY DEF ConnectionInv
<1> QED BY <1>1, <1>2, EndsFitNext, StandstillFits, ConnectionInvariant, PTL DEF ConnectionSpec

-----------------------------------------------------------------------------
(***************************************************************************)
(* Proofs about PlayerSessions, for any names, streams and bounds:         *)
(* SessionsInv is an inductive invariant of SessionsSpec, so that the      *)
(* types, OneSession, RecordIsLatest and ItemsReturn always hold, and      *)
(* under it no step replaces a record by an older one.                     *)
(*                                                                         *)
(* The argument.  The table is changed by connect and disconnect only,     *)
(* under its mutex: an entry is a stream of that name that holds its       *)
(* Player.  Its record is never ahead of that Player and has the same main *)
(* inventory, so that whatever a flush or a disconnect writes is no older; *)
(* and the Player of an entry is the one with the last position accepted,  *)
(* so that the record is the latest when the entry goes.  What the views   *)
(* of a stream hold stays behind until its Player is dropped, and what is  *)
(* returned is lost by a counted fault only, or spilt from a full one.     *)
(***************************************************************************)
USE SessionsAssumption

LEMMA SessionsInitInv == SessionsInit => SessionsInv
<1> SUFFICES ASSUME SessionsInit PROVE SessionsInv
  OBVIOUS
<1>1. SessionsTypeOK
  BY DEF SessionsInit, SessionsTypeOK, NoFlush, Phases, Handshakes
<1>2. StreamsFit /\ TableFits /\ OneSession
  BY DEF SessionsInit, StreamsFit, TableFits, OneSession, NoFlush, InTable, InGame
<1>3. RecordsFit /\ RecordIsLatest /\ ItemsReturn
  BY DEF SessionsInit, RecordsFit, RecordIsLatest, ItemsReturn
<1> QED BY <1>1, <1>2, <1>3 DEF SessionsInv

\* The troubles grow, and stay what they are without a fault.
More == troubles' \in Nat /\ troubles' >= troubles

LEMMA FaultCounts == ASSUME SessionsInv, Fault PROVE More /\ troubles' > 0
BY DEF SessionsInv, SessionsTypeOK, Fault, More

LEMMA NoFault == ASSUME SessionsInv, UNCHANGED troubles PROVE More
BY DEF SessionsInv, SessionsTypeOK, More

\* Whoever keeps the items and the Players that hold them keeps ItemsReturn.
LEMMA ItemsStay ==
  ASSUME SessionsInv, More, UNCHANGED itemVars,
         \A s \in Streams : player[s] # NoPlayer => who'[s] = who[s] /\ player'[s] # NoPlayer
  PROVE  ItemsReturn'
<1>1. UNCHANGED <<item, full>> /\ (troubles > 0 => troubles' > 0)
  BY DEF SessionsInv, SessionsTypeOK, More, itemVars
<1> QED BY <1>1 DEF SessionsInv, ItemsReturn
-----------------------------------------------------------------------------
(* Before connect: a stream without a Player is nobody's entry.            *)

Early == {"registering", "storing", "login", "named"}

\* A step of a stream that comes to no Player keeps the invariant.
LEMMA EarlyInv ==
  ASSUME SessionsInv, NEW s \in Streams, phase[s] \in Early \cup {"idle"},
         NEW p \in Early \cup {"idle"}, Goes(s, p),
         NEW n \in Names \cup {Nobody}, who' = [who EXCEPT ![s] = n], p # "idle" => n \in Names,
         accounts' \subseteq Names, gone' \subseteq Streams, More, made' \in Nat,
         UNCHANGED <<active, player, loops, record, itemVars, taskVars, history>>
  PROVE  SessionsInv'
<1> USE DEF SessionsInv, Early, Goes, taskVars, history
<1>1. SessionsTypeOK'
  BY DEF SessionsTypeOK, Phases, Handshakes, itemVars, More
<1>2. StreamsFit'
  BY DEF SessionsTypeOK, StreamsFit, InGame
<1>3. TableFits'
  BY DEF SessionsTypeOK, TableFits, InGame, InTable
<1>4. OneSession'
  BY DEF SessionsTypeOK, OneSession
<1>5. RecordsFit'
  BY DEF SessionsTypeOK, RecordsFit, TableFits
<1>6. RecordIsLatest'
  BY DEF RecordIsLatest
<1>7. ItemsReturn'
  <2>1. \A t \in Streams : player[t] # NoPlayer => who'[t] = who[t] /\ player'[t] # NoPlayer
    BY DEF SessionsTypeOK, StreamsFit, InGame
  <2> QED BY <2>1, ItemsStay
<1> QED BY <1>1, <1>2, <1>3, <1>4, <1>5, <1>6, <1>7

\* The end of a stream that came to no Player.
LEMMA FailsInv ==
  ASSUME SessionsInv, NEW s \in Streams, phase[s] \in Early, Fails(s),
         accounts' \subseteq Names, More, made' \in Nat,
         UNCHANGED <<record, itemVars, taskVars, history>>
  PROVE  SessionsInv'
<1>1. gone' \subseteq Streams
  BY DEF Fails, SessionsInv, SessionsTypeOK
<1> QED BY <1>1, EarlyInv DEF Fails

\* Counting a fault.
LEMMA LogsInInv == ASSUME SessionsInv, NEW s \in Streams, LogsIn(s) PROVE SessionsInv'
<1> USE NoFault DEF Early, dbVars
<1>1. /\ accounts \subseteq Names /\ gone \subseteq Streams /\ troubles \in Nat /\ made \in Nat
      /\ who \in [Streams -> Names \cup {Nobody}]
  BY DEF SessionsInv, SessionsTypeOK
<1>2. phase[s] # "idle" => who[s] \in Names
  BY DEF SessionsInv, StreamsFit
<1>3. ASSUME NEW n \in Names, StartAuthentication(s, n) PROVE SessionsInv'
  BY <1>1, <1>3, EarlyInv DEF StartAuthentication
<1>4. CASE Refuse(s)
  BY <1>1, <1>4, FailsInv DEF Refuse
<1>5. who = [who EXCEPT ![s] = who[s]]
  BY <1>1
<1>6. CASE LookUpName(s)
  <2>1. CASE Fails(s)
    BY <1>1, <1>6, <2>1, FailsInv DEF LookUpName
  <2>2. CASE ~Fails(s)
    BY <1>1, <1>2, <1>5, <1>6, <2>2, EarlyInv DEF LookUpName
  <2> QED BY <2>1, <2>2
<1>7. CASE StoreAccount(s)
  <2>1. CASE Fault /\ Fails(s) /\ UNCHANGED accounts
    BY <1>1, <1>7, <2>1, FailsInv, FaultCounts DEF StoreAccount
  <2>2. CASE ~(Fault /\ Fails(s) /\ UNCHANGED accounts)
    BY <1>1, <1>2, <1>5, <1>7, <2>2, EarlyInv DEF StoreAccount
  <2> QED BY <2>1, <2>2
<1>8. CASE FinishLogin(s)
  BY <1>1, <1>2, <1>5, <1>8, EarlyInv DEF FinishLogin
<1> QED BY <1>3, <1>4, <1>6, <1>7, <1>8 DEF LogsIn
-----------------------------------------------------------------------------
(* connect and the game.                                                   *)

\* Whoever enters with the Player that the record has fits the table.
LEMMA EntersInv ==
  ASSUME SessionsInv, NEW s \in Streams, phase[s] = "named", TableFree,
         active[who[s]] = Nobody, NEW p \in Players, Enters(s, p),
         record' = [record EXCEPT ![who[s]] = p],
         More, made' \in Nat, UNCHANGED <<accounts, itemVars, taskVars>>
  PROVE  SessionsInv'
<1> USE DEF SessionsInv, Enters, Goes, taskVars
<1>1. who[s] \in Names
  BY DEF StreamsFit
<1>2. SessionsTypeOK'
  <2>1. last' \in [Names -> 0 .. MaxPosition]
    BY <1>1 DEF SessionsTypeOK, Players
  <2> QED BY <1>1, <2>1 DEF SessionsTypeOK, Phases, Handshakes, itemVars, More
<1>3. StreamsFit'
  BY DEF SessionsTypeOK, StreamsFit, InGame
<1>4. TableFits'
  BY <1>1 DEF SessionsTypeOK, TableFits, InGame, InTable, TableFree, NoFlush
<1>5. OneSession'
  BY <1>1 DEF SessionsTypeOK, OneSession, StreamsFit
<1>6. RecordsFit'
  <2>1. p.pos \in Nat
    BY DEF Players
  <2> QED BY <1>1, <2>1 DEF SessionsTypeOK, RecordsFit, TableFits, StreamsFit, InGame
<1>7. RecordIsLatest'
  BY <1>1 DEF SessionsTypeOK, RecordIsLatest
<1>8. ItemsReturn'
  <2>1. \A t \in Streams : player[t] # NoPlayer => who'[t] = who[t] /\ player'[t] # NoPlayer
    BY DEF SessionsTypeOK, StreamsFit, InGame
  <2> QED BY <2>1, ItemsStay
<1> QED BY <1>2, <1>3, <1>4, <1>5, <1>6, <1>7, <1>8

LEMMA ConnectInv == ASSUME SessionsInv, NEW s \in Streams, Connect(s) PROVE SessionsInv'
<1> USE NoFault
<1>1. /\ who[s] \in Names /\ made \in Nat /\ troubles \in Nat /\ accounts \subseteq Names
      /\ record \in [Names -> Players \cup {NoRecord}]
  BY DEF SessionsInv, SessionsTypeOK, StreamsFit, Connect
<1>2. phase[s] = "named" /\ TableFree /\ UNCHANGED <<accounts, taskVars>>
  BY DEF Connect
<1>3. CASE ConnectKnown(s)
  <2>1. record' = [record EXCEPT ![who[s]] = record[who[s]]]
    BY <1>1, <1>3 DEF ConnectKnown
  <2>2. record[who[s]] \in Players
    BY <1>1, <1>3 DEF ConnectKnown
  <2> QED BY <1>1, <1>2, <1>3, <2>1, <2>2, EntersInv DEF ConnectKnown
<1>4. CASE ConnectNew(s)
  <2>1. [pos |-> 0, inv |-> made + 1] \in Players /\ made + 1 \in Nat
    BY <1>1 DEF Players
  <2>2. CASE Fault /\ Fails(s) /\ UNCHANGED <<record, history>>
    BY <1>1, <1>2, <1>4, <2>1, <2>2, FailsInv, FaultCounts DEF ConnectNew, Early
  <2>3. CASE ~(Fault /\ Fails(s) /\ UNCHANGED <<record, history>>)
    BY <1>1, <1>2, <1>4, <2>1, <2>3, EntersInv DEF ConnectNew
  <2> QED BY <2>2, <2>3
<1>5. CASE ConnectRefused(s)
  BY <1>1, <1>2, <1>5, FailsInv, FaultCounts DEF ConnectRefused, Early
<1> QED BY <1>3, <1>4, <1>5 DEF Connect

\* A step of a stream with a Player that keeps it and goes no way back.
LEMMA InGameInv ==
  ASSUME SessionsInv, NEW s \in Streams, phase[s] \in InGame,
         NEW p \in InGame, Goes(s, p),
         p \in {"joined", "playing"} => phase[s] \in {"joined", "playing"},
         NEW l \in SUBSET {"in", "out"}, loops' = [loops EXCEPT ![s] = l], l # {} <=> p = "playing",
         gone' \subseteq Streams,
         UNCHANGED <<active, who, player, dbVars, taskVars, history, troubles>>
  PROVE  SessionsInv'
<1> USE DEF SessionsInv, Goes, InGame, dbVars, itemVars, taskVars, history
<1>1. SessionsTypeOK'
  BY DEF SessionsTypeOK, Phases, Handshakes
<1>2. StreamsFit'
  BY DEF SessionsTypeOK, StreamsFit
<1>3. TableFits'
  BY DEF SessionsTypeOK, TableFits, InTable
<1>4. OneSession'
  BY DEF SessionsTypeOK, OneSession
<1>5. RecordsFit' /\ RecordIsLatest' /\ ItemsReturn'
  BY DEF RecordsFit, RecordIsLatest, ItemsReturn
<1> QED BY <1>1, <1>2, <1>3, <1>4, <1>5

LEMMA ClientInitialReadyInv == ASSUME SessionsInv, NEW s \in Streams, ClientInitialReady(s) PROVE SessionsInv'
<1>1. gone \subseteq Streams
  BY DEF SessionsInv, SessionsTypeOK
<1> QED BY <1>1, InGameInv DEF ClientInitialReady, InGame

LEMMA NotReadyInv == ASSUME SessionsInv, NEW s \in Streams, NotReady(s) PROVE SessionsInv'
<1>1. gone \subseteq Streams /\ loops = [loops EXCEPT ![s] = {}]
  BY DEF SessionsInv, SessionsTypeOK, StreamsFit, NotReady
<1> QED BY <1>1, InGameInv DEF NotReady, InGame

LEMMA LeaveInv == ASSUME SessionsInv, NEW s \in Streams, Leave(s) PROVE SessionsInv'
<1>1. /\ gone' \subseteq Streams /\ loops = [loops EXCEPT ![s] = loops[s]]
      /\ loops[s] \in SUBSET {"in", "out"} /\ loops[s] # {}
      /\ phase' = [phase EXCEPT ![s] = "playing"]
  BY DEF SessionsInv, SessionsTypeOK, StreamsFit, Leave
<1> QED BY <1>1, InGameInv DEF Leave, InGame, Goes

LEMMA LoopEndsInv ==
  ASSUME SessionsInv, NEW s \in Streams, NEW x \in loops[s], LoopEnds(s, x) PROVE SessionsInv'
<1>1. /\ gone' \subseteq Streams /\ loops[s] \in SUBSET {"in", "out"} /\ phase[s] = "playing"
      /\ phase \in [Streams -> Phases]
  BY DEF SessionsInv, SessionsTypeOK, StreamsFit, LoopEnds
<1>2. CASE loops[s] = {x}
  BY <1>1, <1>2, InGameInv DEF LoopEnds, InGame, Goes
<1>3. CASE loops[s] # {x}
  <2>1. loops[s] \ {x} # {}
    BY <1>3
  <2> QED BY <1>1, <1>3, <2>1, InGameInv DEF LoopEnds, InGame, Goes
<1> QED BY <1>2, <1>3

LEMMA UpdatePositionInv == ASSUME SessionsInv, NEW s \in Streams, UpdatePosition(s) PROVE SessionsInv'
<1> USE DEF SessionsInv, UpdatePosition, dbVars, itemVars, taskVars
<1>1. phase[s] = "playing" /\ who[s] \in Names /\ active[who[s]] = s /\ player[s] \in Players
  BY DEF StreamsFit, OneSession, SessionsTypeOK, InGame
<1>2. player[s].pos \in Nat /\ player[s].pos + 1 \in 0 .. MaxPosition
  BY <1>1 DEF Players
<1>3. [player[s] EXCEPT !.pos = @ + 1] \in Players
  BY <1>1, <1>2 DEF Players
<1>4. SessionsTypeOK'
  BY <1>1, <1>2, <1>3 DEF SessionsTypeOK
<1>5. StreamsFit'
  BY <1>1, <1>3 DEF SessionsTypeOK, StreamsFit, InGame
<1>6. TableFits' /\ OneSession'
  BY DEF TableFits, OneSession, InTable
<1>7. RecordsFit'
  <2>1. \A n \in Names : active[n] = s <=> n = who[s]
    BY <1>1 DEF TableFits
  <2>2. player'[s].pos = player[s].pos + 1 /\ player'[s].inv = player[s].inv
    BY <1>1 DEF SessionsTypeOK, Players
  <2>3. record[who[s]] # NoRecord => record[who[s]].pos \in Nat
    BY <1>1 DEF SessionsTypeOK, Players
  <2> QED BY <1>1, <1>2, <2>1, <2>2, <2>3 DEF SessionsTypeOK, RecordsFit
<1>8. RecordIsLatest'
  BY <1>1 DEF SessionsTypeOK, RecordIsLatest
<1>9. ItemsReturn'
  BY <1>3 DEF SessionsTypeOK, ItemsReturn
<1> QED BY <1>4, <1>5, <1>6, <1>7, <1>8, <1>9

\* A hand of a player who is there, returned, is in the main inventory, lost or spilt.
LEMMA ReturnsFit ==
  ASSUME SessionsInv, NEW n \in Names, Returns(n), UNCHANGED full
  PROVE  /\ item' \in [Names -> {"main", "lost", "spilt"} \cup Streams] /\ More
         /\ item'[n] \notin Streams
         /\ item'[n] = "lost" => troubles' > 0
         /\ item'[n] = "spilt" => n \in full'
         /\ \A m \in Names \ {n} : item'[m] = item[m]
<1>1. item \in [Names -> {"main", "lost", "spilt"} \cup Streams]
  BY DEF SessionsInv, SessionsTypeOK
<1>2. CASE Fault /\ item' = [item EXCEPT ![n] = "lost"]
  BY <1>1, <1>2, FaultCounts
<1>3. CASE ~(Fault /\ item' = [item EXCEPT ![n] = "lost"])
  BY <1>1, <1>3, NoFault DEF Returns
<1> QED BY <1>2, <1>3

\* ItemsReturn survives that, if nobody else's Player goes.
LEMMA ReturnedFit ==
  ASSUME SessionsInv, NEW n \in Names, Returns(n), UNCHANGED full,
         \A m \in Names \ {n} : item[m] \in Streams
            => who'[item[m]] = who[item[m]] /\ player'[item[m]] = player[item[m]]
  PROVE  ItemsReturn'
<1>1. troubles > 0 => troubles' > 0
  BY ReturnsFit DEF SessionsInv, SessionsTypeOK, More
<1>2. ASSUME NEW m \in Names
      PROVE  /\ item'[m] \in Streams => who'[item'[m]] = m /\ player'[item'[m]] # NoPlayer
             /\ item'[m] = "lost" => troubles' > 0
             /\ item'[m] = "spilt" => m \in full'
  <2>1. CASE m = n
    BY <2>1, ReturnsFit
  <2>2. CASE m # n
    BY <1>1, <2>2, ReturnsFit DEF SessionsInv, ItemsReturn
  <2> QED BY <2>1, <2>2
<1> QED BY <1>2 DEF ItemsReturn

LEMMA MoveItemInv == ASSUME SessionsInv, NEW s \in Streams, MoveItem(s) PROVE SessionsInv'
<1>1. phase[s] = "playing" /\ who[s] \in Names /\ player[s] # NoPlayer
  BY DEF SessionsInv, MoveItem, StreamsFit, SessionsTypeOK, InGame
<1>2. UNCHANGED <<active, phase, who, player, loops, gone, accounts, record, made, full,
                  flush, writeback, server, last, missed>>
  BY DEF MoveItem, streamVars, taskVars, history
<1>3. /\ item' \in [Names -> {"main", "lost", "spilt"} \cup Streams] /\ troubles' \in Nat
      /\ ItemsReturn'
  <2>1. CASE item[who[s]] = s /\ Returns(who[s])
    <3>1. ItemsReturn'
      BY <1>1, <1>2, <2>1, ReturnedFit
    <3> QED BY <1>1, <1>2, <2>1, <3>1, ReturnsFit DEF More
  <2>2. CASE item' = [item EXCEPT ![who[s]] = s] /\ UNCHANGED troubles
    BY <1>1, <1>2, <2>2 DEF SessionsInv, SessionsTypeOK, ItemsReturn
  <2> QED BY <2>1, <2>2 DEF MoveItem
<1>4. SessionsTypeOK'
  BY <1>2, <1>3 DEF SessionsInv, SessionsTypeOK
<1>5. StreamsFit' /\ TableFits' /\ OneSession' /\ RecordsFit' /\ RecordIsLatest'
  BY <1>2 DEF SessionsInv, StreamsFit, TableFits, OneSession, RecordsFit, RecordIsLatest, InTable
<1> QED BY <1>3, <1>4, <1>5 DEF SessionsInv

LEMMA FillMainInv == ASSUME SessionsInv, NEW s \in Streams, FillMain(s) PROVE SessionsInv'
<1> USE DEF SessionsInv, FillMain, streamVars, taskVars, history
<1>1. who[s] \in Names
  BY DEF StreamsFit, SessionsTypeOK
<1>2. SessionsTypeOK'
  BY <1>1 DEF SessionsTypeOK
<1>3. StreamsFit' /\ TableFits' /\ OneSession' /\ RecordsFit' /\ RecordIsLatest'
  BY DEF StreamsFit, TableFits, OneSession, RecordsFit, RecordIsLatest, InTable
<1>4. ItemsReturn'
  BY DEF ItemsReturn
<1> QED BY <1>2, <1>3, <1>4
-----------------------------------------------------------------------------
(* The way out.                                                            *)

LEMMA DisconnectInv == ASSUME SessionsInv, NEW s \in Streams, Disconnect(s) PROVE SessionsInv'
<1> USE DEF SessionsInv, Disconnect, taskVars
<1>1. who[s] \in Names /\ player[s] \in Players
  BY DEF StreamsFit, SessionsTypeOK, InGame
<1>2. SessionsTypeOK'
  BY <1>1 DEF SessionsTypeOK, Fault, itemVars
<1>3. StreamsFit' /\ ItemsReturn'
  <2>1. More
    BY NoFault, FaultCounts
  <2> QED BY <2>1, ItemsStay DEF StreamsFit
<1>4. TableFits'
  BY <1>1 DEF SessionsTypeOK, TableFits, InTable, TableFree, NoFlush
<1>5. OneSession'
  BY <1>1 DEF SessionsTypeOK, OneSession, TableFits
<1>6. RecordsFit'
  BY <1>1 DEF SessionsTypeOK, RecordsFit
<1>7. RecordIsLatest'
  BY <1>1 DEF SessionsTypeOK, RecordIsLatest, RecordsFit
<1> QED BY <1>2, <1>3, <1>4, <1>5, <1>6, <1>7

LEMMA DropPlayerInv == ASSUME SessionsInv, NEW s \in Streams, DropPlayer(s) PROVE SessionsInv'
<1> USE DEF SessionsInv, DropPlayer, Goes, taskVars, history
<1>1. who[s] \in Names
  BY DEF StreamsFit
<1>2. \A n \in Names \ {who[s]} : item[n] # s
  BY DEF ItemsReturn
<1>3. item' \in [Names -> {"main", "lost", "spilt"} \cup Streams] /\ troubles' \in Nat /\ ItemsReturn'
  <2>1. CASE item[who[s]] = s
    <3>1. \A m \in Names \ {who[s]} : item[m] \in Streams
             => who'[item[m]] = who[item[m]] /\ player'[item[m]] = player[item[m]]
      BY <1>2 DEF SessionsTypeOK
    <3>2. ItemsReturn'
      BY <1>1, <2>1, <3>1, ReturnedFit
    <3> QED BY <1>1, <2>1, <3>2, ReturnsFit DEF More
  <2>2. CASE item[who[s]] # s
    <3>1. \A n \in Names : item[n] # s
      BY <1>1, <1>2, <2>2
    <3> QED BY <2>2, <3>1 DEF SessionsTypeOK, ItemsReturn
  <2> QED BY <2>1, <2>2
<1>4. SessionsTypeOK'
  BY <1>1, <1>3 DEF SessionsTypeOK, Phases
<1>5. StreamsFit'
  BY DEF SessionsTypeOK, StreamsFit, InGame
<1>6. \A n \in Names : active[n] # s
  BY <1>1 DEF TableFits
<1>7. TableFits'
  BY <1>6 DEF SessionsTypeOK, TableFits, InTable
<1>8. OneSession'
  BY DEF SessionsTypeOK, OneSession
<1>9. RecordsFit' /\ RecordIsLatest'
  BY <1>6 DEF SessionsTypeOK, RecordsFit, RecordIsLatest
<1> QED BY <1>3, <1>4, <1>5, <1>7, <1>8, <1>9
-----------------------------------------------------------------------------
(* Flush and shutdown.                                                     *)

\* A step of the tasks of the server that writes nothing.
LEMMA TasksInv ==
  ASSUME SessionsInv, UNCHANGED <<streamVars, dbVars, history>>, More,
         flush' \in [by : {"nobody", "loop", "final"}, todo : SUBSET Names],
         flush'.todo \subseteq InTable,
         writeback' \in {"runs", "ended", "failed"},
         server' \in {"up", "stopping", "stopped", "flushed", "panicked"}
  PROVE  SessionsInv'
<1> USE DEF SessionsInv, streamVars, dbVars, history
<1>1. SessionsTypeOK'
  BY DEF SessionsTypeOK, itemVars, More
<1>2. StreamsFit' /\ TableFits' /\ OneSession' /\ RecordsFit' /\ RecordIsLatest' /\ ItemsReturn'
  BY ItemsStay DEF StreamsFit, TableFits, OneSession, RecordsFit, RecordIsLatest, InTable
<1> QED BY <1>1, <1>2

LEMMA FlushOneInv == ASSUME SessionsInv, NEW n \in Names, FlushOne(n) PROVE SessionsInv'
<1>1. /\ flush \in [by : {"nobody", "loop", "final"}, todo : SUBSET Names] /\ troubles \in Nat
      /\ writeback \in {"runs", "ended", "failed"}
      /\ server \in {"up", "stopping", "stopped", "flushed", "panicked"}
  BY DEF SessionsInv, SessionsTypeOK
<1>2. n \in Names /\ active[n] \in Streams /\ player[active[n]] \in Players
  BY DEF SessionsInv, SessionsTypeOK, StreamsFit, TableFits, InTable, FlushOne
<1>3. CASE Fault /\ flush' = NoFlush /\ UNCHANGED record
  BY <1>1, <1>3, TasksInv, FaultCounts DEF FlushOne, NoFlush, dbVars
<1>4. CASE /\ record' = [record EXCEPT ![n] = player[active[n]]]
           /\ flush' = [flush EXCEPT !.todo = @ \ {n}]
           /\ UNCHANGED <<writeback, server, troubles>>
  <2> USE <1>4 DEF SessionsInv, FlushOne, streamVars, history
  <2>1. SessionsTypeOK'
    BY <1>2 DEF SessionsTypeOK, itemVars
  <2>2. StreamsFit' /\ OneSession' /\ ItemsReturn'
    BY NoFault, ItemsStay DEF StreamsFit, OneSession
  <2>3. TableFits'
    BY <1>1 DEF TableFits, InTable
  <2>4. RecordsFit'
    BY <1>2 DEF SessionsTypeOK, RecordsFit, Players
  <2>5. RecordIsLatest'
    BY <1>2 DEF SessionsTypeOK, RecordIsLatest
  <2> QED BY <2>1, <2>2, <2>3, <2>4, <2>5
<1> QED BY <1>3, <1>4 DEF FlushOne

LEMMA WritesInv == ASSUME SessionsInv, Writes PROVE SessionsInv'
<1> USE NoFault
<1>1. /\ flush \in [by : {"nobody", "loop", "final"}, todo : SUBSET Names] /\ troubles \in Nat
      /\ writeback \in {"runs", "ended", "failed"} /\ InTable \subseteq Names
      /\ server \in {"up", "stopping", "stopped", "flushed", "panicked"}
  BY DEF SessionsInv, SessionsTypeOK, InTable
<1>2. CASE FlushStart
  BY <1>1, <1>2, TasksInv DEF FlushStart
<1>3. CASE FlushEnd
  BY <1>1, <1>3, TasksInv DEF FlushEnd, NoFlush
<1> QED BY <1>2, <1>3, FlushOneInv DEF Writes

LEMMA CrashInv == ASSUME SessionsInv, Crash PROVE SessionsInv'
<1> USE DEF SessionsInv, Crash
<1>1. SessionsTypeOK'
  BY DEF SessionsTypeOK, Fault, Phases, NoFlush, InTable
<1>2. StreamsFit' /\ TableFits' /\ OneSession' /\ RecordsFit'
  BY DEF StreamsFit, TableFits, OneSession, RecordsFit, InGame, NoFlush
<1>3. RecordIsLatest'
  BY DEF SessionsTypeOK, RecordIsLatest, InTable
<1>4. ItemsReturn'
  BY FaultCounts DEF SessionsTypeOK, ItemsReturn
<1> QED BY <1>1, <1>2, <1>3, <1>4

LEMMA StopsInv == ASSUME SessionsInv, Stops PROVE SessionsInv'
<1> USE NoFault
<1>1. /\ flush \in [by : {"nobody", "loop", "final"}, todo : SUBSET Names] /\ troubles \in Nat
      /\ writeback \in {"runs", "ended", "failed"} /\ InTable \subseteq Names
      /\ flush.todo \subseteq InTable
      /\ server \in {"up", "stopping", "stopped", "flushed", "panicked"}
  BY DEF SessionsInv, SessionsTypeOK, TableFits, InTable
<1>2. CASE StartShutdown \/ ServeReturns
  BY <1>1, <1>2, TasksInv DEF StartShutdown, ServeReturns
<1>3. CASE AwaitShutdown
  <2>1. CASE Fault
    BY <1>1, <1>3, <2>1, TasksInv, FaultCounts DEF AwaitShutdown
  <2>2. CASE ~Fault
    BY <1>1, <1>3, <2>2, TasksInv DEF AwaitShutdown
  <2> QED BY <2>1, <2>2
<1> QED BY <1>2, <1>3, CrashInv DEF Stops
-----------------------------------------------------------------------------
\* SessionsInv is inductive.
LEMMA SessionsNextInv == SessionsInv /\ [SessionsNext]_sessionsVars => SessionsInv'
<1> SUFFICES ASSUME SessionsInv, [SessionsNext]_sessionsVars PROVE SessionsInv'
  OBVIOUS
<1>1. ASSUME NEW s \in Streams, Plays(s) PROVE SessionsInv'
  BY <1>1, ConnectInv, ClientInitialReadyInv, NotReadyInv, UpdatePositionInv, MoveItemInv,
     FillMainInv DEF Plays
<1>2. ASSUME NEW s \in Streams, Ends(s) PROVE SessionsInv'
  BY <1>2, LeaveInv, LoopEndsInv, DisconnectInv, DropPlayerInv DEF Ends, InboundLoopEnds, OutboundLoopEnds
<1>3. CASE UNCHANGED sessionsVars
  BY <1>3 DEF SessionsInv, SessionsTypeOK, StreamsFit, TableFits, OneSession, RecordsFit,
              RecordIsLatest, ItemsReturn, InTable, sessionsVars, streamVars, dbVars, itemVars,
              taskVars, history
<1> QED BY <1>1, <1>2, <1>3, LogsInInv, WritesInv, StopsInv DEF SessionsNext

\* SessionsInv is an invariant, and with it the types.
THEOREM SessionsInvariant == SessionsSpec => []SessionsInv
BY SessionsInitInv, SessionsNextInv, PTL DEF SessionsSpec

THEOREM SessionsTypes == SessionsSpec => []SessionsTypeOK
<1>1. SessionsInv => SessionsTypeOK
  BY DEF SessionsInv
<1> QED BY <1>1, SessionsInvariant, PTL

\* connect and drop_disconnect: whoever has been let in and has not begun to leave is the
\* one in the table of active players.
THEOREM PlayerIsInGameOnce == SessionsSpec => []OneSession
<1>1. SessionsInv => OneSession
  BY DEF SessionsInv
<1> QED BY <1>1, SessionsInvariant, PTL

\* drop_disconnect: the record of who is not connected holds the last position accepted.
THEOREM RecordKeepsLastPosition == SessionsSpec => []RecordIsLatest
<1>1. SessionsInv => RecordIsLatest
  BY DEF SessionsInv
<1> QED BY <1>1, SessionsInvariant, PTL

\* clear_if_transient, as a popup closes or a Player is dropped: what a session holds belongs
\* to a player who is there, and comes back to the main inventory, but for a call that failed,
\* a kill, or room that was taken by then.
THEOREM ItemsComeBack == SessionsSpec => []ItemsReturn
<1>1. SessionsInv => ItemsReturn
  BY DEF SessionsInv
<1> QED BY <1>1, SessionsInvariant, PTL

\* From start_shutdown on something can go on until the server has ended (server.rs, player.rs):
\* no loop, disconnect or flush waits for something that never comes.
THEOREM ShutdownsGoOn == SessionsSpec => []ShutdownGoesOn
<1>1. SessionsInv => ShutdownGoesOn
  <2> SUFFICES ASSUME SessionsInv, server # "up", ~ServerMayGo, \A s \in Streams : ~StreamMayGo(s)
               PROVE  /\ server \in {"flushed", "panicked"}
                      /\ \A s \in Streams : phase[s] \in Handshakes \cup {"idle"}
    BY DEF ShutdownGoesOn
  <2>1. TableFree
    BY DEF ServerMayGo, TableFree
  <2>2. ASSUME NEW s \in Streams PROVE phase[s] \in Handshakes \cup {"idle"}
    <3>1. phase[s] \in Phases /\ loops[s] \in SUBSET {"in", "out"}
      BY DEF SessionsInv, SessionsTypeOK
    <3>2. loops[s] = {}
      <4>1. "out" \notin loops[s]
        BY DEF StreamMayGo
      <4>2. "in" \notin loops[s]
        BY <4>1 DEF StreamMayGo, Cancelled
      <4> QED BY <3>1, <4>1, <4>2
    <3>3. phase[s] # "playing" /\ phase[s] # "leaving"
      BY <2>1, <3>2 DEF SessionsInv, StreamsFit, StreamMayGo
    <3> QED BY <3>1, <3>3 DEF Phases
  <2>3. server \in {"flushed", "panicked"}
    BY <2>2 DEF SessionsInv, SessionsTypeOK, ServerMayGo
  <2> QED BY <2>2, <2>3
<1> QED BY <1>1, SessionsInvariant, PTL

\* connect, drop_disconnect and flush: no record is replaced by an older one, or by one
\* with another main inventory.
THEOREM RecordsGoForward == SessionsSpec => RecordGoesForward
<1>1. SessionsInv /\ [SessionsNext]_sessionsVars => [RecordStep]_sessionsVars
  <2> SUFFICES ASSUME SessionsInv, SessionsNext, NEW n \in Names, record[n] # NoRecord
               PROVE  /\ record'[n] # NoRecord
                      /\ record'[n].inv = record[n].inv /\ record'[n].pos >= record[n].pos
    BY DEF RecordStep
  <2>1. record \in [Names -> Players \cup {NoRecord}] /\ record[n].pos \in Nat
    BY DEF SessionsInv, SessionsTypeOK, Players
  <2>2. CASE UNCHANGED record
    BY <2>1, <2>2
  <2>3. ASSUME NEW s \in Streams, active[who[s]] = s, who[s] \in Names,
               record' = [record EXCEPT ![who[s]] = player[s]]
        PROVE  /\ record'[n] # NoRecord
               /\ record'[n].inv = record[n].inv /\ record'[n].pos >= record[n].pos
    <3>1. s # Nobody /\ player[s] \in Players
      BY <2>3 DEF SessionsInv, SessionsTypeOK, TableFits, StreamsFit
    <3>2. CASE n = who[s]
      BY <2>1, <2>3, <3>1, <3>2 DEF SessionsInv, RecordsFit, SessionsTypeOK, Players
    <3>3. CASE n # who[s]
      BY <2>1, <2>3, <3>3
    <3> QED BY <3>2, <3>3
  <2>4. ASSUME NEW s \in Streams, Connect(s)
        PROVE  record'[n] = record[n]
    <3>1. CASE UNCHANGED record
      BY <3>1
    <3>2. CASE ~UNCHANGED record
      <4>1. ConnectNew(s) /\ record' = [record EXCEPT ![who[s]] = [pos |-> 0, inv |-> made + 1]]
        BY <2>4, <3>2 DEF Connect, ConnectKnown, ConnectNew, ConnectRefused
      <4> QED BY <2>1, <4>1 DEF ConnectNew
    <3> QED BY <3>1, <3>2
  <2>5. ASSUME NEW s \in Streams, Disconnect(s)
        PROVE  UNCHANGED record \/ (active[who[s]] = s /\ who[s] \in Names /\ record' = [record EXCEPT ![who[s]] = player[s]])
    BY <2>5 DEF Disconnect, SessionsInv, StreamsFit
  <2>6. ASSUME NEW s \in Streams, LogsIn(s) \/ Plays(s) \/ Ends(s), ~Connect(s), ~Disconnect(s)
        PROVE  UNCHANGED record
    BY <2>6 DEF LogsIn, StartAuthentication, Refuse, LookUpName, StoreAccount, FinishLogin, Plays,
                ClientInitialReady, NotReady, UpdatePosition, MoveItem, FillMain, Ends, Leave, InboundLoopEnds,
                OutboundLoopEnds, LoopEnds, DropPlayer, dbVars
  <2>7. ASSUME NEW m \in Names, FlushOne(m)
        PROVE  \/ UNCHANGED record
               \/ active[m] \in Streams /\ who[active[m]] = m /\ record' = [record EXCEPT ![m] = player[active[m]]]
    BY <2>7 DEF FlushOne, SessionsInv, SessionsTypeOK, TableFits, InTable
  <2>8. ASSUME FlushStart \/ FlushEnd \/ Stops PROVE UNCHANGED record
    BY <2>8 DEF FlushStart, FlushEnd, Stops, StartShutdown, ServeReturns, AwaitShutdown, Crash, dbVars
  <2>9. CASE \E s \in Streams : LogsIn(s) \/ Plays(s) \/ Ends(s)
    BY <2>1, <2>2, <2>3, <2>4, <2>5, <2>6, <2>9
  <2>10. CASE Writes
    BY <2>1, <2>2, <2>3, <2>7, <2>8, <2>10 DEF Writes
  <2> QED BY <2>2, <2>8, <2>9, <2>10 DEF SessionsNext
<1> QED BY <1>1, SessionsInvariant, PTL DEF SessionsSpec, RecordGoesForward
=============================================================================
