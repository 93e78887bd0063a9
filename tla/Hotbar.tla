------------------------------- MODULE Hotbar -------------------------------
(***************************************************************************)
(* The slot of the hotbar that is in use, and who knows of it: the head-up *)
(* display (hud.rs), the tool controller (tool_controller.rs) and the      *)
(* views of the client (items.rs).  The window thread scrolls and draws    *)
(* under the lock of the display; the inbound loop brings the hotbar's     *)
(* contents (net_client/client_context.rs) and takes one lock after        *)
(* another.  No view but the hotbar's is here.                             *)
(***************************************************************************)
EXTENDS Integers

CONSTANTS Slots,          \* how many slots the hotbar has
          Items, NoItem   \* what may be in a slot

ASSUME HotbarAssumption == Slots \in Nat \ {0}

VARIABLES view,       \* the hotbar's in InventoryViewManager::inventory_views
          known,      \* whether GameHud::hotbar_view_id is set
          slot,       \* GameHud::hotbar_slot
          drawn,      \* what GameHud::hotbar_draw_call shows
          tool,       \* ToolController::current_slot and current_item
          wheel,      \* InputState::pending_scroll_slots
          rendering,  \* whether the window thread is in update_and_render
          picked,     \* what it is about to tell the tool controller
          update,     \* what the inbound loop has in hand, and the slot it read
          panicked,   \* whether a frame ended in an error, which the renderer unwraps
          toolTold,       \* (history) whether the tool controller was told of the hotbar yet
          crossed     \* (history) whether a frame read the view during the last update

hud == <<known, slot, drawn>>
frame == <<rendering, picked>>
hotbarVars == <<view, hud, tool, wheel, frame, update, panicked, toolTold, crossed>>

Places == 0 .. Slots - 1
Contents == [Places -> Items \cup {NoItem}]
Tools == [slot : Places, item : Items \cup {NoItem}]
None == <<>>
Held(s, contents) == [slot |-> s, item |-> contents[s]]
Picture == [slot |-> slot, contents |-> view]

\* The type invariant: who is in the middle has the slot he read.
HotbarTypeOK ==
  /\ view \in Contents \cup {None} /\ known \in BOOLEAN /\ slot \in Places
  /\ drawn \in {None} \cup [slot : Places, contents : Contents]
  /\ tool \in Tools /\ wheel \in -1 .. 1
  /\ rendering \in BOOLEAN /\ picked \in Tools \cup {None}
  /\ update \in {None} \cup [told : BOOLEAN, slot : Places, contents : Contents]
  /\ {panicked, toolTold, crossed} \subseteq BOOLEAN

HotbarInit ==
  /\ view = None /\ known = FALSE /\ slot = 0 /\ drawn = None
  /\ tool = [slot |-> 0, item |-> NoItem] /\ wheel = 0
  /\ rendering = FALSE /\ picked = None /\ update = None
  /\ panicked = FALSE /\ toolTold = FALSE /\ crossed = FALSE
-----------------------------------------------------------------------------
(* The window thread.                                                      *)

\* handle_device_event; more than a slot at a time is left out.
Wheel ==
  /\ ~rendering /\ wheel' \in {-1, 1}
  /\ UNCHANGED <<view, hud, tool, frame, update, panicked, toolTold, crossed>>

\* take_scroll_slots is 0 behind a window of egui; set_slot reads the item.
Scroll ==
  /\ ~rendering /\ ~panicked /\ rendering' = TRUE /\ wheel' = 0
  /\ \E modal \in BOOLEAN :
       IF wheel = 0 \/ modal \/ ~known \/ view = None
       THEN UNCHANGED <<slot, picked, crossed>>
       ELSE /\ slot' = (slot - wheel) % Slots
            /\ picked' = Held(slot', view)
            /\ crossed' = (crossed \/ update # None)
  /\ UNCHANGED <<view, known, drawn, tool, update, panicked, toolTold>>

\* Mutant of TellTool: the picture stays.
TellToolOnly ==
  /\ picked # None
  /\ tool' = picked /\ toolTold' = TRUE /\ picked' = None
  /\ UNCHANGED <<view, hud, wheel, rendering, update, panicked, crossed>>

\* set_slot: update_item, and the picture is to be made anew.
TellTool ==
  /\ picked # None
  /\ tool' = picked /\ toolTold' = TRUE /\ picked' = None
  /\ drawn' = None
  /\ UNCHANGED <<view, known, slot, wheel, rendering, update, panicked, crossed>>

\* recreate_hotbar, if there is no picture or the window has another size.
Draw ==
  /\ rendering /\ picked = None /\ rendering' = FALSE
  /\ \E resized \in BOOLEAN :
       IF drawn # None /\ ~resized THEN UNCHANGED <<drawn, panicked, crossed>>
       ELSE /\ drawn' = IF known /\ view # None THEN Picture ELSE None
            /\ panicked' = (known /\ view = None)
            /\ crossed' = (crossed \/ update # None)
  /\ UNCHANGED <<view, known, slot, tool, wheel, picked, update, toolTold>>
-----------------------------------------------------------------------------
(* The inbound loop.                                                       *)

\* handle_inventory_update, before the display knows which view is the hotbar's.
FirstView ==
  /\ ~known /\ ~rendering
  /\ view' \in Contents
  /\ UNCHANGED <<hud, tool, wheel, frame, update, panicked, toolTold, crossed>>

\* handle_client_state_update; the server sends the views before it.
HandleClientState ==
  /\ view # None /\ update = None /\ ~rendering
  /\ known' = TRUE /\ drawn' = None
  /\ UNCHANGED <<view, slot, tool, wheel, frame, update, panicked, toolTold, crossed>>

\* handle_inventory_update: the display's slot is read, its lock given up.
UpdateArrives ==
  /\ known /\ ~rendering /\ update = None
  /\ \E new \in Contents : update' = [told |-> FALSE, slot |-> slot, contents |-> new]
  /\ drawn' = None /\ crossed' = FALSE
  /\ UNCHANGED <<view, known, slot, tool, wheel, frame, panicked, toolTold>>

UpdateTells ==
  /\ update # None /\ ~update.told
  /\ tool' = Held(update.slot, update.contents) /\ toolTold' = TRUE
  /\ update' = [update EXCEPT !.told = TRUE]
  /\ UNCHANGED <<view, hud, wheel, frame, panicked, crossed>>

UpdateInserts ==
  /\ update # None /\ update.told
  /\ view' = update.contents /\ update' = None
  /\ UNCHANGED <<hud, tool, wheel, frame, panicked, toolTold, crossed>>
-----------------------------------------------------------------------------
HotbarNext ==
  \/ Wheel \/ Scroll \/ TellTool \/ Draw
  \/ FirstView \/ HandleClientState
  \/ UpdateArrives \/ UpdateTells \/ UpdateInserts

HotbarSpec == HotbarInit /\ [][HotbarNext]_hotbarVars
-----------------------------------------------------------------------------
\* No frame ends in an error; and when both threads are through, display, tool and view
\* agree on slot and item, once the tool was told at all, unless a frame of the window read
\* the view while the last update was between the display and the view.
HotbarFits ==
  /\ ~panicked
  /\ ~rendering /\ update = None /\ ~crossed =>
       /\ drawn # None => drawn = Picture
       /\ toolTold => tool = Held(slot, view)
-----------------------------------------------------------------------------
(* What it rests on: the inductive invariant.                              *)

\* Who acts for the hotbar knows its view, and the view is there.
ViewIsThere ==
  /\ known => view # None
  /\ toolTold \/ drawn # None \/ picked # None \/ update # None => known
  /\ picked # None => rendering

\* As long as no frame crossed the update: it has the display's slot, and there is no picture
\* that it will make stale; without an update, who is behind is about to be told.
NobodyIsBehind ==
  ~crossed =>
    \/ /\ update # None /\ drawn = None /\ picked = None /\ update.slot = slot
       /\ update.told => tool = Held(slot, update.contents)
    \/ update = None /\ picked # None /\ picked = Held(slot, view)
    \/ /\ update = None /\ picked = None
       /\ drawn # None => drawn = Picture
       /\ toolTold => tool = Held(slot, view)

HotbarInv == HotbarTypeOK /\ ~panicked /\ ViewIsThere /\ NobodyIsBehind
=============================================================================
