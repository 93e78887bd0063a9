-------------------------------- MODULE Tools --------------------------------
(***************************************************************************)
(* What the player does with what he holds: the buttons                    *)
(* (game_state/input.rs), the block he points at and the progress of       *)
(* digging it (tool_controller.rs), frame by frame.                        *)
(*                                                                         *)
(* A kind of block stands for its groups, a rule of an item for the kinds  *)
(* it matches; variants are left out, as equals_ignore_variant does.  Time *)
(* is counted in frames.                                                   *)
(***************************************************************************)
EXTENDS Naturals, SequencesExt

CONSTANTS Cells, Kinds, NoBlock,   \* where blocks are, and what they are
          Rays,       \* the blocks, of loaded chunks, that a player may have before him
          Holdables,  \* what may be held, the empty hand included
          Hand,       \* the empty hand, default_item
          Rules,      \* of each item, in order: records [kinds, dig]
          Work        \* what it takes to dig a block by time

Ways == {"slow", "fast", "instant", "oneshot", "undiggable", "none"}

\* A ray is a sequence of blocks, and every item has its rules; digging takes time.
ASSUME ToolsAssumption ==
  /\ NoBlock \notin Cells /\ Rays \subseteq Seq(Cells) /\ Work \in Nat \ {0}
  /\ Hand \in Holdables /\ Rules \in [Holdables -> Seq([kinds : SUBSET Kinds, dig : Ways])]

VARIABLES frame,                     \* whether next_frame runs, or events are handled
          down, presses, releases,   \* InputState: active_keybinds, new_presses, new_releases
          ray, kind,                 \* what is before the player, and what the client knows of it
          item,                      \* ToolController::current_item
          dig,                       \* ToolController::dig_progress
          sent,                      \* the action of this step, ToolState::action
          owed,                      \* (history) the buttons pressed and not answered since
          spell                      \* (history) the target, what was done about it since it is

input == <<down, presses, releases>>
world == <<ray, kind>>
toolVars == <<frame, input, world, item, dig, sent, owed, spell>>

Buttons == {"dig", "place", "interact"}
ByTime == {"slow", "fast"}
Rate(how) == IF how = "fast" THEN 2 ELSE 1
Locked == Work   \* progress after a dig, minus infinity in the code
NoDig == [at |-> NoBlock]
NoAction == [do |-> "none"]
NoSpell == [at |-> NoBlock, kind |-> NoBlock, held |-> 0, dug |-> 0]

\* The type invariant: progress is that of a block that is dug by somebody.
ToolsTypeOK ==
  /\ frame \in BOOLEAN
  /\ down \subseteq Buttons /\ presses \subseteq Buttons /\ releases \subseteq {"dig"}
  /\ owed \subseteq Buttons
  /\ ray \in Rays /\ kind \in [Cells -> Kinds] /\ item \in Holdables
  /\ dig \in {NoDig} \cup [at : Cells, kind : Kinds, how : Ways, progress : 0 .. Locked]
  /\ sent \in {NoAction} \cup [do : {"dig", "tap", "place", "interact"}, at : Cells]

ToolsInit ==
  /\ frame = FALSE
  /\ down = {} /\ presses = {} /\ releases = {} /\ owed = {}
  /\ ray \in Rays /\ kind \in [Cells -> Kinds] /\ item = Hand
  /\ dig = NoDig /\ sent = NoAction /\ spell = NoSpell

Sends(do, where) == sent' = [do |-> do, at |-> where]
SendsNothing == sent' = NoAction
-----------------------------------------------------------------------------
(* Items and blocks.                                                       *)

\* compute_dig_behavior: the first rule that matches.
DigBehavior(i, k) ==
  LET n == SelectInSeq(Rules[i], LAMBDA r : k \in r.kinds)
  IN IF n = 0 THEN "none" ELSE Rules[i][n].dig

\* get_dig_interacting_groups: any rule that says how to dig.
Interacts(i, k) == \E n \in DOMAIN Rules[i] : Rules[i][n].dig # "none" /\ k \in Rules[i][n].kinds

\* compute_pointee: the first block on the ray that the item acts on, and the one before it.
Pointee == SelectInSeq(ray, LAMBDA b : Interacts(item, kind[b]))
Target == ray[Pointee]
Neighbor == IF Pointee = 1 THEN NoBlock ELSE ray[Pointee - 1]
SameTarget == dig # NoDig /\ dig.at = Target /\ dig.kind = kind[Target]

\* The player turns or walks; the server changes a block.
Look ==
  /\ ~frame /\ ray' \in Rays \ {ray} /\ SendsNothing
  /\ UNCHANGED <<frame, input, kind, item, dig, owed, spell>>
BlockChanges ==
  /\ \E b \in Cells, k \in Kinds : kind' = [kind EXCEPT ![b] = k]
  /\ SendsNothing
  /\ UNCHANGED <<frame, input, ray, item, dig, owed, spell>>

\* update_item: a block half dug goes on with the new item.
UpdateItem ==
  /\ item' \in Holdables
  /\ dig' = IF dig = NoDig THEN NoDig ELSE [dig EXCEPT !.how = DigBehavior(item', dig.kind)]
  /\ SendsNothing
  /\ UNCHANGED <<frame, input, world, owed, spell>>
-----------------------------------------------------------------------------
(* Buttons.                                                                *)

\* handle_window_event: a key that is held is pressed again and again.
Press(b) ==
  /\ ~frame
  /\ down' = down \cup {b} /\ presses' = presses \cup {b} /\ owed' = owed \cup {b}
  /\ SendsNothing
  /\ UNCHANGED <<frame, releases, world, item, dig, spell>>

\* A key that a window has made forget still counts when it is let go.
Release(b) ==
  /\ ~frame
  /\ down' = down \ {b} /\ releases' = releases \cup ({b} \cap {"dig"})
  /\ SendsNothing
  /\ UNCHANGED <<frame, presses, world, item, dig, owed, spell>>

\* Mutant of SetModalActive: only what is held is forgotten.
KeepPresses(modal) ==
  IF modal THEN down' = {} /\ owed' = {} /\ UNCHANGED <<presses, releases>>
  ELSE UNCHANGED <<input, owed>>

\* Behind a window of egui nothing is pressed, nor was.
SetModalActive(modal) ==
  IF modal THEN down' = {} /\ presses' = {} /\ releases' = {} /\ owed' = {}
  ELSE UNCHANGED <<input, owed>>

NextFrame ==
  /\ ~frame /\ frame' = TRUE
  /\ \E modal \in BOOLEAN : SetModalActive(modal)
  /\ SendsNothing
  /\ UNCHANGED <<world, item, dig, spell>>
-----------------------------------------------------------------------------
(* ToolController::update.                                                 *)

Takes(b) == presses' = presses \ {b} /\ owed' = owed \ {b} /\ UNCHANGED <<down, releases>>

NoTarget ==
  /\ Pointee = 0
  /\ dig' = NoDig /\ SendsNothing /\ spell' = NoSpell
  /\ UNCHANGED <<input, owed>>

Spell(held, dug) ==
  LET was == IF spell.at = Target /\ spell.kind = kind[Target] THEN spell ELSE NoSpell
      frames == IF was.held = Work THEN Work ELSE was.held + held
  IN [at |-> Target, kind |-> kind[Target], held |-> frames, dug |-> was.dug + dug]

\* An instant dig needs no button.
NewTarget ==
  /\ Pointee # 0 /\ ~SameTarget
  /\ LET how == DigBehavior(item, kind[Target])
     IN /\ dig' = IF how = "none" THEN NoDig
                  ELSE [at |-> Target, kind |-> kind[Target], how |-> how, progress |-> 0]
        /\ IF how = "instant" THEN Sends("dig", Target) ELSE SendsNothing
  /\ spell' = Spell(0, 0)
  /\ UNCHANGED <<input, owed>>

OnTarget == Pointee # 0 /\ SameTarget

\* Mutant of DigOn: progress begins anew after a dig.
DigOnAndOn ==
  /\ OnTarget /\ "dig" \in down /\ dig.how \in ByTime /\ dig.progress # Locked
  /\ LET done == dig.progress + Rate(dig.how) >= Work
     IN /\ dig' = [dig EXCEPT !.progress = IF done THEN 0 ELSE @ + Rate(dig.how)]
        /\ IF done THEN Sends("dig", Target) ELSE SendsNothing
        /\ spell' = Spell(1, IF done THEN 1 ELSE 0)
  /\ UNCHANGED <<input, owed>>

\* By time; what was dug is locked until the target changes.
DigOn ==
  /\ OnTarget /\ "dig" \in down /\ dig.how \in ByTime /\ dig.progress # Locked
  /\ LET done == dig.progress + Rate(dig.how) >= Work
     IN /\ dig' = [dig EXCEPT !.progress = IF done THEN Locked ELSE @ + Rate(dig.how)]
        /\ IF done THEN Sends("dig", Target) ELSE SendsNothing
        /\ spell' = Spell(1, IF done THEN 1 ELSE 0)
  /\ UNCHANGED <<input, owed>>

DigOneshot ==
  /\ OnTarget /\ "dig" \in down /\ dig.how = "oneshot" /\ "dig" \in presses
  /\ Sends("dig", Target) /\ Takes("dig")
  /\ spell' = Spell(1, 0)
  /\ UNCHANGED dig

DigRests ==
  /\ OnTarget /\ "dig" \in down
  /\ \/ dig.how \in ByTime /\ dig.progress = Locked
     \/ dig.how = "oneshot" /\ "dig" \notin presses
     \/ dig.how \in {"instant", "undiggable", "none"}
  /\ SendsNothing /\ spell' = Spell(1, 0)
  /\ UNCHANGED <<dig, input, owed>>

\* A press to place is spent where there is no room, and the key to interact looked at.
Answer ==
  /\ OnTarget /\ "dig" \notin down
  /\ IF "dig" \in releases
     THEN Sends("tap", Target) /\ releases' = {} /\ UNCHANGED <<down, presses, owed>>
     ELSE IF "place" \in presses /\ Neighbor # NoBlock
     THEN Sends("place", Neighbor) /\ Takes("place")
     ELSE IF "interact" \in presses
     THEN /\ Sends("interact", Target)
          /\ presses' = presses \cap {"dig"} /\ owed' = owed \ {"place", "interact"}
          /\ UNCHANGED <<down, releases>>
     ELSE SendsNothing /\ Takes("place")
  /\ spell' = Spell(0, 0)
  /\ UNCHANGED dig

Update ==
  /\ frame /\ frame' = FALSE
  /\ NoTarget \/ NewTarget \/ DigOn \/ DigOneshot \/ DigRests \/ Answer
  /\ UNCHANGED <<world, item>>
-----------------------------------------------------------------------------
ToolsNext ==
  \/ Look \/ BlockChanges \/ UpdateItem
  \/ \E b \in Buttons : Press(b) \/ Release(b)
  \/ NextFrame \/ Update

ToolsSpec == ToolsInit /\ [][ToolsNext]_toolVars
-----------------------------------------------------------------------------
\* What is kept of a target is that of a block that is, or was, dug.
Spells == {NoSpell} \cup [at : Cells, kind : Kinds, held : 0 .. Work, dug : 0 .. 1]
OfSpell(d) == d # NoDig /\ d.at = spell.at /\ d.kind = spell.kind

\* The inductive invariant: a press that is not answered is owed one; progress is that of the
\* target since it is one and took its frames, and what was dug is locked.
ToolsInv ==
  /\ ToolsTypeOK /\ spell \in Spells
  /\ presses \subseteq owed
  /\ dig # NoDig /\ dig.progress # 0 => OfSpell(dig) /\ dig.progress <= 2 * spell.held
  /\ spell.dug # 0 => OfSpell(dig) /\ dig.progress = Locked

\* Every press is answered once at most, and none that was made before a window of egui
\* opened is answered behind or after it; a block is dug by time once until it changes or
\* the player looks away, whatever he digs with meanwhile, and after enough frames of it.
ActionStep ==
  /\ sent'.do \in {"place", "interact"} => sent'.do \in owed
  /\ sent'.do = "dig" /\ dig'.how = "oneshot" => "dig" \in owed
  /\ spell'.dug <= 1
  /\ spell'.dug > spell.dug => 2 * spell'.held >= Work
ActionsFit == [][ActionStep]_toolVars
==============================================================================
