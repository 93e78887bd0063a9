------------------------------ MODULE BlockTypes ------------------------------
(***************************************************************************)
(* The numbers of block types across runs of a server whose plugins come   *)
(* and go: loading the assignments with placeholders, registering,         *)
(* saving them, and one block of the map that is stored under such a       *)
(* number, with its extended data (blocks.rs, block_id.rs, MapChunk in     *)
(* game_map.rs, ServerBuilder in server.rs).                               *)
(***************************************************************************)
EXTENDS Integers, Sequences, FiniteSetsExt

CONSTANTS Plugins,    \* short names of block types
          NoName,     \* the name "by_id:0x..." of a placeholder
          NoAssignments, NoId, NoChunk, Failed,
          Variants,   \* variants of a block type (BLOCK_VARIANT_MASK + 1)
          MaxTypes,   \* block types that fit in 32 bits
          MaxRuns     \* bound: runs of the server

\* The marks are none of the values they stand beside.
ASSUME TypesAssumption ==
  /\ Variants \in Nat \ {0} /\ MaxTypes \in Nat \ {0} /\ MaxRuns \in Nat
  /\ NoName \notin Plugins /\ NoId \notin 0 .. MaxTypes * Variants - 1
  /\ \A as \in SUBSET [name : Plugins, base : 0 .. MaxTypes * Variants - 1] : as # NoAssignments
  /\ {NoChunk, Failed} \cap [id : 0 .. MaxTypes * Variants - 1, data : BOOLEAN,
                            dirty : BOOLEAN, name : Plugins] = {}
  /\ NoChunk # Failed

VARIABLES assignments, \* Metadata of the database: the saved pairs of name and base id
          types,       \* block_types of the run: name and whether it is a placeholder
          baseOf,      \* name_to_base_id_map
          run,         \* "down", "registering", "serving"
          stored,      \* the block in the database: id, extended data, and what it was (history)
          chunk,       \* the block in memory; Failed if its chunk cannot be parsed
          dropped,     \* (history) names that were saved once and left out of a later save
          runs

typeVars == <<assignments, types, baseOf, run, dropped, runs>>
blockVars == <<stored, chunk>>
blockTypesVars == <<typeVars, blockVars>>

\* BlockId: index and new.
Index(id) == id \div Variants
Handle(base, variant) == base + variant

Known(i) == i < Len(types)                   \* make_blockref, get_block_by_id
TypeAt(id) == types[Index(id) + 1]
Placeholder == [name |-> NoName, unknown |-> TRUE]
Registered == {n \in Plugins : \E i \in 1 .. Len(types) : types[i] = [name |-> n, unknown |-> FALSE]}

Ids == 0 .. MaxTypes * Variants - 1
Places == [id : Ids, data : BOOLEAN, dirty : BOOLEAN, name : Plugins]

\* The type invariant: every number fits, what is saved is clean.
TypesTypeOK ==
  /\ assignments = NoAssignments \/ assignments \subseteq [name : Plugins, base : Ids]
  /\ types \in Seq([name : Plugins \cup {NoName}, unknown : BOOLEAN]) /\ Len(types) <= MaxTypes
  /\ baseOf \in [Plugins -> Ids \cup {NoId}]
  /\ run \in {"down", "registering", "serving"} /\ runs \in 0 .. MaxRuns
  /\ stored \in {p \in Places : ~p.dirty} \cup {NoChunk} /\ chunk \in Places \cup {NoChunk, Failed}
  /\ dropped \subseteq Plugins

TypesInit ==
  /\ assignments = NoAssignments /\ types = <<>> /\ baseOf = [n \in Plugins |-> NoId]
  /\ run = "down" /\ runs = 0
  /\ stored = NoChunk /\ chunk = NoChunk /\ dropped = {}
-----------------------------------------------------------------------------
(* A run of the server up to the moment it serves.                         *)

\* from_proto: a placeholder for every index up to the greatest that was saved, at least one.
FromProto(as) ==
  /\ types' = [i \in 1 .. Max({Index(a.base) : a \in as} \cup {0}) + 1 |-> Placeholder]
  /\ baseOf' = [n \in Plugins |-> IF \E a \in as : a.name = n
                                  THEN (CHOOSE a \in as : a.name = n).base ELSE NoId]

\* create_or_load.
CreateOrLoad ==
  /\ run = "down" /\ runs < MaxRuns
  /\ run' = "registering" /\ runs' = runs + 1
  /\ IF assignments = NoAssignments
     THEN types' = <<>> /\ baseOf' = [n \in Plugins |-> NoId]
     ELSE FromProto(assignments)
  /\ UNCHANGED <<assignments, dropped, blockVars>>

\* Mutant of RegisterBlock: nothing stops a type for which there is no number left.
RegisterOneMore(n) ==
  /\ run = "registering" /\ baseOf[n] = NoId
  /\ types' = Append(types, [name |-> n, unknown |-> FALSE])
  /\ baseOf' = [baseOf EXCEPT ![n] = Len(types) * Variants]
  /\ UNCHANGED <<assignments, run, runs, dropped, blockVars>>

\* register_block, from the plugins in any order.
RegisterBlock(n) ==
  /\ run = "registering"
  /\ \/ /\ baseOf[n] # NoId /\ TypeAt(baseOf[n]).unknown
        /\ types' = [types EXCEPT ![Index(baseOf[n]) + 1] = [name |-> n, unknown |-> FALSE]]
        /\ UNCHANGED baseOf
     \/ /\ baseOf[n] = NoId /\ Len(types) < MaxTypes
        /\ types' = Append(types, [name |-> n, unknown |-> FALSE])
        /\ baseOf' = [baseOf EXCEPT ![n] = Len(types) * Variants]
  /\ UNCHANGED <<assignments, run, runs, dropped, blockVars>>

\* to_proto: the placeholders are left out.
ToProto == {[name |-> n, base |-> baseOf[n]] : n \in Registered}

NamesIn(as) == IF as = NoAssignments THEN {} ELSE {a.name : a \in as}

\* Mutant of Build: the server serves before the assignments are saved.
BuildUnsaved ==
  /\ run = "registering" /\ run' = "serving"
  /\ \/ /\ assignments' = ToProto
        /\ dropped' = dropped \cup (NamesIn(assignments) \ Registered)
     \/ UNCHANGED <<assignments, dropped>>
  /\ UNCHANGED <<types, baseOf, runs, blockVars>>

\* ServerBuilder::build: save_to, then the game state and with it the map.
Build ==
  /\ run = "registering" /\ run' = "serving"
  /\ assignments' = ToProto
  /\ dropped' = dropped \cup (NamesIn(assignments) \ Registered)
  /\ UNCHANGED <<types, baseOf, runs, blockVars>>

\* An error while starting (a name registered twice, too many types, a failed save), the
\* end of the server, or a kill: what the chunk had that is not written is gone.
Down ==
  /\ run # "down" /\ run' = "down"
  /\ types' = <<>> /\ baseOf' = [n \in Plugins |-> NoId]
  /\ chunk' = NoChunk
  /\ UNCHANGED <<assignments, runs, dropped, stored>>
-----------------------------------------------------------------------------
(* One block of the map.                                                   *)

\* Mutant of Deserialize: extended data of a type that is not there are kept.
DeserializeAnyway(b) == b

\* parse_v1: extended data of an index without type fail the chunk, those of a placeholder
\* are left out (NoExtData).
Deserialize(b) ==
  IF ~b.data THEN b
  ELSE IF ~Known(Index(b.id)) THEN Failed
  ELSE [b EXCEPT !.data = ~TypeAt(b.id).unknown]

LoadChunk ==
  /\ run = "serving" /\ chunk = NoChunk /\ stored # NoChunk
  /\ chunk' = Deserialize(stored)
  /\ UNCHANGED <<stored, typeVars>>

InMemory == chunk \notin {NoChunk, Failed}

\* The generator and handlers put down a registered type, in any variant, with or without data.
Put(n, v, d) == chunk' = [id |-> Handle(baseOf[n], v), data |-> d, dirty |-> TRUE, name |-> n]

Generate(n, v) ==
  /\ run = "serving" /\ chunk = NoChunk /\ stored = NoChunk /\ n \in Registered
  /\ Put(n, v, FALSE)
  /\ UNCHANGED <<stored, typeVars>>

\* mutate_block_atomically with an old block that has a type ...
MutateBlock(n, v, d) ==
  /\ InMemory /\ Known(Index(chunk.id)) /\ n \in Registered
  /\ Put(n, v, d)
  /\ UNCHANGED <<stored, typeVars>>

\* ... and one with none: it returns early, the extended data already taken out.
MutateUnknown ==
  /\ InMemory /\ ~Known(Index(chunk.id))
  /\ chunk' = [chunk EXCEPT !.data = FALSE]
  /\ UNCHANGED <<stored, typeVars>>

\* Another block of the chunk changes.
Neighbour ==
  /\ InMemory
  /\ chunk' = [chunk EXCEPT !.dirty = TRUE]
  /\ UNCHANGED <<stored, typeVars>>

\* serialize and put.
WriteChunk ==
  /\ InMemory /\ chunk.dirty /\ (chunk.data => Known(Index(chunk.id)))
  /\ chunk' = [chunk EXCEPT !.dirty = FALSE]
  /\ stored' = chunk'
  /\ UNCHANGED typeVars
-----------------------------------------------------------------------------
Starts == CreateOrLoad \/ (\E n \in Plugins : RegisterBlock(n)) \/ Build \/ Down
Works ==
  \/ \E n \in Plugins, v \in 0 .. Variants - 1 :
       Generate(n, v) \/ \E d \in BOOLEAN : MutateBlock(n, v, d)
  \/ LoadChunk \/ MutateUnknown \/ Neighbour \/ WriteChunk

TypesNext == Starts \/ Works
TypesSpec == TypesInit /\ [][TypesNext]_blockTypesVars
-----------------------------------------------------------------------------
\* A block in memory is of the type that was placed, however often the server was started
\* with other plugins and in another order, unless a run was made without that type and so
\* forgot its number.
IdKeepsItsName ==
  InMemory /\ chunk.name \notin dropped =>
    Known(Index(chunk.id)) /\ TypeAt(chunk.id).name = chunk.name

\* Extended data in memory always belong to a block that has a type: no change of it takes
\* the early return that would lose them, and no write of the chunk fails over them.
DataHasType == InMemory /\ chunk.data => Known(Index(chunk.id)) /\ ~TypeAt(chunk.id).unknown
-----------------------------------------------------------------------------
(* What both rest on: the inductive invariant.                             *)

BaseOfIndex(i) == i * Variants

\* What is saved gives every name one base id, and that to no other name.
SavedFits ==
  assignments # NoAssignments =>
    \A a, b \in assignments :
      /\ a.base = BaseOfIndex(Index(a.base))
      /\ a.name = b.name <=> a.base = b.base

\* The map by name and the vector by index fit, apart from placeholders.
NamesFit ==
  \A n \in Plugins : baseOf[n] # NoId =>
    /\ baseOf[n] = BaseOfIndex(Index(baseOf[n])) /\ Known(Index(baseOf[n]))
    /\ \A m \in Plugins : baseOf[m] = baseOf[n] => m = n
TypesFit ==
  \A i \in 1 .. Len(types) :
    \/ types[i] = Placeholder
    \/ \E n \in Plugins : types[i] = [name |-> n, unknown |-> FALSE] /\ baseOf[n] = BaseOfIndex(i - 1)

\* A run keeps the numbers that are saved, and serves no block under one that is not.
RunFits ==
  /\ run = "down" => types = <<>> /\ \A n \in Plugins : baseOf[n] = NoId
  /\ run # "down" /\ assignments # NoAssignments =>
       \A a \in assignments : baseOf[a.name] = a.base
  /\ run = "serving" => assignments = ToProto
  /\ run # "serving" => chunk = NoChunk

\* The number of a block is saved under its name, if no run forgot it.
Remembered(p) ==
  \/ p.name \in dropped
  \/ assignments # NoAssignments /\ [name |-> p.name, base |-> BaseOfIndex(Index(p.id))] \in assignments
BlocksFit ==
  /\ stored # NoChunk => Remembered(stored)
  /\ InMemory => Remembered(chunk)

TypesInv ==
  TypesTypeOK /\ SavedFits /\ NamesFit /\ TypesFit /\ RunFits /\ BlocksFit /\ DataHasType
=============================================================================
