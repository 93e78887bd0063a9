------------------------------ MODULE LockSteps ------------------------------
(***************************************************************************)
(* Threads over the locks of parking_lot: mutexes, and readers-writer      *)
(* locks whose read waits for a writer that waits.  A thread whose next    *)
(* step takes a lock may have called for it or not yet: others may go      *)
(* before it, or it may be in their way (WaitsFor).                        *)
(*                                                                         *)
(* A thread is what it still has to do: a sequence of steps, each of which *)
(* takes or releases one lock; the modules that use this one add steps of  *)
(* their own, and say what a thread begins with.                           *)
(***************************************************************************)
EXTENDS Naturals, SequencesExt, FiniteSetsExt

CONSTANT Threads

VARIABLES todo,     \* the steps each thread has before it
          holder,   \* who holds each mutex, or writes under each readers-writer lock
          readers   \* how often each thread reads under each readers-writer lock

lockVars == <<todo, holder, readers>>
NoThread == "nobody"
-----------------------------------------------------------------------------
(* Steps.                                                                  *)

LockOps ==
  {"use", "look", "lock", "unlock", "read", "read_recursive", "unread", "write", "downgrade"}

Step(op, on) == <<[op |-> op, on |-> on]>>
Use(m) == Step("use", m)     \* a lock that is released before any other is taken
Look(l) == Step("look", l)
Hold(m, body) == Step("lock", m) \o body \o Step("unlock", m)
Reading(l, body) == Step("read", l) \o body \o Step("unread", l)
ReadingAgain(l, body) == Step("read_recursive", l) \o body \o Step("unread", l)
Writing(l, body) == Step("write", l) \o body \o Step("unlock", l)
UseEach(S) == [i \in 1 .. Cardinality(S) |-> Use(SetToSeq(S)[i])[1]]
EachOf(S, Body(_)) == FlattenSeq([i \in 1 .. Cardinality(S) |-> Body(SetToSeq(S)[i])])
-----------------------------------------------------------------------------
LocksFree(mutexes, tables) ==
  /\ todo = [t \in Threads |-> <<>>]
  /\ holder = [l \in mutexes \cup tables |-> NoThread]
  /\ readers = [l \in tables |-> [t \in Threads |-> 0]]

\* A lock is read or written, never both.
LocksOK(ops, mutexes, tables) ==
  /\ todo \in [Threads -> Seq([op : ops, on : mutexes \cup tables])]
  /\ holder \in [mutexes \cup tables -> Threads \cup {NoThread}]
  /\ readers \in [tables -> [Threads -> Nat]]
  /\ \A l \in tables : holder[l] # NoThread => \A t \in Threads : readers[l][t] = 0

\* A thread with nothing left begins anew.
Starts(t, programs) ==
  /\ todo[t] = <<>>
  /\ \E p \in programs : todo' = [todo EXCEPT ![t] = p]
  /\ UNCHANGED <<holder, readers>>

Now(t, op) == todo[t] # <<>> /\ todo[t][1].op = op
On(t) == todo[t][1].on
Moves(t) == todo' = [todo EXCEPT ![t] = Tail(@)]

\* A lock that is held for a moment only: the thread waits until it could have it.
Pass(t) ==
  /\ Now(t, "use") \/ Now(t, "look")
  /\ holder[On(t)] = NoThread /\ Moves(t)
  /\ UNCHANGED <<holder, readers>>

Lock(t) ==
  /\ Now(t, "lock") /\ holder[On(t)] = NoThread /\ Moves(t)
  /\ holder' = [holder EXCEPT ![On(t)] = t]
  /\ UNCHANGED readers

Unlock(t) ==
  /\ Now(t, "unlock") /\ Moves(t)
  /\ holder' = [holder EXCEPT ![On(t)] = NoThread]
  /\ UNCHANGED readers

Read(t) ==
  /\ Now(t, "read") \/ Now(t, "read_recursive")
  /\ holder[On(t)] = NoThread /\ Moves(t)
  /\ readers' = [readers EXCEPT ![On(t)][t] = @ + 1]
  /\ UNCHANGED holder

Unread(t) ==
  /\ Now(t, "unread") /\ Moves(t)
  /\ readers' = [readers EXCEPT ![On(t)][t] = @ - 1]
  /\ UNCHANGED holder

Write(t) ==
  /\ Now(t, "write") /\ holder[On(t)] = NoThread /\ Moves(t)
  /\ \A u \in Threads : readers[On(t)][u] = 0
  /\ holder' = [holder EXCEPT ![On(t)] = t]
  /\ UNCHANGED readers

\* RwLockWriteGuard::downgrade: no other writer comes in between.
Downgrade(t) ==
  /\ Now(t, "downgrade") /\ Moves(t)
  /\ holder' = [holder EXCEPT ![On(t)] = NoThread]
  /\ readers' = [readers EXCEPT ![On(t)][t] = @ + 1]
-----------------------------------------------------------------------------
\* Whom a thread waits for once all have called for their locks: the holder, and for a table
\* its readers, or a writer, for which read waits and read_recursive does not.
WaitsFor(t) ==
  IF todo[t] = <<>> THEN {}
  ELSE LET l == On(t)
           writers == {u \in Threads : Now(u, "write") /\ On(u) = l}
           reading == {u \in Threads : readers[l][u] > 0}
       IN CASE Now(t, "lock") \/ Now(t, "use") \/ Now(t, "read_recursive") -> {holder[l]} \ {NoThread}
            [] Now(t, "read") \/ Now(t, "look") -> ({holder[l]} \ {NoThread}) \cup writers
            [] Now(t, "write") -> ({holder[l]} \ {NoThread}) \cup reading
            [] OTHER -> {}

\* Threads never wait for each other in a circle, nor one for itself.
Waiting == {t \in Threads : WaitsFor(t) # {}}
NoCircle == \A S \in (SUBSET Waiting) \ {{}} : \E t \in S : WaitsFor(t) \cap S = {}
=============================================================================
