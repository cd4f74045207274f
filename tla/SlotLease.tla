------------------------------ MODULE SlotLease ------------------------------
(***************************************************************************)
(* What the worker side of agent-qq promises about a worker slot, without  *)
(* files, loops or snapshots: a slot is leased to one task at a time, a    *)
(* CLI process runs in a slot only for the task the slot is leased to, and *)
(* the lease cannot change hands or end while that process runs.           *)
(*                                                                         *)
(* TaskQueue implements it: the lease is what worker_state.json shows,     *)
(* whoever wrote it last, and from however old a snapshot.                 *)
(***************************************************************************)
CONSTANTS Tasks, Slots, NoTask

VARIABLES
  holder,   \* the task each slot is leased to, or NoTask
  running   \* the task whose process runs in the slot, or NoTask

lease == <<holder, running>>

Roster == [Slots -> Tasks \cup {NoTask}]

Free(w) == running[w] = NoTask

LeaseInit ==
  /\ holder \in Roster
  /\ running = [w \in Slots |-> NoTask]

\* One write of the roster may grant and end any leases of free slots.
Regrant ==
  /\ holder' \in Roster
  /\ \A w \in Slots : ~Free(w) => holder'[w] = holder[w]
  /\ UNCHANGED running

Launch(w) ==
  /\ Free(w) /\ holder[w] # NoTask
  /\ running' = [running EXCEPT ![w] = holder[w]]
  /\ UNCHANGED holder

\* Processes end, are killed, or are lost with the pool that started them.
Finish(S) ==
  /\ running' = [w \in Slots |-> IF w \in S THEN NoTask ELSE running[w]]
  /\ UNCHANGED holder

LeaseNext == Regrant \/ (\E w \in Slots : Launch(w)) \/ (\E S \in SUBSET Slots : Finish(S))

LeaseSpec == LeaseInit /\ [][LeaseNext]_lease
=============================================================================
