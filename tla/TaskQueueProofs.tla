--------------------------- MODULE TaskQueueProofs ---------------------------
(***************************************************************************)
(* The invariants of TaskQueue, and that it implements SlotLease, for any  *)
(* sets of tasks and slots.                                                *)
(***************************************************************************)
EXTENDS TaskQueue, FiniteSetTheorems, TLAPS

-----------------------------------------------------------------------------
(* What the loops compute from what they read.                             *)

\* 0 stands for no task and for no slot.
LEMMA ZeroIsFree == NoTask \notin Tasks /\ NoSlot \notin Slots \cup GoneSlots
  BY TasksAssumption, SlotsAssumption, GoneAssumption DEF NoTask, NoSlot

\* Assigning the tasks that were read gives a queue in which nothing is newly completed.
LEMMA ClaimTasksFacts ==
  ASSUME NEW q \in Queue, NEW ws \in Roster, Incomplete(q)
  PROVE  /\ ClaimTasks(q, Matching(q, ws)) \in Queue
         /\ Incomplete(ClaimTasks(q, Matching(q, ws)))
<1> DEFINE ms == Matching(q, ws)
<1>1. \A m \in ms : m[1] \in Tasks /\ m[2] \in Slots
  BY DEF Matching, Unclaimed, IdleSlots
<1>2. ASSUME NEW t \in Tasks
      PROVE  /\ ClaimTasks(q, ms)[t] \in TaskRecord
             /\ ClaimTasks(q, ms)[t].status # "completed"
  <2>1. CASE \E m \in ms : m[1] = t
    <3>1. (CHOOSE m \in ms : m[1] = t) \in ms
      BY <2>1
    <3>2. ClaimTasks(q, ms)[t]
            = [status |-> "running", worker |-> (CHOOSE m \in ms : m[1] = t)[2]]
      BY <2>1 DEF ClaimTasks
    <3> QED
      BY <1>1, <3>1, <3>2 DEF TaskRecord, Status, Terminal
  <2>2. CASE ~\E m \in ms : m[1] = t
    <3>1. ClaimTasks(q, ms)[t] = q[t]
      BY <2>2 DEF ClaimTasks
    <3> QED
      BY <3>1 DEF Queue, Incomplete
  <2> QED
    BY <2>1, <2>2
<1>3. ClaimTasks(q, ms) \in Queue
  BY <1>2 DEF ClaimTasks, Queue
<1> QED
  BY <1>2, <1>3 DEF Incomplete

\* Assigning tasks gives away idle slots only.
LEMMA ClaimSlotsFacts ==
  ASSUME NEW q \in Queue, NEW ws \in Roster
  PROVE  /\ ClaimSlots(ws, Matching(q, ws)) \in Roster
         /\ Within(ws, ClaimSlots(ws, Matching(q, ws)), Slots)
<1> DEFINE ms == Matching(q, ws)
<1>1. \A m \in ms : m[1] \in Tasks /\ ws[m[2]] = NoTask
  BY DEF Matching, Unclaimed, IdleSlots
<1>2. ASSUME NEW w \in Slots
      PROVE  /\ ClaimSlots(ws, ms)[w] \in Tasks \cup {NoTask}
             /\ ws[w] # NoTask => ClaimSlots(ws, ms)[w] = ws[w]
  <2>1. CASE \E m \in ms : m[2] = w
    <3>1. (CHOOSE m \in ms : m[2] = w) \in ms /\ ws[w] = NoTask
      BY <1>1, <2>1
    <3>2. ClaimSlots(ws, ms)[w] = (CHOOSE m \in ms : m[2] = w)[1]
      BY <2>1 DEF ClaimSlots
    <3> QED
      BY <1>1, <3>1, <3>2
  <2>2. CASE ~\E m \in ms : m[2] = w
    <3>1. ClaimSlots(ws, ms)[w] = ws[w]
      BY <2>2 DEF ClaimSlots
    <3> QED
      BY <3>1 DEF Roster
  <2> QED
    BY <2>1, <2>2
<1>3. ClaimSlots(ws, ms) \in Roster
  BY <1>2 DEF ClaimSlots, Roster
<1> QED
  BY <1>2, <1>3 DEF Within

\* Recording the end of a task in the queue keeps it a queue.
LEMMA FinalizedFacts ==
  ASSUME NEW q \in Queue, Incomplete(q), NEW t \in Tasks,
         NEW s \in Terminal, s # "completed"
  PROVE  Finalized(q, t, s) \in Queue /\ Incomplete(Finalized(q, t, s))
  BY DEF Finalized, Queue, Incomplete, TaskRecord, Status

\* Nobody and nothing.
LEMMA Blanks ==
  /\ NoQueue \in Queue /\ Incomplete(NoQueue)
  /\ AllIdle \in Roster
  /\ NoJob \in Jobs
  BY DEF NoQueue, Queue, TaskRecord, Status, Absent, Incomplete, AllIdle, Roster, Jobs

\* An idle roster says nothing of any slot.
LEMMA IdleWithin ==
  ASSUME NEW a, NEW S \in SUBSET Slots
  PROVE  Within(AllIdle, a, S)
  BY DEF Within, AllIdle

\* What is being recorded is the end of a real run.
LEMMA JobFacts ==
  ASSUME TypeOK, pool \in Recordings
  PROVE  /\ job \in [slot : Slots, task : Tasks, status : Terminal]
         /\ job.slot \in Slots /\ job.task \in Tasks /\ job.status \in Terminal
  BY DEF TypeOK, Jobs

-----------------------------------------------------------------------------
(* The inductive invariant: it holds initially and every action keeps it.  *)

\* The initial states satisfy the inductive invariant.
LEMMA InitInv == Init => IInv
<1> SUFFICES ASSUME Init PROVE IInv
  OBVIOUS
<1>1. tasks \in Queue /\ Incomplete(tasks)
  BY DEF Init, OldTask, Absent, Pending, Queue, TaskRecord, Status, Incomplete
<1>2. TypeOK
  BY <1>1, Blanks, BoundAssumption DEF Init, TypeOK, Listed, Recordings
<1>3. QueueInv
  BY <1>1, Blanks DEF Init, QueueInv
<1>4. RosterInv /\ LiveTracked /\ TickInv /\ JobInv /\ PoolOffInv
  BY DEF Init, RosterInv, LiveTracked, TickInv, JobInv, PoolOffInv, Within, Up, Holding, AllIdle
<1> QED
  BY <1>2, <1>3, <1>4 DEF IInv


\* A user changes the queue only.
LEMMA UsersStep ==
  ASSUME IInv, NEW t \in Tasks, Submit(t) \/ Cancel(t)
  PROVE  IInv'
<1> USE DEF IInv, files, mainVars, cleanVars, tickVars, procVars, bounds
<1>1. CASE Submit(t)
  <2>1. TypeOK'
    BY <1>1 DEF TypeOK, Queue, TaskRecord, Status, Submit, Pending
  <2>2. QueueInv'
    BY <1>1, Blanks DEF QueueInv, Incomplete, Submit, Pending
  <2>3. (LiveTracked /\ RosterInv)'
    BY <1>1 DEF LiveTracked, RosterInv, TickInv, JobInv, PoolOffInv,
                 Within, Up, Holding, TypeOK, Submit, Pending
  <2>4. (TickInv /\ JobInv /\ PoolOffInv)'
    BY <1>1 DEF LiveTracked, RosterInv, TickInv, JobInv, PoolOffInv,
                 Within, Up, Holding, TypeOK, Submit, Pending
  <2> QED
    BY <2>1, <2>2, <2>3, <2>4
<1>2. CASE Cancel(t)
  <2>1. TypeOK'
    BY <1>2 DEF TypeOK, Queue, TaskRecord, Status, Cancel, Cancelling, Terminal
  <2>2. QueueInv'
    BY <1>2, Blanks DEF QueueInv, Incomplete, Cancel, Cancelling, Terminal
  <2>3. (LiveTracked /\ RosterInv)'
    BY <1>2 DEF LiveTracked, RosterInv, TickInv, JobInv, PoolOffInv,
                 Within, Up, Holding, TypeOK, Cancel, Cancelling, Terminal
  <2>4. (TickInv /\ JobInv /\ PoolOffInv)'
    BY <1>2 DEF LiveTracked, RosterInv, TickInv, JobInv, PoolOffInv,
                 Within, Up, Holding, TypeOK, Cancel, Cancelling, Terminal
  <2> QED
    BY <2>1, <2>2, <2>3, <2>4
<1> QED
  BY <1>1, <1>2

\* Recovery runs while nothing else does, and only resets.
LEMMA StartupStep ==
  ASSUME IInv, StartClean \/ StartRepair \/ RecoverWriteTasks \/ RecoverWriteSlots
  PROVE  IInv'
<1> USE DEF IInv, files, mainVars, cleanVars, tickVars, procVars, bounds
<1>1. CASE StartClean
  <2>1. TypeOK'
    BY <1>1 DEF TypeOK, PoolOffInv, Up, Recordings, StartClean, StartLoops
  <2>2. QueueInv'
    BY <1>1, Blanks DEF QueueInv, Incomplete, StartClean, StartLoops
  <2>3. (LiveTracked /\ RosterInv)'
    BY <1>1 DEF LiveTracked, RosterInv, TickInv, JobInv, PoolOffInv,
                 Within, Up, Holding, TypeOK, StartClean, StartLoops
  <2>4. (TickInv /\ JobInv /\ PoolOffInv)'
    BY <1>1 DEF LiveTracked, RosterInv, TickInv, JobInv, PoolOffInv,
                 Within, Up, Holding, TypeOK, StartClean, StartLoops
  <2> QED
    BY <2>1, <2>2, <2>3, <2>4
<1>2. CASE StartRepair
  <2>1. TypeOK'
    BY <1>2 DEF TypeOK, Queue, TaskRecord, Status, Roster, StartRepair, OrphanTasks, OrphanSlots, Pending
  <2>2. QueueInv'
    BY <1>2, Blanks DEF QueueInv, Incomplete, StartRepair, OrphanTasks, OrphanSlots, Pending
  <2>3. (LiveTracked /\ RosterInv)'
    BY <1>2 DEF LiveTracked, RosterInv, TickInv, JobInv, PoolOffInv,
                 Within, Up, Holding, TypeOK, StartRepair, OrphanTasks, OrphanSlots, Pending
  <2>4. (TickInv /\ JobInv /\ PoolOffInv)'
    BY <1>2 DEF LiveTracked, RosterInv, TickInv, JobInv, PoolOffInv,
                 Within, Up, Holding, TypeOK, StartRepair, OrphanTasks, OrphanSlots, Pending
  <2> QED
    BY <2>1, <2>2, <2>3, <2>4
<1>3. CASE RecoverWriteTasks
  <2>1. TypeOK'
    BY <1>3, Blanks DEF TypeOK, Recordings, Roster, Jobs, RecoverWriteTasks
  <2>2. QueueInv'
    BY <1>3, Blanks DEF QueueInv, Incomplete, RecoverWriteTasks
  <2>3. (LiveTracked /\ RosterInv)'
    BY <1>3 DEF LiveTracked, RosterInv, TickInv, JobInv, PoolOffInv,
                 Within, Up, Holding, TypeOK, RecoverWriteTasks
  <2>4. (TickInv /\ JobInv /\ PoolOffInv)'
    BY <1>3 DEF LiveTracked, RosterInv, TickInv, JobInv, PoolOffInv,
                 Within, Up, Holding, TypeOK, RecoverWriteTasks
  <2> QED
    BY <2>1, <2>2, <2>3, <2>4
<1>4. CASE RecoverWriteSlots
  <2>1. TypeOK'
    BY <1>4, Blanks DEF TypeOK, PoolOffInv, Up, Recordings, RecoverWriteSlots, StartLoops, DropMain
  <2>2. QueueInv'
    BY <1>4, Blanks DEF QueueInv, Incomplete, RecoverWriteSlots, StartLoops, DropMain
  <2>3. (LiveTracked /\ RosterInv)'
    <3>1. procs = AllIdle /\ live = {} /\ pool' = "sleep" /\ ~Holding'
      BY <1>4 DEF PoolOffInv, Up, Holding, RecoverWriteSlots, StartLoops
    <3> QED
      BY <1>4, <3>1, IdleWithin DEF LiveTracked, RosterInv, RecoverWriteSlots
  <2>4. (TickInv /\ JobInv /\ PoolOffInv)'
    BY <1>4 DEF LiveTracked, RosterInv, TickInv, JobInv, PoolOffInv,
                 Within, Up, Holding, TypeOK, RecoverWriteSlots, StartLoops, DropMain
  <2> QED
    BY <2>1, <2>2, <2>3, <2>4
<1> QED
  BY <1>1, <1>2, <1>3, <1>4

\* What the scheduler writes agrees with the slots that are busy.
LEMMA SchedulerStep ==
  ASSUME IInv, SchedRead \/ SchedPlan \/ SchedWriteTasks \/ SchedWriteSlots
  PROVE  IInv'
<1> USE DEF IInv, files, mainVars, cleanVars, tickVars, procVars, bounds
<1>1. CASE SchedRead
  <2>1. TypeOK'
    BY <1>1, Blanks DEF TypeOK, Recordings, Roster, Jobs, SchedRead
  <2>2. QueueInv'
    BY <1>1, Blanks DEF QueueInv, Incomplete, SchedRead
  <2>3. (LiveTracked /\ RosterInv)'
    BY <1>1 DEF LiveTracked, RosterInv, TickInv, JobInv, PoolOffInv,
                 Within, Up, Holding, TypeOK, SchedRead
  <2>4. (TickInv /\ JobInv /\ PoolOffInv)'
    BY <1>1 DEF LiveTracked, RosterInv, TickInv, JobInv, PoolOffInv,
                 Within, Up, Holding, TypeOK, SchedRead
  <2> QED
    BY <2>1, <2>2, <2>3, <2>4
<1>2. CASE SchedPlan
  <2>1. TypeOK'
    BY <1>2, Blanks, ClaimTasksFacts, ClaimSlotsFacts DEF TypeOK, QueueInv, SchedPlan, DropMain
  <2>2. QueueInv'
    BY <1>2, Blanks, ClaimTasksFacts DEF TypeOK, QueueInv, SchedPlan, DropMain
  <2>3. (LiveTracked /\ RosterInv)'
    <3>1. Holding' => Within(workers, sWorkers', Slots)
      BY <1>2, ClaimSlotsFacts DEF TypeOK, Holding, SchedPlan
    <3> QED
      BY <1>2, <3>1 DEF LiveTracked, RosterInv, Within, SchedPlan
  <2>4. (TickInv /\ JobInv /\ PoolOffInv)'
    BY <1>2 DEF LiveTracked, RosterInv, TickInv, JobInv, PoolOffInv,
                 Within, Up, Holding, TypeOK, SchedPlan, DropMain
  <2> QED
    BY <2>1, <2>2, <2>3, <2>4
<1>3. CASE SchedWriteTasks
  <2>1. TypeOK'
    BY <1>3, Blanks DEF TypeOK, Recordings, Roster, Jobs, SchedWriteTasks
  <2>2. QueueInv'
    BY <1>3, Blanks DEF QueueInv, Incomplete, SchedWriteTasks
  <2>3. (LiveTracked /\ RosterInv)'
    BY <1>3 DEF LiveTracked, RosterInv, TickInv, JobInv, PoolOffInv,
                 Within, Up, Holding, TypeOK, SchedWriteTasks
  <2>4. (TickInv /\ JobInv /\ PoolOffInv)'
    BY <1>3 DEF LiveTracked, RosterInv, TickInv, JobInv, PoolOffInv,
                 Within, Up, Holding, TypeOK, SchedWriteTasks
  <2> QED
    BY <2>1, <2>2, <2>3, <2>4
<1>4. CASE SchedWriteSlots
  <2>1. TypeOK'
    BY <1>4, Blanks DEF TypeOK, Recordings, Roster, Jobs, SchedWriteSlots, DropMain
  <2>2. QueueInv'
    BY <1>4, Blanks DEF QueueInv, Incomplete, SchedWriteSlots, DropMain
  <2>3. (LiveTracked /\ RosterInv)'
    <3>1. Within(workers, sWorkers, Slots) /\ ~Holding'
      BY <1>4 DEF RosterInv, Holding, Up, SchedWriteSlots
    <3>2. Within(procs, workers', Slots)
      BY <1>4, <3>1 DEF RosterInv, Within, SchedWriteSlots
    <3>3. pool = "relWrite" => Within(pWorkers, workers', Slots)
      BY <1>4, <3>1 DEF RosterInv, Within, SchedWriteSlots
    <3> QED
      BY <1>4, <3>1, <3>2, <3>3 DEF LiveTracked, RosterInv, Within, SchedWriteSlots
  <2>4. (TickInv /\ JobInv /\ PoolOffInv)'
    <3>1. Within(workers, sWorkers, Slots) /\ visit \subseteq Slots
      BY <1>4, PoolAssumption DEF TypeOK, RosterInv, Holding, Up, SchedWriteSlots
    <3>2. Within(snap, workers', visit)
      BY <1>4, <3>1 DEF TickInv, Within, SchedWriteSlots
    <3> QED
      BY <1>4, <3>2 DEF TickInv, JobInv, PoolOffInv, Up, Within, SchedWriteSlots
  <2> QED
    BY <2>1, <2>2, <2>3, <2>4
<1> QED
  BY <1>1, <1>2, <1>3, <1>4

\* The cleaner only drops tasks.
LEMMA CleanerStep ==
  ASSUME IInv, CleanRead \/ CleanWrite
  PROVE  IInv'
<1> USE DEF IInv, files, mainVars, cleanVars, tickVars, procVars, bounds
<1>1. CASE CleanRead
  <2>1. TypeOK'
    BY <1>1 DEF TypeOK, Queue, TaskRecord, Status, CleanRead, Absent
  <2>2. QueueInv'
    BY <1>1, Blanks DEF QueueInv, Incomplete, CleanRead, Absent
  <2>3. (LiveTracked /\ RosterInv)'
    BY <1>1 DEF LiveTracked, RosterInv, TickInv, JobInv, PoolOffInv,
                 Within, Up, Holding, TypeOK, CleanRead, Absent
  <2>4. (TickInv /\ JobInv /\ PoolOffInv)'
    BY <1>1 DEF LiveTracked, RosterInv, TickInv, JobInv, PoolOffInv,
                 Within, Up, Holding, TypeOK, CleanRead, Absent
  <2> QED
    BY <2>1, <2>2, <2>3, <2>4
<1>2. CASE CleanWrite
  <2>1. TypeOK'
    BY <1>2, Blanks DEF TypeOK, Recordings, Roster, Jobs, CleanWrite
  <2>2. QueueInv'
    BY <1>2, Blanks DEF QueueInv, Incomplete, CleanWrite
  <2>3. (LiveTracked /\ RosterInv)'
    BY <1>2 DEF LiveTracked, RosterInv, TickInv, JobInv, PoolOffInv,
                 Within, Up, Holding, TypeOK, CleanWrite
  <2>4. (TickInv /\ JobInv /\ PoolOffInv)'
    BY <1>2 DEF LiveTracked, RosterInv, TickInv, JobInv, PoolOffInv,
                 Within, Up, Holding, TypeOK, CleanWrite
  <2> QED
    BY <2>1, <2>2, <2>3, <2>4
<1> QED
  BY <1>1, <1>2

\* A tick begins with the slots as they are, and looks for cancellations at its end.
LEMMA TickStep ==
  ASSUME IInv, PoolTick \/ CheckCancellations
  PROVE  IInv'
<1> USE DEF IInv, files, mainVars, cleanVars, tickVars, procVars, bounds
<1>1. CASE PoolTick
  <2>1. TypeOK'
    BY <1>1, Blanks DEF TypeOK, Recordings, Roster, Jobs, PoolTick, Served
  <2>2. QueueInv'
    BY <1>1, Blanks DEF QueueInv, Incomplete, PoolTick, Served
  <2>3. (LiveTracked /\ RosterInv)'
    BY <1>1 DEF LiveTracked, RosterInv, TickInv, JobInv, PoolOffInv,
                 Within, Up, Holding, TypeOK, PoolTick, Served
  <2>4. (TickInv /\ JobInv /\ PoolOffInv)'
    <3>1. Within(snap', workers, visit') /\ Within(procs, snap', visit')
      BY <1>1, PoolAssumption DEF RosterInv, Within, PoolTick, Served
    <3>2. job = NoJob /\ cancels = {}
      BY <1>1 DEF TypeOK, Recordings, JobInv, PoolTick
    <3> QED
      BY <1>1, <3>1, <3>2 DEF TickInv, JobInv, PoolOffInv, Up, Within, PoolTick
  <2> QED
    BY <2>1, <2>2, <2>3, <2>4
<1>2. CASE CheckCancellations
  <2>1. TypeOK'
    BY <1>2, Blanks DEF TypeOK, Recordings, CheckCancellations, Marked
  <2>2. QueueInv'
    BY <1>2, Blanks DEF QueueInv, Incomplete, CheckCancellations, Marked
  <2>3. (LiveTracked /\ RosterInv)'
    BY <1>2 DEF LiveTracked, RosterInv, TickInv, JobInv, PoolOffInv,
                 Within, Up, Holding, TypeOK, CheckCancellations, Marked
  <2>4. (TickInv /\ JobInv /\ PoolOffInv)'
    <3>1. job = NoJob /\ visit = {}
      BY <1>2 DEF TypeOK, Recordings, CheckCancellations
    <3>2. JobInv'
      BY <1>2, <3>1 DEF JobInv, CheckCancellations, Marked
    <3> QED
      BY <1>2, <3>1, <3>2 DEF TickInv, PoolOffInv, Within, Up, CheckCancellations
  <2> QED
    BY <2>1, <2>2, <2>3, <2>4
<1> QED
  BY <1>1, <1>2

\* A process is started for the task its slot is busy with, and killed before it is recorded.
LEMMA VisitStep ==
  ASSUME IInv, NEW w \in Slots,
         Skip(w) \/ Spawn(w) \/ SpawnFails(w) \/ Reap(w) \/ CancelKill(w)
  PROVE  IInv'
<1> USE DEF IInv, files, mainVars, cleanVars, tickVars, procVars, bounds
<1>1. CASE Skip(w)
  <2>1. TypeOK'
    BY <1>1, Blanks DEF TypeOK, Recordings, Roster, Jobs, Skip, AtSlot
  <2>2. QueueInv'
    BY <1>1, Blanks DEF QueueInv, Incomplete, Skip, AtSlot
  <2>3. (LiveTracked /\ RosterInv)'
    BY <1>1 DEF LiveTracked, RosterInv, TickInv, JobInv, PoolOffInv,
                 Within, Up, Holding, TypeOK, Skip, AtSlot
  <2>4. (TickInv /\ JobInv /\ PoolOffInv)'
    BY <1>1 DEF LiveTracked, RosterInv, TickInv, JobInv, PoolOffInv,
                 Within, Up, Holding, TypeOK, Skip, AtSlot
  <2> QED
    BY <2>1, <2>2, <2>3, <2>4
<1>2. CASE Spawn(w)
  <2>1. TypeOK'
    BY <1>2, Blanks DEF TypeOK, Recordings, Roster, Jobs, Spawn, AtSlot, MustSpawn, Listed
  <2>2. QueueInv'
    BY <1>2, Blanks DEF QueueInv, Incomplete, Spawn, AtSlot, MustSpawn, Listed
  <2>3. (LiveTracked /\ RosterInv)'
    <3>1. w \in visit /\ pool = "visit" /\ workers[w] = snap[w] /\ procs[w] = NoTask
      BY <1>2 DEF TickInv, Within, Spawn, AtSlot, MustSpawn
    <3>2. \A p \in live : p[1] # w
      BY <3>1, ZeroIsFree DEF LiveTracked, TypeOK
    <3>3. LiveTracked'
      BY <1>2, <3>2 DEF LiveTracked, TypeOK, Roster, Spawn
    <3>4. Within(procs', workers, Slots)
      BY <1>2, <3>1 DEF RosterInv, Within, TypeOK, Roster, Spawn
    <3> QED
      BY <1>2, <3>1, <3>3, <3>4 DEF RosterInv, Within, Up, Holding, Spawn
  <2>4. (TickInv /\ JobInv /\ PoolOffInv)'
    BY <1>2 DEF LiveTracked, RosterInv, TickInv, JobInv, PoolOffInv,
                 Within, Up, Holding, TypeOK, Spawn, AtSlot, MustSpawn, Listed
  <2> QED
    BY <2>1, <2>2, <2>3, <2>4
<1>3. CASE SpawnFails(w)
  <2>1. TypeOK'
    BY <1>3, ZeroIsFree DEF TypeOK, Recordings, Roster, Jobs, NoJob, Terminal, SpawnFails, MustSpawn, Record
  <2>2. QueueInv'
    BY <1>3, Blanks DEF QueueInv, Incomplete, SpawnFails, AtSlot, MustSpawn, Record
  <2>3. (LiveTracked /\ RosterInv)'
    BY <1>3 DEF LiveTracked, RosterInv, TickInv, JobInv, PoolOffInv,
                 Within, Up, Holding, TypeOK, SpawnFails, AtSlot, MustSpawn, Record
  <2>4. (TickInv /\ JobInv /\ PoolOffInv)'
    <3>1. w \in visit /\ pool = "visit" /\ procs[w] = NoTask /\ snap[w] # NoTask
      BY <1>3 DEF SpawnFails, AtSlot, MustSpawn
    <3>2. \A p \in live : p[1] # w
      BY <3>1, ZeroIsFree DEF LiveTracked, TypeOK
    <3>3. JobInv'
      BY <1>3, <3>1, <3>2 DEF JobInv, SpawnFails, Record
    <3> QED
      BY <1>3, <3>1, <3>3 DEF TickInv, PoolOffInv, Within, Up, SpawnFails, Record
  <2> QED
    BY <2>1, <2>2, <2>3, <2>4
<1>4. CASE Reap(w)
  <2>1. TypeOK'
    BY <1>4, ZeroIsFree DEF TypeOK, Recordings, Roster, Jobs, NoJob, Terminal, Reap, MustReap, Record
  <2>2. QueueInv'
    BY <1>4, Blanks DEF QueueInv, Incomplete, Reap, AtSlot, MustReap, Record
  <2>3. (LiveTracked /\ RosterInv)'
    BY <1>4 DEF LiveTracked, RosterInv, TickInv, JobInv, PoolOffInv,
                 Within, Up, Holding, TypeOK, Reap, AtSlot, MustReap, Record
  <2>4. (TickInv /\ JobInv /\ PoolOffInv)'
    BY <1>4 DEF LiveTracked, RosterInv, TickInv, JobInv, PoolOffInv,
                 Within, Up, Holding, TypeOK, Reap, AtSlot, MustReap, Record
  <2> QED
    BY <2>1, <2>2, <2>3, <2>4
<1>5. CASE CancelKill(w)
  <2>1. TypeOK'
    BY <1>5, ZeroIsFree DEF TypeOK, JobInv, Recordings, Roster, Jobs, NoJob, Terminal,
                 CancelKill, Record, Killed, Exited
  <2>2. QueueInv'
    BY <1>5, Blanks DEF QueueInv, Incomplete, CancelKill, Record, Killed, Exited
  <2>3. (LiveTracked /\ RosterInv)'
    BY <1>5 DEF LiveTracked, RosterInv, TickInv, JobInv, PoolOffInv,
                 Within, Up, Holding, TypeOK, CancelKill, Record, Killed, Exited
  <2>4. (TickInv /\ JobInv /\ PoolOffInv)'
    BY <1>5 DEF LiveTracked, RosterInv, TickInv, JobInv, PoolOffInv,
                 Within, Up, Holding, TypeOK, CancelKill, Record, Killed, Exited
  <2> QED
    BY <2>1, <2>2, <2>3, <2>4
<1> QED
  BY <1>1, <1>2, <1>3, <1>4, <1>5

\* Recording a run lets go of a slot without a live process.
LEMMA RecordingStep ==
  ASSUME IInv, FinRead \/ FinWrite \/ RelRead \/ RelWrite
  PROVE  IInv'
<1> USE DEF IInv, files, mainVars, cleanVars, tickVars, procVars, bounds
<1>1. CASE FinRead
  <2>1. TypeOK'
    BY <1>1, Blanks DEF TypeOK, Recordings, Roster, Jobs, FinRead
  <2>2. QueueInv'
    BY <1>1, Blanks DEF QueueInv, Incomplete, FinRead
  <2>3. (LiveTracked /\ RosterInv)'
    BY <1>1 DEF LiveTracked, RosterInv, TickInv, JobInv, PoolOffInv,
                 Within, Up, Holding, TypeOK, FinRead
  <2>4. (TickInv /\ JobInv /\ PoolOffInv)'
    BY <1>1 DEF LiveTracked, RosterInv, TickInv, JobInv, PoolOffInv,
                 Within, Up, Holding, TypeOK, FinRead
  <2> QED
    BY <2>1, <2>2, <2>3, <2>4
<1>2. CASE FinWrite
  <2>0. Finalized(pTasks, job.task, job.status) \in Queue
        /\ Incomplete(Finalized(pTasks, job.task, job.status))
    <3>1. job # NoJob /\ job.task \in Tasks /\ job.status \in Terminal
      BY <1>2, JobFacts DEF TypeOK, Recordings, FinWrite
    <3>2. job.status # "completed" /\ pTasks \in Queue /\ Incomplete(pTasks)
      BY <3>1 DEF JobInv, QueueInv, TypeOK
    <3> QED
      BY <3>1, <3>2, FinalizedFacts
  <2>1. TypeOK'
    BY <1>2, <2>0, Blanks DEF TypeOK, Recordings, FinWrite
  <2>2. QueueInv'
    BY <1>2, <2>0, Blanks DEF QueueInv, FinWrite
  <2>3. (LiveTracked /\ RosterInv)'
    BY <1>2 DEF LiveTracked, RosterInv, TickInv, JobInv, PoolOffInv,
                 Within, Up, Holding, TypeOK, FinWrite
  <2>4. (TickInv /\ JobInv /\ PoolOffInv)'
    BY <1>2 DEF LiveTracked, RosterInv, TickInv, JobInv, PoolOffInv,
                 Within, Up, Holding, TypeOK, FinWrite
  <2> QED
    BY <2>1, <2>2, <2>3, <2>4
<1>3. CASE RelRead
  <2>1. TypeOK'
    BY <1>3, Blanks DEF TypeOK, Recordings, Roster, Jobs, RelRead
  <2>2. QueueInv'
    BY <1>3, Blanks DEF QueueInv, Incomplete, RelRead
  <2>3. (LiveTracked /\ RosterInv)'
    BY <1>3 DEF LiveTracked, RosterInv, TickInv, JobInv, PoolOffInv,
                 Within, Up, Holding, TypeOK, RelRead
  <2>4. (TickInv /\ JobInv /\ PoolOffInv)'
    BY <1>3 DEF LiveTracked, RosterInv, TickInv, JobInv, PoolOffInv,
                 Within, Up, Holding, TypeOK, RelRead
  <2> QED
    BY <2>1, <2>2, <2>3, <2>4
<1>4. CASE RelWrite
  <2>1. TypeOK'
    BY <1>4, Blanks DEF TypeOK, Recordings, Roster, Jobs, RelWrite, Released, Forgotten
  <2>2. QueueInv'
    BY <1>4, Blanks DEF QueueInv, Incomplete, RelWrite, Released, Forgotten
  <2>3. (LiveTracked /\ RosterInv)'
    <3>1. job.slot \in Slots /\ \A p \in live : p[1] # job.slot
      BY <1>4, JobFacts DEF TypeOK, Recordings, JobInv, RelWrite
    <3>2. LiveTracked'
      BY <1>4, <3>1 DEF LiveTracked, TypeOK, Roster, RelWrite, Forgotten
    <3>3. Within(workers', workers, Slots) /\ Within(procs', workers', Slots)
      BY <1>4, <3>1 DEF RosterInv, Within, TypeOK, Roster, RelWrite, Released, Forgotten
    <3>4. Holding /\ Up => Within(workers', sWorkers, Slots)
      BY <3>3 DEF RosterInv, Within
    <3>5. Holding' = Holding /\ Up' = Up /\ sWorkers' = sWorkers /\ pool' # "relWrite"
      BY <1>4 DEF RelWrite, Holding, Up
    <3> QED
      BY <3>2, <3>3, <3>4, <3>5 DEF RosterInv
  <2>4. (TickInv /\ JobInv /\ PoolOffInv)'
    <3>1. job # NoJob /\ job.slot \in Slots /\ job.slot \notin visit \cup cancels
      BY <1>4, JobFacts DEF TypeOK, Recordings, JobInv, RelWrite
    <3>2. visit \subseteq Slots
      BY PoolAssumption DEF TypeOK
    <3>3. Within(snap, workers', visit) /\ Within(procs', snap, visit)
      BY <1>4, <3>1, <3>2 DEF TickInv, Within, TypeOK, Roster, RelWrite, Released, Forgotten
    <3>4. TickInv'
      BY <1>4, <3>1, <3>3 DEF TickInv, JobInv, Within, RelWrite
    <3>5. JobInv'
      BY <1>4, <3>1 DEF JobInv, TypeOK, Roster, RelWrite, Forgotten
    <3>6. PoolOffInv'
      BY <1>4 DEF PoolOffInv, Up, RelWrite
    <3> QED
      BY <3>4, <3>5, <3>6
  <2> QED
    BY <2>1, <2>2, <2>3, <2>4
<1> QED
  BY <1>1, <1>2, <1>3, <1>4

\* A process nobody tracks ends.
LEMMA OrphanExitStep ==
  ASSUME IInv, OrphanExit
  PROVE  IInv'
<1> USE DEF IInv, files, mainVars, cleanVars, tickVars, procVars, bounds
<1>1. CASE OrphanExit
  <2>1. TypeOK'
    BY <1>1, Blanks DEF TypeOK, Recordings, Roster, Jobs, OrphanExit
  <2>2. QueueInv'
    BY <1>1, Blanks DEF QueueInv, Incomplete, OrphanExit
  <2>3. (LiveTracked /\ RosterInv)'
    BY <1>1 DEF LiveTracked, RosterInv, TickInv, JobInv, PoolOffInv,
                 Within, Up, Holding, TypeOK, OrphanExit
  <2>4. (TickInv /\ JobInv /\ PoolOffInv)'
    BY <1>1 DEF LiveTracked, RosterInv, TickInv, JobInv, PoolOffInv,
                 Within, Up, Holding, TypeOK, OrphanExit
  <2> QED
    BY <2>1, <2>2, <2>3, <2>4
<1> QED
  BY <1>1

\* A process of the pool ends.
LEMMA ExitStep ==
  ASSUME IInv, NEW w \in Slots, NEW t \in Tasks, Exit(w, t)
  PROVE  IInv'
<1> USE DEF IInv, files, mainVars, cleanVars, tickVars, procVars, bounds
<1>1. CASE Exit(w, t)
  <2>1. TypeOK'
    BY <1>1, Blanks DEF TypeOK, Recordings, Roster, Jobs, Exit
  <2>2. QueueInv'
    BY <1>1, Blanks DEF QueueInv, Incomplete, Exit
  <2>3. (LiveTracked /\ RosterInv)'
    BY <1>1 DEF LiveTracked, RosterInv, TickInv, JobInv, PoolOffInv,
                 Within, Up, Holding, TypeOK, Exit
  <2>4. (TickInv /\ JobInv /\ PoolOffInv)'
    BY <1>1 DEF LiveTracked, RosterInv, TickInv, JobInv, PoolOffInv,
                 Within, Up, Holding, TypeOK, Exit
  <2> QED
    BY <2>1, <2>2, <2>3, <2>4
<1> QED
  BY <1>1

\* Every failure only gives things up.
LEMMA FailuresStep ==
  ASSUME IInv, SchedFault \/ CleanFault \/ PoolFault \/ Crash \/ PoolDies
  PROVE  IInv'
<1> USE DEF IInv, files, mainVars, cleanVars, tickVars, procVars, bounds
<1>1. CASE SchedFault
  <2>1. TypeOK'
    BY <1>1, Blanks, BoundAssumption DEF TypeOK, SchedFault, DropMain
  <2>2. QueueInv'
    BY <1>1, Blanks DEF QueueInv, Incomplete, SchedFault, DropMain
  <2>3. (LiveTracked /\ RosterInv)'
    BY <1>1 DEF LiveTracked, RosterInv, TickInv, JobInv, PoolOffInv,
                 Within, Up, Holding, TypeOK, SchedFault, DropMain
  <2>4. (TickInv /\ JobInv /\ PoolOffInv)'
    BY <1>1 DEF LiveTracked, RosterInv, TickInv, JobInv, PoolOffInv,
                 Within, Up, Holding, TypeOK, SchedFault, DropMain
  <2> QED
    BY <2>1, <2>2, <2>3, <2>4
<1>2. CASE CleanFault
  <2>1. TypeOK'
    BY <1>2, Blanks, BoundAssumption DEF TypeOK, CleanFault
  <2>2. QueueInv'
    BY <1>2, Blanks DEF QueueInv, Incomplete, CleanFault
  <2>3. (LiveTracked /\ RosterInv)'
    BY <1>2 DEF LiveTracked, RosterInv, TickInv, JobInv, PoolOffInv,
                 Within, Up, Holding, TypeOK, CleanFault
  <2>4. (TickInv /\ JobInv /\ PoolOffInv)'
    BY <1>2 DEF LiveTracked, RosterInv, TickInv, JobInv, PoolOffInv,
                 Within, Up, Holding, TypeOK, CleanFault
  <2> QED
    BY <2>1, <2>2, <2>3, <2>4
<1>3. CASE PoolFault
  <2>1. TypeOK'
    BY <1>3, Blanks, BoundAssumption DEF TypeOK, Recordings, PoolFault, DropTick
  <2>2. QueueInv'
    BY <1>3, Blanks DEF QueueInv, Incomplete, PoolFault, DropTick
  <2>3. (LiveTracked /\ RosterInv)'
    BY <1>3 DEF LiveTracked, RosterInv, TickInv, JobInv, PoolOffInv,
                 Within, Up, Holding, TypeOK, PoolFault, DropTick
  <2>4. (TickInv /\ JobInv /\ PoolOffInv)'
    BY <1>3 DEF LiveTracked, RosterInv, TickInv, JobInv, PoolOffInv,
                 Within, Up, Holding, TypeOK, PoolFault, DropTick
  <2> QED
    BY <2>1, <2>2, <2>3, <2>4
<1>4. CASE Crash
  <2>1. TypeOK'
    BY <1>4, Blanks, BoundAssumption DEF TypeOK, Recordings, Crash, DropTick, DropMain,
                 LoseProcesses
  <2>2. QueueInv'
    BY <1>4, Blanks DEF QueueInv, Incomplete, Crash, DropTick, DropMain, LoseProcesses
  <2>3. (LiveTracked /\ RosterInv)'
    <3>1. procs' = AllIdle /\ live' = {} /\ pool' = "off" /\ ~Holding'
      BY <1>4 DEF Crash, LoseProcesses, Holding
    <3> QED
      BY <1>4, <3>1, IdleWithin DEF LiveTracked, RosterInv, Crash
  <2>4. (TickInv /\ JobInv /\ PoolOffInv)'
    BY <1>4 DEF LiveTracked, RosterInv, TickInv, JobInv, PoolOffInv,
                 Within, Up, Holding, TypeOK, Crash, DropTick, DropMain, LoseProcesses
  <2> QED
    BY <2>1, <2>2, <2>3, <2>4
<1>5. CASE PoolDies
  <2>1. TypeOK'
    BY <1>5, Blanks, BoundAssumption DEF TypeOK, Recordings, PoolDies, DropTick, LoseProcesses
  <2>2. QueueInv'
    BY <1>5, Blanks DEF QueueInv, Incomplete, PoolDies, DropTick, LoseProcesses
  <2>3. (LiveTracked /\ RosterInv)'
    <3>1. procs' = AllIdle /\ live' = {} /\ pool' = "off"
      BY <1>5 DEF PoolDies, LoseProcesses
    <3>2. Holding /\ Up => Within(workers, sWorkers, Slots)
      BY DEF RosterInv
    <3> QED
      BY <1>5, <3>1, <3>2, IdleWithin DEF LiveTracked, RosterInv, Holding, Up, PoolDies
  <2>4. (TickInv /\ JobInv /\ PoolOffInv)'
    BY <1>5 DEF LiveTracked, RosterInv, TickInv, JobInv, PoolOffInv,
                 Within, Up, Holding, TypeOK, PoolDies, DropTick, LoseProcesses
  <2> QED
    BY <2>1, <2>2, <2>3, <2>4
<1> QED
  BY <1>1, <1>2, <1>3, <1>4, <1>5

\* Stuttering keeps everything.
LEMMA StutterStep == ASSUME IInv, UNCHANGED vars PROVE IInv'
  BY DEF IInv, TypeOK, LiveTracked, RosterInv, TickInv, JobInv, PoolOffInv, QueueInv, Within,
         Incomplete, Up, Holding, vars, files, mainVars, cleanVars, tickVars, procVars, bounds

\* Every step of the specification keeps the inductive invariant.
LEMMA NextInv == IInv /\ [Next]_vars => IInv'
<1> SUFFICES ASSUME IInv, [Next]_vars PROVE IInv'
  OBVIOUS
<1>1. CASE Users
  BY <1>1, UsersStep DEF Users
<1>2. CASE Startup
  BY <1>2, StartupStep DEF Startup
<1>3. CASE Scheduler
  BY <1>3, SchedulerStep DEF Scheduler
<1>4. CASE Cleaner
  BY <1>4, CleanerStep DEF Cleaner
<1>5. CASE Pool
  <2>1. CASE Recording
    BY <2>1, RecordingStep DEF Recording
  <2>2. CASE PoolTick \/ CheckCancellations
    BY <2>2, TickStep
  <2>3. CASE \E w \in Slots : Visit(w) \/ CancelKill(w)
    BY <2>3, VisitStep DEF Visit
  <2> QED
    BY <1>5, <2>1, <2>2, <2>3 DEF Pool
<1>6. CASE Processes
  <2>1. CASE OrphanExit
    BY <2>1, OrphanExitStep
  <2>2. CASE \E w \in Slots, t \in Tasks : Exit(w, t)
    BY <2>2, ExitStep
  <2> QED
    BY <1>6, <2>1, <2>2 DEF Processes
<1>7. CASE Failures
  BY <1>7, FailuresStep DEF Failures
<1>8. CASE UNCHANGED vars
  BY <1>8, StutterStep
<1> QED
  BY <1>1, <1>2, <1>3, <1>4, <1>5, <1>6, <1>7, <1>8 DEF Next

-----------------------------------------------------------------------------
(* The theorems.                                                           *)

\* Whatever the loops, the users, the crashes and the faults do, in any order: the
\* inductive invariant holds.
THEOREM Invariance == Spec => []IInv
  BY InitInv, NextInv, PTL DEF Spec

\* Every variable keeps its type, and control and locals agree.
THEOREM TypeCorrect == Spec => []TypeOK
<1>1. IInv => TypeOK
  BY DEF IInv
<1> QED
  BY <1>1, Invariance, PTL

\* A slot that holds a process is shown busy with that process's task in
\* worker_state.json, for any number of tasks and slots.
THEOREM SlotsKeepTheirTasks == Spec => []SlotKeepsItsTask
<1>1. IInv => SlotKeepsItsTask
  BY DEF IInv, RosterInv, Within, SlotKeepsItsTask
<1> QED
  BY <1>1, Invariance, PTL

\* _processes knows every live process of the pool under the slot it runs in.
THEOREM ProcessesTracked == Spec => []LiveTracked
<1>1. IInv => LiveTracked
  BY DEF IInv
<1> QED
  BY <1>1, Invariance, PTL

\* As long as only this program writes worker_state.json, the pool never gets to the
\* branch that records a finished run.
THEOREM CleanupNeverReached == Spec => []CleanupUnreachable
<1>1. IInv => CleanupUnreachable
  BY DEF IInv, TickInv, Within, CleanupUnreachable, AtSlot, MustReap
<1> QED
  BY <1>1, Invariance, PTL

\* So no task is ever recorded as completed.
THEOREM NothingCompletes == Spec => []NeverCompleted
<1>1. IInv => NeverCompleted
  BY DEF IInv, QueueInv, Incomplete, NeverCompleted
<1> QED
  BY <1>1, Invariance, PTL

-----------------------------------------------------------------------------
(* The refinement.  The lease table changes only through worker_state.json *)
(* and through the processes: a step that leaves workers and live alone is *)
(* a stutter, one that writes workers is a Regrant.                        *)

\* The process of a slot is the one _processes has, and no slot runs two.
RunningSound ==
  \A w \in Slots : /\ Running[w] # NoTask => Running[w] = procs[w] /\ <<w, procs[w]>> \in live
                   /\ \A p \in live : p[1] = w => Running[w] = p[2]

\* The inductive invariant makes the process of a slot well defined.
LEMMA RunningFacts == IInv => RunningSound
<1> SUFFICES ASSUME IInv, NEW w \in Slots
             PROVE  /\ Running[w] # NoTask => Running[w] = procs[w] /\ <<w, procs[w]>> \in live
                    /\ \A p \in live : p[1] = w => Running[w] = p[2]
  BY DEF RunningSound
<1>1. CASE \E p \in live : p[1] = w
  <2> DEFINE q == CHOOSE p \in live : p[1] = w
  <2>1. q \in live /\ q[1] = w
    BY <1>1
  <2>2. \A p \in live : p[1] = w => p = <<w, procs[w]>>
    BY DEF IInv, TypeOK, LiveTracked
  <2>3. Running[w] = q[2]
    BY <1>1 DEF Running
  <2> QED
    BY <2>1, <2>2, <2>3
<1>2. CASE ~\E p \in live : p[1] = w
  BY <1>2 DEF Running
<1> QED
  BY <1>1, <1>2

\* The same after a step.
LEMMA RunningPrimed == IInv' => RunningSound'
  BY RunningFacts, PTL

\* A step changes the live processes in one of two ways, or not at all.
LEMMA LiveSteps ==
  ASSUME [Next]_vars
  PROVE  \/ live' = live
         \/ live' \subseteq live /\ workers' = workers
         \/ \E w \in Slots : Spawn(w)
<1> USE DEF files, mainVars, cleanVars, tickVars, procVars, bounds, vars
<1>1. CASE Users \/ Startup \/ Scheduler \/ Cleaner
  BY <1>1 DEF Users, Submit, Cancel, Startup, StartClean, StartRepair, RecoverWriteTasks,
              RecoverWriteSlots, Scheduler, SchedRead, SchedPlan, SchedWriteTasks,
              SchedWriteSlots, Cleaner, CleanRead, CleanWrite
<1>2. CASE Pool
  BY <1>2 DEF Pool, PoolTick, CheckCancellations, Recording, FinRead, FinWrite, RelRead,
              RelWrite, Visit, Skip, SpawnFails, Reap, CancelKill, Killed
<1>3. CASE Processes \/ Failures
  BY <1>3 DEF Processes, OrphanExit, Exit, Failures, SchedFault, CleanFault, PoolFault, Crash,
              PoolDies, LoseProcesses
<1> QED
  BY <1>1, <1>2, <1>3 DEF Next

\* The processes start out as none.
LEMMA LeaseInitially == Init => Lease!LeaseInit
<1> SUFFICES ASSUME Init PROVE Lease!LeaseInit
  OBVIOUS
<1>1. workers \in Lease!Roster
  BY Blanks DEF Init, Roster, Lease!Roster
<1>2. Running = [w \in Slots |-> NoTask]
  BY DEF Init, Running
<1> QED
  BY <1>1, <1>2 DEF Lease!LeaseInit

\* Every step is a step of the lease table or leaves it alone.
LEMMA LeaseSteps == IInv /\ IInv' /\ [Next]_vars => [Lease!LeaseNext]_(Lease!lease)
<1> SUFFICES ASSUME IInv, IInv', [Next]_vars
             PROVE  Lease!LeaseNext \/ UNCHANGED Lease!lease
  BY DEF Lease!lease
<1>1. /\ \A w \in Slots : Running[w] # NoTask => workers[w] = Running[w]
      /\ \A w \in Slots : Running'[w] # NoTask => workers'[w] = Running'[w]
  <2>1. \A w \in Slots : Running[w] # NoTask => workers[w] = Running[w]
    BY RunningFacts DEF RunningSound, IInv, RosterInv, Within
  <2>2. \A w \in Slots : Running'[w] # NoTask => /\ <<w, Running'[w]>> \in live'
                                                 /\ Running'[w] = procs'[w]
    <3>1. SUFFICES ASSUME NEW w \in Slots, Running'[w] # NoTask
                   PROVE  <<w, Running'[w]>> \in live' /\ Running'[w] = procs'[w]
      OBVIOUS
    <3> QED
      BY RunningPrimed, <3>1 DEF RunningSound
  <2> QED
    BY <2>1, <2>2 DEF IInv, RosterInv, Within
<1>2. CASE live' = live
  <2>1. Running' = Running
    BY <1>2 DEF Running
  <2>2. workers' \in Lease!Roster
    BY DEF IInv, TypeOK, Roster, Lease!Roster
  <2>3. Lease!Regrant
    BY <1>1, <2>1, <2>2 DEF Lease!Regrant, Lease!Free
  <2> QED
    BY <2>3 DEF Lease!LeaseNext
<1>3. CASE live' \subseteq live /\ workers' = workers
  <2> DEFINE S == {w \in Slots : Running'[w] = NoTask}
  <2>1. \A w \in Slots \ S : Running'[w] = Running[w]
    BY <1>3, RunningFacts, RunningPrimed DEF RunningSound
  <2>2. Running' = [w \in Slots |-> IF w \in S THEN NoTask ELSE Running[w]]
    BY <2>1 DEF Running
  <2>3. Lease!Finish(S)
    BY <1>3, <2>2 DEF Lease!Finish
  <2> QED
    BY <2>3 DEF Lease!LeaseNext
<1>4. CASE \E w \in Slots : Spawn(w)
  <2>1. PICK w \in Slots : Spawn(w)
    BY <1>4
  <2>2. /\ snap[w] = workers[w] /\ workers[w] # NoTask /\ workers' = workers
        /\ procs[w] = NoTask /\ live' = live \cup {<<w, snap[w]>>}
    BY <2>1 DEF IInv, TickInv, Within, Spawn, AtSlot, MustSpawn, files
  <2>3. Running[w] = NoTask
    BY <2>2, RunningFacts DEF RunningSound
  <2>4. Running'[w] = workers[w]
    BY <2>2, RunningPrimed DEF RunningSound
  <2>5. ASSUME NEW v \in Slots \ {w}
        PROVE  Running'[v] = Running[v]
    <3>1. \A p : p \in live' /\ p[1] = v <=> p \in live /\ p[1] = v
      BY <2>2
    <3>2. CASE \E p \in live : p[1] = v
      <4>1. PICK p \in live : p[1] = v
        BY <3>2
      <4>2. Running[v] = p[2]
        BY <4>1, RunningFacts DEF RunningSound
      <4>3. p \in live'
        BY <3>1, <4>1
      <4>4. Running'[v] = p[2]
        BY <4>1, <4>3, RunningPrimed DEF RunningSound
      <4> QED
        BY <4>2, <4>4
    <3>3. CASE ~\E p \in live : p[1] = v
      <4>1. Running[v] = NoTask /\ Running'[v] = NoTask
        BY <3>1, <3>3 DEF Running
      <4> QED
        BY <4>1
    <3> QED
      BY <3>2, <3>3
  <2>6. Running' = [Running EXCEPT ![w] = workers[w]]
    <3>1. /\ Running = [v \in Slots |-> Running[v]]
          /\ Running' = [v \in Slots |-> Running'[v]]
      BY DEF Running
    <3>2. \A v \in Slots : Running'[v] = IF v = w THEN workers[w] ELSE Running[v]
      BY <2>4, <2>5
    <3> QED
      BY <3>1, <3>2
  <2>7. Lease!Launch(w)
    BY <2>2, <2>3, <2>6 DEF Lease!Launch, Lease!Free
  <2> QED
    BY <2>7 DEF Lease!LeaseNext
<1> QED
  BY <1>2, <1>3, <1>4, LiveSteps

\* worker_state.json, written by four writers from stale copies, is a lease table for the
\* CLI processes: TaskQueue implements SlotLease for any sets of tasks and slots.
THEOREM Refinement == Spec => ImplementsLease
<1>1. Init => Lease!LeaseInit
  BY LeaseInitially
<1>2. IInv /\ IInv' /\ [Next]_vars => [Lease!LeaseNext]_(Lease!lease)
  BY LeaseSteps
<1> QED
  BY <1>1, <1>2, Invariance, PTL DEF Spec, ImplementsLease, Lease!LeaseSpec

-----------------------------------------------------------------------------
(* Recovery: nobody but the users touches the files while it runs, and     *)
(* what they do to a task does not undo the repair.                        *)

\* Where recovery stands is kept by every step.
LEMMA RecoveryStep == IInv /\ RecoveryInv /\ [Next]_vars => RecoveryInv'
<1> SUFFICES ASSUME IInv, RecoveryInv, [Next]_vars PROVE RecoveryInv'
  OBVIOUS
<1> USE DEF files, mainVars, cleanVars, tickVars, procVars, bounds, vars
<1>1. CASE Users
  <2>1. UNCHANGED <<main, sTasks, sWorkers, clean>>
    BY <1>1 DEF Users, Submit, Cancel
  <2>2. ASSUME main = "recoverSlots" PROVE Repaired(tasks', sWorkers)
    <3>1. PICK t \in Tasks : Submit(t) \/ Cancel(t)
      BY <1>1 DEF Users
    <3>2. Repaired(tasks, sWorkers) /\ tasks \in Queue /\ sWorkers \in Roster
      BY <2>2 DEF RecoveryInv, IInv, TypeOK
    <3>3. /\ tasks'[t].status \in {"pending", "cancelled", "stopping"}
          /\ \A u \in Tasks \ {t} : tasks'[u] = tasks[u]
      BY <3>1, <3>2 DEF Submit, Cancel, Cancelling, Pending, Queue
    <3>4. \A w \in Slots : sWorkers[w] # NoTask => sWorkers[w] \in Tasks
      BY <3>2 DEF Roster
    <3> QED
      BY <3>2, <3>3, <3>4 DEF Repaired
  <2> QED
    BY <2>1, <2>2 DEF RecoveryInv, Up
<1>2. CASE Startup
  <2>1. CASE StartRepair
    <3>1. Repaired(sTasks', sWorkers')
      BY <2>1 DEF StartRepair, Repaired, OrphanTasks, OrphanSlots, Listed, Pending,
                  IInv, TypeOK, Queue, TaskRecord, Roster
    <3> QED
      BY <2>1, <3>1 DEF StartRepair, RecoveryInv, Up
  <2>2. CASE StartClean \/ RecoverWriteTasks \/ RecoverWriteSlots
    BY <2>2 DEF StartClean, RecoverWriteTasks, RecoverWriteSlots, StartLoops, RecoveryInv, Up
  <2> QED
    BY <1>2, <2>1, <2>2 DEF Startup
<1>3. CASE Scheduler
  BY <1>3 DEF Scheduler, SchedRead, SchedPlan, SchedWriteTasks, SchedWriteSlots, RecoveryInv, Up
<1>4. CASE Cleaner
  BY <1>4 DEF Cleaner, CleanRead, CleanWrite, RecoveryInv, Up
<1>5. CASE Pool
  <2>1. pool # "off" /\ Up
    BY <1>5 DEF Pool, PoolTick, CheckCancellations, Recording, FinRead, FinWrite, RelRead,
                RelWrite, Visit, Skip, Spawn, SpawnFails, Reap, AtSlot, CancelKill,
                IInv, PoolOffInv
  <2>2. UNCHANGED <<main, clean>>
    BY <1>5 DEF Pool, PoolTick, CheckCancellations, Recording, FinRead, FinWrite, RelRead,
                RelWrite, Visit, Skip, Spawn, SpawnFails, Reap, CancelKill
  <2> QED
    BY <2>1, <2>2 DEF RecoveryInv, Up
<1>6. CASE Processes
  BY <1>6 DEF Processes, OrphanExit, Exit, RecoveryInv, Up
<1>7. CASE Failures
  BY <1>7 DEF Failures, SchedFault, CleanFault, PoolFault, Crash, PoolDies, RecoveryInv, Up
<1>8. CASE UNCHANGED vars
  BY <1>8 DEF RecoveryInv, Up
<1> QED
  BY <1>1, <1>2, <1>3, <1>4, <1>5, <1>6, <1>7, <1>8 DEF Next

\* Whenever the loops start, after however many crashes in the middle of a recovery, no
\* running task names a missing slot and no slot a missing task.
THEOREM RecoveryDone == Spec => RecoveryRepairs
<1>1. Init => RecoveryInv
  BY DEF Init, RecoveryInv, Up
<1>2. ASSUME IInv, RecoveryInv, Next, ~Up, Up' PROVE Repaired(tasks', workers')
  <2>1. CASE StartClean
    BY <2>1 DEF StartClean, NothingToRepair, OrphanTasks, OrphanSlots, Listed, Repaired,
                IInv, TypeOK, Roster, files
  <2>2. CASE RecoverWriteSlots
    BY <1>2, <2>2 DEF RecoverWriteSlots, RecoveryInv, Repaired
  <2>3. StartClean \/ RecoverWriteSlots
    <3>1. main # "sleep" /\ pool = "off" /\ clean = "off"
      BY <1>2 DEF IInv, PoolOffInv, RecoveryInv, Up
    <3>2. ~Users /\ ~Scheduler /\ ~Cleaner /\ ~Processes
      BY <1>2, <3>1 DEF Users, Submit, Cancel, Scheduler, SchedRead, SchedPlan, SchedWriteTasks,
           SchedWriteSlots, Cleaner, CleanRead, CleanWrite, Processes, OrphanExit, Exit, Up,
           mainVars
    <3>3. ~Pool
      BY <3>1 DEF Pool, PoolTick, CheckCancellations, Recording, FinRead, FinWrite, RelRead,
           RelWrite, Visit, Skip, Spawn, SpawnFails, Reap, AtSlot, CancelKill
    <3>4. ~Failures
      BY <1>2, <3>1 DEF Failures, SchedFault, CleanFault, PoolFault, Crash, PoolDies, Up, AtSlot
    <3>5. ~StartRepair /\ ~RecoverWriteTasks
      BY <1>2 DEF StartRepair, RecoverWriteTasks, Up
    <3> QED
      BY <1>2, <3>2, <3>3, <3>4, <3>5 DEF Next, Startup
  <2> QED
    BY <2>1, <2>2, <2>3
<1>3. IInv /\ RecoveryInv /\ [Next]_vars => [~Up /\ Up' => Repaired(tasks', workers')]_vars
  BY <1>2
<1> QED
  BY <1>1, <1>3, RecoveryStep, Invariance, PTL DEF Spec, RecoveryRepairs

-----------------------------------------------------------------------------
(* Processes do not pile up.                                               *)

\* Live processes run in slots the pool serves, and every death of a pool leaves at most
\* one process for each of these slots behind.
OrphanInv ==
  /\ \A p \in live : p[1] \in PoolSlots
  /\ IsFiniteSet(orphans) /\ Cardinality(orphans) <= crashes * Cardinality(PoolSlots)

LEMMA PoolSlotsFinite == IsFiniteSet(PoolSlots) /\ Cardinality(PoolSlots) \in Nat
  BY SlotsAssumption, PoolAssumption, FS_Subset, FS_CardinalityType

\* There is at most one live process for each slot of the pool.
LEMMA LiveBounded ==
  ASSUME IInv, OrphanInv
  PROVE  IsFiniteSet(live) /\ Cardinality(live) \in Nat /\ Cardinality(live) <= Cardinality(PoolSlots)
<1> DEFINE f == [p \in live |-> p[1]]
<1>1. live \subseteq Slots \X Tasks
  BY DEF IInv, TypeOK
<1>2. \A p, q \in live : p[1] = q[1] => p = q
  <2> SUFFICES ASSUME NEW p \in live, NEW q \in live, p[1] = q[1] PROVE p = q
    OBVIOUS
  <2>1. p[2] = q[2]
    BY DEF IInv, LiveTracked
  <2>2. p \in Slots \X Tasks /\ q \in Slots \X Tasks
    BY <1>1
  <2> QED
    BY <2>1, <2>2
<1>3. f \in Injection(live, PoolSlots)
  <2>1. f \in [live -> PoolSlots]
    BY DEF OrphanInv
  <2>2. \A p, q \in live : f[p] = f[q] => p = q
    BY <1>2
  <2> QED
    BY <2>1, <2>2 DEF Injection, IsInjective
<1> QED
  BY <1>3, PoolSlotsFinite, FS_Injection, FS_CardinalityType

\* Every action keeps the number of orphans within its bound.
LEMMA OrphanStep == IInv /\ OrphanInv /\ [Next]_vars => OrphanInv'
<1> SUFFICES ASSUME IInv, OrphanInv, [Next]_vars PROVE OrphanInv'
  OBVIOUS
<1> DEFINE n == Cardinality(PoolSlots)
<1>1. n \in Nat /\ crashes \in Nat /\ Cardinality(orphans) \in Nat
  BY PoolSlotsFinite, BoundAssumption, FS_CardinalityType DEF OrphanInv, IInv, TypeOK
<1>2. CASE UNCHANGED <<orphans, crashes>> /\ live' \subseteq live
  BY <1>2 DEF OrphanInv
<1>3. ASSUME NEW w \in Slots, Spawn(w) PROVE OrphanInv'
  <2>1. w \in PoolSlots /\ live' = live \cup {<<w, snap[w]>>} /\ UNCHANGED <<orphans, crashes>>
    BY <1>3 DEF Spawn, AtSlot, IInv, TypeOK, bounds
  <2> QED
    BY <2>1 DEF OrphanInv
<1>4. CASE OrphanExit
  <2>1. orphans' \subseteq orphans /\ UNCHANGED <<live, crashes>>
    BY <1>4 DEF OrphanExit, bounds
  <2>2. IsFiniteSet(orphans') /\ Cardinality(orphans') \in Nat /\ Cardinality(orphans') <= Cardinality(orphans)
    BY <2>1, FS_Subset, FS_CardinalityType DEF OrphanInv
  <2>3. Cardinality(orphans) <= crashes * n /\ crashes * n \in Nat
    BY <1>1 DEF OrphanInv
  <2> HIDE DEF n
  <2>4. Cardinality(orphans') <= crashes * n
    BY <1>1, <2>2, <2>3
  <2> QED
    BY <2>1, <2>2, <2>4 DEF OrphanInv, n
<1>5. CASE Crash \/ PoolDies
  <2> DEFINE f == [p \in live |-> <<p[1], p[2], crashes'>>]
             new == {<<p[1], p[2], crashes'>> : p \in live}
  <2>1. live' = {} /\ orphans' \subseteq orphans \cup new /\ crashes' = crashes + 1
    BY <1>5 DEF Crash, PoolDies, LoseProcesses
  <2>a. IsFiniteSet(new) /\ Cardinality(new) \in Nat /\ Cardinality(new) <= Cardinality(live)
    <3>1. f \in [live -> new]
      OBVIOUS
    <3>2. \A t \in new : \E p \in live : f[p] = t
      OBVIOUS
    <3>3. f \in Surjection(live, new)
      <4> HIDE DEF f, new
      <4> QED
        BY <3>1, <3>2 DEF Surjection
    <3> HIDE DEF f, new
    <3> QED
      BY <3>3, LiveBounded, FS_Surjection, FS_CardinalityType
  <2> HIDE DEF f, new
  <2>2. /\ IsFiniteSet(orphans \cup new)
        /\ Cardinality(orphans \cup new)
             = Cardinality(orphans) + Cardinality(new) - Cardinality(orphans \cap new)
    BY <2>a, FS_Union DEF OrphanInv
  <2>3. Cardinality(orphans \cap new) \in Nat
    BY <2>a, FS_Subset, FS_CardinalityType
  <2>4. /\ IsFiniteSet(orphans') /\ Cardinality(orphans') \in Nat
        /\ Cardinality(orphans') <= Cardinality(orphans \cup new)
    BY <2>1, <2>2, FS_Subset, FS_CardinalityType
  <2>5. /\ Cardinality(orphans) <= crashes * n
        /\ Cardinality(live) \in Nat /\ Cardinality(live) <= n
    BY LiveBounded DEF OrphanInv
  <2> HIDE DEF n
  <2>6. crashes * n \in Nat /\ crashes' * n = crashes * n + n
    BY <1>1, <2>1
  <2>7. Cardinality(orphans') <= crashes' * n
    BY <1>1, <2>a, <2>2, <2>3, <2>4, <2>5, <2>6
  <2> QED
    BY <2>1, <2>4, <2>7 DEF OrphanInv, n
<1>6. ASSUME NEW w \in Slots, Visit(w) \/ CancelKill(w) PROVE OrphanInv'
  <2>1. Spawn(w) \/ (UNCHANGED <<orphans, crashes>> /\ live' \subseteq live)
    BY <1>6 DEF Visit, Skip, SpawnFails, Reap, CancelKill, Killed, procVars, bounds
  <2> QED
    BY <1>2, <1>3, <2>1
<1>7. CASE Users \/ Startup \/ Scheduler \/ Cleaner \/ UNCHANGED vars
  BY <1>2, <1>7 DEF Users, Submit, Cancel, Startup, StartClean, StartRepair, RecoverWriteTasks,
     RecoverWriteSlots, Scheduler, SchedRead, SchedPlan, SchedWriteTasks, SchedWriteSlots,
     Cleaner, CleanRead, CleanWrite, procVars, bounds, vars
<1>8. CASE PoolTick \/ CheckCancellations \/ Recording
  BY <1>2, <1>8 DEF PoolTick, CheckCancellations, Recording, FinRead, FinWrite, RelRead, RelWrite,
     procVars, bounds
<1>9. CASE \E w \in Slots, t \in Tasks : Exit(w, t)
  BY <1>2, <1>9 DEF Exit, bounds
<1>10. CASE SchedFault \/ CleanFault \/ PoolFault
  BY <1>2, <1>10 DEF SchedFault, CleanFault, PoolFault, procVars
<1> QED
  BY <1>4, <1>5, <1>6, <1>7, <1>8, <1>9, <1>10 DEF Next, Pool, Processes, Failures

\* worker_pool.py, _spawn: over any number of crashes of the bot and of its pool, the CLI
\* processes, each one counted with the crash it outlived, do not exceed one for each
\* served slot and each pool there has been.
THEOREM ProcessesCounted == Spec => []ProcessesBounded
<1>1. Init => OrphanInv
  BY FS_EmptySet, PoolSlotsFinite DEF Init, OrphanInv
<1>2. IInv /\ OrphanInv => ProcessesBounded
  <2> SUFFICES ASSUME IInv, OrphanInv PROVE ProcessesBounded
    OBVIOUS
  <2> DEFINE n == Cardinality(PoolSlots)
  <2>1. n \in Nat /\ crashes \in Nat /\ Cardinality(orphans) \in Nat
    BY PoolSlotsFinite, BoundAssumption, FS_CardinalityType DEF OrphanInv, IInv, TypeOK
  <2>2. /\ Cardinality(orphans) <= crashes * n
        /\ Cardinality(live) \in Nat /\ Cardinality(live) <= n
    BY LiveBounded DEF OrphanInv
  <2> HIDE DEF n
  <2>3. (1 + crashes) * n = crashes * n + n /\ crashes * n \in Nat
    BY <2>1
  <2>4. Cardinality(live) + Cardinality(orphans) <= (1 + crashes) * n
    BY <2>1, <2>2, <2>3
  <2> QED
    BY <2>4 DEF ProcessesBounded, n
<1> QED
  BY <1>1, <1>2, OrphanStep, Invariance, PTL DEF Spec
=============================================================================
