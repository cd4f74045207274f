------------------------------ MODULE TaskQueue ------------------------------
(***************************************************************************)
(* The worker side of agent-qq: two JSON files shared by three loops.      *)
(*                                                                         *)
(*   data/task_queue.json    the list of queued tasks       -> tasks       *)
(*   data/worker_state.json  the task each worker slot owns -> workers     *)
(*                                                                         *)
(*   TaskScheduler (thread)   hands unclaimed tasks to idle slots          *)
(*   TaskCleaner   (thread)   drops expired terminal tasks                 *)
(*   WorkerPool    (process)  runs one Claude CLI process per busy slot    *)
(*   run_recovery             repairs both files before the loops start    *)
(*                                                                         *)
(* StorageManager makes each read and each write of a file atomic, but no  *)
(* lock spans a read-modify-write.  One action here is therefore one       *)
(* storage call (or a run of steps that touches no file), and what a loop  *)
(* read earlier stays in its own snapshot variables until it writes.       *)
(*                                                                         *)
(* A slot of worker_state.json is the task it names, or NoTask: every      *)
(* write of the code sets "status" and "task" together (busy with a task,  *)
(* idle without one).  Tasks and slots are numbers: tasks in queue order,  *)
(* slots in the order of their sorted names W1, W2, ...                    *)
(***************************************************************************)
EXTENDS Naturals, FiniteSets

CONSTANTS
  Tasks,       \* ids a queued task may have, in the order they are queued
  Slots,       \* the keys of worker_state.json
  PoolSlots,   \* the slots the pool of this run serves, W1 .. WORKER_POOL_SIZE
  GoneSlots,   \* slots an old queue may name that worker_state.json has not
  MaxCrashes,  \* bound on crashes and kills of the bot or of its pool
  MaxFaults    \* bound on storage calls that raise

ASSUME TasksAssumption == Tasks \subseteq Nat \ {0} /\ IsFiniteSet(Tasks)
ASSUME SlotsAssumption == Slots \subseteq Nat \ {0} /\ IsFiniteSet(Slots)
ASSUME PoolAssumption  == PoolSlots \subseteq Slots
ASSUME GoneAssumption  == GoneSlots \subseteq Nat \ {0} /\ GoneSlots \cap Slots = {}
ASSUME BoundAssumption == MaxCrashes \in Nat /\ MaxFaults \in Nat

VARIABLES
  tasks,      \* task_queue.json: [Tasks -> TaskRecord], absent when not listed
  workers,    \* worker_state.json: the task each slot is busy with
  submitted,  \* ids the producer has already used
  main,       \* control of the main process: startup, recovery, scheduler loop
  sTasks, sWorkers,     \* what the scheduler (or recovery) holds and will write
  clean, cTasks,        \* control of the cleaner and the list it will write
  pool,       \* control of the worker pool process
  snap,       \* worker state read at the start of the tick (_tick's workers)
  visit,      \* slots this tick has still to look at
  cancels,    \* slots whose process this tick has still to cancel
  job,        \* the finished, failed or cancelled run being recorded
  pTasks, pWorkers,     \* what _finalize_task and _release_worker have read
  procs,      \* WorkerPool._processes: the task whose process a slot holds
  exit,       \* how the process of a slot ended, as poll() would tell
  live,       \* <<slot, task>> of every running process this pool started
  orphans,    \* <<slot, task, n>> of processes that outlived their pool, which died
              \* in the n-th crash: one each, whatever slot and task they share
  crashes, faults

files     == <<tasks, workers>>
mainVars  == <<main, sTasks, sWorkers>>
cleanVars == <<clean, cTasks>>
tickVars  == <<snap, visit, cancels, job, pTasks, pWorkers>>
procVars  == <<procs, exit, live, orphans>>
bounds    == <<submitted, crashes, faults>>
vars == <<files, mainVars, cleanVars, pool, tickVars, procVars, bounds>>

NoTask == 0
NoSlot == 0

Terminal  == {"completed", "cancelled", "exception"}    \* TaskCleaner.SAFE_STATES
Cancelling == {"cancelled", "stopping"}                 \* what the pool kills for
Status    == Terminal \cup {"absent", "pending", "running", "stopping"}

TaskRecord == [status : Status, worker : Slots \cup GoneSlots \cup {NoSlot}]
Absent     == [status |-> "absent", worker |-> NoSlot]
Pending    == [status |-> "pending", worker |-> NoSlot]

Queue  == [Tasks -> TaskRecord]
Roster == [Slots -> Tasks \cup {NoTask}]
NoQueue  == [t \in Tasks |-> Absent]
AllIdle  == [w \in Slots |-> NoTask]
NoJob    == [slot |-> NoSlot, task |-> NoTask, status |-> "absent"]
Jobs     == [slot : Slots, task : Tasks, status : Terminal] \cup {NoJob}

Up == main \in {"sleep", "gotTasks", "writeTasks", "writeSlots"}

-----------------------------------------------------------------------------
(* What the loops compute from what they read.                             *)

Listed(q) == {t \in Tasks : q[t].status # "absent"}

\* _schedule: tasks nobody has claimed, and slots nobody holds.
\* Mutation: pending tasks are overlooked
Unclaimed_RunningOnly(q) == {t \in Tasks : q[t].status = "running" /\ q[t].worker = NoSlot}
Unclaimed(q) == {t \in Tasks : q[t].status \in {"pending", "running"} /\ q[t].worker = NoSlot}
\* Mutation: the idle filter is dropped
IdleSlots_NoFilter(ws) == Slots
IdleSlots(ws) == {w \in Slots : ws[w] = NoTask}

\* The position of x in S: the k-th unclaimed task pops the k-th idle slot.
Rank(x, S) == Cardinality({y \in S : y < x})
Matching(q, ws) ==
  {m \in Unclaimed(q) \X IdleSlots(ws) :
     Rank(m[1], Unclaimed(q)) = Rank(m[2], IdleSlots(ws))}

ClaimTasks(q, ms) ==
  [t \in Tasks |-> IF \E m \in ms : m[1] = t
                   THEN [status |-> "running", worker |-> (CHOOSE m \in ms : m[1] = t)[2]]
                   ELSE q[t]]
ClaimSlots(ws, ms) ==
  [w \in Slots |-> IF \E m \in ms : m[2] = w
                   THEN (CHOOSE m \in ms : m[2] = w)[1]
                   ELSE ws[w]]

\* run_recovery: a running task without a worker of the file is pending again,
\* a slot whose task is not in the queue is idle again.
\* Mutation: a worker the file does not have passes for one
OrphanTasks_NoneOnly(q) == {t \in Tasks : q[t].status = "running" /\ q[t].worker = NoSlot}
OrphanTasks(q) == {t \in Tasks : q[t].status = "running" /\ q[t].worker \notin Slots}
OrphanSlots(q, ws) == {w \in Slots : ws[w] # NoTask /\ ws[w] \notin Listed(q)}

\* _finalize_task and _release_worker, applied to what was read.
Finalized(q, t, s) ==
  IF t \in Listed(q) THEN [q EXCEPT ![t] = [status |-> s, worker |-> NoSlot]] ELSE q
Released(ws, w) == [ws EXCEPT ![w] = NoTask]

\* del self._processes[wid]
\* Mutation: the process stays in _processes
Forgotten_Not(ps, w) == ps
Forgotten(ps, w) == [ps EXCEPT ![w] = NoTask]

-----------------------------------------------------------------------------
(* Initial states: worker_state.json as run_forever creates it, and a      *)
(* queue that is empty, freshly filled, or left by an older deployment     *)
(* whose slots no longer exist.                                            *)

OldTask == {[status |-> "running", worker |-> g] : g \in GoneSlots}

Init ==
  /\ tasks \in [Tasks -> {Absent, Pending} \cup OldTask]
  /\ workers = AllIdle
  /\ submitted = Listed(tasks)
  /\ main = "down" /\ sTasks = NoQueue /\ sWorkers = AllIdle
  /\ clean = "off" /\ cTasks = NoQueue
  /\ pool = "off" /\ snap = AllIdle /\ visit = {} /\ cancels = {} /\ job = NoJob
  /\ pTasks = NoQueue /\ pWorkers = AllIdle
  /\ procs = AllIdle /\ exit = [w \in Slots |-> "none"]
  /\ live = {} /\ orphans = {}
  /\ crashes = 0 /\ faults = 0

-----------------------------------------------------------------------------
(* The users of the queue.  Nothing in src/ appends to task_queue.json or  *)
(* marks a queued task for cancellation; the status names the pool looks   *)
(* for say what such a writer does.                                        *)

Submit(t) ==
  /\ t \notin Listed(tasks)
  /\ \A s \in submitted : s < t
  /\ tasks' = [tasks EXCEPT ![t] = Pending]
  /\ submitted' = submitted \cup {t}
  /\ UNCHANGED <<workers, mainVars, cleanVars, pool, tickVars, procVars, crashes, faults>>

Cancel(t) ==
  /\ tasks[t].status \in {"pending", "running"}
  /\ \E s \in Cancelling :
       tasks' = [tasks EXCEPT ![t] = [status |-> s, worker |-> tasks[t].worker]]
  /\ UNCHANGED <<workers, mainVars, cleanVars, pool, tickVars, procVars, bounds>>

-----------------------------------------------------------------------------
(* run_forever: recovery first, then pool, scheduler and cleaner start.    *)

DropMain == sTasks' = NoQueue /\ sWorkers' = AllIdle

StartLoops == main' = "sleep" /\ pool' = "sleep" /\ clean' = "sleep"

NothingToRepair == OrphanTasks(tasks) = {} /\ OrphanSlots(tasks, workers) = {}

StartClean ==
  /\ main = "down" /\ NothingToRepair
  /\ StartLoops
  /\ UNCHANGED <<files, sTasks, sWorkers, cTasks, tickVars, procVars, bounds>>

StartRepair ==
  /\ main = "down" /\ ~NothingToRepair
  /\ main' = "recoverTasks"
  /\ sTasks' = [t \in Tasks |-> IF t \in OrphanTasks(tasks) THEN Pending ELSE tasks[t]]
  /\ sWorkers' = [w \in Slots |-> IF w \in OrphanSlots(tasks, workers)
                                  THEN NoTask ELSE workers[w]]
  /\ UNCHANGED <<files, cleanVars, pool, tickVars, procVars, bounds>>

RecoverWriteTasks ==
  /\ main = "recoverTasks"
  /\ main' = "recoverSlots"
  /\ tasks' = sTasks
  /\ UNCHANGED <<workers, sTasks, sWorkers, cleanVars, pool, tickVars, procVars, bounds>>

RecoverWriteSlots ==
  /\ main = "recoverSlots"
  /\ workers' = sWorkers
  /\ StartLoops /\ DropMain
  /\ UNCHANGED <<tasks, cTasks, tickVars, procVars, bounds>>

-----------------------------------------------------------------------------
(* TaskScheduler._schedule: read, read, assign, write, write.              *)

SchedRead ==
  /\ main = "sleep"
  /\ Unclaimed(tasks) # {}
  /\ main' = "gotTasks"
  /\ sTasks' = tasks
  /\ UNCHANGED <<files, sWorkers, cleanVars, pool, tickVars, procVars, bounds>>

SchedPlan ==
  /\ main = "gotTasks"
  /\ LET ms == Matching(sTasks, workers) IN
       IF ms = {}
       THEN main' = "sleep" /\ DropMain
       ELSE /\ main' = "writeTasks"
            /\ sTasks' = ClaimTasks(sTasks, ms)
            /\ sWorkers' = ClaimSlots(workers, ms)
  /\ UNCHANGED <<files, cleanVars, pool, tickVars, procVars, bounds>>

SchedWriteTasks ==
  /\ main = "writeTasks"
  /\ main' = "writeSlots"
  /\ tasks' = sTasks
  /\ UNCHANGED <<workers, sTasks, sWorkers, cleanVars, pool, tickVars, procVars, bounds>>

SchedWriteSlots ==
  /\ main = "writeSlots"
  /\ main' = "sleep"
  /\ workers' = sWorkers
  /\ DropMain
  /\ UNCHANGED <<tasks, cleanVars, pool, tickVars, procVars, bounds>>

\* A storage call of the cycle raises; start() logs it and begins the next one.
SchedFault ==
  /\ main \in {"gotTasks", "writeTasks", "writeSlots"}
  /\ faults < MaxFaults /\ faults' = faults + 1
  /\ main' = "sleep" /\ DropMain
  /\ UNCHANGED <<files, cleanVars, pool, tickVars, procVars, submitted, crashes>>

-----------------------------------------------------------------------------
(* TaskCleaner._clean: which terminal tasks are old enough is left open.   *)

CleanRead ==
  /\ clean = "sleep"
  /\ \E old \in SUBSET {t \in Tasks : tasks[t].status \in Terminal} \ {{}} :
       cTasks' = [t \in Tasks |-> IF t \in old THEN Absent ELSE tasks[t]]
  /\ clean' = "write"
  /\ UNCHANGED <<files, mainVars, pool, tickVars, procVars, bounds>>

CleanWrite ==
  /\ clean = "write"
  /\ clean' = "sleep"
  /\ tasks' = cTasks
  /\ cTasks' = NoQueue
  /\ UNCHANGED <<workers, mainVars, pool, tickVars, procVars, bounds>>

CleanFault ==
  /\ clean = "write"
  /\ faults < MaxFaults /\ faults' = faults + 1
  /\ clean' = "sleep" /\ cTasks' = NoQueue
  /\ UNCHANGED <<files, mainVars, pool, tickVars, procVars, submitted, crashes>>

-----------------------------------------------------------------------------
(* WorkerPool._tick: one pass over the slots W1 .. Wn, on the worker state *)
(* read at its start, then the cancellations.                              *)

\* Mutation: range(1, n) instead of range(1, n + 1)
Served_OffByOne == {w \in PoolSlots : \E v \in PoolSlots : w < v}
Served == PoolSlots

PoolTick ==
  /\ pool = "sleep"
  /\ pool' = "visit"
  /\ snap' = workers
  /\ visit' = Served
  /\ UNCHANGED <<files, mainVars, cleanVars, cancels, job, pTasks, pWorkers, procVars, bounds>>

AtSlot(w) == pool = "visit" /\ w \in visit /\ \A v \in visit : w <= v

MustSpawn(w) == snap[w] # NoTask /\ procs[w] = NoTask
MustReap(w)  == snap[w] = NoTask /\ procs[w] # NoTask
\* Mutation: a run that failed does not count as ended
Exited_OkOnly(w) == exit[w] = "ok"
Exited(w)    == exit[w] # "none"

\* Nothing to do for w, its task has left the queue, or its process still runs.
Skip(w) ==
  /\ AtSlot(w)
  /\ IF MustSpawn(w) THEN snap[w] \notin Listed(tasks)
                     ELSE MustReap(w) => ~Exited(w)
  /\ visit' = visit \ {w}
  /\ UNCHANGED <<files, mainVars, cleanVars, pool, snap, cancels, job, pTasks, pWorkers,
                 procVars, bounds>>

\* _spawn: any status will do, the task only has to be listed.
Spawn(w) ==
  /\ AtSlot(w)
  /\ MustSpawn(w) /\ snap[w] \in Listed(tasks)
  /\ procs' = [procs EXCEPT ![w] = snap[w]]
  /\ exit' = [exit EXCEPT ![w] = "none"]
  /\ live' = live \cup {<<w, snap[w]>>}
  /\ visit' = visit \ {w}
  /\ UNCHANGED <<files, mainVars, cleanVars, pool, snap, cancels, job, pTasks, pWorkers,
                 orphans, bounds>>

\* From here to RelWrite: _finalize_task, _release_worker, del _processes.
Record(w, t, status) ==
  /\ pool' = "finRead"
  /\ job' = [slot |-> w, task |-> t, status |-> status]

\* _spawn: Popen raised.
SpawnFails(w) ==
  /\ AtSlot(w)
  /\ MustSpawn(w) /\ snap[w] \in Listed(tasks)
  /\ Record(w, snap[w], "exception")
  /\ visit' = visit \ {w}
  /\ UNCHANGED <<files, mainVars, cleanVars, snap, cancels, pTasks, pWorkers, procVars, bounds>>

\* _cleanup_worker: reached only for a slot the file shows idle.
Reap(w) ==
  /\ AtSlot(w)
  /\ MustReap(w) /\ Exited(w)
  /\ Record(w, procs[w], IF exit[w] = "ok" THEN "completed" ELSE "exception")
  /\ visit' = visit \ {w}
  /\ UNCHANGED <<files, mainVars, cleanVars, snap, cancels, pTasks, pWorkers, procVars, bounds>>

\* Slots whose task is marked in q, and what remains live when w is killed.
\* Mutation: only "stopping" is looked for
Marked_StoppingOnly(q) == {w \in Slots : procs[w] # NoTask /\ q[procs[w]].status = "stopping"}
Marked(q) == {w \in Slots : procs[w] # NoTask /\ q[procs[w]].status \in Cancelling}
\* Mutation: the process is not killed
Killed_Not(w) == live
Killed(w) == live \ {<<w, procs[w]>>}

CheckCancellations ==
  /\ pool = "visit" /\ visit = {}
  /\ cancels' = Marked(tasks)
  /\ pool' = IF cancels' = {} THEN "sleep" ELSE "cancel"
  /\ snap' = AllIdle
  /\ UNCHANGED <<files, mainVars, cleanVars, visit, job, pTasks, pWorkers, procVars, bounds>>

\* _kill_process_group returns when the process is gone, or was already.
CancelKill(w) ==
  /\ pool = "cancel" /\ w \in cancels
  /\ live' = Killed(w)
  /\ exit' = [exit EXCEPT ![w] = IF Exited(w) THEN @ ELSE "failed"]
  /\ cancels' = cancels \ {w}
  /\ Record(w, procs[w], "cancelled")
  /\ UNCHANGED <<files, mainVars, cleanVars, snap, visit, pTasks, pWorkers, procs, orphans,
                 bounds>>

FinRead ==
  /\ pool = "finRead"
  /\ pool' = "finWrite"
  /\ pTasks' = tasks
  /\ UNCHANGED <<files, mainVars, cleanVars, snap, visit, cancels, job, pWorkers, procVars, bounds>>

FinWrite ==
  /\ pool = "finWrite"
  /\ pool' = "relRead"
  /\ tasks' = Finalized(pTasks, job.task, job.status)
  /\ pTasks' = NoQueue
  /\ UNCHANGED <<workers, mainVars, cleanVars, snap, visit, cancels, job, pWorkers, procVars,
                 bounds>>

RelRead ==
  /\ pool = "relRead"
  /\ pool' = "relWrite"
  /\ pWorkers' = workers
  /\ UNCHANGED <<files, mainVars, cleanVars, snap, visit, cancels, job, pTasks, procVars, bounds>>

RelWrite ==
  /\ pool = "relWrite"
  /\ pool' = IF job.status # "cancelled" THEN "visit"
             ELSE IF cancels = {} THEN "sleep" ELSE "cancel"
  /\ workers' = Released(pWorkers, job.slot)
  /\ procs' = Forgotten(procs, job.slot)
  /\ exit' = [exit EXCEPT ![job.slot] = "none"]
  /\ job' = NoJob /\ pWorkers' = AllIdle
  /\ UNCHANGED <<tasks, mainVars, cleanVars, snap, visit, cancels, pTasks, live, orphans, bounds>>

DropTick ==
  /\ snap' = AllIdle /\ visit' = {} /\ cancels' = {} /\ job' = NoJob
  /\ pTasks' = NoQueue /\ pWorkers' = AllIdle

\* A storage call of the tick raises: the rest of the tick is abandoned.
PoolFault ==
  /\ \/ pool \in {"finRead", "finWrite", "relRead", "relWrite"}
     \/ pool = "visit" /\ visit = {}
     \/ \E w \in visit : AtSlot(w) /\ MustSpawn(w)
  /\ faults < MaxFaults /\ faults' = faults + 1
  /\ pool' = "sleep" /\ DropTick
  /\ UNCHANGED <<files, mainVars, cleanVars, procVars, submitted, crashes>>

-----------------------------------------------------------------------------
(* Processes end, and the bot or its pool process dies.                    *)

Exit(w, t) ==
  /\ <<w, t>> \in live
  /\ live' = live \ {<<w, t>>}
  /\ \E e \in {"ok", "failed"} :
       exit' = [exit EXCEPT ![w] = IF procs[w] = t THEN e ELSE @]
  /\ UNCHANGED <<files, mainVars, cleanVars, pool, tickVars, procs, orphans, bounds>>

OrphanExit ==
  /\ \E p \in orphans : orphans' = orphans \ {p}
  /\ UNCHANGED <<files, mainVars, cleanVars, pool, tickVars, procs, exit, live, bounds>>

\* Each CLI process leads a process group of its own and may outlive its pool.
LoseProcesses ==
  /\ procs' = AllIdle
  /\ exit' = [w \in Slots |-> "none"]
  /\ live' = {}
  /\ \E s \in SUBSET live : orphans' = orphans \cup {<<p[1], p[2], crashes'>> : p \in s}

Crash ==
  /\ main # "down"
  /\ crashes < MaxCrashes /\ crashes' = crashes + 1
  /\ main' = "down" /\ DropMain
  /\ clean' = "off" /\ cTasks' = NoQueue
  /\ pool' = "off" /\ DropTick
  /\ LoseProcesses
  /\ UNCHANGED <<files, submitted, faults>>

\* The pool process alone dies; run_forever never looks at it again.
PoolDies ==
  /\ pool # "off"
  /\ crashes < MaxCrashes /\ crashes' = crashes + 1
  /\ pool' = "off" /\ DropTick
  /\ LoseProcesses
  /\ UNCHANGED <<files, mainVars, cleanVars, submitted, faults>>

-----------------------------------------------------------------------------
Users      == \E t \in Tasks : Submit(t) \/ Cancel(t)
Startup    == StartClean \/ StartRepair \/ RecoverWriteTasks \/ RecoverWriteSlots
Scheduler  == SchedRead \/ SchedPlan \/ SchedWriteTasks \/ SchedWriteSlots
Cleaner    == CleanRead \/ CleanWrite
Visit(w)   == Skip(w) \/ Spawn(w) \/ SpawnFails(w) \/ Reap(w)
Recording  == FinRead \/ FinWrite \/ RelRead \/ RelWrite
Pool       == PoolTick \/ CheckCancellations \/ Recording
              \/ \E w \in Slots : Visit(w) \/ CancelKill(w)
Processes  == OrphanExit \/ \E w \in Slots, t \in Tasks : Exit(w, t)
Failures   == SchedFault \/ CleanFault \/ PoolFault \/ Crash \/ PoolDies

Next == Users \/ Startup \/ Scheduler \/ Cleaner \/ Pool \/ Processes \/ Failures

Spec == Init /\ [][Next]_vars

(* Both loops run for ever, so each keeps taking its steps; the cleaner    *)
(* finishes a write it began.  Nobody promises that the bot is started     *)
(* again, that a CLI process ends, or that anything is submitted.          *)
FairSpec == Spec /\ WF_vars(Scheduler) /\ WF_vars(Pool) /\ WF_vars(CleanWrite)

-----------------------------------------------------------------------------
(* Type invariant: every variable, and what the control points say about   *)
(* the locals that are alive there.                                        *)

Recordings == {"finRead", "finWrite", "relRead", "relWrite"}
Holding    == main \in {"writeTasks", "writeSlots", "recoverTasks", "recoverSlots"}

TypeOK ==
  /\ tasks \in Queue /\ sTasks \in Queue /\ cTasks \in Queue /\ pTasks \in Queue
  /\ workers \in Roster /\ sWorkers \in Roster /\ pWorkers \in Roster
  /\ snap \in Roster /\ procs \in Roster
  /\ submitted \subseteq Tasks
  /\ main \in {"down", "recoverTasks", "recoverSlots",
               "sleep", "gotTasks", "writeTasks", "writeSlots"}
  /\ clean \in {"off", "sleep", "write"}
  /\ pool \in {"off", "sleep", "visit", "cancel"} \cup Recordings
  /\ visit \subseteq PoolSlots /\ cancels \subseteq Slots
  /\ job \in Jobs /\ (job # NoJob <=> pool \in Recordings)
  /\ exit \in [Slots -> {"none", "ok", "failed"}]
  /\ live \subseteq Slots \X Tasks /\ orphans \subseteq Slots \X Tasks \X (1 .. MaxCrashes)
  /\ crashes \in 0 .. MaxCrashes /\ faults \in 0 .. MaxFaults

(***************************************************************************)
(* Safety.  The four writers of worker_state.json overwrite each other     *)
(* from stale copies, so what follows is not obvious of any of them.       *)
(***************************************************************************)

\* A slot that holds a process is shown busy with that process's task, although the
\* scheduler and _release_worker rewrite the whole of worker_state.json.
SlotKeepsItsTask == \A w \in Slots : procs[w] # NoTask => workers[w] = procs[w]

\* No CLI process of this pool is ever out of reach of a cancellation: whatever faults
\* and stale writes occur, _processes knows each one under the slot it runs in.
LiveTracked == \A p \in live : procs[p[1]] = p[2]

\* _cleanup_worker is reached only for a slot shown idle, and a slot is shown idle only
\* when its process is gone: the branch that records a finished run cannot be taken.
CleanupUnreachable == \A w \in Slots : AtSlot(w) => ~MustReap(w)

\* What follows for the queue: no run that succeeds is ever recorded as completed.
NeverCompleted == \A t \in Tasks : tasks[t].status # "completed"

(***************************************************************************)
(* The inductive invariant.  Within(a, b, S): the slots of S that a      *)
(* shows busy are busy with the same task in b.                            *)
(***************************************************************************)
Within(a, b, S) == \A w \in S : a[w] # NoTask => b[w] = a[w]

\* _processes is within the file, the file within what the scheduler will write, and
\* within what _release_worker has read as far as the rest of the tick relies on it.
RosterInv ==
  /\ Within(procs, workers, Slots)
  /\ Holding /\ Up => Within(workers, sWorkers, Slots)
  /\ pool = "relWrite" => Within(pWorkers, workers, Slots) /\ Within(procs, pWorkers, Slots)

\* The slots of the tick still to be visited look as they did when it began.
TickInv ==
  /\ Within(snap, workers, visit)
  /\ Within(procs, snap, visit)
  /\ pool = "relWrite" => Within(snap, pWorkers, visit)
  /\ pool \in {"off", "sleep", "cancel"} => visit = {}

\* The slot being recorded has no live process and is out of the tick's way, and the
\* visits of a tick are over before its cancellations begin.
JobInv ==
  /\ job # NoJob => /\ job.slot \notin visit \cup cancels
                    /\ job.task # NoTask
                    /\ \A p \in live : p[1] # job.slot
                    /\ job.status # "completed"
                    /\ IF job.status = "cancelled" THEN visit = {} ELSE cancels = {}
  /\ \A w \in cancels : procs[w] # NoTask
  /\ pool \in {"off", "sleep", "visit"} => cancels = {}

\* A pool that does not run holds nothing.
PoolOffInv ==
  /\ ~Up => pool = "off"
  /\ pool = "off" => procs = AllIdle /\ live = {}

\* No copy of the queue, in the file or held by a loop, has a completed task.
Incomplete(q) == \A t \in Tasks : q[t].status # "completed"
QueueInv == Incomplete(tasks) /\ Incomplete(sTasks) /\ Incomplete(cTasks) /\ Incomplete(pTasks)

\* The inductive invariant behind the four safety properties above.
IInv == TypeOK /\ LiveTracked /\ RosterInv /\ TickInv /\ JobInv /\ PoolOffInv /\ QueueInv

(***************************************************************************)
(* Action properties and refinement                                        *)
(***************************************************************************)

\* What run_recovery repairs, and where it stands in doing so.
Repaired(q, ws) ==
  /\ \A t \in Tasks : q[t].status = "running" => q[t].worker \in Slots
  /\ \A w \in Slots : ws[w] # NoTask => q[ws[w]].status # "absent"
RecoveryInv ==
  /\ main = "recoverTasks" => Repaired(sTasks, sWorkers)
  /\ main = "recoverSlots" => Repaired(tasks, sWorkers)
  /\ ~Up => clean = "off"

\* run_recovery: when the loops start, no running task names a slot the file does not
\* have and no slot names a task the queue does not have, also when a crash cut an
\* earlier recovery between its two writes.
RecoveryRepairs == [][~Up /\ Up' => Repaired(tasks', workers')]_vars

\* The process that runs in slot w.
Running == [w \in Slots |-> IF \E p \in live : p[1] = w
                            THEN (CHOOSE p \in live : p[1] = w)[2] ELSE NoTask]

Lease == INSTANCE SlotLease WITH holder <- workers, running <- Running

\* worker_state.json is a lease table for the CLI processes: SlotLease is implemented.
ImplementsLease == Lease!LeaseSpec

\* A CLI process outlives a pool that is killed, and the next pool starts another one for
\* the same slot: every pool adds at most one process for each slot it serves.
ProcessesBounded ==
  Cardinality(live) + Cardinality(orphans) <= (1 + crashes) * Cardinality(PoolSlots)

(***************************************************************************)
(* Liveness, under FairSpec                                                *)
(***************************************************************************)

\* A task that stays marked for cancellation ends up without a process for good.
CancelKills ==
  \A t \in Tasks : <>[](tasks[t].status \in {"cancelled", "stopping"})
                   => <>[](\A p \in live : p[2] # t)

\* A slot the pool serves that stays busy with a listed task is given a process.
BusyGetsProcess ==
  \A w \in PoolSlots, t \in Tasks :
    workers[w] = t ~> \/ procs[w] = t \/ workers[w] # t
                      \/ tasks[t].status = "absent" \/ pool = "off"

\* A task that waits unclaimed while a slot is idle does not wait for ever.
PendingNotStarved ==
  \A t \in Tasks, w \in Slots :
    []<>~(main # "down" /\ tasks[t].status = "pending" /\ workers[w] = NoTask)

(***************************************************************************)
(* What the documents say, and the code does not do                        *)
(***************************************************************************)

\* docs/DEPLOY.md 9.2: when the CLI ends, the pool releases the worker to idle.
FinishedWorkerReleased ==
  \A w \in PoolSlots : procs[w] # NoTask /\ exit[w] # "none" ~> workers[w] = NoTask

\* docs/DEPLOY.md: the storage layer makes the JSON files safe across processes; a task
\* put into the queue would then leave it only in a terminal state.
SubmittedNotLost ==
  [][\A t \in Tasks : tasks[t].status \in {"pending", "running", "stopping"}
                      => tasks'[t].status # "absent"]_vars
=============================================================================
