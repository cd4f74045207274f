# agent-qq: TLA+ models, checks and proofs

agent-qq is a QQ bot that drives the Claude CLI. A user sends `/plan`,
`/plan-start`, `/shell`, `/stop`, `/status`, ... over a OneBot WebSocket; the bot
runs Claude CLI processes and answers. Its state is in JSON files under `data/`,
shared by coroutines, threads, a worker process and hook processes, and in a
registry in memory. This directory models that state and the steps that change
it, checks the models with TLC and proves their main invariants with TLAPS.

| module | what it is |
| --- | --- |
| `TaskQueue` | scheduler, cleaner, worker pool and startup recovery over `task_queue.json` and `worker_state.json` |
| `SlotLease` | what a worker slot promises, without files or loops; `TaskQueue` implements it |
| `MCTaskQueue` | `TaskQueue` and an operator who edits `worker_state.json` |
| `TaskQueueProofs` | theorems about `TaskQueue` |
| `PlanMachine` | `/plan`, `/plan-start`, `/plan-cancel` over `pending_plan.json` and `plan_history.json` |
| `PlanDesk` | what the plan commands promise, without files, handlers or rotation; `PlanMachine` implements it |
| `PlanMachineProofs` | theorems about `PlanMachine` |
| `TaskTracking` | CLI runs of commands: coroutine, registry, status log, process, `/stop`, breaker, monitor |
| `TaskTrackingProofs` | theorems about `TaskTracking` |
| `Notifications` | the hook processes and monitors of one Claude session over its session file and its lock |
| `NotificationsProofs` | theorems about `Notifications` |
| `GlobalLimits` | the limits over all sessions and recipients over `global.json` |
| `MCGlobalLimits` | `GlobalLimits` with its symmetry |
| `GlobalLimitsProofs` | theorems about `GlobalLimits` |
| `Dispatch` | connections, message delivery, the deduplicator, replies and notices |
| `Delivery` | what the bot promises to those who send it messages, without connections or coroutines; `Dispatch` implements it |
| `DispatchProofs` | theorems about `Dispatch` |

`PROJECT.json` holds the components, the runs, the source lines of every
definition, the findings, the hazards and the theorems.


## 1. Inventory

| component (`src/`) | state | operations | talks to |
| --- | --- | --- | --- |
| Bot main loop `bot.py` | connection, tasks of the event loop | startup order, loops, reconnect, event handling | starts everything else |
| OneBot client `qq_client.py` | WebSocket, request ids | connect, listen, send | bot, router |
| Command router `command_router.py` | deduplicator | the commands, `_run_tracked` | plan machine, registry, breaker, CLI client |
| Plan state machine `plan_state.py` | `pending_plan.json`, `plan_history.json`, id counter | create, confirm, cancel, result, rollback, rotation | router, breaker |
| Claude CLI client `claude_client.py` | one process per call | spawn, communicate with timeout, SIGTERM/SIGKILL | router |
| Task registry `task_registry.py` | tasks in memory, id counter | create, finish, stop, mark_exception | router, status log |
| Task status log `task_status_log.py` | `task_status_log.json` | append, update, clean up | registry, monitor |
| Circuit breaker `circuit_breaker.py` | open flag, network counter | check answers, errors and health; trip; rollback | router, monitor, plan machine |
| Task monitor `task_monitor.py` | none | poll the status log, trip for late entries | breaker, status log |
| Log rotator `log_rotator.py` | none | cleanup at startup | status log |
| Task scheduler `task_scheduler.py` | thread | claim tasks for idle slots | both queue files |
| Task cleaner `task_cleaner.py` | thread | drop expired terminal tasks | `task_queue.json` |
| Worker pool `worker_pool.py` | process; its CLI processes | tick: spawn, clean up, cancel, record | both queue files |
| Startup recovery `task_recovery.py` | none | repair orphan tasks and slots | both queue files |
| Storage manager `storage_manager.py` | file locks | atomic read, atomic write | all queue users |
| Notification service `notifications/service.py`, `scripts/claude_notify_hook.py` | one process per event, one monitor per session | start, stage, success, failure, stop, monitor, send | the files, OneBot |
| Notification state and limiter `notifications/state.py`, `limiter.py` | session, global and lock files | read, write, acquire, refresh, release, expire; budget, cooldowns, limits | service |
| Configuration, service scripts, test scripts, reserved interfaces | | | |

Where it is hard, and what makes each part correct:

* **Queue side.** Three loops in two processes rewrite whole files from copies
  that are some steps old; a lock covers one read or one write, never the pair.
  A tick decides for all slots on the worker state read at its start. Claims,
  recoveries and the recording of an end are two writes to two files. Correct
  means: a slot keeps its task while a process runs in it, no process gets out of
  reach, no task or slot is stranded, recovery repairs what a crash left.
* **Plans.** `/plan` awaits the CLI between its check for a pending plan and the
  creation, `/plan-start` between the verdict and the result; other handlers and
  the breaker change the files meanwhile. A verdict is an append to one file and
  an unlink of another; both files are written in place. Correct means: one
  confirmation, one execution; a pending plan is not replaced; a result reaches
  its plan.
* **Runs.** An answer, the CLI timeout, `/stop`, the monitor and a crash may come
  in any order; a cancellation interrupts the clean-up of an earlier one; ids
  start again at every boot while the log stays. Correct means: registry, log and
  processes agree about what runs, `/stop` decides, no process is left, every run
  ends.
* **Notifications.** Hook processes and monitors read a session, await a send and
  write the session back; the monitor's lock is a file that everybody may remove.
  Correct means: a stop stays recorded, no lock is left behind, monitors end with
  their session, the budget is kept. The limits over all sessions are kept in one
  file that every process reads, sends on, and writes back without a lock. Correct
  means: they hold for what was handed to OneBot wherever processes did not overlap,
  they recover after an overlap, and nothing is declined without need.
* **Messages.** A message may be delivered again, against a deduplicator with a time
  window that dies with the bot; a task answers on the connection its event came
  from, which may have broken or been replaced. Correct means: one execution for each
  time a message could be forgotten, replies without gaps, no silence without a
  reason, every task ends, the bot listens again.


## 2. Plan

The order was: the queue side (most actors, most shared state), plans, runs,
notifications, then message delivery (`Dispatch`), the limits over all sessions
(`GlobalLimits`), and the proofs of every safety property.

A composition of `PlanMachine` with `TaskTracking` was planned and dropped: the
two meet in one place only, the rollback record that a trip files in
`plan_history.json`. `PlanMachine` lets such trips (`TripElsewhere`) happen at any
time and any number of times, which includes whatever `TaskTracking` produces, and
`ResultsArrive` is proved under it. `Dispatch` and `TaskTracking` meet where
`/stop` or an exception ends a command, which `Dispatch` leaves open (`RouteEnds`).

What could still be added: the cooldowns of `limiter.py` with a clock as in
`GlobalLimits`.

Runs are kept few: one passing run for each module where the bounds allow it,
and violation runs for the divergences that matter most.


## 3. The models

### TaskQueue

One action is one storage call, or a stretch of code without one: `StorageManager`
makes each call atomic (lock, write to a temporary file, replace), and nothing
makes two of them atomic together. What a loop has read stays in a variable of its
own until it writes: `sTasks`, `sWorkers` (scheduler and recovery), `cTasks`
(cleaner), `pTasks`, `pWorkers`, `snap` (pool).

| code | actions |
| --- | --- |
| `run_forever` up to the loops, `run_recovery` | `StartClean`, `StartRepair`, `RecoverWriteTasks`, `RecoverWriteSlots` |
| `TaskScheduler._schedule` | `SchedRead`, `SchedPlan`, `SchedWriteTasks`, `SchedWriteSlots` |
| `TaskCleaner._clean` | `CleanRead`, `CleanWrite` |
| `WorkerPool._tick` | `PoolTick`, then per slot `Skip`, `Spawn`, `SpawnFails`, `Reap`, then `CheckCancellations`, `CancelKill` |
| `_finalize_task`, `_release_worker` | `FinRead`, `FinWrite`, `RelRead`, `RelWrite` |
| exceptions of storage calls | `SchedFault`, `CleanFault`, `PoolFault`: logged, the rest of the cycle is dropped |
| the CLI process ends; the bot or its pool dies | `Exit`, `OrphanExit`, `Crash`, `PoolDies` |

Abstractions. A slot is the task it names or none (every write sets `status` and
`task` together). Tasks and slots are numbers in queue order and in the order of
the sorted slot names, which is the numeric order up to nine slots. Which terminal
tasks are old enough for the cleaner is open. The order of cancellations within a
tick is open. `Submit` and `Cancel` are external: nothing in the repository adds
to `task_queue.json` or marks its tasks, although `docs/DEPLOY.md` and the
scheduler's docstring speak of the status log as the source; the status names the
pool looks for say what such a writer does. `start.sh stop` ends both `bot.py`
processes, so a pool that survives its main process is not modelled; a pool that
dies alone is, and nobody starts it again before the bot restarts.

`SlotLease` states the promise: a slot is leased to one task at a time, a process
runs in it only for that task, and the lease does not change while it runs. Under
`holder <- workers` and `running <- ` the process in the slot, `TaskQueue`
implements it, whoever wrote `worker_state.json` last. `orphans` names each process
that outlived its pool with the crash that left it behind, so that two processes of one
slot and task are two.

### PlanMachine

One action is what a handler does between two awaits. The files are `pending` and
`history`, with `garbled` for contents that no longer decode. The fates of plans
(`begun`, `cut`) are history variables for the properties.

| code | actions |
| --- | --- |
| `_cmd_plan_create`, `create_pending` | `AskOutline`, then `CreatePending` or `NoOutline` |
| `_cmd_plan_start`, `confirm_pending` | `ConfirmPending`, then `ExecutionEnds`, `ExecutionTrips` or `ExecutionStopped` |
| `cancel_pending` (`/plan-cancel`, `/clear`) | `CancelPending` |
| `rollback_running_to_exception` for a task without a plan | `TripElsewhere` |
| writes that raise before or inside the write | `CreateFails`, `ArchiveFails`, `ResultFails` |
| an unlink that fails and is swallowed | a disjunct of `Delete` |
| a crash between steps, between archive and unlink, inside a write | `Crash`, `CrashBeforeDelete`, `CrashInHistoryWrite`, `CrashInPendingWrite` |

`ArchiveFails` is the write of a verdict, which is then not taken, or of a rollback for
a task without a plan; `ResultFails` is the write of a plan's result or of its own
rollback before that. A history whose write raises is as it was, empty, or undecodable.
A plan that ends without a result, by an exception, a `/stop` or a crash, is `cut`.

Abstractions. Plans are their ids, which grow over restarts (the clock that seeds
them is not modelled). Texts are not modelled. `PLAN_HISTORY_MAX` is at least one:
at zero the slice `[-0:]` keeps the whole list.

`PlanDesk` states the promise: one plan at a time lies on the desk, every plan is a
new one, an execution starts only for the plan on the desk and with its verdict as
the newest on record, and the verdict takes the plan off the desk unless the deletion
is lost. `waiting` is `pending`, `issued` the ids up to `counter`, `starts` is `begun`,
`restored` is `kept`, and `newest` the last entry of the history without its result.

### TaskTracking

One action is what one coroutine does between two awaits. The process of a run is
started before the first await (`create_subprocess_shell` starts it
synchronously), so a start that fails is one step.

| code | actions |
| --- | --- |
| `_run_tracked`, `TaskRegistry.create` | `Begin`, `BeginFails`, `CreateFails` |
| `_run_claude`, `_communicate` | `Spawned`, `Answer`, `TimesOut` |
| `_terminate_process_group` | `TermSucceeds`, `Kill`, `KillSucceeds` |
| `finish`, `mark_exception` | `Finish`, `FinishAgain` (the second try after a `mark_exception` that raises) |
| `TaskRegistry.stop` and the cancellation at each await | `Stop`, `StopFails`, `CancelSpawn`, `CancelTalk`, `CancelTerm` |
| `TaskMonitor._tick` with `check_health` | `MonitorTick`, `TickFails` |
| a read or write of the status log that raises | `Raises`, a part of every action that writes it |
| death of the bot, `cleanup_terminal` | `Restart` |
| the CLI | `ProcessExits` |

The status log is written in place, so a write that raises leaves it as it was, cut
short and taken for empty, or cut inside a character (`garbled`): then `read_text`
raises `UnicodeDecodeError`, which `_read_all` does not catch, and every later read and
write fails until somebody removes the file, at a restart at the latest, because
`cleanup_terminal` raises as well. `TaskRegistry.create` puts the record in before it
writes and is called outside the `try` of `_run_tracked`: when the write raises, the
record stays without a coroutine (`pc = "leaked"`), is shown by `/status` and can be
stopped without effect, until the bot restarts.

Which Python runs the bot matters at one place. `README.md:92` and `docs/DEPLOY.md:81`
ask for 3.11 or later. Up to 3.11 `asyncio.wait_for` (claude_client.py:108, 128)
returns a result that is there although the caller is being cancelled, and the
cancellation is lost: `/stop` has answered and written `cancelled`, and the run then ends
as `completed`. From 3.12 on the cancellation wins. `KeepsResult` says which it is, and
`swallowed` holds the runs it happened to. `TrackCore` has it TRUE, which includes all
that happens under FALSE, `TrackKill` has it FALSE, and the theorems hold for both.

Abstractions. Ids are the number in `t1`, `t2`, .... A run is identified with its
command and used once. `PatientCLI` says whether `CLAUDE_TIMEOUT_SECONDS` exceeds
the breaker's thirty minutes; by default (180 s) it does not, and the monitor can
only find entries that no coroutine follows any more. Pids and names only appear
in the text of `/status`. `is_open` is read by nobody and the network counter
only by itself, so neither is a variable. Which running entries are old enough is left
open. Signals reach the whole process group; asyncio kills a process whose creation is
cancelled, but not what that one has started, so the CLI may survive (`CancelSpawn`).

### Notifications

One action is one access to a file, with what a process does up to the next one.
What a process has read stays in its record in `proc` until it writes; the session's
limits decide on that copy, so reading and deciding is one step.

| code | actions |
| --- | --- |
| `handle_start`, `_stage`, `_success`, `_failure`, `_stop` up to the send | `Event` |
| `_send` | `Send`, `Declined`, `SendFails` |
| `write_session`, `_write_if_not_done` | `Write`, `WriteFails`, `Recheck` |
| `acquire_monitor_lock`, `_spawn_monitor`, `release_monitor_lock` | `LockCheck`, `LockWrite`, `LockWriteFails`, `Spawn`, `Unlock` |
| `handle_monitor` | `Tick`, `Refresh`, `RefreshFails`, then as a hook |
| time, `cleanup_expired`, the end of a process | `LockAges`, `CleanupExpired`, `Killed` |

Abstractions. One session. Success events are stages (both ask the budget).
Cooldowns and duplicates are open, so any message may be withheld. The limits over
all sessions (`global.json`) only show as `Declined`, which forced messages skip.
A send may raise before anything has left (no connection), or after: a recipient has
the message and the send to the next one, the closing of the connection or
`write_global` raises. All writers of a file share one temporary file, so a write may
raise because another process has renamed it, and what is renamed may be the text of
another or a mixture that reads as no session (`Mixed`); any write may also raise for
reasons of its own. A `Popen` that raises ends the start hook (`Spawn`).

`budgeted`, `crossed` and `lost` are history variables: how many messages left that the
budget applies to, whether a process read the session between another's read and its
write, and how many hooks an exception ended with their message sent or their session
unwritten. Each kill and each such hook costs at most one message of the count, and
`MaxAccidents` bounds the two together. `budgeted` stops counting once processes have
crossed, as `BudgetKept` says nothing of what follows. A start hook finds no monitor to
start while all of `Monitors` run, which then reads like a `Popen` that raises.
Recipients are configured.

### GlobalLimits

| code | actions |
| --- | --- |
| `should_send_global` in `_send` | `Reached`, then `Allow` or `Decline` |
| forced messages, `send_manual` | `SendForced` |
| the sender's loop over recipients | `HandOver`, `Fails` |
| `record_global_send`, `write_global` | `Written`, `Write`, `WriteMixed` |
| an exception, or the end of a process | `Fails` |
| time | `Tick` |

Abstractions. A send is a number with a time; times never decrease, so a history
is a set of numbers and its newest entry the one with the latest time. The wall
clock is taken not to go back, and reading it and the file is one step. All
processes have the same settings. `MinInterval` does not exceed the long window,
because the code prunes older entries before it looks at the newest. The
client writes a frame to OneBot and never waits for the answer (qq_client.py:75-83), so
a message that was handed over may have been refused, or lost on a connection whose
break nobody has noticed. The program cannot know, and records it as sent: all
properties here speak of what was handed over (`HandOver`), and none of what arrived. A
send that raises may have handed the message over for some recipients, all of them
included, before it raised (`HandOver` before `Fails`). Processes that write
`global.json` at the same time write one temporary file, and what comes out may be no
JSON, which reads as an empty ledger (`WriteMixed`). `disturbed` is a history
variable: when a message was last let through while another was in flight, a stale or
mixed copy was written, or a message that was handed over was lost before its record.

### Dispatch

One action is what the main loop, or the task of one event, does between two
awaits.

| code | actions |
| --- | --- |
| the loop of `run_forever` | `Connect`, `ConnectFails`, `Resume`, `ListenFails`, `ListenEnds` |
| `handle_event` | `Accept`, then `RouteReplies` or `RouteEnds`; `Apologize` |
| `send_private_msg_chunked`, `_call_api` | `SendChunk`, `SendRaises` |
| `MessageDeduplicator` | `Accept`, `Expire` |
| the breaker's `_notify` | `Trip` |
| the network, the death of the bot | `Drop`, `Crash` |

Abstractions. Events that are no user messages, and deliveries of a message that is
still remembered, change nothing. Receiving an event and the first steps of its
task are one step: no other coroutine can change what they read. `close` is part of
`Pause`. SIGINT is a crash. A notice has one chunk. What a command does is in
`PlanMachine` and `TaskTracking`; here it replies, ends without a reply, or raises.
Which key the deduplicator forgets, and when, is open. `got` and `sorry` are history
variables: what has reached the user. A chunk sent over a connection that has broken
and whose break nobody has noticed (`down`) is lost and, as in the code, nobody waits for an
acknowledgement of it.

`Delivery` states the promise as the sender of a message sees it. A message is taken
up as often as it has credit. Its answer is composed once and shown part by part from
the first; an apology comes only where nothing was shown; a closed answer stays as it
is; and an answer closes unfinished only when its way back is lost, with the
exception of notices, which nobody awaits. `credit` is what expiries and restarts
allow beyond the executions there have been, and the answer of a task is open while
its connection is up, lost when it is not, and closed when the task has ended.


## 4. Runs

| run | asks | shows |
| --- | --- | --- |
| `QueueCore` | 2 tasks, 2 slots, no failures, fair loops | `SlotKeepsItsTask`, `LiveTracked`, `CleanupUnreachable`, the inductive `IInv`; `BusyGetsProcess`, `PendingNotStarved`, `CancelKills` |
| `QueueCrash` | 2 tasks, 2 slots of which the pool serves one, a slot that is gone, 2 crashes, 1 storage fault | `ImplementsLease`, `RecoveryRepairs`, `ProcessesBounded`, the inductive `IInv` through crashes and faults |
| `QueueReset` | 2 tasks, 1 slot, an operator | `ReapAfterReset`: the cleanup branch works once it can be reached |
| `PlanCore` | 3 handlers, 3 plans, a history of 2, 2 crashes, 1 write that raises, 1 failed unlink | `RunsOnce`, `PendingKept`, `OneVerdict`, `ResultsArrive`, the inductive `IInv`; `ImplementsDesk` |
| `TrackCore` | 2 runs, 2 stops each, 1 restart, 1 write that raises, `KeepsResult`, fair event loop | `RegistryFollows`, `RunningIsActive`, `StopDecides`, `NoProcessLeft`, `TripsOnce`, the inductive `IInv`; `EndsAreFinal`; `EveryRunEnds` |
| `NotifyCore` | 1 hook at a time, 2 monitors, a budget of 1, 1 process that is killed or raises with its message sent, any number that raise otherwise, fair processes | `LockIsHeld`, `BudgetKept`, the inductive `IInv`; `StopStays`; `MonitorsEnd` |
| `LimitsCore` | 2 processes, 2 recipients, 3 messages, windows of 1 and 3, limits of 1 and 2 | `LimitsKept`, `DeclinesJustified`, the inductive `IInv` |
| `DispatchCore` | 1 message, 3 tasks, replies of 2 chunks, 1 drop, 1 expiry, 1 crash, fair loop and tasks | `AtMostOnce`, `SilenceHasReason`, the inductive `IInv`; `ImplementsDelivery`; `TasksEnd`, `Reconnects` |

`QueueReset` exists because `Reap` is unreachable in the code as it is
(`CleanupUnreachable`): without the operator nothing would exercise it.

Violation runs, each on the smallest instance that shows it:

| run | a document says | the code does |
| --- | --- | --- |
| `QueueFinished` | DEPLOY: a CLI that ends releases its worker | `_tick` polls only processes in idle slots, and a slot with a process is busy; after as many runs as slots nothing starts any more |
| `QueueLost` | DEPLOY 14: the JSON files are safe across processes | whole lists are written back from old copies; a task submitted in between is gone |
| `TrackKill` | `/kill` terminates by force | a cancellation during the termination skips SIGKILL |
| `NotifyStop` | `service.py`: the re-check avoids the race with `handle_stop` | a stop written between the re-check and the write is overwritten with the older copy, and heartbeats go on |

`QueueFinished` is a temporary-looking state that lasts: its run uses `FairSpec`,
so the counterexample is not the system standing still.

### Bounds

* Two tasks and two slots are the smallest queue in which one loop's stale write
  can undo another loop's change to something else; a third adds no new pair of
  readers and writers, and the proofs cover every number.
* `MaxCrashes`, `MaxFaults` count crashes and storage exceptions. One crash
  reaches every control point including recovery's two writes; the second crash
  finds what the first one left half-done, a second orphan of one slot and task
  included. One write that raises in `TrackCore` may leave the file undecodable, after
  which every later one raises without being counted.
* `MaxAccidents` is one: a second one would add a second missing message, and
  `BudgetKept` counts them apart in the proof.
* `MaxPlans` 3 with a history of 2 makes rotation drop a plan that is still being
  executed. Rollback records come without bound, since rotation forgets them.
* `MaxKept` counts failed unlinks, `MaxStops` the `/stop` commands for one run
  (two: the second meets the handling of the first), `MaxBoots` restarts.
* One hook of the session at a time in `NotifyCore` keeps the run small: it still
  meets both monitors at every step, which is where the lock changes hands (a
  monitor left from before a stop, and one started after it). Two hooks that
  overlap are covered by the proofs of `LockIsHeld`, `BudgetKept` and `StopStays`.
* `LimitsCore` has times up to 9: the clock starts at 4, past the long window, and
  runs over it once more, so that entries leave both windows and the limits are
  kept again after a disturbance. Each of the three limits declines a message in
  it: the interval, one in the short window, two in the long one. Exchanging
  processes or recipients is sound as a symmetry since only safety is checked.
* `DispatchCore` has one message, executed up to three times (an expiry, a crash)
  and interleaved with notices; messages meet only in the deduplicator, where they
  are independent, and the proofs cover any number.
* `flagged` is counted to two: the properties ask only whether it exceeds one.

### Deadlock

Checked in every run of `Notifications` and of `TaskQueue` without crashes. Where the bot or its pool may
die for good (`QueueCrash`) the system may stop. In `PlanCore` every plan command
only answers with an error once both files no longer decode. In the runs of
`TaskTracking` each command is issued once, so the model stops when all are done.
In `LimitsCore` and `DispatchCore` the bounds on time, messages and tasks end it.

### Fairness

`TaskQueue!FairSpec`: weak fairness of the scheduler, of the pool and of the
cleaner's write. `TaskScheduler.start`, `WorkerPool.start` and `TaskCleaner.start`
are endless loops that catch every exception, and their threads and process are
scheduled by the operating system. Nothing is assumed of users, of CLI processes,
of restarts or of the cleaner's choice of tasks.
`TaskTracking!FairSpec`: weak fairness of each coroutine: the event loop resumes
it when what it waits for is there, and the timers of `_communicate` and
`_terminate_process_group` go off. It does not assume that a CLI answers, nor that
it stops at SIGTERM.
`Notifications!FairSpec`: weak fairness of each hook and each monitor: the operating
system runs them, sleeps end, and a send succeeds or raises. Nothing is assumed of
events, ages or kills.
`Dispatch!FairSpec`: weak fairness of the main loop and of each task. The event loop
resumes them, a command ends by the timeout of its CLI if by nothing else, and the
heartbeat of the WebSocket finds a connection that has broken. Nothing is assumed of
deliveries, drops, trips, expiries or crashes.


## 5. Proofs

All theorems hold for every value of the constants; the only assumptions are the
named ones of the modules (finite sets of numbers for tasks and slots, `PoolSlots`
within `Slots`, gone slots outside, natural bounds, a history of at least one).

**TaskQueueProofs.** The four safety properties are not inductive: each loop acts
on copies. `IInv` relates the copies. `RosterInv` says that `_processes` is within
`worker_state.json` (a slot with a process shows that process's task), and the
file within what the scheduler is about to write and what `_release_worker` has
read: a busy slot of the one is busy with the same task in the other, so that
overwriting the file keeps every lease. `TickInv` says the same of the tick's
snapshot for the slots still to be visited, `JobInv` that the slot being recorded
has no live process and is out of the rest of the tick's way, `PoolOffInv` that a
pool that does not run holds nothing, `QueueInv` that no copy of the queue has a
completed task. From `Spec => []IInv` follow `TypeCorrect`, `SlotsKeepTheirTasks`,
`ProcessesTracked`, `CleanupNeverReached` and `NothingCompletes`; `Refinement`
maps each action to a step of `SlotLease` or a stutter; `RecoveryDone` adds
`RecoveryInv`, which says what recovery holds at each of its two writes.
`ProcessesCounted` adds `OrphanInv`: a crash turns at most one process of each slot
of the pool into an orphan of its own number, so there are at most as many as slots
times crashes.

**PlanMachineProofs.** `RunsOnce` bounds what a plan has begun, and may still begin
while it is pending, by one and the unlinks that failed, and the handlers that execute
a plan by what it has begun. `IInv` adds to it and to the types that ids do not exceed
the counter and that no plan beyond the counter has begun, so that a new plan is a new
one. `PlansRunOnce` follows, with `CountsLemma` for the handlers; `NotReplaced` needs
`ArchivedLemma`, that the rotation keeps the entry just appended last.
`DeskRefinement` (`ImplementsDesk`) maps every action to a step of `PlanDesk` or a
stutter: `SummaryArchived` says what an append does to the newest verdict whatever
the rotation drops, `SummaryResult` that recording a result leaves it alone, and
`SummaryTorn` that a write cut short leaves it or loses it.
`SingleVerdict` (`OneVerdict`) and `ResultsReachPlans` (`ResultsArrive`) rest on
`VerdictInv`, which holds through crashes until an unlink fails: the history has no
plan that is still to come or pending (`Numbered`), has one verdict for each plan
(`Single`), both but for plans that a crash has cut short and left to be decided again
(`Repeated`), and lacks results only for plans that are being executed or were cut
short (`Answered`).
`ArchivedSound` and `ResultSound` say that an append with its rotation and the
recording of a result keep the three.

**TaskTrackingProofs.** `RegistryFollows` says that the registry holds the runs under
way and those whose `create` raised, whatever other writes raise. `IInv` adds that ids
in the registry do not exceed the counter (so a new id is fresh), that cancellations are only pending for runs in
the registry, that a run in the last wait has no process, and `StopsCounted`: each
cancellation that is pending, and each termination that no timeout began, is due to a
`/stop` of its own. `RegistryIsExact` and `ProcessesEnd` (`NoProcessLeft`: only a `/stop`
that cuts a start or a termination short leaves a process, a second one where a first
one began it) follow, in every boot; `EndStep` and `WaitStep` are the two lemmas the actions
of a coroutine reduce to. `TypeCorrect`, `NoGhosts` (`RunningIsActive`), `StopWins`
(`StopDecides`) and `OneTrip` (`TripsOnce`) are theorems as well. The last three rest
on `LogInv`, about the status log as long as nothing has disturbed it (`Undisturbed`: no
restart, and no write of it has raised): each run that was started has
one entry under an id of its own (`Entered`), a run that was stopped is about to end
as cancelled or has, unless `wait_for` swallowed its cancellation (`Stopped`), and an entry that is running belongs to an active
run the monitor has not tripped for (`Truthful`). `EndsSettle` (`EndsAreFinal`) is an
action property from the same invariant: each update finds the entry of its own run
(`UpdatedMarks`, `FlaggedOverdue`, since ids are unique), and every run that is updated
is under way.

**NotificationsProofs.** `LockIsHeld` needs only that monitors keep their role
(`RoleInv`). `BudgetKept` needs `CountInv`: without overlaps one process at a time
holds the session, and the session counts every message of the budget but that of a
hook about to write it, one for each process that was killed before it wrote and one for
each hook that an exception ended with its message sent or its session unwritten; `EndStep`
covers the exceptions. `LocalStep` covers the steps that keep or drop
what a process has read and write at most the lock; `Event`, `Send`, `Write`, `Spawn`
and `Tick` have proofs of their own. `StopsStand` (`StopStays`) needs `CopyInv`: without
overlaps the one copy there is agrees with the file about the stop, or is that of a
start or a stop hook. It is the part of the re-check in `_write_if_not_done` that holds;
`NotifyStop` shows the part that does not. `CopyInv` holds under kills as well: a process
that is killed drops its copy. `IInv` is `CopyInv` with `FilesInv`, all the rest.

**GlobalLimitsProofs.** `LimitsKept` speaks of what was handed to OneBot, the code of
what the ledger says. `RealInv` (no history has a message that was not handed over) gives
`NoNeedlessDecline`. `KnownInv` is the other direction: a message that was handed over and
the ledger does not have is older than the long window, or in flight, or not later than
the last disturbance; `ProcInv` says what a process knows of its message in flight.
`LimitsHold` follows.

**DispatchProofs.** `LoopInv`: only the current connection can be open. `TaskInv`: what
arrived of a reply is what was sent, but for a dead connection. `SeenInv`: what is not
remembered has an execution to spare. From them follow `AtMostOnce`,
`RepliesArePrefixes` and `SilenceHasReason`. A step moves the connections on, changes
one task, starts one, or is a crash, and each kind has its lemma. `DeliveryRefinement`
(`ImplementsDelivery`) shows the same for `Delivery`: a step of the main loop loses the
open answers of the connection it leaves (`LoopLoses`), a task's step turns its own
answer (`TurnStep`, `HandleTurns`), an accepted message spends a credit
(`AcceptCounts`, `CreditLemma`), and a crash closes everything and gives a credit back
(`CrashRestarts`).

Only model-checked: the liveness properties (`BusyGetsProcess`,
`PendingNotStarved`, `CancelKills`, `ReapAfterReset`, `EveryRunEnds`, `MonitorsEnd`,
`TasksEnd`, `Reconnects`), which are outside the prover's reach. Every safety property
that a passing run checks is a theorem.


## 6. Divergences without a run of their own

* On Python 3.11 a `/stop` that arrives when the CLI has just answered is swallowed by
  `asyncio.wait_for`: the user is told that the run was stopped, and it is recorded as
  completed (`swallowed` in `StopDecides`).
* A write of the status log that raises inside `TaskRegistry.create` leaves a record that
  nothing removes (`leaked` in `RegistryFollows`).
* A plan that trips the breaker stays EXECUTED: the breaker passes the task's id
  (circuit_breaker.py:150), and `rollback_running_to_exception`, which promises to mark
  the plan (plan_state.py:118), files a new record under it.
* Ids start at `t1` again at every boot and an update goes to the first entry with the
  id (task_status_log.py:53), an old one where there is one: the entry of a new run
  stays running, though the registry promises that the log finds it
  (task_registry.py:38-40).
* A connection that the other side closes normally ends the iteration without an
  exception: the next client follows at once, without a close and without the pause
  that `RECONNECT_INITIAL_SECONDS` (docs/DEPLOY.md:398) sets (bot.py:172, `ListenEnds`).
* After a crash between the scheduler's two writes a task is running under a slot
  that exists and is idle; `run_recovery` looks only for slots that do not exist
  and leaves it so, for ever.
* A crash between archive and unlink, or an unlink that fails (and is swallowed),
  leaves a decided plan pending: `OneVerdict` names the plans a crash may leave so and
  holds until an unlink fails, `RunsOnce` counts the unlinks, and in `PlanDesk` both are
  steps of their own.
* Entries of runs that died with the bot stay `running` in the status log
  (`RunningIsActive` holds until the first restart); the monitor flags them half an
  hour later, and an entry hidden behind an older one with the same id on every
  poll, each time with a rollback record in `plan_history.json`.
* The monitor updates the log and the breaker; nothing cancels the task, which goes
  on and is finally recorded as completed.
* A CLI that fails or times out returns its error as a text: `/plan` saves it as an
  outline, `_run_tracked` records the run as completed, and the breaker's network
  counter never sees it.
* `plan_history.json` is written in place and an unreadable file is taken for an
  empty one, so a crash inside the write loses the history (`HistoryTorn`;
  docs/DEPLOY.md 14 says that all JSON files are written atomically).
* A claim can be undone by a stale write of the cleaner or of the pool (the cause of
  `QueueLost`), after which the next cycle gives the task a second slot.
* A stop releases the lock while the monitor sleeps; a start within its interval
  finds the session without a lock and starts a second monitor, and both go on.
* docs/DEPLOY.md:555-572 registers `stage` for the CLI's Stop event, and no start
  event: under it no session is ever done and no monitor starts. The model has the
  handlers of the code.
* A task whose description is null makes `_shell_quote` raise outside the `try` of
  `_spawn`, so that every later tick ends at that slot.


## 7. Not modelled

The read-only and network commands change no state;
`/network` and `/weather` block the event loop for up to forty seconds, which
delays every timer but loses none. `CircuitBreaker.reset` and
`rotate_plan_history` have no caller. Configuration, formatting, the manual test
scripts and the reserved interfaces hold no state worth a model; the service
scripts look only at the process list. The wall clock is modelled in `GlobalLimits`
alone; elsewhere the ages of entries and tasks are nondeterministic. So are the
cooldowns of the notification limiter: any of its messages may be withheld.
