---------------------------- MODULE TaskTracking ----------------------------
(***************************************************************************)
(* How agent-qq follows the CLI runs of /shell and /plan-start: the        *)
(* coroutine of CommandRouter._run_tracked, the registry in memory, the    *)
(* status log in data/task_status_log.json, the CLI process itself, /stop, *)
(* the circuit breaker and the monitor that polls the log.                 *)
(*                                                                         *)
(* One event loop runs them all, so an action is what one coroutine does   *)
(* between two awaits.  A run goes through                                 *)
(*                                                                         *)
(*   new -> spawning -> talking -> ended            the CLI answers        *)
(*                         |                                               *)
(*                         +-> terming -> killing -> ended                 *)
(*                              SIGTERM    SIGKILL                         *)
(*                                                                         *)
(* where /stop may interrupt every await.  The status log outlives the     *)
(* bot, the registry and its counter of task ids do not, and a CLI process *)
(* is a session of its own and survives too.  Any write of the log may     *)
(* raise; a run whose first entry could not be written is "leaked": its    *)
(* record stays in the registry without a coroutine.                       *)
(***************************************************************************)
EXTENDS Naturals, Sequences

CONSTANTS
  Runs,         \* commands that will be run
  PatientCLI,   \* whether CLAUDE_TIMEOUT_SECONDS exceeds the task timeout of the breaker
  KeepsResult,  \* whether asyncio.wait_for returns a result that is there although the
                \* caller is being cancelled: TRUE of Python 3.11, FALSE from 3.12 on
  MaxStops,     \* bound on /stop for one run
  MaxBoots,     \* bound on crashes of the bot, each followed by a restart
  MaxFaults     \* bound on writes of the status log that raise

ASSUME PatienceAssumption == PatientCLI \in BOOLEAN
ASSUME PythonAssumption   == KeepsResult \in BOOLEAN
ASSUME BoundAssumption    == MaxStops \in Nat /\ MaxBoots \in Nat /\ MaxFaults \in Nat

VARIABLES
  pc,        \* where the coroutine of each run awaits
  id,        \* the number in the id of its TaskRecord: "t1", "t2", ...
  ending,    \* why its process is being terminated
  asked,     \* runs whose asyncio task has a cancellation to deliver
  proc,      \* the CLI process of each run
  swallowed, \* runs that ended on a result although a cancellation was on its way
  registry,  \* TaskRegistry._tasks, as the runs it holds
  stopping,  \* runs whose record says "stopping"
  counter,   \* TaskRegistry._counter
  log,       \* task_status_log.json
  garbled,   \* whether it ends inside a character: then every reader raises
  faults,    \* how often a write of it has raised
  flagged,   \* how often the monitor has tripped for each run while undisturbed (counted to 2)
  stops, boots

coroutine == <<pc, id, ending, asked, proc, swallowed>>
disk      == <<log, garbled, faults>>
records   == <<registry, stopping, counter, disk>>
vars      == <<coroutine, records, flagged, stops, boots>>

Terminal == {"completed", "cancelled", "exception"}
Entries  == [id : Nat, status : Terminal \cup {"running"}, run : Runs]

\* The bot has not been restarted and no write of the log has raised.
Undisturbed == boots = 0 /\ faults = 0

Awaiting == {"spawning", "talking", "terming", "killing"}
Active(r) == pc[r] \in Awaiting

-----------------------------------------------------------------------------
(* TaskStatusLog: entries are found by task id, the first match counts.    *)

Entry(r, i, s) == [id |-> i, status |-> s, run |-> r]
SetStatus(e, s) == Entry(e.run, e.id, s)

First(l, k) == \A j \in 1 .. k - 1 : l[j].id # l[k].id

\* update_status for the task id i of run r.
Updated(l, r, i, s) ==
  IF \E k \in 1 .. Len(l) : l[k].id = i
  THEN [k \in 1 .. Len(l) |-> IF l[k].id = i /\ First(l, k) THEN SetStatus(l[k], s) ELSE l[k]]
  ELSE Append(l, Entry(r, i, s))

\* _write_all overwrites the file in place.  When it raises, the file is as it was, or cut
\* short: _read_all then takes it for empty, or raises itself when a character was cut.
Raises(old) ==
  /\ garbled \/ faults < MaxFaults
  /\ faults' = IF garbled THEN faults ELSE faults + 1
  /\ \/ log' = old /\ UNCHANGED garbled
     \/ log' = << >> /\ garbled' \in {garbled, TRUE}

Writes(new) == ~garbled /\ log' = new /\ UNCHANGED <<garbled, faults>>

\* TaskRegistry.finish and mark_exception: the record goes before the log is written.
\* Mutation: the record is popped only when the run completed
Finish_KeepRecord(r, s) ==
  /\ registry' = IF s = "completed" THEN registry \ {r} ELSE registry
  /\ Writes(Updated(log, r, id[r], s)) \/ Raises(log)
  /\ UNCHANGED <<stopping, counter>>
\* Mutation: the status log is not told
Finish_NoLog(r, s) == registry' = registry \ {r} /\ UNCHANGED <<stopping, counter, disk>>
Finish(r, s) ==
  /\ registry' = registry \ {r}
  /\ Writes(Updated(log, r, id[r], s)) \/ Raises(log)
  /\ UNCHANGED <<stopping, counter>>

\* A mark_exception that raises is followed by finish(..., "exception"); when that raises
\* too, nothing more is written, as after one Finish that raises.
FinishAgain(r) ==
  /\ registry' = registry \ {r}
  /\ ~garbled /\ faults < MaxFaults /\ faults' = faults + 1
  /\ \E l \in {log, << >>} : log' = Updated(l, r, id[r], "exception")
  /\ UNCHANGED <<garbled, stopping, counter>>

Ends(r) == pc' = [pc EXCEPT ![r] = "ended"] /\ UNCHANGED id

-----------------------------------------------------------------------------
Init ==
  /\ pc = [r \in Runs |-> "new"] /\ id = [r \in Runs |-> 0]
  /\ ending = [r \in Runs |-> "none"] /\ asked = {}
  /\ proc = [r \in Runs |-> "none"] /\ swallowed = {}
  /\ registry = {} /\ stopping = {} /\ counter = 0
  /\ log = << >> /\ garbled = FALSE /\ faults = 0
  /\ flagged = [r \in Runs |-> 0]
  /\ stops = [r \in Runs |-> 0] /\ boots = 0

-----------------------------------------------------------------------------
(* A command: _run_tracked, then _run_claude or shell.                     *)

\* registry.create: the record first, then the entry.
Enters(r) ==
  /\ pc[r] = "new"
  /\ counter' = counter + 1
  /\ id' = [id EXCEPT ![r] = counter']

Created(r) == Append(log, Entry(r, counter + 1, "running"))

\* The process is started before the first await.
Begin(r) ==
  /\ Enters(r) /\ Writes(Created(r))
  /\ registry' = registry \cup {r}
  /\ pc' = [pc EXCEPT ![r] = "spawning"]
  /\ proc' = [proc EXCEPT ![r] = "alive"]
  /\ UNCHANGED <<ending, asked, swallowed, stopping, flagged, stops, boots>>

\* The process cannot be started: an OSError, which matches no network pattern.
BeginFails(r) ==
  /\ Enters(r) /\ ~garbled
  /\ Writes(Updated(Created(r), r, counter', "exception")) \/ Raises(Created(r))
  /\ pc' = [pc EXCEPT ![r] = "ended"]
  /\ UNCHANGED <<ending, asked, proc, swallowed, registry, stopping, flagged, stops, boots>>

\* create raises, outside the try of _run_tracked: nobody takes the record away.
CreateFails(r) ==
  /\ Enters(r) /\ Raises(log)
  /\ registry' = registry \cup {r}
  /\ pc' = [pc EXCEPT ![r] = "leaked"]
  /\ UNCHANGED <<ending, asked, proc, swallowed, stopping, flagged, stops, boots>>

Spawned(r) ==
  /\ pc[r] = "spawning" /\ r \notin asked
  /\ pc' = [pc EXCEPT ![r] = "talking"]
  /\ UNCHANGED <<id, ending, asked, proc, swallowed, records, flagged, stops, boots>>

ProcessExits(r) ==
  /\ proc[r] = "alive"
  /\ proc' = [proc EXCEPT ![r] = "exited"]
  /\ UNCHANGED <<pc, id, ending, asked, swallowed, records, flagged, stops, boots>>

\* A coroutine with a cancellation to deliver does not go on ...
\* Mutation: the cancellation is ignored by every wait
MayResume_Always(r) == TRUE
MayResume(r) == r \notin asked

\* ... except that a wait_for whose result is there may return it and forget the cancellation.
Resumes(r) ==
  /\ MayResume(r) \/ KeepsResult
  /\ asked' = asked \ {r}
  /\ swallowed' = IF r \in asked THEN swallowed \cup {r} ELSE swallowed

\* The answer is there.  A text about tokens trips the breaker; every other one completes
\* the run, the error of a CLI that failed included.
Answer(r) ==
  /\ pc[r] = "talking" /\ Resumes(r)
  /\ proc[r] = "exited"
  /\ Ends(r)
  /\ Finish(r, "completed") \/ Finish(r, "exception") \/ FinishAgain(r)
  /\ UNCHANGED <<ending, proc, flagged, stops, boots>>

-----------------------------------------------------------------------------
(* _communicate and _terminate_process_group.                              *)

TimesOut(r) ==
  /\ pc[r] = "talking" /\ MayResume(r)
  /\ pc' = [pc EXCEPT ![r] = "terming"]
  /\ ending' = [ending EXCEPT ![r] = "timeout"]
  /\ UNCHANGED <<id, asked, proc, swallowed, records, flagged, stops, boots>>

\* A run that timed out returns a text; a cancelled one passes the cancellation on.
Outcome(r) == IF ending[r] = "timeout" THEN "completed" ELSE "cancelled"

Concludes(r) ==
  /\ Ends(r) /\ Finish(r, Outcome(r))
  /\ UNCHANGED <<ending, proc, flagged, stops, boots>>

TermSucceeds(r) ==
  /\ pc[r] = "terming" /\ Resumes(r)
  /\ proc[r] = "exited"
  /\ Concludes(r)

\* Two seconds after SIGTERM comes SIGKILL, which no process survives.
\* Mutation: the wait for the process is not bounded
GraceOver_Never(r) == FALSE
GraceOver(r) == pc[r] = "terming" /\ proc[r] = "alive" /\ MayResume(r)

\* Mutation: SIGKILL is not sent
AfterKill_Alive(r) == proc
AfterKill(r) == [proc EXCEPT ![r] = "exited"]

Kill(r) ==
  /\ GraceOver(r)
  /\ proc' = AfterKill(r)
  /\ pc' = [pc EXCEPT ![r] = "killing"]
  /\ UNCHANGED <<id, ending, asked, swallowed, records, flagged, stops, boots>>

\* This wait is no wait_for.
KillSucceeds(r) ==
  /\ pc[r] = "killing" /\ MayResume(r)
  /\ Concludes(r)
  /\ UNCHANGED <<asked, swallowed>>

-----------------------------------------------------------------------------
(* /stop and /kill: registry.stop, and the CancelledError it causes.       *)

Stop(r) ==
  /\ r \in registry
  /\ stops[r] < MaxStops /\ stops' = [stops EXCEPT ![r] = @ + 1]
  /\ stopping' = stopping \cup {r}
  /\ Writes(Updated(log, r, id[r], "cancelled"))
  /\ asked' = IF Active(r) THEN asked \cup {r} ELSE asked
  /\ UNCHANGED <<pc, id, ending, proc, swallowed, registry, counter, flagged, boots>>

\* The log is written before the coroutine is cancelled.
StopFails(r) ==
  /\ r \in registry
  /\ stopping' = stopping \cup {r}
  /\ Raises(log)
  /\ UNCHANGED <<coroutine, registry, counter, flagged, stops, boots>>

\* asyncio kills a process whose creation is cancelled, but not what that one has started:
\* the process group of a shell may go on.
CancelSpawn(r) ==
  /\ pc[r] = "spawning" /\ r \in asked
  /\ asked' = asked \ {r}
  /\ \E p \in {"exited", proc[r]} : proc' = [proc EXCEPT ![r] = p]
  /\ Ends(r) /\ Finish(r, "cancelled")
  /\ UNCHANGED <<ending, swallowed, flagged, stops, boots>>

CancelTalk(r) ==
  /\ pc[r] = "talking" /\ r \in asked
  /\ asked' = asked \ {r}
  /\ pc' = [pc EXCEPT ![r] = "terming"]
  /\ ending' = [ending EXCEPT ![r] = "cancel"]
  /\ UNCHANGED <<id, proc, swallowed, records, flagged, stops, boots>>

\* The wait that follows a signal is interrupted; SIGKILL is never sent after that.
CancelTerm(r) ==
  /\ pc[r] \in {"terming", "killing"} /\ r \in asked
  /\ asked' = asked \ {r}
  /\ Ends(r) /\ Finish(r, "cancelled")
  /\ UNCHANGED <<ending, proc, swallowed, flagged, stops, boots>>

-----------------------------------------------------------------------------
(* TaskMonitor._tick, on the entries it read.                              *)

\* Entries that may have been running for longer than the breaker allows.  A run that is
\* still followed gets there only when the CLI may take that long.
\* Mutation: entries are picked by their age alone
Overdue_AnyStatus == {k \in 1 .. Len(log) : Active(log[k].run) => PatientCLI}
Overdue ==
  {k \in 1 .. Len(log) : log[k].status = "running" /\ (Active(log[k].run) => PatientCLI)}

\* Mutation: the entry is tripped for but not updated
Flagged_Not(K) == log
Flagged(K) ==
  [k \in 1 .. Len(log) |-> IF First(log, k) /\ \E j \in K : log[j].id = log[k].id
                           THEN SetStatus(log[k], "exception") ELSE log[k]]

\* K: the entries found too old.
MonitorTick ==
  /\ \E K \in SUBSET Overdue :
       /\ K # {} /\ Writes(Flagged(K))
       /\ flagged' = [r \in Runs |-> IF Undisturbed /\ flagged[r] < 2 /\ \E k \in K : log[k].run = r
                                     THEN flagged[r] + 1 ELSE flagged[r]]
  /\ UNCHANGED <<coroutine, registry, stopping, counter, stops, boots>>

\* The tick is given up at the first entry whose update raises; the breaker has tripped.
TickFails ==
  /\ \E k \in Overdue : \E K \in SUBSET {j \in Overdue : j < k} : Raises(Flagged(K))
  /\ UNCHANGED <<coroutine, registry, stopping, counter, flagged, stops, boots>>

-----------------------------------------------------------------------------
(* The bot dies and is started again.  cleanup_terminal then drops entries *)
(* that are old enough.  A write that was cut short leaves nothing to read; *)
(* when it was cut inside a character, cleanup_terminal raises, and the    *)
(* bot starts only after somebody has removed the file.                    *)

Cleanable == {"completed", "cancelled"}

\* The ways to keep n entries in their order, those that must stay among them.
Survivals(n) ==
  {f \in [1 .. n -> 1 .. Len(log)] :
     /\ \A i, j \in 1 .. n : i < j => f[i] < f[j]
     /\ \A k \in 1 .. Len(log) : log[k].status \notin Cleanable => \E i \in 1 .. n : f[i] = k}

Restart ==
  /\ boots < MaxBoots /\ boots' = boots + 1
  /\ pc' = [r \in Runs |-> IF Active(r) \/ pc[r] = "leaked" THEN "lost" ELSE pc[r]]
  /\ id' = [r \in Runs |-> 0] /\ asked' = {} /\ swallowed' = {}
  /\ registry' = {} /\ stopping' = {} /\ counter' = 0
  /\ \/ log' = << >>
     \/ /\ ~garbled
        /\ \E n \in 0 .. Len(log) : \E f \in Survivals(n) : log' = [i \in 1 .. n |-> log[f[i]]]
  /\ garbled' = FALSE
  /\ UNCHANGED <<ending, proc, faults, flagged, stops>>

-----------------------------------------------------------------------------
Handler(r) == \/ Spawned(r) \/ Answer(r) \/ TimesOut(r)
              \/ TermSucceeds(r) \/ Kill(r) \/ KillSucceeds(r)
              \/ CancelSpawn(r) \/ CancelTalk(r) \/ CancelTerm(r)
Users(r)   == Begin(r) \/ BeginFails(r) \/ CreateFails(r) \/ Stop(r) \/ StopFails(r)

Next == \/ \E r \in Runs : Users(r) \/ Handler(r) \/ ProcessExits(r)
        \/ MonitorTick \/ TickFails
        \/ Restart

Spec == Init /\ [][Next]_vars

(* The event loop resumes every coroutine whose wait is over, and the      *)
(* timers of _communicate and _terminate_process_group go off.             *)
FairSpec == Spec /\ \A r \in Runs : WF_vars(Handler(r))

-----------------------------------------------------------------------------
\* The types of what coroutines and registry keep, and of the rest.
ControlOK ==
  /\ pc \in [Runs -> Awaiting \cup {"new", "leaked", "ended", "lost"}]
  /\ id \in [Runs -> Nat] /\ counter \in Nat
  /\ ending \in [Runs -> {"none", "timeout", "cancel"}]
  /\ proc \in [Runs -> {"none", "alive", "exited"}]
  /\ \A S \in {asked, registry, stopping, swallowed} : S \subseteq Runs
  /\ stops \in [Runs -> 0 .. MaxStops] /\ boots \in 0 .. MaxBoots
  /\ garbled \in BOOLEAN /\ faults \in 0 .. MaxFaults

TypeOK ==
  /\ ControlOK
  /\ log \in Seq(Entries)
  /\ flagged \in [Runs -> 0 .. 2]

StatusOf(r, s) == \E k \in 1 .. Len(log) : log[k].run = r /\ log[k].status = s

\* The registry holds the runs that are under way, under one id each: however a run ends
\* (an answer, a timeout, one or two cancellations, a process that cannot be started, a
\* write of the log that raises), its record goes with it.  The one record without a run
\* is that of a create whose own write raised; no restart keeps it.
RegistryFollows ==
  /\ registry = {r \in Runs : Active(r) \/ pc[r] = "leaked"}
  /\ \A r, s \in registry : id[r] = id[s] => r = s
  /\ \A r \in Runs : pc[r] = "leaked" => faults > 0

\* While undisturbed: an entry shown as running is one that runs, so that /status and the
\* monitor see no ghosts.
RunningIsActive ==
  Undisturbed => \A k \in 1 .. Len(log) : log[k].status = "running" => Active(log[k].run)

\* While undisturbed: a /stop that was accepted decides how the run ends, whatever answer,
\* timeout or monitor finding comes in at the same time.  The exception is Python 3.11's
\* wait_for, which returns a result that is already there and loses the cancellation.
StopDecides ==
  /\ Undisturbed =>
       \A r \in stopping :
         /\ ~StatusOf(r, "running")
         /\ r \notin swallowed => ~StatusOf(r, "completed") /\ ~StatusOf(r, "exception")
  /\ swallowed # {} => KeepsResult

\* In every boot, log writes that raise included: what a run has started outlives it only
\* when a /stop cut short the start, or the wait for it to go: one /stop during the start
\* or after a timeout, a second /stop where a first one had begun to end it.  An answer, a
\* timeout or one /stop of a CLI at work leaves none.
NoProcessLeft ==
  \A r \in Runs : pc[r] = "ended" /\ proc[r] = "alive" =>
                   stops[r] >= (IF ending[r] = "cancel" THEN 2 ELSE 1)

\* While undisturbed: the monitor trips at most once for a run.
TripsOnce == Undisturbed => \A r \in Runs : flagged[r] <= 1

\* While undisturbed: entries are added at the end and none goes, and once a run has ended
\* its entry is settled, whatever /stop, monitor or other run comes after it; until then
\* only its status may change.
EndsAreFinal ==
  [][Undisturbed' =>
       /\ Len(log') >= Len(log)
       /\ \A k \in 1 .. Len(log) :
            /\ log'[k].run = log[k].run /\ log'[k].id = log[k].id
            /\ ~Active(log[k].run) => log'[k] = log[k]]_vars

\* The cancellations on their way, and the termination under way, are each due to a /stop.
StopsCounted ==
  \A r \in registry :
    /\ r \in asked => stops[r] >= 1
    /\ ending[r] # "timeout" /\ pc[r] \in {"terming", "killing"} =>
         stops[r] >= (IF r \in asked THEN 2 ELSE 1)

\* Inductive, for RegistryFollows and NoProcessLeft.
IInv ==
  /\ ControlOK /\ RegistryFollows /\ NoProcessLeft /\ StopsCounted
  /\ \A r \in registry : id[r] <= counter
  /\ asked \subseteq {r \in Runs : Active(r)}
  /\ \A r \in Runs : pc[r] \in {"new", "leaked", "killing"} => proc[r] # "alive"
  /\ \A r \in Runs : pc[r] \in {"new", "spawning"} => ending[r] = "none"
  /\ garbled => faults > 0
  /\ swallowed # {} => KeepsResult

\* Under FairSpec: a run does not outlast the timeout of its CLI, whatever the log does.
EveryRunEnds == \A r \in Runs : Active(r) ~> pc[r] \in {"ended", "lost"}

(***************************************************************************)
(* What the documents say, and the code does not do                        *)
(***************************************************************************)

\* command_router.py: /kill terminates by force a task that is at work.
StopTerminates ==
  \A r \in stopping : pc[r] = "ended" /\ ending[r] = "cancel" => proc[r] # "alive"
=============================================================================
