----------------------------- MODULE PlanMachine -----------------------------
(***************************************************************************)
(* The /plan life cycle of agent-qq (plan_state.py and the plan commands   *)
(* of command_router.py), kept in two JSON files:                          *)
(*                                                                         *)
(*   data/pending_plan.json   the plan that awaits a decision -> pending   *)
(*   data/plan_history.json   the decided plans, newest last  -> history   *)
(*                                                                         *)
(* Every command runs in a coroutine (handler) of one event loop: what a   *)
(* handler does between two awaits is one action.  /plan awaits the CLI    *)
(* for an outline between its check for a pending plan and create_pending, *)
(* /plan-start awaits the CLI between the verdict and the result.          *)
(*                                                                         *)
(* Both files are written in place (write_text), so a crash or a full disk *)
(* leaves a torn file: one that does not parse is read as if it were not   *)
(* there, one cut inside a character makes every reader raise.             *)
(***************************************************************************)
EXTENDS Naturals, Sequences, FiniteSets

CONSTANTS
  Handlers,     \* the coroutines that serve plan commands
  HistoryMax,   \* settings.plan_history_max
  MaxPlans,     \* bound on plans created
  MaxCrashes,   \* bound on crashes of the bot
  MaxFaults,    \* bound on writes that raise
  MaxKept       \* bound on unlinks of pending_plan.json that fail

\* The slice entries[-0:] would be the whole list.
ASSUME HistoryAssumption == HistoryMax \in Nat \ {0}
ASSUME BoundAssumption == /\ MaxPlans \in Nat /\ MaxCrashes \in Nat
                          /\ MaxFaults \in Nat /\ MaxKept \in Nat

VARIABLES
  pending,    \* the plan in pending_plan.json, or NoPlan
  history,    \* the entries of plan_history.json
  garbled,    \* files whose bytes no longer decode
  counter,    \* PlanStateMachine._counter, relative to its seed
  doing,      \* what each handler awaits
  mine,       \* the plan each handler executes, or NoPlan
  begun,      \* how often the execution of each plan has begun
  cut,        \* plans whose execution was stopped, never came about, or raised
  crashes, faults, kept

disk   == <<pending, history, garbled>>
fates  == <<begun, cut>>
bounds == <<crashes, faults, kept>>
vars   == <<disk, counter, doing, mine, fates, bounds>>

PlanId == 1 .. MaxPlans
NoPlan == 0
TaskId == 0    \* a rollback is filed under the id of a task, which names no plan

Entry == [id : 0 .. MaxPlans, status : {"EXECUTED", "CANCELLED", "EXCEPTION"}, result : BOOLEAN]
Verdict(p, s) == [id |-> p, status |-> s, result |-> FALSE]
RolledBack    == [id |-> TaskId, status |-> "EXCEPTION", result |-> TRUE]

Readable(f) == f \notin garbled

-----------------------------------------------------------------------------
(* The history file: _archive with its rotation, update_executed_result.   *)

\* Mutation: the slice keeps one entry too many
Rotated_OffByOne(s) ==
  IF Len(s) > HistoryMax THEN SubSeq(s, Len(s) - HistoryMax, Len(s)) ELSE s
Rotated(s) ==
  IF Len(s) > HistoryMax THEN SubSeq(s, Len(s) - HistoryMax + 1, Len(s)) ELSE s

Archived(s, e) == Rotated(Append(s, e))

\* Position i is the first entry of plan p.
FirstOf(s, p, i) == s[i].id = p /\ \A j \in 1 .. i - 1 : s[j].id # p

Resulted(e) == [id |-> e.id, status |-> e.status, result |-> TRUE]

\* Mutation: the result goes to whatever entry is the newest
WithResult_Newest(s, p) ==
  [i \in 1 .. Len(s) |-> IF i = Len(s) THEN Resulted(s[i]) ELSE s[i]]
WithResult(s, p) ==
  [i \in 1 .. Len(s) |-> IF FirstOf(s, p, i) THEN Resulted(s[i]) ELSE s[i]]

\* What a write that raises or is cut leaves of the history: all of it when the file
\* was not yet opened.
HistoryTorn ==
  \/ UNCHANGED <<history, garbled>>
  \/ history' = << >> /\ garbled' \in {garbled, garbled \cup {"history"}}

-----------------------------------------------------------------------------
Init ==
  /\ pending = NoPlan /\ history = << >> /\ garbled = {}
  /\ counter = 0
  /\ doing = [h \in Handlers |-> "nothing"]
  /\ mine = [h \in Handlers |-> NoPlan]
  /\ begun = [p \in PlanId |-> 0] /\ cut = {}
  /\ crashes = 0 /\ faults = 0 /\ kept = 0

Becomes(h, d) == doing' = [doing EXCEPT ![h] = d]

(* /plan <description>                                                     *)

\* has_pending, then the CLI is awaited; with a plan pending the command only answers.
AskOutline(h) ==
  /\ doing[h] = "nothing"
  /\ Readable("pending") /\ pending = NoPlan
  /\ Becomes(h, "outline")
  /\ UNCHANGED <<disk, counter, mine, fates, bounds>>

\* create_pending looks again: another /plan may have been faster.
\* Mutation: it does not look again
MayCreate_Unchecked == Readable("pending")
MayCreate == Readable("pending") /\ pending = NoPlan

\* The text of the outline is not modelled: a CLI that failed or timed out returns its
\* error as a text, which is saved like any other.
CreatePending(h) ==
  /\ doing[h] = "outline"
  /\ MayCreate /\ counter < MaxPlans
  /\ counter' = counter + 1
  /\ pending' = counter'
  /\ Becomes(h, "nothing")
  /\ UNCHANGED <<history, garbled, mine, fates, bounds>>

\* ask raised, a plan is pending by now, or the file cannot be read.
NoOutline(h) ==
  /\ doing[h] = "outline"
  /\ Becomes(h, "nothing")
  /\ UNCHANGED <<disk, counter, mine, fates, bounds>>

\* The write of pending_plan.json raises half-way.
CreateFails(h) ==
  /\ doing[h] = "outline"
  /\ MayCreate /\ counter < MaxPlans
  /\ faults < MaxFaults /\ faults' = faults + 1
  /\ counter' = counter + 1
  /\ garbled' \in {garbled, garbled \cup {"pending"}}
  /\ Becomes(h, "nothing")
  /\ UNCHANGED <<pending, history, mine, fates, crashes, kept>>

(* /plan-start, /plan-cancel and /clear: archive, then delete.             *)

CanDecide == Readable("pending") /\ Readable("history") /\ pending # NoPlan

Archive(s) == history' = Archived(history, Verdict(pending, s))

\* Mutation: the pending plan is not deleted
Delete_Not == UNCHANGED <<pending, kept>>
\* _delete_pending swallows the error of an unlink that fails.
Delete ==
  \/ pending' = NoPlan /\ UNCHANGED kept
  \/ kept < MaxKept /\ kept' = kept + 1 /\ UNCHANGED pending

ConfirmPending(h) ==
  /\ doing[h] = "nothing"
  /\ CanDecide /\ Archive("EXECUTED") /\ Delete
  /\ Becomes(h, "execute")
  /\ mine' = [mine EXCEPT ![h] = pending]
  /\ begun' = [begun EXCEPT ![pending] = @ + 1]
  /\ UNCHANGED <<garbled, counter, cut, crashes, faults>>

CancelPending ==
  /\ CanDecide /\ Archive("CANCELLED") /\ Delete
  /\ UNCHANGED <<garbled, counter, doing, mine, fates, crashes, faults>>

\* The write of _archive raises: a verdict is not taken and the plan stays, or the
\* rollback of a task that executes no plan is lost.
ArchiveFails ==
  /\ Readable("history")
  /\ faults < MaxFaults /\ faults' = faults + 1
  /\ HistoryTorn
  /\ UNCHANGED <<pending, counter, doing, mine, fates, crashes, kept>>

(* The end of an execution.                                                *)

Leave(h) == Becomes(h, "nothing") /\ mine' = [mine EXCEPT ![h] = NoPlan]

ExecutionEnds(h) ==
  /\ doing[h] = "execute"
  /\ history' = WithResult(history, mine[h])
  /\ Leave(h)
  /\ UNCHANGED <<pending, garbled, counter, fates, bounds>>

\* The breaker files a rollback under the id of the task; the result follows.
ExecutionTrips(h) ==
  /\ doing[h] = "execute" /\ Readable("history")
  /\ history' = WithResult(Archived(history, RolledBack), mine[h])
  /\ Leave(h)
  /\ UNCHANGED <<pending, garbled, counter, fates, bounds>>

\* /stop cancels the handler, or the registry raises because its log cannot be written:
\* no result is written.
ExecutionStopped(h) ==
  /\ doing[h] = "execute"
  /\ cut' = cut \cup {mine[h]}
  /\ Leave(h)
  /\ UNCHANGED <<disk, counter, begun, bounds>>

\* The write of the result raises, or before it that of the plan's own rollback.
ResultFails(h) ==
  /\ doing[h] = "execute" /\ Readable("history")
  /\ faults < MaxFaults /\ faults' = faults + 1
  /\ HistoryTorn
  /\ cut' = cut \cup {mine[h]}
  /\ Leave(h)
  /\ UNCHANGED <<pending, counter, begun, crashes, kept>>

\* The breaker trips for a task that executes no plan.
TripElsewhere ==
  /\ Readable("history")
  /\ history' = Archived(history, RolledBack)
  /\ UNCHANGED <<pending, garbled, counter, doing, mine, fates, bounds>>

-----------------------------------------------------------------------------
(* A crash takes every handler with it.  It may come between the archiving *)
(* and the deletion of a decided plan, or inside a write.                  *)

HandlersLost ==
  /\ crashes < MaxCrashes /\ crashes' = crashes + 1
  /\ doing' = [h \in Handlers |-> "nothing"]
  /\ mine' = [h \in Handlers |-> NoPlan]
  /\ UNCHANGED <<counter, begun, faults, kept>>

Executed == {mine[h] : h \in {g \in Handlers : doing[g] = "execute"}}

Crash ==
  /\ HandlersLost
  /\ cut' = cut \cup Executed
  /\ UNCHANGED disk

CrashBeforeDelete ==
  /\ HandlersLost /\ CanDecide
  /\ \E s \in {"EXECUTED", "CANCELLED"} : Archive(s)
  /\ cut' = cut \cup Executed \cup {pending}
  /\ UNCHANGED <<pending, garbled>>

CrashInHistoryWrite ==
  /\ HandlersLost /\ Readable("history")
  /\ HistoryTorn
  /\ cut' = cut \cup Executed
  /\ UNCHANGED pending

CrashInPendingWrite ==
  /\ HandlersLost /\ MayCreate
  /\ \E h \in Handlers : doing[h] = "outline"
  /\ garbled' = garbled \cup {"pending"}
  /\ cut' = cut \cup Executed
  /\ UNCHANGED <<pending, history>>

-----------------------------------------------------------------------------
Planning(h)  == AskOutline(h) \/ CreatePending(h) \/ NoOutline(h)
Executing(h) == ExecutionEnds(h) \/ ExecutionTrips(h) \/ ExecutionStopped(h)
Faults    == ArchiveFails \/ \E h \in Handlers : CreateFails(h) \/ ResultFails(h)
Crashes   == Crash \/ CrashBeforeDelete \/ CrashInHistoryWrite \/ CrashInPendingWrite

Next ==
  \/ \E h \in Handlers : Planning(h) \/ ConfirmPending(h) \/ Executing(h)
  \/ CancelPending \/ TripElsewhere
  \/ Faults \/ Crashes

Spec == Init /\ [][Next]_vars

-----------------------------------------------------------------------------
\* Types, and the plan a handler executes is its own.
TypeOK ==
  /\ pending \in PlanId \cup {NoPlan}
  /\ history \in Seq(Entry) /\ Len(history) <= HistoryMax
  /\ garbled \subseteq {"pending", "history"}
  /\ counter \in 0 .. MaxPlans
  /\ doing \in [Handlers -> {"nothing", "outline", "execute"}]
  /\ mine \in [Handlers -> PlanId \cup {NoPlan}]
  /\ \A h \in Handlers : doing[h] = "execute" <=> mine[h] # NoPlan
  /\ begun \in [PlanId -> Nat] /\ cut \subseteq 1 .. MaxPlans
  /\ crashes \in 0 .. MaxCrashes /\ faults \in 0 .. MaxFaults /\ kept \in 0 .. MaxKept

\* The handlers that execute plan p.
Runners(p) == {h \in Handlers : doing[h] = "execute" /\ mine[h] = p}

\* A plan is executed once, and once more for each unlink that failed: what the plan may
\* still begin (it is pending) and has begun never exceeds that, whatever crashed in
\* between, and no more handlers execute it than have begun to, however many /plan-start
\* arrive at a time.
RunsOnce ==
  \A p \in PlanId :
    /\ begun[p] + (IF pending = p THEN 1 ELSE 0) <= 1 + kept
    /\ IsFiniteSet(Runners(p)) /\ Cardinality(Runners(p)) <= begun[p]

\* Inductive: every plan known is numbered by the counter, and no other has begun.
IInv ==
  /\ TypeOK /\ RunsOnce
  /\ pending <= counter
  /\ \A p \in PlanId : p > counter => begun[p] = 0

\* A pending plan leaves its file only when its verdict is the newest entry of the
\* history: a second /plan that was already awaiting its outline never replaces it.
PendingKept ==
  [][ pending # NoPlan /\ pending' # pending
        => history' # << >> /\ history'[Len(history')].id = pending ]_vars

\* Without a failed unlink, the history holds one verdict for each plan, whatever commands
\* overlap; a crash between archive and unlink lets a plan be decided again, but only a plan
\* whose execution has been cut short.
OneVerdict ==
  kept = 0 =>
    \A i, j \in 1 .. Len(history) :
      history[i].id = history[j].id /\ history[i].id # TaskId
        => i = j \/ (crashes > 0 /\ history[i].id \in cut)

\* Without a failed unlink, an executed plan that shows no result is still being executed
\* or was cut short by a /stop, a crash or an exception: rotation, rollbacks, repeated
\* verdicts and the results of other plans do not make one go astray.
ResultsArrive ==
  kept = 0 =>
    \A i \in 1 .. Len(history) :
      history[i].status = "EXECUTED" /\ ~history[i].result
        => history[i].id \in Executed \cup cut

\* The newest entry of a history, without its result.
Summary(s) ==
  IF s = << >> THEN [id |-> NoPlan, status |-> "NONE"]
  ELSE [id |-> s[Len(s)].id, status |-> s[Len(s)].status]

Newest == Summary(history)

Desk == INSTANCE PlanDesk WITH
  Plans <- PlanId, waiting <- pending, issued <- 1 .. counter, starts <- begun,
  restored <- kept, newest <- Newest

\* The two files implement the desk of PlanDesk: an execution is begun only by the step
\* that puts the verdict of the pending plan on record, and a new plan only where none is.
ImplementsDesk == Desk!DeskSpec
=============================================================================
