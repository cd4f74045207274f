---------------------------- MODULE Notifications ----------------------------
(***************************************************************************)
(* One session in the notification hook of agent-qq (notifications/        *)
(* service.py with its store and limiter).  The Claude CLI starts one hook *)
(* process for every event of the session; a start event leaves a monitor  *)
(* process behind that sends heartbeats.  They share two files under       *)
(* data/notify-state:                                                      *)
(*                                                                         *)
(*   <session>.json   done, number of messages sent       -> session        *)
(*   <session>.lock   that the session has a monitor     -> lock           *)
(*                                                                         *)
(* Each read and each write of a file is one step; what a process has read *)
(* stays in its copy until it writes.  Between the two it sends a message  *)
(* over a connection of its own, if the limits over all sessions (in       *)
(* global.json, not modelled) let it.  Time is not modelled either:        *)
(* cooldowns, intervals and ages are left open.  A send may raise before   *)
(* or after its message has left, and so may every write of a file, as all *)
(* processes write through one temporary file: `lost` counts the messages  *)
(* of the budget that may then be missing in the session's count.          *)
(***************************************************************************)
EXTENDS Naturals

CONSTANTS
  Hooks,        \* hook processes that run at the same time
  Monitors,     \* monitor processes that run at the same time
  Budget,       \* claude_notify_session_budget
  MaxAccidents  \* bound on processes that are killed, or that raise where a message
                \* of the budget may be lost from the count

ASSUME ProcessAssumption == Hooks \cap Monitors = {}
ASSUME BudgetAssumption == Budget \in Nat
ASSUME BoundAssumption == MaxAccidents \in Nat

VARIABLES
  session,    \* <session>.json
  lock,       \* <session>.lock: "none", "fresh", or "old" when its TTL is over
  proc,       \* each process: its step, its event, what it has read
  budgeted,   \* messages of the session that its budget applies to
  crossed,    \* whether a process read the session between another's read and write
  kills,
  lost        \* hooks of a limited event that an exception ended with their
              \* message sent, or with the session unwritten

accidents == <<kills, lost>>
vars == <<session, lock, proc, budgeted, crossed, accidents>>

Procs == Hooks \cup Monitors

Limited == {"start", "stage"}                  \* success events are stages
Events  == Limited \cup {"failure", "stop"}
Kinds   == Events \cup {"heartbeat"}
Steps   == {"send", "recheck", "write", "lockCheck", "lockWrite", "spawn",
            "unlock", "sleep", "refresh"}

Sessions   == [done : BOOLEAN, sent : 0 .. Budget]
NewSession == [done |-> FALSE, sent |-> 0]
NoSession  == [done |-> FALSE, sent |-> Budget + 1]
MaybeSession == Sessions \cup {NoSession}

Records == [step : Steps \cup {"off"}, kind : Kinds \cup {"none"}, copy : MaybeSession]
Idle == [step |-> "off", kind |-> "none", copy |-> NoSession]

Becomes(p, r) == proc' = [proc EXCEPT ![p] = r]
Goes(p, s)    == proc' = [proc EXCEPT ![p].step = s]
At(p, s)      == proc[p].step = s

Init ==
  /\ session = NoSession /\ lock = "none"
  /\ proc = [p \in Procs |-> Idle]
  /\ budgeted = 0 /\ crossed = FALSE /\ kills = 0 /\ lost = 0

-----------------------------------------------------------------------------
(* An event: the session is read and the session's own limits decide.      *)

\* _ensure_state; handle_start fills in the same values.
Read == IF session = NoSession THEN NewSession ELSE session

\* What handle_start and handle_stop set before they write.
\* Mutation: every event but a stop reopens the session
Marked_Reopens(k, s) == IF k = "stop" THEN [s EXCEPT !.done = TRUE] ELSE [s EXCEPT !.done = FALSE]
Marked(k, s) ==
  CASE k = "start" -> [s EXCEPT !.done = FALSE]
    [] k = "stop"  -> [s EXCEPT !.done = TRUE]
    [] OTHER       -> s

\* should_send_start, _stage, _success, _failure and _stop, but for cooldowns and
\* duplicates.  A session that is done has stop_sent_at: handle_stop sets both.
\* Mutation: the budget is compared with >
MaySend_OneMore(k, s) == (k \in Limited => s.sent <= Budget) /\ (k = "stop" => ~s.done)
MaySend(k, s) ==
  /\ k \in Limited => s.sent < Budget
  /\ k = "stop" => ~s.done

\* p reads what it will write while another process has not written yet.
Crosses(p) == crossed' = (crossed \/ \E q \in Procs \ {p} : proc[q].copy # NoSession)

Event(h, k) ==
  /\ At(h, "off")
  /\ \E s \in {"send", "write"} :
       /\ s = "send" => MaySend(k, Read)
       /\ Becomes(h, [step |-> s, kind |-> k, copy |-> Marked(k, Read)])
  /\ Crosses(h)
  /\ UNCHANGED <<session, lock, budgeted, accidents>>

-----------------------------------------------------------------------------
(* _send                                                                   *)

\* sent_count is only compared with the budget.
Counted(s) == IF s.sent < Budget THEN [s EXCEPT !.sent = @ + 1] ELSE s

AfterSend(p, s) == [proc[p] EXCEPT !.step = IF p \in Monitors THEN "recheck" ELSE "write",
                                   !.copy = s]

\* budgeted is counted as far, and as long, as BudgetKept can tell.
Highest == Budget + MaxAccidents + 1

\* A message of kind k has left.
Leaves(k) ==
  budgeted' = IF k \in Limited /\ ~crossed /\ budgeted < Highest THEN budgeted + 1 ELSE budgeted

Send(p) ==
  /\ At(p, "send")
  /\ Becomes(p, AfterSend(p, Counted(proc[p].copy)))
  /\ Leaves(proc[p].kind)
  /\ UNCHANGED <<session, lock, crossed, accidents>>

\* should_send_global declines; failures and stops do not ask.
Declined(p) ==
  /\ At(p, "send")
  /\ proc[p].kind \in Limited \cup {"heartbeat"}
  /\ Becomes(p, AfterSend(p, proc[p].copy))
  /\ UNCHANGED <<session, lock, budgeted, crossed, accidents>>

\* An exception ends the process.  A hook writes nothing more; a monitor passes
\* its finally clause.
\* Mutation: the lock is released only where the loop returns
Failing_NoFinally(p) == Becomes(p, Idle)
Failing(p) ==
  Becomes(p, IF p \in Monitors THEN [Idle EXCEPT !.step = "unlock", !.kind = "heartbeat"]
                               ELSE Idle)

\* An event that the budget applies to may now be missing in the count.
Loses(k) ==
  IF k \in Limited THEN kills + lost < MaxAccidents /\ lost' = lost + 1 ELSE UNCHANGED lost

\* No connection, or a send that raises: nothing has left.  Or one recipient has the
\* message and the next one's send, the closing of the connection or write_global raises.
SendFails(p) ==
  /\ At(p, "send")
  /\ Failing(p)
  /\ \/ UNCHANGED <<budgeted, lost>>
     \/ Leaves(proc[p].kind) /\ Loses(proc[p].kind)
  /\ UNCHANGED <<session, lock, crossed, kills>>

-----------------------------------------------------------------------------
(* The end of a hook, and the monitor's lock.                              *)

\* _write_if_not_done of a monitor, first half.
Recheck(m) ==
  /\ At(m, "recheck")
  /\ Becomes(m, IF session.done THEN [proc[m] EXCEPT !.step = "sleep", !.copy = NoSession]
                                ELSE [proc[m] EXCEPT !.step = "write"])
  /\ UNCHANGED <<session, lock, budgeted, crossed, accidents>>

AfterWrite(k) ==
  CASE k = "start"     -> "lockCheck"
    [] k = "stop"      -> "unlock"
    [] k = "heartbeat" -> "sleep"
    [] OTHER           -> "off"

\* Processes that write at the same time write into one temporary file, and what
\* comes out may be the text of the other, or no JSON, which reads as no session.
Mixed(p) == UNION {{NoSession, proc[q].copy} : q \in {q \in Procs \ {p} : At(q, "write")}}

Write(p) ==
  /\ At(p, "write")
  /\ session' \in {proc[p].copy} \cup Mixed(p)
  /\ LET next == AfterWrite(proc[p].kind) IN
       Becomes(p, IF next = "off" THEN Idle
                  ELSE [proc[p] EXCEPT !.step = next, !.copy = NoSession])
  /\ UNCHANGED <<lock, budgeted, crossed, accidents>>

\* Another process has renamed the temporary file, or it cannot be written.
WriteFails(p) ==
  /\ At(p, "write")
  /\ Failing(p)
  /\ Loses(proc[p].kind)
  /\ UNCHANGED <<session, lock, budgeted, crossed, kills>>

\* acquire_monitor_lock, by _spawn_monitor and by the monitor itself: a check,
\* the removal of a lock that is too old, and a write.
LockCheck(p) ==
  /\ At(p, "lockCheck")
  /\ IF lock = "fresh" THEN Becomes(p, Idle) /\ UNCHANGED lock
                       ELSE Goes(p, "lockWrite") /\ lock' = "none"
  /\ UNCHANGED <<session, budgeted, crossed, accidents>>

LockWrite(p) ==
  /\ At(p, "lockWrite")
  /\ lock' = "fresh"
  /\ Goes(p, IF p \in Monitors THEN "sleep" ELSE "spawn")
  /\ UNCHANGED <<session, budgeted, crossed, accidents>>

\* The exception leaves acquire_monitor_lock, and with it the process: the finally
\* clause of handle_monitor is not reached yet.
LockWriteFails(p) ==
  /\ At(p, "lockWrite")
  /\ Becomes(p, Idle)
  /\ UNCHANGED <<session, lock, budgeted, crossed, accidents>>

\* The lock is released for the monitor that is started, or cannot be.
Spawn(h) ==
  /\ At(h, "spawn")
  /\ lock' = "none"
  /\ \/ Becomes(h, Idle)
     \/ \E m \in Monitors :
          /\ At(m, "off")
          /\ proc' = [proc EXCEPT ![h] = Idle,
                        ![m] = [Idle EXCEPT !.step = "lockCheck", !.kind = "heartbeat"]]
  /\ UNCHANGED <<session, budgeted, crossed, accidents>>

\* The end of handle_stop, and the finally clause of handle_monitor.
Unlock(p) ==
  /\ At(p, "unlock")
  /\ lock' = "none"
  /\ Becomes(p, Idle)
  /\ UNCHANGED <<session, budgeted, crossed, accidents>>

-----------------------------------------------------------------------------
(* The monitor's loop.                                                     *)

\* Mutation: the monitor ends only when the session is gone
Over_GoneOnly(s) == s = NoSession
Over(s) == s = NoSession \/ s.done

\* It keeps what it has read when a heartbeat is due.
Tick(m) ==
  /\ At(m, "sleep")
  /\ \/ /\ Over(session)
        /\ Goes(m, "unlock")
        /\ UNCHANGED crossed
     \/ /\ ~Over(session)
        /\ \/ Becomes(m, [proc[m] EXCEPT !.step = "refresh"]) /\ UNCHANGED crossed
           \/ /\ Becomes(m, [proc[m] EXCEPT !.step = "refresh", !.copy = session])
              /\ Crosses(m)
  /\ UNCHANGED <<session, lock, budgeted, accidents>>

Refresh(m) ==
  /\ At(m, "refresh")
  /\ lock' = "fresh"
  /\ Goes(m, IF proc[m].copy = NoSession THEN "sleep" ELSE "send")
  /\ UNCHANGED <<session, budgeted, crossed, accidents>>

RefreshFails(m) ==
  /\ At(m, "refresh")
  /\ Failing(m)
  /\ UNCHANGED <<session, lock, budgeted, crossed, accidents>>

-----------------------------------------------------------------------------
(* Time and accidents.                                                     *)

LockAges ==
  /\ lock = "fresh" /\ lock' = "old"
  /\ UNCHANGED <<session, proc, budgeted, crossed, accidents>>

\* cleanup_expired of any hook: nothing happened in the session for a day, or
\* its lock has been left alone for a day.  Every hook of the session writes its time.
CleanupExpired ==
  /\ \A h \in Hooks : proc[h].copy = NoSession
  /\ \/ /\ session # NoSession
        /\ session' = NoSession /\ budgeted' = 0 /\ UNCHANGED lock
     \/ /\ lock = "old"
        /\ lock' = "none" /\ UNCHANGED <<session, budgeted>>
  /\ UNCHANGED <<proc, crossed, accidents>>

Killed(p) ==
  /\ kills + lost < MaxAccidents
  /\ ~At(p, "off")
  /\ Becomes(p, Idle)
  /\ kills' = kills + 1
  /\ UNCHANGED <<session, lock, budgeted, crossed, lost>>

-----------------------------------------------------------------------------
Sending(p) == Send(p) \/ Declined(p) \/ SendFails(p)
Writing(p) == Write(p) \/ WriteFails(p)
Locking(p) == LockCheck(p) \/ LockWrite(p) \/ LockWriteFails(p) \/ Unlock(p)
Hook(h)    == Sending(h) \/ Writing(h) \/ Locking(h) \/ Spawn(h)
Looping(m) == Tick(m) \/ Refresh(m) \/ RefreshFails(m)
Monitor(m) == Sending(m) \/ Recheck(m) \/ Writing(m) \/ Locking(m) \/ Looping(m)
Arrivals   == \E h \in Hooks, k \in Events : Event(h, k)
World      == LockAges \/ CleanupExpired \/ (\E p \in Procs : Killed(p))

Next ==
  \/ Arrivals
  \/ \E h \in Hooks : Hook(h)
  \/ \E m \in Monitors : Monitor(m)
  \/ World

Spec == Init /\ [][Next]_vars

\* The operating system runs every process, and every send ends or fails.
Fairness ==
  /\ \A h \in Hooks : WF_vars(Hook(h))
  /\ \A m \in Monitors : WF_vars(Monitor(m))
FairSpec == Spec /\ Fairness

-----------------------------------------------------------------------------
(* Properties                                                              *)

\* Each variable keeps its type, and only a process on its way to a write
\* holds a copy of a file.
TypeOK ==
  /\ session \in MaybeSession
  /\ lock \in {"none", "fresh", "old"}
  /\ proc \in [Procs -> Records]
  /\ \A p \in Procs :
       /\ proc[p].step \in {"send", "recheck", "write"} => proc[p].copy \in Sessions
       /\ proc[p].copy # NoSession => proc[p].step \in {"send", "recheck", "write", "refresh"}
  /\ budgeted \in 0 .. Highest
  /\ crossed \in BOOLEAN
  /\ kills \in Nat /\ lost \in Nat /\ kills + lost <= MaxAccidents

\* A start hook that has just tried the lock, or a monitor that has acquired it.
WillRelease(p) ==
  \/ At(p, "spawn")
  \/ p \in Monitors /\ proc[p].step \notin {"off", "lockCheck", "lockWrite"}

\* A lock is never left behind by processes that were not killed, although every
\* process removes and overwrites the lock of any other (acquire_monitor_lock,
\* release_monitor_lock): the last one that wrote it is still there to remove it.
LockIsHeld == kills = 0 /\ lock # "none" => \E p \in Procs : WillRelease(p)

\* As long as no two processes overlap on <session>.json, start, stage and success
\* messages stay within the session's budget, with heartbeats, failures and stops counted
\* in, and a process that is killed, or that an exception ends after its message has left
\* or in its write, costs at most the one message it had not written down
\* (_budget_decision, _send, write_session).
BudgetKept == ~crossed => budgeted <= Budget + kills + lost

\* As long as no two processes overlap on <session>.json, a stop stands until the session
\* starts again or is forgotten: no copy that a stage, a failure or a heartbeat read, kept
\* while it sent and wrote back takes it back, a process killed half-way included
\* (handle_stage, handle_failure, _write_if_not_done).
StopStays ==
  [][~crossed /\ session.done =>
       \/ session'.done \/ session' = NoSession
       \/ \E h \in Hooks : At(h, "write") /\ proc[h].kind = "start"]_vars

\* Hooks handle events, monitors send heartbeats, and a message that the budget
\* applies to was allowed by it.
RoleInv ==
  /\ \A h \in Hooks : ~At(h, "off") => proc[h].kind \in Events
  /\ \A m \in Monitors : ~At(m, "off") => proc[m].kind = "heartbeat"
  /\ \A p \in Procs : At(p, "send") /\ proc[p].kind \in Limited => proc[p].copy.sent < Budget

\* Without overlaps one process at a time holds the session, and the session counts every
\* message of the budget but those of processes that were killed or raised, and of a hook
\* about to write it.
CountInv == ~crossed =>
  /\ \A p, q \in Procs : proc[p].copy # NoSession /\ proc[q].copy # NoSession => p = q
  /\ \A p \in Procs : proc[p].copy # NoSession => budgeted <= proc[p].copy.sent + kills + lost
  /\ (\A h \in Hooks : At(h, "write") => proc[h].kind \notin Limited) =>
       budgeted <= Read.sent + kills + lost
  /\ budgeted <= Read.sent + kills + lost + 1

\* What a process holds says of a stop what its own event says or what the file says.
Agrees(p) ==
  proc[p].copy # NoSession =>
    CASE proc[p].kind = "start"     -> TRUE
      [] proc[p].kind = "stop"      -> proc[p].copy.done
      [] proc[p].kind = "heartbeat" -> ~proc[p].copy.done /\ ~session.done
      [] OTHER                      -> proc[p].copy.done = session.done

\* Without overlaps one process at a time holds the session, and agrees with it.
CopyInv == ~crossed =>
  /\ \A p, q \in Procs : proc[p].copy # NoSession /\ proc[q].copy # NoSession => p = q
  /\ \A p \in Procs : Agrees(p)

\* The inductive invariant: what each process is about to do and to write agrees
\* with the files (service.py).
FilesInv == TypeOK /\ RoleInv /\ LockIsHeld /\ CountInv
IInv == FilesInv /\ CopyInv

\* When a session stays stopped or forgotten, every monitor ends, even one that was
\* left from before the stop or that lost its lock (handle_monitor).
MonitorsEnd ==
  <>[](session = NoSession \/ session.done) => <>[](\A m \in Monitors : At(m, "off"))

\* A heartbeat does not take back a stop: _write_if_not_done re-checks the done
\* flag "to avoid race with handle_stop" (service.py).  Violated: the check and
\* the write are two steps, and the stop may be written in between.
HeartbeatKeepsStop ==
  [][\A m \in Monitors : At(m, "write") /\ proc'[m].step = "sleep" => ~session.done]_vars
=============================================================================
