----------------------------- MODULE MCTaskQueue -----------------------------
(***************************************************************************)
(* TaskQueue with one more user: somebody who sets a busy slot back to     *)
(* idle in worker_state.json.  Without that step the pool never takes its  *)
(* cleanup branch (CleanupUnreachable); with it the branch can be checked. *)
(***************************************************************************)
EXTENDS TaskQueue

\* A slot set to idle by hand in worker_state.json.
OperatorReset(w) ==
  /\ workers[w] # NoTask
  /\ workers' = [workers EXCEPT ![w] = NoTask]
  /\ UNCHANGED <<tasks, mainVars, cleanVars, pool, tickVars, procVars, bounds>>

ResetNext == Next \/ \E w \in Slots : OperatorReset(w)
ResetSpec == Init /\ [][ResetNext]_vars /\ WF_vars(Scheduler) /\ WF_vars(Pool)

\* Once somebody sets the slot of a finished run to idle, the pool lets go of the run.
ReapAfterReset ==
  \A w \in PoolSlots :
    (workers[w] = NoTask /\ procs[w] # NoTask /\ exit[w] # "none")
      ~> (procs[w] = NoTask \/ workers[w] # NoTask)
=============================================================================
