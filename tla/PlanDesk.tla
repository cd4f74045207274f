------------------------------ MODULE PlanDesk ------------------------------
(***************************************************************************)
(* What the plan commands of agent-qq promise, without files, handlers or  *)
(* rotation: one plan at a time lies on the desk and awaits a decision,    *)
(* every plan is a new one, an execution is started only for the plan on   *)
(* the desk and only with the verdict that sets it going on record, and    *)
(* the verdict takes the plan off the desk, unless the deletion is lost.   *)
(*                                                                         *)
(* PlanMachine implements it, whatever crashes, faults and concurrent      *)
(* commands do to its two files.                                           *)
(***************************************************************************)
EXTENDS Naturals

CONSTANTS Plans, NoPlan

VARIABLES
  waiting,    \* the plan that awaits a decision, or NoPlan
  issued,     \* the plans there have been
  starts,     \* how often the execution of each plan was started
  restored,   \* verdicts after which the plan lay on the desk again
  newest      \* the last verdict on record, or NoVerdict

desk == <<waiting, issued, starts, restored, newest>>

NoVerdict == [id |-> NoPlan, status |-> "NONE"]
RolledBack == [id |-> NoPlan, status |-> "EXCEPTION"]
Decided(p, s) == [id |-> p, status |-> s]

DeskInit ==
  /\ waiting = NoPlan /\ issued = {}
  /\ starts = [p \in Plans |-> 0] /\ restored = 0
  /\ newest = NoVerdict

\* A new plan, which is on the desk unless it could not be saved.
Offer(p) ==
  /\ waiting = NoPlan /\ p \notin issued
  /\ issued' = issued \cup {p}
  /\ waiting' \in {NoPlan, p}
  /\ UNCHANGED <<starts, restored, newest>>

Cleared ==
  \/ waiting' = NoPlan /\ UNCHANGED restored
  \/ restored' = restored + 1 /\ UNCHANGED waiting

Approve ==
  /\ waiting # NoPlan /\ Cleared
  /\ newest' = Decided(waiting, "EXECUTED")
  /\ starts' = [starts EXCEPT ![waiting] = @ + 1]
  /\ UNCHANGED issued

Reject ==
  /\ waiting # NoPlan /\ Cleared
  /\ newest' = Decided(waiting, "CANCELLED")
  /\ UNCHANGED <<issued, starts>>

\* The bot dies with the verdict on record and the plan on the desk: nothing was started.
Interrupted ==
  /\ waiting # NoPlan
  /\ newest' \in {Decided(waiting, s) : s \in {"EXECUTED", "CANCELLED"}}
  /\ UNCHANGED <<waiting, issued, starts, restored>>

\* The record takes a rollback, or is lost.
Overwritten ==
  /\ newest' \in {RolledBack, NoVerdict}
  /\ UNCHANGED <<waiting, issued, starts, restored>>

DeskNext == (\E p \in Plans : Offer(p)) \/ Approve \/ Reject \/ Interrupted \/ Overwritten

DeskSpec == DeskInit /\ [][DeskNext]_desk
=============================================================================
