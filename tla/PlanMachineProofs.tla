-------------------------- MODULE PlanMachineProofs --------------------------
(***************************************************************************)
(* Proofs about PlanMachine: its types, that no plan is executed twice     *)
(* unless an unlink failed, and that a pending plan is never replaced.     *)
(***************************************************************************)
EXTENDS PlanMachine, FiniteSetTheorems, TLAPS

(***************************************************************************)
(* The sequences that _archive and update_executed_result write            *)
(***************************************************************************)

LEMMA ArchivedLemma ==
  ASSUME NEW s \in Seq(Entry), NEW e \in Entry
  PROVE  /\ Archived(s, e) \in Seq(Entry)
         /\ Len(Archived(s, e)) \in 1 .. HistoryMax
         /\ Archived(s, e)[Len(Archived(s, e))] = e
<1> DEFINE a == Append(s, e)
<1>1. a \in Seq(Entry) /\ Len(a) \in Nat \ {0} /\ a[Len(a)] = e
  OBVIOUS
<1>2. CASE Len(a) > HistoryMax
  <2> DEFINE m == Len(a) - HistoryMax + 1
  <2>1. m \in 1 .. Len(a) /\ Archived(s, e) = SubSeq(a, m, Len(a))
    BY <1>1, <1>2, HistoryAssumption DEF Archived, Rotated
  <2> HIDE DEF a
  <2>2. \A i \in m .. Len(a) : a[i] \in Entry
    BY <1>1, <2>1
  <2>3. SubSeq(a, m, Len(a)) \in Seq(Entry)
    BY <1>1, <2>1, <2>2
  <2>4. Len(SubSeq(a, m, Len(a))) = HistoryMax
    BY <1>1, <1>2, <2>1, HistoryAssumption
  <2>5. SubSeq(a, m, Len(a))[HistoryMax] = a[Len(a)]
    BY <1>1, <1>2, <2>1, HistoryAssumption
  <2> QED
    BY <1>1, <2>1, <2>3, <2>4, <2>5, HistoryAssumption
<1>3. CASE ~(Len(a) > HistoryMax)
  <2>1. Archived(s, e) = a
    BY <1>3 DEF Archived, Rotated
  <2> QED
    BY <1>1, <1>3, <2>1, HistoryAssumption
<1> QED
  BY <1>2, <1>3

LEMMA WithResultLemma ==
  ASSUME NEW s \in Seq(Entry), NEW p
  PROVE  WithResult(s, p) \in Seq(Entry) /\ Len(WithResult(s, p)) = Len(s)
<1>1. \A e \in Entry : Resulted(e) \in Entry
  BY DEF Entry, Resulted
<1>2. \A i \in 1 .. Len(s) : s[i] \in Entry
  OBVIOUS
<1> QED
  BY <1>1, <1>2 DEF WithResult

LEMMA VerdictLemma ==
  ASSUME NEW p \in PlanId, NEW v \in {"EXECUTED", "CANCELLED"}
  PROVE  Verdict(p, v) \in Entry /\ Verdict(p, v).id = p
BY DEF Verdict, Entry, PlanId

LEMMA RolledBackLemma == RolledBack \in Entry
BY BoundAssumption DEF RolledBack, Entry, TaskId

LEMMA NoPlanLemma == NoPlan \notin PlanId /\ NoPlan = 0
BY DEF NoPlan, PlanId

(***************************************************************************)
(* Type correctness                                                        *)
(***************************************************************************)

\* Every action keeps every variable within its type.
LEMMA TypeStep == TypeOK /\ [Next]_vars => TypeOK'
<1> SUFFICES ASSUME TypeOK, [Next]_vars PROVE TypeOK'
  OBVIOUS
<1> USE BoundAssumption, NoPlanLemma
<1>1. ASSUME NEW h \in Handlers, Planning(h) PROVE TypeOK'
  <2>1. CASE AskOutline(h)
    BY <2>1 DEF TypeOK, AskOutline, Becomes, disk, fates, bounds
  <2>2. CASE CreatePending(h)
    <3>1. counter' \in 1 .. MaxPlans /\ counter' \in 0 .. MaxPlans
      BY <2>2 DEF CreatePending, TypeOK
    <3>2. pending' \in PlanId
      BY <2>2, <3>1 DEF CreatePending, PlanId
    <3> QED
      BY <2>2, <3>1, <3>2 DEF TypeOK, CreatePending, Becomes, fates, bounds
  <2>3. CASE NoOutline(h)
    BY <2>3 DEF TypeOK, NoOutline, Becomes, disk, fates, bounds
  <2> QED
    BY <1>1, <2>1, <2>2, <2>3 DEF Planning
<1>2. ASSUME NEW v \in {"EXECUTED", "CANCELLED"}, CanDecide, Archive(v)
      PROVE  history' \in Seq(Entry) /\ Len(history') <= HistoryMax
  <2>1. pending \in PlanId
    BY <1>2 DEF TypeOK, CanDecide
  <2>2. Verdict(pending, v) \in Entry /\ history \in Seq(Entry)
    BY <2>1, VerdictLemma DEF TypeOK
  <2>3. history' = Archived(history, Verdict(pending, v))
    BY <1>2 DEF Archive
  <2> QED
    BY <2>2, <2>3, ArchivedLemma, HistoryAssumption
<1>3. ASSUME Delete PROVE pending' \in PlanId \cup {NoPlan} /\ kept' \in 0 .. MaxKept
  BY <1>3 DEF Delete, TypeOK
<1>4. ASSUME NEW h \in Handlers, ConfirmPending(h) PROVE TypeOK'
  <2>1. pending \in PlanId /\ pending # NoPlan
    BY <1>4 DEF ConfirmPending, CanDecide, TypeOK
  <2>2. pending \in 1 .. MaxPlans
    BY <2>1 DEF PlanId
  <2>3. /\ doing' \in [Handlers -> {"nothing", "outline", "execute"}]
        /\ mine' \in [Handlers -> PlanId \cup {NoPlan}]
        /\ \A g \in Handlers : doing'[g] = "execute" <=> mine'[g] # NoPlan
    BY <1>4, <2>1 DEF ConfirmPending, Becomes, TypeOK
  <2>4. begun' \in [PlanId -> Nat]
    BY <1>4, <2>1 DEF ConfirmPending, TypeOK
  <2> QED
    BY <1>2, <1>3, <1>4, <2>2, <2>3, <2>4 DEF TypeOK, ConfirmPending
<1>5. CASE CancelPending
  BY <1>2, <1>3, <1>5 DEF TypeOK, CancelPending, fates
<1>6. ASSUME HistoryTorn
      PROVE  /\ history' \in Seq(Entry) /\ Len(history') <= HistoryMax
             /\ garbled' \subseteq {"pending", "history"}
  <2>1. history \in Seq(Entry) /\ Len(history) <= HistoryMax /\ garbled \subseteq {"pending", "history"}
    BY DEF TypeOK
  <2>2. CASE UNCHANGED <<history, garbled>>
    BY <2>1, <2>2
  <2>3. CASE history' = << >> /\ garbled' \in {garbled, garbled \cup {"history"}}
    BY <2>1, <2>3, HistoryAssumption
  <2> QED
    BY <1>6, <2>2, <2>3 DEF HistoryTorn
<1>7. ASSUME NEW h \in Handlers, Leave(h)
      PROVE  /\ doing' \in [Handlers -> {"nothing", "outline", "execute"}]
             /\ mine' \in [Handlers -> PlanId \cup {NoPlan}]
             /\ \A g \in Handlers : doing'[g] = "execute" <=> mine'[g] # NoPlan
  BY <1>7 DEF Leave, Becomes, TypeOK
<1>8. ASSUME NEW h \in Handlers, Executing(h) PROVE TypeOK'
  <2>1. doing[h] = "execute" /\ Leave(h)
    BY <1>8 DEF Executing, ExecutionEnds, ExecutionTrips, ExecutionStopped
  <2>2. mine[h] \in 1 .. MaxPlans
    BY <2>1 DEF TypeOK, PlanId
  <2>3. CASE ExecutionEnds(h)
    BY <1>7, <2>1, <2>3, WithResultLemma DEF TypeOK, ExecutionEnds, fates, bounds
  <2>4. CASE ExecutionTrips(h)
    <3>1. history' \in Seq(Entry) /\ Len(history') <= HistoryMax
      BY <2>4, ArchivedLemma, WithResultLemma, RolledBackLemma, HistoryAssumption
         DEF TypeOK, ExecutionTrips
    <3> QED
      BY <1>7, <2>1, <2>2, <2>4, <3>1 DEF TypeOK, ExecutionTrips, fates, bounds
  <2>5. CASE ExecutionStopped(h)
    BY <1>7, <2>1, <2>2, <2>5 DEF TypeOK, ExecutionStopped, disk, bounds
  <2> QED
    BY <1>8, <2>3, <2>4, <2>5 DEF Executing
<1>9. CASE TripElsewhere
  <2>1. history' \in Seq(Entry) /\ Len(history') <= HistoryMax
    BY <1>9, ArchivedLemma, RolledBackLemma, HistoryAssumption DEF TypeOK, TripElsewhere
  <2> QED
    BY <1>9, <2>1 DEF TypeOK, TripElsewhere, fates, bounds
<1>10. CASE Faults
  <2>1. CASE ArchiveFails
    BY <1>6, <2>1 DEF TypeOK, ArchiveFails, fates
  <2>2. ASSUME NEW h \in Handlers, CreateFails(h) PROVE TypeOK'
    BY <2>2 DEF TypeOK, CreateFails, Becomes, fates
  <2>3. ASSUME NEW h \in Handlers, ResultFails(h) PROVE TypeOK'
    <3>1. mine[h] \in 1 .. MaxPlans
      BY <2>3 DEF TypeOK, PlanId, ResultFails
    <3>2. Leave(h) /\ HistoryTorn
      BY <2>3 DEF ResultFails
    <3>3. /\ UNCHANGED <<pending, counter, begun, crashes, kept>>
          /\ faults' \in 0 .. MaxFaults /\ cut' \subseteq 1 .. MaxPlans
      <4>1. UNCHANGED <<pending, counter, begun, crashes, kept>>
        BY <2>3 DEF ResultFails
      <4>2. faults < MaxFaults /\ faults' = faults + 1 /\ faults \in 0 .. MaxFaults
        BY <2>3 DEF TypeOK, ResultFails
      <4>3. cut' = cut \cup {mine[h]} /\ cut \subseteq 1 .. MaxPlans
        BY <2>3 DEF TypeOK, ResultFails
      <4>4. cut' \subseteq 1 .. MaxPlans
        BY <3>1, <4>3
      <4>5. faults' \in 0 .. MaxFaults
        BY <4>2, BoundAssumption
      <4> QED
        BY <4>1, <4>4, <4>5
    <3>4. /\ history' \in Seq(Entry) /\ Len(history') <= HistoryMax
          /\ garbled' \subseteq {"pending", "history"}
      BY <1>6, <3>2
    <3> QED
      BY <1>7, <3>2, <3>3, <3>4 DEF TypeOK
  <2> QED
    BY <1>10, <2>1, <2>2, <2>3 DEF Faults
<1>11. CASE Crashes
  <2>1. HandlersLost
    BY <1>11 DEF Crashes, Crash, CrashBeforeDelete, CrashInHistoryWrite, CrashInPendingWrite
  <2>2. /\ counter' \in 0 .. MaxPlans /\ crashes' \in 0 .. MaxCrashes
        /\ faults' \in 0 .. MaxFaults /\ kept' \in 0 .. MaxKept
        /\ begun' \in [PlanId -> Nat]
        /\ doing' \in [Handlers -> {"nothing", "outline", "execute"}]
        /\ mine' \in [Handlers -> PlanId \cup {NoPlan}]
        /\ \A g \in Handlers : doing'[g] = "execute" <=> mine'[g] # NoPlan
    BY <2>1 DEF HandlersLost, TypeOK
  <2>3. Executed \subseteq 1 .. MaxPlans
    BY DEF Executed, TypeOK, PlanId
  <2>4. CASE Crash
    BY <2>2, <2>3, <2>4 DEF TypeOK, Crash, disk
  <2>5. CASE CrashBeforeDelete
    <3>1. history' \in Seq(Entry) /\ Len(history') <= HistoryMax
      BY <1>2, <2>5 DEF CrashBeforeDelete
    <3>2. pending \in 1 .. MaxPlans
      BY <2>5 DEF CrashBeforeDelete, CanDecide, TypeOK, PlanId
    <3> QED
      BY <2>2, <2>3, <2>5, <3>1, <3>2 DEF TypeOK, CrashBeforeDelete
  <2>6. CASE CrashInHistoryWrite
    BY <1>6, <2>2, <2>3, <2>6 DEF TypeOK, CrashInHistoryWrite
  <2>7. CASE CrashInPendingWrite
    BY <2>2, <2>3, <2>7 DEF TypeOK, CrashInPendingWrite
  <2> QED
    BY <1>11, <2>4, <2>5, <2>6, <2>7 DEF Crashes
<1>12. CASE UNCHANGED vars
  BY <1>12 DEF TypeOK, vars, disk, fates, bounds
<1> QED
  BY <1>1, <1>4, <1>5, <1>8, <1>9, <1>10, <1>11, <1>12 DEF Next

(***************************************************************************)
(* No plan is executed twice                                               *)
(***************************************************************************)

LEMMA CountsLemma ==
  ASSUME IInv, NEW p \in PlanId
  PROVE  /\ begun[p] \in Nat /\ kept \in Nat /\ counter \in Nat /\ pending \in Nat /\ p \in Nat
         /\ IsFiniteSet(Runners(p)) /\ Cardinality(Runners(p)) \in Nat
<1>1. IsFiniteSet(Runners(p))
  BY DEF IInv, RunsOnce
<1>2. Cardinality(Runners(p)) \in Nat
  BY <1>1, FS_CardinalityType
<1> QED
  BY <1>1, <1>2, BoundAssumption, NoPlanLemma DEF IInv, TypeOK, PlanId

\* A step that begins no execution and makes no plan pending keeps the invariant.
LEMMA QuietStep ==
  ASSUME IInv, TypeOK', UNCHANGED begun, counter' \in {counter, counter + 1},
         kept' \in {kept, kept + 1}, pending' \in {pending, NoPlan},
         \A h \in Handlers : doing'[h] = "execute" => doing[h] = "execute" /\ mine'[h] = mine[h]
  PROVE  IInv'
<1>1. counter \in Nat /\ counter' \in Nat /\ counter' >= counter
  BY DEF IInv, TypeOK
<1>2. pending' <= counter'
  BY <1>1, NoPlanLemma DEF IInv, TypeOK, PlanId
<1>3. \A p \in PlanId : p > counter' => begun'[p] = 0
  BY <1>1 DEF IInv, PlanId
<1>4. ASSUME NEW p \in PlanId
      PROVE  /\ begun'[p] + (IF pending' = p THEN 1 ELSE 0) <= 1 + kept'
             /\ IsFiniteSet(Runners(p)') /\ Cardinality(Runners(p)') <= begun'[p]
  <2>1. begun[p] + (IF pending = p THEN 1 ELSE 0) <= 1 + kept /\ Cardinality(Runners(p)) <= begun[p]
    BY DEF IInv, RunsOnce
  <2>2. pending' = p => pending = p
    BY NoPlanLemma
  <2>3. begun'[p] + (IF pending' = p THEN 1 ELSE 0) <= 1 + kept'
    BY <2>1, <2>2, CountsLemma
  <2>4. Runners(p)' \subseteq Runners(p)
    BY DEF Runners
  <2>5. IsFiniteSet(Runners(p)') /\ Cardinality(Runners(p)') <= Cardinality(Runners(p))
    BY <2>4, CountsLemma, FS_Subset
  <2>6. Cardinality(Runners(p)') \in Nat
    BY <2>5, FS_CardinalityType
  <2> QED
    BY <2>1, <2>3, <2>5, <2>6, CountsLemma
<1> QED
  BY <1>2, <1>3, <1>4 DEF IInv, RunsOnce

LEMMA Initially == Init => IInv
<1> SUFFICES ASSUME Init PROVE IInv
  OBVIOUS
<1>1. TypeOK
  BY BoundAssumption, HistoryAssumption DEF Init, TypeOK
<1>2. \A p \in PlanId : Runners(p) = {}
  BY DEF Init, Runners
<1>3. RunsOnce
  BY <1>2, NoPlanLemma, FS_EmptySet DEF Init, RunsOnce
<1> QED
  BY <1>1, <1>3, NoPlanLemma DEF Init, IInv

\* Every action keeps the inductive invariant.
LEMMA InvStep == IInv /\ [Next]_vars => IInv'
<1> SUFFICES ASSUME IInv, [Next]_vars PROVE IInv'
  OBVIOUS
<1>1. TypeOK'
  BY TypeStep DEF IInv
<1>2. ASSUME NEW h \in Handlers, CreatePending(h) PROVE IInv'
  <2>1. counter \in Nat /\ counter' = counter + 1 /\ pending' = counter'
    BY <1>2 DEF CreatePending, IInv, TypeOK
  <2>2. UNCHANGED <<begun, mine, kept>>
    BY <1>2 DEF CreatePending, fates, bounds
  <2>3. \A g \in Handlers : doing'[g] = "execute" <=> doing[g] = "execute"
    BY <1>2 DEF CreatePending, Becomes, IInv, TypeOK
  <2>4. \A p \in PlanId : p >= counter' => begun'[p] = 0
    BY <2>1, <2>2 DEF IInv, PlanId
  <2>5. ASSUME NEW p \in PlanId
        PROVE  /\ begun'[p] + (IF pending' = p THEN 1 ELSE 0) <= 1 + kept'
               /\ IsFiniteSet(Runners(p)') /\ Cardinality(Runners(p)') <= begun'[p]
    <3>1. Runners(p)' = Runners(p)
      BY <2>2, <2>3 DEF Runners
    <3>2. begun[p] + (IF pending = p THEN 1 ELSE 0) <= 1 + kept /\ Cardinality(Runners(p)) <= begun[p]
      BY DEF IInv, RunsOnce
    <3>3. pending' = p => begun'[p] = 0
      BY <2>1, <2>4, CountsLemma
    <3>4. begun'[p] + (IF pending' = p THEN 1 ELSE 0) <= 1 + kept'
      BY <2>2, <3>2, <3>3, CountsLemma
    <3> QED
      BY <2>2, <3>1, <3>2, <3>4, CountsLemma
  <2>6. pending' <= counter' /\ \A p \in PlanId : p > counter' => begun'[p] = 0
    BY <2>1, <2>4 DEF PlanId
  <2> QED
    BY <1>1, <2>5, <2>6 DEF IInv, RunsOnce
<1>3. ASSUME NEW h \in Handlers, ConfirmPending(h) PROVE IInv'
  <2>1. pending \in PlanId /\ pending # NoPlan /\ doing[h] = "nothing"
    BY <1>3 DEF ConfirmPending, CanDecide, IInv, TypeOK
  <2>2. /\ begun' = [begun EXCEPT ![pending] = @ + 1] /\ UNCHANGED counter
        /\ mine' = [mine EXCEPT ![h] = pending]
        /\ doing' = [doing EXCEPT ![h] = "execute"]
    BY <1>3 DEF ConfirmPending, Becomes
  <2>3. begun \in [PlanId -> Nat] /\ mine \in [Handlers -> PlanId \cup {NoPlan}] /\ DOMAIN doing = Handlers
    BY DEF IInv, TypeOK
  <2>4. \/ pending' = NoPlan /\ kept' = kept
        \/ pending' = pending /\ kept' = kept + 1
    BY <1>3 DEF ConfirmPending, Delete
  <2>5. pending \in Nat /\ counter \in Nat /\ pending <= counter
    BY <2>1, CountsLemma DEF IInv
  <2>6. pending' <= counter'
    BY <2>2, <2>4, <2>5, NoPlanLemma
  <2>7. \A p \in PlanId : p > counter' => begun'[p] = 0
    BY <2>2, <2>3, <2>5 DEF IInv, PlanId
  <2>8. ASSUME NEW p \in PlanId
        PROVE  /\ begun'[p] + (IF pending' = p THEN 1 ELSE 0) <= 1 + kept'
               /\ IsFiniteSet(Runners(p)') /\ Cardinality(Runners(p)') <= begun'[p]
    <3>1. begun[p] + (IF pending = p THEN 1 ELSE 0) <= 1 + kept /\ Cardinality(Runners(p)) <= begun[p]
      BY DEF IInv, RunsOnce
    <3>2. CASE p = pending
      <4>1. begun'[p] = begun[p] + 1
        BY <2>2, <2>3, <3>2
      <4>2. Runners(p)' = Runners(p) \cup {h}
        BY <2>2, <2>3, <3>2 DEF Runners, IInv, TypeOK
      <4>3. IsFiniteSet(Runners(p)') /\ Cardinality(Runners(p)') <= Cardinality(Runners(p)) + 1
        <5>1. IsFiniteSet(Runners(p)) /\ Cardinality(Runners(p)) \in Nat
          BY CountsLemma
        <5>2. /\ IsFiniteSet(Runners(p) \cup {h})
              /\ \/ Cardinality(Runners(p) \cup {h}) = Cardinality(Runners(p))
                 \/ Cardinality(Runners(p) \cup {h}) = Cardinality(Runners(p)) + 1
          BY <5>1, FS_AddElement
        <5> QED
          BY <4>2, <5>1, <5>2
      <4>4. Cardinality(Runners(p)') \in Nat
        BY <4>3, FS_CardinalityType
      <4>5. begun'[p] + (IF pending' = p THEN 1 ELSE 0) <= 1 + kept'
        BY <2>1, <2>4, <3>1, <3>2, <4>1, CountsLemma
      <4> QED
        BY <3>1, <4>1, <4>3, <4>4, <4>5, CountsLemma
    <3>3. CASE p # pending
      <4>1. begun'[p] = begun[p]
        BY <2>2, <2>3, <3>3
      <4>2. Runners(p)' = Runners(p)
        BY <2>1, <2>2, <2>3, <3>3 DEF Runners, IInv, TypeOK
      <4>3. pending' # p
        BY <2>4, <3>3, NoPlanLemma
      <4>4. begun'[p] + (IF pending' = p THEN 1 ELSE 0) <= 1 + kept'
        BY <2>4, <3>1, <4>1, <4>3, CountsLemma
      <4> QED
        BY <3>1, <4>1, <4>2, <4>4, CountsLemma
    <3> QED
      BY <3>2, <3>3
  <2> QED
    BY <1>1, <2>6, <2>7, <2>8 DEF IInv, RunsOnce
<1>4. ASSUME NEW h \in Handlers, AskOutline(h) \/ NoOutline(h) \/ CreateFails(h) PROVE IInv'
  <2>1. UNCHANGED <<begun, pending, kept, mine>> /\ counter' \in {counter, counter + 1}
    BY <1>4 DEF AskOutline, NoOutline, CreateFails, disk, fates, bounds
  <2>2. \A g \in Handlers : doing'[g] = "execute" => doing[g] = "execute"
    BY <1>4 DEF AskOutline, NoOutline, CreateFails, Becomes, IInv, TypeOK
  <2> QED
    BY <1>1, <2>1, <2>2, QuietStep
<1>5. ASSUME NEW h \in Handlers, Executing(h) \/ ResultFails(h) PROVE IInv'
  <2>1. UNCHANGED <<begun, pending, kept, counter>> /\ Leave(h)
    BY <1>5 DEF Executing, ExecutionEnds, ExecutionTrips, ExecutionStopped, ResultFails,
                disk, fates, bounds
  <2>2. \A g \in Handlers : doing'[g] = "execute" => doing[g] = "execute" /\ mine'[g] = mine[g]
    BY <2>1 DEF Leave, Becomes, IInv, TypeOK
  <2> QED
    BY <1>1, <2>1, <2>2, QuietStep
<1>6. CASE CancelPending \/ ArchiveFails \/ TripElsewhere
  <2>1. UNCHANGED <<begun, counter, doing, mine>>
    BY <1>6 DEF CancelPending, ArchiveFails, TripElsewhere, fates
  <2>2. pending' \in {pending, NoPlan} /\ kept' \in {kept, kept + 1}
    BY <1>6 DEF CancelPending, ArchiveFails, TripElsewhere, Delete, bounds
  <2> QED
    BY <1>1, <2>1, <2>2, QuietStep
<1>7. CASE Crashes
  <2>1. HandlersLost /\ UNCHANGED pending
    BY <1>7 DEF Crashes, Crash, CrashBeforeDelete, CrashInHistoryWrite, CrashInPendingWrite, disk
  <2>2. UNCHANGED <<begun, counter, kept>> /\ \A g \in Handlers : doing'[g] # "execute"
    BY <2>1 DEF HandlersLost
  <2> QED
    BY <1>1, <2>1, <2>2, QuietStep
<1>8. CASE UNCHANGED vars
  BY <1>1, <1>8, QuietStep DEF vars, disk, fates, bounds
<1> QED
  BY <1>2, <1>3, <1>4, <1>5, <1>6, <1>7, <1>8 DEF Next, Planning, Faults

\* The types of every variable hold in every reachable state.
THEOREM Invariance == Spec => []IInv
  BY Initially, InvStep, PTL DEF Spec

\* Each variable keeps its type, in spite of crashes and of writes that fail.
THEOREM TypeCorrect == Spec => []TypeOK
<1>1. IInv => TypeOK
  BY DEF IInv
<1> QED
  BY <1>1, Invariance, PTL

\* plan_state.py, confirm_pending: for any number of handlers and crashes, a plan is
\* executed once, and at most once more for each unlink of its file that failed.
THEOREM PlansRunOnce == Spec => []RunsOnce
<1>1. IInv => RunsOnce
  BY DEF IInv
<1> QED
  BY <1>1, Invariance, PTL

(***************************************************************************)
(* A pending plan is not replaced                                          *)
(***************************************************************************)

\* plan_state.py, create_pending: the check after the outline arrives keeps a second
\* /plan from replacing a plan that waits for its verdict.
THEOREM NotReplaced == Spec => PendingKept
<1> DEFINE Keeps == pending # NoPlan /\ pending' # pending
                      => history' # << >> /\ history'[Len(history')].id = pending
<1>1. IInv /\ [Next]_vars => [Keeps]_vars
  <2> SUFFICES ASSUME IInv, Next, pending # NoPlan, pending' # pending
               PROVE  history' # << >> /\ history'[Len(history')].id = pending
    BY DEF vars, disk
  <2>1. CanDecide /\ \E v \in {"EXECUTED", "CANCELLED"} : Archive(v)
    BY DEF Next, Planning, Executing, Faults, Crashes, AskOutline, CreatePending, MayCreate,
           NoOutline, CreateFails, ConfirmPending, CancelPending, ArchiveFails, ResultFails,
           ExecutionEnds, ExecutionTrips, ExecutionStopped, TripElsewhere, Crash,
           CrashBeforeDelete, CrashInHistoryWrite, CrashInPendingWrite, disk
  <2>2. PICK v \in {"EXECUTED", "CANCELLED"} : history' = Archived(history, Verdict(pending, v))
    BY <2>1 DEF Archive
  <2>3. pending \in PlanId /\ history \in Seq(Entry)
    BY DEF IInv, TypeOK
  <2>4. Verdict(pending, v) \in Entry /\ Verdict(pending, v).id = pending
    BY <2>3, VerdictLemma
  <2>5. /\ history' \in Seq(Entry) /\ Len(history') \in 1 .. HistoryMax
        /\ history'[Len(history')] = Verdict(pending, v)
    BY <2>2, <2>3, <2>4, ArchivedLemma
  <2>6. history' # << >>
    BY <2>5, HistoryAssumption
  <2> QED
    BY <2>4, <2>5, <2>6
<1> QED
  BY <1>1, Invariance, PTL DEF Spec, PendingKept

(***************************************************************************)
(* The desk of PlanDesk                                                    *)
(***************************************************************************)

LEMMA SummaryArchived ==
  ASSUME NEW s \in Seq(Entry), NEW e \in Entry
  PROVE  Summary(Archived(s, e)) = [id |-> e.id, status |-> e.status]
<1>1. /\ Archived(s, e) \in Seq(Entry) /\ Len(Archived(s, e)) \in 1 .. HistoryMax
      /\ Archived(s, e)[Len(Archived(s, e))] = e
  BY ArchivedLemma
<1>2. Archived(s, e) # << >>
  BY <1>1, HistoryAssumption
<1> QED
  BY <1>1, <1>2 DEF Summary

LEMMA SummaryResult ==
  ASSUME NEW s \in Seq(Entry), NEW p
  PROVE  Summary(WithResult(s, p)) = Summary(s)
<1> DEFINE w == WithResult(s, p)
<1>1. w \in Seq(Entry) /\ Len(w) = Len(s) /\ Len(s) \in Nat
  BY WithResultLemma
<1>2. \A i \in 1 .. Len(s) : w[i].id = s[i].id /\ w[i].status = s[i].status
  BY DEF WithResult, Resulted
<1> HIDE DEF w
<1>3. w = << >> <=> s = << >>
  BY <1>1
<1>4. s # << >> => Len(s) \in 1 .. Len(s)
  BY <1>1
<1> QED
  BY <1>1, <1>2, <1>3, <1>4 DEF Summary, w

LEMMA SummaryTorn == HistoryTorn => Newest' = Newest \/ Newest' = Desk!NoVerdict
BY DEF HistoryTorn, Newest, Summary, Desk!NoVerdict

LEMMA DeskInitially == Init => Desk!DeskInit
BY DEF Init, Desk!DeskInit, Newest, Summary, Desk!NoVerdict

\* Every step of the plan commands is a step of the desk, or none.
LEMMA DeskStep == IInv /\ [Next]_vars => [Desk!DeskNext]_(Desk!desk)
<1> SUFFICES ASSUME IInv, [Next]_vars PROVE Desk!DeskNext \/ UNCHANGED Desk!desk
  OBVIOUS
<1> USE DEF Desk!DeskNext, Desk!desk
<1>1. history \in Seq(Entry) /\ counter \in Nat /\ pending \in PlanId \cup {NoPlan}
  BY DEF IInv, TypeOK
<1>2. ASSUME history' = history PROVE Newest' = Newest
  BY <1>2 DEF Newest
<1>3. ASSUME NEW h \in Handlers, CreatePending(h) \/ CreateFails(h) PROVE Desk!DeskNext
  <2>1. /\ pending = NoPlan /\ counter' = counter + 1 /\ counter < MaxPlans
        /\ pending' \in {NoPlan, counter + 1} /\ UNCHANGED <<begun, kept, history>>
    BY <1>3 DEF CreatePending, CreateFails, MayCreate, fates, bounds
  <2>2. counter + 1 \in PlanId /\ counter + 1 \notin 1 .. counter
    BY <1>1, <2>1, BoundAssumption DEF PlanId
  <2>3. 1 .. counter' = (1 .. counter) \cup {counter + 1}
    BY <1>1, <2>1
  <2>4. Desk!Offer(counter + 1)
    BY <1>2, <2>1, <2>2, <2>3 DEF Desk!Offer
  <2> QED
    BY <2>2, <2>4
<1>4. ASSUME NEW v \in {"EXECUTED", "CANCELLED"}, CanDecide, Archive(v)
      PROVE  pending # NoPlan /\ Newest' = Desk!Decided(pending, v)
  <2>1. pending \in PlanId /\ pending # NoPlan
    BY <1>1, <1>4 DEF CanDecide
  <2>2. Verdict(pending, v) \in Entry
    BY <2>1, VerdictLemma
  <2>3. Newest' = [id |-> Verdict(pending, v).id, status |-> Verdict(pending, v).status]
    BY <1>1, <1>4, <2>2, SummaryArchived DEF Archive, Newest
  <2> QED
    BY <2>1, <2>3 DEF Verdict, Desk!Decided
<1>5. ASSUME NEW h \in Handlers, ConfirmPending(h) PROVE Desk!Approve
  <2>1. CanDecide /\ Archive("EXECUTED") /\ Delete /\ UNCHANGED counter
        /\ begun' = [begun EXCEPT ![pending] = @ + 1]
    BY <1>5 DEF ConfirmPending
  <2>2. Desk!Cleared
    BY <2>1 DEF Delete, Desk!Cleared
  <2> QED
    BY <1>4, <2>1, <2>2 DEF Desk!Approve
<1>6. CASE CancelPending
  <2>1. CanDecide /\ Archive("CANCELLED") /\ Delete /\ UNCHANGED <<counter, begun>>
    BY <1>6 DEF CancelPending, fates
  <2>2. Desk!Cleared
    BY <2>1 DEF Delete, Desk!Cleared
  <2>3. Desk!Reject
    BY <1>4, <2>1, <2>2 DEF Desk!Reject
  <2> QED
    BY <2>3
<1>7. ASSUME HistoryTorn \/ Newest' = Desk!RolledBack, UNCHANGED <<pending, counter, begun, kept>>
      PROVE  Desk!DeskNext \/ UNCHANGED Desk!desk
  BY <1>7, SummaryTorn DEF Desk!Overwritten
<1>8. CASE ArchiveFails \/ \E h \in Handlers : ResultFails(h)
  <2>1. HistoryTorn /\ UNCHANGED <<pending, counter, begun, kept>>
    BY <1>8 DEF ArchiveFails, ResultFails, fates
  <2> QED
    BY <1>7, <2>1
<1>9. /\ Archived(history, RolledBack) \in Seq(Entry)
      /\ Summary(Archived(history, RolledBack)) = Desk!RolledBack
  BY <1>1, SummaryArchived, ArchivedLemma, RolledBackLemma
     DEF RolledBack, Desk!RolledBack, TaskId, NoPlan
<1>10. ASSUME NEW h \in Handlers, Executing(h) PROVE Desk!DeskNext \/ UNCHANGED Desk!desk
  <2>1. UNCHANGED <<pending, counter, begun, kept>>
    BY <1>10 DEF Executing, ExecutionEnds, ExecutionTrips, ExecutionStopped, disk, fates, bounds
  <2>2. CASE ExecutionEnds(h)
    <3>1. Newest' = Newest
      BY <1>1, <2>2, SummaryResult DEF ExecutionEnds, Newest
    <3> QED
      BY <2>1, <3>1
  <2>3. CASE ExecutionTrips(h)
    <3>1. Newest' = Desk!RolledBack
      BY <1>9, <2>3, SummaryResult DEF ExecutionTrips, Newest
    <3> QED
      BY <1>7, <2>1, <3>1
  <2>4. CASE ExecutionStopped(h)
    BY <1>2, <2>1, <2>4 DEF ExecutionStopped, disk
  <2> QED
    BY <1>10, <2>2, <2>3, <2>4 DEF Executing
<1>11. CASE TripElsewhere
  <2>1. Newest' = Desk!RolledBack /\ UNCHANGED <<pending, counter, begun, kept>>
    BY <1>9, <1>11 DEF TripElsewhere, Newest, fates, bounds
  <2> QED
    BY <1>7, <2>1
<1>12. CASE Crashes
  <2>1. UNCHANGED <<pending, counter, begun, kept>>
    BY <1>12 DEF Crashes, Crash, CrashBeforeDelete, CrashInHistoryWrite, CrashInPendingWrite,
                 HandlersLost, disk
  <2>2. CASE Crash \/ CrashInPendingWrite
    BY <1>2, <2>1, <2>2 DEF Crash, CrashInPendingWrite, disk
  <2>3. CASE CrashBeforeDelete
    <3>1. PICK v \in {"EXECUTED", "CANCELLED"} : CanDecide /\ Archive(v)
      BY <2>3 DEF CrashBeforeDelete
    <3>2. Desk!Interrupted
      BY <1>4, <2>1, <3>1 DEF Desk!Interrupted
    <3> QED
      BY <3>2
  <2>4. CASE CrashInHistoryWrite
    BY <1>7, <2>1, <2>4 DEF CrashInHistoryWrite
  <2> QED
    BY <1>12, <2>2, <2>3, <2>4 DEF Crashes
<1>13. ASSUME NEW h \in Handlers, AskOutline(h) \/ NoOutline(h) PROVE UNCHANGED Desk!desk
  BY <1>2, <1>13 DEF AskOutline, NoOutline, disk, fates, bounds
<1>14. CASE UNCHANGED vars
  BY <1>2, <1>14 DEF vars, disk, fates, bounds
<1> QED
  BY <1>3, <1>5, <1>6, <1>8, <1>10, <1>11, <1>12, <1>13, <1>14 DEF Next, Planning, Faults

\* plan_state.py with the plan commands implements PlanDesk: an execution is begun only by
\* the verdict that takes the pending plan, and a plan is offered only where none waits.
THEOREM DeskRefinement == Spec => ImplementsDesk
<1>1. Spec => Desk!DeskSpec
  BY DeskInitially, DeskStep, Invariance, PTL DEF Spec, Desk!DeskSpec
<1> QED
  BY <1>1 DEF ImplementsDesk

(***************************************************************************)
(* One verdict for each plan, and its result                               *)
(***************************************************************************)

\* A history l is sound for a pending plan p, a counter c, a set X of plans without result
\* and a set D of plans decided twice: it knows no plan that is still to come, a pending one
\* only from D, has one verdict for each plan outside D, and lacks results only for X.
Numbered(l, p, c, D) ==
  \A i \in 1 .. Len(l) : l[i].id <= c /\ (l[i].id = p => p = NoPlan \/ p \in D)
Single(l, D) ==
  \A i, j \in 1 .. Len(l) : l[i].id = l[j].id /\ l[i].id # TaskId => i = j \/ l[i].id \in D
Answered(l, X) == \A i \in 1 .. Len(l) : l[i].status = "EXECUTED" /\ ~l[i].result => l[i].id \in X

Sound(l, p, c, X, D) == Numbered(l, p, c, D) /\ Single(l, D) /\ Answered(l, X)

\* The plans that a crash may have left to be decided again.
Repeated == {p \in cut : crashes > 0}

VerdictInv == kept = 0 => Sound(history, pending, counter, Executed \cup cut, Repeated)

\* The history after _archive: its last entries, then the new one.
LEMMA ArchivedShape ==
  ASSUME NEW s \in Seq(Entry), NEW e \in Entry
  PROVE  \E d \in 0 .. Len(s) :
           /\ Len(Archived(s, e)) = Len(s) + 1 - d
           /\ \A i \in 1 .. Len(s) + 1 - d :
                Archived(s, e)[i] = IF i + d = Len(s) + 1 THEN e ELSE s[i + d]
<1> DEFINE a == Append(s, e)
<1>1. /\ a \in Seq(Entry) /\ Len(s) \in Nat /\ Len(a) = Len(s) + 1
      /\ \A i \in 1 .. Len(s) + 1 : a[i] = IF i = Len(s) + 1 THEN e ELSE s[i]
  OBVIOUS
<1>2. CASE Len(a) > HistoryMax
  <2> DEFINE d == Len(a) - HistoryMax
  <2>1. Archived(s, e) = SubSeq(a, d + 1, Len(a)) /\ d \in 1 .. Len(s)
    BY <1>1, <1>2, HistoryAssumption DEF Archived, Rotated
  <2> HIDE DEF a
  <2>2. /\ Len(SubSeq(a, d + 1, Len(a))) = Len(a) - d
        /\ \A i \in 1 .. Len(a) - d : SubSeq(a, d + 1, Len(a))[i] = a[i + d]
    BY <1>1, <2>1
  <2> HIDE DEF d
  <2>3. \A i \in 1 .. Len(s) + 1 - d : i + d \in 1 .. Len(s) + 1
    BY <1>1, <2>1
  <2>4. Len(Archived(s, e)) = Len(s) + 1 - d
    BY <1>1, <2>1, <2>2
  <2>5. ASSUME NEW i \in 1 .. Len(s) + 1 - d
        PROVE  Archived(s, e)[i] = IF i + d = Len(s) + 1 THEN e ELSE s[i + d]
    <3>1. Archived(s, e)[i] = a[i + d]
      BY <1>1, <2>1, <2>2
    <3> QED
      BY <1>1, <2>3, <3>1
  <2>6. d \in 0 .. Len(s)
    BY <1>1, <2>1
  <2> QED
    BY <2>4, <2>5, <2>6
<1>3. CASE ~(Len(a) > HistoryMax)
  <2>1. Archived(s, e) = a
    BY <1>3 DEF Archived, Rotated
  <2> QED
    BY <1>1, <2>1
<1> QED
  BY <1>2, <1>3

\* A new entry keeps the history sound, for a plan it does not know or one decided twice.
LEMMA ArchivedSound ==
  ASSUME NEW s \in Seq(Entry), NEW e \in Entry, NEW p \in Nat, NEW q \in Nat, NEW c \in Nat, NEW X,
         NEW Y, NEW D, NEW E, Sound(s, p, c, X, D), e.id <= c, X \subseteq Y, D \subseteq E,
         q = NoPlan \/ (q = p /\ (e.id # p \/ p \in E)),
         e.id = TaskId \/ e.id \in E \/ (\A i \in 1 .. Len(s) : s[i].id # e.id),
         e.status = "EXECUTED" /\ ~e.result => e.id \in Y
  PROVE  Sound(Archived(s, e), q, c, Y, E)
<1> DEFINE a == Archived(s, e)
<1>1. PICK d \in 0 .. Len(s) :
         /\ Len(a) = Len(s) + 1 - d
         /\ \A i \in 1 .. Len(s) + 1 - d : a[i] = IF i + d = Len(s) + 1 THEN e ELSE s[i + d]
  BY ArchivedShape
<1>2. Len(s) \in Nat
  OBVIOUS
<1> HIDE DEF a
<1>3. ASSUME NEW i \in 1 .. Len(a)
      PROVE  \/ a[i] = e /\ i + d = Len(s) + 1
             \/ i + d \in 1 .. Len(s) /\ a[i] = s[i + d]
  <2>1. i \in 1 .. Len(s) + 1 - d /\ d \in 0 .. Len(s)
    BY <1>1
  <2>2. i + d \in 1 .. Len(s) + 1
    BY <1>2, <2>1
  <2>3. a[i] = IF i + d = Len(s) + 1 THEN e ELSE s[i + d]
    BY <1>1, <2>1
  <2> QED
    BY <1>2, <2>2, <2>3
<1>4. Numbered(a, q, c, E)
  BY <1>3 DEF Numbered, Sound
<1>5. Single(a, E)
  <2> SUFFICES ASSUME NEW i \in 1 .. Len(a), NEW j \in 1 .. Len(a),
                      a[i].id = a[j].id, a[i].id # TaskId, a[i].id \notin E
               PROVE  i = j
    BY DEF Single
  <2>1. i \in Nat /\ j \in Nat /\ d \in Nat
    BY <1>1, <1>2
  <2>2. i + d = j + d
    <3>1. CASE a[i] = e /\ i + d = Len(s) + 1 /\ a[j] = e /\ j + d = Len(s) + 1
      BY <3>1
    <3>2. CASE i + d \in 1 .. Len(s) /\ a[i] = s[i + d] /\ j + d \in 1 .. Len(s) /\ a[j] = s[j + d]
      BY <3>2 DEF Single, Sound
    <3>3. CASE a[i] = e /\ j + d \in 1 .. Len(s) /\ a[j] = s[j + d]
      BY <3>3
    <3>4. CASE i + d \in 1 .. Len(s) /\ a[i] = s[i + d] /\ a[j] = e
      BY <3>4
    <3> QED
      BY <1>3, <3>1, <3>2, <3>3, <3>4
  <2> QED
    BY <2>1, <2>2
<1>6. Answered(a, Y)
  BY <1>3 DEF Answered, Sound
<1> QED
  BY <1>4, <1>5, <1>6 DEF Sound, a

\* The result of plan n answers it, unless it was decided twice, and changes nothing else.
LEMMA ResultSound ==
  ASSUME NEW s \in Seq(Entry), NEW p, NEW c, NEW X, NEW n, NEW D, n # TaskId, Sound(s, p, c, X, D)
  PROVE  Sound(WithResult(s, n), p, c, (X \ {n}) \cup D, D)
<1> DEFINE w == WithResult(s, n)
<1>1. /\ Len(w) = Len(s) /\ Len(s) \in Nat
      /\ \A i \in 1 .. Len(s) : /\ w[i] = IF FirstOf(s, n, i) THEN Resulted(s[i]) ELSE s[i]
                                /\ w[i].id = s[i].id /\ w[i].status = s[i].status
  BY DEF WithResult, Resulted
<1> HIDE DEF w
<1>2. ASSUME NEW i \in 1 .. Len(s), ~w[i].result PROVE ~s[i].result /\ (s[i].id # n \/ n \in D)
  <2>1. ~FirstOf(s, n, i)
    <3>1. Resulted(s[i]).result
      BY DEF Resulted
    <3> QED
      BY <1>1, <1>2, <3>1, Zenon
  <2>2. s[i].id = n /\ n \notin D => \A j \in 1 .. i - 1 : j \in 1 .. Len(s) /\ s[j].id # n
    BY <1>1 DEF Single, Sound
  <2> QED
    BY <1>1, <1>2, <2>1, <2>2 DEF FirstOf
<1>3. Numbered(w, p, c, D)
  BY <1>1 DEF Numbered, Sound
<1>4. Single(w, D)
  BY <1>1 DEF Single, Sound
<1>5. Answered(w, (X \ {n}) \cup D)
  BY <1>1, <1>2 DEF Answered, Sound
<1> QED
  BY <1>3, <1>4, <1>5 DEF Sound, w

LEMMA NumberedEntries ==
  ASSUME NEW l \in Seq(Entry), NEW i \in 1 .. Len(l)
  PROVE  l[i].id \in Nat
<1>1. l[i] \in Entry
  OBVIOUS
<1> QED
  BY <1>1, BoundAssumption DEF Entry

LEMMA SoundMonotone ==
  ASSUME NEW l \in Seq(Entry), NEW p, NEW c \in Nat, NEW d \in Nat, NEW X, NEW Y, NEW D, NEW E,
         Sound(l, p, c, X, D), c <= d, X \subseteq Y, D \subseteq E
  PROVE  Sound(l, p, d, Y, E)
<1>1. \A i \in 1 .. Len(l) : l[i].id \in Nat
  BY NumberedEntries
<1> QED
  BY <1>1 DEF Sound, Numbered, Single, Answered

\* Every action keeps the history sound.
LEMMA VerdictStep == IInv /\ VerdictInv /\ [Next]_vars => VerdictInv'
<1> DEFINE X == Executed \cup cut
<1> SUFFICES ASSUME IInv, VerdictInv, [Next]_vars, kept' = 0
             PROVE  Sound(history', pending', counter', X', Repeated')
  BY DEF VerdictInv
<1>1. /\ history \in Seq(Entry) /\ counter \in Nat /\ pending \in Nat /\ cut \subseteq PlanId
      /\ pending <= counter /\ crashes \in Nat /\ kept \in Nat
  BY BoundAssumption, NoPlanLemma DEF IInv, TypeOK, PlanId
<1>2. ASSUME NEW h \in Handlers, Planning(h) \/ CreateFails(h)
      PROVE  Sound(history', pending', counter', X', Repeated')
  <2>1. /\ UNCHANGED <<history, cut, crashes, kept, mine>>
        /\ \/ counter' \in {counter, counter + 1} /\ pending' = pending
           \/ counter' = counter + 1 /\ pending' = counter'
    BY <1>2 DEF Planning, AskOutline, CreatePending, NoOutline, CreateFails, disk, fates, bounds
  <2>2. \A g \in Handlers : doing'[g] = "execute" <=> doing[g] = "execute"
    BY <1>2 DEF Planning, AskOutline, CreatePending, NoOutline, CreateFails, Becomes, IInv, TypeOK
  <2>3. X' = X /\ Repeated' = Repeated
    BY <2>1, <2>2 DEF Executed, Repeated
  <2>4. Sound(history, pending, counter, X, Repeated)
    BY <2>1 DEF VerdictInv
  <2> HIDE DEF X
  <2>5. CASE pending' = pending
    BY <1>1, <2>1, <2>3, <2>4, <2>5, SoundMonotone
  <2>6. CASE counter' = counter + 1 /\ pending' = counter'
    <3>1. Sound(history, pending, counter + 1, X, Repeated)
      BY <1>1, <2>4, SoundMonotone
    <3>2. \A i \in 1 .. Len(history) : history[i].id # counter + 1
      <4>1. \A i \in 1 .. Len(history) : history[i].id \in Nat /\ history[i].id <= counter
        BY <1>1, <2>4, NumberedEntries DEF Sound, Numbered
      <4> QED
        BY <1>1, <4>1
    <3> QED
      BY <2>1, <2>3, <2>6, <3>1, <3>2 DEF Sound, Numbered
  <2> QED
    BY <2>1, <2>5, <2>6
<1>3. ASSUME NEW v \in {"EXECUTED", "CANCELLED"}, CanDecide, Archive(v), kept = 0,
             UNCHANGED counter, X \subseteq X', Repeated \subseteq Repeated',
             v = "EXECUTED" => pending \in X',
             pending' = NoPlan \/ (pending' = pending /\ pending \in Repeated')
      PROVE  Sound(history', pending', counter', X', Repeated')
  <2>1. Sound(history, pending, counter, X, Repeated)
    BY <1>3 DEF VerdictInv
  <2> DEFINE e == Verdict(pending, v)
  <2>2. pending \in PlanId /\ pending # NoPlan
    BY <1>3 DEF CanDecide, IInv, TypeOK
  <2>3. e \in Entry /\ e.id = pending /\ e.status = v /\ history' = Archived(history, e)
    BY <1>3, <2>2, VerdictLemma DEF Archive, Verdict
  <2> HIDE DEF e, X
  <2>4. pending \in Repeated' \/ \A i \in 1 .. Len(history) : history[i].id # pending
    BY <1>3, <2>1, <2>2 DEF Sound, Numbered
  <2>5. e.status = "EXECUTED" => e.id \in X'
    BY <1>3, <2>3
  <2>6. pending' \in Nat
    BY <1>1, <1>3, NoPlanLemma
  <2>7. Sound(Archived(history, e), pending', counter, X', Repeated')
    BY <1>1, <1>3, <2>1, <2>3, <2>4, <2>5, <2>6, NoPlanLemma, ArchivedSound
  <2> QED
    BY <1>3, <2>3, <2>7
<1>4. ASSUME NEW h \in Handlers, ConfirmPending(h)
      PROVE  Sound(history', pending', counter', X', Repeated')
  <2>1. /\ CanDecide /\ Archive("EXECUTED") /\ Delete /\ UNCHANGED <<counter, crashes, cut>>
        /\ doing[h] = "nothing"
    BY <1>4 DEF ConfirmPending
  <2>2. /\ doing'[h] = "execute" /\ mine'[h] = pending
        /\ \A g \in Handlers : doing[g] = "execute" => doing'[g] = "execute" /\ mine'[g] = mine[g]
    BY <1>4, <2>1 DEF ConfirmPending, Becomes, IInv, TypeOK
  <2>3. X \subseteq X' /\ pending \in X' /\ Repeated' = Repeated
    BY <2>1, <2>2 DEF Executed, Repeated
  <2>4. pending' = NoPlan /\ kept = 0
    BY <1>1, <2>1 DEF Delete
  <2> QED
    BY <1>3, <2>1, <2>3, <2>4
<1>5. CASE CancelPending
  <2>1. CanDecide /\ Archive("CANCELLED") /\ Delete /\ UNCHANGED <<counter, crashes, cut, doing, mine>>
    BY <1>5 DEF CancelPending, fates
  <2>2. X' = X /\ Repeated' = Repeated
    BY <2>1 DEF Executed, Repeated
  <2>3. pending' = NoPlan /\ kept = 0
    BY <1>1, <2>1 DEF Delete
  <2> QED
    BY <1>3, <2>1, <2>2, <2>3
<1>6. CASE ArchiveFails \/ CrashInHistoryWrite \/ \E h \in Handlers : ResultFails(h)
  <2>1. HistoryTorn /\ UNCHANGED <<pending, counter, kept>>
    BY <1>6 DEF ArchiveFails, ResultFails, CrashInHistoryWrite, HandlersLost
  <2>2. CASE history' = << >>
    BY <2>2 DEF Sound, Numbered, Single, Answered
  <2>3. CASE history' = history
    <3>1. Sound(history, pending, counter, X, Repeated)
      BY <2>1 DEF VerdictInv
    <3>2. X \subseteq X' /\ Repeated \subseteq Repeated'
      <4>1. CASE ArchiveFails
        BY <4>1 DEF ArchiveFails, Executed, Repeated, fates
      <4>2. CASE CrashInHistoryWrite
        BY <1>1, <4>2 DEF CrashInHistoryWrite, HandlersLost, Repeated
      <4>3. ASSUME NEW h \in Handlers, ResultFails(h)
            PROVE  X \subseteq X' /\ Repeated \subseteq Repeated'
        <5>1. cut' = cut \cup {mine[h]} /\ crashes' = crashes /\ Leave(h)
          BY <4>3 DEF ResultFails
        <5>2. \A g \in Handlers : g # h => doing'[g] = doing[g] /\ mine'[g] = mine[g]
          BY <5>1 DEF Leave, Becomes, IInv, TypeOK
        <5> QED
          BY <5>1, <5>2 DEF Executed, Repeated
      <4> QED
        BY <1>6, <4>1, <4>2, <4>3
    <3> HIDE DEF X
    <3> QED
      BY <1>1, <2>1, <2>3, <3>1, <3>2, SoundMonotone
  <2> QED
    BY <2>1, <2>2, <2>3 DEF HistoryTorn
<1>7. ASSUME NEW h \in Handlers, Executing(h)
      PROVE  Sound(history', pending', counter', X', Repeated')
  <2>1. doing[h] = "execute" /\ UNCHANGED <<pending, counter, crashes, kept>> /\ Leave(h)
    BY <1>7 DEF Executing, ExecutionEnds, ExecutionTrips, ExecutionStopped, disk, bounds
  <2>2. mine[h] # TaskId
    BY <2>1 DEF IInv, TypeOK, TaskId, NoPlan
  <2>3. \A g \in Handlers : g # h => doing'[g] = doing[g] /\ mine'[g] = mine[g]
    BY <2>1 DEF Leave, Becomes, IInv, TypeOK
  <2>4. Executed \ {mine[h]} \subseteq Executed'
    BY <2>3 DEF Executed
  <2>5. Sound(history, pending, counter, X, Repeated)
    BY <2>1 DEF VerdictInv
  <2>6. CASE ExecutionEnds(h)
    <3>1. history' = WithResult(history, mine[h]) /\ cut' = cut
      BY <2>6 DEF ExecutionEnds, fates
    <3>2. (X \ {mine[h]}) \cup Repeated \subseteq X' /\ Repeated' = Repeated
      BY <2>1, <2>4, <3>1 DEF Repeated
    <3> HIDE DEF X
    <3>3. Sound(WithResult(history, mine[h]), pending, counter, (X \ {mine[h]}) \cup Repeated, Repeated)
      BY <1>1, <2>2, <2>5, ResultSound
    <3> QED
      BY <1>1, <2>1, <3>1, <3>2, <3>3, WithResultLemma, SoundMonotone
  <2>7. CASE ExecutionTrips(h)
    <3> DEFINE a == Archived(history, RolledBack)
    <3>1. history' = WithResult(a, mine[h]) /\ cut' = cut
      BY <2>7 DEF ExecutionTrips, fates
    <3>2. (X \ {mine[h]}) \cup Repeated \subseteq X' /\ Repeated' = Repeated
      BY <2>1, <2>4, <3>1 DEF Repeated
    <3>3. RolledBack.id = TaskId /\ RolledBack.status = "EXCEPTION" /\ TaskId <= counter
      BY <1>1 DEF RolledBack, TaskId
    <3>4. a \in Seq(Entry)
      BY <1>1, RolledBackLemma, ArchivedLemma
    <3> HIDE DEF X
    <3>5. pending = NoPlan \/ pending # RolledBack.id
      BY <3>3 DEF NoPlan, TaskId
    <3>6. Sound(a, pending, counter, X, Repeated)
      BY <1>1, <2>5, <3>3, <3>5, RolledBackLemma, ArchivedSound
    <3> HIDE DEF a
    <3>7. Sound(WithResult(a, mine[h]), pending, counter, (X \ {mine[h]}) \cup Repeated, Repeated)
      BY <2>2, <3>4, <3>6, ResultSound
    <3> QED
      BY <1>1, <2>1, <3>1, <3>2, <3>4, <3>7, WithResultLemma, SoundMonotone
  <2>8. CASE ExecutionStopped(h)
    <3>1. history' = history /\ cut' = cut \cup {mine[h]}
      BY <2>8 DEF ExecutionStopped, disk
    <3>2. X \subseteq X' /\ Repeated \subseteq Repeated'
      BY <2>1, <2>4, <3>1 DEF Repeated
    <3> HIDE DEF X
    <3> QED
      BY <1>1, <2>1, <2>5, <3>1, <3>2, SoundMonotone
  <2> QED
    BY <1>7, <2>6, <2>7, <2>8 DEF Executing
<1>8. CASE TripElsewhere
  <2>1. history' = Archived(history, RolledBack) /\ UNCHANGED <<pending, counter, cut, doing, mine, crashes, kept>>
    BY <1>8 DEF TripElsewhere, fates, bounds
  <2>2. X' = X /\ Repeated' = Repeated /\ Sound(history, pending, counter, X, Repeated)
    BY <2>1 DEF Executed, Repeated, VerdictInv
  <2>3. RolledBack.id = TaskId /\ RolledBack.status = "EXCEPTION" /\ TaskId <= counter
    BY <1>1 DEF RolledBack, TaskId
  <2>4. pending = NoPlan \/ pending # RolledBack.id
    BY <2>3 DEF NoPlan, TaskId
  <2> HIDE DEF X
  <2> QED
    BY <1>1, <2>1, <2>2, <2>3, <2>4, RolledBackLemma, ArchivedSound
<1>9. CASE Crash \/ CrashInPendingWrite
  <2>1. UNCHANGED <<history, pending, counter, kept>> /\ crashes' > 0 /\ cut' = X
    BY <1>1, <1>9 DEF Crash, CrashInPendingWrite, HandlersLost, disk
  <2>2. Sound(history, pending, counter, X, Repeated)
    BY <2>1 DEF VerdictInv
  <2>3. X \subseteq X' /\ Repeated \subseteq Repeated'
    BY <2>1 DEF Repeated
  <2> HIDE DEF X
  <2> QED
    BY <1>1, <2>1, <2>2, <2>3, SoundMonotone
<1>10. CASE CrashBeforeDelete
  <2>1. /\ CanDecide /\ \E v \in {"EXECUTED", "CANCELLED"} : Archive(v)
        /\ UNCHANGED <<pending, counter, kept>> /\ crashes' > 0
        /\ cut' = X \cup {pending}
    BY <1>1, <1>10 DEF CrashBeforeDelete, HandlersLost
  <2>2. X \subseteq X' /\ Repeated \subseteq Repeated' /\ pending \in Repeated' /\ pending \in X'
    BY <2>1 DEF Repeated
  <2> QED
    BY <1>3, <2>1, <2>2
<1>11. CASE UNCHANGED vars
  <2>1. UNCHANGED <<history, pending, counter, cut, doing, mine, crashes, kept>>
    BY <1>11 DEF vars, disk, fates, bounds
  <2>2. X' = X /\ Repeated' = Repeated /\ Sound(history, pending, counter, X, Repeated)
    BY <2>1 DEF Executed, Repeated, VerdictInv
  <2> HIDE DEF X
  <2> QED
    BY <2>1, <2>2
<1> QED
  BY <1>2, <1>4, <1>5, <1>6, <1>7, <1>8, <1>9, <1>10, <1>11 DEF Next, Faults, Crashes

\* plan_state.py: the history stays sound until an unlink fails.
THEOREM VerdictInvariance == Spec => []VerdictInv
<1>1. Init => VerdictInv
  BY DEF Init, VerdictInv, Sound, Numbered, Single, Answered
<1> QED
  BY <1>1, VerdictStep, Invariance, PTL DEF Spec

\* plan_state.py, confirm_pending and cancel_pending: without failed unlinks a plan has one
\* verdict, and a crash repeats that of a plan it has cut short only, for any number of
\* handlers, plans, rollbacks and crashes.
THEOREM SingleVerdict == Spec => []OneVerdict
<1>1. VerdictInv => OneVerdict
  BY DEF VerdictInv, OneVerdict, Sound, Single, Repeated
<1> QED
  BY <1>1, VerdictInvariance, PTL

\* plan_state.py, update_executed_result: a result reaches its plan, whatever the
\* rotation, the breaker and other handlers have done to the history meanwhile.
THEOREM ResultsReachPlans == Spec => []ResultsArrive
<1>1. VerdictInv => ResultsArrive
  BY DEF VerdictInv, ResultsArrive, Sound, Answered
<1> QED
  BY <1>1, VerdictInvariance, PTL
=============================================================================
