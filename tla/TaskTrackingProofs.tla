------------------------- MODULE TaskTrackingProofs -------------------------
(***************************************************************************)
(* Proofs about TaskTracking, for any number of runs, stops, restarts and  *)
(* log writes that raise: the registry holds the runs that are under way,  *)
(* and the records of creates that raised; only a /stop that cuts a start  *)
(* or a termination short leaves a CLI process behind.                     *)
(***************************************************************************)
EXTENDS TaskTracking, TLAPS

LEMMA Initially == Init => IInv
<1> SUFFICES ASSUME Init PROVE IInv
  OBVIOUS
<1>1. ControlOK
  <2>1. \A S \in {asked, registry, stopping, swallowed} : S \subseteq Runs
    BY DEF Init
  <2>2. 0 \in Nat /\ 0 \in 0 .. MaxStops /\ 0 \in 0 .. MaxBoots /\ 0 \in 0 .. MaxFaults
    BY BoundAssumption
  <2>3. pc \in [Runs -> Awaiting \cup {"new", "leaked", "ended", "lost"}]
    BY DEF Init
  <2> QED
    BY <2>1, <2>2, <2>3 DEF Init, ControlOK
<1>2. RegistryFollows /\ NoProcessLeft /\ StopsCounted
  BY DEF Init, RegistryFollows, NoProcessLeft, StopsCounted, Active, Awaiting
<1> QED
  BY <1>1, <1>2 DEF Init, IInv

\* What every step does to the file: a cut one is due to a write that raised.
Stored ==
  /\ garbled' \in BOOLEAN /\ faults' \in 0 .. MaxFaults
  /\ faults' >= faults
  /\ garbled' => faults' > 0

LEMMA DiskStep ==
  ASSUME IInv, NEW l, Raises(l) \/ Writes(l) \/ UNCHANGED <<garbled, faults>>
  PROVE  Stored
<1>1. garbled \in BOOLEAN /\ faults \in 0 .. MaxFaults /\ MaxFaults \in Nat
      /\ (garbled => faults > 0)
  BY BoundAssumption DEF IInv, ControlOK
<1>2. CASE Raises(l)
  <2>1. garbled \/ faults < MaxFaults
    BY <1>2 DEF Raises
  <2>2. faults' = IF garbled THEN faults ELSE faults + 1
    BY <1>2 DEF Raises
  <2>3. garbled' \in {garbled, TRUE}
    BY <1>2 DEF Raises
  <2>4. faults' \in 0 .. MaxFaults /\ faults' >= faults /\ faults' > 0
    BY <1>1, <2>1, <2>2
  <2>5. garbled' \in BOOLEAN
    BY <1>1, <2>3, Zenon
  <2> QED
    BY <2>4, <2>5 DEF Stored
<1>3. CASE Writes(l) \/ UNCHANGED <<garbled, faults>>
  BY <1>1, <1>3 DEF Writes, Stored
<1> QED
  BY <1>2, <1>3

\* finish and mark_exception take the record away, whether the log can be written or not.
LEMMA FinishStep ==
  ASSUME IInv, NEW r \in Runs, NEW s, Finish(r, s) \/ FinishAgain(r)
  PROVE  Stored /\ registry' = registry \ {r} /\ UNCHANGED <<stopping, counter>>
<1>1. CASE Finish(r, s)
  <2>1. Writes(Updated(log, r, id[r], s)) \/ Raises(log)
    BY <1>1 DEF Finish
  <2>2. Stored
    BY <2>1, DiskStep
  <2> QED
    BY <1>1, <2>2 DEF Finish
<1>2. CASE FinishAgain(r)
  <2>1. /\ ~garbled /\ garbled' = garbled /\ faults < MaxFaults /\ faults' = faults + 1
        /\ registry' = registry \ {r} /\ UNCHANGED <<stopping, counter>>
    BY <1>2 DEF FinishAgain
  <2>2. garbled \in BOOLEAN /\ faults \in 0 .. MaxFaults /\ MaxFaults \in Nat
    BY BoundAssumption DEF IInv, ControlOK
  <2>3. faults' \in 0 .. MaxFaults /\ faults' >= faults
    BY <2>1, <2>2
  <2> QED
    BY <2>1, <2>2, <2>3 DEF Stored
<1> QED
  BY <1>1, <1>2

\* A step by which run r ends: its record goes with it.
LEMMA EndStep ==
  ASSUME IInv, NEW r \in Runs, Active(r), Ends(r), Stored,
         registry' = registry \ {r}, UNCHANGED <<stopping, counter, ending, stops, boots>>,
         asked' = asked \ {r},
         swallowed' \subseteq Runs, swallowed' # {} => KeepsResult,
         proc' \in [Runs -> {"none", "alive", "exited"}],
         \A q \in Runs : proc'[q] = "alive" => proc[q] = "alive",
         proc'[r] = "alive" => stops[r] >= (IF ending[r] = "cancel" THEN 2 ELSE 1)
  PROVE  IInv'
<1>1. /\ pc' \in [Runs -> Awaiting \cup {"new", "leaked", "ended", "lost"}]
      /\ pc'[r] = "ended" /\ \A q \in Runs \ {r} : pc'[q] = pc[q]
      /\ id' = id
  BY DEF Ends, IInv, ControlOK
<1>2. ControlOK'
  BY <1>1 DEF IInv, ControlOK, Stored
<1>3. RegistryFollows'
  <2>1. faults \in Nat /\ faults' \in Nat /\ faults' >= faults
    BY BoundAssumption DEF IInv, ControlOK, Stored
  <2> QED
    BY <1>1, <2>1 DEF IInv, RegistryFollows, Active, Awaiting
<1>4. NoProcessLeft'
  BY <1>1 DEF IInv, NoProcessLeft
<1>5. StopsCounted'
  BY <1>1 DEF IInv, StopsCounted, RegistryFollows
<1>6. \A q \in Runs : pc'[q] \in {"new", "leaked", "killing"} => proc'[q] # "alive"
  BY <1>1 DEF IInv
<1>7. asked' \subseteq {q \in Runs : Active(q)}'
  BY <1>1 DEF IInv, Active
<1>8. \A q \in Runs : pc'[q] \in {"new", "spawning"} => ending'[q] = "none"
  BY <1>1 DEF IInv
<1> QED
  BY <1>1, <1>2, <1>3, <1>4, <1>5, <1>6, <1>7, <1>8 DEF IInv, Stored

\* A step within the wait of run r: neither the registry nor the end of a run changes.
LEMMA WaitStep ==
  ASSUME IInv, NEW r \in Runs, Active(r), NEW c \in Awaiting \ {"spawning"},
         pc' = [pc EXCEPT ![r] = c],
         UNCHANGED <<id, swallowed, registry, counter, stopping, garbled, faults, stops, boots>>,
         ending' \in [Runs -> {"none", "timeout", "cancel"}],
         \A q \in Runs \ {r} : ending'[q] = ending[q],
         asked' \subseteq asked,
         ending'[r] # "timeout" /\ c \in {"terming", "killing"} =>
           stops[r] >= (IF r \in asked' THEN 2 ELSE 1),
         proc' \in [Runs -> {"none", "alive", "exited"}],
         \A q \in Runs : proc'[q] = "alive" => proc[q] = "alive",
         c = "killing" => proc'[r] # "alive"
  PROVE  IInv'
<1>1. /\ pc' \in [Runs -> Awaiting \cup {"new", "leaked", "ended", "lost"}]
      /\ pc'[r] = c /\ \A q \in Runs \ {r} : pc'[q] = pc[q]
  BY DEF IInv, ControlOK
<1>2. ControlOK'
  BY <1>1 DEF IInv, ControlOK
<1>3. RegistryFollows'
  BY <1>1 DEF IInv, RegistryFollows, Active, Awaiting
<1>4. NoProcessLeft'
  BY <1>1 DEF IInv, NoProcessLeft, Awaiting
<1>5. StopsCounted'
  <2>1. stops \in [Runs -> Nat]
    BY BoundAssumption DEF IInv, ControlOK
  <2> QED
    BY <1>1, <2>1 DEF IInv, StopsCounted, RegistryFollows
<1>6. \A q \in Runs : pc'[q] \in {"new", "leaked", "killing"} => proc'[q] # "alive"
  BY <1>1 DEF IInv, Awaiting
<1>7. asked' \subseteq {q \in Runs : Active(q)}'
  BY <1>1 DEF IInv, Active
<1>8. \A q \in Runs : pc'[q] \in {"new", "spawning"} => ending'[q] = "none"
  BY <1>1 DEF IInv, Awaiting
<1> QED
  BY <1>1, <1>2, <1>3, <1>4, <1>5, <1>6, <1>7, <1>8 DEF IInv

\* create enters a record under a new id; its run goes on, or has none to go on.
LEMMA EnterStep ==
  ASSUME IInv, NEW r \in Runs, Enters(r), Stored, registry' = registry \cup {r},
         NEW c \in {"spawning", "leaked"}, pc' = [pc EXCEPT ![r] = c],
         proc' \in [Runs -> {"none", "alive", "exited"}],
         \A q \in Runs \ {r} : proc'[q] = proc[q],
         c = "leaked" => proc'[r] # "alive" /\ faults' > 0,
         UNCHANGED <<ending, asked, swallowed, stopping, stops, boots>>
  PROVE  IInv'
<1> USE BoundAssumption
<1>1. /\ pc' \in [Runs -> Awaiting \cup {"new", "leaked", "ended", "lost"}]
      /\ pc[r] = "new" /\ pc'[r] = c /\ \A q \in Runs \ {r} : pc'[q] = pc[q]
      /\ id' \in [Runs -> Nat] /\ id'[r] = counter + 1 /\ \A q \in Runs \ {r} : id'[q] = id[q]
      /\ counter' = counter + 1 /\ counter' \in Nat /\ counter \in Nat
  BY DEF Enters, IInv, ControlOK, Awaiting
<1>2. ControlOK'
  BY <1>1 DEF IInv, ControlOK, Stored
<1>3. \A q \in registry : id[q] <= counter /\ id[q] \in Nat
  BY DEF IInv, ControlOK
<1>4. r \notin registry /\ r \notin asked
  BY <1>1 DEF IInv, RegistryFollows, Active, Awaiting
<1>5. RegistryFollows'
  <2>1. registry' = {q \in Runs : Active(q) \/ pc[q] = "leaked"}'
    BY <1>1 DEF IInv, RegistryFollows, Active, Awaiting
  <2>2. \A q \in registry : id'[q] # id'[r]
    BY <1>1, <1>3, <1>4 DEF IInv, ControlOK
  <2>3. \A p, q \in registry' : id'[p] = id'[q] => p = q
    BY <1>1, <1>4, <2>2 DEF IInv, ControlOK, RegistryFollows
  <2>4. faults \in Nat /\ faults' \in Nat /\ faults' >= faults
    BY DEF IInv, ControlOK, Stored
  <2>5. \A q \in Runs : pc'[q] = "leaked" => faults' > 0
    BY <1>1, <2>4 DEF IInv, RegistryFollows
  <2> QED
    BY <2>1, <2>3, <2>5 DEF RegistryFollows
<1>6. NoProcessLeft'
  BY <1>1 DEF IInv, NoProcessLeft
<1>7. \A q \in registry' : id'[q] <= counter'
  BY <1>1, <1>3, <1>4 DEF IInv, ControlOK
<1>8. \A q \in Runs : pc'[q] \in {"new", "leaked", "killing"} => proc'[q] # "alive"
  BY <1>1 DEF IInv
<1>9. StopsCounted'
  BY <1>1, <1>4 DEF IInv, StopsCounted, RegistryFollows
<1>10. asked' \subseteq {q \in Runs : Active(q)}'
  BY <1>1, <1>4 DEF IInv, Active
<1>11. \A q \in Runs : pc'[q] \in {"new", "spawning"} => ending'[q] = "none"
  BY <1>1 DEF IInv
<1> QED
  BY <1>1, <1>2, <1>5, <1>6, <1>7, <1>8, <1>9, <1>10, <1>11 DEF IInv, Stored

\* Every action keeps the inductive invariant.
LEMMA InvStep == IInv /\ [Next]_vars => IInv'
<1> SUFFICES ASSUME IInv, [Next]_vars PROVE IInv'
  OBVIOUS
<1> USE BoundAssumption
<1>1. ASSUME NEW r \in Runs, Begin(r) PROVE IInv'
  <2>1. Stored
    BY <1>1, DiskStep DEF Begin
  <2>2. /\ Enters(r) /\ registry' = registry \cup {r} /\ pc' = [pc EXCEPT ![r] = "spawning"]
        /\ proc' \in [Runs -> {"none", "alive", "exited"}]
        /\ \A q \in Runs \ {r} : proc'[q] = proc[q]
        /\ UNCHANGED <<ending, asked, swallowed, stopping, stops, boots>>
    BY <1>1 DEF Begin, IInv, ControlOK
  <2> QED
    BY <2>1, <2>2, EnterStep
<1>2. ASSUME NEW r \in Runs, CreateFails(r) PROVE IInv'
  <2>1. Stored
    BY <1>2, DiskStep DEF CreateFails
  <2>2. /\ Enters(r) /\ registry' = registry \cup {r} /\ pc' = [pc EXCEPT ![r] = "leaked"]
        /\ UNCHANGED <<ending, asked, proc, swallowed, stopping, stops, boots>>
    BY <1>2 DEF CreateFails
  <2>3. proc'[r] # "alive" /\ proc' \in [Runs -> {"none", "alive", "exited"}]
    BY <2>2 DEF Enters, IInv, ControlOK
  <2>4. faults' > 0
    <3>1. (garbled \/ faults < MaxFaults) /\ faults' = IF garbled THEN faults ELSE faults + 1
      BY <1>2 DEF CreateFails, Raises
    <3> QED
      BY <3>1 DEF IInv, ControlOK
  <2> QED
    BY <2>1, <2>2, <2>3, <2>4, EnterStep
<1>3. ASSUME NEW r \in Runs, BeginFails(r) PROVE IInv'
  <2>1. /\ pc' \in [Runs -> Awaiting \cup {"new", "leaked", "ended", "lost"}]
        /\ pc[r] = "new" /\ pc'[r] = "ended" /\ \A q \in Runs \ {r} : pc'[q] = pc[q]
        /\ id' \in [Runs -> Nat] /\ \A q \in Runs \ {r} : id'[q] = id[q]
        /\ counter' = counter + 1 /\ counter' \in Nat /\ counter \in Nat
        /\ UNCHANGED <<ending, asked, proc, swallowed, registry, stopping, stops, boots>>
    BY <1>3 DEF BeginFails, Enters, IInv, ControlOK
  <2>2. Stored
    <3>1. Writes(Updated(Created(r), r, counter', "exception")) \/ Raises(Created(r))
      BY <1>3 DEF BeginFails
    <3> QED
      BY <3>1, DiskStep
  <2>3. ControlOK'
    BY <2>1, <2>2 DEF IInv, ControlOK, Stored
  <2>4. r \notin registry /\ r \notin asked
    BY <2>1 DEF IInv, RegistryFollows, Active, Awaiting
  <2>5. RegistryFollows'
    <3>1. faults \in Nat /\ faults' \in Nat /\ faults' >= faults
      BY <2>2 DEF IInv, ControlOK, Stored
    <3> QED
      BY <2>1, <2>4, <3>1 DEF IInv, RegistryFollows, Active, Awaiting, ControlOK
  <2>6. NoProcessLeft'
    BY <2>1 DEF IInv, NoProcessLeft
  <2>7. \A q \in registry' : id'[q] <= counter'
    BY <2>1, <2>4 DEF IInv, ControlOK
  <2>8. StopsCounted'
    BY <2>1, <2>4 DEF IInv, StopsCounted, RegistryFollows
  <2>9. asked' \subseteq {q \in Runs : Active(q)}'
    BY <2>1, <2>4 DEF IInv, Active
  <2> QED
    BY <2>1, <2>2, <2>3, <2>5, <2>6, <2>7, <2>8, <2>9 DEF IInv, Stored
<1>4. ASSUME NEW r \in Runs, Stop(r) PROVE IInv'
  <2>1. /\ UNCHANGED <<pc, id, ending, proc, swallowed, registry, counter, garbled, faults, boots>>
        /\ stops \in [Runs -> Nat] /\ stops'[r] = stops[r] + 1
        /\ \A q \in Runs \ {r} : stops'[q] = stops[q]
        /\ asked' = (IF Active(r) THEN asked \cup {r} ELSE asked) /\ r \in registry
    BY <1>4 DEF Stop, Writes, IInv, ControlOK
  <2>2. ControlOK'
    BY <1>4, <2>1 DEF Stop, IInv, ControlOK
  <2>3. RegistryFollows'
    BY <2>1 DEF IInv, RegistryFollows, Active
  <2>4. NoProcessLeft'
    BY <2>1 DEF IInv, NoProcessLeft
  <2>5. StopsCounted'
    BY <2>1 DEF IInv, StopsCounted, RegistryFollows
  <2>6. asked' \subseteq {q \in Runs : Active(q)}'
    BY <2>1 DEF IInv, Active
  <2> QED
    BY <2>1, <2>2, <2>3, <2>4, <2>5, <2>6 DEF IInv
<1>5. ASSUME NEW r \in Runs, Spawned(r) \/ TimesOut(r) \/ CancelTalk(r) PROVE IInv'
  <2>1. Active(r)
    BY <1>5 DEF Spawned, TimesOut, CancelTalk, Active, Awaiting
  <2>2. PICK c \in {"talking", "terming"} : pc' = [pc EXCEPT ![r] = c]
    BY <1>5 DEF Spawned, TimesOut, CancelTalk
  <2>3. /\ UNCHANGED <<id, swallowed, registry, counter, stopping, garbled, faults, stops, boots, proc>>
        /\ asked' \subseteq asked
    BY <1>5 DEF Spawned, TimesOut, CancelTalk, records, disk
  <2>4. /\ ending' \in [Runs -> {"none", "timeout", "cancel"}]
        /\ \A q \in Runs \ {r} : ending'[q] = ending[q]
    BY <1>5 DEF Spawned, TimesOut, CancelTalk, IInv, ControlOK
  <2>5. ending'[r] # "timeout" /\ c \in {"terming", "killing"} =>
          stops[r] >= (IF r \in asked' THEN 2 ELSE 1)
    <3>1. CASE Spawned(r)
      <4>1. pc'[r] = c /\ pc'[r] = "talking"
        BY <2>2, <3>1 DEF Spawned, IInv, ControlOK
      <4> QED
        BY <4>1
    <3>2. CASE TimesOut(r)
      BY <3>2 DEF TimesOut, IInv, ControlOK
    <3>3. CASE CancelTalk(r)
      <4>1. r \in asked /\ r \notin asked' /\ r \in registry
        BY <2>1, <3>3 DEF CancelTalk, IInv, RegistryFollows
      <4> QED
        BY <4>1 DEF IInv, StopsCounted
    <3> QED
      BY <1>5, <3>1, <3>2, <3>3
  <2> QED
    BY <2>1, <2>2, <2>3, <2>4, <2>5, WaitStep DEF Awaiting, IInv, ControlOK
<1>6. ASSUME NEW r \in Runs, Kill(r) PROVE IInv'
  <2>1. Active(r)
    BY <1>6 DEF Kill, GraceOver, Active, Awaiting
  <2>2. proc' \in [Runs -> {"none", "alive", "exited"}] /\ proc'[r] # "alive"
        /\ \A q \in Runs : proc'[q] = "alive" => proc[q] = "alive"
    BY <1>6 DEF Kill, AfterKill, IInv, ControlOK
  <2>3. "killing" \in Awaiting /\ pc' = [pc EXCEPT ![r] = "killing"]
        /\ UNCHANGED <<id, swallowed, registry, counter, stopping, garbled, faults, stops, boots,
                       ending, asked>>
    BY <1>6 DEF Kill, Awaiting, records, disk
  <2>4. ending' \in [Runs -> {"none", "timeout", "cancel"}]
    BY <2>3 DEF IInv, ControlOK
  <2>5. ending'[r] # "timeout" => stops[r] >= (IF r \in asked' THEN 2 ELSE 1)
    BY <1>6, <2>1, <2>3 DEF Kill, GraceOver, IInv, StopsCounted, RegistryFollows
  <2> QED
    BY <2>1, <2>2, <2>3, <2>4, <2>5, WaitStep
<1>7. ASSUME NEW r \in Runs, Answer(r) \/ TermSucceeds(r) \/ KillSucceeds(r) PROVE IInv'
  <2>1. Active(r) /\ Ends(r) /\ asked' = asked \ {r}
    BY <1>7 DEF Answer, TermSucceeds, KillSucceeds, Concludes, Resumes, MayResume, Active, Awaiting
  <2>2. swallowed' \subseteq Runs /\ (swallowed' # {} => KeepsResult)
    <3>1. swallowed \subseteq Runs /\ (swallowed # {} => KeepsResult)
      BY DEF IInv, ControlOK
    <3>2. CASE Resumes(r)
      BY <3>1, <3>2 DEF Resumes, MayResume
    <3>3. CASE KillSucceeds(r)
      BY <3>1, <3>3 DEF KillSucceeds
    <3> QED
      BY <1>7, <3>2, <3>3 DEF Answer, TermSucceeds
  <2>3. \E s : Finish(r, s) \/ FinishAgain(r)
    BY <1>7 DEF Answer, TermSucceeds, KillSucceeds, Concludes
  <2>4. Stored /\ registry' = registry \ {r} /\ UNCHANGED <<stopping, counter>>
    BY <2>3, FinishStep
  <2>5. UNCHANGED <<ending, stops, boots, proc>>
    BY <1>7 DEF Answer, TermSucceeds, KillSucceeds, Concludes
  <2>6. proc[r] # "alive"
    BY <1>7 DEF Answer, TermSucceeds, KillSucceeds, IInv
  <2>7. proc' \in [Runs -> {"none", "alive", "exited"}]
    BY <2>5 DEF IInv, ControlOK
  <2> QED
    BY <2>1, <2>2, <2>4, <2>5, <2>6, <2>7, EndStep
<1>8. ASSUME NEW r \in Runs, CancelSpawn(r) \/ CancelTerm(r) PROVE IInv'
  <2>1. Active(r) /\ Ends(r) /\ r \in asked /\ asked' = asked \ {r} /\ r \in registry
    BY <1>8 DEF CancelSpawn, CancelTerm, Active, Awaiting, IInv, RegistryFollows
  <2>2. Finish(r, "cancelled") /\ UNCHANGED <<ending, swallowed, stops, boots>>
    BY <1>8 DEF CancelSpawn, CancelTerm
  <2>3. Stored /\ registry' = registry \ {r} /\ UNCHANGED <<stopping, counter>>
    BY <2>2, FinishStep
  <2>4. /\ proc' \in [Runs -> {"none", "alive", "exited"}]
        /\ \A q \in Runs : proc'[q] = "alive" => proc[q] = "alive"
    <3>1. proc \in [Runs -> {"none", "alive", "exited"}]
      BY DEF IInv, ControlOK
    <3>2. CASE CancelSpawn(r)
      <4>1. PICK p \in {"exited", proc[r]} : proc' = [proc EXCEPT ![r] = p]
        BY <3>2 DEF CancelSpawn
      <4> QED
        BY <3>1, <4>1
    <3>3. CASE CancelTerm(r)
      BY <3>1, <3>3 DEF CancelTerm
    <3> QED
      BY <1>8, <3>2, <3>3
  <2>5. proc'[r] = "alive" => stops[r] >= (IF ending[r] = "cancel" THEN 2 ELSE 1)
    <3>1. stops[r] >= 1
      BY <2>1 DEF IInv, StopsCounted
    <3>2. CASE ending[r] = "cancel" /\ CancelSpawn(r)
      BY <3>2 DEF CancelSpawn, IInv
    <3>3. CASE ending[r] = "cancel" /\ CancelTerm(r)
      BY <2>1, <3>3 DEF CancelTerm, IInv, StopsCounted
    <3> QED
      BY <1>8, <3>1, <3>2, <3>3
  <2>6. swallowed' \subseteq Runs /\ (swallowed' # {} => KeepsResult)
    BY <2>2 DEF IInv, ControlOK
  <2> QED
    BY <2>1, <2>2, <2>3, <2>4, <2>5, <2>6, EndStep
<1>9. ASSUME NEW r \in Runs, ProcessExits(r) PROVE IInv'
  <2>1. /\ proc' \in [Runs -> {"none", "alive", "exited"}]
        /\ \A q \in Runs : proc'[q] = "alive" => proc[q] = "alive"
        /\ UNCHANGED <<pc, id, ending, asked, swallowed, registry, stopping, counter, garbled, faults,
                       stops, boots>>
    BY <1>9 DEF ProcessExits, IInv, ControlOK, records, disk
  <2> QED
    BY <2>1 DEF IInv, ControlOK, RegistryFollows, NoProcessLeft, StopsCounted, Active
<1>10. CASE \/ \E r \in Runs : StopFails(r)
            \/ MonitorTick \/ TickFails
            \/ UNCHANGED vars
  <2>1. UNCHANGED <<pc, id, ending, asked, swallowed, proc, registry, counter, stops, boots>>
    BY <1>10 DEF StopFails, MonitorTick, TickFails, vars, coroutine, records
  <2>2. stopping' \subseteq Runs
    BY <1>10 DEF StopFails, MonitorTick, TickFails, vars, records, IInv, ControlOK
  <2>3. Stored
    <3>1. \E l : Raises(l) \/ Writes(l) \/ UNCHANGED <<garbled, faults>>
      BY <1>10 DEF StopFails, MonitorTick, TickFails, vars, records, disk
    <3> QED
      BY <3>1, DiskStep
  <2>4. ControlOK'
    BY <2>1, <2>2, <2>3 DEF IInv, ControlOK, Stored
  <2>5. RegistryFollows'
    <3>1. faults \in Nat /\ faults' \in Nat /\ faults' >= faults
      BY <2>3 DEF IInv, ControlOK, Stored
    <3> QED
      BY <2>1, <3>1 DEF IInv, RegistryFollows, Active
  <2> QED
    BY <2>1, <2>3, <2>4, <2>5 DEF IInv, NoProcessLeft, StopsCounted, Active, Stored
<1>11. CASE Restart
  <2>1. /\ pc' \in [Runs -> Awaiting \cup {"new", "leaked", "ended", "lost"}]
        /\ \A r \in Runs : ~Active(r)' /\ (pc'[r] = "new" => pc[r] = "new")
        /\ \A r \in Runs : pc'[r] \notin {"leaked", "killing", "spawning"}
    BY <1>11 DEF Restart, IInv, ControlOK, Active, Awaiting
  <2>2. /\ boots' \in 0 .. MaxBoots /\ id' \in [Runs -> Nat] /\ garbled' = FALSE
        /\ asked' = {} /\ registry' = {} /\ stopping' = {} /\ swallowed' = {} /\ counter' = 0
        /\ UNCHANGED <<ending, proc, faults, stops>>
    BY <1>11 DEF Restart, IInv, ControlOK
  <2>3. ControlOK'
    BY <2>1, <2>2 DEF IInv, ControlOK
  <2>4. RegistryFollows' /\ StopsCounted'
    BY <2>1, <2>2 DEF RegistryFollows, StopsCounted
  <2>5. \A r \in Runs : pc'[r] = "ended" => pc[r] = "ended"
    BY <1>11 DEF Restart
  <2>6. NoProcessLeft'
    BY <2>2, <2>5 DEF IInv, NoProcessLeft
  <2> QED
    BY <2>1, <2>2, <2>3, <2>4, <2>6 DEF IInv
<1> QED
  BY <1>1, <1>2, <1>3, <1>4, <1>5, <1>6, <1>7, <1>8, <1>9, <1>10, <1>11 DEF Next, Users, Handler

\* The strengthened invariant holds in every reachable state.
THEOREM Invariance == Spec => []IInv
  BY Initially, InvStep, PTL DEF Spec

\* task_registry.py: in every boot of the bot, and whatever writes of the log raise, the
\* registry holds, under distinct ids, the runs that are under way and the records whose
\* own creation raised.
THEOREM RegistryIsExact == Spec => []RegistryFollows
<1>1. IInv => RegistryFollows
  BY DEF IInv
<1> QED
  BY <1>1, Invariance, PTL

\* claude_client.py: in every boot, the process of a run that has ended is gone, whether
\* its CLI answered, timed out or was stopped, unless a /stop cut short its start or its
\* termination.
THEOREM ProcessesEnd == Spec => []NoProcessLeft
<1>1. IInv => NoProcessLeft
  BY DEF IInv
<1> QED
  BY <1>1, Invariance, PTL

-----------------------------------------------------------------------------
(* The status log while undisturbed: one entry for each run that was       *)
(* started, and what it says agrees with the coroutine.                    *)

Started(r) == pc[r] # "new"

Entered ==
  /\ log \in Seq(Entries)
  /\ \A k \in 1 .. Len(log) : Started(log[k].run) /\ log[k].id = id[log[k].run]
  /\ \A j, k \in 1 .. Len(log) : log[j].run = log[k].run => j = k
  /\ \A r \in Runs : Started(r) => /\ id[r] <= counter
                                   /\ \E k \in 1 .. Len(log) : log[k].run = r
  /\ \A q, r \in Runs : Started(q) /\ Started(r) /\ id[q] = id[r] => q = r

Stopped ==
  /\ \A r \in stopping : Started(r)
  /\ \A r \in stopping : Active(r) => r \in asked \/ ending[r] = "cancel"
  /\ \A r \in Runs : ending[r] # "none" => pc[r] \notin {"new", "spawning", "talking"}
  /\ \A r \in swallowed : pc[r] = "ended"

Truthful ==
  /\ flagged \in [Runs -> 0 .. 2]
  /\ \A r \in Runs : flagged[r] <= 1 /\ (~Started(r) => flagged[r] = 0)
  /\ \A k \in 1 .. Len(log) : LET e == log[k] IN
       /\ e.status = "running" => Active(e.run) /\ flagged[e.run] = 0
       /\ e.run \in stopping \ swallowed => e.status = "cancelled"

LogInv == Undisturbed => Entered /\ Stopped /\ Truthful

\* The log l with the status of run r set to s, and nothing else.
Marks(l, r, s) ==
  /\ l \in Seq(Entries) /\ Len(l) = Len(log)
  /\ \A k \in 1 .. Len(log) :
       /\ l[k].id = log[k].id /\ l[k].run = log[k].run
       /\ l[k].status = IF log[k].run = r THEN s ELSE log[k].status
       /\ log[k].run # r => l[k] = log[k]

LEMMA SetStatusFacts ==
  ASSUME NEW e \in Entries, NEW s \in Terminal \cup {"running"}
  PROVE  /\ SetStatus(e, s) \in Entries /\ SetStatus(e, s).id = e.id /\ SetStatus(e, s).run = e.run
         /\ SetStatus(e, s).status = s
BY DEF Entries, SetStatus, Entry

\* update_status changes the entry of the run it is called for: ids are unique.
LEMMA UpdatedMarks ==
  ASSUME Entered, NEW r \in Runs, Started(r), NEW s \in Terminal
  PROVE  Marks(Updated(log, r, id[r], s), r, s)
<1> DEFINE u == [k \in 1 .. Len(log) |-> IF log[k].id = id[r] /\ First(log, k)
                                         THEN SetStatus(log[k], s) ELSE log[k]]
<1>1. PICK k \in 1 .. Len(log) : log[k].run = r
  BY DEF Entered
<1>2. log[k].id = id[r]
  BY <1>1 DEF Entered
<1>3. Updated(log, r, id[r], s) = u
  BY <1>2 DEF Updated
<1>4. \A j \in 1 .. Len(log) : /\ log[j] \in Entries /\ log[j].run \in Runs
                               /\ log[j].id = id[r] <=> log[j].run = r
  <2> TAKE j \in 1 .. Len(log)
  <2>1. log[j] \in Entries
    BY DEF Entered
  <2>2. log[j].run \in Runs
    BY <2>1 DEF Entries
  <2> QED
    BY <2>1, <2>2 DEF Entered
<1>5. \A j \in 1 .. Len(log) : log[j].run = r => First(log, j)
  <2> SUFFICES ASSUME NEW j \in 1 .. Len(log), log[j].run = r, NEW i \in 1 .. j - 1
               PROVE  log[i].id # log[j].id
    BY DEF First
  <2>1. log \in Seq(Entries)
    BY DEF Entered
  <2>2. Len(log) \in Nat
    BY <2>1
  <2>3. i \in 1 .. Len(log) /\ i # j
    BY <2>2
  <2> QED
    BY <1>4, <2>3 DEF Entered
<1>6. \A j \in 1 .. Len(log) :
        /\ u[j] \in Entries /\ u[j].id = log[j].id /\ u[j].run = log[j].run
        /\ u[j].status = IF log[j].run = r THEN s ELSE log[j].status
        /\ log[j].run # r => u[j] = log[j]
  <2> TAKE j \in 1 .. Len(log)
  <2>1. CASE log[j].run = r
    <3>1. u[j] = SetStatus(log[j], s)
      BY <1>4, <1>5, <2>1
    <3> QED
      BY <1>4, <2>1, <3>1, SetStatusFacts
  <2>2. CASE log[j].run # r
    BY <1>4, <2>2
  <2> QED
    BY <2>1, <2>2
<1>7. u \in Seq(Entries) /\ Len(u) = Len(log)
  <2>1. Len(log) \in Nat
    BY DEF Entered
  <2>2. u = [j \in 1 .. Len(log) |-> u[j]]
    OBVIOUS
  <2> HIDE DEF u
  <2> QED
    BY <1>6, <2>1, <2>2
<1> HIDE DEF u
<1> QED
  BY <1>3, <1>6, <1>7 DEF Marks

\* A step that sets the status of r and leaves ids alone.
LEMMA MarkStep ==
  ASSUME IInv, Entered, Stopped, Truthful, NEW r \in Runs, Started(r), NEW s \in Terminal,
         Marks(log', r, s), UNCHANGED <<id, counter, flagged>>,
         NEW c \in Awaiting \cup {"ended"}, pc' = [pc EXCEPT ![r] = c],
         stopping' \in {stopping, stopping \cup {r}},
         swallowed' \in {swallowed, swallowed \cup {r}},
         r \in stopping' \ swallowed' => s = "cancelled"
  PROVE  Entered' /\ Truthful'
<1>1. /\ pc'[r] = c /\ \A q \in Runs \ {r} : pc'[q] = pc[q]
      /\ \A q \in Runs : Started(q)' <=> Started(q)
  BY DEF IInv, ControlOK, Started, Awaiting
<1>2. \A k \in 1 .. Len(log) : log[k].run \in Runs
  <2>1. \A k \in 1 .. Len(log) : log[k] \in Entries
    BY DEF Entered
  <2> QED
    BY <2>1 DEF Entries
<1>3. Entered'
  <2>1. /\ log' \in Seq(Entries) /\ Len(log') = Len(log)
        /\ \A k \in 1 .. Len(log) : log'[k].id = log[k].id /\ log'[k].run = log[k].run
    BY DEF Marks
  <2>2. \A k \in 1 .. Len(log') : Started(log[k].run)' /\ log'[k].id = id'[log'[k].run]
    BY <1>1, <1>2, <2>1 DEF Entered, Started
  <2>3. \A j, k \in 1 .. Len(log') : log'[j].run = log'[k].run => j = k
    BY <2>1 DEF Entered
  <2>4. \A q \in Runs : Started(q)' => id'[q] <= counter' /\ \E k \in 1 .. Len(log') : log'[k].run = q
    BY <1>1, <2>1 DEF Entered
  <2>5. \A p, q \in Runs : Started(p)' /\ Started(q)' /\ id'[p] = id'[q] => p = q
    BY <1>1 DEF Entered
  <2> QED
    BY <2>1, <2>2, <2>3, <2>4, <2>5 DEF Entered, Started
<1>4. Truthful'
  BY <1>1, <1>2 DEF Truthful, Marks, Active, Terminal
<1> QED
  BY <1>3, <1>4

\* A step that adds an entry for r, which was not started before.
LEMMA AddStep ==
  ASSUME IInv, Entered, Stopped, Truthful, NEW r \in Runs, ~Started(r),
         NEW e \in Entries, e.id = counter + 1, e.run = r,
         e.status \in {"running", "exception"},
         Len(log') = Len(log) + 1, log' \in Seq(Entries), log'[Len(log) + 1] = e,
         \A k \in 1 .. Len(log) : log'[k] = log[k],
         counter' = counter + 1, id' = [id EXCEPT ![r] = counter + 1],
         NEW c \in {"spawning", "ended"}, pc' = [pc EXCEPT ![r] = c],
         e.status = "running" => c = "spawning",
         UNCHANGED <<flagged, stopping, swallowed, asked, ending>>
  PROVE  Entered' /\ Stopped' /\ Truthful'
<1> DEFINE n == Len(log) + 1
<1>1. /\ pc'[r] = c /\ \A q \in Runs \ {r} : pc'[q] = pc[q]
      /\ id'[r] = counter + 1 /\ \A q \in Runs \ {r} : id'[q] = id[q]
      /\ counter \in Nat /\ id \in [Runs -> Nat]
      /\ \A q \in Runs : Started(q)' <=> Started(q) \/ q = r
  BY DEF IInv, ControlOK, Started
<1>2. \A k \in 1 .. Len(log) : log[k].run \in Runs \ {r} /\ log[k] \in Entries
  <2>1. \A k \in 1 .. Len(log) : log[k] \in Entries /\ Started(log[k].run)
    BY DEF Entered
  <2> QED
    BY <2>1 DEF Entries
<1>3. /\ Len(log) \in Nat /\ Len(log') = n /\ log'[n] = e
      /\ \A k \in 1 .. n : k \in 1 .. Len(log) \/ k = n
      /\ \A k \in 1 .. Len(log) : k \in 1 .. n /\ k # n
      /\ n \in 1 .. n
  BY DEF Entered
<1> HIDE DEF n
<1>4. \A q \in Runs : Started(q) => id[q] # counter + 1 /\ id[q] <= counter + 1
  <2>1. \A q \in Runs : Started(q) => id[q] <= counter
    BY DEF Entered
  <2>2. \A q \in Runs : id[q] \in Nat
    BY <1>1
  <2> QED
    BY <1>1, <2>1, <2>2
<1>5. Entered'
  <2>1. \A k \in 1 .. n : Started(log[k].run)' /\ log'[k].id = id'[log'[k].run]
    BY <1>1, <1>2, <1>3 DEF Entered
  <2>2. \A j, k \in 1 .. n : log'[j].run = log'[k].run => j = k
    BY <1>2, <1>3 DEF Entered
  <2>3. \A q \in Runs : Started(q)' => id'[q] <= counter' /\ \E k \in 1 .. n : log'[k].run = q
    <3> SUFFICES ASSUME NEW q \in Runs, Started(q)'
                 PROVE  id'[q] <= counter' /\ \E k \in 1 .. n : log'[k].run = q
      OBVIOUS
    <3>1. CASE q = r
      BY <1>1, <1>3, <3>1
    <3>2. CASE q # r
      <4>1. Started(q) /\ id'[q] = id[q]
        BY <1>1, <3>2
      <4>2. PICK k \in 1 .. Len(log) : log[k].run = q
        BY <4>1 DEF Entered
      <4> QED
        BY <1>1, <1>3, <1>4, <4>1, <4>2
    <3> QED
      BY <3>1, <3>2
  <2>4. \A p, q \in Runs : Started(p)' /\ Started(q)' /\ id'[p] = id'[q] => p = q
    BY <1>1, <1>4 DEF Entered
  <2>5. \A k \in 1 .. Len(log') : log'[k].id = id'[log'[k].run] /\ Started(log[k].run)'
    BY <1>3, <2>1
  <2> QED
    BY <1>3, <2>2, <2>3, <2>4, <2>5 DEF Entered, Started
<1>6. Stopped'
  <2>1. \A q \in stopping : q \in Runs /\ q # r
    BY DEF Stopped, IInv, ControlOK
  <2>2. ending[r] = "none"
    BY DEF Stopped, Started
  <2> QED
    BY <1>1, <2>1, <2>2 DEF Stopped, Active, Awaiting, Started
<1>7. Truthful'
  <2>1. r \notin stopping /\ flagged[r] = 0
    BY DEF Stopped, Truthful
  <2>2. \A q \in Runs : flagged[q] <= 1 /\ (~Started(q)' => flagged[q] = 0)
    BY <1>1 DEF Truthful
  <2>3. ASSUME NEW k \in 1 .. n
        PROVE  /\ log'[k].status = "running" => Active(log[k].run)' /\ flagged[log'[k].run] = 0
               /\ log'[k].run \in stopping \ swallowed => log'[k].status = "cancelled"
    <3>1. CASE k = n
      BY <1>1, <1>3, <2>1, <3>1 DEF Active, Awaiting
    <3>2. CASE k \in 1 .. Len(log)
      BY <1>1, <1>2, <3>2 DEF Truthful, Active
    <3> QED
      BY <1>3, <3>1, <3>2
  <2> QED
    BY <1>3, <2>2, <2>3 DEF Truthful, Active, Started
<1> QED
  BY <1>5, <1>6, <1>7

\* A step that leaves the log, the counter and the ids alone.
LEMMA QuietStep ==
  ASSUME IInv, Entered, Truthful, UNCHANGED <<log, id, counter, flagged, stopping, swallowed>>,
         NEW r \in Runs, Active(r), NEW c \in Awaiting, pc' = [pc EXCEPT ![r] = c]
  PROVE  Entered' /\ Truthful'
<1>1. /\ \A q \in Runs \ {r} : pc'[q] = pc[q]
      /\ \A q \in Runs : Started(q)' <=> Started(q)
      /\ \A q \in Runs : Active(q)' <=> Active(q)
  BY DEF IInv, ControlOK, Started, Active, Awaiting
<1>2. \A k \in 1 .. Len(log) : log[k].run \in Runs
  <2>1. \A k \in 1 .. Len(log) : log[k] \in Entries
    BY DEF Entered
  <2> QED
    BY <2>1 DEF Entries
<1>3. \A k \in 1 .. Len(log) : /\ Started(log[k].run)' <=> Started(log[k].run)
                               /\ Active(log[k].run)' <=> Active(log[k].run)
  BY <1>1, <1>2
<1>4. Entered'
  BY <1>1, <1>3 DEF Entered
<1>5. Truthful'
  BY <1>1, <1>3 DEF Truthful
<1> QED
  BY <1>4, <1>5

\* The monitor closes what is overdue and nothing else: ids are unique.
LEMMA FlaggedOverdue ==
  ASSUME Entered, NEW K \in SUBSET Overdue
  PROVE  Flagged(K) = [k \in 1 .. Len(log) |-> IF k \in K THEN SetStatus(log[k], "exception")
                                                          ELSE log[k]]
<1>1. \A k \in 1 .. Len(log) : /\ log[k] \in Entries /\ log[k].run \in Runs
                               /\ log[k].id \in Nat
  <2>1. \A k \in 1 .. Len(log) : log[k] \in Entries
    BY DEF Entered
  <2> QED
    BY <2>1 DEF Entries
<1>2. \A j, k \in 1 .. Len(log) : log[j].id = log[k].id => j = k
  BY <1>1 DEF Entered
<1>3. \A k \in 1 .. Len(log) : First(log, k)
  <2> SUFFICES ASSUME NEW k \in 1 .. Len(log), NEW j \in 1 .. k - 1 PROVE log[j].id # log[k].id
    BY DEF First
  <2>1. j \in 1 .. Len(log) /\ j # k
    BY DEF Entered
  <2> QED
    BY <1>2, <2>1
<1>4. \A k \in 1 .. Len(log) : (\E j \in K : log[j].id = log[k].id) <=> k \in K
  BY <1>2 DEF Overdue
<1> QED
  BY <1>3, <1>4 DEF Flagged

\* The monitor trips for what it found overdue and closes it.
LEMMA TickStep ==
  ASSUME IInv, Entered, Stopped, Truthful, Undisturbed, MonitorTick
  PROVE  Entered' /\ Stopped' /\ Truthful'
<1>1. \A k \in 1 .. Len(log) : log[k] \in Entries /\ log[k].run \in Runs
  <2>1. \A k \in 1 .. Len(log) : log[k] \in Entries
    BY DEF Entered
  <2> QED
    BY <2>1 DEF Entries
<1>2. PICK K \in SUBSET Overdue :
        /\ Writes(Flagged(K))
        /\ flagged' = [r \in Runs |-> IF Undisturbed /\ flagged[r] < 2 /\ \E k \in K : log[k].run = r
                                      THEN flagged[r] + 1 ELSE flagged[r]]
  BY DEF MonitorTick
<1> DEFINE u == [k \in 1 .. Len(log) |-> IF k \in K THEN SetStatus(log[k], "exception") ELSE log[k]]
<1>5. log' = u /\ UNCHANGED <<coroutine, registry, stopping, counter>>
  BY <1>2, FlaggedOverdue DEF MonitorTick, Writes
<1>6. \A k \in 1 .. Len(log) :
        /\ u[k] \in Entries /\ u[k].id = log[k].id /\ u[k].run = log[k].run
        /\ u[k].status = IF k \in K THEN "exception" ELSE log[k].status
  BY <1>1, SetStatusFacts DEF Terminal
<1>7. log' \in Seq(Entries) /\ Len(log') = Len(log)
  <2>1. Len(log) \in Nat /\ u = [k \in 1 .. Len(log) |-> u[k]]
    BY DEF Entered
  <2> HIDE DEF u
  <2> QED
    BY <1>5, <1>6, <2>1
<1> HIDE DEF u
<1>8. UNCHANGED <<pc, id, ending, asked, swallowed, stopping, counter>>
  BY <1>5 DEF coroutine
<1>9. Entered' /\ Stopped'
  BY <1>5, <1>6, <1>7, <1>8 DEF Entered, Stopped, Started, Active
<1>10. \A r \in Runs :
         flagged'[r] = IF flagged[r] < 2 /\ \E k \in K : log[k].run = r
                       THEN flagged[r] + 1 ELSE flagged[r]
  BY <1>2
<1>11. \A k \in K : k \in 1 .. Len(log) /\ log[k].status = "running"
  BY DEF Overdue
<1>12. \A r \in Runs : /\ flagged'[r] \in 0 .. 1
                       /\ ~Started(r)' => flagged'[r] = 0
  <2> SUFFICES ASSUME NEW r \in Runs
               PROVE  flagged'[r] \in 0 .. 1 /\ (~Started(r)' => flagged'[r] = 0)
    OBVIOUS
  <2>1. flagged[r] \in 0 .. 1 /\ (~Started(r) => flagged[r] = 0) /\ (Started(r)' <=> Started(r))
    BY <1>8 DEF Truthful, Started
  <2>2. CASE \E k \in K : log[k].run = r
    <3>1. flagged[r] = 0 /\ Started(r)
      BY <1>11, <2>2 DEF Truthful, Entered
    <3> QED
      BY <1>10, <2>1, <2>2, <3>1
  <2>3. CASE ~\E k \in K : log[k].run = r
    BY <1>10, <2>1, <2>3
  <2> QED
    BY <2>2, <2>3
<1>13. ASSUME NEW k \in 1 .. Len(log)
       PROVE  /\ log'[k].status = "running" => Active(log[k].run)' /\ flagged'[log'[k].run] = 0
              /\ log'[k].run \in stopping' \ swallowed' => log'[k].status = "cancelled"
  <2>1. CASE k \in K
    BY <1>5, <1>6, <1>8, <1>11, <2>1 DEF Truthful
  <2>2. CASE k \notin K
    <3>1. log'[k].status = log[k].status /\ log'[k].run = log[k].run
      BY <1>5, <1>6, <2>2
    <3>2. ~\E j \in K : log[j].run = log[k].run
      BY <1>11, <2>2 DEF Entered
    <3>3. flagged'[log[k].run] = flagged[log[k].run]
      BY <1>1, <1>10, <3>2
    <3> QED
      BY <1>8, <3>1, <3>3 DEF Truthful, Active
  <2> QED
    BY <2>1, <2>2
<1>14. flagged' \in [Runs -> 0 .. 2]
  <2>1. flagged' = [r \in Runs |-> flagged'[r]]
    BY <1>2
  <2>2. \A r \in Runs : flagged'[r] \in 0 .. 2
    BY <1>12
  <2> QED
    BY <2>1, <2>2
<1>15. Truthful'
  BY <1>7, <1>12, <1>13, <1>14 DEF Truthful, Active, Started
<1> QED
  BY <1>9, <1>15

\* A step that leaves the bot undisturbed is no restart, and no write of it raises.
LEMMA Calm ==
  ASSUME IInv, [Next]_vars, Undisturbed'
  PROVE  Undisturbed /\ ~Restart /\ ~garbled
<1>1. boots \in Nat /\ faults \in Nat /\ boots' = 0 /\ faults' = 0
  BY BoundAssumption DEF IInv, ControlOK, Undisturbed
<1>2. ~Restart
  <2>1. Restart => boots' = boots + 1
    BY Zenon DEF Restart
  <2> QED
    BY <1>1, <2>1
<1>3. ASSUME NEW r \in Runs, Users(r) PROVE boots' = boots /\ Stored
  <2>1. \E l : Writes(l) \/ Raises(l)
    BY <1>3 DEF Users, Begin, BeginFails, CreateFails, Stop, StopFails
  <2>2. boots' = boots
    BY <1>3 DEF Users, Begin, BeginFails, CreateFails, Stop, StopFails
  <2> QED
    BY <2>1, <2>2, DiskStep
<1>4. ASSUME NEW r \in Runs, Handler(r) PROVE boots' = boots /\ Stored
  <2>1. boots' = boots
    BY <1>4 DEF Handler, Spawned, Answer, TimesOut, TermSucceeds, Kill, KillSucceeds, Concludes,
                CancelSpawn, CancelTalk, CancelTerm
  <2>2. CASE Spawned(r) \/ TimesOut(r) \/ Kill(r) \/ CancelTalk(r)
    <3>1. UNCHANGED <<garbled, faults>>
      BY <2>2 DEF Spawned, TimesOut, Kill, CancelTalk, records, disk
    <3> QED
      BY <2>1, <3>1, DiskStep
  <2>3. CASE \/ Answer(r) \/ TermSucceeds(r) \/ KillSucceeds(r) \/ CancelSpawn(r) \/ CancelTerm(r)
    <3>1. \E s : Finish(r, s) \/ FinishAgain(r)
      BY <2>3 DEF Answer, TermSucceeds, KillSucceeds, CancelSpawn, CancelTerm, Concludes
    <3> QED
      BY <2>1, <3>1, FinishStep
  <2> QED
    BY <1>4, <2>2, <2>3 DEF Handler
<1>5. ASSUME NEW r \in Runs, ProcessExits(r) PROVE boots' = boots /\ Stored
  <2>1. UNCHANGED <<garbled, faults, boots>>
    BY <1>5 DEF ProcessExits, records, disk
  <2> QED
    BY <2>1, DiskStep
<1>6. ASSUME MonitorTick \/ TickFails \/ UNCHANGED vars PROVE boots' = boots /\ Stored
  <2>1. \E l : Raises(l) \/ Writes(l) \/ UNCHANGED <<garbled, faults>>
    BY <1>6 DEF MonitorTick, TickFails, vars, records, disk
  <2>2. boots' = boots
    BY <1>6 DEF MonitorTick, TickFails, vars
  <2> QED
    BY <2>1, <2>2, DiskStep
<1>7. boots' = boots /\ Stored
  BY <1>2, <1>3, <1>4, <1>5, <1>6 DEF Next
<1>8. faults' >= faults
  BY <1>7 DEF Stored
<1>9. boots = 0 /\ faults = 0
  BY <1>1, <1>7, <1>8
<1> QED
  BY <1>2, <1>9 DEF Undisturbed, IInv

\* A write of such a step does not raise ...
LEMMA NoRaise ==
  ASSUME ~garbled, Undisturbed, Undisturbed', NEW l
  PROVE  ~Raises(l)
BY DEF Raises, Undisturbed

\* ... and the end of a run is entered.
LEMMA CalmFinish ==
  ASSUME ~garbled, Undisturbed, Undisturbed', NEW r, NEW s, Finish(r, s) \/ FinishAgain(r)
  PROVE  Finish(r, s) /\ log' = Updated(log, r, id[r], s)
<1>1. ~FinishAgain(r)
  BY DEF FinishAgain, Undisturbed
<1>2. ~Raises(log)
  BY NoRaise
<1> QED
  BY <1>1, <1>2 DEF Finish, Writes

\* A run that cannot start is entered as "running" and at once set to "exception".
LEMMA FailedEntry ==
  ASSUME IInv, Entered, NEW r \in Runs, BeginFails(r), Undisturbed, Undisturbed', ~garbled
  PROVE  \E f \in Entries :
           /\ f.id = counter + 1 /\ f.run = r /\ f.status = "exception"
           /\ log' \in Seq(Entries) /\ Len(log') = Len(log) + 1 /\ log'[Len(log) + 1] = f
           /\ \A k \in 1 .. Len(log) : log'[k] = log[k]
<1> DEFINE e == Entry(r, counter + 1, "running")
           f == SetStatus(e, "exception")
           l == Append(log, e)
           n == Len(log) + 1
<1>1. /\ counter \in Nat /\ log \in Seq(Entries) /\ Len(log) \in Nat
      /\ n \in Nat /\ n \notin 1 .. Len(log) /\ 1 .. n = 1 .. Len(log) \cup {n}
  BY DEF IInv, ControlOK, Entered
<1>2. e \in Entries /\ e.id = counter + 1 /\ e.run = r
  BY <1>1 DEF Entry, Entries, Terminal
<1>3. f \in Entries /\ f.id = counter + 1 /\ f.run = r /\ f.status = "exception"
  BY <1>2, SetStatusFacts DEF Terminal
<1>4. log' = Updated(l, r, counter + 1, "exception")
  <2>1. ~Raises(Created(r))
    BY NoRaise
  <2> QED
    BY <2>1 DEF BeginFails, Enters, Created, Writes
<1> HIDE DEF e, f, n
<1>5. /\ l \in Seq(Entries) /\ Len(l) = n /\ l[n] = e
      /\ \A k \in 1 .. Len(log) : l[k] = log[k]
  BY <1>1, <1>2 DEF n
<1>6. \A k \in 1 .. Len(log) : log[k] \in Entries /\ log[k].id # counter + 1
  <2> TAKE k \in 1 .. Len(log)
  <2>1. log[k] \in Entries /\ log[k].id = id[log[k].run] /\ Started(log[k].run)
    BY DEF Entered
  <2>2. log[k].run \in Runs
    BY <2>1 DEF Entries
  <2>3. id[log[k].run] <= counter /\ id[log[k].run] \in Nat
    BY <2>1, <2>2 DEF Entered, IInv, ControlOK
  <2> QED
    BY <1>1, <2>1, <2>3
<1> HIDE DEF l
<1>7. First(l, n)
  BY <1>1, <1>2, <1>5, <1>6 DEF First, n
<1>8. log' = [k \in 1 .. n |-> IF l[k].id = counter + 1 /\ First(l, k)
                               THEN SetStatus(l[k], "exception") ELSE l[k]]
  BY <1>1, <1>2, <1>4, <1>5 DEF Updated
<1>9. \A k \in 1 .. n : log'[k] \in Entries
  BY <1>1, <1>2, <1>5, <1>6, <1>8, SetStatusFacts DEF Terminal
<1>10. log'[n] = f /\ \A k \in 1 .. Len(log) : log'[k] = log[k]
  BY <1>1, <1>2, <1>5, <1>6, <1>7, <1>8 DEF f
<1>11. log' \in Seq(Entries) /\ Len(log') = n
  <2>1. log' = [k \in 1 .. n |-> log'[k]]
    BY <1>8
  <2> QED
    BY <1>1, <1>9, <2>1
<1> QED
  BY <1>3, <1>10, <1>11 DEF n

LEMMA LogStep == IInv /\ LogInv /\ [Next]_vars => LogInv'
<1> SUFFICES ASSUME IInv, LogInv, [Next]_vars, Undisturbed'
             PROVE  Entered' /\ Stopped' /\ Truthful'
  BY DEF LogInv
<1>1. Undisturbed /\ ~Restart /\ ~garbled
  BY Calm
<1>2. Entered /\ Stopped /\ Truthful
  BY <1>1 DEF LogInv
<1>3. ASSUME NEW r \in Runs, Begin(r) PROVE Entered' /\ Stopped' /\ Truthful'
  <2> DEFINE e == Entry(r, counter + 1, "running")
  <2>1. counter \in Nat /\ log \in Seq(Entries) /\ id \in [Runs -> Nat]
    BY <1>2 DEF IInv, ControlOK, Entered
  <2>2. e \in Entries /\ e.id = counter + 1 /\ e.run = r /\ e.status = "running"
    BY <2>1 DEF Entry, Entries, Terminal
  <2>3. /\ log' = Append(log, e) /\ counter' = counter + 1 /\ id' = [id EXCEPT ![r] = counter + 1]
        /\ pc[r] = "new" /\ pc' = [pc EXCEPT ![r] = "spawning"]
        /\ UNCHANGED <<flagged, stopping, swallowed, asked, ending>>
    BY <1>3 DEF Begin, Enters, Created, Writes
  <2> HIDE DEF e
  <2>4. /\ log' \in Seq(Entries) /\ Len(log') = Len(log) + 1 /\ log'[Len(log) + 1] = e
        /\ \A k \in 1 .. Len(log) : log'[k] = log[k]
    BY <2>1, <2>2, <2>3
  <2> QED
    BY <1>2, <2>2, <2>3, <2>4, AddStep DEF Started
<1>4. ASSUME NEW r \in Runs, BeginFails(r) PROVE Entered' /\ Stopped' /\ Truthful'
  <2>1. PICK f \in Entries :
          /\ f.id = counter + 1 /\ f.run = r /\ f.status = "exception"
          /\ log' \in Seq(Entries) /\ Len(log') = Len(log) + 1 /\ log'[Len(log) + 1] = f
          /\ \A k \in 1 .. Len(log) : log'[k] = log[k]
    BY <1>1, <1>2, <1>4, FailedEntry
  <2>2. /\ counter' = counter + 1 /\ id' = [id EXCEPT ![r] = counter + 1]
        /\ pc[r] = "new" /\ pc' = [pc EXCEPT ![r] = "ended"]
        /\ UNCHANGED <<flagged, stopping, swallowed, asked, ending>>
    BY <1>4 DEF BeginFails, Enters
  <2> QED
    BY <1>2, <2>1, <2>2, AddStep DEF Started
<1>5. ASSUME NEW r \in Runs, Stop(r) PROVE Entered' /\ Stopped' /\ Truthful'
  <2>1. Active(r) /\ Started(r) /\ pc[r] \in Awaiting
    <3>1. Active(r)
      BY <1>1, <1>5 DEF Stop, IInv, RegistryFollows, Undisturbed
    <3> QED
      BY <3>1 DEF Active, Awaiting, Started
  <2>2. /\ log' = Updated(log, r, id[r], "cancelled")
        /\ UNCHANGED <<pc, id, ending, swallowed, counter, flagged>>
        /\ stopping' = stopping \cup {r} /\ asked' = asked \cup {r}
    BY <1>5, <2>1 DEF Stop, Writes
  <2>3. Marks(log', r, "cancelled")
    BY <1>2, <2>1, <2>2, UpdatedMarks DEF Terminal
  <2>4. pc' = [pc EXCEPT ![r] = pc[r]]
    BY <2>2 DEF IInv, ControlOK
  <2>5. Entered' /\ Truthful'
    BY <1>2, <2>1, <2>2, <2>3, <2>4, MarkStep DEF Terminal
  <2>6. Stopped'
    BY <1>2, <2>1, <2>2 DEF Stopped, Active, Started
  <2> QED
    BY <2>5, <2>6
<1>6. ASSUME NEW r \in Runs, Spawned(r) \/ TimesOut(r) \/ CancelTalk(r) \/ Kill(r)
      PROVE  Entered' /\ Stopped' /\ Truthful'
  <2>1. Active(r)
    BY <1>6 DEF Spawned, TimesOut, CancelTalk, Kill, GraceOver, Active, Awaiting
  <2>2. PICK c \in {"talking", "terming", "killing"} : pc' = [pc EXCEPT ![r] = c]
    BY <1>6 DEF Spawned, TimesOut, CancelTalk, Kill
  <2>3. UNCHANGED <<log, id, swallowed, counter, flagged, stopping>>
    BY <1>6 DEF Spawned, TimesOut, CancelTalk, Kill, records, disk
  <2>4. Entered' /\ Truthful'
    BY <1>2, <2>1, <2>2, <2>3, QuietStep DEF Awaiting
  <2>5. Stopped'
    <3>1. /\ pc'[r] = c /\ \A q \in Runs \ {r} : pc'[q] = pc[q]
          /\ ending \in [Runs -> {"none", "timeout", "cancel"}]
      BY <2>2 DEF IInv, ControlOK
    <3>2. /\ \A q \in stopping : q \in Runs
          /\ \A q \in swallowed : q \in Runs /\ q # r /\ pc'[q] = "ended"
      BY <1>2, <2>1, <3>1 DEF IInv, ControlOK, Stopped, Active, Awaiting
    <3>3. CASE Spawned(r)
      BY <1>2, <2>1, <2>3, <3>1, <3>2, <3>3 DEF Spawned, Stopped, Started, Active, Awaiting
    <3>4. CASE TimesOut(r)
      <4>1. r \notin asked /\ asked' = asked /\ ending[r] = "none"
        BY <1>2, <3>4 DEF TimesOut, MayResume, Stopped, IInv, ControlOK
      <4>2. r \notin stopping
        BY <1>2, <2>1, <4>1 DEF Stopped
      <4>3. \A q \in Runs \ {r} : ending'[q] = ending[q]
        BY <3>1, <3>4 DEF TimesOut
      <4>4. pc'[r] = "terming"
        BY <3>4 DEF TimesOut, IInv, ControlOK
      <4> QED
        BY <1>2, <2>3, <3>1, <3>2, <4>1, <4>2, <4>3, <4>4 DEF Stopped, Started, Active, Awaiting
    <3>5. CASE CancelTalk(r)
      <4>1. ending'[r] = "cancel" /\ \A q \in Runs \ {r} : ending'[q] = ending[q]
        BY <3>1, <3>5 DEF CancelTalk
      <4>2. \A q \in Runs \ {r} : q \in asked => q \in asked'
        BY <3>5 DEF CancelTalk
      <4>3. pc'[r] = "terming"
        BY <3>5 DEF CancelTalk, IInv, ControlOK
      <4> QED
        BY <1>2, <2>3, <3>1, <3>2, <4>1, <4>2, <4>3 DEF Stopped, Started, Active, Awaiting
    <3>6. CASE Kill(r)
      BY <1>2, <2>1, <2>3, <3>1, <3>2, <3>6 DEF Kill, GraceOver, Stopped, Started, Active, Awaiting
    <3> QED
      BY <1>6, <3>3, <3>4, <3>5, <3>6
  <2> QED
    BY <2>4, <2>5
<1>7. ASSUME NEW r \in Runs, \/ Answer(r) \/ TermSucceeds(r) \/ KillSucceeds(r)
                             \/ CancelSpawn(r) \/ CancelTerm(r)
      PROVE  Entered' /\ Stopped' /\ Truthful'
  <2>1. Active(r) /\ Started(r)
    BY <1>7 DEF Answer, TermSucceeds, KillSucceeds, CancelSpawn, CancelTerm, Active, Awaiting, Started
  <2>2. /\ pc' = [pc EXCEPT ![r] = "ended"] /\ UNCHANGED <<id, stopping, counter, ending, flagged>>
        /\ asked' = asked \ {r}
        /\ swallowed' = IF CancelSpawn(r) \/ CancelTerm(r) \/ r \notin asked
                        THEN swallowed ELSE swallowed \cup {r}
    BY <1>7 DEF Answer, TermSucceeds, KillSucceeds, CancelSpawn, CancelTerm, Concludes, Ends, Finish,
                FinishAgain, Resumes, MayResume
  <2>3. PICK s \in Terminal : /\ log' = Updated(log, r, id[r], s)
                              /\ r \in stopping \ swallowed' => s = "cancelled"
    <3>1. CASE Answer(r)
      <4>1. r \in stopping => r \in asked
        BY <1>2, <2>1, <3>1 DEF Answer, Stopped
      <4>2. r \in stopping => r \in swallowed'
        BY <3>1, <4>1 DEF Answer, Resumes
      <4>3. PICK s \in {"completed", "exception"} : Finish(r, s) \/ FinishAgain(r)
        BY <3>1 DEF Answer
      <4>4. log' = Updated(log, r, id[r], s) /\ s \in Terminal
        BY <1>1, <4>3, CalmFinish DEF Terminal
      <4> QED
        BY <4>2, <4>4, Zenon
    <3>2. CASE TermSucceeds(r) \/ KillSucceeds(r)
      <4>1. Finish(r, Outcome(r)) /\ (r \in asked => r \in swallowed')
        BY <3>2 DEF TermSucceeds, KillSucceeds, Resumes, MayResume, Concludes
      <4>2. log' = Updated(log, r, id[r], Outcome(r))
        BY <1>1, <4>1, CalmFinish
      <4>3. r \in stopping \ swallowed' => ending[r] = "cancel"
        BY <1>2, <2>1, <4>1 DEF Stopped
      <4>4. Outcome(r) \in Terminal /\ (r \in stopping \ swallowed' => Outcome(r) = "cancelled")
        BY <4>3 DEF Outcome, Terminal
      <4> QED
        BY <4>2, <4>4, Zenon
    <3>3. CASE CancelSpawn(r) \/ CancelTerm(r)
      <4>1. Finish(r, "cancelled") /\ "cancelled" \in Terminal
        BY <3>3 DEF CancelSpawn, CancelTerm, Terminal
      <4>2. log' = Updated(log, r, id[r], "cancelled")
        BY <1>1, <4>1, CalmFinish
      <4> QED
        BY <4>1, <4>2
    <3> QED
      BY <1>7, <3>1, <3>2, <3>3
  <2>4. Marks(log', r, s)
    BY <1>2, <2>1, <2>3, UpdatedMarks
  <2>5. Entered' /\ Truthful'
    <3>1. swallowed' \in {swallowed, swallowed \cup {r}} /\ stopping' = stopping
      BY <2>2
    <3> QED
      BY <1>2, <2>1, <2>2, <2>3, <2>4, <3>1, MarkStep
  <2>6. Stopped'
    <3>1. pc'[r] = "ended" /\ \A q \in Runs \ {r} : pc'[q] = pc[q]
      BY <2>2 DEF IInv, ControlOK
    <3>2. (\A q \in stopping : q \in Runs) /\ \A q \in swallowed' : q = r \/ q \in swallowed
      BY <2>2 DEF IInv, ControlOK
    <3>3. swallowed \subseteq Runs
      BY DEF IInv, ControlOK
    <3> QED
      BY <1>2, <2>2, <3>1, <3>2, <3>3 DEF Stopped, Active, Awaiting, Started
  <2> QED
    BY <2>5, <2>6
<1>8. CASE (\E r \in Runs : ProcessExits(r)) \/ UNCHANGED vars
  <2>1. UNCHANGED <<pc, id, ending, asked, swallowed, stopping, counter, log, flagged>>
    BY <1>8 DEF ProcessExits, records, disk, coroutine, vars
  <2> QED
    BY <1>2, <2>1 DEF Entered, Stopped, Truthful, Started, Active
<1>9. CASE MonitorTick
  BY <1>1, <1>2, <1>9, TickStep
<1>10. ~TickFails /\ \A r \in Runs : ~CreateFails(r) /\ ~StopFails(r)
  BY <1>1, NoRaise DEF TickFails, CreateFails, StopFails
<1> QED
  BY <1>1, <1>3, <1>4, <1>5, <1>6, <1>7, <1>8, <1>9, <1>10 DEF Next, Users, Handler

\* Entries stay where they are, and change only while their run is under way.
Settled ==
  /\ Len(log') >= Len(log)
  /\ \A k \in 1 .. Len(log) :
       /\ log'[k].run = log[k].run /\ log'[k].id = log[k].id
       /\ ~Active(log[k].run) => log'[k] = log[k]

\* Every action of an undisturbed bot leaves the entries of ended runs alone.
LEMMA SettledStep == IInv /\ LogInv /\ [Next]_vars /\ Undisturbed' => Settled
<1> SUFFICES ASSUME IInv, LogInv, [Next]_vars, Undisturbed' PROVE Settled
  OBVIOUS
<1>1. /\ ~Restart /\ ~garbled /\ Undisturbed
      /\ Entered /\ Truthful
  BY Calm DEF LogInv
<1>2. Len(log) \in Nat /\ log \in Seq(Entries)
  BY <1>1 DEF Entered
<1>3. ASSUME NEW r \in Runs, Begin(r) PROVE Settled
  <2>1. log' = Append(log, Entry(r, counter', "running"))
    BY <1>3 DEF Begin, Enters, Created, Writes
  <2>2. Len(log') = Len(log) + 1 /\ \A k \in 1 .. Len(log) : log'[k] = log[k]
    BY <1>2, <2>1
  <2> QED
    BY <1>2, <2>2 DEF Settled
<1>4. ASSUME NEW r \in Runs, BeginFails(r) PROVE Settled
  <2>1. Len(log') = Len(log) + 1 /\ \A k \in 1 .. Len(log) : log'[k] = log[k]
    BY <1>1, <1>4, FailedEntry
  <2> QED
    BY <1>2, <2>1 DEF Settled
<1>5. ASSUME NEW r \in Runs, Active(r), NEW s \in Terminal, log' = Updated(log, r, id[r], s)
      PROVE  Settled
  <2>1. Marks(log', r, s)
    BY <1>1, <1>5, UpdatedMarks DEF Active, Awaiting, Started
  <2> QED
    BY <1>2, <1>5, <2>1 DEF Marks, Settled
<1>6. ASSUME NEW r \in Runs, Stop(r) PROVE Settled
  <2>1. Active(r) /\ log' = Updated(log, r, id[r], "cancelled") /\ "cancelled" \in Terminal
    BY <1>1, <1>6 DEF Stop, Writes, IInv, RegistryFollows, Undisturbed, Terminal
  <2> QED
    BY <1>5, <2>1
<1>7. ASSUME NEW r \in Runs, NEW s \in Terminal, Finish(r, s) \/ FinishAgain(r), pc[r] \in Awaiting
      PROVE  Settled
  <2>1. log' = Updated(log, r, id[r], s)
    BY <1>1, <1>7, CalmFinish
  <2> QED
    BY <1>5, <1>7, <2>1 DEF Active
<1>8. ASSUME NEW r \in Runs, \/ Answer(r) \/ TermSucceeds(r) \/ KillSucceeds(r)
                             \/ CancelSpawn(r) \/ CancelTerm(r)
      PROVE  Settled
  <2>1. pc[r] \in Awaiting
    BY <1>8 DEF Answer, TermSucceeds, KillSucceeds, CancelSpawn, CancelTerm, Awaiting
  <2>2. \E s \in Terminal : Finish(r, s) \/ FinishAgain(r)
    BY <1>8 DEF Answer, TermSucceeds, KillSucceeds, CancelSpawn, CancelTerm, Concludes, Outcome, Terminal
  <2> QED
    BY <1>7, <2>1, <2>2
<1>9. ASSUME UNCHANGED log PROVE Settled
  BY <1>2, <1>9 DEF Settled
<1>10. ASSUME NEW r \in Runs, \/ Spawned(r) \/ TimesOut(r) \/ CancelTalk(r) \/ Kill(r)
                              \/ ProcessExits(r)
       PROVE  Settled
  BY <1>9, <1>10 DEF Spawned, TimesOut, CancelTalk, Kill, ProcessExits, records, disk
<1>11. ~TickFails /\ \A r \in Runs : ~CreateFails(r) /\ ~StopFails(r)
  BY <1>1, NoRaise DEF TickFails, CreateFails, StopFails
<1>12. CASE MonitorTick
  <2>0. PICK K \in SUBSET Overdue : Writes(Flagged(K))
    BY <1>12 DEF MonitorTick
  <2> DEFINE u == [k \in 1 .. Len(log) |-> IF k \in K THEN SetStatus(log[k], "exception")
                                                      ELSE log[k]]
  <2>1. log' = u
    BY <1>1, <2>0, FlaggedOverdue DEF Writes
  <2>2. \A k \in 1 .. Len(log) : log[k] \in Entries
    BY <1>2
  <2>3. \A k \in 1 .. Len(log) : u[k].run = log[k].run /\ u[k].id = log[k].id
    BY <2>2, SetStatusFacts DEF Terminal
  <2>4. \A k \in 1 .. Len(log) : ~Active(log[k].run) => u[k] = log[k]
    BY <1>1 DEF Truthful, Overdue
  <2>5. Len(u) = Len(log)
    BY <1>2
  <2> HIDE DEF u
  <2> QED
    BY <1>2, <2>1, <2>3, <2>4, <2>5 DEF Settled
<1>13. CASE UNCHANGED vars
  BY <1>9, <1>13 DEF vars, records, disk
<1> QED
  BY <1>1, <1>3, <1>4, <1>6, <1>8, <1>10, <1>11, <1>12, <1>13 DEF Next, Users, Handler

\* task_status_log.py: until the first restart and the first write of the log that raises,
\* log, registry and coroutines agree.
THEOREM LogInvariance == Spec => []LogInv
<1>1. Init => LogInv
  <2> SUFFICES ASSUME Init PROVE Entered /\ Stopped /\ Truthful
    BY DEF LogInv
  <2>1. log \in Seq(Entries) /\ Len(log) = 0
    BY DEF Init
  <2> QED
    BY <2>1 DEF Init, Entered, Stopped, Truthful, Started
<1> QED
  BY <1>1, LogStep, Invariance, PTL DEF Spec

\* task_status_log.py: while undisturbed, what is shown as running runs.
THEOREM NoGhosts == Spec => []RunningIsActive
<1>1. LogInv => RunningIsActive
  BY DEF LogInv, Truthful, RunningIsActive
<1> QED
  BY <1>1, LogInvariance, PTL

\* task_registry.py: while undisturbed, an accepted /stop decides how the run ends, unless
\* Python 3.11's wait_for returned a result that was there and lost the cancellation.
THEOREM StopWins == Spec => []StopDecides
<1>1. IInv /\ LogInv => StopDecides
  <2> SUFFICES ASSUME IInv, LogInv, Undisturbed, NEW r \in stopping
               PROVE  /\ ~StatusOf(r, "running")
                      /\ r \notin swallowed => ~StatusOf(r, "completed") /\ ~StatusOf(r, "exception")
    BY DEF StopDecides, IInv
  <2>1. Stopped /\ Truthful
    BY DEF LogInv
  <2>2. r \notin swallowed => ~\E s \in {"running", "completed", "exception"} : StatusOf(r, s)
    BY <2>1 DEF Truthful, StatusOf
  <2>3. r \in swallowed => ~StatusOf(r, "running")
    BY <2>1 DEF Truthful, Stopped, StatusOf, Active, Awaiting
  <2> QED
    BY <2>2, <2>3
<1> QED
  BY <1>1, Invariance, LogInvariance, PTL

\* task_monitor.py: while undisturbed, the monitor trips at most once for a run.
THEOREM OneTrip == Spec => []TripsOnce
<1>1. LogInv => TripsOnce
  BY DEF LogInv, Truthful, TripsOnce
<1> QED
  BY <1>1, LogInvariance, PTL

\* task_status_log.py: while undisturbed, what the log says of a run that has ended
\* is settled, against late answers, further stops and the monitor.
THEOREM EndsSettle == Spec => EndsAreFinal
<1>1. IInv /\ LogInv /\ [Next]_vars => [Undisturbed' => Settled]_vars
  BY SettledStep
<1>2. [Undisturbed' => Settled]_vars =>
        [Undisturbed' =>
           /\ Len(log') >= Len(log)
           /\ \A k \in 1 .. Len(log) :
                /\ log'[k].run = log[k].run /\ log'[k].id = log[k].id
                /\ ~Active(log[k].run) => log'[k] = log[k]]_vars
  BY DEF Settled
<1> QED
  BY <1>1, <1>2, Invariance, LogInvariance, PTL DEF Spec, EndsAreFinal

(***************************************************************************)
(* Type correctness, in every boot                                         *)
(***************************************************************************)

LEMMA UpdatedType ==
  ASSUME NEW l \in Seq(Entries), NEW r \in Runs, NEW i \in Nat, NEW s \in Terminal
  PROVE  Updated(l, r, i, s) \in Seq(Entries)
<1>1. Entry(r, i, s) \in Entries
  BY DEF Entry, Entries
<1>2. \A k \in 1 .. Len(l) : l[k] \in Entries /\ SetStatus(l[k], s) \in Entries
  BY SetStatusFacts
<1>3. [k \in 1 .. Len(l) |-> IF l[k].id = i /\ First(l, k) THEN SetStatus(l[k], s) ELSE l[k]]
        \in Seq(Entries)
  BY <1>2
<1> QED
  BY <1>1, <1>3 DEF Updated

\* What a write leaves, raising or not, when both the old and the new file are entries.
LEMMA DiskType ==
  ASSUME NEW o \in Seq(Entries), NEW n \in Seq(Entries), Writes(n) \/ Raises(o)
  PROVE  log' \in Seq(Entries)
<1>1. log' \in {o, n, << >>}
  BY DEF Writes, Raises
<1>2. << >> \in Seq(Entries)
  OBVIOUS
<1> QED
  BY <1>1, <1>2

\* The end of a run leaves a log of entries.
LEMMA FinishType ==
  ASSUME IInv, TypeOK, NEW r \in Runs, NEW s \in Terminal, Finish(r, s) \/ FinishAgain(r)
  PROVE  log' \in Seq(Entries)
<1>1. id[r] \in Nat /\ log \in Seq(Entries) /\ << >> \in Seq(Entries) /\ "exception" \in Terminal
  BY DEF TypeOK, ControlOK, Terminal
<1>2. CASE Finish(r, s)
  <2>1. Writes(Updated(log, r, id[r], s)) \/ Raises(log)
    BY <1>2 DEF Finish
  <2>2. Updated(log, r, id[r], s) \in Seq(Entries)
    BY <1>1, UpdatedType
  <2> QED
    BY <1>1, <2>1, <2>2, DiskType
<1>3. CASE FinishAgain(r)
  <2>1. PICK l \in {log, << >>} : log' = Updated(l, r, id[r], "exception")
    BY <1>3 DEF FinishAgain
  <2>2. l \in Seq(Entries)
    BY <1>1
  <2> QED
    BY <1>1, <2>1, <2>2, UpdatedType
<1> QED
  BY <1>2, <1>3

\* What the monitor writes are entries.
LEMMA FlaggedType ==
  ASSUME log \in Seq(Entries), NEW K
  PROVE  Flagged(K) \in Seq(Entries)
<1>1. \A k \in 1 .. Len(log) : log[k] \in Entries /\ SetStatus(log[k], "exception") \in Entries
  BY SetStatusFacts DEF Terminal
<1> QED
  BY <1>1 DEF Flagged

\* Every action keeps the log a sequence of entries.
LEMMA LogTypeStep == IInv /\ TypeOK /\ [Next]_vars => log' \in Seq(Entries) /\ flagged' \in [Runs -> 0 .. 2]
<1> SUFFICES ASSUME IInv, TypeOK, [Next]_vars
             PROVE  log' \in Seq(Entries) /\ flagged' \in [Runs -> 0 .. 2]
  OBVIOUS
<1>1. /\ log \in Seq(Entries) /\ flagged \in [Runs -> 0 .. 2] /\ counter \in Nat
      /\ id \in [Runs -> Nat] /\ Len(log) \in Nat /\ \A k \in 1 .. Len(log) : log[k] \in Entries
  BY DEF TypeOK, ControlOK
<1>2. ASSUME NEW r \in Runs, Users(r) PROVE log' \in Seq(Entries) /\ UNCHANGED flagged
  <2>1. Entry(r, counter + 1, "running") \in Entries
    BY <1>1 DEF Entry, Entries, Terminal
  <2>2. Created(r) \in Seq(Entries) /\ "exception" \in Terminal /\ "cancelled" \in Terminal
    BY <1>1, <2>1 DEF Created, Terminal
  <2>3. CASE Begin(r) \/ CreateFails(r)
    <3>1. (Writes(Created(r)) \/ Raises(log)) /\ UNCHANGED flagged
      BY <2>3 DEF Begin, CreateFails
    <3> QED
      BY <1>1, <2>2, <3>1, DiskType
  <2>4. CASE BeginFails(r)
    <3>1. /\ Writes(Updated(Created(r), r, counter', "exception")) \/ Raises(Created(r))
          /\ UNCHANGED flagged /\ counter' \in Nat
      BY <1>1, <2>4 DEF BeginFails, Enters
    <3>2. Updated(Created(r), r, counter', "exception") \in Seq(Entries)
      BY <2>2, <3>1, UpdatedType
    <3> QED
      BY <2>2, <3>1, <3>2, DiskType
  <2>5. CASE Stop(r) \/ StopFails(r)
    <3>1. /\ Writes(Updated(log, r, id[r], "cancelled")) \/ Raises(log)
          /\ UNCHANGED flagged
      BY <2>5 DEF Stop, StopFails
    <3>2. Updated(log, r, id[r], "cancelled") \in Seq(Entries)
      BY <1>1, <2>2, UpdatedType
    <3> QED
      BY <1>1, <3>1, <3>2, DiskType
  <2> QED
    BY <1>2, <2>3, <2>4, <2>5 DEF Users
<1>3. ASSUME NEW r \in Runs, Handler(r) PROVE log' \in Seq(Entries) /\ UNCHANGED flagged
  <2>1. CASE Spawned(r) \/ TimesOut(r) \/ CancelTalk(r) \/ Kill(r)
    BY <1>1, <2>1 DEF Spawned, TimesOut, CancelTalk, Kill, records, disk
  <2>2. CASE \/ Answer(r) \/ TermSucceeds(r) \/ KillSucceeds(r) \/ CancelSpawn(r) \/ CancelTerm(r)
    <3>1. UNCHANGED flagged
      BY <2>2 DEF Answer, TermSucceeds, KillSucceeds, CancelSpawn, CancelTerm, Concludes
    <3>2. \E s \in Terminal : Finish(r, s) \/ FinishAgain(r)
      BY <2>2 DEF Answer, TermSucceeds, KillSucceeds, CancelSpawn, CancelTerm, Concludes, Outcome,
                  Terminal
    <3> QED
      BY <3>1, <3>2, FinishType
  <2> QED
    BY <1>3, <2>1, <2>2 DEF Handler
<1>4. CASE MonitorTick
  <2>1. PICK K : /\ Writes(Flagged(K))
                 /\ flagged' = [r \in Runs |->
                                  IF Undisturbed /\ flagged[r] < 2 /\ \E k \in K : log[k].run = r
                                  THEN flagged[r] + 1 ELSE flagged[r]]
    BY <1>4 DEF MonitorTick
  <2>2. log' \in Seq(Entries)
    BY <1>1, <2>1, FlaggedType DEF Writes
  <2>3. flagged' = [r \in Runs |-> flagged'[r]] /\ \A r \in Runs : flagged'[r] \in 0 .. 2
    BY <1>1, <2>1
  <2> QED
    BY <2>2, <2>3
<1>5. CASE TickFails
  <2>1. PICK K : Raises(Flagged(K))
    BY <1>5 DEF TickFails
  <2>2. Flagged(K) \in Seq(Entries)
    BY <1>1, FlaggedType
  <2>3. log' \in Seq(Entries)
    BY <2>1, <2>2, DiskType
  <2> QED
    BY <1>1, <1>5, <2>3 DEF TickFails
<1>6. CASE Restart
  <2>1. UNCHANGED flagged
    BY <1>6 DEF Restart
  <2>2. CASE log' = << >>
    BY <1>1, <2>1, <2>2
  <2>3. CASE \E n \in 0 .. Len(log) : \E f \in Survivals(n) : log' = [i \in 1 .. n |-> log[f[i]]]
    <3>1. PICK n \in 0 .. Len(log) :
            \E f \in Survivals(n) : log' = [i \in 1 .. n |-> log[f[i]]]
      BY <2>3
    <3>2. PICK f \in Survivals(n) : log' = [i \in 1 .. n |-> log[f[i]]]
      BY <3>1
    <3>3. n \in Nat /\ \A i \in 1 .. n : f[i] \in 1 .. Len(log)
      BY <1>1 DEF Survivals
    <3>4. log' \in Seq(Entries)
      BY <1>1, <3>2, <3>3
    <3> QED
      BY <1>1, <2>1, <3>4
  <2> QED
    BY <1>6, <2>2, <2>3 DEF Restart
<1>7. CASE (\E r \in Runs : ProcessExits(r)) \/ UNCHANGED vars
  BY <1>1, <1>7 DEF ProcessExits, records, disk, vars
<1> QED
  BY <1>1, <1>2, <1>3, <1>4, <1>5, <1>6, <1>7 DEF Next

\* Every variable of TaskTracking keeps its type, in every boot.
THEOREM TypeCorrect == Spec => []TypeOK
<1>1. Init => TypeOK
  <2> SUFFICES ASSUME Init PROVE log \in Seq(Entries) /\ flagged \in [Runs -> 0 .. 2] /\ ControlOK
    BY DEF TypeOK
  <2>1. Init => IInv
    BY Initially
  <2> QED
    BY <2>1 DEF Init, IInv
<1>2. IInv' /\ log' \in Seq(Entries) /\ flagged' \in [Runs -> 0 .. 2] => TypeOK'
  BY DEF IInv, TypeOK
<1> QED
  BY <1>1, <1>2, LogTypeStep, Invariance, PTL DEF Spec
=============================================================================
