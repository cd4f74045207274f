------------------------- MODULE NotificationsProofs -------------------------
(***************************************************************************)
(* Proofs about Notifications, for any number of hooks, monitors, kills    *)
(* and exceptions: the monitor's lock is never left behind, and the session's       *)
(* budget is kept as long as no two processes overlap.                     *)
(***************************************************************************)
EXTENDS Notifications, TLAPS

\* The record that stands for a missing session is not one of the sessions.
LEMMA NoSessionFact == NoSession \notin Sessions /\ NoSession.sent = Budget + 1 /\ NoSession.done = FALSE
  BY BudgetAssumption DEF NoSession, Sessions

\* What a process may become, whatever it was before.
Fits(p, r) ==
  /\ r \in Records
  /\ r.step \in {"send", "recheck", "write"} => r.copy \in Sessions
  /\ r.copy # NoSession => r.step \in {"send", "recheck", "write", "refresh"}
  /\ r.step # "off" => r.kind \in Kinds /\ (p \in Monitors <=> r.kind = "heartbeat")
  /\ r.step = "send" /\ r.kind \in Limited => r.copy.sent < Budget

\* Types and roles say of each process that it fits.
LEMMA AllFit == ASSUME TypeOK, RoleInv, NEW p \in Procs PROVE Fits(p, proc[p])
  BY ProcessAssumption DEF TypeOK, RoleInv, Fits, Procs, Records, At, Kinds, Events, Limited

\* A process that is off fits, and a monitor fits at each step without a copy.
LEMMA IdleFits == ASSUME NEW p \in Procs PROVE Fits(p, Idle) /\ Idle.copy = NoSession /\ Idle.step = "off"
  BY DEF Fits, Idle, Records, MaybeSession
LEMMA RunningFits ==
  ASSUME NEW m \in Monitors, NEW s \in {"lockCheck", "unlock"}
  PROVE  LET r == [Idle EXCEPT !.step = s, !.kind = "heartbeat"] IN
           Fits(m, r) /\ r.copy = NoSession /\ r.step = s
  BY DEF Fits, Idle, Records, Steps, Kinds, MaybeSession

\* When one process changes and fits, types and roles are kept.
LEMMA MoveStep ==
  ASSUME TypeOK, RoleInv, NEW p \in Procs, NEW r, Fits(p, r), Becomes(p, r),
         session' \in MaybeSession, lock' \in {"none", "fresh", "old"},
         budgeted' \in 0 .. Highest, crossed' \in BOOLEAN,
         kills' \in Nat, lost' \in Nat, kills' + lost' <= MaxAccidents
  PROVE  /\ TypeOK' /\ RoleInv'
         /\ proc'[p] = r /\ \A q \in Procs \ {p} : proc'[q] = proc[q]
<1>1. proc'[p] = r /\ \A q \in Procs \ {p} : proc'[q] = proc[q]
  BY DEF Becomes, TypeOK
<1>2. proc' \in [Procs -> Records]
  BY DEF Becomes, TypeOK, Fits
<1>3. TypeOK'
  BY <1>1, <1>2 DEF TypeOK, Fits
<1>4. RoleInv'
  BY <1>1, ProcessAssumption DEF RoleInv, Fits, At, Procs, Kinds, Events
<1> QED
  BY <1>1, <1>3, <1>4

\* The lock stays held when one process changes that releases it, has just
\* written it, or did not hold it.
LEMMA LockStep ==
  ASSUME LockIsHeld, NEW p \in Procs, \A q \in Procs \ {p} : proc'[q] = proc[q],
         kills' = kills, lock' # "none" => lock # "none" \/ WillRelease(p)',
         lock' = "none" \/ WillRelease(p)' \/ ~WillRelease(p)
  PROVE  LockIsHeld'
  BY DEF LockIsHeld, WillRelease, At

\* The count stays right when one process keeps or drops what it has read and no
\* file is written.
LEMMA CountStep ==
  ASSUME CountInv, NEW p \in Procs, \A q \in Procs \ {p} : proc'[q] = proc[q],
         proc'[p].copy \in {proc[p].copy, NoSession},
         UNCHANGED <<session, budgeted, crossed, accidents>>,
         At(p, "write") => p \in Monitors \/ proc[p].kind \notin Limited
  PROVE  CountInv'
<1> SUFFICES ASSUME ~crossed PROVE CountInv'
  BY DEF CountInv
<1>1. \A q \in Procs : proc'[q].copy # NoSession => proc'[q].copy = proc[q].copy
  OBVIOUS
<1>2. (\A h \in Hooks : At(h, "write") => proc[h].kind \notin Limited)' =>
        \A h \in Hooks : At(h, "write") => proc[h].kind \notin Limited
  BY ProcessAssumption DEF At, Procs
<1> QED
  BY <1>1, <1>2 DEF CountInv, Read, accidents

\* A step of one process that keeps or drops what it has read and writes at most
\* the lock keeps the invariant of the files.
LEMMA LocalStep ==
  ASSUME FilesInv, NEW p \in Procs, NEW r, Fits(p, r), Becomes(p, r),
         r.copy \in {proc[p].copy, NoSession}, At(p, "write") => p \in Monitors \/ proc[p].kind \notin Limited,
         UNCHANGED <<session, budgeted, crossed, accidents>>, lock' \in {"none", "fresh", "old"},
         \/ lock' = "none"
         \/ r.step = "spawn" \/ (p \in Monitors /\ r.step \notin {"off", "lockCheck", "lockWrite"})
         \/ lock' = lock /\ ~WillRelease(p)
  PROVE  FilesInv'
<1>1. TypeOK /\ RoleInv /\ LockIsHeld /\ CountInv
  BY DEF FilesInv
<1>2. /\ TypeOK' /\ RoleInv'
      /\ proc'[p] = r /\ \A q \in Procs \ {p} : proc'[q] = proc[q]
  BY <1>1, MoveStep DEF TypeOK, accidents
<1>3. LockIsHeld'
  BY <1>1, <1>2 DEF LockIsHeld, WillRelease, At, accidents
<1>4. CountInv'
  BY <1>1, <1>2, CountStep
<1> QED
  BY <1>2, <1>3, <1>4 DEF FilesInv

\* A process that is killed or raises drops what it has read: the accident accounts
\* for a message it has just sent, or for the one it was about to write down.
LEMMA EndStep ==
  ASSUME FilesInv, NEW p \in Procs, NEW r, Fits(p, r), Becomes(p, r), r.copy = NoSession,
         UNCHANGED <<session, lock, crossed>>, LockIsHeld',
         kills' \in Nat, lost' \in Nat, kills' + lost' <= MaxAccidents,
         kills' + lost' = kills + lost + 1, budgeted' \in 0 .. Highest,
         budgeted' = budgeted \/ (budgeted' = budgeted + 1 /\ At(p, "send"))
  PROVE  FilesInv'
<1>t. TypeOK /\ RoleInv /\ CountInv
  BY DEF FilesInv
<1>1. /\ TypeOK' /\ RoleInv'
      /\ proc'[p] = r /\ \A q \in Procs \ {p} : proc'[q] = proc[q]
  BY <1>t, MoveStep DEF TypeOK
<1>2. CountInv'
  <2> SUFFICES ASSUME ~crossed PROVE CountInv'
    BY DEF CountInv
  <2>1. \A q \in Procs : proc'[q].copy # NoSession => q # p /\ proc'[q] = proc[q]
    BY <1>1
  <2>2. /\ \A q \in Procs : proc[q].copy # NoSession => proc[q].copy.sent \in Nat
        /\ Read.sent \in Nat /\ budgeted \in Nat /\ kills \in Nat /\ lost \in Nat
    BY <1>t, BudgetAssumption, NoSessionFact
       DEF TypeOK, MaybeSession, Records, Sessions, Highest, Read, NewSession
  <2>3. Read' = Read
    BY DEF Read
  <2>a. PICK a : a = kills + lost
    OBVIOUS
  <2>b. PICK b : b = kills' + lost'
    OBVIOUS
  <2>c. PICK c : c = Read.sent
    OBVIOUS
  <2>4. /\ a \in Nat /\ b = a + 1 /\ c \in Nat
        /\ \A q \in Procs : proc[q].copy # NoSession => budgeted <= proc[q].copy.sent + a
        /\ budgeted <= c + a + 1
    <3>1. a \in Nat /\ b = a + 1 /\ c \in Nat
      <4>1. a \in Nat
        BY <2>2, <2>a
      <4>2. b = a + 1
        BY <2>a, <2>b
      <4>3. c \in Nat
        BY <2>2, <2>c
      <4> QED
        BY <4>1, <4>2, <4>3
    <3>2. \A q \in Procs : proc[q].copy # NoSession => budgeted <= proc[q].copy.sent + kills + lost
      BY <1>t DEF CountInv
    <3>3. \A q \in Procs : proc[q].copy # NoSession => budgeted <= proc[q].copy.sent + a
      BY <2>2, <2>a, <3>2
    <3>4. budgeted <= Read.sent + kills + lost + 1
      BY <1>t DEF CountInv
    <3> QED
      BY <2>2, <2>a, <2>c, <3>1, <3>3, <3>4
  <2>5. budgeted' = budgeted + 1 => budgeted <= c + a
    <3> SUFFICES ASSUME At(p, "send") PROVE budgeted <= c + a
      BY <2>2
    <3>1. \A q \in Procs \ {p} : proc[q].copy = NoSession
      BY <1>t, NoSessionFact DEF CountInv, TypeOK, At
    <3>2. \A h \in Hooks : ~At(h, "write")
      BY <1>t, <3>1, NoSessionFact DEF At, TypeOK, Procs
    <3> QED
      BY <1>t, <2>2, <2>a, <2>c, <3>2 DEF CountInv
  <2>6. budgeted' <= c + b /\ budgeted' <= c + b + 1
    BY <2>2, <2>4, <2>5
  <2>7. \A q \in Procs : proc'[q].copy # NoSession => budgeted' <= proc'[q].copy.sent + b
    BY <2>1, <2>2, <2>4
  <2>8. \A q, z \in Procs : proc'[q].copy # NoSession /\ proc'[z].copy # NoSession => q = z
    BY <1>t, <2>1 DEF CountInv
  <2>9. /\ Read'.sent + kills' + lost' = c + b
        /\ \A q \in Procs : proc'[q].copy # NoSession =>
             proc'[q].copy.sent + kills' + lost' = proc'[q].copy.sent + b
    BY <2>1, <2>2, <2>3, <2>b, <2>c
  <2> QED
    BY <2>6, <2>7, <2>8, <2>9 DEF CountInv
<1> QED
  BY <1>1, <1>2 DEF FilesInv

\* Each initial state satisfies the invariant of the files.
LEMMA FilesInitially == Init => FilesInv
<1> SUFFICES ASSUME Init PROVE FilesInv
  OBVIOUS
<1>1. Idle \in Records /\ Idle.copy = NoSession /\ Idle.step = "off"
  BY DEF Idle, Records, MaybeSession
<1>2. \A p \in Procs : proc[p] = Idle
  BY DEF Init
<1>3. TypeOK
  <2>1. proc \in [Procs -> Records] /\ session \in MaybeSession
    BY <1>1 DEF Init, MaybeSession
  <2>2. \A p \in Procs : proc[p].copy = NoSession /\ proc[p].step = "off"
    BY <1>1, <1>2
  <2>3. budgeted \in 0 .. Highest /\ kills \in Nat /\ lost \in Nat /\ kills + lost <= MaxAccidents
    BY BudgetAssumption, BoundAssumption DEF Init, Highest
  <2> QED
    BY <2>1, <2>2, <2>3 DEF Init, TypeOK
<1>4. RoleInv
  BY <1>1, <1>2 DEF RoleInv, At, Procs
<1>5. LockIsHeld
  BY DEF Init, LockIsHeld
<1>6. CountInv
  BY <1>1, <1>2 DEF Init, CountInv, Read, NewSession
<1> QED
  BY <1>3, <1>4, <1>5, <1>6 DEF FilesInv

\* Every action keeps the invariant of the files.
LEMMA FilesStep == FilesInv /\ [Next]_vars => FilesInv'
<1> SUFFICES ASSUME FilesInv, [Next]_vars PROVE FilesInv'
  OBVIOUS
<1> USE BudgetAssumption, BoundAssumption, NoSessionFact DEF accidents
<1>t. TypeOK /\ RoleInv /\ LockIsHeld /\ CountInv
  BY DEF FilesInv
<1>p. \A p \in Procs : Fits(p, proc[p])
  BY <1>t, AllFit
<1>r. Read \in Sessions
  BY <1>t DEF TypeOK, MaybeSession, Read, NewSession, Sessions
<1>n. /\ kills \in Nat /\ lost \in Nat /\ budgeted \in Nat /\ Read.sent \in Nat
      /\ \A p \in Procs : proc[p].copy # NoSession => proc[p].copy.sent \in Nat
  BY <1>t, <1>r DEF TypeOK, MaybeSession, Records, Sessions, Highest
<1>1. ASSUME NEW h \in Hooks, NEW k \in Events, Event(h, k) PROVE FilesInv'
  <2>1. PICK s \in {"send", "write"} :
          /\ s = "send" => MaySend(k, Read)
          /\ Becomes(h, [step |-> s, kind |-> k, copy |-> Marked(k, Read)])
    BY <1>1 DEF Event
  <2> DEFINE r == [step |-> s, kind |-> k, copy |-> Marked(k, Read)]
  <2>2. Marked(k, Read) \in Sessions /\ Marked(k, Read).sent = Read.sent
    BY <1>r DEF Marked, Sessions
  <2>3. r \in Records
    BY <2>2 DEF Records, Steps, Kinds, MaybeSession
  <2>4. Fits(h, r)
    BY <2>1, <2>2, <2>3, ProcessAssumption DEF Fits, MaySend, Events, Kinds, Limited
  <2>5. /\ TypeOK' /\ RoleInv'
        /\ proc'[h] = r /\ \A q \in Procs \ {h} : proc'[q] = proc[q]
    BY <1>1, <1>t, <2>1, <2>4, MoveStep DEF Event, Crosses, Procs, TypeOK
  <2>6. LockIsHeld'
    BY <1>1, <1>t, <2>5, LockStep, ProcessAssumption DEF Event, WillRelease, At, Procs
  <2>7. CountInv'
    <3> SUFFICES ASSUME ~crossed' PROVE CountInv'
      BY <1>1 DEF CountInv, Event
    <3>1. ~crossed /\ \A q \in Procs \ {h} : proc[q].copy = NoSession
      BY <1>1 DEF Event, Crosses
    <3>2. \A g \in Hooks : ~At(g, "write")
      BY <1>1, <1>t, <3>1 DEF At, TypeOK, Procs, Event
    <3>3. budgeted <= Read.sent + kills + lost
      BY <1>t, <3>1, <3>2 DEF CountInv
    <3>4. \A q \in Procs : proc'[q].copy # NoSession => q = h
      BY <2>5, <3>1
    <3>5. proc'[h].copy.sent = Read.sent /\ Read' = Read /\ UNCHANGED <<budgeted, accidents>>
      BY <1>1, <2>2, <2>5 DEF Event, Read
    <3> QED
      BY <1>n, <3>3, <3>4, <3>5 DEF CountInv
  <2> QED
    BY <2>5, <2>6, <2>7 DEF FilesInv
<1>2. ASSUME NEW p \in Procs, Send(p) PROVE FilesInv'
  <2> DEFINE r == AfterSend(p, Counted(proc[p].copy))
  <2>1. At(p, "send") /\ proc[p].copy \in Sessions /\ Fits(p, proc[p]) /\ Becomes(p, r)
    BY <1>2, <1>p, <1>t DEF Send, TypeOK, At
  <2>2. /\ Counted(proc[p].copy) \in Sessions
        /\ proc[p].copy.sent <= Counted(proc[p].copy).sent
        /\ proc[p].kind \in Limited => Counted(proc[p].copy).sent = proc[p].copy.sent + 1
    BY <2>1 DEF Counted, Sessions, Fits, At
  <2>3. /\ r \in Records /\ r.copy = Counted(proc[p].copy) /\ r.kind = proc[p].kind
        /\ r.step = IF p \in Monitors THEN "recheck" ELSE "write"
    BY <2>1, <2>2 DEF AfterSend, Records, Steps, Fits, MaybeSession
  <2>4. Fits(p, r)
    BY <2>1, <2>2, <2>3 DEF Fits, At
  <2>5. budgeted' \in 0 .. Highest
    BY <1>2, <1>t DEF Send, Leaves, TypeOK, Highest
  <2>6. /\ TypeOK' /\ RoleInv'
        /\ proc'[p] = r /\ \A q \in Procs \ {p} : proc'[q] = proc[q]
    BY <1>2, <1>t, <2>1, <2>4, <2>5, MoveStep DEF Send, TypeOK
  <2>7. LockIsHeld'
    BY <1>2, <1>t, <2>1, <2>3, <2>6, LockStep DEF Send, WillRelease, At
  <2>8. CountInv'
    <3> SUFFICES ASSUME ~crossed PROVE CountInv'
      BY <1>2 DEF CountInv, Send
    <3>1. /\ \A q \in Procs \ {p} : proc[q].copy = NoSession
          /\ budgeted <= proc[p].copy.sent + kills + lost
      BY <1>t, <2>1, NoSessionFact DEF CountInv
    <3>2. \A g \in Hooks : ~At(g, "write")
      BY <1>t, <2>1, <3>1 DEF At, TypeOK, Procs
    <3>3. budgeted <= Read.sent + kills + lost /\ Read' = Read /\ UNCHANGED accidents
      BY <1>2, <1>t, <3>2 DEF CountInv, Send, Read
    <3>4. \A q \in Procs : proc'[q].copy # NoSession => q = p
      BY <2>6, <3>1
    <3>5. budgeted' <= proc'[p].copy.sent + kills + lost /\ budgeted' <= budgeted + 1 /\ budgeted' \in Nat
      <4>1. /\ proc[p].copy.sent \in Nat /\ proc'[p].copy.sent \in Nat
            /\ proc'[p].copy = Counted(proc[p].copy)
        BY <2>1, <2>2, <2>3, <2>6 DEF Sessions
      <4>2. budgeted' = budgeted \/ (proc[p].kind \in Limited /\ budgeted' = budgeted + 1)
        BY <1>2 DEF Send, Leaves
      <4> QED
        BY <1>n, <2>2, <3>1, <4>1, <4>2
    <3>6. (\A g \in Hooks : At(g, "write") => proc[g].kind \notin Limited)' => budgeted' = budgeted
      <4>1. CASE proc[p].kind \notin Limited
        BY <1>2, <4>1 DEF Send, Leaves
      <4>2. CASE proc[p].kind \in Limited
        BY <2>1, <2>3, <2>6, <4>2 DEF At, Procs, Fits, Limited
      <4> QED
        BY <4>1, <4>2
    <3> QED
      BY <1>n, <3>3, <3>4, <3>5, <3>6 DEF CountInv
  <2> QED
    BY <2>6, <2>7, <2>8 DEF FilesInv
<1>3. ASSUME NEW p \in Procs, Declined(p) PROVE FilesInv'
  <2> DEFINE r == AfterSend(p, proc[p].copy)
  <2>1. At(p, "send") /\ proc[p].copy \in Sessions /\ Fits(p, proc[p]) /\ Becomes(p, r)
    BY <1>3, <1>p, <1>t DEF Declined, TypeOK, At
  <2>2. /\ r \in Records /\ r.copy = proc[p].copy /\ r.kind = proc[p].kind
        /\ r.step = IF p \in Monitors THEN "recheck" ELSE "write"
    BY <2>1 DEF AfterSend, Records, Steps, Fits
  <2>3. Fits(p, r)
    BY <2>1, <2>2 DEF Fits, At
  <2> QED
    BY <1>3, <1>t, <2>1, <2>2, <2>3, LocalStep DEF Declined, TypeOK, WillRelease, At
<1>f. ASSUME NEW p \in Procs, Failing(p)
      PROVE  \E r : /\ Becomes(p, r) /\ Fits(p, r) /\ r.copy = NoSession
                    /\ p \in Monitors => r.step = "unlock"
  BY <1>f, IdleFits, RunningFits DEF Failing
<1>4. ASSUME NEW p \in Procs, SendFails(p) \/ WriteFails(p) PROVE FilesInv'
  <2>1. PICK r : /\ Becomes(p, r) /\ Fits(p, r) /\ r.copy = NoSession
                 /\ p \in Monitors => r.step = "unlock"
    BY <1>4, <1>f DEF SendFails, WriteFails
  <2>2. /\ UNCHANGED <<session, lock, crossed, kills>>
        /\ At(p, "send") \/ At(p, "write")
        /\ \/ At(p, "send") /\ UNCHANGED <<budgeted, lost>>
           \/ At(p, "send") /\ Leaves(proc[p].kind) /\ Loses(proc[p].kind)
           \/ UNCHANGED budgeted /\ Loses(proc[p].kind)
    BY <1>4 DEF SendFails, WriteFails
  <2>3. LockIsHeld'
    <3>1. proc'[p] = r /\ \A q \in Procs \ {p} : proc'[q] = proc[q]
      BY <1>t, <2>1 DEF Becomes, TypeOK
    <3> QED
      BY <1>t, <2>1, <2>2, <3>1 DEF LockIsHeld, WillRelease, At
  <2>4. CASE UNCHANGED <<budgeted, lost>> /\ (At(p, "write") => proc[p].kind \notin Limited)
    BY <1>t, <2>1, <2>2, <2>4, LocalStep DEF TypeOK, WillRelease, At
  <2>5. CASE lost' = lost + 1 /\ kills + lost < MaxAccidents
    <3>1. budgeted' = budgeted \/ (budgeted' = budgeted + 1 /\ budgeted < Highest /\ At(p, "send"))
      BY <2>2 DEF Leaves
    <3>2. budgeted' \in 0 .. Highest
      BY <1>n, <1>t, <3>1 DEF TypeOK, Highest
    <3>3. kills' + lost' = kills + lost + 1 /\ kills' + lost' <= MaxAccidents /\ kills' \in Nat /\ lost' \in Nat
      BY <1>n, <2>2, <2>5
    <3> QED
      BY <2>1, <2>2, <2>3, <3>1, <3>2, <3>3, EndStep
  <2> QED
    BY <2>2, <2>4, <2>5 DEF Leaves, Loses, At
<1>5. ASSUME NEW m \in Monitors, Recheck(m) PROVE FilesInv'
  <2>1. PICK r : /\ Becomes(m, r) /\ r = IF session.done THEN [proc[m] EXCEPT !.step = "sleep", !.copy = NoSession]
                                                         ELSE [proc[m] EXCEPT !.step = "write"]
    BY <1>5 DEF Recheck
  <2>2. m \in Procs /\ At(m, "recheck") /\ proc[m].copy \in Sessions /\ Fits(m, proc[m])
    BY <1>5, <1>p, <1>t DEF Recheck, TypeOK, At, Procs
  <2>3. Fits(m, r) /\ r.copy \in {proc[m].copy, NoSession} /\ r.step \in {"sleep", "write"}
    BY <2>1, <2>2 DEF Fits, Records, Steps, MaybeSession, At
  <2> QED
    BY <1>5, <1>t, <2>1, <2>2, <2>3, LocalStep DEF Recheck, TypeOK, At
<1>6. ASSUME NEW p \in Procs, Write(p) PROVE FilesInv'
  <2>1. PICK r : Becomes(p, r) /\ r = IF AfterWrite(proc[p].kind) = "off" THEN Idle
                  ELSE [proc[p] EXCEPT !.step = AfterWrite(proc[p].kind), !.copy = NoSession]
    BY <1>6 DEF Write
  <2>2. At(p, "write") /\ proc[p].copy \in Sessions /\ Fits(p, proc[p])
    BY <1>6, <1>p, <1>t DEF Write, TypeOK, At
  <2>3. AfterWrite(proc[p].kind) \in {"off", "lockCheck", "unlock", "sleep"}
        /\ (p \in Monitors => AfterWrite(proc[p].kind) = "sleep")
    BY <2>2 DEF AfterWrite, Fits, At
  <2>4. Fits(p, r) /\ r.copy = NoSession /\ (p \in Monitors => r.step = "sleep")
    BY <2>1, <2>2, <2>3, IdleFits DEF Fits, Records, Steps, MaybeSession, At
  <2>5. /\ TypeOK' /\ RoleInv'
        /\ proc'[p] = r /\ \A q \in Procs \ {p} : proc'[q] = proc[q]
    <3>1. session' \in MaybeSession
      <4>1. \A q \in Procs : At(q, "write") => proc[q].copy \in Sessions
        BY <1>t DEF TypeOK, At
      <4> QED
        BY <1>6, <2>2, <4>1 DEF Write, Mixed, MaybeSession
    <3> QED
      BY <1>6, <1>t, <2>1, <2>2, <2>4, <3>1, MoveStep DEF Write, TypeOK
  <2>6. LockIsHeld'
    BY <1>6, <1>t, <2>2, <2>4, <2>5, LockStep DEF Write, WillRelease, At
  <2>7. CountInv'
    <3> SUFFICES ASSUME ~crossed PROVE CountInv'
      BY <1>6 DEF CountInv, Write
    <3>1. /\ \A q \in Procs \ {p} : proc[q].copy = NoSession
          /\ budgeted <= proc[p].copy.sent + kills + lost
      BY <1>t, <2>2, NoSessionFact DEF CountInv
    <3>2. \A q \in Procs : proc'[q].copy = NoSession
      BY <2>4, <2>5, <3>1
    <3>3. Read' = proc[p].copy
      <4>1. \A q \in Procs \ {p} : ~At(q, "write")
        BY <1>t, <3>1 DEF At, TypeOK
      <4>2. session' = proc[p].copy
        BY <1>6, <4>1 DEF Write, Mixed
      <4> QED
        BY <2>2, <4>2 DEF Read
    <3>4. proc[p].copy.sent \in Nat /\ UNCHANGED <<budgeted, accidents>>
      BY <1>6, <1>n, <2>2 DEF Write
    <3> QED
      BY <1>n, <3>1, <3>2, <3>3, <3>4 DEF CountInv
  <2> QED
    BY <2>5, <2>6, <2>7 DEF FilesInv
<1>7. ASSUME NEW p \in Procs, LockCheck(p) PROVE FilesInv'
  <2>1. At(p, "lockCheck") /\ Fits(p, proc[p]) /\ ~WillRelease(p)
    BY <1>7, <1>p DEF LockCheck, At, WillRelease
  <2>2. CASE lock = "fresh"
    BY <1>7, <1>t, <2>1, <2>2, IdleFits, LocalStep DEF LockCheck, TypeOK, At
  <2>3. CASE lock # "fresh"
    <3> DEFINE r == [proc[p] EXCEPT !.step = "lockWrite"]
    <3>1. Becomes(p, r) /\ Fits(p, r) /\ r.copy = proc[p].copy
      BY <1>7, <1>t, <2>1, <2>3 DEF LockCheck, Goes, Becomes, Fits, Records, Steps, At, TypeOK
    <3> QED
      BY <1>7, <2>1, <2>3, <3>1, LocalStep DEF LockCheck, At
  <2> QED
    BY <2>2, <2>3
<1>8. ASSUME NEW p \in Procs, LockWrite(p) PROVE FilesInv'
  <2> DEFINE r == [proc[p] EXCEPT !.step = IF p \in Monitors THEN "sleep" ELSE "spawn"]
  <2>1. At(p, "lockWrite") /\ Fits(p, proc[p])
    BY <1>8, <1>p DEF LockWrite
  <2>2. /\ Becomes(p, r) /\ Fits(p, r) /\ r.copy = proc[p].copy
        /\ r.step = "spawn" \/ (p \in Monitors /\ r.step = "sleep")
    BY <1>8, <1>t, <2>1 DEF LockWrite, Goes, Becomes, Fits, Records, Steps, At, TypeOK
  <2>3. /\ lock' = "fresh" /\ ~At(p, "write")
        /\ UNCHANGED <<session, budgeted, crossed, accidents>>
    BY <1>8, <2>1 DEF LockWrite, At
  <2> HIDE DEF r
  <2> QED
    BY <2>2, <2>3, LocalStep
<1>u. ASSUME NEW p \in Procs, LockWriteFails(p) PROVE FilesInv'
  BY <1>u, <1>t, IdleFits, LocalStep DEF LockWriteFails, At, WillRelease, TypeOK
<1>v. ASSUME NEW m \in Monitors, RefreshFails(m) PROVE FilesInv'
  <2>1. m \in Procs
    BY DEF Procs
  <2>2. PICK r : Becomes(m, r) /\ Fits(m, r) /\ r.copy = NoSession /\ r.step = "unlock"
    BY <1>f, <1>v, <2>1 DEF RefreshFails
  <2> QED
    BY <1>v, <1>t, <2>1, <2>2, LocalStep DEF RefreshFails, At, TypeOK
<1>w. ASSUME NEW h \in Hooks, Spawn(h), Becomes(h, Idle) PROVE FilesInv'
  BY <1>w, <1>t, IdleFits, LocalStep DEF Spawn, At, Procs
<1>9. ASSUME NEW h \in Hooks, Spawn(h), ~Becomes(h, Idle) PROVE FilesInv'
  <2> DEFINE b == [Idle EXCEPT !.step = "lockCheck", !.kind = "heartbeat"]
  <2>1. PICK m \in Monitors : At(m, "off") /\ proc' = [proc EXCEPT ![h] = Idle, ![m] = b]
    BY <1>9 DEF Spawn
  <2>2. h \in Procs /\ m \in Procs /\ h # m
    BY ProcessAssumption DEF Procs
  <2>3. Fits(m, b) /\ b.copy = NoSession /\ b.step = "lockCheck" /\ Fits(h, Idle)
    BY <2>2, RunningFits, IdleFits
  <2>4. /\ proc' \in [Procs -> Records] /\ proc'[h] = Idle /\ proc'[m] = b
        /\ \A q \in Procs \ {h, m} : proc'[q] = proc[q]
    BY <1>t, <2>1, <2>2, <2>3 DEF TypeOK, Fits
  <2>5. \A q \in Procs : Fits(q, proc'[q])
    BY <1>p, <2>3, <2>4
  <2>6. TypeOK'
    BY <1>9, <1>t, <2>4, <2>5 DEF Spawn, TypeOK, Fits
  <2>7. RoleInv'
    BY <2>5, ProcessAssumption DEF RoleInv, Fits, At, Procs, Kinds, Events
  <2>8. LockIsHeld'
    BY <1>9 DEF Spawn, LockIsHeld
  <2>9. CountInv'
    <3> SUFFICES ASSUME ~crossed PROVE CountInv'
      BY <1>9 DEF CountInv, Spawn
    <3>1. UNCHANGED <<session, budgeted, accidents>> /\ Read' = Read
      BY <1>9 DEF Spawn, Read
    <3>2. \A q \in Procs : proc'[q].copy # NoSession => q \notin {h, m} /\ proc'[q] = proc[q]
      BY <2>2, <2>3, <2>4, IdleFits
    <3>3. (\A g \in Hooks : At(g, "write") => proc[g].kind \notin Limited)' =>
            \A g \in Hooks : At(g, "write") => proc[g].kind \notin Limited
      BY <1>9, <2>1, <2>4 DEF Spawn, At, Procs
    <3> QED
      BY <1>t, <3>1, <3>2, <3>3 DEF CountInv
  <2> QED
    BY <2>6, <2>7, <2>8, <2>9 DEF FilesInv
<1>10. ASSUME NEW p \in Procs, Unlock(p) PROVE FilesInv'
  BY <1>10, <1>t, IdleFits, LocalStep DEF Unlock, At
<1>11. ASSUME NEW m \in Monitors, Tick(m) PROVE FilesInv'
  <2>1. m \in Procs /\ At(m, "sleep") /\ Fits(m, proc[m]) /\ proc[m].copy = NoSession /\ proc[m] \in Records
    BY <1>11, <1>p, <1>t DEF Tick, TypeOK, At, Procs
  <2>2. ASSUME NEW s \in {"unlock", "refresh"}, Goes(m, s), UNCHANGED crossed PROVE FilesInv'
    <3> DEFINE r == [proc[m] EXCEPT !.step = s]
    <3>1. Becomes(m, r) /\ Fits(m, r) /\ r.copy = NoSession /\ r.step = s
      BY <2>1, <2>2 DEF Goes, Becomes, Fits, Records, Steps, At
    <3> QED
      BY <1>11, <1>t, <2>1, <2>2, <3>1, LocalStep DEF Tick, At, TypeOK
  <2>3. ASSUME ~Over(session), Becomes(m, [proc[m] EXCEPT !.step = "refresh", !.copy = session]), Crosses(m)
        PROVE  FilesInv'
    <3> DEFINE r == [proc[m] EXCEPT !.step = "refresh", !.copy = session]
    <3>1. session \in Sessions /\ Read = session
      BY <1>t, <2>3 DEF Over, TypeOK, MaybeSession, Read
    <3>2. Fits(m, r) /\ r.copy = session /\ r.step = "refresh"
      BY <2>1, <3>1 DEF Fits, Records, Steps, MaybeSession, At
    <3>3. /\ TypeOK' /\ RoleInv'
          /\ proc'[m] = r /\ \A q \in Procs \ {m} : proc'[q] = proc[q]
      BY <1>11, <1>t, <2>1, <2>3, <3>2, MoveStep DEF Tick, TypeOK, Crosses
    <3>4. LockIsHeld'
      BY <1>11, <1>t, <2>1, <3>2, <3>3, LockStep DEF Tick, WillRelease, At
    <3>5. CountInv'
      <4> SUFFICES ASSUME ~crossed' PROVE CountInv'
        BY <1>11 DEF CountInv, Tick
      <4>1. ~crossed /\ \A q \in Procs \ {m} : proc[q].copy = NoSession
        BY <2>3 DEF Crosses
      <4>2. \A g \in Hooks : ~At(g, "write")
        BY <1>t, <2>1, <4>1 DEF At, TypeOK, Procs
      <4>3. budgeted <= Read.sent + kills + lost /\ Read' = Read /\ UNCHANGED <<budgeted, accidents>>
        BY <1>11, <1>t, <4>1, <4>2 DEF CountInv, Tick, Read
      <4>4. \A q \in Procs : proc'[q].copy # NoSession => q = m
        BY <3>3, <4>1
      <4>5. proc'[m].copy.sent = Read.sent
        BY <3>1, <3>2, <3>3
      <4>6. \A q \in Procs : proc'[q].copy # NoSession => budgeted' <= proc'[q].copy.sent + kills' + lost'
        BY <4>3, <4>4, <4>5
      <4> HIDE DEF r
      <4>7. budgeted' <= Read'.sent + kills' + lost' /\ budgeted' <= Read'.sent + kills' + lost' + 1
        BY <1>n, <4>3
      <4> QED
        BY <4>4, <4>6, <4>7 DEF CountInv
    <3> QED
      BY <3>3, <3>4, <3>5 DEF FilesInv
  <2> QED
    BY <1>11, <2>2, <2>3 DEF Tick, Goes, Becomes
<1>12. ASSUME NEW m \in Monitors, Refresh(m) PROVE FilesInv'
  <2> DEFINE s == IF proc[m].copy = NoSession THEN "sleep" ELSE "send"
             r == [proc[m] EXCEPT !.step = s]
  <2>1. m \in Procs /\ At(m, "refresh") /\ Fits(m, proc[m]) /\ Becomes(m, r)
    BY <1>12, <1>p DEF Refresh, Goes, Becomes, Procs
  <2>2. Fits(m, r) /\ r.copy = proc[m].copy /\ r.step \in {"sleep", "send"}
    BY <2>1 DEF Fits, Records, Steps, MaybeSession, At, Limited
  <2>3. /\ lock' = "fresh" /\ ~At(m, "write")
        /\ UNCHANGED <<session, budgeted, crossed, accidents>>
    BY <1>12, <2>1 DEF Refresh, At
  <2> HIDE DEF r
  <2> QED
    BY <2>1, <2>2, <2>3, LocalStep
<1>13. CASE LockAges
  BY <1>13, <1>t DEF LockAges, FilesInv, TypeOK, RoleInv, LockIsHeld, WillRelease, CountInv, Read, At
<1>14. CASE CleanupExpired
  <2>1. TypeOK' /\ RoleInv'
    BY <1>14, <1>t DEF CleanupExpired, TypeOK, RoleInv, At, MaybeSession, Highest
  <2>2. LockIsHeld'
    BY <1>14, <1>t DEF CleanupExpired, LockIsHeld, WillRelease, At
  <2>3. CountInv'
    <3> SUFFICES ASSUME ~crossed PROVE CountInv'
      BY <1>14 DEF CleanupExpired, CountInv
    <3>1. \A q \in Procs : proc[q].copy # NoSession => proc[q].copy \in Sessions
      BY <1>t DEF TypeOK, MaybeSession, Records
    <3>2. CASE session' = NoSession /\ budgeted' = 0
      <4>1. Read'.sent = 0
        BY <3>2 DEF Read, NewSession
      <4> QED
        BY <1>14, <1>n, <1>t, <3>2, <4>1 DEF CleanupExpired, CountInv
    <3>3. CASE UNCHANGED <<session, budgeted>>
      BY <1>14, <1>t, <3>3 DEF CleanupExpired, CountInv, Read, At
    <3> QED
      BY <1>14, <3>2, <3>3 DEF CleanupExpired
  <2> QED
    BY <2>1, <2>2, <2>3 DEF FilesInv
<1>15. ASSUME NEW p \in Procs, Killed(p) PROVE FilesInv'
  <2>1. /\ kills' = kills + 1 /\ kills' \in Nat /\ lost' \in Nat /\ kills' # 0
        /\ kills' + lost' = kills + lost + 1 /\ kills' + lost' <= MaxAccidents
        /\ UNCHANGED <<session, lock, budgeted, crossed>> /\ Becomes(p, Idle)
    BY <1>15, <1>n DEF Killed
  <2>2. LockIsHeld' /\ budgeted' \in 0 .. Highest
    BY <1>t, <2>1 DEF LockIsHeld, TypeOK
  <2> QED
    BY <2>1, <2>2, IdleFits, EndStep
<1>16. CASE UNCHANGED vars
  BY <1>16, <1>t DEF vars, FilesInv, TypeOK, RoleInv, LockIsHeld, WillRelease, CountInv, Read, At
<1> QED
  BY <1>1, <1>2, <1>3, <1>4, <1>5, <1>6, <1>7, <1>8, <1>u, <1>v, <1>w, <1>9, <1>10, <1>11, <1>12,
     <1>13, <1>14, <1>15, <1>16
     DEF Next, Arrivals, Hook, Monitor, Sending, Writing, Locking, Looping, World, Procs

-----------------------------------------------------------------------------
(* A stop is not taken back.                                               *)

\* A process keeps what it has read, as far as a stop goes, or drops it.
LEMMA CopyKept ==
  ASSUME TypeOK, CopyInv, NEW p \in Procs, NEW r, Becomes(p, r), UNCHANGED <<session, crossed>>,
         \/ r.copy = NoSession
         \/ proc[p].copy # NoSession /\ r.copy.done = proc[p].copy.done /\ r.kind = proc[p].kind
  PROVE  CopyInv'
<1> SUFFICES ASSUME ~crossed PROVE CopyInv'
  BY DEF CopyInv
<1>1. proc'[p] = r /\ \A q \in Procs \ {p} : proc'[q] = proc[q]
  BY DEF Becomes, TypeOK
<1>2. \A q \in Procs : proc'[q].copy # NoSession => proc[q].copy # NoSession
  BY <1>1
<1>3. \A q \in Procs : Agrees(q)'
  <2> TAKE q \in Procs
  <2>1. Agrees(q)
    BY DEF CopyInv
  <2>2. CASE q # p
    BY <1>1, <2>1, <2>2 DEF Agrees
  <2>3. CASE q = p
    BY <1>1, <2>1, <2>3 DEF Agrees
  <2> QED
    BY <2>2, <2>3
<1> QED
  BY <1>2, <1>3 DEF CopyInv

\* A process reads the session, and no other holds it.
LEMMA CopyTaken ==
  ASSUME TypeOK, CopyInv, NEW p \in Procs, NEW r, Becomes(p, r), Crosses(p), UNCHANGED session,
         r.kind = "stop" => r.copy.done,
         r.kind = "heartbeat" => ~r.copy.done /\ ~session.done,
         r.kind \notin {"start", "stop", "heartbeat"} => r.copy.done = session.done
  PROVE  CopyInv'
<1> SUFFICES ASSUME ~crossed' PROVE CopyInv'
  BY DEF CopyInv
<1>1. proc'[p] = r /\ \A q \in Procs \ {p} : proc'[q] = proc[q] /\ proc[q].copy = NoSession
  BY DEF Becomes, TypeOK, Crosses
<1>2. Agrees(p)'
  BY <1>1 DEF Agrees
<1> QED
  BY <1>1, <1>2 DEF CopyInv, Agrees

\* Every action keeps the copies in agreement with the session.
LEMMA CopyStep == FilesInv /\ CopyInv /\ [Next]_vars => CopyInv'
<1> SUFFICES ASSUME FilesInv, CopyInv, [Next]_vars PROVE CopyInv'
  OBVIOUS
<1>t. TypeOK /\ RoleInv
  BY DEF FilesInv
<1>p. \A p \in Procs : Fits(p, proc[p]) /\ proc[p] \in Records
  BY <1>t, AllFit DEF TypeOK
<1>i. \A p \in Procs : Idle.copy = NoSession
  BY IdleFits
<1>1. ASSUME NEW h \in Hooks, NEW k \in Events, Event(h, k) PROVE CopyInv'
  <2>1. PICK r : /\ Becomes(h, r) /\ r.kind = k /\ r.copy = Marked(k, Read)
    BY <1>1 DEF Event
  <2>2. Read \in [done : BOOLEAN, sent : 0 .. Budget] /\ Read.done = session.done
    <3>1. session = NoSession \/ session \in [done : BOOLEAN, sent : 0 .. Budget]
      BY <1>t DEF TypeOK, MaybeSession, Sessions
    <3>2. CASE session = NoSession
      <4>1. Read = NewSession
        BY <3>2 DEF Read
      <4>2. NewSession \in [done : BOOLEAN, sent : 0 .. Budget] /\ NewSession.done = FALSE
        BY BudgetAssumption DEF NewSession
      <4> QED
        BY <3>2, <4>1, <4>2, NoSessionFact
    <3>3. CASE session # NoSession
      BY <3>1, <3>3 DEF Read
    <3> QED
      BY <3>2, <3>3
  <2>3. /\ k = "stop" => Marked(k, Read).done
        /\ k \notin {"start", "stop"} => Marked(k, Read).done = session.done
    BY <2>2 DEF Marked
  <2>4. k # "heartbeat"
    BY DEF Events, Limited
  <2> QED
    BY <1>1, <1>t, <2>1, <2>3, <2>4, CopyTaken DEF Event, Procs
<1>2. ASSUME NEW p \in Procs, Send(p) PROVE CopyInv'
  <2> DEFINE r == AfterSend(p, Counted(proc[p].copy))
  <2>1. Becomes(p, r) /\ UNCHANGED <<session, crossed>> /\ proc[p].copy \in Sessions
    BY <1>2, <1>t DEF Send, At, TypeOK
  <2>2. r.copy = Counted(proc[p].copy) /\ r.kind = proc[p].kind
    BY <1>p DEF AfterSend, Records
  <2>3. Counted(proc[p].copy).done = proc[p].copy.done /\ proc[p].copy # NoSession
    BY <2>1, NoSessionFact DEF Counted, Sessions
  <2> HIDE DEF r
  <2> QED
    BY <1>t, <2>1, <2>2, <2>3, CopyKept
<1>3. ASSUME NEW p \in Procs, Declined(p) PROVE CopyInv'
  <2> DEFINE r == AfterSend(p, proc[p].copy)
  <2>1. Becomes(p, r) /\ UNCHANGED <<session, crossed>> /\ proc[p].copy \in Sessions
    BY <1>3, <1>t DEF Declined, At, TypeOK
  <2>2. r.copy = proc[p].copy /\ r.kind = proc[p].kind
    BY <1>p DEF AfterSend, Records
  <2> HIDE DEF r
  <2> QED
    BY <1>t, <2>1, <2>2, NoSessionFact, CopyKept
<1>4. ASSUME NEW p \in Procs, NEW r, Becomes(p, r), r.copy = NoSession, UNCHANGED <<session, crossed>>
      PROVE  CopyInv'
  BY <1>4, <1>t, CopyKept
<1>5. ASSUME NEW p \in Procs, NEW s \in Steps, Goes(p, s), UNCHANGED <<session, crossed>>
      PROVE  CopyInv'
  <2> DEFINE r == [proc[p] EXCEPT !.step = s]
  <2>1. Becomes(p, r) /\ r.copy = proc[p].copy /\ r.kind = proc[p].kind
    BY <1>5, <1>p, <1>t DEF Goes, Becomes, Records, TypeOK
  <2> HIDE DEF r
  <2> QED
    BY <1>5, <1>t, <2>1, CopyKept
<1>6. ASSUME NEW p \in Procs, SendFails(p) \/ WriteFails(p) \/ RefreshFails(p) PROVE CopyInv'
  <2>1. PICK r \in {Idle, [Idle EXCEPT !.step = "unlock", !.kind = "heartbeat"]} : Becomes(p, r)
    BY <1>6 DEF SendFails, WriteFails, RefreshFails, Failing
  <2>2. [Idle EXCEPT !.step = "unlock", !.kind = "heartbeat"].copy = NoSession
    BY DEF Idle
  <2>3. r.copy = NoSession
    BY <2>2, IdleFits
  <2> QED
    BY <1>4, <1>6, <2>1, <2>3 DEF SendFails, WriteFails, RefreshFails
<1>7. ASSUME NEW m \in Monitors, Recheck(m) PROVE CopyInv'
  <2>1. m \in Procs
    BY DEF Procs
  <2>2. CASE session.done
    <3> DEFINE r == [proc[m] EXCEPT !.step = "sleep", !.copy = NoSession]
    <3>1. Becomes(m, r) /\ r.copy = NoSession
      BY <1>7, <1>p, <2>1, <2>2 DEF Recheck, Records
    <3> HIDE DEF r
    <3> QED
      BY <1>4, <1>7, <2>1, <3>1 DEF Recheck
  <2>3. CASE ~session.done
    BY <1>5, <1>7, <2>1, <2>3 DEF Recheck, Goes, Becomes, Steps
  <2> QED
    BY <2>2, <2>3
<1>8. ASSUME NEW p \in Procs, Write(p) PROVE CopyInv'
  <2> SUFFICES ASSUME ~crossed PROVE CopyInv'
    BY <1>8 DEF Write, CopyInv
  <2>1. PICK r : Becomes(p, r) /\ r = IF AfterWrite(proc[p].kind) = "off" THEN Idle
                  ELSE [proc[p] EXCEPT !.step = AfterWrite(proc[p].kind), !.copy = NoSession]
    BY <1>8 DEF Write
  <2>2. r.copy = NoSession
    BY <1>p, <2>1, IdleFits DEF Records
  <2>3. proc'[p] = r /\ \A q \in Procs \ {p} : proc'[q] = proc[q]
    BY <1>t, <2>1 DEF Becomes, TypeOK
  <2>4. proc[p].copy # NoSession
    BY <1>8, <1>t, NoSessionFact DEF Write, At, TypeOK
  <2>5. \A q \in Procs : proc'[q].copy = NoSession
    BY <2>2, <2>3, <2>4 DEF CopyInv
  <2> QED
    BY <2>5 DEF CopyInv, Agrees
<1>9. ASSUME NEW p \in Procs, LockCheck(p) \/ LockWrite(p) \/ LockWriteFails(p) \/ Unlock(p) \/ Killed(p) PROVE CopyInv'
  <2>1. UNCHANGED <<session, crossed>>
    BY <1>9 DEF LockCheck, LockWrite, LockWriteFails, Unlock, Killed
  <2>2. Becomes(p, Idle) \/ \E s \in Steps : Goes(p, s)
    BY <1>9 DEF LockCheck, LockWrite, LockWriteFails, Unlock, Killed, Steps
  <2> QED
    BY <1>4, <1>5, <1>i, <2>1, <2>2
<1>s. ASSUME NEW h \in Hooks, Spawn(h), Becomes(h, Idle) PROVE CopyInv'
  BY <1>4, <1>i, <1>s DEF Spawn, Procs
<1>10. ASSUME NEW h \in Hooks, Spawn(h), ~Becomes(h, Idle) PROVE CopyInv'
  <2> DEFINE b == [Idle EXCEPT !.step = "lockCheck", !.kind = "heartbeat"]
  <2>1. PICK m \in Monitors : At(m, "off") /\ proc' = [proc EXCEPT ![h] = Idle, ![m] = b]
    BY <1>10 DEF Spawn
  <2>2. h \in Procs /\ m \in Procs /\ h # m
    BY ProcessAssumption DEF Procs
  <2>3. b.copy = NoSession /\ Idle.copy = NoSession
    BY DEF Idle
  <2> HIDE DEF b
  <2>4. /\ proc'[h] = Idle /\ proc'[m] = b
        /\ \A q \in Procs \ {h, m} : proc'[q] = proc[q]
    BY <1>t, <2>1, <2>2 DEF TypeOK
  <2>5. UNCHANGED <<session, crossed>>
    BY <1>10 DEF Spawn
  <2>6. \A q \in Procs : proc'[q].copy # NoSession => proc'[q] = proc[q]
    BY <2>2, <2>3, <2>4
  <2> QED
    BY <2>5, <2>6 DEF CopyInv, Agrees
<1>11. ASSUME NEW m \in Monitors, Tick(m) PROVE CopyInv'
  <2>1. m \in Procs /\ proc[m] \in Records /\ At(m, "sleep") /\ proc[m].kind = "heartbeat"
    BY <1>11, <1>p, <1>t DEF Tick, Procs, RoleInv, At
  <2>2. ASSUME NEW s \in {"unlock", "refresh"}, Goes(m, s), UNCHANGED crossed PROVE CopyInv'
    BY <1>5, <1>11, <2>1, <2>2 DEF Tick, Steps
  <2>3. ASSUME ~Over(session), Becomes(m, [proc[m] EXCEPT !.step = "refresh", !.copy = session]), Crosses(m)
        PROVE  CopyInv'
    <3> DEFINE r == [proc[m] EXCEPT !.step = "refresh", !.copy = session]
    <3>1. r.copy = session /\ r.kind = "heartbeat" /\ ~session.done
      BY <2>1, <2>3 DEF Records, Over
    <3>2. Becomes(m, r) /\ UNCHANGED session
      BY <1>11, <2>3 DEF Tick
    <3> HIDE DEF r
    <3> QED
      BY <1>t, <2>1, <2>3, <3>1, <3>2, CopyTaken
  <2> QED
    BY <1>11, <2>2, <2>3 DEF Tick, Goes, Becomes
<1>12. ASSUME NEW m \in Monitors, Refresh(m) PROVE CopyInv'
  <2>1. \E s \in Steps : Goes(m, s)
    BY <1>12 DEF Refresh, Steps
  <2> QED
    BY <1>5, <1>12, <2>1 DEF Refresh, Procs
<1>13. CASE CleanupExpired
  <2>1. /\ \A h \in Hooks : proc[h].copy = NoSession
        /\ session' = NoSession \/ session' = session
        /\ UNCHANGED <<proc, crossed>>
    BY <1>13 DEF CleanupExpired
  <2>2. \A m \in Monitors : proc[m].copy # NoSession => proc[m].kind = "heartbeat"
    BY <1>p, NoSessionFact DEF Fits, Procs, Records, MaybeSession, Sessions
  <2>3. ASSUME NEW q \in Procs, Agrees(q) PROVE Agrees(q)'
    BY <2>1, <2>2, <2>3, NoSessionFact DEF Agrees, Procs
  <2> QED
    BY <2>1, <2>3 DEF CopyInv
<1>14. CASE LockAges \/ UNCHANGED vars
  <2>1. UNCHANGED <<session, proc, crossed>>
    BY <1>14 DEF LockAges, vars
  <2> QED
    BY <2>1 DEF CopyInv, Agrees
<1> QED
  BY <1>1, <1>2, <1>3, <1>6, <1>7, <1>8, <1>9, <1>s, <1>10, <1>11, <1>12, <1>13, <1>14
     DEF Next, Arrivals, Hook, Monitor, Sending, Writing, Locking, Looping, World, Procs

\* Each initial state satisfies the inductive invariant.
LEMMA Initially == Init => IInv
<1>1. Init => CopyInv
  BY DEF Init, CopyInv, Agrees, Idle
<1> QED
  BY <1>1, FilesInitially DEF IInv

\* Every action keeps the inductive invariant.
LEMMA InvStep == IInv /\ [Next]_vars => IInv'
  BY FilesStep, CopyStep DEF IInv

\* Types, roles, lock, count and copies agree in every reachable state.
THEOREM Invariance == Spec => []IInv
  BY Initially, InvStep, PTL DEF Spec

\* Only a process on its way to a write holds what it has read.
THEOREM TypeCorrect == Spec => []TypeOK
  BY Invariance, PTL DEF IInv, FilesInv

\* No lock is left behind by processes that were not killed, although each of them
\* removes and overwrites the lock of any other (acquire_monitor_lock,
\* release_monitor_lock).
THEOREM LockReleased == Spec => []LockIsHeld
  BY Invariance, PTL DEF IInv, FilesInv

\* The session's budget is kept as long as no process reads the session between the read
\* and the write of another, but for one message of each process that was killed, or that
\* raised after its message had left or in its write (_budget_decision, _send, write_session).
THEOREM WithinBudget == Spec => []BudgetKept
<1>1. IInv => BudgetKept
  <2> SUFFICES ASSUME IInv, ~crossed PROVE budgeted <= Budget + kills + lost
    BY DEF BudgetKept
  <2>1. TypeOK /\ CountInv /\ budgeted \in Nat /\ kills \in Nat /\ lost \in Nat
    BY DEF IInv, FilesInv, TypeOK, Highest
  <2>2. CASE \E h \in Hooks : At(h, "write")
    <3>1. PICK h \in Hooks : proc[h].copy \in Sessions
      BY <2>1, <2>2 DEF TypeOK, At, Procs
    <3>2. proc[h].copy.sent \in 0 .. Budget /\ budgeted <= proc[h].copy.sent + kills + lost
      BY <2>1, <3>1, NoSessionFact DEF CountInv, Sessions, Procs
    <3> QED
      BY <2>1, <3>2, BudgetAssumption
  <2>3. CASE \A h \in Hooks : ~At(h, "write")
    <3>1. Read.sent \in 0 .. Budget
      BY <2>1, BudgetAssumption DEF TypeOK, Read, NewSession, MaybeSession, Sessions
    <3> QED
      BY <2>1, <2>3, <3>1, BudgetAssumption DEF CountInv
  <2> QED
    BY <2>2, <2>3
<1> QED
  BY <1>1, Invariance, PTL

\* The write of any process but a start hook keeps a recorded stop.
LEMMA StopStep ==
  IInv /\ [Next]_vars /\ ~crossed /\ session.done =>
    \/ session'.done \/ session' = NoSession
    \/ \E h \in Hooks : At(h, "write") /\ proc[h].kind = "start"
<1> SUFFICES ASSUME IInv, [Next]_vars, ~crossed, session.done
             PROVE  \/ session'.done \/ session' = NoSession
                    \/ \E h \in Hooks : At(h, "write") /\ proc[h].kind = "start"
  OBVIOUS
<1>1. TypeOK /\ RoleInv /\ CopyInv
  BY DEF IInv, FilesInv
<1>2. ASSUME NEW p \in Procs, Write(p)
      PROVE  session'.done \/ (p \in Hooks /\ At(p, "write") /\ proc[p].kind = "start")
  <2>1. session' = proc[p].copy /\ At(p, "write") /\ proc[p].copy # NoSession
    <3>1. At(p, "write") /\ proc[p].copy # NoSession
      BY <1>1, <1>2, NoSessionFact DEF Write, TypeOK, At
    <3>2. \A q \in Procs \ {p} : ~At(q, "write")
      BY <1>1, <3>1, NoSessionFact DEF CopyInv, TypeOK, At
    <3> QED
      BY <1>2, <3>1, <3>2 DEF Write, Mixed
  <2>2. Agrees(p)
    BY <1>1 DEF CopyInv
  <2>3. p \in Hooks \/ proc[p].kind = "heartbeat"
    BY <1>1, <2>1 DEF RoleInv, Procs, At
  <2>4. CASE proc[p].kind = "start"
    BY <2>1, <2>3, <2>4
  <2>5. CASE proc[p].kind # "start"
    BY <2>1, <2>2, <2>5 DEF Agrees
  <2> QED
    BY <2>4, <2>5
<1>3. CASE \E p \in Procs : Write(p)
  BY <1>2, <1>3
<1>4. CASE CleanupExpired
  BY <1>4 DEF CleanupExpired
<1>5. CASE UNCHANGED session
  BY <1>5
<1>6. (\E p \in Procs : Write(p)) \/ CleanupExpired \/ UNCHANGED session
  <2>1. ASSUME NEW p \in Procs, Sending(p) \/ WriteFails(p) \/ Locking(p) \/ Killed(p) PROVE UNCHANGED session
    BY <2>1 DEF Sending, Send, Declined, SendFails, WriteFails, Locking, LockCheck, LockWrite,
                LockWriteFails, Unlock, Killed
  <2>2. ASSUME NEW h \in Hooks, Spawn(h) \/ \E k \in Events : Event(h, k) PROVE UNCHANGED session
    BY <2>2 DEF Spawn, Event
  <2>3. ASSUME NEW m \in Monitors, Recheck(m) \/ Looping(m) PROVE UNCHANGED session
    BY <2>3 DEF Recheck, Looping, Tick, Refresh, RefreshFails
  <2>4. LockAges \/ UNCHANGED vars => UNCHANGED session
    BY DEF LockAges, vars
  <2> QED
    BY <2>1, <2>2, <2>3, <2>4 DEF Next, Arrivals, Hook, Monitor, Writing, World, Procs
<1> QED
  BY <1>3, <1>4, <1>5, <1>6

\* A stop stands until the session starts again or is forgotten, as long as no process
\* reads the session between the read and the write of another: this is what the
\* re-check of _write_if_not_done is for, and where processes do overlap it is not enough.
THEOREM StopsStand == Spec => StopStays
<1>1. IInv /\ [Next]_vars =>
        [~crossed /\ session.done =>
           \/ session'.done \/ session' = NoSession
           \/ \E h \in Hooks : At(h, "write") /\ proc[h].kind = "start"]_vars
  BY StopStep
<1> QED
  BY <1>1, Invariance, PTL DEF Spec, StopStays
=============================================================================
