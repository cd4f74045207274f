-------------------------- MODULE GlobalLimitsProofs --------------------------
(***************************************************************************)
(* Proofs about GlobalLimits, for any processes, recipients, limits and    *)
(* windows: what is handed to OneBot for a recipient keeps to the limits,  *)
(* except within the long window after a disturbance, and nothing is       *)
(* declined unless as much was handed over.                                *)
(*                                                                         *)
(* A history is compared with what was handed over: RealInv says that it   *)
(* has nothing else, KnownInv what it may lack.                            *)
(***************************************************************************)
EXTENDS GlobalLimits, FiniteSetTheorems, TLAPS

LEMMA HistoriesFinite ==
  ASSUME NEW h \in SUBSET (1 .. MaxSends)
  PROVE  IsFiniteSet(h) /\ Cardinality(h) \in Nat
<1>1. IsFiniteSet(1 .. MaxSends)
  BY BoundAssumption, FS_Interval
<1>2. IsFiniteSet(h)
  BY <1>1, FS_Subset
<1> QED
  BY <1>2, FS_CardinalityType

\* A recipient with a larger history has reached a limit as well.
LEMMA ReachedByMore ==
  ASSUME NEW h, NEW g \in SUBSET (1 .. MaxSends), h \subseteq g, NEW now \in Nat, Reached(h, now)
  PROVE  Reached(g, now)
<1>1. \A d : /\ Within(h, now, d) \subseteq Within(g, now, d)
             /\ Within(g, now, d) \in SUBSET (1 .. MaxSends)
             /\ Within(h, now, d) \in SUBSET (1 .. MaxSends)
  BY DEF Within
<1>2. \A d : /\ Cardinality(Within(h, now, d)) <= Cardinality(Within(g, now, d))
             /\ Cardinality(Within(h, now, d)) \in Nat /\ Cardinality(Within(g, now, d)) \in Nat
  <2> TAKE d
  <2>1. IsFiniteSet(Within(g, now, d)) /\ Cardinality(Within(g, now, d)) \in Nat
        /\ Cardinality(Within(h, now, d)) \in Nat
    BY <1>1, HistoriesFinite
  <2> QED
    BY <1>1, <2>1, FS_Subset
<1>3. CASE \E s \in Within(h, now, Long) : now < sends[s].at + MinInterval
  BY <1>1, <1>3 DEF Reached
<1>4. CASE Cardinality(Within(h, now, Window)) >= PerWindow
  BY <1>2, <1>4, LimitAssumption DEF Reached
<1>5. CASE Cardinality(Within(h, now, Long)) >= PerLong
  BY <1>2, <1>5, LimitAssumption DEF Reached
<1> QED
  BY <1>3, <1>4, <1>5 DEF Reached

LEMMA SendTypes ==
  ASSUME TypeOK, NEW s \in DOMAIN sends
  PROVE  /\ sends[s] \in Sends /\ s \in 1 .. MaxSends
         /\ sends[s].at \in Nat /\ sends[s].at <= clock /\ sends[s].to \in SUBSET Recipients
<1>1. sends[s] \in Sends /\ s \in 1 .. MaxSends /\ sends[s].at <= clock
  BY BoundAssumption DEF TypeOK
<1> QED
  BY <1>1 DEF Sends

LEMMA Initially == Init => IInv
<1> SUFFICES ASSUME Init PROVE IInv
  OBVIOUS
<1>1. NoHistory \in Histories /\ Idle \in Records
  BY BoundAssumption DEF NoHistory, Histories, Idle, Records
<1>2. /\ sends \in Seq(Sends) /\ Len(sends) = 0 /\ DOMAIN sends = {}
      /\ \A p \in Procs : proc[p] = Idle
  BY DEF Init
<1>3. TypeOK
  BY <1>1, <1>2, BoundAssumption, WindowAssumption DEF Init, TypeOK, Idle
<1>4. ProcInv
  BY <1>2 DEF ProcInv, Idle
<1>5. RealInv
  BY <1>2 DEF Init, RealInv, NoHistory, Idle
<1>6. KnownInv /\ LimitsKept
  BY <1>2 DEF KnownInv, LimitsKept, Handed
<1> QED
  BY <1>3, <1>4, <1>5, <1>6 DEF IInv

-----------------------------------------------------------------------------
\* The clock and the processes go on, the messages stay.
LEMMA LimitsStay ==
  ASSUME IInv, UNCHANGED sends, disturbed' \in Nat, disturbed <= disturbed'
  PROVE  LimitsKept'
<1>1. \A s, r, d : Earlier(s, r, d)' = Earlier(s, r, d)
  BY DEF Earlier
<1>2. disturbed \in Nat /\ \A s \in DOMAIN sends : sends[s].at \in Nat
  BY SendTypes DEF IInv, TypeOK
<1> QED
  BY <1>1, <1>2, WindowAssumption DEF IInv, LimitsKept

LEMMA Ticking ==
  ASSUME IInv, Tick
  PROVE  IInv'
<1>1. /\ TypeOK /\ clock' = clock + 1 /\ UNCHANGED <<sends, ledger, proc, disturbed>>
      /\ clock \in Nat /\ disturbed \in Nat /\ \A s \in DOMAIN sends : sends[s].at \in Nat
  BY SendTypes DEF IInv, TypeOK, Tick
<1>2. TypeOK'
  <2>1. \A p \in Procs : proc[p].now \in Nat
    BY <1>1 DEF TypeOK, Records
  <2> QED
    BY <1>1, <2>1 DEF TypeOK
<1>3. ProcInv' /\ RealInv'
  BY <1>1 DEF IInv, ProcInv, RealInv, Handed
<1>4. KnownInv'
  <2>1. \A r : Handed(r)' = Handed(r)
    BY <1>1 DEF Handed
  <2>2. \A r : \A s \in Handed(r) : sends[s].at \in Nat
    BY <1>1 DEF Handed
  <2> QED
    BY <1>1, <2>1, <2>2, WindowAssumption DEF IInv, KnownInv
<1> QED
  BY <1>1, <1>2, <1>3, <1>4, LimitsStay DEF IInv

LEMMA Declining ==
  ASSUME IInv, NEW p \in Procs, Decline(p)
  PROVE  IInv'
<1>1. PICK r \in Recipients, before \in SUBSET Recipients :
        Becomes(p, [step |-> "write", copy |-> ledger, now |-> clock,
                    send |-> 0, visited |-> before \cup {r}])
  BY DEF Decline
<1> DEFINE c == [step |-> "write", copy |-> ledger, now |-> clock,
                 send |-> 0, visited |-> before \cup {r}]
<1>2. /\ TypeOK /\ UNCHANGED <<clock, sends, ledger, disturbed>>
      /\ proc[p].step = "off" /\ proc[p].send = 0
  BY DEF Decline, IInv, ProcInv, At
<1>3. c \in Records
  BY <1>2, BoundAssumption DEF TypeOK, Records
<1>4. proc' = [proc EXCEPT ![p] = c]
  BY <1>1 DEF Becomes
<1>5. c.step = "write" /\ c.copy = ledger /\ c.now = clock /\ c.send = 0
  OBVIOUS
<1> HIDE DEF c
<1>6. /\ proc' \in [Procs -> Records] /\ proc'[p] = c
      /\ \A q \in Procs \ {p} : proc'[q] = proc[q]
  BY <1>2, <1>3, <1>4 DEF TypeOK
<1>7. TypeOK'
  BY <1>2, <1>5, <1>6 DEF TypeOK
<1>8. ProcInv'
  BY <1>2, <1>5, <1>6 DEF IInv, ProcInv
<1>9. RealInv'
  BY <1>2, <1>5, <1>6 DEF IInv, RealInv, Handed
<1>10. KnownInv'
  <2>1. \A q : Handed(q)' = Handed(q)
    BY <1>2 DEF Handed
  <2>2. \A q \in Procs : proc'[q].send = proc[q].send
    BY <1>2, <1>5, <1>6
  <2> QED
    BY <1>2, <2>1, <2>2 DEF IInv, KnownInv
<1> QED
  BY <1>2, <1>7, <1>8, <1>9, <1>10, LimitsStay DEF IInv, TypeOK

\* p ends, and what it leaves in the ledger is real; what the ledger forgets is old, or
\* the ledger is disturbed.
LEMMA Ending ==
  ASSUME IInv, NEW p \in Procs, Becomes(p, Idle), UNCHANGED <<clock, sends>>,
         disturbed' \in {disturbed, clock},
         ledger' \in Histories,
         \A r \in Recipients : ledger'[r] \subseteq Handed(r),
         disturbed' # clock =>
           \A r \in Recipients : \A s \in Handed(r) :
             s \in ledger[r] \/ s = proc[p].send => s \in ledger'[r] \/ sends[s].at + Long < clock
  PROVE  IInv'
<1>1. /\ TypeOK /\ disturbed' \in 0 .. clock /\ disturbed \in Nat /\ clock \in Nat
      /\ disturbed <= disturbed'
  BY DEF IInv, TypeOK
<1>2. Idle \in Records
  BY BoundAssumption DEF Idle, Records, NoHistory, Histories
<1>3. /\ proc' \in [Procs -> Records] /\ proc'[p] = Idle
      /\ \A q \in Procs \ {p} : proc'[q] = proc[q]
  BY <1>1, <1>2 DEF TypeOK, Becomes
<1>4. Idle.step = "off" /\ Idle.send = 0 /\ Idle.now = 0 /\ \A r \in Recipients : Idle.copy[r] = {}
  BY DEF Idle, NoHistory
<1>5. \A r : Handed(r)' = Handed(r)
  BY DEF Handed
<1>6. TypeOK'
  BY <1>1, <1>3, <1>4 DEF TypeOK
<1>7. ProcInv'
  BY <1>3, <1>4 DEF IInv, ProcInv
<1>8. RealInv'
  BY <1>3, <1>4, <1>5 DEF IInv, RealInv
<1>9. KnownInv'
  <2>1. ASSUME NEW r \in Recipients, NEW s \in Handed(r), s \notin ledger'[r],
               ~(sends[s].at + Long < clock), ~(sends[s].at <= disturbed')
        PROVE  \E q \in Procs : proc'[q].send = s
    <3>1. s \in DOMAIN sends /\ sends[s].at <= clock /\ sends[s].at \in Nat
      BY <1>1, <2>1, SendTypes DEF Handed
    <3>2. disturbed' # clock /\ disturbed' = disturbed
      BY <2>1, <3>1
    <3>3. s \notin ledger[r] /\ s # proc[p].send
      BY <2>1, <3>2
    <3>4. PICK q \in Procs : proc[q].send = s
      BY <2>1, <3>2, <3>3 DEF IInv, KnownInv
    <3> QED
      BY <1>3, <3>3, <3>4
  <2>2. ASSUME NEW q \in Procs, proc'[q].send # 0, NEW s \in DOMAIN sends, proc'[q].send < s
        PROVE  sends[s].at <= disturbed'
    <3>1. q # p /\ proc'[q] = proc[q]
      BY <1>3, <1>4, <2>2
    <3>2. sends[s].at <= disturbed /\ sends[s].at \in Nat
      BY <1>1, <2>2, <3>1, SendTypes DEF IInv, KnownInv
    <3> QED
      BY <1>1, <3>2
  <2> QED
    BY <1>5, <2>1, <2>2 DEF KnownInv
<1> QED
  BY <1>1, <1>6, <1>7, <1>8, <1>9, LimitsStay DEF IInv

LEMMA Writing ==
  ASSUME IInv, NEW p \in Procs, Write(p)
  PROVE  IInv'
<1> DEFINE c == proc[p]
<1>1. /\ TypeOK /\ c \in Records /\ c.step = "write" /\ c.now <= clock
      /\ Becomes(p, Idle) /\ UNCHANGED <<clock, sends>> /\ ledger' = Written(p)
      /\ disturbed' \in {disturbed, clock} /\ (disturbed' # clock => ledger = c.copy)
  BY DEF IInv, TypeOK, Write, At
<1>2. /\ c.copy \in Histories /\ c.send \in 0 .. MaxSends /\ c.now \in Nat
      /\ c.visited \in SUBSET Recipients /\ clock \in Nat
  BY <1>1 DEF Records, TypeOK
<1>3. c.send # 0 => c.visited = Recipients /\ c.send \in DOMAIN sends /\ sends[c.send].to = Recipients
  BY <1>1 DEF IInv, ProcInv
<1>4. \A r \in Recipients :
        ledger'[r] = IF r \in c.visited THEN Within(c.copy[r], c.now, Long) \cup ({c.send} \ {0})
                                        ELSE c.copy[r]
  BY <1>1 DEF Written
<1> HIDE DEF c
<1>5. \A r \in Recipients : ledger'[r] \in SUBSET (1 .. MaxSends) /\ ledger'[r] \subseteq Handed(r)
  <2> TAKE r \in Recipients
  <2>1. c.copy[r] \in SUBSET (1 .. MaxSends) /\ c.copy[r] \subseteq Handed(r)
    BY <1>2 DEF IInv, RealInv, Histories, c
  <2>2. ({c.send} \ {0}) \in SUBSET (1 .. MaxSends) /\ ({c.send} \ {0}) \subseteq Handed(r)
    BY <1>2, <1>3, BoundAssumption DEF Handed
  <2>3. Within(c.copy[r], c.now, Long) \subseteq c.copy[r]
    BY DEF Within
  <2> QED
    BY <1>4, <2>1, <2>2, <2>3
<1>6. ledger' \in Histories
  <2>1. ledger' = [r \in Recipients |-> ledger'[r]]
    BY <1>1 DEF Written
  <2> QED
    BY <1>5, <2>1 DEF Histories
<1>7. ASSUME disturbed' # clock, NEW r \in Recipients, NEW s \in Handed(r),
             s \in ledger[r] \/ s = c.send
      PROVE  s \in ledger'[r] \/ sends[s].at + Long < clock
  <2>1. s \in DOMAIN sends /\ sends[s].at \in Nat /\ s # 0
    BY <1>1, SendTypes DEF Handed
  <2>2. CASE s = c.send
    BY <1>3, <1>4, <2>1, <2>2
  <2>3. CASE s \in ledger[r]
    <3>1. s \in c.copy[r]
      BY <1>1, <1>7, <2>3 DEF c
    <3>2. s \in Within(c.copy[r], c.now, Long) \/ sends[s].at + Long < c.now
      BY <1>2, <2>1, <3>1, WindowAssumption DEF Within
    <3>3. c.now <= clock
      BY <1>1 DEF c
    <3>4. sends[s].at + Long < c.now => sends[s].at + Long < clock
      BY <1>2, <2>1, <3>3, WindowAssumption
    <3> QED
      BY <1>4, <3>1, <3>2, <3>4
  <2> QED
    BY <1>7, <2>2, <2>3
<1> QED
  BY <1>1, <1>5, <1>6, <1>7, Ending DEF c

LEMMA Failing ==
  ASSUME IInv, NEW p \in Procs, Fails(p)
  PROVE  IInv'
<1>1. /\ TypeOK /\ Becomes(p, Idle) /\ UNCHANGED <<clock, sends, ledger>>
      /\ disturbed' \in {disturbed, clock}
      /\ disturbed' # clock => proc[p].send = 0 \/ sends[proc[p].send].to = {}
  BY DEF IInv, Fails, Left
<1>2. ledger' \in Histories /\ \A r \in Recipients : ledger'[r] \subseteq Handed(r)
  BY <1>1 DEF IInv, TypeOK, RealInv
<1>3. ASSUME disturbed' # clock, NEW r \in Recipients, NEW s \in Handed(r), s = proc[p].send
      PROVE  FALSE
  BY <1>1, <1>3, SendTypes DEF Handed
<1> QED
  BY <1>1, <1>2, <1>3, Ending

LEMMA Mixing ==
  ASSUME IInv, NEW p \in Procs, WriteMixed(p)
  PROVE  IInv'
<1>1. Becomes(p, Idle) /\ UNCHANGED <<clock, sends>> /\ disturbed' = clock /\ ledger' = NoHistory
  BY DEF WriteMixed
<1>2. ledger' \in Histories /\ \A r \in Recipients : ledger'[r] \subseteq Handed(r)
  BY <1>1 DEF NoHistory, Histories
<1> QED
  BY <1>1, <1>2, Ending

-----------------------------------------------------------------------------
\* A message is let through: it has not been handed over for anybody yet.
LEMMA LettingThrough ==
  ASSUME IInv, NEW p \in Procs, NEW limited \in BOOLEAN, LetThrough(p, limited),
         limited => \A r \in Recipients : ~Reached(ledger[r], clock)
  PROVE  IInv'
<1> DEFINE n == Len(sends) + 1
           m == [at |-> clock, limited |-> limited, to |-> {}]
           c == [step |-> "send", copy |-> ledger, now |-> clock, send |-> n, visited |-> Recipients]
<1>1. /\ TypeOK /\ clock \in Nat /\ disturbed \in 0 .. clock /\ UNCHANGED <<clock, ledger>>
      /\ Len(sends) \in Nat /\ n \in 1 .. MaxSends /\ n \notin DOMAIN sends
      /\ disturbed' = IF InFlight THEN clock ELSE disturbed
      /\ proc[p].step = "off" /\ proc[p].send = 0
  BY BoundAssumption DEF IInv, TypeOK, ProcInv, LetThrough, At
<1>2. m \in Sends /\ m.at = clock /\ m.limited = limited /\ m.to = {}
  BY <1>1 DEF Sends
<1>3. c \in Records /\ c.step = "send" /\ c.copy = ledger /\ c.now = clock /\ c.send = n
      /\ c.visited = Recipients
  BY <1>1 DEF TypeOK, Records
<1>4. sends' = Append(sends, m) /\ proc' = [proc EXCEPT ![p] = c]
  BY DEF LetThrough, Becomes
<1> HIDE DEF m, c
<1>5. /\ sends' \in Seq(Sends) /\ DOMAIN sends' = DOMAIN sends \cup {n} /\ Len(sends') = n
      /\ sends'[n] = m /\ \A s \in DOMAIN sends : sends'[s] = sends[s] /\ s < n
  BY <1>1, <1>2, <1>4 DEF TypeOK
<1>6. /\ proc' \in [Procs -> Records] /\ proc'[p] = c
      /\ \A q \in Procs \ {p} : proc'[q] = proc[q]
  BY <1>1, <1>3, <1>4 DEF TypeOK
<1>7. disturbed' \in 0 .. clock /\ disturbed <= disturbed' /\ disturbed \in Nat /\ disturbed' \in Nat
  BY <1>1
<1> HIDE DEF n
<1>8. TypeOK'
  BY <1>1, <1>2, <1>3, <1>5, <1>6, <1>7 DEF TypeOK
<1>9. \A r : Handed(r)' = Handed(r)
  BY <1>2, <1>5 DEF Handed
<1>10. ProcInv'
  <2>1. \A q \in Procs \ {p} : proc'[q].send # n
    BY <1>1, <1>6 DEF IInv, ProcInv
  <2>2. n # 0 /\ n \in DOMAIN sends' /\ sends'[n].at = clock
    BY <1>1, <1>2, <1>5
  <2>3. ASSUME NEW q \in Procs
        PROVE  LET x == proc'[q] IN
                 /\ x.step = "off" => x.send = 0
                 /\ x.step = "send" => x.send # 0
                 /\ x.send # 0 => /\ x.send \in DOMAIN sends'
                                  /\ x.visited = Recipients /\ x.now = sends'[x.send].at
                                  /\ x.step = "write" => sends'[x.send].to = Recipients
    <3>1. CASE q = p
      BY <1>3, <1>6, <2>2, <3>1
    <3>2. CASE q # p
      BY <1>5, <1>6, <3>2 DEF IInv, ProcInv
    <3> QED
      BY <3>1, <3>2
  <2>4. ASSUME NEW q \in Procs, NEW t \in Procs,
               proc'[q].send # 0, proc'[q].send = proc'[t].send
        PROVE  q = t
    <3>1. CASE q = p \/ t = p
      BY <1>3, <1>6, <2>1, <2>4, <3>1
    <3>2. CASE q # p /\ t # p
      BY <1>6, <2>4, <3>2 DEF IInv, ProcInv
    <3> QED
      BY <3>1, <3>2
  <2> QED
    BY <2>3, <2>4 DEF ProcInv
<1>11. RealInv'
  BY <1>1, <1>3, <1>6, <1>9 DEF IInv, RealInv
<1>12. KnownInv'
  <2>1. ASSUME NEW r \in Recipients, NEW s \in Handed(r), s \notin ledger[r]
        PROVE  \/ sends'[s].at + Long < clock
               \/ sends'[s].at <= disturbed'
               \/ \E q \in Procs : proc'[q].send = s
    <3>1. s \in DOMAIN sends /\ sends'[s] = sends[s] /\ sends[s].at \in Nat /\ s # 0
      BY <1>1, <1>5, SendTypes DEF Handed
    <3>2. ASSUME NEW q \in Procs, proc[q].send = s PROVE proc'[q].send = s
      BY <1>1, <1>6, <3>1, <3>2
    <3> QED
      BY <1>7, <2>1, <3>1, <3>2 DEF IInv, KnownInv
  <2>2. ASSUME NEW q \in Procs, proc'[q].send # 0, NEW s \in DOMAIN sends', proc'[q].send < s
        PROVE  sends'[s].at <= disturbed'
    <3>1. q # p
      BY <1>3, <1>5, <1>6, <2>2
    <3>2. proc[q].send # 0 /\ proc[q].send < s
      BY <1>6, <2>2, <3>1
    <3>3. CASE s = n
      BY <1>1, <1>2, <1>5, <3>2, <3>3 DEF InFlight
    <3>4. CASE s \in DOMAIN sends
      <4>1. sends[s].at <= disturbed /\ sends[s].at \in Nat
        BY <1>1, <3>2, <3>4, SendTypes DEF IInv, KnownInv
      <4> QED
        BY <1>5, <1>7, <3>4, <4>1
    <3> QED
      BY <1>5, <2>2, <3>3, <3>4
  <2> QED
    BY <1>1, <1>9, <2>1, <2>2 DEF KnownInv
<1>13. LimitsKept'
  <2> SUFFICES ASSUME NEW s \in DOMAIN sends', NEW r \in Recipients,
                      sends'[s].limited, disturbed' + Long < sends'[s].at
               PROVE  /\ \A j \in Earlier(s, r, Long)' : sends'[j].at + MinInterval <= sends'[s].at
                      /\ Cardinality(Earlier(s, r, Window)') < PerWindow
                      /\ Cardinality(Earlier(s, r, Long)') < PerLong
    BY DEF LimitsKept
  <2>1. CASE s \in DOMAIN sends
    <3>1. sends'[s] = sends[s] /\ sends[s].at \in Nat /\ disturbed + Long < sends[s].at
      BY <1>1, <1>5, <1>7, <2>1, SendTypes, WindowAssumption
    <3>2. \A j \in 1 .. s - 1 : j \in DOMAIN sends /\ sends'[j] = sends[j]
      BY <1>1, <1>5, <2>1 DEF TypeOK
    <3>3. \A d : Earlier(s, r, d)' = Earlier(s, r, d)
      BY <3>1, <3>2 DEF Earlier
    <3>4. \A j \in Earlier(s, r, Long) : sends'[j] = sends[j]
      BY <3>2 DEF Earlier
    <3> QED
      BY <2>1, <3>1, <3>3, <3>4 DEF IInv, LimitsKept
  <2>2. CASE s = n
    <3>1. sends'[s] = m /\ limited /\ disturbed' + Long < clock
      BY <1>2, <1>5, <2>2
    <3>2. ~InFlight /\ disturbed' = disturbed
      BY <1>1, <3>1, WindowAssumption
    <3>3. \A d \in Nat : d <= Long =>
            Earlier(s, r, d)' \subseteq Within(ledger[r], clock, d)
      <4> SUFFICES ASSUME NEW d \in Nat, d <= Long, NEW j \in Earlier(s, r, d)'
                   PROVE  j \in Within(ledger[r], clock, d)
        OBVIOUS
      <4>1. /\ j \in DOMAIN sends /\ sends'[j] = sends[j] /\ sends[j].at \in Nat
            /\ r \in sends[j].to /\ clock <= sends[j].at + d
        <5>1. j \in 1 .. n - 1 /\ r \in sends'[j].to /\ clock <= sends'[j].at + d
          BY <1>2, <2>2, <3>1 DEF Earlier
        <5>2. j \in DOMAIN sends
          BY <1>1, <5>1 DEF TypeOK, n
        <5> QED
          BY <1>1, <1>5, <5>1, <5>2, SendTypes
      <4>2. j \in Handed(r) /\ j # 0
        BY <1>1, <4>1, SendTypes DEF Handed
      <4>3. ~(sends[j].at + Long < clock) /\ ~(sends[j].at <= disturbed)
        BY <1>1, <1>7, <3>1, <3>2, <4>1, WindowAssumption
      <4>4. j \in ledger[r]
        BY <3>2, <4>2, <4>3 DEF IInv, KnownInv, InFlight
      <4> QED
        BY <4>1, <4>4 DEF Within
    <3>4. ~Reached(ledger[r], clock)
      BY <3>1
    <3>5. /\ Earlier(s, r, Long)' \subseteq Within(ledger[r], clock, Long)
          /\ Earlier(s, r, Window)' \subseteq Within(ledger[r], clock, Window)
      BY <3>3, WindowAssumption
    <3>6. \A d : Within(ledger[r], clock, d) \in SUBSET (1 .. MaxSends)
      BY <1>1 DEF TypeOK, Histories, Within
    <3>7. /\ Cardinality(Earlier(s, r, Long)') <= Cardinality(Within(ledger[r], clock, Long))
          /\ Cardinality(Earlier(s, r, Window)') <= Cardinality(Within(ledger[r], clock, Window))
          /\ Cardinality(Earlier(s, r, Long)') \in Nat /\ Cardinality(Earlier(s, r, Window)') \in Nat
          /\ Cardinality(Within(ledger[r], clock, Long)) \in Nat
          /\ Cardinality(Within(ledger[r], clock, Window)) \in Nat
      BY <3>5, <3>6, HistoriesFinite, FS_Subset
    <3>8. \A j \in Within(ledger[r], clock, Long) :
            j \in DOMAIN sends /\ sends'[j] = sends[j] /\ sends[j].at \in Nat
      BY <1>1, <1>5, SendTypes DEF IInv, RealInv, Handed, Within
    <3>9. \A j \in Within(ledger[r], clock, Long) : ~(clock < sends[j].at + MinInterval)
      BY <3>4 DEF Reached
    <3>10. \A j \in Earlier(s, r, Long)' : sends'[j].at + MinInterval <= clock
      BY <1>1, <3>5, <3>8, <3>9, LimitAssumption
    <3>11. /\ ~(Cardinality(Within(ledger[r], clock, Window)) >= PerWindow)
           /\ ~(Cardinality(Within(ledger[r], clock, Long)) >= PerLong)
      BY <3>4 DEF Reached
    <3>12. /\ Cardinality(Earlier(s, r, Window)') < PerWindow
           /\ Cardinality(Earlier(s, r, Long)') < PerLong
      BY <3>7, <3>11, LimitAssumption
    <3> QED
      BY <1>2, <3>1, <3>10, <3>12
  <2> QED
    BY <1>5, <2>1, <2>2
<1> QED
  BY <1>8, <1>10, <1>11, <1>12, <1>13 DEF IInv

\* One more recipient has the message of p; no later message counts on it.
LEMMA HandingOver ==
  ASSUME IInv, NEW p \in Procs, HandOver(p)
  PROVE  IInv'
<1> DEFINE k == proc[p].send
<1>1. PICK r \in Recipients \ sends[k].to :
        /\ sends' = [sends EXCEPT ![k].to = @ \cup {r}]
        /\ Becomes(p, IF sends[k].to \cup {r} = Recipients THEN [proc[p] EXCEPT !.step = "write"]
                                                           ELSE proc[p])
  BY DEF HandOver
<1> DEFINE c == IF sends[k].to \cup {r} = Recipients THEN [proc[p] EXCEPT !.step = "write"] ELSE proc[p]
           m == [sends[k] EXCEPT !.to = @ \cup {r}]
<1>2. /\ TypeOK /\ UNCHANGED <<clock, ledger, disturbed>> /\ proc[p] \in Records
      /\ proc[p].step = "send" /\ k # 0 /\ k \in DOMAIN sends
  BY DEF IInv, TypeOK, ProcInv, HandOver, At
<1>3. /\ m \in Sends /\ m.at = sends[k].at /\ m.limited = sends[k].limited
      /\ m.to = sends[k].to \cup {r}
  BY <1>2, SendTypes DEF Sends
<1>4. /\ c \in Records /\ c.copy = proc[p].copy /\ c.now = proc[p].now /\ c.send = k
      /\ c.visited = proc[p].visited /\ c.step \in {"send", "write"}
      /\ c.step = "write" => sends[k].to \cup {r} = Recipients
  BY <1>2 DEF Records
<1>5. sends' = [sends EXCEPT ![k] = m] /\ proc' = [proc EXCEPT ![p] = c]
  BY <1>1 DEF Becomes
<1> HIDE DEF m, c, k
<1>6. /\ sends' \in Seq(Sends) /\ DOMAIN sends' = DOMAIN sends /\ Len(sends') = Len(sends)
      /\ sends'[k] = m /\ \A s \in DOMAIN sends \ {k} : sends'[s] = sends[s]
  BY <1>2, <1>3, <1>5 DEF TypeOK
<1>7. /\ proc' \in [Procs -> Records] /\ proc'[p] = c
      /\ \A q \in Procs \ {p} : proc'[q] = proc[q]
  BY <1>2, <1>4, <1>5 DEF TypeOK
<1>8. \A s \in DOMAIN sends : sends'[s].at = sends[s].at /\ sends'[s].limited = sends[s].limited
  BY <1>3, <1>6
<1>9. TypeOK'
  BY <1>2, <1>4, <1>6, <1>7, <1>8 DEF TypeOK
<1>10. \A q \in Recipients : /\ Handed(q) \subseteq Handed(q)'
                             /\ Handed(q)' \subseteq Handed(q) \cup {k}
  BY <1>3, <1>6 DEF Handed
<1>11. ProcInv'
  <2>1. k = proc[p].send
    BY DEF k
  <2>2. \A q \in Procs \ {p} : proc[q].send # 0 => proc[q].send \in DOMAIN sends \ {k}
    BY <1>2, <2>1 DEF IInv, ProcInv
  <2>3. \A q \in Procs : LET x == proc'[q] IN
          /\ x.step = "off" => x.send = 0
          /\ x.step = "send" => x.send # 0
          /\ x.send # 0 => /\ x.send \in DOMAIN sends'
                           /\ x.visited = Recipients /\ x.now = sends'[x.send].at
                           /\ x.step = "write" => sends'[x.send].to = Recipients
    <3> SUFFICES ASSUME NEW q \in Procs
                 PROVE  LET x == proc'[q] IN
                          /\ x.step = "off" => x.send = 0
                          /\ x.step = "send" => x.send # 0
                          /\ x.send # 0 => /\ x.send \in DOMAIN sends'
                                           /\ x.visited = Recipients /\ x.now = sends'[x.send].at
                                           /\ x.step = "write" => sends'[x.send].to = Recipients
      OBVIOUS
    <3>1. CASE q = p
      <4>1. proc[p].visited = Recipients /\ proc[p].now = sends[k].at
        BY <1>2, <2>1 DEF IInv, ProcInv
      <4> QED
        BY <1>2, <1>3, <1>4, <1>6, <1>7, <3>1, <4>1
    <3>2. CASE q # p
      BY <1>6, <1>7, <2>2, <3>2 DEF IInv, ProcInv
    <3> QED
      BY <3>1, <3>2
  <2>4. \A q \in Procs : proc'[q].send = proc[q].send
    BY <1>4, <1>7, <2>1
  <2> QED
    BY <2>3, <2>4 DEF IInv, ProcInv
<1>12. RealInv'
  <2>1. \A q \in Procs : proc'[q].copy = proc[q].copy
    BY <1>4, <1>7
  <2> QED
    BY <1>2, <1>10, <2>1 DEF IInv, RealInv
<1>13. KnownInv'
  <2>1. \A q \in Procs : proc'[q].send = proc[q].send
    BY <1>4, <1>7 DEF k
  <2>2. ASSUME NEW q \in Recipients, NEW s \in Handed(q)', s \notin ledger[q]
        PROVE  \/ sends'[s].at + Long < clock
               \/ sends'[s].at <= disturbed
               \/ \E x \in Procs : proc[x].send = s
    <3>1. CASE s = k
      BY <3>1 DEF k
    <3>2. CASE s \in Handed(q)
      BY <1>8, <2>2, <3>2 DEF IInv, KnownInv, Handed
    <3> QED
      BY <1>10, <2>2, <3>1, <3>2
  <2>3. ASSUME NEW q \in Procs, proc'[q].send # 0, NEW s \in DOMAIN sends', proc'[q].send < s
        PROVE  sends'[s].at <= disturbed
    <3>1. sends[s].at <= disturbed
      BY <1>6, <2>1, <2>3 DEF IInv, KnownInv
    <3> QED
      BY <1>6, <1>8, <3>1
  <2> QED
    BY <1>2, <2>1, <2>2, <2>3 DEF KnownInv
<1>14. LimitsKept'
  <2> SUFFICES ASSUME NEW s \in DOMAIN sends, NEW q \in Recipients,
                      sends[s].limited, disturbed + Long < sends[s].at
               PROVE  /\ \A j \in Earlier(s, q, Long)' : sends'[j].at + MinInterval <= sends[s].at
                      /\ Cardinality(Earlier(s, q, Window)') < PerWindow
                      /\ Cardinality(Earlier(s, q, Long)') < PerLong
    BY <1>2, <1>6, <1>8 DEF LimitsKept
  <2>1. s \in 1 .. Len(sends) /\ k \in 1 .. Len(sends) /\ Len(sends) \in Nat
    BY <1>2 DEF TypeOK
  <2>2. s <= k
    <3>1. sends[s].at \in Nat /\ disturbed \in Nat
      BY <1>2, SendTypes DEF TypeOK
    <3>2. ~(sends[s].at <= disturbed)
      BY <3>1, WindowAssumption
    <3> QED
      BY <1>2, <2>1, <3>2 DEF IInv, KnownInv, k
  <2>3. \A j \in 1 .. s - 1 : j \in DOMAIN sends /\ sends'[j] = sends[j]
    BY <1>2, <1>6, <2>1, <2>2 DEF TypeOK
  <2>4. \A d : Earlier(s, q, d)' = Earlier(s, q, d)
    BY <1>8, <2>3 DEF Earlier
  <2>5. \A j \in Earlier(s, q, Long) : sends'[j] = sends[j]
    BY <2>3 DEF Earlier
  <2> QED
    BY <2>4, <2>5 DEF IInv, LimitsKept
<1> QED
  BY <1>9, <1>11, <1>12, <1>13, <1>14 DEF IInv

-----------------------------------------------------------------------------
LEMMA InvStep == IInv /\ [Next]_vars => IInv'
<1> SUFFICES ASSUME IInv, [Next]_vars PROVE IInv'
  OBVIOUS
<1>1. CASE Tick
  BY <1>1, Ticking
<1>2. ASSUME NEW p \in Procs, Process(p) PROVE IInv'
  <2>1. CASE SendForced(p)
    BY <2>1, LettingThrough DEF SendForced
  <2>2. CASE Allow(p)
    BY <2>2, LettingThrough DEF Allow
  <2>3. CASE Decline(p)
    BY <2>3, Declining
  <2>4. CASE HandOver(p)
    BY <2>4, HandingOver
  <2>5. CASE Write(p)
    BY <2>5, Writing
  <2>6. CASE WriteMixed(p)
    BY <2>6, Mixing
  <2>7. CASE Fails(p)
    BY <2>7, Failing
  <2> QED
    BY <1>2, <2>1, <2>2, <2>3, <2>4, <2>5, <2>6, <2>7 DEF Process
<1>3. CASE UNCHANGED vars
  <2>1. TypeOK' /\ ProcInv'
    BY <1>3 DEF vars, IInv, TypeOK, ProcInv
  <2>2. RealInv' /\ KnownInv'
    BY <1>3 DEF vars, IInv, RealInv, KnownInv, Handed
  <2>3. LimitsKept'
    BY <1>3, LimitsStay DEF vars, IInv, TypeOK
  <2> QED
    BY <2>1, <2>2, <2>3 DEF IInv
<1> QED
  BY <1>1, <1>2, <1>3 DEF Next

\* The ledger, the messages and the processes agree in every reachable state.
THEOREM Invariance == Spec => []IInv
BY Initially, InvStep, PTL DEF Spec

\* should_send_global: the limits hold for what is handed to OneBot, and again once the long
\* window has passed since the last overlap or loss.
THEOREM WithinLimits == Spec => []LimitsKept
<1>1. IInv => LimitsKept
  BY DEF IInv
<1> QED
  BY <1>1, Invariance, PTL

\* A process that decides not to send has seen a recipient for whom a limit was reached.
LEMMA DeclineStep ==
  ASSUME IInv, [Next]_vars, NEW p \in Procs, At(p, "off"), proc'[p].step = "write"
  PROVE  \E r \in Recipients : Reached(Handed(r), clock)
<1>1. proc \in [Procs -> Records] /\ clock \in Nat /\ proc[p].step = "off"
  BY DEF IInv, TypeOK, At
<1>2. Decline(p)
  <2>1. ASSUME NEW q \in Procs, Process(q) PROVE q = p
    <3>1. \A x : Becomes(q, x) /\ q # p => proc'[p] = proc[p]
      BY <1>1 DEF Becomes
    <3> QED
      BY <1>1, <2>1, <3>1 DEF Process, SendForced, Allow, LetThrough, Decline, HandOver, Write, WriteMixed, Fails
  <2>2. ~Tick /\ ~UNCHANGED vars
    BY <1>1 DEF Tick, vars
  <2>3. Process(p)
    BY <2>1, <2>2 DEF Next
  <2>4. ~HandOver(p) /\ ~Write(p) /\ ~WriteMixed(p) /\ ~Fails(p)
    BY <1>1 DEF HandOver, Write, WriteMixed, Fails, At
  <2>5. ~SendForced(p) /\ ~Allow(p)
    BY <1>1 DEF SendForced, Allow, LetThrough, Becomes
  <2> QED
    BY <2>3, <2>4, <2>5 DEF Process
<1>3. PICK r \in Recipients : Reached(ledger[r], clock)
  BY <1>2 DEF Decline
<1>4. ledger[r] \subseteq Handed(r) /\ Handed(r) \in SUBSET (1 .. MaxSends)
  BY SendTypes DEF IInv, RealInv, Handed
<1> QED
  BY <1>1, <1>3, <1>4, ReachedByMore

\* _send: a process declines only when as much has been handed to OneBot as the limits
\* allow, whatever overlaps, sends that raise and kills have made of the ledger.
THEOREM NoNeedlessDecline == Spec => DeclinesJustified
<1>1. IInv /\ [Next]_vars =>
        [\A p \in Procs : At(p, "off") /\ proc'[p].step = "write"
           => \E r \in Recipients : Reached(Handed(r), clock)]_vars
  BY DeclineStep
<1> QED
  BY <1>1, Invariance, PTL DEF Spec, DeclinesJustified
=============================================================================
