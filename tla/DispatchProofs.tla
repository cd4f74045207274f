---------------------------- MODULE DispatchProofs ----------------------------
(***************************************************************************)
(* Proofs about Dispatch, for any number of messages, tasks, connections,  *)
(* expiries and restarts: a message is executed at most once in a window   *)
(* and a boot, replies arrive as prefixes, and silence has a reason.       *)
(*                                                                         *)
(* A step either moves the connections on (LoopStep), or changes one task  *)
(* (TaskStep), or starts a task (StartStep), or is a crash.                *)
(***************************************************************************)
EXTENDS Dispatch, FiniteSetTheorems, TLAPS

Links == {"new", "up"} \cup Dead

LEMMA ExecutionsFinite ==
  ASSUME TypeOK, NEW m \in Messages
  PROVE  IsFiniteSet(Executions(m)) /\ Cardinality(Executions(m)) \in Nat
<1>1. Executions(m) \subseteq 1 .. Len(tasks) /\ Len(tasks) \in Nat
  BY DEF TypeOK, Executions
<1>2. IsFiniteSet(1 .. Len(tasks))
  BY <1>1, FS_Interval
<1>3. IsFiniteSet(Executions(m))
  BY <1>1, <1>2, FS_Subset
<1> QED
  BY <1>3, FS_CardinalityType

LEMMA Initially == Init => IInv
<1> SUFFICES ASSUME Init PROVE IInv
  OBVIOUS
<1>1. TypeOK
  <2>1. clients \in Seq({"new", "up"} \cup Dead) /\ clients # << >>
    BY DEF Init
  <2>2. tasks \in Seq(Tasks) /\ DOMAIN tasks = {}
    BY DEF Init
  <2>3. expiries \in [Messages -> 0 .. MaxExpiries]
    BY BoundAssumption DEF Init
  <2>4. drops \in 0 .. MaxDrops /\ boots \in 0 .. MaxBoots
    BY BoundAssumption DEF Init
  <2>5. phase = "connecting" /\ delay \in Nat /\ wired \in BOOLEAN /\ seen \subseteq Messages
    BY DelayAssumption DEF Init
  <2> QED
    BY <2>1, <2>2, <2>3, <2>4, <2>5 DEF TypeOK
<1>2. LoopInv
  BY DEF Init, LoopInv, Current
<1>3. TaskInv /\ RepliesArePrefixes /\ SilenceHasReason
  BY DEF Init, TaskInv, RepliesArePrefixes, SilenceHasReason
<1>4. SeenInv
  <2> SUFFICES ASSUME NEW m \in Messages
               PROVE  Cardinality(Executions(m)) + (IF m \in seen THEN 0 ELSE 1)
                        <= 1 + expiries[m] + boots
    BY DEF SeenInv
  <2>1. Executions(m) = {}
    BY DEF Init, Executions
  <2> QED
    BY <2>1, FS_EmptySet DEF Init
<1> QED
  BY <1>1, <1>2, <1>3, <1>4 DEF IInv

-----------------------------------------------------------------------------
\* Connections only break; a client that was connected is not new again.
Ages == /\ clients' \in Seq(Links) /\ Len(clients') >= Len(clients)
        /\ \A c \in 1 .. Len(clients) : /\ clients[c] \in Dead => clients'[c] \in Dead
                                        /\ clients'[c] = "new" => clients[c] = "new"

LEMMA TaskTypes ==
  ASSUME TypeOK, NEW i \in DOMAIN tasks
  PROVE  tasks[i] \in Tasks /\ tasks[i].client \in 1 .. Len(clients)
<1>1. tasks[i] \in Tasks /\ tasks[i].client <= Len(clients)
  BY DEF TypeOK, Current
<1>2. tasks[i].client \in Nat \ {0} /\ Len(clients) \in Nat
  BY <1>1 DEF Tasks, TypeOK
<1> QED
  BY <1>1, <1>2

\* The loop moves on; it does not touch the tasks.
LEMMA LoopStep ==
  ASSUME IInv, Ages, UNCHANGED <<tasks, seen, expiries, boots>>
  PROVE  TaskInv' /\ SeenInv' /\ RepliesArePrefixes' /\ SilenceHasReason'
<1>1. TaskInv' /\ SilenceHasReason'
  <2>1. \A i \in DOMAIN tasks : Coherent(tasks[i]) /\ Excused(tasks[i])
    BY DEF IInv, TaskInv, SilenceHasReason
  <2>2. \A i \in DOMAIN tasks : tasks[i] \in Tasks /\ tasks[i].client <= Current
    BY DEF IInv, TypeOK
  <2> SUFFICES ASSUME NEW i \in DOMAIN tasks PROVE Coherent(tasks[i])' /\ Excused(tasks[i])'
    BY DEF TaskInv, SilenceHasReason
  <2> DEFINE t == tasks[i]
  <2>3. t' = t
    OBVIOUS
  <2>4. t \in Tasks /\ t.client <= Current /\ Coherent(t) /\ Excused(t) /\ TypeOK
    BY <2>1, <2>2 DEF IInv
  <2>5. t.client \in 1 .. Len(clients)
    BY <2>4 DEF Tasks, Current, TypeOK
  <2> QED
    BY <2>3, <2>4, <2>5 DEF Ages, Coherent, Excused
<1>2. RepliesArePrefixes'
  BY DEF IInv, RepliesArePrefixes, Beginning
<1>3. SeenInv'
  BY DEF IInv, SeenInv, Executions
<1> QED
  BY <1>1, <1>2, <1>3

\* One task goes on.
LEMMA TaskStep ==
  ASSUME IInv, NEW i \in DOMAIN tasks, NEW t \in Tasks,
         t.msg = tasks[i].msg, t.client = tasks[i].client,
         Coherent(t), Beginning(t), Excused(t),
         Becomes(i, t)
  PROVE  IInv'
<1>1. /\ tasks' \in Seq(Tasks) /\ DOMAIN tasks' = DOMAIN tasks
      /\ tasks'[i] = t /\ \A j \in DOMAIN tasks \ {i} : tasks'[j] = tasks[j]
      /\ UNCHANGED <<phase, clients, delay, wired, seen, expiries, drops, boots>>
  BY DEF Becomes, IInv, TypeOK, loop, counts
<1>2. TypeOK'
  BY <1>1 DEF IInv, TypeOK, Current
<1>3. LoopInv'
  BY <1>1 DEF IInv, LoopInv, Current
<1>4. TaskInv' /\ SilenceHasReason' /\ RepliesArePrefixes'
  BY <1>1 DEF IInv, TaskInv, SilenceHasReason, RepliesArePrefixes, Coherent, Excused, Beginning
<1>5. SeenInv'
  <2>1. \A m \in Messages : Executions(m)' = Executions(m)
    BY <1>1 DEF Executions
  <2> QED
    BY <1>1, <2>1 DEF IInv, SeenInv
<1> QED
  BY <1>2, <1>3, <1>4, <1>5 DEF IInv

\* A task starts on the current connection.
LEMMA StartStep ==
  ASSUME IInv, NEW m \in Messages \cup {Notice}, NEW s \in {"routing", "sending"}, NEW n \in Nat,
         s = "routing" => n = 0 /\ clients[Current] # "new",
         s = "sending" => n > 0 /\ m = Notice,
         Starts(Task(m, s, n)), UNCHANGED <<loop, counts>>, seen' \in SUBSET Messages
  PROVE  TypeOK' /\ LoopInv' /\ TaskInv' /\ RepliesArePrefixes' /\ SilenceHasReason'
<1> DEFINE t == Task(m, s, n)
<1>1. t \in Tasks /\ t.client = Current /\ Current \in Nat \ {0}
  BY DEF IInv, TypeOK, Current, Tasks, Task, Busy
<1>2. Coherent(t) /\ Beginning(t) /\ Excused(t)
  BY <1>1, NoticeAssumption DEF Coherent, Beginning, Excused, Task, Busy
<1>3. /\ tasks' = Append(tasks, t) /\ tasks' \in Seq(Tasks)
      /\ Len(tasks') = Len(tasks) + 1 /\ tasks'[Len(tasks) + 1] = t
      /\ \A i \in DOMAIN tasks : i \in DOMAIN tasks' /\ tasks'[i] = tasks[i]
      /\ \A i \in DOMAIN tasks' : i \in DOMAIN tasks \/ i = Len(tasks) + 1
      /\ UNCHANGED <<phase, clients, delay, wired, expiries, drops, boots>>
  <2> HIDE DEF t
  <2> QED
    BY <1>1 DEF Starts, IInv, TypeOK, loop, counts, t
<1> HIDE DEF t
<1>4. TypeOK'
  BY <1>1, <1>3 DEF IInv, TypeOK, Current
<1>5. LoopInv'
  BY <1>3 DEF IInv, LoopInv, Current
<1>6. TaskInv' /\ SilenceHasReason' /\ RepliesArePrefixes'
  BY <1>2, <1>3 DEF IInv, TaskInv, SilenceHasReason, RepliesArePrefixes, Coherent, Excused, Beginning
<1> QED
  BY <1>4, <1>5, <1>6

-----------------------------------------------------------------------------
\* The current client changes its state, and does not come back to life.
LEMMA Relinking ==
  ASSUME IInv, NEW c \in Links, Link(c), c # "new", clients[Current] \in Dead => c \in Dead
  PROVE  /\ Len(clients) \in Nat \ {0} /\ Len(clients') = Len(clients)
         /\ \A d \in 1 .. Len(clients) : clients'[d] = IF d = Len(clients) THEN c ELSE clients[d]
         /\ Ages
<1>1. clients \in Seq(Links) /\ Len(clients) \in Nat \ {0}
  BY DEF IInv, TypeOK, Links
<1>2. /\ clients' \in Seq(Links) /\ Len(clients') = Len(clients)
      /\ \A d \in 1 .. Len(clients) : clients'[d] = IF d = Len(clients) THEN c ELSE clients[d]
  BY <1>1 DEF Link, Current
<1>3. Len(clients') >= Len(clients)
  BY <1>1, <1>2
<1>4. ASSUME NEW d \in 1 .. Len(clients)
      PROVE  /\ clients[d] \in Dead => clients'[d] \in Dead
             /\ clients'[d] = "new" => clients[d] = "new"
  <2>1. CASE d = Len(clients)
    BY <1>2, <2>1 DEF Current
  <2>2. CASE d # Len(clients)
    BY <1>2, <2>2
  <2> QED
    BY <2>1, <2>2
<1>5. Ages
  BY <1>2, <1>3, <1>4, Zenon DEF Ages
<1> QED
  BY <1>1, <1>2, <1>5, Zenon

\* A new client is appended.
LEMMA Renewing ==
  ASSUME IInv, NextClient
  PROVE  /\ Len(clients) \in Nat \ {0} /\ Len(clients') = Len(clients) + 1
         /\ clients'[Len(clients) + 1] = "new"
         /\ \A d \in 1 .. Len(clients) : clients'[d] = clients[d]
         /\ Ages
<1>1. clients \in Seq(Links) /\ Len(clients) \in Nat \ {0}
  BY DEF IInv, TypeOK, Links
<1>2. /\ clients' \in Seq(Links) /\ Len(clients') = Len(clients) + 1
      /\ clients'[Len(clients) + 1] = "new"
      /\ \A d \in 1 .. Len(clients) : clients'[d] = clients[d]
  BY <1>1 DEF NextClient, Links
<1>3. Len(clients') >= Len(clients)
  BY <1>1, <1>2
<1>4. ASSUME NEW d \in 1 .. Len(clients)
      PROVE  /\ clients[d] \in Dead => clients'[d] \in Dead
             /\ clients'[d] = "new" => clients[d] = "new"
  BY <1>2
<1>5. Ages
  BY <1>2, <1>3, <1>4, Zenon DEF Ages
<1> QED
  BY <1>1, <1>2, <1>5, Zenon

\* What the steps of the loop do to its variables.
LEMMA LoopMoves ==
  ASSUME IInv, Loop \/ Drop
  PROVE  /\ Ages /\ LoopInv' /\ UNCHANGED <<tasks, seen, expiries, boots>>
         /\ phase' \in {"connecting", "listening", "pausing"}
         /\ delay' \in Nat /\ wired' \in BOOLEAN /\ drops' \in 0 .. MaxDrops
<1>1. /\ phase \in {"connecting", "listening", "pausing"} /\ delay \in Nat /\ wired \in BOOLEAN
      /\ drops \in 0 .. MaxDrops /\ MaxDrops \in Nat
  BY BoundAssumption DEF IInv, TypeOK
<1>2. Len(clients) \in Nat \ {0} /\ \A c \in 1 .. Len(clients) - 1 : clients[c] \in Dead
  BY DEF IInv, TypeOK, LoopInv, Current
<1>3. {"up", "down", "closed"} \subseteq Links /\ "down" \in Dead /\ "closed" \in Dead
      /\ "new" \notin Dead /\ "up" \notin Dead
  BY DEF Links, Dead
<1>4. ASSUME NEW c \in {"up", "down", "closed"}, Link(c), clients[Current] \in Dead => c \in Dead,
             phase' \in {"listening", "pausing"},
             phase' = "listening" => c \in {"up", "down"}, phase' = "pausing" => c = "closed"
      PROVE  Ages /\ LoopInv'
  <2>1. /\ Len(clients') = Len(clients) /\ Ages
        /\ \A d \in 1 .. Len(clients) : clients'[d] = IF d = Len(clients) THEN c ELSE clients[d]
    BY <1>3, <1>4, Relinking
  <2>2. clients'[Len(clients)] = c /\ \A d \in 1 .. Len(clients) - 1 : clients'[d] \in Dead
    BY <1>2, <2>1
  <2> QED
    BY <1>4, <2>1, <2>2 DEF LoopInv, Current
<1>5. ASSUME NextClient PROVE Ages
  BY <1>5, Renewing
<1>6. ASSUME NextClient, clients[Current] \in Dead PROVE LoopInv'
  <2>1. /\ Len(clients') = Len(clients) + 1 /\ clients'[Len(clients) + 1] = "new"
        /\ \A d \in 1 .. Len(clients) : clients'[d] = clients[d]
    BY <1>6, Renewing
  <2>2. \A d \in 1 .. Len(clients') - 1 : clients'[d] \in Dead
    BY <1>2, <1>6, <2>1 DEF Current
  <2> QED
    BY <1>6, <2>1, <2>2 DEF LoopInv, NextClient, Current
<1>7. CASE Connect
  <2>1. /\ phase = "connecting" /\ phase' = "listening" /\ Link("up") /\ delay' = DelayInitial
        /\ wired' = TRUE /\ UNCHANGED <<seen, tasks, expiries, drops, boots>>
    BY <1>7 DEF Connect, counts
  <2>2. clients[Current] \notin Dead
    BY <1>3, <2>1 DEF IInv, LoopInv
  <2> QED
    BY <1>1, <1>4, <2>1, <2>2, DelayAssumption
<1>8. CASE ConnectFails \/ ListenFails
  <2>1. /\ phase' = "pausing" /\ Link("closed") /\ drops' \in {drops, drops + 1}
        /\ drops' # drops => drops < MaxDrops
        /\ UNCHANGED <<delay, wired, seen, tasks, expiries, boots>>
    BY <1>8 DEF ConnectFails, ListenFails, Pause, Close, counts
  <2>2. drops' \in 0 .. MaxDrops
    BY <1>1, <2>1
  <2>3. Ages /\ LoopInv'
    BY <1>3, <1>4, <2>1
  <2> QED
    BY <1>1, <2>1, <2>2, <2>3
<1>9. CASE Resume \/ ListenEnds
  <2>1. /\ NextClient /\ phase' = "connecting" /\ delay' \in {delay, 2 * delay, DelayMax}
        /\ clients[Current] \in Dead
        /\ UNCHANGED <<wired, seen, tasks, expiries, drops, boots>>
    BY <1>3, <1>9 DEF Resume, ListenEnds, EventsEnd, NextClient, IInv, LoopInv, counts
  <2>2. delay' \in Nat
    BY <1>1, <2>1, DelayAssumption
  <2> QED
    BY <1>1, <1>5, <1>6, <2>1, <2>2
<1>10. CASE Drop
  <2>1. /\ phase = "listening" /\ Link("down") /\ drops < MaxDrops /\ drops' = drops + 1
        /\ UNCHANGED <<phase, delay, wired, seen, tasks, expiries, boots>>
    BY <1>10 DEF Drop
  <2>2. drops' \in 0 .. MaxDrops
    BY <1>1, <2>1
  <2>3. Ages /\ LoopInv'
    BY <1>3, <1>4, <2>1
  <2> QED
    BY <1>1, <2>1, <2>2, <2>3
<1> QED
  BY <1>7, <1>8, <1>9, <1>10 DEF Loop

LEMMA LoopActions ==
  ASSUME IInv, Loop \/ Drop
  PROVE  IInv'
<1>1. TypeOK
  BY DEF IInv
<1>2. /\ Ages /\ LoopInv' /\ UNCHANGED <<tasks, seen, expiries, boots>>
      /\ phase' \in {"connecting", "listening", "pausing"}
      /\ delay' \in Nat /\ wired' \in BOOLEAN /\ drops' \in 0 .. MaxDrops
  BY LoopMoves
<1>3. TypeOK'
  <2>1. clients' \in Seq({"new", "up"} \cup Dead) /\ clients' # << >> /\ Len(clients') >= Len(clients)
    <3>1. Len(clients) \in Nat \ {0}
      BY <1>1 DEF TypeOK
    <3> QED
      BY <1>2, <3>1 DEF Ages, Links
  <2>2. \A i \in DOMAIN tasks : tasks[i].client <= Len(clients')
    <3> SUFFICES ASSUME NEW i \in DOMAIN tasks PROVE tasks[i].client <= Len(clients')
      OBVIOUS
    <3> QED
      BY <1>1, <1>2, <2>1, TaskTypes DEF Ages
  <2>3. /\ tasks \in Seq(Tasks) /\ seen \subseteq Messages
        /\ expiries \in [Messages -> 0 .. MaxExpiries] /\ boots \in 0 .. MaxBoots
    BY <1>1 DEF TypeOK
  <2> QED
    BY <1>2, <2>1, <2>2, <2>3 DEF TypeOK, Current
<1> QED
  BY <1>2, <1>3, LoopStep DEF IInv

\* Accepting a message is one execution more of this message.
LEMMA AcceptCounts ==
  ASSUME IInv, TypeOK', NEW m \in Messages, Accept(m), NEW q \in Messages
  PROVE  Cardinality(Executions(q)') = Cardinality(Executions(q)) + (IF q = m THEN 1 ELSE 0)
<1>1. TypeOK
  BY DEF IInv
<1>2. /\ Len(tasks') = Len(tasks) + 1 /\ tasks'[Len(tasks) + 1].msg = m
      /\ \A i \in DOMAIN tasks : i \in DOMAIN tasks' /\ tasks'[i] = tasks[i]
      /\ \A i \in DOMAIN tasks' : i \in DOMAIN tasks \/ i = Len(tasks) + 1
      /\ Len(tasks) + 1 \in DOMAIN tasks' /\ Len(tasks) + 1 \notin DOMAIN tasks
  <2> DEFINE t == Task(m, "routing", 0)
  <2>1. tasks' = Append(tasks, t) /\ t.msg = m
    BY DEF Accept, Starts, Task
  <2>2. tasks \in Seq(Tasks) /\ tasks' \in Seq(Tasks)
    BY <1>1 DEF TypeOK
  <2> HIDE DEF t
  <2>3. Len(tasks) \in Nat /\ Len(tasks') = Len(tasks) + 1 /\ tasks'[Len(tasks) + 1] = t
    BY <2>1, <2>2
  <2>4. DOMAIN tasks = 1 .. Len(tasks) /\ DOMAIN tasks' = 1 .. Len(tasks) + 1
    BY <2>2, <2>3
  <2>5. \A i \in 1 .. Len(tasks) : tasks'[i] = tasks[i]
    BY <2>1, <2>2
  <2> QED
    BY <2>1, <2>3, <2>4, <2>5
<1>3. CASE q # m
  <2>1. Executions(q)' = Executions(q)
    BY <1>2, <1>3 DEF Executions
  <2> QED
    BY <2>1, <1>1, <1>3, ExecutionsFinite
<1>4. CASE q = m
  <2>1. Executions(m)' = Executions(m) \cup {Len(tasks) + 1} /\ Len(tasks) + 1 \notin Executions(m)
    BY <1>2 DEF Executions
  <2>2. Cardinality(Executions(m)') = Cardinality(Executions(m)) + 1
    BY <2>1, <1>1, ExecutionsFinite, FS_AddElement
  <2> QED
    BY <2>2, <1>4
<1> QED
  BY <1>3, <1>4

LEMMA Accepting ==
  ASSUME IInv, NEW m \in Messages, Accept(m)
  PROVE  IInv'
<1>1. TypeOK /\ TypeOK' /\ LoopInv' /\ TaskInv' /\ RepliesArePrefixes' /\ SilenceHasReason'
  BY StartStep DEF Accept, IInv, TypeOK, LoopInv, Remembering
<1>2. SeenInv'
  <2> SUFFICES ASSUME NEW q \in Messages
               PROVE  Cardinality(Executions(q)') + (IF q \in seen' THEN 0 ELSE 1)
                        <= 1 + expiries[q] + boots
    BY DEF SeenInv, Accept, counts
  <2>1. Cardinality(Executions(q)') = Cardinality(Executions(q)) + (IF q = m THEN 1 ELSE 0)
    BY <1>1, AcceptCounts
  <2>2. Cardinality(Executions(q)) + (IF q \in seen THEN 0 ELSE 1) <= 1 + expiries[q] + boots
    BY DEF IInv, SeenInv
  <2>3. Cardinality(Executions(q)) \in Nat
    BY <1>1, ExecutionsFinite
  <2>4. m \notin seen /\ seen' = seen \cup {m}
    BY DEF Accept, Remembering
  <2> QED
    BY <2>1, <2>2, <2>3, <2>4
<1> QED
  BY <1>1, <1>2 DEF IInv

LEMMA Tripping ==
  ASSUME IInv, Trip
  PROVE  IInv'
<1>1. TypeOK /\ TypeOK' /\ LoopInv' /\ TaskInv' /\ RepliesArePrefixes' /\ SilenceHasReason'
  <2>1. /\ Starts(Task(Notice, "sending", 1)) /\ UNCHANGED <<loop, counts>>
        /\ seen' \in SUBSET Messages /\ TypeOK
    BY DEF Trip, IInv, TypeOK
  <2> QED
    BY <2>1, StartStep
<1>2. \A q \in Messages : Executions(q)' = Executions(q)
  BY <1>1, NoticeAssumption DEF Trip, Starts, Task, TypeOK, Executions
<1>3. SeenInv'
  BY <1>2 DEF IInv, SeenInv, Trip, counts
<1> QED
  BY <1>1, <1>3 DEF IInv

LEMMA Expiring ==
  ASSUME IInv, NEW m \in Messages, Expire(m)
  PROVE  IInv'
<1>1. TypeOK /\ TypeOK' /\ UNCHANGED <<phase, clients, tasks, boots>>
  <2>1. TypeOK /\ UNCHANGED <<phase, clients, delay, wired, tasks, drops, boots>>
    BY DEF IInv, Expire, loop
  <2>2. expiries' \in [Messages -> 0 .. MaxExpiries] /\ seen' \subseteq Messages
    BY <2>1, BoundAssumption DEF Expire, TypeOK
  <2> QED
    BY <2>1, <2>2 DEF TypeOK, Current
<1>2. LoopInv' /\ TaskInv' /\ RepliesArePrefixes' /\ SilenceHasReason'
  BY <1>1 DEF IInv, LoopInv, TaskInv, RepliesArePrefixes, SilenceHasReason, Current,
              Coherent, Beginning, Excused
<1>3. SeenInv'
  <2> SUFFICES ASSUME NEW q \in Messages
               PROVE  Cardinality(Executions(q)) + (IF q \in seen' THEN 0 ELSE 1)
                        <= 1 + expiries'[q] + boots
    BY <1>1 DEF SeenInv, Executions
  <2>1. Cardinality(Executions(q)) \in Nat
    BY <1>1, ExecutionsFinite
  <2>2. /\ Cardinality(Executions(q)) + (IF q \in seen THEN 0 ELSE 1) <= 1 + expiries[q] + boots
        /\ expiries \in [Messages -> 0 .. MaxExpiries] /\ boots \in 0 .. MaxBoots
    BY DEF IInv, SeenInv, TypeOK
  <2>3. m \in seen /\ seen' = seen \ {m} /\ expiries' = [expiries EXCEPT ![m] = @ + 1]
    BY DEF Expire
  <2>4. CASE q = m
    <3>1. expiries'[q] = expiries[q] + 1 /\ expiries[q] \in Nat /\ boots \in Nat
      BY <2>2, <2>3, <2>4, BoundAssumption
    <3> QED
      BY <2>1, <2>2, <2>3, <2>4, <3>1
  <2>5. CASE q # m
    BY <2>2, <2>3, <2>5
  <2> QED
    BY <2>4, <2>5
<1> QED
  BY <1>1, <1>2, <1>3 DEF IInv

LEMMA Handling ==
  ASSUME IInv, NEW i, Handle(i)
  PROVE  IInv'
<1> USE DEF Dead, Busy, Ended
<1>1. i \in DOMAIN tasks
  BY DEF Handle, RouteReplies, RouteEnds, SendChunk, SendRaises, Apologize, At
<1> DEFINE t == tasks[i]
<1>2. /\ t \in Tasks /\ t.client \in 1 .. Len(clients) /\ clients[t.client] \in Links
      /\ Coherent(t) /\ Beginning(t) /\ Excused(t)
  BY <1>1, TaskTypes DEF IInv, TypeOK, TaskInv, RepliesArePrefixes, SilenceHasReason, Links
<1>a. /\ t.msg \in Messages \cup {Notice} /\ t.client \in Nat \ {0} /\ t.chunks \in Nat
      /\ t.sent \in Nat /\ t.got \in SUBSET (Nat \ {0}) /\ t.sorry \in BOOLEAN
  BY <1>2 DEF Tasks
<1> HIDE DEF t
<1>3. CASE RouteReplies(i)
  <2> PICK n \in 1 .. MaxChunks : Becomes(i, [t EXCEPT !.step = "sending", !.chunks = n])
    BY <1>3 DEF RouteReplies, t
  <2> DEFINE u == [t EXCEPT !.step = "sending", !.chunks = n]
  <2>1. /\ u \in Tasks /\ u.step = "sending" /\ u.chunks = n /\ n \in Nat \ {0}
        /\ u.msg = t.msg /\ u.client = t.client /\ u.sent = t.sent /\ u.got = t.got
        /\ u.sorry = t.sorry
    <3>1. n \in Nat \ {0}
      BY BoundAssumption
    <3> QED
      BY <1>2, <3>1 DEF Tasks
  <2>2. t.step = "routing" /\ t.chunks = 0 /\ t.sent = 0 /\ ~t.sorry /\ Becomes(i, u)
    BY <1>2, <1>3, <1>a DEF RouteReplies, At, Coherent, t
  <2> HIDE DEF u
  <2>3. Coherent(u) /\ Beginning(u) /\ Excused(u)
    BY <1>2, <2>1, <2>2 DEF Coherent, Beginning, Excused, Tasks
  <2> QED
    BY <1>1, <2>1, <2>2, <2>3, TaskStep DEF t
<1>4. ASSUME NEW s \in {"quiet", "done", "apologizing"}, t.step \in {"routing", "sending"}, Goes(i, s),
             s = "quiet" => t.step = "routing",
             s = "done" => t.msg = Notice,
             s = "apologizing" => t.step = "routing" \/ (clients[t.client] # "up" /\ t.msg # Notice)
      PROVE  IInv'
  <2> DEFINE u == [t EXCEPT !.step = s]
  <2>1. /\ u \in Tasks /\ u.step = s /\ u.chunks = t.chunks
        /\ u.msg = t.msg /\ u.client = t.client /\ u.sent = t.sent /\ u.got = t.got
        /\ u.sorry = t.sorry /\ Becomes(i, u)
    BY <1>2, <1>4 DEF Tasks, Goes, t
  <2> HIDE DEF u
  <2>2. Coherent(u)
    BY <1>2, <1>4, <1>a, <2>1 DEF Coherent, Links
  <2>3. t.step \in Busy /\ ~t.sorry
    BY <1>2, <1>4 DEF Coherent
  <2>4. Beginning(u)
    BY <1>2, <2>1, <2>3 DEF Beginning
  <2>5. Excused(u)
    BY <1>2, <1>4, <2>1 DEF Excused
  <2> QED
    BY <1>1, <2>1, <2>2, <2>4, <2>5, TaskStep DEF t
<1>5. CASE RouteEnds(i)
  BY <1>4, <1>5 DEF RouteEnds, RouteError, At, t
<1>6. CASE SendRaises(i)
  BY <1>4, <1>6 DEF SendRaises, SendError, At, Via, t
<1>7. CASE SendChunk(i)
  <2> DEFINE up == clients[t.client] = "up"
             k  == t.sent + 1
             u  == [t EXCEPT !.sent = k, !.got = IF up THEN @ \cup {k} ELSE @,
                             !.step = IF k = t.chunks THEN "done" ELSE @]
  <2>1. /\ t.step = "sending" /\ t.sent \in Nat /\ t.chunks \in Nat /\ t.sent < t.chunks
        /\ clients[t.client] \in {"up", "down"} /\ t.got \subseteq 1 .. t.sent
        /\ Becomes(i, u)
    BY <1>2, <1>7, <1>a DEF SendChunk, At, Via, Coherent, t
  <2>2. /\ u \in Tasks /\ u.msg = t.msg /\ u.client = t.client /\ u.chunks = t.chunks
        /\ u.sent = k /\ u.sorry = t.sorry
        /\ u.got = (IF up THEN t.got \cup {k} ELSE t.got)
        /\ u.step = (IF k = t.chunks THEN "done" ELSE "sending")
    <3>1. k \in Nat \ {0} /\ (IF up THEN t.got \cup {k} ELSE t.got) \in SUBSET (Nat \ {0})
      BY <1>a, <2>1
    <3> HIDE DEF k, up
    <3> QED
      BY <1>2, <2>1, <3>1 DEF Tasks
  <2> HIDE DEF u
  <2>3. CASE up
    <3>1. t.got = 1 .. t.sent /\ u.got = 1 .. k
      BY <1>2, <2>1, <2>2, <2>3 DEF Coherent
    <3>2. ~t.sorry /\ ~u.sorry
      BY <1>2, <2>1, <2>2 DEF Coherent
    <3>3. Coherent(u)
      BY <1>2, <2>1, <2>2, <2>3, <3>1, <3>2 DEF Coherent
    <3>4. Beginning(u)
      BY <2>1, <3>1, <3>2 DEF Beginning
    <3>5. Excused(u)
      BY <2>1, <2>2, <3>1 DEF Excused
    <3> QED
      BY <1>1, <2>1, <2>2, <3>3, <3>4, <3>5, TaskStep DEF t
  <2>4. CASE ~up
    <3>1. clients[t.client] = "down" /\ u.got = t.got
      BY <2>1, <2>2, <2>4
    <3>2. Coherent(u) /\ Beginning(u) /\ Excused(u)
      BY <1>2, <2>1, <2>2, <3>1 DEF Coherent, Beginning, Excused
    <3> QED
      BY <1>1, <2>1, <2>2, <3>2, TaskStep DEF t
  <2> QED
    BY <2>3, <2>4
<1>8. CASE Apologize(i)
  <2> DEFINE u == [t EXCEPT !.step = "done", !.sorry = clients[t.client] = "up"]
  <2>1. /\ u \in Tasks /\ u.step = "done" /\ u.chunks = t.chunks
        /\ u.msg = t.msg /\ u.client = t.client /\ u.sent = t.sent /\ u.got = t.got
    BY <1>2 DEF Tasks
  <2>2. u.sorry = (clients[t.client] = "up")
    BY <1>2 DEF Tasks
  <2>3. t.step = "apologizing" /\ Becomes(i, u)
    BY <1>8 DEF Apologize, At, Via, t
  <2> HIDE DEF u
  <2>4. Coherent(u)
    BY <1>2, <2>1, <2>3 DEF Coherent
  <2>6. u.sorry => u.got = {}
    BY <1>2, <2>1, <2>2, <2>3 DEF Coherent
  <2>7. Beginning(u)
    BY <1>2, <2>1, <2>6 DEF Beginning
  <2>5. Excused(u)
    BY <1>2, <2>1, <2>2, <2>3 DEF Coherent, Excused, Links
  <2> QED
    BY <1>1, <2>1, <2>3, <2>4, <2>5, <2>7, TaskStep DEF t
<1> QED
  BY <1>3, <1>5, <1>6, <1>7, <1>8 DEF Handle

LEMMA Crashing ==
  ASSUME IInv, Crash
  PROVE  IInv'
<1> USE DEF Busy, Ended
<1> DEFINE n == Len(clients)
           off == [c \in 1 .. n |-> "closed"]
<1>1. /\ TypeOK /\ n \in Nat \ {0} /\ clients' = Append(off, "new")
      /\ phase' = "connecting" /\ delay' = DelayInitial /\ wired' = FALSE /\ seen' = {}
      /\ boots' = boots + 1 /\ boots' \in 0 .. MaxBoots /\ UNCHANGED <<expiries, drops>>
  BY BoundAssumption DEF IInv, TypeOK, Crash, Current
<1>2. /\ clients' \in Seq({"new", "up"} \cup Dead) /\ Len(clients') = n + 1
      /\ clients'[n + 1] = "new" /\ \A c \in 1 .. n : clients'[c] = "closed"
  <2>1. off \in Seq({"new", "up"} \cup Dead) /\ Len(off) = n
    BY <1>1 DEF Dead
  <2>2. \A c \in 1 .. n : off[c] = "closed"
    OBVIOUS
  <2> HIDE DEF off
  <2> QED
    BY <1>1, <2>1, <2>2
<1> HIDE DEF off
<1>3. /\ tasks' \in Seq(Tasks) /\ DOMAIN tasks' = DOMAIN tasks
      /\ \A i \in DOMAIN tasks :
           /\ tasks'[i].msg = tasks[i].msg /\ tasks'[i].client = tasks[i].client
           /\ tasks'[i].chunks = tasks[i].chunks /\ tasks'[i].sent = tasks[i].sent
           /\ tasks'[i].got = tasks[i].got /\ tasks'[i].sorry = tasks[i].sorry
           /\ tasks'[i].step \in Ended /\ (tasks'[i].step = "quiet" \/ tasks'[i].step = tasks[i].step)
  <2> DEFINE After(t) == IF t.step \in Busy THEN [t EXCEPT !.step = "quiet"] ELSE t
  <2>1. \A t \in Tasks :
          /\ After(t) \in Tasks
          /\ After(t).msg = t.msg /\ After(t).client = t.client /\ After(t).chunks = t.chunks
          /\ After(t).sent = t.sent /\ After(t).got = t.got /\ After(t).sorry = t.sorry
          /\ After(t).step \in Ended /\ (After(t).step = "quiet" \/ After(t).step = t.step)
    BY DEF Tasks
  <2>2. tasks \in Seq(Tasks) /\ tasks' = [i \in 1 .. Len(tasks) |-> After(tasks[i])]
    BY <1>1 DEF Crash, TypeOK
  <2> HIDE DEF After
  <2> QED
    BY <2>1, <2>2
<1>4. \A i \in DOMAIN tasks : tasks[i].client \in 1 .. n
  BY <1>1, TaskTypes
<1>5. TypeOK'
  <2>1. \A i \in DOMAIN tasks' : tasks'[i].client <= Len(clients')
    BY <1>1, <1>2, <1>3, <1>4
  <2>2. clients' # << >> /\ clients' \in Seq({"new", "up"} \cup Dead)
    BY <1>1, <1>2
  <2>3. expiries' \in [Messages -> 0 .. MaxExpiries] /\ drops' \in 0 .. MaxDrops
    BY <1>1 DEF TypeOK
  <2> QED
    BY <1>1, <1>3, <2>1, <2>2, <2>3, DelayAssumption DEF TypeOK, Current
<1>6. LoopInv'
  BY <1>1, <1>2 DEF LoopInv, Current, Dead
<1>7. TaskInv' /\ RepliesArePrefixes' /\ SilenceHasReason'
  <2> SUFFICES ASSUME NEW i \in DOMAIN tasks'
               PROVE  Coherent(tasks[i])' /\ Beginning(tasks[i])' /\ Excused(tasks[i])'
    BY DEF TaskInv, RepliesArePrefixes, SilenceHasReason
  <2>1. /\ i \in DOMAIN tasks /\ Coherent(tasks[i]) /\ Beginning(tasks[i])
        /\ clients'[tasks'[i].client] \in Dead
    BY <1>2, <1>3, <1>4 DEF IInv, TaskInv, RepliesArePrefixes, Dead
  <2>2. Beginning(tasks[i])' /\ Excused(tasks[i])'
    BY <1>3, <2>1 DEF Beginning, Excused
  <2>3. Coherent(tasks[i])'
    BY <1>3, <2>1 DEF Coherent, Dead
  <2> QED
    BY <2>2, <2>3
<1>8. SeenInv'
  <2> SUFFICES ASSUME NEW m \in Messages
               PROVE  Cardinality(Executions(m)') + (IF m \in seen' THEN 0 ELSE 1)
                        <= 1 + expiries'[m] + boots'
    BY DEF SeenInv
  <2>1. Executions(m)' = Executions(m)
    BY <1>3 DEF Executions
  <2>2. Cardinality(Executions(m)) \in Nat /\ expiries[m] \in Nat /\ boots \in Nat
    BY <1>1, ExecutionsFinite, BoundAssumption DEF TypeOK
  <2>3. Cardinality(Executions(m)) + (IF m \in seen THEN 0 ELSE 1) <= 1 + expiries[m] + boots
    BY DEF IInv, SeenInv
  <2> QED
    BY <1>1, <2>1, <2>2, <2>3
<1> QED
  BY <1>5, <1>6, <1>7, <1>8 DEF IInv

-----------------------------------------------------------------------------
LEMMA InvStep == IInv /\ [Next]_vars => IInv'
<1> SUFFICES ASSUME IInv, [Next]_vars PROVE IInv'
  OBVIOUS
<1>1. CASE Loop \/ Drop
  BY <1>1, LoopActions
<1>2. CASE \E m \in Messages : Accept(m) \/ Expire(m)
  BY <1>2, Accepting, Expiring
<1>3. CASE Trip
  BY <1>3, Tripping
<1>4. CASE Crash
  BY <1>4, Crashing
<1>5. CASE \E i \in 1 .. MaxTasks : Handle(i)
  BY <1>5, Handling
<1>6. CASE UNCHANGED vars
  BY <1>6 DEF vars, loop, counts, IInv, TypeOK, LoopInv, TaskInv, SeenInv, RepliesArePrefixes,
              SilenceHasReason, Coherent, Beginning, Excused, Executions, Current
<1> QED
  BY <1>1, <1>2, <1>3, <1>4, <1>5, <1>6 DEF Next, World

\* Connections, tasks and the deduplicator agree in every reachable state.
THEOREM Invariance == Spec => []IInv
BY Initially, InvStep, PTL DEF Spec

\* MessageDeduplicator: one execution for each window of its memory, however often and on
\* however many connections a message is delivered.
THEOREM ExecutedAtMostOnce == Spec => []AtMostOnce
<1>1. IInv => AtMostOnce
  <2> SUFFICES ASSUME IInv, NEW m \in Messages
               PROVE  Cardinality(Executions(m)) <= 1 + expiries[m] + boots
    BY DEF AtMostOnce
  <2>1. Cardinality(Executions(m)) \in Nat /\ expiries[m] \in Nat /\ boots \in Nat
    BY ExecutionsFinite, BoundAssumption DEF IInv, TypeOK
  <2> QED
    BY <2>1 DEF IInv, SeenInv
<1> QED
  BY <1>1, Invariance, PTL

\* handle_event and the client: a reply is never seen with a gap, nor with an error text.
THEOREM RepliesWhole == Spec => []RepliesArePrefixes
<1>1. IInv => RepliesArePrefixes
  BY DEF IInv
<1> QED
  BY <1>1, Invariance, PTL

\* handle_event: silence only after a lost connection, a crash, or by choice.
THEOREM NoUnexplainedSilence == Spec => []SilenceHasReason
<1>1. IInv => SilenceHasReason
  BY DEF IInv
<1> QED
  BY <1>1, Invariance, PTL

(***************************************************************************)
(* The delivery of Delivery                                                *)
(***************************************************************************)

\* What is left of the credit of a message; one that is not remembered has some.
LEMMA CreditLemma ==
  ASSUME IInv, NEW m \in Messages
  PROVE  /\ expiries[m] \in Nat /\ boots \in Nat /\ Cardinality(Executions(m)) \in Nat
         /\ m \notin seen => Credit[m] > 0
<1>1. expiries[m] \in Nat /\ boots \in Nat /\ Cardinality(Executions(m)) \in Nat
  BY ExecutionsFinite, BoundAssumption DEF IInv, TypeOK
<1>2. Cardinality(Executions(m)) + (IF m \in seen THEN 0 ELSE 1) <= 1 + expiries[m] + boots
  BY DEF IInv, SeenInv
<1> QED
  BY <1>1, <1>2 DEF Credit

\* A step of the loop takes their way back from some answers.
LEMMA LoopLoses ==
  ASSUME IInv, Loop \/ Drop
  PROVE  Promise!DeliveryNext
<1> DEFINE S == {i \in 1 .. Len(tasks) : clients'[tasks[i].client] \in Dead}
<1>1. Ages /\ UNCHANGED <<tasks, expiries, boots>>
  BY LoopMoves
<1>2. Credit' = Credit
  BY <1>1 DEF Credit, Executions
<1>3. tasks \in Seq(Tasks) /\ Len(tasks) \in Nat
  BY DEF IInv, TypeOK
<1>4. \A i \in 1 .. Len(tasks) : clients[tasks[i].client] \in Dead => clients'[tasks[i].client] \in Dead
  <2> SUFFICES ASSUME NEW i \in 1 .. Len(tasks), clients[tasks[i].client] \in Dead
               PROVE  clients'[tasks[i].client] \in Dead
    OBVIOUS
  <2>1. tasks[i].client \in 1 .. Len(clients)
    BY <1>3, TaskTypes DEF IInv
  <2> QED
    BY <1>1, <2>1 DEF Ages
<1>5. Len(Answers) = Len(tasks) /\ \A i \in 1 .. Len(tasks) : Answers[i] = Answer(tasks[i])
  BY <1>3 DEF Answers
<1>6. Answers' = [i \in 1 .. Len(tasks) |-> Answer(tasks[i])']
  BY <1>1 DEF Answers
<1>7. ASSUME NEW i \in 1 .. Len(tasks)
      PROVE  Answer(tasks[i])' = IF i \in S /\ Answers[i].status = "open"
                                 THEN [Answers[i] EXCEPT !.status = "lost"] ELSE Answers[i]
  <2>1. Answers[i] = Answer(tasks[i]) /\ tasks' = tasks
    BY <1>1, <1>5
  <2> HIDE DEF S
  <2>2. i \in S <=> clients'[tasks[i].client] \in Dead
    BY DEF S
  <2>3. CASE tasks[i].step \in Ended
    BY <2>1, <2>3 DEF Answer, Status
  <2>4. CASE tasks[i].step \notin Ended /\ clients[tasks[i].client] \in Dead
    BY <1>4, <2>1, <2>4 DEF Answer, Status
  <2>5. CASE tasks[i].step \notin Ended /\ clients[tasks[i].client] \notin Dead /\ i \notin S
    BY <2>1, <2>2, <2>5 DEF Answer, Status
  <2>6. CASE tasks[i].step \notin Ended /\ clients[tasks[i].client] \notin Dead /\ i \in S
    BY <2>1, <2>2, <2>6 DEF Answer, Status
  <2> QED
    BY <2>3, <2>4, <2>5, <2>6
<1> HIDE DEF S
<1>8. Promise!Lose(S)
  BY <1>2, <1>5, <1>6, <1>7 DEF Promise!Lose
<1>9. S \in SUBSET (1 .. Len(Answers))
  BY <1>5 DEF S
<1> QED
  BY <1>8, <1>9 DEF Promise!DeliveryNext

LEMMA AppendShape ==
  ASSUME NEW S, NEW s \in Seq(S), NEW e \in S
  PROVE  Append(s, e) = [i \in 1 .. Len(s) + 1 |-> IF i = Len(s) + 1 THEN e ELSE s[i]]
<1> DEFINE f == [i \in 1 .. Len(s) + 1 |-> IF i = Len(s) + 1 THEN e ELSE s[i]]
<1>1. Len(s) \in Nat /\ f \in Seq(S) /\ Len(f) = Len(s) + 1
  OBVIOUS
<1>2. Append(s, e) \in Seq(S) /\ Len(Append(s, e)) = Len(s) + 1
  OBVIOUS
<1>3. \A i \in 1 .. Len(s) + 1 : Append(s, e)[i] = f[i]
  OBVIOUS
<1> HIDE DEF f
<1>4. Append(s, e) = f
  BY <1>1, <1>2, <1>3
<1> QED
  BY <1>4 DEF f

\* A task that starts opens an answer.
LEMMA StartOpens ==
  ASSUME IInv, NEW m \in Messages \cup {Notice}, NEW s \in {"routing", "sending"}, NEW n \in Nat,
         Starts(Task(m, s, n)), UNCHANGED clients
  PROVE  \E st \in {"open", "lost"} : Answers' = Append(Answers, Promise!Answer(m, st, n))
<1> DEFINE t  == Task(m, s, n)
           st == IF clients[t.client] \in Dead THEN "lost" ELSE "open"
<1>1. Answer(t) = Promise!Answer(m, st, n)
  BY DEF Answer, Status, Promise!Answer, Task, Ended
<1> HIDE DEF t, st
<1>2. tasks \in Seq(Tasks) /\ tasks' = Append(tasks, t) /\ Len(tasks) \in Nat
  BY DEF IInv, TypeOK, Starts, t
<1>3. /\ Len(tasks') = Len(tasks) + 1
      /\ \A i \in 1 .. Len(tasks) + 1 : tasks'[i] = IF i = Len(tasks) + 1 THEN t ELSE tasks[i]
  BY <1>2
<1>4. \A u : Answer(u)' = Answer(u)
  BY DEF Answer, Status
<1>5. Answers' = [i \in 1 .. Len(tasks) + 1 |-> Answer(tasks'[i])]
  BY <1>3, <1>4 DEF Answers
<1>6. Answers' = [i \in 1 .. Len(tasks) + 1 |-> IF i = Len(tasks) + 1 THEN Answer(t) ELSE Answers[i]]
  BY <1>2, <1>3, <1>5 DEF Answers
<1>7. /\ Len(Answers) = Len(tasks)
      /\ Answers \in Seq({Answer(tasks[i]) : i \in 1 .. Len(tasks)} \cup {Answer(t)})
  BY <1>2 DEF Answers
<1>8. Append(Answers, Answer(t)) =
        [i \in 1 .. Len(tasks) + 1 |-> IF i = Len(tasks) + 1 THEN Answer(t) ELSE Answers[i]]
  BY <1>7, AppendShape
<1>9. st \in {"open", "lost"}
  BY DEF st
<1> QED
  BY <1>1, <1>6, <1>8, <1>9

\* A task that goes on turns its answer.
LEMMA TurnStep ==
  ASSUME IInv, NEW i \in DOMAIN tasks, NEW t, t.msg = tasks[i].msg,
         tasks' = [tasks EXCEPT ![i] = t], UNCHANGED <<clients, expiries, boots>>
  PROVE  Promise!Turns(i, Answer(t)) /\ i \in 1 .. Len(Answers) /\ Answers[i] = Answer(tasks[i])
<1>1. tasks \in Seq(Tasks)
  BY DEF IInv, TypeOK
<1>2. \A u : Answer(u)' = Answer(u)
  BY DEF Answer, Status
<1>3. /\ Len(tasks) \in Nat /\ DOMAIN tasks = 1 .. Len(tasks) /\ Len(tasks') = Len(tasks)
      /\ \A j \in 1 .. Len(tasks) : tasks'[j] = IF j = i THEN t ELSE tasks[j]
  BY <1>1
<1>4. Answers' = [j \in 1 .. Len(tasks) |-> Answer(tasks'[j])]
  BY <1>2, <1>3 DEF Answers
<1>5. /\ Answers = [j \in 1 .. Len(tasks) |-> Answer(tasks[j])]
      /\ Len(Answers) = Len(tasks)
  BY <1>3 DEF Answers
<1>6. Answers' = [Answers EXCEPT ![i] = Answer(t)]
  BY <1>3, <1>4, <1>5
<1>7. \A m \in Messages : Executions(m)' = Executions(m)
  BY <1>1, <1>3 DEF Executions
<1>8. Credit' = Credit
  BY <1>7 DEF Credit
<1> QED
  BY <1>3, <1>5, <1>6, <1>8 DEF Promise!Turns

\* Every step of a task is a step of its answer, or none.
LEMMA HandleTurns ==
  ASSUME IInv, NEW i, Handle(i)
  PROVE  Promise!DeliveryNext \/ UNCHANGED Promise!delivery
<1> USE DEF Dead, Busy, Ended
<1>1. i \in DOMAIN tasks
  BY DEF Handle, RouteReplies, RouteEnds, SendChunk, SendRaises, Apologize, At
<1> DEFINE t == tasks[i]
           a == Answer(t)
<1>2. /\ t \in Tasks /\ t.client \in 1 .. Len(clients) /\ clients[t.client] \in Links
      /\ Coherent(t)
  BY <1>1, TaskTypes DEF IInv, TypeOK, TaskInv, Links
<1>3. /\ t.msg \in Messages \cup {Notice} /\ t.client \in Nat \ {0} /\ t.chunks \in Nat
      /\ t.sent \in Nat /\ t.got \in SUBSET (Nat \ {0}) /\ t.sorry \in BOOLEAN
  BY <1>2 DEF Tasks
<1> HIDE DEF t
<1> DEFINE st == Status(t)
<1>4. a = [msg |-> t.msg, parts |-> t.chunks, shown |-> t.got, sorry |-> t.sorry, status |-> st]
  BY DEF Answer
<1>5. st = IF t.step \in Ended THEN "closed"
           ELSE IF clients[t.client] \in Dead THEN "lost" ELSE "open"
  BY DEF Status
<1> DEFINE shut == [a EXCEPT !.status = "closed"]
<1> HIDE DEF st
<1>a. shut = [msg |-> t.msg, parts |-> t.chunks, shown |-> t.got, sorry |-> t.sorry, status |-> "closed"]
  BY <1>4
<1> HIDE DEF a, shut
<1> DEFINE Moves(u) == tasks' = [tasks EXCEPT ![i] = u] /\ UNCHANGED <<clients, expiries, boots>>
<1>6. ASSUME NEW u, u.msg = t.msg, Moves(u)
      PROVE  /\ Answers' = [Answers EXCEPT ![i] = Answer(u)] /\ UNCHANGED Credit
             /\ i \in 1 .. Len(Answers) /\ Answers[i] = a
  BY <1>1, <1>6, TurnStep DEF Promise!Turns, t, a
<1> HIDE DEF Moves
<1>7. ASSUME NEW u, u.msg = t.msg, Moves(u), Answer(u) = a
      PROVE  UNCHANGED Promise!delivery
  <2>1. Answers' = [Answers EXCEPT ![i] = Answers[i]] /\ UNCHANGED Credit
    BY <1>6, <1>7
  <2>2. Answers' = Answers
    BY <2>1 DEF Answers
  <2> QED
    BY <2>1, <2>2 DEF Promise!delivery
<1>8. ASSUME NEW u, u.msg = t.msg, Moves(u), Answer(u) = shut,
             st = "lost" \/ (st = "open" /\ (t.chunks = 0 \/ t.msg = Notice))
      PROVE  Promise!DeliveryNext
  <2>1. /\ i \in 1 .. Len(Answers) /\ Answers[i] = a
        /\ Answers' = [Answers EXCEPT ![i] = Answer(u)] /\ UNCHANGED Credit
    BY <1>6, <1>8
  <2>2. Promise!Turns(i, [Answers[i] EXCEPT !.status = "closed"])
    BY <1>8, <2>1 DEF Promise!Turns, shut
  <2>3. a.status = st /\ a.parts = t.chunks /\ a.msg = t.msg
    BY <1>4
  <2>4. Promise!GiveUp(i)
    BY <1>8, <2>1, <2>2, <2>3 DEF Promise!GiveUp
  <2> QED
    BY <2>1, <2>4 DEF Promise!DeliveryNext
<1>9. ASSUME NEW u, Becomes(i, u) PROVE Moves(u)
  BY <1>9 DEF Becomes, loop, counts, Moves
<1>10. \A u : u.step \in Ended => Status(u) = "closed"
  BY DEF Status
<1>11. \A u : u.step \notin Ended /\ u.client = t.client /\ t.step \notin Ended => Status(u) = st
  BY <1>5 DEF Status
<1>12. CASE RouteReplies(i)
  <2> PICK n \in 1 .. MaxChunks : Becomes(i, [t EXCEPT !.step = "sending", !.chunks = n])
    BY <1>12 DEF RouteReplies, t
  <2> DEFINE u == [t EXCEPT !.step = "sending", !.chunks = n]
  <2>1. /\ u.msg = t.msg /\ u.client = t.client /\ u.chunks = n /\ u.step = "sending"
        /\ u.got = t.got /\ u.sorry = t.sorry /\ Moves(u)
    BY <1>2, <1>9 DEF Tasks
  <2> HIDE DEF u
  <2>2. t.step = "routing" /\ t.chunks = 0
    BY <1>2, <1>12 DEF RouteReplies, At, Coherent, t
  <2>3. Status(u) = st /\ st # "closed"
    BY <1>5, <1>11, <2>1, <2>2
  <2>4. Answer(u) = [a EXCEPT !.parts = n]
    BY <1>4, <2>1, <2>3 DEF Answer
  <2>5. Promise!Turns(i, [Answers[i] EXCEPT !.parts = n]) /\ i \in 1 .. Len(Answers) /\ Answers[i] = a
    BY <1>6, <2>1, <2>4 DEF Promise!Turns
  <2>6. Promise!Compose(i)
    BY <1>4, <2>2, <2>3, <2>5 DEF Promise!Compose
  <2> QED
    BY <2>5, <2>6 DEF Promise!DeliveryNext
<1>13. ASSUME NEW s \in {"quiet", "done", "apologizing"}, Goes(i, s), t.step \in Busy,
              s # "apologizing" => st = "lost" \/ t.chunks = 0 \/ t.msg = Notice
       PROVE  Promise!DeliveryNext \/ UNCHANGED Promise!delivery
  <2> DEFINE u == [t EXCEPT !.step = s]
  <2>1. Becomes(i, u)
    BY <1>13 DEF Goes, t
  <2>2. /\ u.msg = t.msg /\ u.client = t.client /\ u.chunks = t.chunks /\ u.step = s
        /\ u.got = t.got /\ u.sorry = t.sorry
    BY <1>2 DEF Tasks
  <2>3. Moves(u)
    BY <1>9, <2>1
  <2> HIDE DEF u
  <2>4. st \in {"open", "lost"}
    BY <1>5, <1>13
  <2>5. CASE s = "apologizing"
    <3>1. Status(u) = st
      BY <1>11, <1>13, <2>2, <2>5
    <3>2. Answer(u) = a
      BY <1>4, <2>2, <3>1 DEF Answer
    <3> QED
      BY <1>7, <2>2, <2>3, <3>2
  <2>6. CASE s # "apologizing"
    <3>1. Status(u) = "closed"
      BY <1>10, <1>13, <2>2, <2>6
    <3>2. Answer(u) = shut
      BY <1>a, <2>2, <3>1 DEF Answer
    <3>3. st = "lost" \/ (st = "open" /\ (t.chunks = 0 \/ t.msg = Notice))
      BY <1>13, <2>4, <2>6
    <3> QED
      BY <1>8, <2>2, <2>3, <3>2, <3>3, Zenon
  <2> QED
    BY <2>5, <2>6
<1>14. CASE RouteEnds(i)
  <2>1. t.step = "routing" /\ t.chunks = 0 /\ (Goes(i, "quiet") \/ Goes(i, "apologizing"))
    BY <1>2, <1>14 DEF RouteEnds, RouteError, At, Coherent, t
  <2> QED
    BY <1>13, <2>1
<1>15. CASE SendRaises(i)
  <2>1. t.step = "sending" /\ clients[t.client] # "up" /\ Goes(i, SendError(i))
    BY <1>15 DEF SendRaises, At, Via, t
  <2>2. CASE t.msg = Notice
    BY <1>13, <2>1, <2>2 DEF SendError, t
  <2>3. CASE t.msg # Notice
    BY <1>13, <2>1, <2>3 DEF SendError, t
  <2> QED
    BY <2>2, <2>3
<1>16. CASE SendChunk(i)
  <2> DEFINE up == clients[t.client] = "up"
             k  == t.sent + 1
             u  == [t EXCEPT !.sent = k, !.got = IF up THEN @ \cup {k} ELSE @,
                             !.step = IF k = t.chunks THEN "done" ELSE @]
  <2>1. /\ t.step = "sending" /\ clients[t.client] \in {"up", "down"} /\ Becomes(i, u)
        /\ t.sent < t.chunks
    BY <1>2, <1>16 DEF SendChunk, At, Via, Coherent, t
  <2>2. /\ u.msg = t.msg /\ u.client = t.client /\ u.chunks = t.chunks /\ u.sorry = t.sorry
        /\ u.got = (IF up THEN t.got \cup {k} ELSE t.got)
        /\ u.step = (IF k = t.chunks THEN "done" ELSE t.step)
    <3> HIDE DEF k, up
    <3> QED
      BY <1>2 DEF Tasks
  <2>3. Moves(u)
    BY <1>9, <2>1
  <2> HIDE DEF u
  <2>4. Status(u) = IF k = t.chunks THEN "closed" ELSE st
    <3>1. CASE k = t.chunks
      BY <1>10, <2>2, <3>1
    <3>2. CASE k # t.chunks
      BY <1>11, <2>1, <2>2, <3>2
    <3> QED
      BY <3>1, <3>2
  <2>5. CASE up
    <3>1. t.got = 1 .. k - 1 /\ t.got \cup {k} = 1 .. k /\ k \in 1 .. t.chunks
      BY <1>2, <1>3, <2>1, <2>5 DEF Coherent
    <3>2. st = "open"
      BY <1>5, <2>1, <2>5
    <3> HIDE DEF k
    <3>3. Answer(u) = [a EXCEPT !.shown = 1 .. k, !.status = IF k = t.chunks THEN "closed" ELSE st]
      <4>1. u.got = 1 .. k
        BY <2>2, <2>5, <3>1
      <4> QED
        <5> DEFINE y == IF k = t.chunks THEN "closed" ELSE st
                   b == [a EXCEPT !.shown = 1 .. k]
        <5>1. b = [msg |-> t.msg, parts |-> t.chunks, shown |-> 1 .. k, sorry |-> t.sorry, status |-> st]
          BY <1>4
        <5> HIDE DEF y
        <5>2. [a EXCEPT !.shown = 1 .. k, !.status = y] = [b EXCEPT !.status = y]
          OBVIOUS
        <5> HIDE DEF b
        <5>3. [b EXCEPT !.status = y]
                = [msg |-> t.msg, parts |-> t.chunks, shown |-> 1 .. k, sorry |-> t.sorry, status |-> y]
          BY <5>1
        <5>4. Status(u) = y
          BY <2>4 DEF y
        <5>5. Answer(u) = [b EXCEPT !.status = y]
          BY <2>2, <4>1, <5>3, <5>4 DEF Answer
        <5> QED
          BY <5>2, <5>5 DEF y
    <3>4. i \in 1 .. Len(Answers) /\ Answers[i] = a /\ a.parts = t.chunks /\ a.status = st /\ a.shown = t.got
      BY <1>4, <1>6, <2>2, <2>3
    <3>5. Promise!Turns(i, [Answers[i] EXCEPT !.shown  = 1 .. k,
                                              !.status = IF k = Answers[i].parts THEN "closed" ELSE @])
      <4>1. Answers' = [Answers EXCEPT ![i] = Answer(u)] /\ UNCHANGED Credit
        BY <1>6, <2>2, <2>3
      <4>2. Answer(u) = [Answers[i] EXCEPT !.shown  = 1 .. k,
                                           !.status = IF k = Answers[i].parts THEN "closed" ELSE @]
        BY <3>3, <3>4
      <4> QED
        BY <4>1, <4>2 DEF Promise!Turns
    <3>6. Promise!Show(i)
      BY <3>1, <3>2, <3>4, <3>5 DEF Promise!Show
    <3> QED
      BY <3>4, <3>6 DEF Promise!DeliveryNext
  <2>6. CASE ~up
    <3>1. st = "lost"
      BY <1>5, <2>1, <2>6
    <3> HIDE DEF k
    <3>2. CASE k = t.chunks
      <4>1. Answer(u) = shut
        BY <1>a, <2>2, <2>4, <2>6, <3>2 DEF Answer
      <4> QED
        BY <1>8, <2>2, <2>3, <3>1, <4>1, Zenon
    <3>3. CASE k # t.chunks
      <4>1. Answer(u) = a
        BY <1>4, <2>2, <2>4, <2>6, <3>3 DEF Answer
      <4> QED
        BY <1>7, <2>2, <2>3, <4>1
    <3> QED
      BY <3>2, <3>3
  <2> QED
    BY <2>5, <2>6
<1>17. CASE Apologize(i)
  <2> DEFINE b == clients[t.client] = "up"
             u == [t EXCEPT !.step = "done", !.sorry = b]
  <2>1. t.step = "apologizing" /\ Becomes(i, u)
    BY <1>17 DEF Apologize, At, Via, t
  <2>2. /\ u.msg = t.msg /\ u.client = t.client /\ u.chunks = t.chunks /\ u.step = "done"
        /\ u.got = t.got /\ u.sorry = b
    <3> HIDE DEF b
    <3> QED
      BY <1>2 DEF Tasks
  <2>3. Moves(u)
    BY <1>9, <2>1
  <2>4. ~t.sorry /\ (t.got # {} => clients[t.client] \in Dead)
    BY <1>2, <2>1 DEF Coherent
  <2> HIDE DEF u
  <2>5. Status(u) = "closed"
    BY <1>10, <2>2
  <2>6. CASE b
    <3>1. st = "open" /\ t.got = {}
      BY <1>5, <2>1, <2>4, <2>6
    <3>2. Answer(u) = [a EXCEPT !.sorry = TRUE, !.status = "closed"]
      <4>1. u.sorry = TRUE
        BY <2>2, <2>6
      <4> QED
        <5> DEFINE yes == TRUE
                   c == [a EXCEPT !.sorry = yes]
        <5>a. u.sorry = yes
          BY <4>1
        <5> HIDE DEF yes
        <5>1. c = [msg |-> t.msg, parts |-> t.chunks, shown |-> t.got, sorry |-> yes, status |-> st]
          BY <1>4
        <5>2. [a EXCEPT !.sorry = yes, !.status = "closed"] = [c EXCEPT !.status = "closed"]
          OBVIOUS
        <5> HIDE DEF c
        <5>3. [c EXCEPT !.status = "closed"]
                = [msg |-> t.msg, parts |-> t.chunks, shown |-> t.got, sorry |-> yes, status |-> "closed"]
          BY <5>1
        <5>4. Answer(u) = [c EXCEPT !.status = "closed"]
          BY <2>2, <2>5, <5>a, <5>3 DEF Answer
        <5> QED
          BY <5>2, <5>4 DEF yes
    <3>3. i \in 1 .. Len(Answers) /\ Answers[i] = a /\ a.status = st /\ a.shown = t.got
      BY <1>4, <1>6, <2>2, <2>3
    <3>4. Promise!Turns(i, [Answers[i] EXCEPT !.sorry = TRUE, !.status = "closed"])
      <4>1. Answers' = [Answers EXCEPT ![i] = Answer(u)] /\ UNCHANGED Credit
        BY <1>6, <2>2, <2>3
      <4>2. Answer(u) = [Answers[i] EXCEPT !.sorry = TRUE, !.status = "closed"]
        BY <3>2, <3>3
      <4> QED
        BY <4>1, <4>2 DEF Promise!Turns
    <3>5. Promise!Apology(i)
      BY <3>1, <3>3, <3>4 DEF Promise!Apology
    <3> QED
      BY <3>3, <3>5 DEF Promise!DeliveryNext
  <2>7. CASE ~b
    <3>1. Answer(u) = shut
      <4>1. u.sorry = t.sorry
        BY <1>3, <2>2, <2>4, <2>7
      <4> QED
        BY <1>a, <2>2, <2>5, <4>1 DEF Answer
    <3>2. st = "lost" \/ (st = "open" /\ (t.chunks = 0 \/ t.msg = Notice))
      BY <1>2, <1>5, <2>1, <2>7 DEF Coherent, Links
    <3> QED
      BY <1>8, <2>2, <2>3, <3>1, <3>2, Zenon
  <2> QED
    BY <2>6, <2>7
<1> QED
  BY <1>12, <1>14, <1>15, <1>16, <1>17 DEF Handle

LEMMA CrashRestarts ==
  ASSUME IInv, Crash
  PROVE  Promise!Restart
<1> USE DEF Busy, Ended
<1>1. /\ tasks \in Seq(Tasks) /\ Len(tasks) \in Nat
      /\ boots \in Nat /\ boots' = boots + 1 /\ expiries' = expiries
      /\ tasks' = [i \in 1 .. Len(tasks) |->
                     IF tasks[i].step \in Busy THEN [tasks[i] EXCEPT !.step = "quiet"] ELSE tasks[i]]
  BY BoundAssumption DEF IInv, TypeOK, Crash
<1>2. \A m \in Messages : Executions(m)' = Executions(m)
  <2>1. DOMAIN tasks' = DOMAIN tasks /\ \A i \in DOMAIN tasks : tasks'[i].msg = tasks[i].msg
    <3>1. \A t \in Tasks : [t EXCEPT !.step = "quiet"].msg = t.msg
      BY DEF Tasks
    <3> QED
      BY <1>1, <3>1
  <2> QED
    BY <2>1 DEF Executions
<1>3. \A m \in Messages : Credit'[m] = Credit[m] + 1
  <2> SUFFICES ASSUME NEW m \in Messages PROVE Credit'[m] = Credit[m] + 1
    OBVIOUS
  <2>1. Credit'[m] = (1 + expiries[m] + (boots + 1)) - Cardinality(Executions(m))
    BY <1>1, <1>2 DEF Credit
  <2> QED
    BY <2>1, CreditLemma DEF Credit
<1>4. Credit' = [m \in Messages |-> Credit[m] + 1]
  BY <1>3 DEF Credit
<1>5. \A i \in 1 .. Len(tasks) : Answer(tasks[i])' = [Answer(tasks[i]) EXCEPT !.status = "closed"]
  <2> SUFFICES ASSUME NEW i \in 1 .. Len(tasks)
               PROVE  Answer(tasks[i])' = [Answer(tasks[i]) EXCEPT !.status = "closed"]
    OBVIOUS
  <2>1. tasks[i] \in Tasks
    BY <1>1
  <2>2. /\ tasks'[i].msg = tasks[i].msg /\ tasks'[i].chunks = tasks[i].chunks
        /\ tasks'[i].got = tasks[i].got /\ tasks'[i].sorry = tasks[i].sorry
        /\ tasks'[i].step \in Ended
    BY <1>1, <2>1 DEF Tasks
  <2>a. Status(tasks[i])' = "closed"
    BY <2>2 DEF Status
  <2>3. Answer(tasks[i])' = [msg |-> tasks[i].msg, parts |-> tasks[i].chunks, shown |-> tasks[i].got,
                             sorry |-> tasks[i].sorry, status |-> "closed"]
    BY <2>2, <2>a DEF Answer
  <2>4. [Answer(tasks[i]) EXCEPT !.status = "closed"]
          = [msg |-> tasks[i].msg, parts |-> tasks[i].chunks, shown |-> tasks[i].got,
             sorry |-> tasks[i].sorry, status |-> "closed"]
    BY DEF Answer
  <2> QED
    BY <2>3, <2>4
<1>6. Len(tasks') = Len(tasks)
  BY <1>1
<1>7. Answers' = [i \in 1 .. Len(tasks) |-> [Answer(tasks[i]) EXCEPT !.status = "closed"]]
  <2>1. Answers' = [i \in 1 .. Len(tasks) |-> Answer(tasks[i])']
    BY <1>6 DEF Answers
  <2> QED
    BY <1>5, <2>1
<1>8. Len(Answers) = Len(tasks) /\ \A i \in 1 .. Len(tasks) : Answers[i] = Answer(tasks[i])
  BY <1>1 DEF Answers
<1> QED
  BY <1>4, <1>7, <1>8 DEF Promise!Restart

\* Every step of the bot is a step of the delivery, or none.
LEMMA DeliveryStep == IInv /\ IInv' /\ [Next]_vars => [Promise!DeliveryNext]_(Promise!delivery)
<1> SUFFICES ASSUME IInv, IInv', [Next]_vars
             PROVE  Promise!DeliveryNext \/ UNCHANGED Promise!delivery
  OBVIOUS
<1>1. CASE Loop \/ Drop
  BY <1>1, LoopLoses
<1>2. ASSUME NEW m \in Messages, Accept(m) PROVE Promise!DeliveryNext
  <2>1. Starts(Task(m, "routing", 0)) /\ UNCHANGED <<clients, expiries, boots>> /\ m \notin seen
    BY <1>2 DEF Accept, loop, counts
  <2>2. \E st \in {"open", "lost"} : Answers' = Append(Answers, Promise!Answer(m, st, 0))
    BY <2>1, StartOpens
  <2>3. \A q \in Messages : Cardinality(Executions(q)')
                              = Cardinality(Executions(q)) + (IF q = m THEN 1 ELSE 0)
    BY <1>2, AcceptCounts DEF IInv
  <2>4. \A q \in Messages : Credit'[q] = IF q = m THEN Credit[m] - 1 ELSE Credit[q]
    <3> SUFFICES ASSUME NEW q \in Messages
                 PROVE  Credit'[q] = IF q = m THEN Credit[m] - 1 ELSE Credit[q]
      OBVIOUS
    <3>1. Credit'[q] = (1 + expiries[q] + boots) - Cardinality(Executions(q)')
      BY <2>1 DEF Credit
    <3> QED
      BY <2>3, <3>1, CreditLemma DEF Credit
  <2>5. Credit' = [Credit EXCEPT ![m] = @ - 1]
    BY <2>4 DEF Credit
  <2>6. Credit[m] > 0
    BY <2>1, CreditLemma
  <2>7. Promise!Take(m)
    BY <2>2, <2>5, <2>6 DEF Promise!Take
  <2> QED
    BY <2>7 DEF Promise!DeliveryNext
<1>3. ASSUME NEW m \in Messages, Expire(m) PROVE Promise!DeliveryNext
  <2>1. UNCHANGED <<clients, tasks, boots>> /\ expiries' = [expiries EXCEPT ![m] = @ + 1]
    BY <1>3 DEF Expire, loop
  <2>2. Answers' = Answers
    BY <2>1 DEF Answers, Answer, Status
  <2>3. \A q \in Messages : Credit'[q] = IF q = m THEN Credit[m] + 1 ELSE Credit[q]
    <3> SUFFICES ASSUME NEW q \in Messages
                 PROVE  Credit'[q] = IF q = m THEN Credit[m] + 1 ELSE Credit[q]
      OBVIOUS
    <3>1. /\ Credit'[q] = (1 + expiries'[q] + boots) - Cardinality(Executions(q))
          /\ expiries'[q] = IF q = m THEN expiries[q] + 1 ELSE expiries[q]
      BY <2>1 DEF Credit, Executions, IInv, TypeOK
    <3> QED
      BY <3>1, CreditLemma DEF Credit
  <2>4. Credit' = [Credit EXCEPT ![m] = @ + 1]
    BY <2>3 DEF Credit
  <2>5. Promise!Forget(m)
    BY <2>2, <2>4 DEF Promise!Forget
  <2> QED
    BY <2>5 DEF Promise!DeliveryNext
<1>4. CASE Trip
  <2>1. Starts(Task(Notice, "sending", 1)) /\ UNCHANGED <<clients, expiries, boots>>
    BY <1>4 DEF Trip, loop, counts
  <2>2. \E st \in {"open", "lost"} : Answers' = Append(Answers, Promise!Answer(Notice, st, 1))
    BY <2>1, StartOpens
  <2>3. \A q \in Messages : Executions(q)' = Executions(q)
    BY <2>1, NoticeAssumption DEF IInv, Starts, Task, TypeOK, Executions
  <2>4. Credit' = Credit
    BY <2>1, <2>3 DEF Credit
  <2>5. Promise!Alert
    BY <2>2, <2>4 DEF Promise!Alert
  <2> QED
    BY <2>5 DEF Promise!DeliveryNext
<1>5. CASE Crash
  BY <1>5, CrashRestarts DEF Promise!DeliveryNext
<1>6. CASE \E i \in 1 .. MaxTasks : Handle(i)
  BY <1>6, HandleTurns
<1>7. CASE UNCHANGED vars
  BY <1>7 DEF vars, loop, counts, Promise!delivery, Answers, Answer, Status, Credit, Executions
<1> QED
  BY <1>1, <1>2, <1>3, <1>4, <1>5, <1>6, <1>7 DEF Next, World

LEMMA DeliveryInitially == Init => Promise!DeliveryInit
<1> SUFFICES ASSUME Init PROVE Promise!DeliveryInit
  OBVIOUS
<1>1. Answers = << >>
  BY DEF Init, Answers
<1>2. \A m \in Messages : Executions(m) = {}
  BY DEF Init, Executions
<1>3. \A m \in Messages : Credit[m] = 1
  BY <1>2, FS_EmptySet DEF Init, Credit
<1>4. Credit = [m \in Messages |-> 1]
  BY <1>3 DEF Credit
<1> QED
  BY <1>1, <1>4 DEF Promise!DeliveryInit

\* bot.py, its client and the deduplicator implement Delivery: whatever reconnects, crashes
\* and redeliveries happen, an answer is shown part by part from the first, is an apology
\* only where nothing was shown, and is never touched again once it is closed.
THEOREM DeliveryRefinement == Spec => ImplementsDelivery
<1>1. Spec => Promise!DeliverySpec
  BY DeliveryInitially, DeliveryStep, Invariance, PTL DEF Spec, Promise!DeliverySpec
<1> QED
  BY <1>1 DEF ImplementsDelivery
=============================================================================
