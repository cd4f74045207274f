------------------------------- MODULE Dispatch -------------------------------
(***************************************************************************)
(* How messages reach the commands of agent-qq and how replies go back:    *)
(* the main loop of bot.py with its OneBot client, the deduplicator, and   *)
(* one coroutine (task) for every event.                                   *)
(*                                                                         *)
(* The loop makes a new client for every connection.  A task keeps the     *)
(* client its event came from, while the loop goes on to the next one:     *)
(*                                                                         *)
(*   routing --> sending ------------> done     the reply went out         *)
(*      |           |                   ^                                  *)
(*      +-----------+-> apologizing ----+       an exception               *)
(*      +-> quiet                               no reply, /stop, a crash   *)
(*                                                                         *)
(* What a command does is in PlanMachine and TaskTracking; here it only    *)
(* ends.  A send over a connection that is gone raises, or is lost as long *)
(* as nobody has noticed.                                                  *)
(***************************************************************************)
EXTENDS Naturals, Sequences, FiniteSets

CONSTANTS
  Messages,      \* user messages, each with its id
  Notice,        \* what a task of the breaker sends
  MaxTasks,      \* bound on tasks
  MaxChunks,     \* bound on the chunks of a reply
  DelayInitial,  \* settings.reconnect_initial_seconds
  DelayMax,      \* settings.reconnect_max_seconds
  MaxDrops,      \* bound on connections that break or cannot be made
  MaxExpiries,   \* bound on ids that the deduplicator forgets
  MaxBoots       \* bound on crashes of the bot, each followed by a restart

ASSUME NoticeAssumption == Notice \notin Messages
ASSUME DelayAssumption  == DelayInitial \in Nat /\ DelayMax \in Nat
ASSUME BoundAssumption  == /\ MaxTasks \in Nat /\ MaxChunks \in Nat /\ MaxDrops \in Nat
                           /\ MaxExpiries \in Nat /\ MaxBoots \in Nat

VARIABLES
  phase,     \* what the main loop awaits
  clients,   \* the connection of each OneBotClient, the current one last
  delay,     \* reconnect_delay
  wired,     \* whether breaker._notify is set
  seen,      \* MessageDeduplicator._seen
  tasks,     \* the tasks so far
  expiries,  \* how often the id of each message was forgotten
  drops, boots

loop   == <<phase, clients, delay, wired>>
counts == <<expiries, drops, boots>>
vars   == <<loop, seen, tasks, counts>>

Dead  == {"down", "closed"}
Busy  == {"routing", "sending", "apologizing"}
Ended == {"done", "quiet"}

Tasks == [msg : Messages \cup {Notice}, client : Nat \ {0}, step : Busy \cup Ended,
          chunks : Nat, sent : Nat, got : SUBSET (Nat \ {0}), sorry : BOOLEAN]

Current == Len(clients)
Link(c) == clients' = [clients EXCEPT ![Current] = c]

Init ==
  /\ phase = "connecting" /\ clients = <<"new">> /\ delay = DelayInitial /\ wired = FALSE
  /\ seen = {} /\ tasks = << >>
  /\ expiries = [m \in Messages |-> 0] /\ drops = 0 /\ boots = 0

-----------------------------------------------------------------------------
(* The main loop.                                                          *)

\* The breaker is given a callback that sends through whatever client is current.
Connect ==
  /\ phase = "connecting"
  /\ phase' = "listening"
  /\ Link("up")
  /\ delay' = DelayInitial
  /\ wired' = TRUE
  /\ UNCHANGED <<seen, tasks, counts>>

\* Mutation: a client that failed is not closed
Close_Not == UNCHANGED clients
Close == Link("closed")

\* The except clause: close, then sleep.
Pause == phase' = "pausing" /\ Close /\ UNCHANGED <<delay, wired, seen, tasks>>

ConnectFails ==
  /\ phase = "connecting"
  /\ drops < MaxDrops /\ drops' = drops + 1
  /\ Pause
  /\ UNCHANGED <<expiries, boots>>

NextClient == phase' = "connecting" /\ clients' = Append(clients, "new")

Resume ==
  /\ phase = "pausing"
  /\ NextClient
  /\ delay' = IF 2 * delay < DelayMax THEN 2 * delay ELSE DelayMax
  /\ UNCHANGED <<wired, seen, tasks, counts>>

\* The connection breaks; events that have arrived can still be read.
Drop ==
  /\ phase = "listening" /\ clients[Current] = "up"
  /\ drops < MaxDrops /\ drops' = drops + 1
  /\ Link("down")
  /\ UNCHANGED <<phase, delay, wired, seen, tasks, expiries, boots>>

\* The iteration over events ends with an error, ...
ListenFails ==
  /\ phase = "listening" /\ clients[Current] = "down"
  /\ Pause
  /\ UNCHANGED counts

\* ... or, when the other side has closed, without one: the next client follows at once,
\* and this one is never closed.
\* Mutation: the loop ends with the events
EventsEnd_Stops == phase' = "stopped" /\ UNCHANGED clients
EventsEnd == NextClient

ListenEnds ==
  /\ phase = "listening" /\ clients[Current] = "down"
  /\ EventsEnd
  /\ UNCHANGED <<delay, wired, seen, tasks, counts>>

-----------------------------------------------------------------------------
(* An event, up to the first await of its task.                            *)

Task(m, s, n) == [msg |-> m, client |-> Current, step |-> s, chunks |-> n,
                  sent |-> 0, got |-> {}, sorry |-> FALSE]

Starts(t) == Len(tasks) < MaxTasks /\ tasks' = Append(tasks, t)

\* Mutation: the key is looked up but not kept
Remembering_Not(m) == seen
Remembering(m) == seen \cup {m}

\* handle_event with a message that was not seen before; one that was is dropped.
Accept(m) ==
  /\ phase = "listening"
  /\ m \notin seen
  /\ seen' = Remembering(m)
  /\ Starts(Task(m, "routing", 0))
  /\ UNCHANGED <<loop, counts>>

\* The time to live of a key is over.
Expire(m) ==
  /\ m \in seen
  /\ expiries[m] < MaxExpiries /\ expiries' = [expiries EXCEPT ![m] = @ + 1]
  /\ seen' = seen \ {m}
  /\ UNCHANGED <<loop, tasks, drops, boots>>

\* The breaker trips: its callback starts a task that sends one chunk.
Trip ==
  /\ wired
  /\ Starts(Task(Notice, "sending", 1))
  /\ UNCHANGED <<loop, seen, counts>>

-----------------------------------------------------------------------------
(* The rest of handle_event, for task i.                                   *)

At(i, s) == i \in DOMAIN tasks /\ tasks[i].step = s
Becomes(i, t) == tasks' = [tasks EXCEPT ![i] = t] /\ UNCHANGED <<loop, seen, counts>>
Goes(i, s) == Becomes(i, [tasks[i] EXCEPT !.step = s])

\* Mutation: a reply goes over whatever connection is current
Via_Current(i) == Current
Via(i) == tasks[i].client

RouteReplies(i) ==
  /\ At(i, "routing")
  /\ \E n \in 1 .. MaxChunks : Becomes(i, [tasks[i] EXCEPT !.step = "sending", !.chunks = n])

\* Mutation: an error in a command is only logged
RouteError_Logged == "done"
RouteError == "apologizing"

\* No reply or a cancellation by /stop, or an exception.
RouteEnds(i) ==
  /\ At(i, "routing")
  /\ Goes(i, "quiet") \/ Goes(i, RouteError)

\* send_private_msg for the next chunk; got are the chunks that arrive.
SendChunk(i) ==
  /\ At(i, "sending")
  /\ clients[Via(i)] \in {"up", "down"}
  /\ LET t == tasks[i]  k == t.sent + 1 IN
       Becomes(i, [t EXCEPT !.sent = k,
                            !.got  = IF clients[Via(i)] = "up" THEN @ \cup {k} ELSE @,
                            !.step = IF k = t.chunks THEN "done" ELSE @])

\* Mutation: the reply is sent again from where it stopped
SendError_Retried(i) == "sending"
SendError(i) == IF tasks[i].msg = Notice THEN "done" ELSE "apologizing"

SendRaises(i) ==
  /\ At(i, "sending")
  /\ clients[Via(i)] # "up"
  /\ Goes(i, SendError(i))

\* The text about an error, over the same client; nothing catches a second exception.
Apologize(i) ==
  /\ At(i, "apologizing")
  /\ Becomes(i, [tasks[i] EXCEPT !.step = "done", !.sorry = clients[Via(i)] = "up"])

-----------------------------------------------------------------------------
\* Every task dies, and what the deduplicator knew is gone.
Crash ==
  /\ boots < MaxBoots /\ boots' = boots + 1
  /\ phase' = "connecting"
  /\ clients' = Append([c \in 1 .. Current |-> "closed"], "new")
  /\ delay' = DelayInitial /\ wired' = FALSE
  /\ seen' = {}
  /\ tasks' = [i \in 1 .. Len(tasks) |->
                 IF tasks[i].step \in Busy THEN [tasks[i] EXCEPT !.step = "quiet"] ELSE tasks[i]]
  /\ UNCHANGED <<expiries, drops>>

-----------------------------------------------------------------------------
Loop      == Connect \/ ConnectFails \/ Resume \/ ListenFails \/ ListenEnds
Handle(i) == RouteReplies(i) \/ RouteEnds(i) \/ SendChunk(i) \/ SendRaises(i) \/ Apologize(i)
World     == Drop \/ Trip \/ Crash \/ (\E m \in Messages : Accept(m) \/ Expire(m))

Next == Loop \/ World \/ (\E i \in 1 .. MaxTasks : Handle(i))

Spec == Init /\ [][Next]_vars

(* The event loop resumes every coroutine; a command ends, by the timeout  *)
(* of its CLI if by nothing else; a broken connection is noticed by the    *)
(* heartbeat of the WebSocket.                                             *)
FairSpec == Spec /\ WF_vars(Loop) /\ \A i \in 1 .. MaxTasks : WF_vars(Handle(i))

-----------------------------------------------------------------------------
\* Each variable keeps its type.
TypeOK ==
  /\ phase \in {"connecting", "listening", "pausing"}
  /\ clients \in Seq({"new", "up"} \cup Dead) /\ clients # << >>
  /\ delay \in Nat /\ wired \in BOOLEAN
  /\ seen \subseteq Messages
  /\ tasks \in Seq(Tasks) /\ \A i \in DOMAIN tasks : tasks[i].client <= Current
  /\ expiries \in [Messages -> 0 .. MaxExpiries]
  /\ drops \in 0 .. MaxDrops /\ boots \in 0 .. MaxBoots

Executions(m) == {i \in DOMAIN tasks : tasks[i].msg = m}

\* A message that is delivered again, on the same connection or on a later one, while it
\* is executed or after, is executed once; the time to live of its key and a restart
\* give one execution more each (MessageDeduplicator).
AtMostOnce ==
  \A m \in Messages : Cardinality(Executions(m)) <= 1 + expiries[m] + boots

\* The user gets the beginning of a reply, never one with a gap, whatever reconnects
\* happen while it is sent; and who gets a part of the reply gets no error text
\* (handle_event).
Beginning(t) == /\ \A k \in t.got : 1 .. k \subseteq t.got
                /\ t.sorry => t.got = {}
RepliesArePrefixes == \A i \in DOMAIN tasks : Beginning(tasks[i])

\* An accepted message that ends in neither a complete reply nor an error text: its
\* command had no reply or was stopped, or the bot crashed, or the connection it came
\* from was lost.  While that connection stays, no message goes unanswered.
Excused(t) ==
  t.msg # Notice /\ t.step = "done"
    => \/ t.got = 1 .. t.chunks /\ t.chunks > 0
       \/ t.sorry
       \/ clients[t.client] \in Dead
SilenceHasReason == \A i \in DOMAIN tasks : Excused(tasks[i])

\* Only the current connection can be open, and it is when the loop listens.
LoopInv ==
  /\ \A c \in 1 .. Current - 1 : clients[c] \in Dead
  /\ phase = "connecting" => clients[Current] = "new"
  /\ phase = "listening" => clients[Current] \in {"up", "down"}
  /\ phase = "pausing" => clients[Current] = "closed"

\* What arrived of a task's reply is what it has sent, but for a dead connection.
Coherent(t) ==
  /\ t.sent <= t.chunks
  /\ t.got \subseteq 1 .. t.sent
  /\ clients[t.client] \notin Dead => t.got = 1 .. t.sent
  /\ clients[t.client] = "new" => t.msg = Notice
  /\ t.step = "routing" => t.chunks = 0
  /\ t.step = "sending" => t.sent < t.chunks
  /\ t.step \in Busy => ~t.sorry
  /\ t.step = "apologizing" /\ t.got # {} => clients[t.client] \in Dead
TaskInv == \A i \in DOMAIN tasks : Coherent(tasks[i])

\* What is not remembered may be executed once more.
SeenInv ==
  \A m \in Messages :
    Cardinality(Executions(m)) + (IF m \in seen THEN 0 ELSE 1) <= 1 + expiries[m] + boots

\* The inductive invariant: connections, tasks and the deduplicator agree.
IInv == TypeOK /\ LoopInv /\ TaskInv /\ SeenInv /\ RepliesArePrefixes /\ SilenceHasReason

\* What a task shows of itself to the sender of its message.
Status(t) == IF t.step \in Ended THEN "closed"
             ELSE IF clients[t.client] \in Dead THEN "lost" ELSE "open"
Answer(t) == [msg |-> t.msg, parts |-> t.chunks, shown |-> t.got, sorry |-> t.sorry,
              status |-> Status(t)]

Answers == [i \in 1 .. Len(tasks) |-> Answer(tasks[i])]
Credit  == [m \in Messages |-> (1 + expiries[m] + boots) - Cardinality(Executions(m))]

Promise == INSTANCE Delivery WITH credit <- Credit, answers <- Answers

\* Connections, clients and coroutines implement the delivery that Delivery states.
ImplementsDelivery == Promise!DeliverySpec

\* Under FairSpec: every task ends, though its connection may be gone for good.
TasksEnd == \A i \in 1 .. MaxTasks : At(i, "routing") ~> (i \in DOMAIN tasks /\ tasks[i].step \in Ended)

\* Under FairSpec, when connections no longer break: the bot listens again.
Reconnects == []<>(phase = "listening")
=============================================================================
