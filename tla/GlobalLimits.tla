----------------------------- MODULE GlobalLimits -----------------------------
(***************************************************************************)
(* The limits over all sessions in the notification hook of agent-qq:      *)
(* ClaudeNotifyService._send with should_send_global and                   *)
(* record_global_send, the sender, and data/notify-state/global.json.      *)
(*                                                                         *)
(* Every hook process and every monitor reads the file, decides, sends the *)
(* message to each recipient and writes the whole file back; nothing locks *)
(* it.  A process may raise or be killed at any point in between.          *)
(*                                                                         *)
(* The client writes a frame to OneBot and never waits for the answer, so  *)
(* the limits can only be about what was handed to OneBot; whether it went *)
(* on to the recipient, refused the message or never got the frame is not  *)
(* known to the program and not said here.                                 *)
(*                                                                         *)
(* A send has a number and a time.  A history is a set of numbers: its     *)
(* times never decrease, so the last of the list is the newest.            *)
(***************************************************************************)
EXTENDS Naturals, Sequences, FiniteSets

CONSTANTS
  Procs,        \* hooks and monitors that run at the same time, of any session
  Recipients,   \* settings.notification_recipients()
  MinInterval,  \* claude_notify_min_interval_seconds
  Window,       \* the short window, 600 s
  Long,         \* the long window, 3600 s
  PerWindow,    \* claude_notify_max_per_10_minutes
  PerLong,      \* claude_notify_max_per_hour
  MaxTime,      \* bound on the clock
  MaxSends      \* bound on messages

ASSUME WindowAssumption == Window \in Nat /\ Long \in Nat /\ Window <= Long
ASSUME LimitAssumption  == /\ MinInterval \in Nat /\ MinInterval <= Long
                           /\ PerWindow \in Nat /\ PerLong \in Nat
ASSUME BoundAssumption  == MaxTime \in Nat /\ MaxSends \in Nat

VARIABLES
  clock,      \* time.time(), from an origin for which no disturbance is near
  sends,      \* the messages that were let through: when, why, and for which
              \* recipients they were handed to OneBot
  ledger,     \* global.json: the history of each recipient
  proc,       \* each process: its step, what it has read, when, and its message
  disturbed   \* when the ledger was last missing a message

vars == <<clock, sends, ledger, proc, disturbed>>

Histories == [Recipients -> SUBSET (1 .. MaxSends)]
Sends     == [at : Nat, limited : BOOLEAN, to : SUBSET Recipients]
Records   == [step : {"off", "send", "write"}, copy : Histories, now : Nat,
              send : 0 .. MaxSends, visited : SUBSET Recipients]

NoHistory == [r \in Recipients |-> {}]
Idle == [step |-> "off", copy |-> NoHistory, now |-> 0, send |-> 0, visited |-> {}]

Becomes(p, x) == proc' = [proc EXCEPT ![p] = x]
At(p, s)      == proc[p].step = s
InFlight      == \E p \in Procs : proc[p].send # 0

Init ==
  /\ clock = Long + 1 /\ disturbed = 0
  /\ sends = << >> /\ ledger = NoHistory
  /\ proc = [p \in Procs |-> Idle]

-----------------------------------------------------------------------------
(* The limits.                                                             *)

Within(h, now, d) == {s \in h : now <= sends[s].at + d}

\* Mutation: a limit stops a message only when it has been exceeded
Reached_OneMore(h, now) ==
  \/ \E s \in Within(h, now, Long) : now < sends[s].at + MinInterval
  \/ Cardinality(Within(h, now, Window)) > PerWindow
  \/ Cardinality(Within(h, now, Long)) > PerLong
\* should_send_global for a recipient with history h.
Reached(h, now) ==
  \/ \E s \in Within(h, now, Long) : now < sends[s].at + MinInterval
  \/ Cardinality(Within(h, now, Window)) >= PerWindow
  \/ Cardinality(Within(h, now, Long)) >= PerLong

-----------------------------------------------------------------------------
(* _send                                                                   *)

\* p goes on with the file it has read; a message that is in flight is not in it.
LetThrough(p, limited) ==
  /\ At(p, "off") /\ Recipients # {}
  /\ Len(sends) < MaxSends
  /\ sends' = Append(sends, [at |-> clock, limited |-> limited, to |-> {}])
  /\ Becomes(p, [step |-> "send", copy |-> ledger, now |-> clock,
                 send |-> Len(sends) + 1, visited |-> Recipients])
  /\ disturbed' = IF InFlight THEN clock ELSE disturbed
  /\ UNCHANGED <<clock, ledger>>

\* Failures, stops and manual messages do not ask.
SendForced(p) == LetThrough(p, FALSE)

Allow(p) ==
  /\ \A r \in Recipients : ~Reached(ledger[r], clock)
  /\ LetThrough(p, TRUE)

\* The first recipient r that has reached a limit; others were looked at before it.
Decline(p) ==
  /\ At(p, "off")
  /\ \E r \in Recipients : \E before \in SUBSET (Recipients \ {r}) :
       /\ Reached(ledger[r], clock)
       /\ \A b \in before : ~Reached(ledger[b], clock)
       /\ Becomes(p, [step |-> "write", copy |-> ledger, now |-> clock,
                      send |-> 0, visited |-> before \cup {r}])
  /\ UNCHANGED <<clock, sends, ledger, disturbed>>

\* One send_private_msg of the sender's loop: a frame is written to OneBot.
HandOver(p) ==
  /\ At(p, "send")
  /\ LET s == proc[p].send IN
       \E r \in Recipients \ sends[s].to :
         /\ sends' = [sends EXCEPT ![s].to = @ \cup {r}]
         /\ Becomes(p, IF sends[s].to \cup {r} = Recipients THEN [proc[p] EXCEPT !.step = "write"]
                                                            ELSE proc[p])
  /\ UNCHANGED <<clock, ledger, disturbed>>

\* Mutation: histories are pruned to the short window
Written_Short(p) ==
  LET c == proc[p] IN
    [r \in Recipients |->
       IF r \in c.visited THEN Within(c.copy[r], c.now, Window) \cup ({c.send} \ {0}) ELSE c.copy[r]]
\* What record_global_send makes of the copy; a message that was declined only prunes it.
Written(p) ==
  LET c == proc[p] IN
    [r \in Recipients |->
       IF r \in c.visited THEN Within(c.copy[r], c.now, Long) \cup ({c.send} \ {0}) ELSE c.copy[r]]

\* write_global: what others have written since is overwritten.
Write(p) ==
  /\ At(p, "write")
  /\ ledger' = Written(p)
  /\ disturbed' = IF ledger # proc[p].copy THEN clock ELSE disturbed
  /\ Becomes(p, Idle)
  /\ UNCHANGED <<clock, sends>>

\* Two processes write one temporary file: what comes out is no JSON and reads as empty.
\* The one that comes second goes on or fails.
WriteMixed(p) ==
  /\ At(p, "write") /\ \E q \in Procs \ {p} : At(q, "write")
  /\ ledger' = NoHistory
  /\ disturbed' = clock
  /\ Becomes(p, Idle)
  /\ UNCHANGED <<clock, sends>>

\* Mutation: the message is recorded although the send has failed
Left_Recorded(p) == Written(p)
Left(p) == ledger

\* An exception of the client, before or after it has handed over what it sends, one of
\* write_global, or a kill: nothing is written.
Fails(p) ==
  /\ ~At(p, "off")
  /\ ledger' = Left(p)
  /\ disturbed' = IF proc[p].send # 0 /\ sends[proc[p].send].to # {} THEN clock ELSE disturbed
  /\ Becomes(p, Idle)
  /\ UNCHANGED <<clock, sends>>

Tick ==
  /\ clock < MaxTime /\ clock' = clock + 1
  /\ UNCHANGED <<sends, ledger, proc, disturbed>>

-----------------------------------------------------------------------------
Process(p) == \/ SendForced(p) \/ Allow(p) \/ Decline(p) \/ HandOver(p)
              \/ Write(p) \/ WriteMixed(p) \/ Fails(p)

Next == Tick \/ (\E p \in Procs : Process(p))

Spec == Init /\ [][Next]_vars

-----------------------------------------------------------------------------
\* Each variable keeps its type, and numbers and times are those of messages so far.
TypeOK ==
  /\ clock \in Nat /\ disturbed \in 0 .. clock
  /\ sends \in Seq(Sends) /\ Len(sends) <= MaxSends
  /\ \A s \in DOMAIN sends : sends[s].at <= clock
  /\ ledger \in Histories
  /\ proc \in [Procs -> Records]
  /\ \A p \in Procs : proc[p].now <= clock

\* The limits over all sessions are those the settings ask for, counted over everything
\* that was handed to OneBot for a recipient, forced messages included, and not over what
\* the ledger says; and an hour after processes overlapped, or one was lost between a send
\* and its record, they are kept again (should_send_global, record_global_send, _send).
Earlier(s, r, d) == {j \in 1 .. s - 1 : r \in sends[j].to /\ sends[s].at <= sends[j].at + d}
LimitsKept ==
  \A s \in DOMAIN sends, r \in Recipients :
    sends[s].limited /\ disturbed + Long < sends[s].at =>
      /\ \A j \in Earlier(s, r, Long) : sends[j].at + MinInterval <= sends[s].at
      /\ Cardinality(Earlier(s, r, Window)) < PerWindow
      /\ Cardinality(Earlier(s, r, Long)) < PerLong

\* A message is declined only when as much has been handed to OneBot for some recipient
\* as the limits allow: overlaps and sends that raise make the ledger forget, and never
\* add a message the client did not hand over (_send).
Handed(r) == {s \in DOMAIN sends : r \in sends[s].to}
DeclinesJustified ==
  [][\A p \in Procs : At(p, "off") /\ proc'[p].step = "write"
       => \E r \in Recipients : Reached(Handed(r), clock)]_vars

\* A process that has let a message through remembers it; one that has handed it over for
\* everybody is about to write.
ProcInv ==
  /\ \A p \in Procs : LET c == proc[p] IN
       /\ c.step = "off" => c.send = 0
       /\ c.step = "send" => c.send # 0
       /\ c.send # 0 => /\ c.send \in DOMAIN sends
                        /\ c.visited = Recipients /\ c.now = sends[c.send].at
                        /\ c.step = "write" => sends[c.send].to = Recipients
  /\ \A p, q \in Procs : proc[p].send # 0 /\ proc[p].send = proc[q].send => p = q

\* No history has a message that was not handed over for the recipient.
RealInv ==
  \A r \in Recipients :
    /\ ledger[r] \subseteq Handed(r)
    /\ \A p \in Procs : proc[p].copy[r] \subseteq Handed(r)

\* What was handed over for a recipient and the ledger does not have is old, or in flight,
\* or was lost at the last disturbance; and what is in flight disturbs every message let
\* through after it.
KnownInv ==
  /\ \A r \in Recipients : \A s \in Handed(r) \ ledger[r] :
       \/ sends[s].at + Long < clock
       \/ sends[s].at <= disturbed
       \/ \E p \in Procs : proc[p].send = s
  /\ \A p \in Procs : proc[p].send # 0 =>
       \A s \in DOMAIN sends : proc[p].send < s => sends[s].at <= disturbed

\* The inductive invariant: the ledger, the messages and the processes agree.
IInv == TypeOK /\ ProcInv /\ RealInv /\ KnownInv /\ LimitsKept
=============================================================================
