------------------------------ MODULE Delivery ------------------------------
(***************************************************************************)
(* What the bot of agent-qq promises to those who send it messages,        *)
(* without connections, clients or coroutines.  A message is taken up as   *)
(* often as it has credit: once, and once more for each time its id was    *)
(* forgotten or the bot restarted.  Its answer is composed once and shown  *)
(* part by part from the first; it is an apology only where nothing was    *)
(* shown; a closed answer stays as it is; and an answer that was composed  *)
(* for a message closes unfinished only when its way back is lost.         *)
(*                                                                         *)
(* Dispatch implements it: an answer is what arrives of the replies of a   *)
(* task, over whatever connections there have been.                        *)
(***************************************************************************)
EXTENDS Naturals, Sequences

CONSTANTS Messages, Notice, MaxChunks

VARIABLES
  credit,    \* how often each message may still be taken up
  answers    \* the answers so far

delivery == <<credit, answers>>

Answer(m, s, n) == [msg |-> m, status |-> s, parts |-> n, shown |-> {}, sorry |-> FALSE]

DeliveryInit == credit = [m \in Messages |-> 1] /\ answers = << >>

Take(m) ==
  /\ credit[m] > 0 /\ credit' = [credit EXCEPT ![m] = @ - 1]
  /\ \E s \in {"open", "lost"} : answers' = Append(answers, Answer(m, s, 0))

\* The breaker speaks without being asked.
Alert ==
  /\ \E s \in {"open", "lost"} : answers' = Append(answers, Answer(Notice, s, 1))
  /\ UNCHANGED credit

Forget(m) ==
  /\ credit' = [credit EXCEPT ![m] = @ + 1]
  /\ UNCHANGED answers

\* The way back of some open answers is lost.
Lose(S) ==
  /\ answers' = [i \in 1 .. Len(answers) |->
                   IF i \in S /\ answers[i].status = "open"
                   THEN [answers[i] EXCEPT !.status = "lost"] ELSE answers[i]]
  /\ UNCHANGED credit

Turns(i, a) == answers' = [answers EXCEPT ![i] = a] /\ UNCHANGED credit

Compose(i) ==
  /\ answers[i].status # "closed" /\ answers[i].parts = 0
  /\ \E n \in 1 .. MaxChunks : Turns(i, [answers[i] EXCEPT !.parts = n])

Show(i) ==
  /\ answers[i].status = "open"
  /\ \E k \in 1 .. answers[i].parts :
       /\ answers[i].shown = 1 .. k - 1
       /\ Turns(i, [answers[i] EXCEPT !.shown  = 1 .. k,
                                      !.status = IF k = answers[i].parts THEN "closed" ELSE @])

Apology(i) ==
  /\ answers[i].status = "open" /\ answers[i].shown = {}
  /\ Turns(i, [answers[i] EXCEPT !.sorry = TRUE, !.status = "closed"])

\* No reply, or none that can arrive.
GiveUp(i) ==
  /\ \/ answers[i].status = "lost"
     \/ answers[i].status = "open" /\ (answers[i].parts = 0 \/ answers[i].msg = Notice)
  /\ Turns(i, [answers[i] EXCEPT !.status = "closed"])

Restart ==
  /\ credit' = [m \in Messages |-> credit[m] + 1]
  /\ answers' = [i \in 1 .. Len(answers) |-> [answers[i] EXCEPT !.status = "closed"]]

DeliveryNext ==
  \/ \E m \in Messages : Take(m) \/ Forget(m)
  \/ Alert \/ Restart
  \/ \E S \in SUBSET (1 .. Len(answers)) : Lose(S)
  \/ \E i \in 1 .. Len(answers) : Compose(i) \/ Show(i) \/ Apology(i) \/ GiveUp(i)

DeliverySpec == DeliveryInit /\ [][DeliveryNext]_delivery
=============================================================================
