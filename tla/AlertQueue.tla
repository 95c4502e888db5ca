----------------------------- MODULE AlertQueue -----------------------------
(***************************************************************************)
(* What the durable alert queue promises, with every operation of          *)
(* src/pending.rs as one atomic step on one queue: no lock, no temporary   *)
(* file, no crash.  A hit is recorded, then queued, then alerted; an alert *)
(* is counted only after it went out; and nothing leaves the queue but by  *)
(* an ack somebody asked for, which removes exactly the hits queued up to  *)
(* one moment in the past.                                                 *)
(***************************************************************************)
EXTENDS PendingQueue

VARIABLES clock,      \* seconds
          recorded,   \* hits whose key is in findings/hits.txt
          queue,      \* the durable queue
          delivered,  \* alerts that went out, per hit
          asks        \* acks asked for so far

avars == <<clock, recorded, queue, delivered, asks>>

AInit ==
  /\ clock = 0
  /\ recorded = {}
  /\ queue = EmptyQueue
  /\ delivered = [h \in Hits |-> 0]
  /\ asks = 0

Pass == clock' = clock + 1 /\ UNCHANGED <<recorded, queue, delivered, asks>>

Record(h) ==
  /\ recorded' = recorded \cup {h}
  /\ UNCHANGED <<clock, queue, delivered, asks>>

Open(h, t) ==
  /\ h \in recorded /\ t <= clock
  /\ queue' = Enqueue(queue, h, t)
  /\ UNCHANGED <<clock, recorded, delivered, asks>>

Send(h) ==
  /\ h \in recorded
  /\ delivered' = [delivered EXCEPT ![h] = @ + 1]
  /\ UNCHANGED <<clock, recorded, queue, asks>>

\* An alert is counted at most once per time it went out, and only when the hit was
\* due at the time noted: the interval after the last one, below the cap.
Confirm(h, t) ==
  /\ h \in DOMAIN queue /\ t <= clock /\ Due(queue[h], t)
  /\ queue[h].sent < delivered[h]
  /\ queue' = MarkSent(queue, h, t)
  /\ UNCHANGED <<clock, recorded, delivered, asks>>

AskAck == asks' = asks + 1 /\ UNCHANGED <<clock, recorded, queue, delivered>>

Ack(t) ==
  /\ asks > 0 /\ t <= clock
  /\ queue' = Retain(queue, t)
  /\ UNCHANGED <<clock, recorded, delivered, asks>>

ANext ==
  \/ Pass
  \/ AskAck
  \/ \E h \in Hits : Record(h) \/ Send(h)
  \/ \E t \in 0..clock : Ack(t) \/ \E h \in Hits : Open(h, t) \/ Confirm(h, t)

ASpec == AInit /\ [][ANext]_avars

=============================================================================
