---------------------------- MODULE PendingQueue ----------------------------
(***************************************************************************)
(* The contents of data/pending-hits.json and what src/pending.rs computes *)
(* on them between reading the file and writing it back.  A queue is a     *)
(* function from the hits it holds to their records: the code keeps a Vec  *)
(* and looks items up by (address, compressed), which is what a Hit stands *)
(* for here.  `max == 0` and `interval_secs == 0` keep their meaning.      *)
(***************************************************************************)
EXTENDS Naturals

CONSTANTS Hits,        \* (address, compressed) pairs
          RepeatSecs,  \* NotifyConfig.hit_repeat_secs
          RepeatMax    \* NotifyConfig.hit_repeat_max

ASSUME RepeatAssumption == RepeatSecs \in Nat /\ RepeatMax \in Nat

\* PendingHit without its key.
Item == [first : Nat, last : Nat, sent : Nat]

IsQueue(q) == DOMAIN q \subseteq Hits /\ q \in [DOMAIN q -> Item]

EmptyQueue == [h \in {} |-> [first |-> 0, last |-> 0, sent |-> 0]]

-----------------------------------------------------------------------------

\* tick_action(..) == TickAction::Send.  The cap is looked at first, then the
\* first alert, then the interval; due does not tell Wait from Done.
Due(item, t) ==
  /\ RepeatMax = 0 \/ item.sent < RepeatMax
  /\ item.sent = 0 \/ (RepeatSecs > 0 /\ t >= item.last + RepeatSecs)

Fresh(t) == [first |-> t, last |-> 0, sent |-> 0]

\* enqueue: a hit that is already queued keeps its record.
Enqueue(q, h, t) ==
  [k \in DOMAIN q \cup {h} |-> IF k \in DOMAIN q THEN q[k] ELSE Fresh(t)]

\* Mutations of MarkSent: `sent` counts down what is left of hit_repeat_max; only
\* the time is kept.
MarkSentCountsDown(q, h, t) ==
  [k \in DOMAIN q |->
     IF k = h THEN [first |-> q[k].first, last |-> t, sent |-> q[k].sent - 1] ELSE q[k]]
MarkSentForgetsCount(q, h, t) ==
  [k \in DOMAIN q |->
     IF k = h THEN [first |-> q[k].first, last |-> t, sent |-> q[k].sent] ELSE q[k]]

\* mark_sent: a hit that is no longer queued is left out.
MarkSent(q, h, t) ==
  [k \in DOMAIN q |->
     IF k = h THEN [first |-> q[k].first, last |-> t, sent |-> q[k].sent + 1]
     ELSE q[k]]

\* apply_ack_unlocked's retain: only what was queued after the ack survives.
Retain(q, t) == [k \in {h \in DOMAIN q : q[h].first > t} |-> q[k]]

\* due's filter.
DueSet(q, t) == {h \in DOMAIN q : Due(q[h], t)}

=============================================================================
