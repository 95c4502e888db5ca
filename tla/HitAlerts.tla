----------------------------- MODULE HitAlerts ------------------------------
(***************************************************************************)
(* What happens to a hit after the search found it: on_hit in the workers, *)
(* the reporter's drain_hits and flush_pending, and the operator's         *)
(* `plutus-rustus ack` (src/engine.rs, src/hit.rs, src/pending.rs).        *)
(*                                                                         *)
(* Three kinds of actor share data/pending-hits.json, its one temporary    *)
(* file and data/hits.ack.  Each operation of pending.rs is a load, a      *)
(* change in memory, the temporary file created, then filled, then renamed *)
(* over the queue, taken one at a time here.  pending.rs's LOCK is a       *)
(* static of one process: it keeps the engine's threads apart and, when    *)
(* the ack is the separate process main.rs makes of it, does not keep the  *)
(* acker out: two processes then fill one file, or rename what the other   *)
(* has not filled yet.                                                     *)
(***************************************************************************)
EXTENDS PendingQueue, Sequences

CONSTANTS Workers, Reporter, Acker,  \* the actors
          NotifyEnabled,             \* Notifier::enabled
          AckInProcess,              \* ack_now called by a thread of the engine
          Budget,                    \* how often each kind of trouble may happen
          MaxClock,                  \* how far the clock runs
          Nil, Torn                  \* no value; an empty hits.ack

Actors == Workers \cup {Reporter, Acker}

\* What may go wrong or be asked for, and the sum of it all.
Troubles == {"fault", "miss", "close", "crash", "ack", "kill", "any"}

ASSUME ActorAssumption ==
  /\ Reporter \notin Workers /\ Acker \notin Workers /\ Reporter # Acker
  /\ NotifyEnabled \in BOOLEAN /\ AckInProcess \in BOOLEAN
  /\ Budget \in [Troubles -> Nat] /\ MaxClock \in Nat
  /\ Nil \notin Hits \cup Nat /\ Torn \notin Nat /\ Torn # Nil
  /\ \A S \in SUBSET Hits : Nil \notin [S -> Item]

VARIABLES
  clock,      \* unix seconds
  findings,   \* hits fsynced to findings/hits.txt
  pending,    \* data/pending-hits.json
  tmp,        \* data/pending-hits.json.tmp, Nil when there is none
  mixed,      \* which of the two holds parts of two bodies that do not parse
  opened,     \* the name now of the file an actor has open for writing
  ackFile,    \* data/hits.ack: Nil, Torn (created, not written yet) or its time
  pc,         \* where each actor is
  stage,      \* how far an actor is inside an operation of pending.rs
  buf,        \* the items an actor loaded and changed
  cur,        \* the hit an actor is working on
  now,        \* the time an actor read before its operation
  channel,    \* notices on their way to the reporter
  due,        \* what flush_pending still has to alert
  running,    \* Shared.running
  delivered,  \* alerts that reached the operator, per hit
  spent       \* trouble so far

files == <<findings, pending, tmp, mixed, opened, ackFile>>
local == <<buf, cur, now, due>>
vars == <<clock, files, pc, stage, local, channel, running, delivered, spent>>

\* Where an actor can be.
Places(p) ==
  IF p \in Workers THEN {"walk", "enqueue", "notify", "down"}
  ELSE IF p = Reporter
  THEN {"sleep", "drain", "requeue", "due", "alert", "mark", "down"}
  ELSE {"idle", "write", "apply"}

\* Where it is inside an operation: waiting to begin ("out"), with hits.ack seen,
\* about to load for due, to create the temporary file, to fill it, to rename it,
\* to remove hits.ack.
Stages == {"out", "read", "load", "save", "fill", "rename", "unlink"}

\* What an open file is called now: nothing open, one of the two names, or none any
\* more since another file was renamed over it.
Names == {"none", "tmp", "queue", "gone"}

-----------------------------------------------------------------------------
\* Helpers

Spend(k) ==
  /\ spent[k] < Budget[k] /\ spent["any"] < Budget["any"]
  /\ spent' = [spent EXCEPT ![k] = @ + 1, !["any"] = @ + 1]

InEngine(p) == p # Acker \/ AckInProcess

\* The actors that take the same LOCK as p.
Rivals(p) == IF InEngine(p) THEN {q \in Actors : q # p /\ InEngine(q)} ELSE {}

\* Mutation of Unlocked: LOCK is not taken.
UnlockedAlways(p) == p \in Actors

Unlocked(p) == \A q \in Rivals(p) : stage[q] = "out"

At(p, places) == pc[p] \in places /\ stage[p] = "out"

Goto(p, place) == pc' = [pc EXCEPT ![p] = place]

\* Where an actor goes on when its operation returns, with or without an error.
After(place) ==
  CASE place = "enqueue" -> "notify"
    [] place = "requeue" -> "drain"
    [] place = "due"     -> "alert"
    [] place = "mark"    -> "alert"
    [] place = "apply"   -> "idle"
    [] OTHER             -> place

\* The operation returns and LOCK is released.
Leave(p) ==
  /\ stage' = [stage EXCEPT ![p] = "out"]
  /\ buf' = [buf EXCEPT ![p] = EmptyQueue]
  /\ Goto(p, After(pc[p]))
  /\ cur' = IF pc[p] = "enqueue" THEN cur ELSE [cur EXCEPT ![p] = Nil]

\* The operation goes on to save q.
Modify(p, q) ==
  /\ buf' = [buf EXCEPT ![p] = q]
  /\ stage' = [stage EXCEPT ![p] = "save"]
  /\ UNCHANGED <<pc, cur>>

Stage(p, s) == stage' = [stage EXCEPT ![p] = s] /\ UNCHANGED <<pc, buf, cur>>

-----------------------------------------------------------------------------
\* The operations of pending.rs

\* load_unlocked returns the queue; one that does not parse is an error.  An absent
\* file, an empty one and `[]` are all the empty queue.
Readable == "queue" \notin mixed

\* enqueue, up to the save: by a worker for its own hit, by the reporter for a
\* notice it took off the channel.
LoadToEnqueue(p) ==
  /\ At(p, {"enqueue", "requeue"}) /\ Unlocked(p)
  /\ IF ~Readable \/ cur[p] \in DOMAIN pending
     THEN Leave(p)
     ELSE Modify(p, Enqueue(pending, cur[p], now[p]))
  /\ UNCHANGED <<clock, files, now, due, channel, running, delivered, spent>>

\* mark_sent, up to the save: flush_pending passes the `now` it began with.
LoadToMark(p) ==
  /\ At(p, {"mark"}) /\ Unlocked(p)
  /\ IF Readable THEN Modify(p, MarkSent(pending, cur[p], now[p])) ELSE Leave(p)
  /\ UNCHANGED <<clock, files, now, due, channel, running, delivered, spent>>

\* apply_ack_unlocked's is_file, for due and for the acker's apply_ack.
CheckAck(p) ==
  /\ At(p, {"due", "apply"}) /\ Unlocked(p)
  /\ \/ ackFile # Nil /\ Stage(p, "read")
     \/ ackFile = Nil /\ pc[p] = "due" /\ Stage(p, "load")
     \/ ackFile = Nil /\ pc[p] = "apply" /\ Leave(p)
  /\ UNCHANGED <<clock, files, now, due, channel, running, delivered, spent>>

\* An ack file that cannot be read or parsed stands for an ack at the caller's
\* own `now`, one that was removed since is_file included.
ReadAck(p) ==
  /\ stage[p] = "read"
  /\ IF Readable
     THEN Modify(p, Retain(pending, IF ackFile \in {Nil, Torn} THEN now[p] ELSE ackFile))
     ELSE Leave(p)
  /\ UNCHANGED <<clock, files, now, due, channel, running, delivered, spent>>

\* save_unlocked opens the temporary file, one name for every process, and cuts it
\* to nothing ...
CreateTmp(p) ==
  /\ stage[p] = "save"
  /\ tmp' = EmptyQueue /\ mixed' = mixed \ {"tmp"}
  /\ opened' = [opened EXCEPT ![p] = "tmp"]
  /\ Stage(p, "fill")
  /\ UNCHANGED <<clock, findings, pending, ackFile, now, due, channel, running,
                 delivered, spent>>

\* The file called f now holds q, or parts of two bodies that do not parse.
Put(f, q) ==
  /\ tmp' = IF f = "tmp" THEN q ELSE tmp
  /\ pending' = IF f = "queue" THEN q ELSE pending
Contents(f) ==
  IF f = "tmp" THEN tmp ELSE IF f = "queue" THEN pending ELSE EmptyQueue
Whole(f, q) == Put(f, q) /\ mixed' = mixed \ {f}
Garbled(f) == f \in {"tmp", "queue"} /\ Put(f, EmptyQueue) /\ mixed' = mixed \cup {f}

Within(S, T) == S \subseteq T /\ S # T

\* ... writes the body into it from the start, whatever the file is called by now.
\* Where another process has written meanwhile, the end of what it wrote stays behind
\* a shorter body; a body of as many hits may be longer or shorter by a digit ...
FillTmp(p) ==
  /\ stage[p] = "fill"
  /\ LET f == opened[p]  old == Contents(f)
     IN \/ ~Within(DOMAIN buf[p], DOMAIN old) /\ Whole(f, buf[p])
        \/ f \in mixed /\ Garbled(f)
        \/ old # buf[p] /\ ~Within(DOMAIN old, DOMAIN buf[p]) /\ Garbled(f)
  /\ opened' = [opened EXCEPT ![p] = "none"]
  /\ Stage(p, "rename")
  /\ UNCHANGED <<clock, findings, ackFile, now, due, channel, running, delivered, spent>>

\* What an open file is called after the rename of the temporary file.
Moved(f) == CASE f = "tmp" -> "queue" [] f = "queue" -> "gone" [] OTHER -> f

\* ... and renames it, which fails when another process renamed it first.
Rename(p) ==
  /\ stage[p] = "rename"
  /\ tmp' = Nil
  /\ IF tmp = Nil
     THEN Leave(p) /\ UNCHANGED <<pending, mixed, opened>>
     ELSE /\ pending' = tmp /\ mixed' = IF "tmp" \in mixed THEN {"queue"} ELSE {}
          /\ opened' = [q \in Actors |-> Moved(opened[q])]
          /\ IF pc[p] \in {"due", "apply"} THEN Stage(p, "unlink") ELSE Leave(p)
  /\ UNCHANGED <<clock, findings, ackFile, now, due, channel, running, delivered, spent>>

\* fs::remove_file(hits.ack); its result is ignored.
RemoveAck(p) ==
  /\ stage[p] = "unlink"
  /\ ackFile' = Nil
  /\ IF pc[p] = "due" THEN Stage(p, "load") ELSE Leave(p)
  /\ UNCHANGED <<clock, findings, pending, tmp, mixed, opened, now, due, channel,
                 running, delivered, spent>>

\* Mutation of LoadDue: a hit is due a second early.
LoadDueEarly(p) ==
  /\ stage[p] = "load"
  /\ due' = IF Readable THEN DueSet(pending, now[p] + 1) ELSE due
  /\ Leave(p)
  /\ UNCHANGED <<clock, files, now, channel, running, delivered, spent>>

\* due's own load and filter, after the ack was applied.
LoadDue(p) ==
  /\ stage[p] = "load"
  /\ due' = IF Readable THEN DueSet(pending, now[p]) ELSE due
  /\ Leave(p)
  /\ UNCHANGED <<clock, files, now, channel, running, delivered, spent>>

\* Any file operation can fail: the error is returned and LOCK released.  A
\* failed remove_file is ignored, and a failed read of hits.ack stands for an ack
\* at the caller's `now`.
Fault(p) ==
  /\ Spend("fault")
  /\ \/ At(p, {"enqueue", "requeue", "mark"}) /\ Unlocked(p) /\ Leave(p)
     \/ stage[p] \in {"read", "load", "save", "rename"} /\ Leave(p)
     \/ stage[p] = "read" /\ Readable /\ Modify(p, Retain(pending, now[p]))
     \/ stage[p] = "unlink" /\ IF pc[p] = "due" THEN Stage(p, "load") ELSE Leave(p)
  /\ UNCHANGED <<clock, files, now, due, channel, running, delivered>>

\* The write stops half way, with nothing of the body in the file or a part of it.
FillFails(p) ==
  /\ stage[p] = "fill" /\ Spend("fault") /\ Leave(p)
  /\ Garbled(opened[p]) \/ UNCHANGED <<pending, tmp, mixed>>
  /\ opened' = [opened EXCEPT ![p] = "none"]
  /\ UNCHANGED <<clock, findings, ackFile, now, due, channel, running, delivered>>

Operation(p) ==
  \/ LoadToEnqueue(p) \/ LoadToMark(p) \/ CheckAck(p) \/ ReadAck(p)
  \/ CreateTmp(p) \/ FillTmp(p) \/ Rename(p) \/ RemoveAck(p) \/ LoadDue(p)

-----------------------------------------------------------------------------
\* A worker: process and on_hit

\* persist_hit returned Ok: the key is on disk.  unix_now() is read before
\* enqueue waits for LOCK.
PersistHit(w, h) ==
  /\ At(w, {"walk"}) /\ h \notin findings
  /\ findings' = findings \cup {h}
  /\ cur' = [cur EXCEPT ![w] = h]
  /\ now' = [now EXCEPT ![w] = clock]
  /\ Goto(w, "enqueue")
  /\ UNCHANGED <<clock, pending, tmp, mixed, opened, ackFile, stage, buf, due, channel,
                 running, delivered, spent>>

\* Mutation of PersistFails: the error is printed and on_hit goes on.
PersistFailsGoesOn(w, h) ==
  /\ At(w, {"walk"}) /\ h \notin findings
  /\ Spend("fault")
  /\ cur' = [cur EXCEPT ![w] = h] /\ now' = [now EXCEPT ![w] = clock]
  /\ Goto(w, "enqueue")
  /\ UNCHANGED <<clock, files, stage, buf, due, channel, running, delivered>>

\* persist_hit returned an error: the hit is printed and dropped.
PersistFails(w, h) ==
  /\ At(w, {"walk"}) /\ h \notin findings
  /\ Spend("fault")
  /\ UNCHANGED <<clock, files, pc, stage, local, channel, running, delivered>>

\* Mutation of Notify: the notice is not sent.
NotifySkipped(w) ==
  /\ At(w, {"notify"})
  /\ cur' = [cur EXCEPT ![w] = Nil] /\ now' = [now EXCEPT ![w] = 0]
  /\ Goto(w, "walk")
  /\ UNCHANGED <<clock, files, stage, buf, due, channel, running, delivered, spent>>

\* The notice goes to the reporter, who may be gone (the send result is ignored).
Notify(w) ==
  /\ At(w, {"notify"})
  /\ channel' = IF pc[Reporter] = "down" THEN channel ELSE Append(channel, cur[w])
  /\ cur' = [cur EXCEPT ![w] = Nil] /\ now' = [now EXCEPT ![w] = 0]
  /\ Goto(w, "walk")
  /\ UNCHANGED <<clock, files, stage, buf, due, running, delivered, spent>>

\* The walk sees running = false and the thread ends.
WorkerExits(w) ==
  /\ At(w, {"walk"}) /\ ~running
  /\ Goto(w, "down")
  /\ UNCHANGED <<clock, files, stage, local, channel, running, delivered, spent>>

-----------------------------------------------------------------------------
\* The reporter

\* The loop slept; drain_hits reads the time its enqueues will use.
Wake ==
  /\ At(Reporter, {"sleep"}) /\ running
  /\ now' = [now EXCEPT ![Reporter] = clock]
  /\ Goto(Reporter, "drain")
  /\ UNCHANGED <<clock, files, stage, buf, cur, due, channel, running, delivered, spent>>

\* A halt seen at the loop's head, or a snapshot too old at its end: no more
\* rounds, but the drain after the loop.
Close ==
  /\ At(Reporter, {"sleep"}) /\ running /\ Spend("close")
  /\ running' = FALSE
  /\ now' = [now EXCEPT ![Reporter] = clock]
  /\ Goto(Reporter, "drain")
  /\ UNCHANGED <<clock, files, stage, buf, cur, due, channel, delivered>>

\* drain_hits: the next notice.
TakeNotice ==
  /\ At(Reporter, {"drain"}) /\ channel # <<>>
  /\ cur' = [cur EXCEPT ![Reporter] = Head(channel)]
  /\ channel' = Tail(channel)
  /\ Goto(Reporter, "requeue")
  /\ UNCHANGED <<clock, files, stage, buf, now, due, running, delivered, spent>>

\* Mutation of Flush: drain_hits ends without flush_pending.
FlushSkipped ==
  /\ At(Reporter, {"drain"}) /\ channel = <<>>
  /\ Goto(Reporter, "alert")
  /\ UNCHANGED <<clock, files, stage, local, channel, running, delivered, spent>>

\* No notice left: flush_pending reads the time again, when it has a notifier.
Flush ==
  /\ At(Reporter, {"drain"}) /\ channel = <<>>
  /\ now' = [now EXCEPT ![Reporter] = clock]
  /\ Goto(Reporter, IF NotifyEnabled THEN "due" ELSE "alert")
  /\ UNCHANGED <<clock, files, stage, buf, cur, due, channel, running, delivered, spent>>

\* send_hit returned Ok.
SendOk(h) ==
  /\ At(Reporter, {"alert"}) /\ h \in due
  /\ delivered' = [delivered EXCEPT ![h] = @ + 1]
  /\ due' = due \ {h}
  /\ cur' = [cur EXCEPT ![Reporter] = h]
  /\ Goto(Reporter, "mark")
  /\ UNCHANGED <<clock, files, stage, buf, now, channel, running, spent>>

\* Mutation of SendFails: mark_sent whatever send_hit returned.
SendFailsMarked(h) ==
  /\ At(Reporter, {"alert"}) /\ h \in due
  /\ Spend("miss")
  /\ due' = due \ {h}
  /\ cur' = [cur EXCEPT ![Reporter] = h]
  /\ Goto(Reporter, "mark")
  /\ UNCHANGED <<clock, files, stage, buf, now, channel, running, delivered>>

\* send_hit returned an error: on to the next one.  After a time-out the alert
\* may have reached the operator all the same.
SendFails(h) ==
  /\ At(Reporter, {"alert"}) /\ h \in due
  /\ Spend("miss")
  /\ \E late \in {0, 1} : delivered' = [delivered EXCEPT ![h] = @ + late]
  /\ due' = due \ {h}
  /\ UNCHANGED <<clock, files, pc, stage, buf, cur, now, channel, running>>

\* Nothing left to alert: back to the loop, or out of reporter, which drops the
\* receiver and what was sent to it after the last drain.
Rest ==
  /\ At(Reporter, {"alert"}) /\ due = {}
  /\ Goto(Reporter, IF running THEN "sleep" ELSE "down")
  /\ channel' = IF running THEN channel ELSE <<>>
  /\ now' = [now EXCEPT ![Reporter] = 0]
  /\ UNCHANGED <<clock, files, stage, buf, cur, due, running, delivered, spent>>

\* run's next round after a reload, or the next engine process: reporter begins
\* with a flush.
Start ==
  /\ \A p \in Workers \cup {Reporter} : pc[p] = "down"
  /\ pc' = [p \in Actors |-> IF p = Reporter THEN IF NotifyEnabled THEN "due" ELSE "alert"
                             ELSE IF p \in Workers THEN "walk" ELSE pc[p]]
  /\ now' = [now EXCEPT ![Reporter] = clock]
  /\ running' = TRUE
  /\ UNCHANGED <<clock, files, stage, buf, cur, due, channel, delivered, spent>>

-----------------------------------------------------------------------------
\* The operator's ack

\* ack_now reads the time and fs::write creates (or truncates) hits.ack ...
AskForAck ==
  /\ At(Acker, {"idle"}) /\ Spend("ack")
  /\ AckInProcess => pc[Reporter] # "down"
  /\ ackFile' = Torn
  /\ now' = [now EXCEPT ![Acker] = clock]
  /\ Goto(Acker, "write")
  /\ UNCHANGED <<clock, findings, pending, tmp, mixed, opened, stage, buf, cur, due,
                 channel, running, delivered>>

\* ... then fills it, for nobody if the reporter has removed it meanwhile.
WriteAck ==
  /\ At(Acker, {"write"})
  /\ ackFile' = IF ackFile = Nil THEN Nil ELSE now[Acker]
  /\ Goto(Acker, "apply")
  /\ UNCHANGED <<clock, findings, pending, tmp, mixed, opened, stage, local, channel,
                 running, delivered, spent>>

-----------------------------------------------------------------------------
\* What happens to the processes

\* p's process died: nothing it had in memory or open is left.
Forget(S) ==
  /\ opened' = [p \in Actors |-> IF p \in S THEN "none" ELSE opened[p]]
  /\ stage' = [p \in Actors |-> IF p \in S THEN "out" ELSE stage[p]]
  /\ buf' = [p \in Actors |-> IF p \in S THEN EmptyQueue ELSE buf[p]]
  /\ cur' = [p \in Actors |-> IF p \in S THEN Nil ELSE cur[p]]
  /\ now' = [p \in Actors |-> IF p \in S THEN 0 ELSE now[p]]
  /\ pc' = [p \in Actors |-> IF p \notin S THEN pc[p]
                             ELSE IF p = Acker THEN "idle" ELSE "down"]

\* The engine is killed, or aborts on a panic, at any point: while run still joins
\* its workers too.
Crash ==
  /\ Spend("crash") /\ \E p \in Actors : InEngine(p) /\ pc[p] \notin {"down", "idle"}
  /\ Forget({p \in Actors : InEngine(p)})
  /\ due' = {} /\ channel' = <<>> /\ running' = FALSE
  /\ UNCHANGED <<clock, findings, pending, tmp, mixed, ackFile, delivered>>

\* The `ack` process is killed at any point.
AckerKilled ==
  /\ ~AckInProcess /\ pc[Acker] # "idle" /\ Spend("kill")
  /\ Forget({Acker})
  /\ UNCHANGED <<clock, findings, pending, tmp, mixed, ackFile, due, channel, running,
                 delivered>>

Tick ==
  /\ clock < MaxClock
  /\ clock' = clock + 1
  /\ UNCHANGED <<files, pc, stage, local, channel, running, delivered, spent>>

-----------------------------------------------------------------------------

Init ==
  /\ clock = 0
  /\ findings = {} /\ pending = EmptyQueue /\ tmp = Nil /\ ackFile = Nil
  /\ mixed = {} /\ opened = [p \in Actors |-> "none"]
  /\ pc = [p \in Actors |-> CASE p \in Workers -> "walk"
                              [] p = Acker -> "idle"
                              [] OTHER -> IF NotifyEnabled THEN "due" ELSE "alert"]
  /\ stage = [p \in Actors |-> "out"]
  /\ buf = [p \in Actors |-> EmptyQueue]
  /\ cur = [p \in Actors |-> Nil]
  /\ now = [p \in Actors |-> 0]
  /\ channel = <<>> /\ due = {} /\ running = TRUE
  /\ delivered = [h \in Hits |-> 0]
  /\ spent = [k \in Troubles |-> 0]

ReporterStep ==
  \/ Wake \/ TakeNotice \/ Flush \/ Rest \/ \E h \in Hits : SendOk(h) \/ SendFails(h)

Next ==
  \/ \E p \in Actors : Operation(p) \/ Fault(p) \/ FillFails(p)
  \/ \E w \in Workers : Notify(w) \/ WorkerExits(w)
                        \/ \E h \in Hits : PersistHit(w, h) \/ PersistFails(w, h)
  \/ ReporterStep \/ Close \/ Start
  \/ AskForAck \/ WriteAck
  \/ Crash \/ AckerKilled \/ Tick

Spec == Init /\ [][Next]_vars

\* Threads that can run do, and a process that ended is started again.  A thread
\* waiting for LOCK gets it some time (SF): whoever holds it lets go within a few
\* file operations, and the reporter sleeps three seconds between its rounds.
Fairness ==
  /\ \A p \in Actors : SF_vars(Operation(p))
  /\ \A w \in Workers : WF_vars(Notify(w)) /\ WF_vars(WorkerExits(w))
  /\ WF_vars(ReporterStep) /\ WF_vars(Start) /\ WF_vars(WriteAck)

FairSpec == Spec /\ Fairness

-----------------------------------------------------------------------------
\* Properties

TypeOK ==
  /\ clock \in Nat
  /\ findings \subseteq Hits /\ IsQueue(pending)
  /\ tmp = Nil \/ IsQueue(tmp)
  /\ mixed \subseteq {"tmp", "queue"} /\ opened \in [Actors -> Names]
  /\ ackFile \in Nat \cup {Nil, Torn}
  /\ pc = [p \in Actors |-> pc[p]] /\ \A p \in Actors : pc[p] \in Places(p)
  /\ stage \in [Actors -> Stages]
  /\ buf = [p \in Actors |-> buf[p]] /\ \A p \in Actors : IsQueue(buf[p])
  /\ cur \in [Actors -> Hits \cup {Nil}]
  /\ now \in [Actors -> Nat]
  /\ channel \in Seq(Hits) /\ due \subseteq Hits /\ running \in BOOLEAN
  /\ delivered \in [Hits -> Nat] /\ spent \in [Troubles -> Nat]

\* The key comes first (README.md:57, "fsynced to findings/hits.txt first"): no
\* hit is queued for an alert, let alone alerted, before persist returned.
FindingBeforeAlert ==
  /\ DOMAIN pending \subseteq findings
  /\ \A h \in Hits : delivered[h] > 0 => h \in findings

\* mark_sent runs after send_hit, so the count in the queue never claims an
\* alert that did not go out, whatever crashes or races in between.
SentNeverOverstates ==
  \A h \in DOMAIN pending : pending[h].sent <= delivered[h]

\* Only an ack takes a hit out of the queue, only a mark touches a queued
\* record: as long as nobody acks, no crash, error or interleaving loses a hit,
\* resets its count or its time.
QueueOnlyGrows ==
  [][spent["ack"] = 0 =>
       \A h \in DOMAIN pending :
         /\ h \in DOMAIN pending'
         /\ pending'[h].first = pending[h].first
         /\ pending'[h].sent \in {pending[h].sent, pending[h].sent + 1}
         /\ pending'[h].last >= pending[h].last]_vars

\* Alerts beyond what the queue counts, and beyond hit_repeat_max, are the price of
\* a crash or an error after the alert went out and before mark_sent, one each;
\* no interleaving of workers and reporter alone sends an alert too many.
Marking(h) == pc[Reporter] = "mark" /\ cur[Reporter] = h
Mishaps == spent["crash"] + spent["fault"] + spent["miss"]
AlertsAccountedFor ==
  spent["ack"] = 0 =>
    \A h \in Hits : delivered[h] > 0 =>
      /\ h \in DOMAIN pending
      /\ delivered[h] <= pending[h].sent + Mishaps + (IF Marking(h) THEN 1 ELSE 0)
      /\ RepeatMax > 0 => delivered[h] <= RepeatMax + Mishaps

\* The queue as pending.rs's callers see it: every operation takes effect in one
\* step or not at all (an error or a crash in the middle leaves the old queue),
\* none undoes another's, and only an ack somebody asked for removes a hit.
\* True when every caller is a thread of the engine, which LOCK keeps apart.
Promise == INSTANCE AlertQueue WITH recorded <- findings, queue <- pending,
                                    asks <- spent["ack"]
KeepsPromise == Promise!ASpec

\* A hit that is due gets a mark that makes it due no more, which mark_sent alone does
\* and it only after the alert went out: crashes, restarts, I/O errors and failing sends
\* only delay it (README.md:151, "surviving process restarts").  An ack, which another
\* process makes, may delay it as well by undoing a mark; it ends it when the hit leaves
\* the queue, be it acked, lost in the race of LaterHitKept below, or garbled with the
\* rest of the queue (QueueReadable).
DueIsAlerted ==
  \A h \in Hits :
    h \in DueSet(pending, clock)
      ~> \/ h \in DOMAIN pending \ DueSet(pending, clock)
         \/ spent["ack"] > 0 /\ h \notin DOMAIN pending

\* Nobody is left who would queue the hit.
Dropped(h) ==
  /\ h \notin DOMAIN pending \cup {channel[i] : i \in DOMAIN channel}
  /\ \A p \in Actors : cur[p] # h

\* A hit whose key was saved is alerted even when its enqueue failed: the notice
\* on the channel makes the reporter queue it again (engine.rs:592).  What loses it is
\* a crash before it is in the queue (HitIsAlerted below), a failed enqueue whose notice
\* comes after the last drain, or an ack; once it is queued it outlives crashes.
SavedIsAlerted ==
  \A h \in Hits :
    h \in findings
      ~> \/ delivered[h] > 0
         \/ Dropped(h) /\ \/ spent["crash"] > 0 \/ spent["ack"] > 0
                          \/ spent["fault"] > 0 /\ spent["close"] > 0

-----------------------------------------------------------------------------
\* What the documentation promises and the code does not keep

\* "Stop repeating. Safe to call while the engine is running" (pending.rs:116):
\* a hit that was alerted and then acked does not come back.
AckedStaysAcked ==
  [][\A h \in Hits : delivered[h] > 0 /\ h \notin DOMAIN pending
                       => h \notin DOMAIN pending']_vars

\* "drops anything older than `now`" (pending.rs:117, and its test
\* ack_drops_existing_but_keeps_later_hits): a hit queued after the ack stays.
LaterHitKept ==
  [][\A h \in DOMAIN pending \ DOMAIN pending' :
       spent["ack"] > 0 /\ pending[h].first <= now[Acker]]_vars

\* "Safe to call while the engine is running" (pending.rs:116): the queue can be read,
\* whoever saves it.
QueueReadable == Readable

\* "the engine keeps re-alerting every `hit_repeat_secs` (default 120s) across
\* restarts until you run `plutus-rustus ack`" (README.md:57): a hit whose key was
\* saved is alerted, unless somebody acks.
HitIsAlerted ==
  \A h \in Hits : h \in findings ~> (delivered[h] > 0 \/ spent["ack"] > 0)

=============================================================================
