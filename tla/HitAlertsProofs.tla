-------------------------- MODULE HitAlertsProofs ---------------------------
(***************************************************************************)
(* Theorems about HitAlerts, for every number of workers and hits, every   *)
(* budget of trouble and both placements of the acker.                     *)
(***************************************************************************)
EXTENDS HitAlerts, TLAPS

-----------------------------------------------------------------------------
\* The operators on queues

\* Enqueue yields a queue that holds h as well.
LEMMA EnqueueQueue ==
  ASSUME NEW q, IsQueue(q), NEW h \in Hits, NEW t \in Nat
  PROVE  /\ IsQueue(Enqueue(q, h, t))
         /\ DOMAIN Enqueue(q, h, t) = DOMAIN q \cup {h}
BY DEF IsQueue, Enqueue, Fresh, Item

\* MarkSent yields a queue of the same hits.
LEMMA MarkSentQueue ==
  ASSUME NEW q, IsQueue(q), NEW h, NEW t \in Nat
  PROVE  /\ IsQueue(MarkSent(q, h, t))
         /\ DOMAIN MarkSent(q, h, t) = DOMAIN q
BY DEF IsQueue, MarkSent, Item

\* Retain yields a queue of some of the hits.
LEMMA RetainQueue ==
  ASSUME NEW q, IsQueue(q), NEW t
  PROVE  /\ IsQueue(Retain(q, t))
         /\ DOMAIN Retain(q, t) \subseteq DOMAIN q
BY DEF IsQueue, Retain, Item

\* The empty queue is a queue.
LEMMA EmptyIsQueue == IsQueue(EmptyQueue) /\ DOMAIN EmptyQueue = {}
BY DEF IsQueue, EmptyQueue, Item

-----------------------------------------------------------------------------
\* Type correctness and "the key comes first" in one inductive invariant: every
\* hit that is anywhere on its way (in a file, in a loaded copy, in an actor's
\* hands, on the channel, due) was recorded first.

Known(q) == IsQueue(q) /\ DOMAIN q \subseteq findings

Holding == {"enqueue", "notify", "requeue", "mark"}

\* The places an actor can be at when its operation has come to stage s.
Operating(s) ==
  CASE s \in {"save", "fill", "rename"} -> {"enqueue", "requeue", "mark", "due", "apply"}
    [] s \in {"read", "unlink"} -> {"due", "apply"}
    [] OTHER -> {"due"}

FilesKnown ==
  /\ findings \subseteq Hits
  /\ Known(pending)
  /\ tmp = Nil \/ Known(tmp)
  /\ mixed \subseteq {"tmp", "queue"} /\ opened \in [Actors -> Names]
  /\ ackFile \in Nat \cup {Nil, Torn}

ControlKnown ==
  /\ pc = [p \in Actors |-> pc[p]] /\ \A p \in Actors : pc[p] \in Places(p)
  /\ stage \in [Actors -> Stages]
  /\ buf = [p \in Actors |-> buf[p]] /\ \A p \in Actors : Known(buf[p])
  /\ cur \in [Actors -> findings \cup {Nil}]
  /\ \A p \in Actors : pc[p] \in Holding => cur[p] \in findings
  /\ \A p \in Actors : stage[p] # "out" => pc[p] \in Operating(stage[p])

FlowKnown ==
  /\ channel \in Seq(findings) /\ due \subseteq findings
  /\ delivered \in [Hits -> Nat]
  /\ \A h \in Hits : delivered[h] > 0 => h \in findings

CountersOK ==
  /\ clock \in Nat /\ now \in [Actors -> Nat] /\ running \in BOOLEAN
  /\ spent \in [Troubles -> Nat]

KnownInv == FilesKnown /\ ControlKnown /\ FlowKnown /\ CountersOK

\* The invariant implies what the runs check.
LEMMA KnownInvImplies == KnownInv => TypeOK /\ FindingBeforeAlert
<1> SUFFICES ASSUME KnownInv PROVE TypeOK /\ FindingBeforeAlert
  OBVIOUS
<1>1. channel \in Seq(Hits)
  BY DEF KnownInv, FilesKnown, FlowKnown
<1>2. cur \in [Actors -> Hits \cup {Nil}]
  BY DEF KnownInv, FilesKnown, ControlKnown
<1> QED
  BY <1>1, <1>2 DEF KnownInv, FilesKnown, ControlKnown, FlowKnown, CountersOK,
     Known, TypeOK, FindingBeforeAlert

\* The invariant holds at the start.
LEMMA KnownInvInit == Init => KnownInv
<1> SUFFICES ASSUME Init PROVE KnownInv
  OBVIOUS
<1>1. FilesKnown
  BY EmptyIsQueue DEF Init, FilesKnown, Known, Names
<1>2. ControlKnown
  BY ActorAssumption, EmptyIsQueue
     DEF Init, ControlKnown, Known, Actors, Places, Stages, Holding
<1>3. FlowKnown
  BY DEF Init, FlowKnown
<1>4. CountersOK
  BY DEF Init, CountersOK
<1> QED
  BY <1>1, <1>2, <1>3, <1>4 DEF KnownInv

\* How an operation moves on keeps the control state in order.
LEMMA LeaveKnown ==
  ASSUME ControlKnown, NEW p \in Actors, Leave(p), UNCHANGED findings,
         pc[p] \in Operating("save")
  PROVE  ControlKnown'
<1>1. After(pc[p]) \in Places(p)
  BY ActorAssumption DEF ControlKnown, After, Places, Actors
<1>2. pc' = [q \in Actors |-> pc'[q]] /\ \A q \in Actors : pc'[q] \in Places(q)
  BY <1>1 DEF ControlKnown, Leave, Goto
<1>3. buf' = [q \in Actors |-> buf'[q]] /\ \A q \in Actors : Known(buf'[q])
  BY EmptyIsQueue DEF ControlKnown, Leave, Known
<1>4. cur' \in [Actors -> findings \cup {Nil}]
  BY DEF ControlKnown, Leave
<1>5. \A q \in Actors : pc'[q] \in Holding => cur'[q] \in findings
  BY DEF ControlKnown, Leave, Goto, After, Holding, Operating
<1>6. stage' \in [Actors -> Stages]
  BY DEF ControlKnown, Leave, Stages
<1>7. \A q \in Actors : stage'[q] # "out" => pc'[q] \in Operating(stage'[q])
  BY DEF ControlKnown, Leave, Goto, Stages
<1> QED
  BY <1>2, <1>3, <1>4, <1>5, <1>6, <1>7 DEF ControlKnown, Known

\* An operation that goes on to save keeps the control state in order,
LEMMA ModifyKnown ==
  ASSUME ControlKnown, NEW p \in Actors, NEW q, Known(q), Modify(p, q), UNCHANGED findings,
         pc[p] \in Operating("save")
  PROVE  ControlKnown'
<1>1. stage' \in [Actors -> Stages]
  BY DEF ControlKnown, Modify, Stages
<1>2. buf' = [r \in Actors |-> buf'[r]] /\ \A r \in Actors : Known(buf'[r])
  BY DEF ControlKnown, Modify, Known
<1>3. \A r \in Actors : stage'[r] # "out" => pc'[r] \in Operating(stage'[r])
  BY DEF ControlKnown, Modify
<1> QED
  BY <1>1, <1>2, <1>3 DEF ControlKnown, Modify, Known

\* so does one that only moves to its next stage,
LEMMA StageKnown ==
  ASSUME ControlKnown, NEW p \in Actors, NEW s \in Stages, Stage(p, s), UNCHANGED findings,
         s # "out" => pc[p] \in Operating(s)
  PROVE  ControlKnown'
<1>1. stage' \in [Actors -> Stages]
  BY DEF ControlKnown, Stage
<1>2. \A r \in Actors : stage'[r] # "out" => pc'[r] \in Operating(stage'[r])
  BY DEF ControlKnown, Stage
<1> QED
  BY <1>1, <1>2 DEF ControlKnown, Stage, Known

\* and so does the death of a process.
LEMMA ForgetKnown ==
  ASSUME ControlKnown, NEW S, Forget(S), UNCHANGED findings
  PROVE  ControlKnown'
BY EmptyIsQueue, ActorAssumption
   DEF ControlKnown, Forget, Known, Places, Actors, Stages, Holding

\* Spending keeps the account well typed.
LEMMA SpendOK ==
  ASSUME spent \in [Troubles -> Nat], NEW k \in Troubles, Spend(k)
  PROVE  spent' \in [Troubles -> Nat]
BY DEF Spend, Troubles

\* The queues an operation computes hold known hits only.
LEMMA ComputedKnown ==
  ASSUME KnownInv, NEW p \in Actors
  PROVE  /\ pc[p] \in Holding => Known(Enqueue(pending, cur[p], now[p]))
         /\ Known(MarkSent(pending, cur[p], now[p]))
         /\ \A t : Known(Retain(pending, t))
<1> USE DEF KnownInv, FilesKnown, ControlKnown, CountersOK, Known
<1>1. ASSUME pc[p] \in Holding PROVE Known(Enqueue(pending, cur[p], now[p]))
  <2>1. cur[p] \in findings /\ cur[p] \in Hits /\ now[p] \in Nat /\ IsQueue(pending)
    BY <1>1
  <2>2. /\ IsQueue(Enqueue(pending, cur[p], now[p]))
        /\ DOMAIN Enqueue(pending, cur[p], now[p]) = DOMAIN pending \cup {cur[p]}
    BY <2>1, EnqueueQueue
  <2> QED
    BY <2>1, <2>2
<1>2. Known(MarkSent(pending, cur[p], now[p]))
  BY MarkSentQueue
<1>3. \A t : Known(Retain(pending, t))
  BY RetainQueue
<1> QED
  BY <1>1, <1>2, <1>3

\* The steps inside pending.rs.
LEMMA OperationKnown ==
  ASSUME KnownInv, NEW p \in Actors, Operation(p)
  PROVE  KnownInv'
<1> USE DEF KnownInv
<1> DEFINE Same == UNCHANGED <<clock, now, channel, running, delivered, spent>>
<1>0. ASSUME Same, due' \subseteq findings, UNCHANGED findings
      PROVE  FlowKnown' /\ CountersOK'
  BY <1>0 DEF FlowKnown, CountersOK
<1>1. CASE LoadToEnqueue(p)
  <2>1. FilesKnown'
    BY <1>1 DEF LoadToEnqueue, files, FilesKnown, Known
  <2>2. ControlKnown'
    BY <1>1, ComputedKnown, LeaveKnown, ModifyKnown
       DEF LoadToEnqueue, files, At, Holding, Operating
  <2> QED
    BY <1>0, <1>1, <2>1, <2>2 DEF LoadToEnqueue, files, FlowKnown
<1>2. CASE LoadToMark(p)
  <2>1. FilesKnown'
    BY <1>2 DEF LoadToMark, files, FilesKnown, Known
  <2>2. ControlKnown'
    BY <1>2, ComputedKnown, ModifyKnown, LeaveKnown DEF LoadToMark, files, At, Operating
  <2> QED
    BY <1>0, <1>2, <2>1, <2>2 DEF LoadToMark, files, FlowKnown
<1>3. CASE CheckAck(p)
  <2>1. FilesKnown'
    BY <1>3 DEF CheckAck, files, FilesKnown, Known
  <2>2. ControlKnown'
    BY <1>3, LeaveKnown, StageKnown DEF CheckAck, files, At, Operating, Stages
  <2> QED
    BY <1>0, <1>3, <2>1, <2>2 DEF CheckAck, files, FlowKnown
<1>4. CASE ReadAck(p)
  <2>1. FilesKnown'
    BY <1>4 DEF ReadAck, files, FilesKnown, Known
  <2>2. pc[p] \in Operating("save")
    BY <1>4 DEF ReadAck, ControlKnown, Operating
  <2>3. ControlKnown'
    BY <1>4, <2>2, ComputedKnown, ModifyKnown, LeaveKnown DEF ReadAck, files
  <2> QED
    BY <1>0, <1>4, <2>1, <2>3 DEF ReadAck, files, FlowKnown
<1>5. CASE CreateTmp(p)
  <2>1. FilesKnown'
    BY <1>5, EmptyIsQueue DEF CreateTmp, FilesKnown, Known, Names
  <2>2. ControlKnown'
    BY <1>5, StageKnown DEF CreateTmp, Stages, ControlKnown, Operating
  <2> QED
    BY <1>0, <1>5, <2>1, <2>2 DEF CreateTmp, FlowKnown
<1>9. CASE FillTmp(p)
  <2>1. FilesKnown'
    <3>1. Known(buf[p]) /\ Known(EmptyQueue) /\ findings' = findings /\ ackFile' = ackFile
      BY <1>9, EmptyIsQueue DEF FillTmp, ControlKnown, Known
    <3>2. /\ tmp' \in {tmp, buf[p], EmptyQueue} /\ pending' \in {pending, buf[p], EmptyQueue}
          /\ mixed' \subseteq {"tmp", "queue"}
      BY <1>9 DEF FillTmp, Whole, Garbled, Put, FilesKnown
    <3>3. opened' \in [Actors -> Names]
      BY <1>9 DEF FillTmp, FilesKnown, Names
    <3> QED
      BY <3>1, <3>2, <3>3 DEF FilesKnown, Known
  <2>2. ControlKnown'
    BY <1>9, StageKnown DEF FillTmp, Stages, ControlKnown, Operating
  <2> QED
    BY <1>0, <1>9, <2>1, <2>2 DEF FillTmp, FlowKnown
<1>6. CASE Rename(p)
  <2>1. FilesKnown'
    BY <1>6 DEF Rename, FilesKnown, Known, Moved, Names
  <2>2. pc[p] \in Operating("save")
    BY <1>6 DEF Rename, ControlKnown, Operating
  <2>3. ControlKnown'
    BY <1>6, <2>2, StageKnown, LeaveKnown DEF Rename, Stages, Operating
  <2> QED
    BY <1>0, <1>6, <2>1, <2>3 DEF Rename, FlowKnown
<1>7. CASE RemoveAck(p)
  <2>1. FilesKnown'
    BY <1>7 DEF RemoveAck, FilesKnown, Known
  <2>2. pc[p] \in Operating("save") /\ pc[p] \in {"due", "apply"}
    BY <1>7 DEF RemoveAck, ControlKnown, Operating
  <2>3. ControlKnown'
    BY <1>7, <2>2, StageKnown, LeaveKnown DEF RemoveAck, Stages, Operating
  <2> QED
    BY <1>0, <1>7, <2>1, <2>3 DEF RemoveAck, FlowKnown
<1>8. CASE LoadDue(p)
  <2>1. FilesKnown'
    BY <1>8 DEF LoadDue, files, FilesKnown, Known
  <2>2. pc[p] \in Operating("save")
    BY <1>8 DEF LoadDue, ControlKnown, Operating
  <2>3. ControlKnown'
    BY <1>8, <2>2, LeaveKnown DEF LoadDue, files
  <2>4. due' \subseteq findings
    BY <1>8 DEF LoadDue, DueSet, FilesKnown, FlowKnown, Known
  <2> QED
    BY <1>0, <1>8, <2>1, <2>3, <2>4 DEF LoadDue, files
<1> QED
  BY <1>1, <1>2, <1>3, <1>4, <1>5, <1>6, <1>7, <1>8, <1>9 DEF Operation

\* A file operation that fails.
LEMMA FaultKnown ==
  ASSUME KnownInv, NEW p \in Actors, Fault(p)
  PROVE  KnownInv'
<1> USE DEF KnownInv
<1>1. FilesKnown' /\ FlowKnown'
  BY DEF Fault, files, FilesKnown, FlowKnown, Known
<1>2. CountersOK'
  BY SpendOK DEF Fault, CountersOK, Troubles
<1>3. ControlKnown'
  <2>1. CASE At(p, {"enqueue", "requeue", "mark"}) /\ Leave(p)
    BY <2>1, LeaveKnown DEF Fault, At, Operating, files
  <2>2. CASE stage[p] \in {"read", "load", "save", "rename"} /\ Leave(p)
    <3>1. pc[p] \in Operating("save")
      BY <2>2 DEF ControlKnown, Operating
    <3> QED
      BY <2>2, <3>1, LeaveKnown DEF Fault, files
  <2>3. CASE stage[p] = "unlink" /\ IF pc[p] = "due" THEN Stage(p, "load") ELSE Leave(p)
    <3>1. pc[p] \in Operating("save")
      BY <2>3 DEF ControlKnown, Operating
    <3> QED
      BY <2>3, <3>1, LeaveKnown, StageKnown DEF Fault, files, Stages, Operating
  <2>4. CASE stage[p] = "read" /\ Modify(p, Retain(pending, now[p]))
    <3>1. pc[p] \in Operating("save")
      BY <2>4 DEF ControlKnown, Operating
    <3> QED
      BY <2>4, <3>1, ComputedKnown, ModifyKnown DEF Fault, files
  <2> QED
    BY <2>1, <2>2, <2>3, <2>4 DEF Fault
<1> QED
  BY <1>1, <1>2, <1>3

\* A write that stops half way.
LEMMA FillFailsKnown ==
  ASSUME KnownInv, NEW p \in Actors, FillFails(p)
  PROVE  KnownInv'
<1> USE DEF KnownInv
<1>1. FilesKnown'
  BY EmptyIsQueue DEF FillFails, Garbled, Put, FilesKnown, Known, Names
<1>2. ControlKnown'
  <2>1. pc[p] \in Operating("save")
    BY DEF FillFails, ControlKnown, Operating
  <2> QED
    BY <2>1, LeaveKnown DEF FillFails
<1>3. FlowKnown'
  BY DEF FillFails, FlowKnown
<1>4. CountersOK'
  BY SpendOK DEF FillFails, CountersOK, Troubles
<1> QED
  BY <1>1, <1>2, <1>3, <1>4

\* The steps of a worker.
LEMMA WorkerKnown ==
  ASSUME KnownInv, NEW w \in Workers,
         \/ Notify(w) \/ WorkerExits(w)
         \/ \E h \in Hits : PersistHit(w, h) \/ PersistFails(w, h)
  PROVE  KnownInv'
<1> USE DEF KnownInv
<1>0. w \in Actors /\ w # Reporter /\ w # Acker
  BY ActorAssumption DEF Actors
<1>1. ASSUME NEW h \in Hits, PersistHit(w, h) PROVE KnownInv'
  <2>1. findings \subseteq findings' /\ h \in findings' /\ findings' \subseteq Hits
    BY <1>1 DEF PersistHit, FilesKnown
  <2>2. FilesKnown'
    BY <1>1, <2>1 DEF PersistHit, FilesKnown, Known
  <2>3. ControlKnown'
    BY <1>0, <1>1, <2>1 DEF PersistHit, ControlKnown, Known, Goto, At, Places
  <2>4. FlowKnown'
    BY <1>1, <2>1 DEF PersistHit, FlowKnown
  <2>5. CountersOK'
    BY <1>0, <1>1 DEF PersistHit, CountersOK
  <2> QED
    BY <2>2, <2>3, <2>4, <2>5
<1>2. ASSUME NEW h \in Hits, PersistFails(w, h) PROVE KnownInv'
  <2>1. CountersOK'
    BY <1>2, SpendOK DEF PersistFails, local, CountersOK, Troubles
  <2>2. FilesKnown' /\ ControlKnown' /\ FlowKnown'
    BY <1>2 DEF PersistFails, files, local, FilesKnown, ControlKnown, FlowKnown, Known
  <2> QED
    BY <2>1, <2>2
<1>3. ASSUME Notify(w) PROVE KnownInv'
  <2>1. cur[w] \in findings
    BY <1>0, <1>3 DEF Notify, At, ControlKnown, Holding
  <2>2. FilesKnown' /\ CountersOK'
    BY <1>0, <1>3 DEF Notify, files, FilesKnown, CountersOK, Known
  <2>3. ControlKnown'
    BY <1>0, <1>3 DEF Notify, files, ControlKnown, Known, Goto, At, Places, Holding
  <2>4. FlowKnown'
    BY <1>3, <2>1 DEF Notify, files, FlowKnown
  <2> QED
    BY <2>2, <2>3, <2>4
<1>4. ASSUME WorkerExits(w) PROVE KnownInv'
  <2>1. FilesKnown' /\ FlowKnown' /\ CountersOK'
    BY <1>4 DEF WorkerExits, files, local, FilesKnown, FlowKnown, CountersOK, Known
  <2>2. ControlKnown'
    BY <1>0, <1>4
       DEF WorkerExits, files, local, ControlKnown, Known, Goto, At, Places, Holding
  <2> QED
    BY <2>1, <2>2
<1> QED
  BY <1>1, <1>2, <1>3, <1>4

\* The steps of the reporter outside pending.rs.
LEMMA ReporterKnown ==
  ASSUME KnownInv, ReporterStep \/ Close \/ Start
  PROVE  KnownInv'
<1> USE DEF KnownInv
<1>0. Reporter \in Actors /\ Reporter \notin Workers
  BY ActorAssumption DEF Actors
<1>1. CASE Wake
  BY <1>0, <1>1 DEF Wake, files, FilesKnown, ControlKnown, FlowKnown, CountersOK,
     Known, Goto, At, Places, Holding
<1>2. CASE Close
  <2>1. CountersOK'
    BY <1>0, <1>2, SpendOK DEF Close, CountersOK, Troubles
  <2>2. FilesKnown' /\ FlowKnown'
    BY <1>2 DEF Close, files, FilesKnown, FlowKnown, Known
  <2>3. ControlKnown'
    BY <1>0, <1>2 DEF Close, files, ControlKnown, Known, Goto, At, Places, Holding
  <2> QED
    BY <2>1, <2>2, <2>3
<1>3. CASE TakeNotice
  <2>1. Head(channel) \in findings /\ Tail(channel) \in Seq(findings)
    BY <1>3 DEF TakeNotice, FlowKnown
  <2>2. FilesKnown' /\ FlowKnown' /\ CountersOK'
    BY <1>3, <2>1 DEF TakeNotice, files, FilesKnown, FlowKnown, CountersOK, Known
  <2>3. ControlKnown'
    BY <1>0, <1>3, <2>1 DEF TakeNotice, files, ControlKnown, Known, Goto, At, Places
  <2> QED
    BY <2>2, <2>3
<1>4. CASE Flush
  BY <1>0, <1>4 DEF Flush, files, FilesKnown, ControlKnown, FlowKnown, CountersOK,
     Known, Goto, At, Places, Holding
<1>5. CASE Rest
  <2>1. channel' \in Seq(findings)
    BY <1>5 DEF Rest, FlowKnown
  <2>2. FilesKnown' /\ FlowKnown' /\ CountersOK'
    BY <1>0, <1>5, <2>1 DEF Rest, files, FilesKnown, FlowKnown, CountersOK, Known
  <2>3. ControlKnown'
    BY <1>0, <1>5 DEF Rest, files, ControlKnown, Known, Goto, At, Places, Holding
  <2> QED
    BY <2>2, <2>3
<1>6. ASSUME NEW h \in Hits, SendOk(h) PROVE KnownInv'
  <2>1. h \in findings
    BY <1>6 DEF SendOk, FlowKnown
  <2>2. FilesKnown' /\ FlowKnown' /\ CountersOK'
    BY <1>6, <2>1 DEF SendOk, files, FilesKnown, FlowKnown, CountersOK, Known
  <2>3. ControlKnown'
    BY <1>0, <1>6, <2>1 DEF SendOk, files, ControlKnown, Known, Goto, At, Places
  <2> QED
    BY <2>2, <2>3
<1>7. ASSUME NEW h \in Hits, SendFails(h) PROVE KnownInv'
  <2>1. h \in findings
    BY <1>7 DEF SendFails, FlowKnown
  <2>2. CountersOK'
    BY <1>7, SpendOK DEF SendFails, CountersOK, Troubles
  <2>3. FilesKnown' /\ ControlKnown'
    BY <1>7 DEF SendFails, files, FilesKnown, ControlKnown, Known
  <2>4. FlowKnown'
    BY <1>7, <2>1 DEF SendFails, files, FlowKnown
  <2> QED
    BY <2>2, <2>3, <2>4
<1>8. CASE Start
  <2>1. FilesKnown' /\ FlowKnown' /\ CountersOK'
    BY <1>0, <1>8 DEF Start, files, FilesKnown, FlowKnown, CountersOK, Known
  <2>2. ControlKnown'
    <3>1. \A p \in Actors : pc'[p] \in Places(p) /\ (pc'[p] \in Holding => pc'[p] = pc[p])
      BY <1>0, <1>8 DEF Start, ControlKnown, Places, Holding
    <3>2. \A p \in Actors : stage[p] # "out" => pc'[p] = pc[p]
      BY <1>0, <1>8 DEF Start, ControlKnown, Operating, Actors
    <3> QED
      BY <1>8, <3>1, <3>2 DEF Start, files, ControlKnown, Known
  <2> QED
    BY <2>1, <2>2
<1> QED
  BY <1>1, <1>2, <1>3, <1>4, <1>5, <1>6, <1>7, <1>8 DEF ReporterStep

\* The operator's ack, the death of a process, the clock.
LEMMA OutsideKnown ==
  ASSUME KnownInv, AskForAck \/ WriteAck \/ Crash \/ AckerKilled \/ Tick
  PROVE  KnownInv'
<1> USE DEF KnownInv
<1>0. Acker \in Actors /\ Acker \notin Workers /\ Acker # Reporter
  BY ActorAssumption DEF Actors
<1>1. CASE AskForAck
  <2>1. CountersOK'
    BY <1>0, <1>1, SpendOK DEF AskForAck, CountersOK, Troubles
  <2>2. FilesKnown' /\ FlowKnown'
    BY <1>1 DEF AskForAck, FilesKnown, FlowKnown, Known
  <2>3. ControlKnown'
    BY <1>0, <1>1 DEF AskForAck, ControlKnown, Known, Goto, At, Places, Holding
  <2> QED
    BY <2>1, <2>2, <2>3
<1>2. CASE WriteAck
  <2>1. FilesKnown' /\ FlowKnown' /\ CountersOK'
    BY <1>0, <1>2 DEF WriteAck, local, FilesKnown, FlowKnown, CountersOK, Known
  <2>2. ControlKnown'
    BY <1>0, <1>2 DEF WriteAck, local, ControlKnown, Known, Goto, At, Places, Holding
  <2> QED
    BY <2>1, <2>2
<1>3. CASE Crash
  <2>1. CountersOK'
    BY <1>3, SpendOK DEF Crash, Forget, CountersOK, Troubles
  <2>2. FilesKnown' /\ FlowKnown'
    BY <1>3 DEF Crash, Forget, FilesKnown, FlowKnown, Known, Names
  <2>3. ControlKnown'
    BY <1>3, ForgetKnown DEF Crash
  <2> QED
    BY <2>1, <2>2, <2>3
<1>4. CASE AckerKilled
  <2>1. CountersOK'
    BY <1>4, SpendOK DEF AckerKilled, Forget, CountersOK, Troubles
  <2>2. FilesKnown' /\ FlowKnown'
    BY <1>4 DEF AckerKilled, Forget, FilesKnown, FlowKnown, Known, Names
  <2>3. ControlKnown'
    BY <1>4, ForgetKnown DEF AckerKilled
  <2> QED
    BY <2>1, <2>2, <2>3
<1>5. CASE Tick
  BY <1>5 DEF Tick, files, local, FilesKnown, ControlKnown, FlowKnown, CountersOK, Known
<1> QED
  BY <1>1, <1>2, <1>3, <1>4, <1>5

\* A stuttering step changes nothing the invariant reads.
LEMMA StutterKnown ==
  ASSUME KnownInv, UNCHANGED vars
  PROVE  KnownInv'
BY DEF vars, files, local, KnownInv, FilesKnown, ControlKnown, FlowKnown, CountersOK, Known

\* Every step keeps the invariant.
LEMMA KnownInvStep == KnownInv /\ [Next]_vars => KnownInv'
BY OperationKnown, FaultKnown, FillFailsKnown, WorkerKnown, ReporterKnown, OutsideKnown, StutterKnown
   DEF Next

\* Every value the program keeps has its type, in every configuration.
THEOREM TypeCorrect == Spec => []TypeOK
BY KnownInvInit, KnownInvStep, KnownInvImplies, PTL DEF Spec

\* No hit is queued or alerted before its key is on disk.
THEOREM KeyComesFirst == Spec => []FindingBeforeAlert
BY KnownInvInit, KnownInvStep, KnownInvImplies, PTL DEF Spec

-----------------------------------------------------------------------------
\* The count in the queue.  A copy of the queue anywhere (the file, the temporary
\* file, an actor's memory, however stale) counts no more alerts than are sure:
\* those that went out, less the one the reporter is about to count.

Owing(h) == Marking(h) /\ stage[Reporter] = "out"

Sure == [h \in Hits |-> IF Owing(h) THEN delivered[h] - 1 ELSE delivered[h]]

Honest(q, d) == \A h \in DOMAIN q : q[h].sent <= d[h]

CountInv ==
  /\ \A h \in Hits : Sure[h] \in Nat
  /\ Honest(pending, Sure)
  /\ tmp = Nil \/ Honest(tmp, Sure)
  /\ \A p \in Actors : Honest(buf[p], Sure)

\* Honest copies give an honest queue.
LEMMA CountInvImplies == KnownInv /\ CountInv => SentNeverOverstates
<1> SUFFICES ASSUME KnownInv, CountInv, NEW h \in DOMAIN pending
             PROVE  pending[h].sent <= delivered[h]
  BY DEF SentNeverOverstates
<1>1. h \in Hits /\ delivered[h] \in Nat /\ pending[h].sent \in Nat
  BY DEF KnownInv, FilesKnown, FlowKnown, Known, IsQueue, Item
<1>2. pending[h].sent <= Sure[h] /\ Sure[h] \in Nat
  BY <1>1 DEF CountInv, Honest
<1>3. Sure[h] <= delivered[h]
  BY <1>1 DEF Sure
<1> QED
  BY <1>1, <1>2, <1>3

\* At the start there is no record that could overstate anything.
LEMMA CountInvInit == Init => CountInv
<1> SUFFICES ASSUME Init PROVE CountInv
  OBVIOUS
<1>1. Reporter \in Actors /\ Reporter \notin Workers /\ Reporter # Acker
  BY ActorAssumption DEF Actors
<1>2. \A h \in Hits : Sure[h] = 0
  BY <1>1 DEF Init, Sure, Owing, Marking
<1> QED
  BY <1>2, EmptyIsQueue DEF Init, CountInv, Honest

\* A copy that is honest stays so as alerts go out.
LEMMA HonestGrows ==
  ASSUME NEW q, IsQueue(q), NEW d, NEW e, Honest(q, d),
         \A h \in Hits : d[h] \in Nat /\ e[h] \in Nat /\ d[h] <= e[h]
  PROVE  Honest(q, e)
<1> SUFFICES ASSUME NEW h \in DOMAIN q PROVE q[h].sent <= e[h]
  BY DEF Honest
<1>1. h \in Hits /\ q[h].sent \in Nat
  BY DEF IsQueue, Item
<1>2. q[h].sent <= d[h]
  BY DEF Honest
<1>3. d[h] \in Nat /\ e[h] \in Nat /\ d[h] <= e[h]
  BY <1>1
<1> QED
  BY <1>1, <1>2, <1>3

\* What the operations compute stays honest.
LEMMA HonestComputed ==
  ASSUME NEW q, IsQueue(q), NEW d, Honest(q, d), \A h \in Hits : d[h] \in Nat
  PROVE  /\ \A h \in Hits, t \in Nat : Honest(Enqueue(q, h, t), d)
         /\ \A t : Honest(Retain(q, t), d)
         /\ Honest(EmptyQueue, d)
BY DEF Honest, IsQueue, Item, Enqueue, Fresh, Retain, EmptyQueue

\* No step makes fewer alerts sure.
LEMMA SureGrows ==
  ASSUME KnownInv, CountInv, Next, NEW h \in Hits
  PROVE  Sure'[h] \in Nat /\ Sure[h] <= Sure'[h]
<1> USE DEF KnownInv
<1>0. Reporter \in Actors /\ Reporter \notin Workers /\ Acker # Reporter
  BY ActorAssumption DEF Actors
<1>1. delivered[h] \in Nat /\ Sure[h] \in Nat /\ Sure'[h] \in {delivered'[h], delivered'[h] - 1}
  BY DEF FlowKnown, CountInv, Sure
<1>2. CASE delivered' = delivered /\ (Owing(h)' => Owing(h))
  BY <1>1, <1>2 DEF Sure
<1>3. CASE delivered'[h] = delivered[h] + 1
  BY <1>1, <1>3 DEF Sure
<1>4. CASE delivered'[h] = delivered[h] /\ ~Owing(h)'
  BY <1>1, <1>4 DEF Sure
<1>5. CASE \E p \in Actors : Operation(p)
  <2>1. PICK p \in Actors : Operation(p)
    BY <1>5
  <2>2. Owing(h)' => Owing(h)
    BY <1>0, <2>1
       DEF Operation, LoadToEnqueue, LoadToMark, CheckAck, ReadAck, CreateTmp, FillTmp,
           Rename, RemoveAck, LoadDue, Modify, Leave, Stage, Goto, After, At, Owing, Marking,
           ControlKnown
  <2>3. delivered' = delivered
    BY <2>1 DEF Operation, LoadToEnqueue, LoadToMark, CheckAck, ReadAck, CreateTmp,
       FillTmp, Rename, RemoveAck, LoadDue
  <2> QED
    BY <1>2, <2>2, <2>3
<1>6. CASE \E p \in Actors : Fault(p) \/ FillFails(p)
  <2>1. PICK p \in Actors : Fault(p) \/ FillFails(p)
    BY <1>6
  <2>2. delivered' = delivered /\ (Owing(h)' => Owing(h))
    BY <1>0, <2>1
       DEF Fault, FillFails, Leave, Modify, Stage, Goto, After, At, Owing, Marking, ControlKnown
  <2> QED
    BY <1>2, <2>2
<1>7. ASSUME NEW w \in Workers,
             \/ Notify(w) \/ WorkerExits(w)
             \/ \E k \in Hits : PersistHit(w, k) \/ PersistFails(w, k)
      PROVE  delivered' = delivered /\ (Owing(h)' => Owing(h))
  BY <1>0, <1>7 DEF Notify, WorkerExits, PersistHit, PersistFails, local, Goto, Owing,
     Marking, ControlKnown
<1>8. CASE Wake \/ Close \/ TakeNotice \/ Flush \/ Rest \/ Start \/ AskForAck \/ WriteAck
           \/ Crash \/ AckerKilled \/ Tick
  <2>1. delivered' = delivered
    BY <1>8 DEF Wake, Close, TakeNotice, Flush, Rest, Start, AskForAck, WriteAck, Crash,
       AckerKilled, Tick
  <2>2. Owing(h)' => Owing(h)
    <3>1. CASE Wake \/ Close \/ TakeNotice \/ Flush \/ Rest
      BY <1>0, <3>1 DEF Wake, Close, TakeNotice, Flush, Rest, Goto, Owing, Marking,
         ControlKnown
    <3>2. CASE Start
      BY <1>0, <3>2 DEF Start, Owing, Marking
    <3>3. CASE AskForAck \/ WriteAck
      BY <1>0, <3>3 DEF AskForAck, WriteAck, local, Goto, Owing, Marking, ControlKnown
    <3>4. CASE Crash
      <4>1. Reporter \in {p \in Actors : InEngine(p)}
        BY <1>0 DEF InEngine
      <4>2. pc'[Reporter] = "down"
        BY <1>0, <3>4, <4>1 DEF Crash, Forget
      <4> QED
        BY <4>2 DEF Owing, Marking
    <3>5. CASE AckerKilled
      BY <1>0, <3>5 DEF AckerKilled, Forget, Owing, Marking
    <3>6. CASE Tick
      BY <3>6 DEF Tick, local, Owing, Marking
    <3> QED
      BY <1>8, <3>1, <3>2, <3>3, <3>4, <3>5, <3>6
  <2> QED
    BY <1>2, <2>1, <2>2
<1>9. ASSUME NEW k \in Hits, SendOk(k) PROVE Sure'[h] \in Nat /\ Sure[h] <= Sure'[h]
  <2>1. CASE k = h
    BY <1>3, <1>9, <2>1 DEF SendOk, FlowKnown
  <2>2. CASE k # h
    <3>1. delivered'[h] = delivered[h] /\ ~Owing(h)'
      BY <1>0, <1>9, <2>2 DEF SendOk, Owing, Marking, ControlKnown, FlowKnown
    <3> QED
      BY <1>4, <3>1
  <2> QED
    BY <2>1, <2>2
<1>10. ASSUME NEW k \in Hits, SendFails(k) PROVE Sure'[h] \in Nat /\ Sure[h] <= Sure'[h]
  <2>1. ~Owing(h)' /\ delivered'[h] \in {delivered[h], delivered[h] + 1}
    BY <1>0, <1>10 DEF SendFails, At, Owing, Marking, FlowKnown
  <2> QED
    BY <1>3, <1>4, <2>1
<1> QED
  BY <1>2, <1>5, <1>6, <1>7, <1>8, <1>9, <1>10 DEF Next, ReporterStep

\* Every copy a step makes or moves is honest.
LEMMA CountInvStep == KnownInv /\ CountInv /\ [Next]_vars => CountInv'
<1> SUFFICES ASSUME KnownInv, CountInv, [Next]_vars PROVE CountInv'
  OBVIOUS
<1>1. CASE UNCHANGED vars
  BY <1>1 DEF vars, files, local, CountInv, Honest, Sure, Owing, Marking
<1>2. CASE Next
  <2>1. \A h \in Hits : Sure[h] \in Nat /\ Sure'[h] \in Nat /\ Sure[h] <= Sure'[h]
    BY <1>2, SureGrows DEF CountInv
  <2>2. /\ IsQueue(pending) /\ (tmp = Nil \/ IsQueue(tmp))
        /\ \A p \in Actors : IsQueue(buf[p]) /\ cur[p] \in Hits \cup {Nil} /\ now[p] \in Nat
    BY DEF KnownInv, FilesKnown, ControlKnown, CountersOK, Known
  <2>3. /\ Honest(pending, Sure') /\ (tmp = Nil \/ Honest(tmp, Sure'))
        /\ \A p \in Actors : Honest(buf[p], Sure')
    BY <2>1, <2>2, HonestGrows DEF CountInv
  <2>4. /\ \A t : Honest(Retain(pending, t), Sure')
        /\ \A h \in Hits, t \in Nat : Honest(Enqueue(pending, h, t), Sure')
        /\ Honest(EmptyQueue, Sure')
    BY <2>1, <2>2, <2>3, HonestComputed
  <2>5. ASSUME \/ pending' = pending \/ pending' = EmptyQueue
               \/ pending' = tmp /\ tmp # Nil
               \/ \E p \in Actors : pending' = buf[p],
               \/ tmp' = tmp \/ tmp' = Nil
               \/ tmp' = EmptyQueue \/ \E p \in Actors : tmp' = buf[p],
               \A p \in Actors : Honest(buf'[p], Sure')
        PROVE  CountInv'
    BY <2>1, <2>3, <2>4, <2>5 DEF CountInv
  <2>6. CASE \E p \in Actors : Operation(p)
    <3>1. PICK p \in Actors : Operation(p)
      BY <2>6
    <3>2. ASSUME NEW q, Honest(q, Sure'), Modify(p, q)
          PROVE  \A r \in Actors : Honest(buf'[r], Sure')
      BY <2>3, <3>2 DEF Modify, KnownInv, ControlKnown
    <3>3. ASSUME Leave(p) \/ UNCHANGED buf
          PROVE  \A r \in Actors : Honest(buf'[r], Sure')
      BY <2>3, <2>4, <3>3 DEF Leave, KnownInv, ControlKnown
    <3>4. CASE LoadToEnqueue(p)
      <4>1. cur[p] \in Hits
        BY <3>4 DEF LoadToEnqueue, At, KnownInv, FilesKnown, ControlKnown, Holding
      <4> QED
        BY <2>2, <2>4, <2>5, <3>2, <3>3, <3>4, <4>1 DEF LoadToEnqueue, files
    <3>5. CASE LoadToMark(p)
      <4>1. p = Reporter
        BY <3>5 DEF LoadToMark, At, KnownInv, ControlKnown, Places
      <4>2. Owing(cur[p]) /\ ~Owing(cur[p])'
        BY <3>5, <4>1
           DEF LoadToMark, At, Modify, Leave, Goto, After, Owing, Marking, KnownInv, ControlKnown
      <4>3. cur[p] \in Hits /\ delivered' = delivered
        BY <3>5 DEF LoadToMark, At, KnownInv, FilesKnown, ControlKnown, Holding
      <4>4. Sure'[cur[p]] = Sure[cur[p]] + 1
        <5>1. Sure[cur[p]] = delivered[cur[p]] - 1
          BY <4>2, <4>3 DEF Sure
        <5>2. Sure'[cur[p]] = delivered'[cur[p]]
          <6>1. \A h \in Hits : ~Owing(h)' => Sure'[h] = delivered'[h]
            BY DEF Sure
          <6>2. ASSUME NEW h \in Hits, h = cur[p] PROVE ~Owing(h)'
            BY <3>5, <4>1, <6>2 DEF LoadToMark, At, Modify, Leave, Goto, After, Owing, Marking, KnownInv,
               ControlKnown
          <6> QED
            BY <4>3, <6>1, <6>2
        <5>3. delivered[cur[p]] \in Nat
          BY <4>3 DEF KnownInv, FlowKnown
        <5> QED
          BY <4>3, <5>1, <5>2, <5>3
      <4>5. Honest(MarkSent(pending, cur[p], now[p]), Sure')
        BY <2>1, <2>2, <2>3, <4>3, <4>4 DEF Honest, MarkSent, IsQueue, Item, CountInv
      <4> QED
        BY <2>5, <3>2, <3>3, <3>5, <4>5 DEF LoadToMark, files
    <3>6. CASE CheckAck(p)
      BY <2>5, <3>3, <3>6 DEF CheckAck, Stage, files
    <3>7. CASE ReadAck(p)
      BY <2>4, <2>5, <3>2, <3>3, <3>7 DEF ReadAck, files
    <3>8. CASE CreateTmp(p)
      BY <2>5, <3>3, <3>8 DEF CreateTmp, Stage
    <3>12. CASE FillTmp(p)
      BY <2>5, <3>3, <3>12 DEF FillTmp, Whole, Garbled, Put, Stage
    <3>9. CASE Rename(p)
      BY <2>5, <3>3, <3>9 DEF Rename, Stage
    <3>10. CASE RemoveAck(p)
      BY <2>5, <3>3, <3>10 DEF RemoveAck, Stage
    <3>11. CASE LoadDue(p)
      BY <2>5, <3>3, <3>11 DEF LoadDue, files
    <3> QED
      BY <3>1, <3>4, <3>5, <3>6, <3>7, <3>8, <3>9, <3>10, <3>11, <3>12
         DEF Operation
  <2>7. CASE \E p \in Actors : Fault(p)
    <3>1. PICK p \in Actors : Fault(p)
      BY <2>7
    <3>2. \A r \in Actors : Honest(buf'[r], Sure')
      BY <2>3, <2>4, <3>1 DEF Fault, Leave, Modify, Stage, KnownInv, ControlKnown
    <3> QED
      BY <2>5, <3>1, <3>2 DEF Fault, files
  <2>13. CASE \E p \in Actors : FillFails(p)
    <3>1. PICK p \in Actors : FillFails(p)
      BY <2>13
    <3>2. \A r \in Actors : Honest(buf'[r], Sure')
      BY <2>3, <2>4, <3>1 DEF FillFails, Leave, KnownInv, ControlKnown
    <3> QED
      BY <2>5, <3>1, <3>2 DEF FillFails, Garbled, Put
  <2>8. CASE Crash \/ AckerKilled
    BY <2>3, <2>4, <2>5, <2>8 DEF Crash, AckerKilled, Forget
  <2>9. ASSUME UNCHANGED <<pending, tmp, buf>> PROVE CountInv'
    BY <2>3, <2>5, <2>9
  <2>10. ASSUME NEW w \in Workers,
                \/ Notify(w) \/ WorkerExits(w)
                \/ \E h \in Hits : PersistHit(w, h) \/ PersistFails(w, h)
         PROVE  UNCHANGED <<pending, tmp, buf>>
    BY <2>10 DEF Notify, WorkerExits, PersistHit, PersistFails, files, local
  <2>11. CASE ReporterStep \/ Close \/ Start
    BY <2>9, <2>11 DEF ReporterStep, Wake, TakeNotice, Flush, Rest, SendOk, SendFails,
       Close, Start, files, local
  <2>12. CASE AskForAck \/ WriteAck \/ Tick
    BY <2>9, <2>12 DEF AskForAck, WriteAck, Tick, files, local
  <2> QED
    BY <1>2, <2>6, <2>7, <2>8, <2>9, <2>10, <2>11, <2>12, <2>13 DEF Next
<1> QED
  BY <1>1, <1>2

\* The count of alerts in the queue never overstates what went out: with any number
\* of stale copies, crashes and failed operations, and with or without a shared LOCK.
THEOREM CountIsHonest == Spec => []SentNeverOverstates
<1>1. Init => KnownInv /\ CountInv
  BY KnownInvInit, CountInvInit
<1>2. KnownInv /\ CountInv /\ [Next]_vars => (KnownInv /\ CountInv)'
  BY KnownInvStep, CountInvStep
<1>3. KnownInv /\ CountInv => SentNeverOverstates
  BY CountInvImplies
<1> QED
  BY <1>1, <1>2, <1>3, PTL DEF Spec

=============================================================================
