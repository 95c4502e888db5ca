--------------------------- MODULE PromiseProofs ----------------------------
(***************************************************************************)
(* HitAlerts implements AlertQueue when the ack is called by a thread of   *)
(* the engine: LOCK makes every operation of pending.rs one atomic step,   *)
(* taken at its rename, and a crash or an error before the rename leaves   *)
(* no trace in the queue.  From the same invariant, whoever calls the ack: *)
(* nothing but an ack takes a hit out of the queue, and every alert too    *)
(* many has its cause.                                                     *)
(***************************************************************************)
EXTENDS HitAlertsProofs

Queuing == {"enqueue", "requeue"}

\* Everybody in pending.rs takes the same LOCK: the acker is a thread of the engine,
\* or a process nobody has started yet.
Together == AckInProcess \/ spent["ack"] = 0

\* Two threads are never inside pending.rs at once.
Exclusive ==
  \A p, q \in Actors : p # q => stage[p] = "out" \/ stage[q] = "out"

\* No time anybody read lies in the future, and only an ack makes an ack file.
TimesPast ==
  /\ \A p \in Actors : now[p] <= clock
  /\ ackFile \in Nat => ackFile <= clock

AckAsked ==
  /\ ackFile # Nil => spent["ack"] > 0
  /\ pc[Acker] \in {"write", "apply"} => spent["ack"] > 0
  /\ \A p \in Actors : stage[p] \in {"read", "unlink"} => spent["ack"] > 0

\* What p is about to save is its operation applied to the queue as it is now.
Result(p) ==
  /\ pc[p] \in Queuing => buf[p] = Enqueue(pending, cur[p], now[p])
  /\ pc[p] = "mark" => buf[p] = MarkSent(pending, cur[p], now[p])
  /\ pc[p] \in {"due", "apply"} =>
       spent["ack"] > 0 /\ \E t \in 0..clock : buf[p] = Retain(pending, t)

Saving == {"save", "fill", "rename"}

\* The temporary file is p's alone: just cut to nothing, then filled with p's body.
Prepared(p) ==
  /\ stage[p] = "fill" => tmp = EmptyQueue /\ mixed = {} /\ opened[p] = "tmp"
  /\ stage[p] = "rename" => tmp = buf[p] /\ mixed = {}

ResultsCurrent ==
  /\ Readable
  /\ \A p \in Actors : (stage[p] \in Saving => Result(p)) /\ Prepared(p)

AtomicInv == Exclusive /\ TimesPast /\ AckAsked /\ ResultsCurrent

\* The invariant holds at the start.
LEMMA AtomicInit == Init => AtomicInv
BY ActorAssumption DEF Init, AtomicInv, Exclusive, TimesPast, AckAsked, ResultsCurrent,
   Readable, Prepared, Saving, Actors

-----------------------------------------------------------------------------
\* Preservation

\* A process that was not started does nothing.
LEMMA AckerIdle ==
  ASSUME Together, ~AckInProcess, KnownInv, AckAsked
  PROVE  /\ pc[Acker] = "idle" /\ stage[Acker] = "out"
         /\ ~Operation(Acker) /\ ~Fault(Acker) /\ ~FillFails(Acker)
<1>1. Acker \in Actors /\ Acker \notin Workers /\ Acker # Reporter
  BY ActorAssumption DEF Actors
<1>2. pc[Acker] = "idle"
  BY <1>1 DEF Together, AckAsked, KnownInv, ControlKnown, CountersOK, Places, Troubles
<1>3. stage[Acker] = "out"
  BY <1>1, <1>2 DEF KnownInv, ControlKnown, Operating
<1> QED
  BY <1>2, <1>3 DEF Operation, Fault, FillFails, LoadToEnqueue, LoadToMark, CheckAck,
     ReadAck, CreateTmp, FillTmp, Rename, RemoveAck, LoadDue, At

\* Without a separate process at work every actor waits for the same LOCK.
LEMMA OneLock ==
  ASSUME Together, KnownInv, AckAsked, NEW p \in Actors, AckInProcess \/ p # Acker,
         Unlocked(p), NEW q \in Actors, q # p
  PROVE  stage[q] = "out"
<1>1. CASE AckInProcess \/ q # Acker
  BY <1>1 DEF Unlocked, Rivals, InEngine
<1>2. CASE ~AckInProcess /\ q = Acker
  BY <1>2, AckerIdle
<1> QED
  BY <1>1, <1>2

\* Only asking for an ack counts as one.
LEMMA SpendAck ==
  ASSUME KnownInv, NEW k \in Troubles, k # "any", Spend(k)
  PROVE  /\ k # "ack" => spent'["ack"] = spent["ack"]
         /\ k = "ack" => spent'["ack"] = spent["ack"] + 1
         /\ spent["ack"] > 0 => spent'["ack"] > 0
         /\ spent["ack"] \in Nat
BY DEF KnownInv, CountersOK, Spend, Troubles

\* A step that leaves the queue, the temporary file, every loaded copy and every
\* operation in progress alone keeps the results current.
LEMMA ResultsUndisturbed ==
  ASSUME KnownInv, ResultsCurrent,
         UNCHANGED <<pending, tmp, mixed, opened>>, clock' \in Nat, clock <= clock',
         spent["ack"] > 0 => spent'["ack"] > 0,
         \A p \in Actors : stage'[p] \in Saving =>
             /\ stage'[p] = stage[p] /\ buf'[p] = buf[p] /\ pc'[p] = pc[p]
             /\ cur'[p] = cur[p] /\ now'[p] = now[p]
  PROVE  ResultsCurrent'
<1> SUFFICES ASSUME NEW p \in Actors, stage'[p] \in Saving
             PROVE  Result(p)' /\ Prepared(p)'
  BY DEF ResultsCurrent, Readable, Prepared, Saving
<1>1. Result(p) /\ Prepared(p)
  BY DEF ResultsCurrent, Saving
<1>2. clock \in Nat /\ 0..clock \subseteq 0..clock'
  BY DEF KnownInv, CountersOK
<1>3. Result(p)'
  BY <1>1, <1>2 DEF Result, Queuing, Saving
<1>4. Prepared(p)'
  BY <1>1 DEF Prepared, Saving
<1> QED
  BY <1>3, <1>4

\* Whoever is about to take a step inside pending.rs is there alone.
LEMMA Alone ==
  ASSUME Together, KnownInv, AckAsked, Exclusive, NEW p \in Actors,
         AckInProcess \/ p # Acker, stage[p] # "out" \/ Unlocked(p),
         NEW q \in Actors, q # p
  PROVE  stage[q] = "out"
BY OneLock DEF Exclusive

\* A step inside pending.rs moves only the stage of the actor that takes it.
LEMMA MovesOne ==
  ASSUME KnownInv, NEW p \in Actors, Operation(p) \/ Fault(p) \/ FillFails(p)
  PROVE  /\ stage[p] # "out" \/ Unlocked(p)
         /\ \A q \in Actors : q # p =>
              stage'[q] = stage[q] /\ pc'[q] = pc[q] /\ buf'[q] = buf[q]
         /\ pc'[p] \in {pc[p], After(pc[p])}
BY DEF KnownInv, ControlKnown, Operation, Fault, FillFails, LoadToEnqueue, LoadToMark,
   CheckAck, ReadAck, CreateTmp, FillTmp, Rename, RemoveAck, LoadDue, At, Leave, Modify,
   Stage, Goto

\* Into a temporary file that is p's alone the whole body goes, and nowhere else.
LEMMA FillExact ==
  ASSUME KnownInv, ResultsCurrent, NEW p \in Actors, FillTmp(p)
  PROVE  pending' = pending /\ tmp' = buf[p] /\ mixed' = {}
<1>1. stage[p] = "fill" /\ opened[p] = "tmp" /\ tmp = EmptyQueue /\ mixed = {}
  BY DEF FillTmp, ResultsCurrent, Prepared
<1>2. DOMAIN buf[p] = {} => buf[p] = EmptyQueue
  BY DEF KnownInv, ControlKnown, Known, IsQueue, EmptyQueue
<1>3. ~(tmp # buf[p] /\ ~Within(DOMAIN tmp, DOMAIN buf[p]))
  BY <1>1, <1>2, EmptyIsQueue DEF Within
<1>4. Whole("tmp", buf[p])
  BY <1>1, <1>3 DEF FillTmp, Contents
<1> QED
  BY <1>1, <1>4 DEF Whole, Put

\* A write that stops half way touches the temporary file only.
LEMMA FillFailsAside ==
  ASSUME ResultsCurrent, NEW p \in Actors, FillFails(p)
  PROVE  pending' = pending /\ Readable'
<1>1. opened[p] = "tmp" /\ mixed = {}
  BY DEF FillFails, ResultsCurrent, Prepared
<1> QED
  BY <1>1 DEF FillFails, Garbled, Put, Readable

\* The steps inside pending.rs keep the invariant.
LEMMA OperationAtomic ==
  ASSUME Together, KnownInv, AtomicInv, NEW p \in Actors, Operation(p)
  PROVE  AtomicInv'
<1> USE DEF AtomicInv
<1>0. AckInProcess \/ p # Acker
  BY AckerIdle
<1>1. \A q \in Actors : q # p => stage[q] = "out" /\ stage'[q] = "out"
  BY <1>0, MovesOne, Alone
<1>2. Exclusive'
  BY <1>1 DEF Exclusive
<1>3. UNCHANGED <<clock, now, spent>> /\ ackFile' \in {ackFile, Nil}
  BY DEF Operation, LoadToEnqueue, LoadToMark, CheckAck, ReadAck, CreateTmp, FillTmp, Rename,
     RemoveAck, LoadDue, files
<1>4. TimesPast'
  BY <1>3, ActorAssumption DEF TimesPast
<1>5. stage'[p] \in {"read", "unlink"} => spent["ack"] > 0
  <2>1. CASE LoadToEnqueue(p) \/ LoadToMark(p) \/ ReadAck(p) \/ CreateTmp(p) \/ FillTmp(p)
             \/ RemoveAck(p) \/ LoadDue(p)
    BY <2>1 DEF LoadToEnqueue, LoadToMark, ReadAck, CreateTmp, FillTmp, RemoveAck, LoadDue,
       Leave, Modify, Stage, KnownInv, ControlKnown
  <2>2. CASE CheckAck(p)
    BY <2>2 DEF CheckAck, At, Leave, Stage, AckAsked, KnownInv, ControlKnown
  <2>3. CASE Rename(p)
    BY <2>3 DEF Rename, Leave, Stage, ResultsCurrent, Result, Saving, KnownInv, ControlKnown
  <2> QED
    BY <2>1, <2>2, <2>3 DEF Operation
<1>6. AckAsked'
  <2>1. Acker \in Actors /\ Acker \notin Workers /\ Acker # Reporter
    BY ActorAssumption DEF Actors
  <2>2. pc'[Acker] \in {"write", "apply"} => pc[Acker] \in {"write", "apply"}
    BY <2>1, MovesOne DEF After, KnownInv, ControlKnown, Places
  <2> QED
    BY <1>1, <1>3, <1>5, <2>2 DEF AckAsked
<1>7. Readable'
  <2>1. CASE Rename(p)
    BY <2>1 DEF Rename, ResultsCurrent, Readable, Prepared
  <2>2. CASE CreateTmp(p)
    BY <2>2 DEF CreateTmp, ResultsCurrent, Readable
  <2>3. CASE FillTmp(p)
    BY <2>3, FillExact DEF Readable
  <2>4. CASE ~Rename(p) /\ ~CreateTmp(p) /\ ~FillTmp(p)
    BY <2>4 DEF Operation, LoadToEnqueue, LoadToMark, CheckAck, ReadAck, RemoveAck, LoadDue,
       files, ResultsCurrent, Readable
  <2> QED
    BY <2>1, <2>2, <2>3, <2>4
<1>8. \A q \in Actors : q # p => (stage'[q] \in Saving => Result(q)') /\ Prepared(q)'
  BY <1>1 DEF Prepared, Saving
<1>9. (stage'[p] \in Saving => Result(p)') /\ Prepared(p)'
  <2>2. CASE LoadToEnqueue(p)
    BY <2>2 DEF LoadToEnqueue, At, Leave, Modify, Result, Prepared, Queuing, Saving, files,
       KnownInv, ControlKnown
  <2>3. CASE LoadToMark(p)
    BY <2>3 DEF LoadToMark, At, Leave, Modify, Result, Prepared, Queuing, Saving, files,
       KnownInv, ControlKnown
  <2>4. CASE ReadAck(p)
    <3> DEFINE t == IF ackFile \in {Nil, Torn} THEN now[p] ELSE ackFile
    <3>1. t \in 0..clock
      BY DEF TimesPast, KnownInv, FilesKnown, CountersOK
    <3>2. pc[p] \in {"due", "apply"} /\ spent["ack"] > 0 /\ Readable
      BY <2>4 DEF ReadAck, AckAsked, ResultsCurrent, KnownInv, ControlKnown, Operating
    <3>3. buf'[p] = Retain(pending, t) /\ stage'[p] = "save" /\ pc' = pc
      BY <2>4, <3>2 DEF ReadAck, Modify, KnownInv, ControlKnown
    <3>4. UNCHANGED <<pending, clock, spent>>
      BY <2>4 DEF ReadAck, files
    <3> HIDE DEF t
    <3> QED
      BY <3>1, <3>2, <3>3, <3>4 DEF Result, Prepared, Queuing
  <2>5. CASE CreateTmp(p)
    <3>1. Result(p) /\ Readable /\ mixed \subseteq {"tmp", "queue"} /\ opened \in [Actors -> Names]
      BY <2>5 DEF CreateTmp, ResultsCurrent, Saving, KnownInv, FilesKnown
    <3>2. Result(p)'
      BY <2>5, <3>1 DEF CreateTmp, Stage, Result, Queuing
    <3>3. stage'[p] = "fill" /\ tmp' = EmptyQueue /\ mixed' = {} /\ opened'[p] = "tmp"
      BY <2>5, <3>1 DEF CreateTmp, Stage, Readable, KnownInv, ControlKnown
    <3> QED
      BY <3>2, <3>3 DEF Prepared
  <2>6. CASE FillTmp(p)
    <3>1. Result(p) /\ pending' = pending /\ tmp' = buf[p] /\ mixed' = {}
      BY <2>6, FillExact DEF FillTmp, ResultsCurrent, Saving
    <3>2. Result(p)'
      BY <2>6, <3>1 DEF FillTmp, Stage, Result, Queuing
    <3>3. stage'[p] = "rename" /\ buf' = buf
      BY <2>6 DEF FillTmp, Stage, KnownInv, ControlKnown
    <3> QED
      BY <3>1, <3>2, <3>3 DEF Prepared
  <2>7. CASE CheckAck(p) \/ Rename(p) \/ RemoveAck(p) \/ LoadDue(p)
    BY <2>7 DEF CheckAck, Rename, RemoveAck, LoadDue, Leave, Stage, Prepared, Saving,
       KnownInv, ControlKnown
  <2> QED
    BY <2>2, <2>3, <2>4, <2>5, <2>6, <2>7 DEF Operation
<1>10. ResultsCurrent'
  BY <1>7, <1>8, <1>9 DEF ResultsCurrent
<1> QED
  BY <1>2, <1>4, <1>6, <1>10

\* A step outside pending.rs by actors that are not inside it.
LEMMA OutsideAtomic ==
  ASSUME KnownInv, AtomicInv, UNCHANGED <<pending, tmp, mixed, opened, stage, buf>>,
         clock' \in Nat, clock <= clock',
         spent["ack"] > 0 => spent'["ack"] > 0,
         \A p \in Actors : stage[p] # "out" =>
             pc'[p] = pc[p] /\ cur'[p] = cur[p] /\ now'[p] = now[p],
         \A p \in Actors : now'[p] \in {now[p], clock, 0},
         ackFile' = ackFile \/ (spent'["ack"] > 0 /\ ackFile' \in {Torn, Nil, now[Acker]}),
         pc'[Acker] \in {"write", "apply"} =>
             pc[Acker] \in {"write", "apply"} \/ spent'["ack"] > 0
  PROVE  AtomicInv'
<1> USE DEF AtomicInv
<1>1. Exclusive'
  BY DEF Exclusive
<1>2. TimesPast'
  BY ActorAssumption DEF TimesPast, KnownInv, CountersOK, Actors
<1>3. AckAsked'
  BY DEF AckAsked
<1>4. ResultsCurrent'
  BY ResultsUndisturbed DEF Saving
<1> QED
  BY <1>1, <1>2, <1>3, <1>4

\* An ack that was asked for stays asked for.
LEMMA AcksStayAsked ==
  ASSUME KnownInv, [Next]_vars
  PROVE  spent'["ack"] = 0 => spent["ack"] = 0
<1>1. \A k \in Troubles \ {"any"} : Spend(k) => (spent'["ack"] = 0 => spent["ack"] = 0)
  BY DEF Spend, Troubles, KnownInv, CountersOK
<1>2. UNCHANGED spent \/ \E k \in Troubles \ {"any"} : Spend(k)
  BY DEF Next, Operation, Fault, FillFails, LoadToEnqueue, LoadToMark, CheckAck, ReadAck,
     CreateTmp, FillTmp, Rename, RemoveAck, LoadDue, Notify, WorkerExits, PersistHit, PersistFails, ReporterStep, Wake, Close,
     TakeNotice, Flush, Rest, SendOk, SendFails, Start, AskForAck, WriteAck, Crash, AckerKilled,
     Tick, Troubles, vars
<1> QED
  BY <1>1, <1>2

\* The ack of another process ends the common LOCK, and nothing brings it back.
LEMMA StillTogether ==
  ASSUME KnownInv, [Next]_vars, Together'
  PROVE  Together
BY AcksStayAsked DEF Together

\* Every step keeps the invariant.
LEMMA AtomicStep ==
  ASSUME Together, KnownInv, AtomicInv, [Next]_vars
  PROVE  AtomicInv'
<1>0. /\ Acker \in Actors /\ Acker \notin Workers /\ Acker # Reporter
      /\ Reporter \in Actors /\ Reporter \notin Workers /\ Workers \subseteq Actors
  BY ActorAssumption DEF Actors
<1>a. clock \in Nat /\ now \in [Actors -> Nat] /\ pc = [p \in Actors |-> pc[p]]
      /\ cur \in [Actors -> findings \cup {Nil}]
  BY DEF KnownInv, ControlKnown, CountersOK
<1>1. CASE UNCHANGED vars
  BY <1>1, <1>a, OutsideAtomic DEF vars, files, local
<1>2. CASE \E p \in Actors : Operation(p)
  BY <1>2, OperationAtomic
<1>3. ASSUME NEW p \in Actors, Fault(p) \/ FillFails(p) PROVE AtomicInv'
  <2>0. AckInProcess \/ p # Acker
    BY <1>3, AckerIdle DEF AtomicInv
  <2>1. \A q \in Actors : q # p => stage[q] = "out" /\ stage'[q] = "out"
    BY <1>3, <2>0, MovesOne, Alone DEF AtomicInv
  <2>2. \/ stage'[p] \in {"out", "load"}
        \/ stage[p] = "read" /\ stage'[p] = "save" /\ Result(p)'
    <3>1. CASE Fault(p) /\ stage[p] = "read" /\ Modify(p, Retain(pending, now[p]))
      <4>1. pc[p] \in {"due", "apply"} /\ spent["ack"] > 0 /\ now[p] \in 0..clock
        BY <3>1 DEF AtomicInv, AckAsked, TimesPast, KnownInv, ControlKnown, CountersOK,
           Operating
      <4>2. buf'[p] = Retain(pending, now[p]) /\ stage'[p] = "save" /\ pc' = pc
        BY <3>1 DEF Modify, KnownInv, ControlKnown
      <4>3. UNCHANGED <<pending, clock>> /\ spent'["ack"] > 0
        BY <3>1, <4>1, SpendAck DEF Fault, files, Troubles
      <4> QED
        BY <3>1, <4>1, <4>2, <4>3 DEF Result, Queuing
    <3> QED
      BY <1>3, <3>1 DEF Fault, FillFails, Leave, Stage, KnownInv, ControlKnown
  <2>3. UNCHANGED <<clock, now, ackFile>> /\ (spent["ack"] > 0 => spent'["ack"] > 0)
    BY <1>3, SpendAck DEF Fault, FillFails, files, Troubles
  <2>7. Readable'
    BY <1>3, FillFailsAside DEF Fault, files, AtomicInv, ResultsCurrent, Readable
  <2>4. Exclusive' /\ TimesPast' /\ ResultsCurrent'
    BY <2>1, <2>2, <2>3, <2>7
       DEF AtomicInv, Exclusive, TimesPast, ResultsCurrent, Prepared, Saving
  <2>5. pc'[Acker] \in {"write", "apply"} => pc[Acker] \in {"write", "apply"}
    BY <1>0, <1>3, MovesOne DEF After, KnownInv, ControlKnown, Places
  <2>6. AckAsked'
    BY <2>1, <2>2, <2>3, <2>5 DEF AtomicInv, AckAsked
  <2> QED
    BY <2>4, <2>6 DEF AtomicInv
<1>4. ASSUME NEW w \in Workers,
             \/ Notify(w) \/ WorkerExits(w)
             \/ \E h \in Hits : PersistHit(w, h) \/ PersistFails(w, h)
      PROVE  AtomicInv'
  <2>1. stage[w] = "out" \/ UNCHANGED <<pc, cur, now>>
    BY <1>4 DEF Notify, WorkerExits, PersistHit, PersistFails, At
  <2>2. \A p \in Actors : p # w => pc'[p] = pc[p] /\ cur'[p] = cur[p] /\ now'[p] = now[p]
    BY <1>4, <1>a DEF Notify, WorkerExits, PersistHit, PersistFails, Goto, local
  <2>3. \A p \in Actors : now'[p] \in {now[p], clock, 0}
    BY <1>4, <1>a DEF Notify, WorkerExits, PersistHit, PersistFails, local
  <2>4. UNCHANGED <<pending, tmp, mixed, opened, stage, buf, ackFile, clock>>
        /\ (spent["ack"] > 0 => spent'["ack"] > 0)
    BY <1>4, SpendAck DEF Notify, WorkerExits, PersistHit, PersistFails, files, local,
       Troubles
  <2> QED
    BY <1>0, <1>a, <2>1, <2>2, <2>3, <2>4, OutsideAtomic
<1>5. CASE ReporterStep \/ Close
  <2>1. stage[Reporter] = "out"
    BY <1>5 DEF ReporterStep, Close, Wake, TakeNotice, Flush, Rest, SendOk, SendFails, At
  <2>2. \A p \in Actors : p # Reporter =>
           pc'[p] = pc[p] /\ cur'[p] = cur[p] /\ now'[p] = now[p]
    BY <1>5, <1>a DEF ReporterStep, Close, Wake, TakeNotice, Flush, Rest, SendOk,
       SendFails, Goto
  <2>3. \A p \in Actors : now'[p] \in {now[p], clock, 0}
    BY <1>5, <1>a DEF ReporterStep, Close, Wake, TakeNotice, Flush, Rest, SendOk, SendFails
  <2>4. UNCHANGED <<pending, tmp, mixed, opened, stage, buf, ackFile, clock>>
        /\ (spent["ack"] > 0 => spent'["ack"] > 0)
    BY <1>5, SpendAck DEF ReporterStep, Close, Wake, TakeNotice, Flush, Rest, SendOk,
       SendFails, files, local, Troubles
  <2> QED
    BY <1>0, <1>a, <2>1, <2>2, <2>3, <2>4, OutsideAtomic
<1>6. CASE Start
  <2>1. \A p \in Actors : stage[p] # "out" => pc'[p] = pc[p] /\ now'[p] = now[p]
    BY <1>0, <1>6, <1>a DEF Start, KnownInv, ControlKnown, Operating
  <2>2. \A p \in Actors : now'[p] \in {now[p], clock, 0}
    BY <1>6, <1>a DEF Start
  <2>3. pc'[Acker] = pc[Acker]
    BY <1>0, <1>6 DEF Start
  <2> QED
    BY <1>6, <1>a, <2>1, <2>2, <2>3, OutsideAtomic DEF Start, files
<1>7. CASE AskForAck
  <2>1. stage[Acker] = "out" /\ spent'["ack"] > 0
    BY <1>7, SpendAck DEF AskForAck, At, Troubles
  <2>2. \A p \in Actors : p # Acker => pc'[p] = pc[p] /\ now'[p] = now[p]
    BY <1>7, <1>a DEF AskForAck, Goto
  <2>3. \A p \in Actors : now'[p] \in {now[p], clock, 0}
    BY <1>7, <1>a DEF AskForAck
  <2> QED
    BY <1>0, <1>7, <1>a, <2>1, <2>2, <2>3, OutsideAtomic DEF AskForAck
<1>8. CASE WriteAck
  <2>1. stage[Acker] = "out" /\ spent["ack"] > 0
    BY <1>8 DEF WriteAck, At, AtomicInv, AckAsked
  <2>2. \A p \in Actors : p # Acker => pc'[p] = pc[p]
    BY <1>8, <1>a DEF WriteAck, Goto
  <2> QED
    BY <1>0, <1>8, <1>a, <2>1, <2>2, OutsideAtomic DEF WriteAck, local
<1>9. CASE Crash
  <2>0. ~AckInProcess => pc[Acker] = "idle" /\ stage[Acker] = "out"
    BY AckerIdle DEF AtomicInv
  <2>1. \A p \in Actors : stage'[p] = "out" /\ now'[p] \in {0, now[p]}
                          /\ pc'[p] \in {"idle", "down"}
    BY <1>9, <2>0 DEF Crash, Forget, InEngine
  <2>2. UNCHANGED <<clock, ackFile>> /\ (spent["ack"] > 0 => spent'["ack"] > 0)
    BY <1>9, SpendAck DEF Crash, Troubles
  <2>3. Readable'
    BY <1>9 DEF Crash, AtomicInv, ResultsCurrent, Readable
  <2> QED
    BY <1>0, <1>a, <2>1, <2>2, <2>3 DEF AtomicInv, Exclusive, TimesPast, AckAsked,
       ResultsCurrent, Prepared, Saving
<1>10. CASE AckerKilled
  BY <1>10, AckerIdle DEF AckerKilled, AtomicInv
<1>11. CASE Tick
  BY <1>11, <1>a, OutsideAtomic DEF Tick, files, local
<1> QED
  BY <1>1, <1>2, <1>3, <1>4, <1>5, <1>6, <1>7, <1>8, <1>9, <1>10, <1>11 DEF Next

-----------------------------------------------------------------------------
\* The refinement

AllInv == KnownInv /\ CountInv /\ AtomicInv

\* What the reporter still has to alert, or alerted and is about to mark, is due at the
\* time its round began: nobody but the reporter marks, and it marks each hit once a
\* round.
RoundInv ==
  /\ pc[Reporter] \notin {"alert", "mark"} => due = {}
  /\ \A h \in Hits :
       /\ h \in DOMAIN pending /\ (h \in due \/ Marking(h)) => Due(pending[h], now[Reporter])
       /\ Marking(h) => h \notin due

LEMMA RoundInit == Init => RoundInv
BY EmptyIsQueue, ActorAssumption DEF Init, RoundInv, Marking, Actors

\* An actor other than the reporter that takes a step inside pending.rs leaves the
\* reporter where it is.
LEMMA ReporterStays ==
  ASSUME KnownInv, NEW p \in Actors, p # Reporter, Operation(p) \/ Fault(p) \/ FillFails(p)
  PROVE  pc'[Reporter] = pc[Reporter] /\ cur'[Reporter] = cur[Reporter]
<1>1. Reporter \in Actors /\ cur \in [Actors -> findings \cup {Nil}]
  BY DEF Actors, KnownInv, ControlKnown
<1>2. pc'[Reporter] = pc[Reporter]
  BY <1>1, MovesOne
<1>3. cur' = cur \/ cur' = [cur EXCEPT ![p] = Nil]
  BY DEF Operation, Fault, FillFails, LoadToEnqueue, LoadToMark, CheckAck, ReadAck, CreateTmp,
     FillTmp, Rename, RemoveAck, LoadDue, Leave, Modify, Stage
<1>4. cur'[Reporter] = cur[Reporter]
  BY <1>1, <1>3
<1> QED
  BY <1>2, <1>4

\* What the reporter was doing inside pending.rs decides where it comes out.
LEMMA ReporterInside ==
  ASSUME KnownInv, Operation(Reporter) \/ Fault(Reporter) \/ FillFails(Reporter)
  PROVE  /\ pc[Reporter] \in {"requeue", "due", "mark"}
         /\ pc'[Reporter] \in {pc[Reporter], IF pc[Reporter] = "requeue" THEN "drain" ELSE "alert"}
         /\ pc'[Reporter] = "mark" => cur'[Reporter] = cur[Reporter]
<1>0. Reporter \in Actors /\ Reporter \notin Workers /\ Reporter # Acker
  BY ActorAssumption DEF Actors
<1>1. /\ pc[Reporter] \in Places(Reporter) /\ stage[Reporter] \in Stages
      /\ stage[Reporter] # "out" => pc[Reporter] \in Operating(stage[Reporter])
      /\ pc = [q \in Actors |-> pc[q]]
  BY <1>0 DEF KnownInv, ControlKnown
<1>2. stage[Reporter] # "out" \/ pc[Reporter] \in {"enqueue", "requeue", "mark", "due", "apply"}
  BY DEF Operation, Fault, FillFails, LoadToEnqueue, LoadToMark, CheckAck, ReadAck, CreateTmp,
     FillTmp, Rename, RemoveAck, LoadDue, At
<1>3. pc[Reporter] \in {"requeue", "due", "mark"}
  BY <1>0, <1>1, <1>2 DEF Places, Operating, Stages
<1>4. pc'[Reporter] \in {pc[Reporter], After(pc[Reporter])}
  BY <1>0, MovesOne
<1>5. pc'[Reporter] = "mark" => cur'[Reporter] = cur[Reporter]
  <2>1. ASSUME Leave(Reporter) PROVE pc'[Reporter] # "mark"
    BY <1>0, <1>1, <1>3, <2>1 DEF Leave, Goto, After
  <2> QED
    BY <2>1 DEF Operation, Fault, FillFails, LoadToEnqueue, LoadToMark, CheckAck, ReadAck,
       CreateTmp, FillTmp, Rename, RemoveAck, LoadDue, Modify, Stage
<1> QED
  BY <1>3, <1>4, <1>5 DEF After

\* A rename is one abstract operation: a hit is queued, an alert is counted, or an
\* ack is applied.
LEMMA RenameKeepsPromise ==
  ASSUME AllInv, RoundInv, NEW p \in Actors, Rename(p)
  PROVE  Promise!ANext \/ UNCHANGED <<clock, findings, pending, delivered, spent["ack"]>>
<1> USE DEF AllInv
<1>1. Result(p) /\ tmp = buf[p] /\ pc[p] \in Operating("save")
  BY DEF Rename, AtomicInv, ResultsCurrent, Prepared, Saving, KnownInv, ControlKnown, Operating
<1>2. UNCHANGED <<clock, findings, delivered, spent>> /\ pending' \in {pending, buf[p]}
  BY <1>1 DEF Rename
<1>3. CASE pending' = pending
  BY <1>2, <1>3
<1>4. CASE pending' = buf[p] /\ pc[p] \in Queuing
  <2>1. pending' = Enqueue(pending, cur[p], now[p])
    BY <1>1, <1>4 DEF Result
  <2>2. cur[p] \in findings /\ cur[p] \in Hits /\ now[p] \in 0..clock
    BY <1>4 DEF Queuing, Holding, KnownInv, FilesKnown, ControlKnown, CountersOK,
       AtomicInv, TimesPast
  <2>3. Promise!Open(cur[p], now[p])
    BY <1>2, <2>1, <2>2 DEF Promise!Open, Promise!Enqueue, Promise!Fresh, Enqueue, Fresh
  <2> QED
    BY <2>2, <2>3 DEF Promise!ANext
<1>5. CASE pending' = buf[p] /\ pc[p] = "mark"
  <2>1. pending' = MarkSent(pending, cur[p], now[p])
    BY <1>1, <1>5 DEF Result
  <2>2. cur[p] \in Hits /\ now[p] \in 0..clock
    BY <1>5 DEF Holding, KnownInv, FilesKnown, ControlKnown, CountersOK, AtomicInv, TimesPast
  <2>3. CASE cur[p] \notin DOMAIN pending
    BY <1>2, <2>1, <2>3 DEF MarkSent, KnownInv, FilesKnown, Known, IsQueue
  <2>4. CASE cur[p] \in DOMAIN pending
    <3>1. pending'[cur[p]].sent = pending[cur[p]].sent + 1 /\ cur[p] \in DOMAIN buf[p]
      BY <1>5, <2>1, <2>4 DEF MarkSent
    <3>2. pending[cur[p]].sent + 1 <= Sure[cur[p]]
      BY <1>5, <3>1 DEF CountInv, Honest
    <3>3. delivered[cur[p]] \in Nat /\ pending[cur[p]].sent \in Nat
      BY <2>2, <2>4 DEF KnownInv, FlowKnown, FilesKnown, Known, IsQueue, Item
    <3>4. pending[cur[p]].sent < delivered[cur[p]]
      BY <2>2, <3>2, <3>3 DEF Sure
    <3>6. Due(pending[cur[p]], now[p])
      <4>1. p = Reporter
        BY <1>5 DEF KnownInv, ControlKnown, Places
      <4> QED
        BY <1>5, <2>2, <2>4, <4>1 DEF RoundInv, Marking
    <3>5. Promise!Confirm(cur[p], now[p])
      BY <1>2, <2>1, <2>2, <2>4, <3>4, <3>6
         DEF Promise!Confirm, Promise!MarkSent, MarkSent, Promise!Due, Due
    <3> QED
      BY <2>2, <3>5 DEF Promise!ANext
  <2> QED
    BY <2>3, <2>4
<1>6. CASE pending' = buf[p] /\ pc[p] \in {"due", "apply"}
  <2>1. PICK t \in 0..clock : pending' = Retain(pending, t)
    BY <1>1, <1>6 DEF Result
  <2>2. spent["ack"] > 0
    BY <1>1, <1>6 DEF Result
  <2>3. Promise!Ack(t)
    BY <1>2, <2>1, <2>2 DEF Promise!Ack, Promise!Retain, Retain
  <2> QED
    BY <2>3 DEF Promise!ANext
<1> QED
  BY <1>1, <1>2, <1>3, <1>4, <1>5, <1>6 DEF Operating, Queuing

\* What a rename makes of the queue.
LEMMA RenameResult ==
  ASSUME AllInv, NEW p \in Actors, Rename(p)
  PROVE  \/ pending' = pending
         \/ pc[p] \in Queuing /\ pending' = Enqueue(pending, cur[p], now[p])
         \/ p = Reporter /\ pc[p] = "mark" /\ pending' = MarkSent(pending, cur[p], now[p])
         \/ \E t \in 0..clock : spent["ack"] > 0 /\ pending' = Retain(pending, t)
<1> USE DEF AllInv
<1>1. Result(p) /\ tmp = buf[p] /\ pc[p] \in Operating("save")
  BY DEF Rename, AtomicInv, ResultsCurrent, Prepared, Saving, KnownInv, ControlKnown, Operating
<1>2. pending' \in {pending, buf[p]}
  BY <1>1 DEF Rename
<1>3. pc[p] = "mark" => p = Reporter
  BY DEF KnownInv, ControlKnown, Places
<1> QED
  BY <1>1, <1>2, <1>3 DEF Result, Operating, Queuing

\* A step that takes nothing up and marks nothing keeps what the round knows.
LEMMA RoundKept ==
  ASSUME AllInv, RoundInv,
         due' \subseteq due, now'[Reporter] = now[Reporter] \/ (due' = {} /\ \A h \in Hits : ~Marking(h)'),
         \A h \in Hits : Marking(h)' => Marking(h),
         pc'[Reporter] \notin {"alert", "mark"} => due' = {},
         \A h \in DOMAIN pending' :
            \/ h \in DOMAIN pending /\ pending'[h] = pending[h]
            \/ \E t \in Nat : pending'[h] = Fresh(t)
            \/ h \notin due' /\ ~Marking(h)'
  PROVE  RoundInv'
<1>1. \A t, u \in Nat : Due(Fresh(t), u)
  BY RepeatAssumption DEF Due, Fresh
<1>2. Reporter \in Actors /\ now[Reporter] \in Nat
  BY DEF AllInv, KnownInv, CountersOK, Actors
<1>3. ASSUME NEW h \in Hits, h \in DOMAIN pending', h \in due' \/ Marking(h)'
      PROVE  Due(pending'[h], now'[Reporter])
  <2>1. now'[Reporter] = now[Reporter] /\ (h \in due \/ Marking(h))
    BY <1>3
  <2>2. CASE h \in DOMAIN pending /\ pending'[h] = pending[h]
    BY <2>1, <2>2 DEF RoundInv
  <2>3. CASE \E t \in Nat : pending'[h] = Fresh(t)
    BY <1>1, <1>2, <2>1, <2>3
  <2> QED
    BY <1>3, <2>2, <2>3
<1> QED
  BY <1>3 DEF RoundInv, Due

\* The steps inside pending.rs keep what the round knows.
LEMMA OperationRound ==
  ASSUME AllInv, RoundInv, NEW p \in Actors, Operation(p)
  PROVE  RoundInv'
<1> USE DEF AllInv
<1>0. /\ now' = now /\ (due' = due \/ LoadDue(p))
      /\ \A q \in Actors : now[q] \in Nat
  BY DEF Operation, LoadToEnqueue, LoadToMark, CheckAck, ReadAck, CreateTmp, FillTmp, Rename,
     RemoveAck, LoadDue, KnownInv, CountersOK
<1>1. \A h \in Hits : Marking(h)' => Marking(h)
  <2>1. CASE p = Reporter
    BY <2>1, ReporterInside DEF Marking
  <2>2. CASE p # Reporter
    BY <2>2, ReporterStays DEF Marking
  <2> QED
    BY <2>1, <2>2
<1>2. pc'[Reporter] \notin {"alert", "mark"} => pc[Reporter] \notin {"alert", "mark"}
  <2>1. CASE p = Reporter
    BY <2>1, ReporterInside
  <2>2. CASE p # Reporter
    BY <2>2, ReporterStays
  <2> QED
    BY <2>1, <2>2
<1>3. CASE LoadDue(p)
  <2>1. /\ pending' = pending /\ due' = DueSet(pending, now[p]) /\ pc[p] = "due" /\ p = Reporter
    BY <1>3, ActorAssumption DEF LoadDue, files, AtomicInv, ResultsCurrent, KnownInv, ControlKnown,
       Operating, Places
  <2>2. pc'[Reporter] = "alert" /\ \A h \in Hits : ~Marking(h)'
    BY <1>1, <1>3, <2>1 DEF LoadDue, Leave, Goto, After, Marking, KnownInv, ControlKnown
  <2> QED
    BY <1>0, <2>1, <2>2 DEF RoundInv, DueSet, Due
<1>4. CASE ~LoadDue(p) /\ ~Rename(p)
  <2>1. pending' = pending
    <3>1. FillTmp(p) => pending' = pending
      BY FillExact DEF AtomicInv
    <3> QED
      BY <1>4, <3>1 DEF Operation, LoadToEnqueue, LoadToMark, CheckAck, ReadAck, CreateTmp,
         RemoveAck, files
  <2> QED
    BY <1>0, <1>1, <1>2, <1>4, <2>1, RoundKept DEF RoundInv
<1>5. CASE Rename(p) /\ ~LoadDue(p)
  <2>1. ASSUME NEW h \in DOMAIN pending'
        PROVE  \/ h \in DOMAIN pending /\ pending'[h] = pending[h]
               \/ \E t \in Nat : pending'[h] = Fresh(t)
               \/ h \notin due' /\ ~Marking(h)'
    <3>1. CASE pending' = pending
      BY <3>1
    <3>2. CASE pending' = Enqueue(pending, cur[p], now[p])
      <4>1. CASE h \in DOMAIN pending
        BY <3>2, <4>1 DEF Enqueue
      <4>2. CASE h \notin DOMAIN pending
        <5>1. pending'[h] = Fresh(now[p])
          BY <3>2, <4>2 DEF Enqueue
        <5> QED
          BY <1>0, <5>1
      <4> QED
        BY <4>1, <4>2
    <3>3. CASE p = Reporter /\ pc[p] = "mark" /\ pending' = MarkSent(pending, cur[p], now[p])
      <4>1. cur[p] \in Hits /\ Marking(cur[p])
        BY <3>3 DEF Marking, Holding, KnownInv, FilesKnown, ControlKnown
      <4>2. cur[p] \notin due' /\ due' = due
        BY <1>0, <1>5, <4>1 DEF RoundInv
      <4>3. stage[p] # "out" /\ (tmp = Nil => FALSE)
        BY <1>5, ActorAssumption DEF Rename, AtomicInv, ResultsCurrent, Prepared, KnownInv,
           ControlKnown, Known, IsQueue
      <4>4. ~Marking(h)'
        BY <1>5, <3>3, <4>3 DEF Rename, Leave, Goto, After, Marking, KnownInv, ControlKnown
      <4>5. CASE h = cur[p]
        BY <4>2, <4>4, <4>5
      <4>6. CASE h # cur[p]
        BY <3>3, <4>6 DEF MarkSent
      <4> QED
        BY <4>5, <4>6
    <3>4. CASE \E t \in 0..clock : pending' = Retain(pending, t)
      BY <3>4 DEF Retain
    <3> QED
      BY <1>5, <3>1, <3>2, <3>3, <3>4, RenameResult
  <2> QED
    BY <1>0, <1>1, <1>2, <1>5, <2>1, RoundKept DEF RoundInv
<1> QED
  BY <1>0, <1>3, <1>4, <1>5

\* Every step keeps what the round knows.
LEMMA RoundStep ==
  ASSUME AllInv, RoundInv, [Next]_vars
  PROVE  RoundInv'
<1> USE DEF AllInv
<1>0. /\ Reporter \in Actors /\ Reporter \notin Workers /\ Reporter # Acker
      /\ pc = [q \in Actors |-> pc[q]] /\ cur \in [Actors -> findings \cup {Nil}]
      /\ now \in [Actors -> Nat]
  BY ActorAssumption DEF Actors, KnownInv, ControlKnown, CountersOK
<1>1. ASSUME pending' = pending, due' \subseteq due,
             now'[Reporter] = now[Reporter] \/ (due' = {} /\ \A h \in Hits : ~Marking(h)'),
             \A h \in Hits : Marking(h)' => Marking(h),
             pc'[Reporter] \notin {"alert", "mark"} => due' = {}
      PROVE  RoundInv'
  BY <1>1, RoundKept
<1>2. CASE \E p \in Actors : Operation(p)
  BY <1>2, OperationRound
<1>3. ASSUME NEW p \in Actors, Fault(p) \/ FillFails(p) PROVE RoundInv'
  <2>1. UNCHANGED <<pending, due, now>>
    <3>1. FillFails(p) => pending' = pending
      BY FillFailsAside DEF AtomicInv
    <3> QED
      BY <1>3, <3>1 DEF Fault, FillFails, files
  <2>2. \A h \in Hits : Marking(h)' => Marking(h)
    BY <1>3, ReporterInside, ReporterStays DEF Marking
  <2>3. pc'[Reporter] \notin {"alert", "mark"} => pc[Reporter] \notin {"alert", "mark"}
    BY <1>3, ReporterInside, ReporterStays
  <2> QED
    BY <1>1, <2>1, <2>2, <2>3 DEF RoundInv
<1>4. ASSUME NEW w \in Workers, Notify(w) \/ WorkerExits(w)
                 \/ \E h \in Hits : PersistHit(w, h) \/ PersistFails(w, h)
      PROVE  RoundInv'
  <2>1. w # Reporter
    BY <1>0
  <2>2. /\ UNCHANGED <<pending, due>> /\ now'[Reporter] = now[Reporter]
        /\ pc'[Reporter] = pc[Reporter] /\ cur'[Reporter] = cur[Reporter]
    BY <1>0, <1>4, <2>1 DEF Notify, WorkerExits, PersistHit, PersistFails, files, local, Goto
  <2> QED
    BY <1>1, <2>2 DEF RoundInv, Marking
<1>5. CASE Wake \/ Close \/ TakeNotice \/ Flush \/ Rest \/ Start
  <2>1. due = {} /\ pending' = pending /\ due' = {}
    BY <1>0, <1>5 DEF Wake, Close, TakeNotice, Flush, Rest, Start, At, files, RoundInv
  <2>2. pc'[Reporter] # "mark"
    BY <1>0, <1>5 DEF Wake, Close, TakeNotice, Flush, Rest, Start, Goto
  <2> QED
    BY <1>1, <2>1, <2>2 DEF Marking
<1>6. ASSUME NEW g \in Hits, SendOk(g) PROVE RoundInv'
  <2>1. /\ pending' = pending /\ g \in due /\ due' = due \ {g} /\ now' = now
        /\ pc'[Reporter] = "mark" /\ cur'[Reporter] = g
    BY <1>0, <1>6 DEF SendOk, files, Goto
  <2> QED
    BY <2>1 DEF RoundInv, Marking, Due
<1>7. ASSUME NEW g \in Hits, SendFails(g) PROVE RoundInv'
  <2>1. /\ pending' = pending /\ due' = due \ {g} /\ now' = now /\ pc' = pc /\ cur' = cur
        /\ pc[Reporter] = "alert"
    BY <1>7 DEF SendFails, files, At
  <2> QED
    BY <1>1, <2>1 DEF RoundInv, Marking
<1>8. CASE AskForAck \/ WriteAck \/ AckerKilled
  <2>1. /\ UNCHANGED <<pending, due>> /\ now'[Reporter] = now[Reporter]
        /\ pc'[Reporter] = pc[Reporter] /\ cur'[Reporter] = cur[Reporter]
    BY <1>0, <1>8 DEF AskForAck, WriteAck, AckerKilled, Forget, local, Goto
  <2> QED
    BY <1>1, <2>1 DEF RoundInv, Marking
<1>9. CASE Crash
  <2>1. InEngine(Reporter)
    BY <1>0 DEF InEngine
  <2>2. pending' = pending /\ due' = {} /\ pc'[Reporter] = "down"
    BY <1>0, <1>9, <2>1 DEF Crash, Forget
  <2> QED
    BY <1>1, <2>2 DEF Marking
<1>10. CASE Tick \/ UNCHANGED vars
  <2>1. UNCHANGED <<pending, due, now, pc, cur>>
    BY <1>10 DEF Tick, vars, files, local
  <2> QED
    BY <1>1, <2>1 DEF RoundInv, Marking
<1> QED
  BY <1>2, <1>3, <1>4, <1>5, <1>6, <1>7, <1>8, <1>9, <1>10 DEF Next, ReporterStep

\* Every step is an abstract step or changes nothing the callers see.
LEMMA StepKeepsPromise ==
  ASSUME AllInv, RoundInv, AckInProcess, Next
  PROVE  Promise!ANext \/ UNCHANGED <<clock, findings, pending, delivered, spent["ack"]>>
<1> USE DEF AllInv
<1>1. ASSUME NEW p \in Actors, Operation(p), ~Rename(p)
      PROVE  UNCHANGED <<clock, findings, pending, delivered, spent["ack"]>>
  <2>1. FillTmp(p) => pending' = pending
    BY FillExact DEF AtomicInv
  <2> QED
    BY <1>1, <2>1 DEF Operation, LoadToEnqueue, LoadToMark, CheckAck, ReadAck, CreateTmp,
       FillTmp, RemoveAck, LoadDue, files
<1>2. ASSUME NEW p \in Actors, Fault(p) \/ FillFails(p)
      PROVE  UNCHANGED <<clock, findings, pending, delivered, spent["ack"]>>
  <2>1. FillFails(p) => pending' = pending
    BY FillFailsAside DEF AtomicInv
  <2> QED
    BY <1>2, <2>1, SpendAck DEF Fault, FillFails, files, Troubles
<1>3. ASSUME NEW w \in Workers, NEW h \in Hits, PersistHit(w, h) PROVE Promise!ANext
  <2>1. Promise!Record(h)
    BY <1>3 DEF PersistHit, Promise!Record
  <2> QED
    BY <2>1 DEF Promise!ANext
<1>4. ASSUME NEW w \in Workers,
             Notify(w) \/ WorkerExits(w) \/ \E h \in Hits : PersistFails(w, h)
      PROVE  UNCHANGED <<clock, findings, pending, delivered, spent["ack"]>>
  BY <1>4, SpendAck DEF Notify, WorkerExits, PersistFails, files, local, Troubles
<1>5. ASSUME NEW h \in Hits, SendOk(h) PROVE Promise!ANext
  <2>1. h \in findings
    BY <1>5 DEF SendOk, KnownInv, FlowKnown
  <2>2. Promise!Send(h)
    BY <1>5, <2>1 DEF SendOk, files, Promise!Send
  <2> QED
    BY <2>2 DEF Promise!ANext
<1>6. ASSUME NEW h \in Hits, SendFails(h)
      PROVE  Promise!ANext \/ UNCHANGED <<clock, findings, pending, delivered, spent["ack"]>>
  <2>1. h \in findings /\ spent'["ack"] = spent["ack"]
    BY <1>6, SpendAck DEF SendFails, KnownInv, FlowKnown, Troubles
  <2>2. CASE delivered' = [delivered EXCEPT ![h] = @ + 1]
    <3>1. Promise!Send(h)
      BY <1>6, <2>1, <2>2 DEF SendFails, files, Promise!Send
    <3> QED
      BY <3>1 DEF Promise!ANext
  <2>3. CASE delivered' = [delivered EXCEPT ![h] = @ + 0]
    <3>1. delivered' = delivered
      BY <2>3 DEF KnownInv, FlowKnown
    <3> QED
      BY <1>6, <2>1, <3>1 DEF SendFails, files
  <2> QED
    BY <1>6, <2>2, <2>3 DEF SendFails
<1>7. CASE Wake \/ Close \/ TakeNotice \/ Flush \/ Rest \/ Start \/ WriteAck \/ Crash
  BY <1>7, SpendAck DEF Wake, Close, TakeNotice, Flush, Rest, Start, WriteAck, Crash,
     files, Troubles
<1>8. CASE AskForAck
  <2>1. Promise!AskAck
    BY <1>8, SpendAck DEF AskForAck, Promise!AskAck, Troubles
  <2> QED
    BY <2>1 DEF Promise!ANext
<1>9. CASE AckerKilled
  BY <1>9 DEF AckerKilled
<1>10. CASE Tick
  <2>1. Promise!Pass
    BY <1>10 DEF Tick, files, Promise!Pass
  <2> QED
    BY <2>1 DEF Promise!ANext
<1> QED
  BY <1>1, <1>2, <1>3, <1>4, <1>5, <1>6, <1>7, <1>8, <1>9, <1>10, RenameKeepsPromise
     DEF Next, ReporterStep

\* The initial states are initial states of the abstract queue.
LEMMA InitKeepsPromise == Init => Promise!AInit
BY DEF Init, Promise!AInit, EmptyQueue, Promise!EmptyQueue, Troubles

\* Threads that share LOCK see one atomic queue: whatever the interleaving and
\* wherever a crash or an error strikes, every behaviour is one of AlertQueue.
THEOREM ThreadsKeepPromise ==
  ASSUME AckInProcess
  PROVE  Spec => KeepsPromise
<1>1. Init => AllInv /\ RoundInv
  BY KnownInvInit, CountInvInit, AtomicInit, RoundInit DEF AllInv
<1>2. AllInv /\ RoundInv /\ [Next]_vars => (AllInv /\ RoundInv)'
  BY KnownInvStep, CountInvStep, AtomicStep, RoundStep DEF AllInv, Together
<1>3. Init => Promise!AInit
  BY InitKeepsPromise
<1>4. AllInv /\ RoundInv /\ [Next]_vars => [Promise!ANext]_(Promise!avars)
  BY StepKeepsPromise DEF vars, files, Promise!avars
<1> QED
  BY <1>1, <1>2, <1>3, <1>4, PTL DEF Spec, KeepsPromise, Promise!ASpec

-----------------------------------------------------------------------------
\* The times in the queue.  The reporter alone marks, with the time its round began,
\* and no round began before a time that is in the queue.

RoundBegan == IF pc[Reporter] \in {"sleep", "down"} THEN clock ELSE now[Reporter]

LastPast == \A h \in DOMAIN pending : pending[h].last <= RoundBegan

\* What a rename makes of the queue while nobody acks.
LEMMA RenameGrows ==
  ASSUME AllInv, NEW p \in Actors, Rename(p), spent["ack"] = 0
  PROVE  \/ pending' = pending
         \/ pc[p] \in Queuing /\ pending' = Enqueue(pending, cur[p], now[p])
         \/ p = Reporter /\ pc[p] = "mark" /\ pending' = MarkSent(pending, cur[p], now[p])
BY RenameResult

\* The items of the queue.
LEMMA ItemsTyped ==
  ASSUME KnownInv, NEW h \in DOMAIN pending
  PROVE  pending[h].first \in Nat /\ pending[h].last \in Nat /\ pending[h].sent \in Nat
BY DEF KnownInv, FilesKnown, Known, IsQueue, Item

LEMMA LastPastInit == Init => LastPast
BY EmptyIsQueue DEF Init, LastPast

\* Whatever is renamed, the times in it are past.
LEMMA RenameLastPast ==
  ASSUME AllInv, LastPast, NEW p \in Actors, Rename(p)
  PROVE  LastPast'
<1> USE DEF AllInv
<1>1. Result(p) /\ tmp = buf[p] /\ pc[p] \in Operating("save")
  BY DEF Rename, AtomicInv, ResultsCurrent, Prepared, Saving, KnownInv, ControlKnown, Operating
<1>2. UNCHANGED <<clock, now>> /\ pending' \in {pending, buf[p]}
  BY <1>1 DEF Rename
<1>3. pc[p] = "mark" => p = Reporter
  BY DEF KnownInv, ControlKnown, Places
<1>4. RoundBegan \in Nat /\ RoundBegan <= clock /\ clock \in Nat /\ now[Reporter] \in Nat
  BY ActorAssumption DEF RoundBegan, KnownInv, CountersOK, AtomicInv, TimesPast, Actors
<1>5. RoundBegan' = RoundBegan
  <2>1. pc[p] \in {"enqueue", "requeue", "mark", "due", "apply"}
    BY <1>1 DEF Operating
  <2>2. p = Reporter => After(pc[p]) \notin {"sleep", "down"}
    BY <2>1, ActorAssumption DEF After, KnownInv, ControlKnown, Places
  <2>3. pc'[Reporter] \in {"sleep", "down"} <=> pc[Reporter] \in {"sleep", "down"}
    BY <1>2, <2>1, <2>2, ActorAssumption DEF Rename, Stage, Leave, Goto, KnownInv, ControlKnown, Actors
  <2> QED
    BY <1>2, <2>3 DEF RoundBegan, Rename
<1>6. CASE pending' = pending
  BY <1>5, <1>6 DEF LastPast
<1>7. CASE pending' = buf[p] /\ pc[p] \in Queuing
  <2>1. pending' = Enqueue(pending, cur[p], now[p])
    BY <1>1, <1>7 DEF Result
  <2> QED
    BY <1>4, <1>5, <2>1 DEF LastPast, Enqueue, Fresh
<1>8. CASE pending' = buf[p] /\ pc[p] = "mark"
  <2>1. pending' = MarkSent(pending, cur[p], now[p]) /\ now[p] = RoundBegan
    BY <1>1, <1>3, <1>8 DEF Result, RoundBegan
  <2> QED
    BY <1>4, <1>5, <2>1 DEF LastPast, MarkSent
<1>9. CASE pending' = buf[p] /\ pc[p] \in {"due", "apply"}
  <2>1. PICK t \in 0..clock : pending' = Retain(pending, t)
    BY <1>1, <1>9 DEF Result
  <2> QED
    BY <1>5, <2>1 DEF LastPast, Retain
<1> QED
  BY <1>1, <1>2, <1>6, <1>7, <1>8, <1>9 DEF Operating, Queuing

\* Every other step leaves the queue alone and begins no round before now.
LEMMA OthersLastPast ==
  ASSUME AllInv, [Next]_vars, \A p \in Actors : ~Rename(p)
  PROVE  /\ pending' = pending
         /\ RoundBegan \in Nat /\ RoundBegan' \in Nat /\ RoundBegan <= RoundBegan'
<1> USE DEF AllInv
<1>1. /\ clock \in Nat /\ now \in [Actors -> Nat] /\ Reporter \in Actors /\ now[Reporter] <= clock
      /\ pc = [p \in Actors |-> pc[p]]
  BY DEF KnownInv, CountersOK, ControlKnown, AtomicInv, TimesPast, Actors
<1>3. RoundBegan \in Nat /\ RoundBegan <= clock
  BY <1>1 DEF RoundBegan
<1>4. ASSUME UNCHANGED <<pending, clock>>, now'[Reporter] = now[Reporter],
             pc'[Reporter] \in {"sleep", "down"} <=> pc[Reporter] \in {"sleep", "down"}
      PROVE  pending' = pending /\ RoundBegan' = RoundBegan
  BY <1>4 DEF RoundBegan
<1>5. ASSUME UNCHANGED <<pending, clock>>, now'[Reporter] = clock \/ pc'[Reporter] \in {"sleep", "down"}
      PROVE  pending' = pending /\ RoundBegan' = clock
  BY <1>5 DEF RoundBegan
<1>6. ASSUME NEW p \in Actors, Operation(p) \/ Fault(p) \/ FillFails(p)
      PROVE  pending' = pending /\ RoundBegan' = RoundBegan
  <2>1. UNCHANGED <<pending, clock, now>>
    <3>1. FillTmp(p) \/ FillFails(p) => pending' = pending
      BY FillExact, FillFailsAside DEF AtomicInv
    <3> QED
      BY <1>6, <3>1 DEF Operation, Fault, FillFails, LoadToEnqueue, LoadToMark, CheckAck,
         ReadAck, CreateTmp, FillTmp, RemoveAck, LoadDue, files
  <2>2. pc'[p] \in {pc[p], After(pc[p])} /\ \A q \in Actors : q # p => pc'[q] = pc[q]
    BY <1>6, MovesOne
  <2>3. p = Reporter => pc[p] \in {"requeue", "due", "mark"}
    <3>1. pc[p] \in Places(p) /\ (stage[p] # "out" => pc[p] \in Operating(stage[p])) /\ stage[p] \in Stages
      BY DEF KnownInv, ControlKnown
    <3>2. stage[p] # "out" \/ pc[p] \in {"enqueue", "requeue", "mark", "due", "apply"}
      BY <1>6 DEF Operation, Fault, FillFails, LoadToEnqueue, LoadToMark, CheckAck, ReadAck,
         CreateTmp, FillTmp, Rename, RemoveAck, LoadDue, At
    <3> QED
      BY <3>1, <3>2, ActorAssumption DEF Places, Operating, Stages
  <2>4. p = Reporter => After(pc[p]) \in {"drain", "alert"}
    BY <2>3 DEF After
  <2> QED
    BY <1>1, <1>4, <2>1, <2>2, <2>3, <2>4
<1>7. ASSUME NEW w \in Workers, Notify(w) \/ WorkerExits(w)
                 \/ \E h \in Hits : PersistHit(w, h) \/ PersistFails(w, h)
      PROVE  pending' = pending /\ RoundBegan' = RoundBegan
  <2>1. w # Reporter
    BY ActorAssumption
  <2> QED
    BY <1>1, <1>4, <1>7, <2>1 DEF Notify, WorkerExits, PersistHit, PersistFails, files, local, Goto
<1>8. CASE Wake \/ Close \/ Flush \/ Rest \/ Start
  BY <1>1, <1>3, <1>5, <1>8 DEF Wake, Close, Flush, Rest, Start, files, Goto
<1>9. CASE TakeNotice \/ \E h \in Hits : SendOk(h) \/ SendFails(h)
  BY <1>1, <1>3, <1>4, <1>9 DEF TakeNotice, SendOk, SendFails, files, Goto, At
<1>10. CASE AskForAck \/ WriteAck \/ AckerKilled
  <2>1. Acker # Reporter
    BY ActorAssumption
  <2> QED
    BY <1>1, <1>3, <1>4, <1>10, <2>1 DEF AskForAck, WriteAck, AckerKilled, Forget, files, local, Goto
<1>11. CASE Crash
  <2>1. InEngine(Reporter) /\ Acker # Reporter
    BY ActorAssumption DEF InEngine
  <2> QED
    BY <1>1, <1>3, <1>5, <1>11, <2>1 DEF Crash, Forget, files
<1>12. CASE Tick
  BY <1>1, <1>12 DEF Tick, files, local, RoundBegan
<1>13. CASE UNCHANGED vars
  BY <1>1, <1>3, <1>4, <1>13 DEF vars, files, local
<1> QED
  BY <1>1, <1>3, <1>6, <1>7, <1>8, <1>9, <1>10, <1>11, <1>12, <1>13 DEF Next, ReporterStep

LEMMA LastPastStep ==
  ASSUME AllInv, LastPast, [Next]_vars
  PROVE  LastPast'
<1>1. CASE \E p \in Actors : Rename(p)
  BY <1>1, RenameLastPast
<1>2. CASE ~\E p \in Actors : Rename(p)
  <2>1. /\ pending' = pending
        /\ RoundBegan \in Nat /\ RoundBegan' \in Nat /\ RoundBegan <= RoundBegan'
    BY <1>2, OthersLastPast
  <2>2. ASSUME NEW h \in DOMAIN pending PROVE pending[h].last <= RoundBegan'
    BY <2>1, ItemsTyped DEF LastPast, AllInv
  <2> QED
    BY <2>1, <2>2 DEF LastPast
<1> QED
  BY <1>1, <1>2

QueueGrows ==
  spent["ack"] = 0 =>
    \A h \in DOMAIN pending :
      /\ h \in DOMAIN pending'
      /\ pending'[h].first = pending[h].first
      /\ pending'[h].sent \in {pending[h].sent, pending[h].sent + 1}
      /\ pending'[h].last >= pending[h].last

LEMMA StepGrows ==
  ASSUME Together => AllInv /\ LastPast, [Next]_vars
  PROVE  [QueueGrows]_vars
<1> SUFFICES ASSUME spent["ack"] = 0, NEW h \in DOMAIN pending
             PROVE  /\ h \in DOMAIN pending'
                    /\ pending'[h].first = pending[h].first
                    /\ pending'[h].sent \in {pending[h].sent, pending[h].sent + 1}
                    /\ pending'[h].last >= pending[h].last
  BY DEF QueueGrows
<1>0. AllInv /\ LastPast
  BY DEF Together
<1>1. pending[h].first \in Nat /\ pending[h].last \in Nat /\ pending[h].sent \in Nat
  BY <1>0, ItemsTyped DEF AllInv
<1>2. CASE pending' = pending
  BY <1>1, <1>2
<1>3. ASSUME NEW p \in Actors, pc[p] \in Queuing, pending' = Enqueue(pending, cur[p], now[p])
      PROVE  h \in DOMAIN pending' /\ pending'[h] = pending[h]
  BY <1>3 DEF Enqueue
<1>4. CASE pc[Reporter] = "mark" /\ pending' = MarkSent(pending, cur[Reporter], now[Reporter])
  <2>1. pending[h].last <= now[Reporter]
    BY <1>0, <1>4 DEF LastPast, RoundBegan
  <2> QED
    BY <1>1, <1>4, <2>1 DEF MarkSent
<1>5. CASE \E p \in Actors : Rename(p)
  BY <1>0, <1>1, <1>2, <1>3, <1>4, <1>5, RenameGrows
<1>6. CASE ~\E p \in Actors : Rename(p)
  <2>1. pending' = pending
    BY <1>0, <1>6, OthersLastPast
  <2> QED
    BY <1>2, <2>1
<1> QED
  BY <1>5, <1>6

\* Until an ack is asked for, from a thread or from a process of its own, no crash, error
\* or interleaving loses a queued hit or sets back its count or its times.
THEOREM QueueKeepsHits == Spec => QueueOnlyGrows
<1> DEFINE I == KnownInv /\ CountInv /\ (Together => AtomicInv /\ LastPast)
<1>1. Init => I
  BY KnownInvInit, CountInvInit, AtomicInit, LastPastInit
<1>2. I /\ [Next]_vars => I'
  <2> SUFFICES ASSUME I, [Next]_vars PROVE I'
    OBVIOUS
  <2>1. KnownInv' /\ CountInv'
    BY KnownInvStep, CountInvStep
  <2>2. Together' => AtomicInv' /\ LastPast'
    BY StillTogether, AtomicStep, LastPastStep DEF AllInv
  <2> QED
    BY <2>1, <2>2
<1>3. I /\ [Next]_vars => [QueueGrows]_vars
  BY StepGrows DEF AllInv
<1>4. QueueOnlyGrows <=> [][QueueGrows]_vars
  BY PTL DEF QueueOnlyGrows, QueueGrows
<1> QED
  BY <1>1, <1>2, <1>3, <1>4, PTL DEF Spec

-----------------------------------------------------------------------------
\* Alerts and their causes, until an ack is asked for.

\* What the invariant says of one hit.
Accounted(h) ==
  /\ delivered[h] > 0 => h \in DOMAIN pending
  /\ h \in DOMAIN pending =>
       delivered[h] <= pending[h].sent + Mishaps + (IF Marking(h) THEN 1 ELSE 0)
  /\ RepeatMax > 0 => delivered[h] <= RepeatMax + Mishaps
  /\ h \in due => /\ h \in DOMAIN pending
                  /\ RepeatMax > 0 => pending[h].sent < RepeatMax
  /\ Marking(h) => h \in DOMAIN pending /\ h \notin due

AlertInv == spent["ack"] = 0 => \A h \in Hits : Accounted(h)

LEMMA AlertInit == Init => AlertInv
<1> SUFFICES ASSUME Init, NEW h \in Hits PROVE Accounted(h)
  BY DEF AlertInv
<1>1. delivered[h] = 0 /\ DOMAIN pending = {} /\ due = {}
  BY EmptyIsQueue DEF Init
<1>2. pc[Reporter] # "mark"
  BY ActorAssumption DEF Init, Actors
<1>3. Mishaps = 0
  BY DEF Init, Mishaps, Troubles
<1> QED
  BY <1>1, <1>2, <1>3, RepeatAssumption DEF Accounted, Marking

\* What a trouble counts for.
LEMMA SpendMishap ==
  ASSUME KnownInv
  PROVE  /\ Mishaps \in Nat
         /\ UNCHANGED spent => Mishaps' = Mishaps
         /\ \A k \in Troubles \ {"any"} : Spend(k) =>
              /\ k \in {"crash", "fault", "miss"} => Mishaps' = Mishaps + 1
              /\ k \notin {"crash", "fault", "miss"} => Mishaps' = Mishaps
BY DEF KnownInv, CountersOK, Spend, Troubles, Mishaps

\* A step that neither sends nor marks keeps the account.
LEMMA AccountKept ==
  ASSUME AllInv, NEW h \in Hits, Accounted(h), delivered'[h] = delivered[h],
         pending' = pending \/ \E g \in Hits, t \in Nat : pending' = Enqueue(pending, g, t),
         Mishaps' = Mishaps \/ Mishaps' = Mishaps + 1,
         h \in due' => h \in due,
         Marking(h)' => Marking(h),
         Marking(h) => Marking(h)' \/ Mishaps' = Mishaps + 1
  PROVE  Accounted(h)'
<1>1. /\ delivered[h] \in Nat /\ Mishaps \in Nat /\ Mishaps' \in Nat /\ Mishaps <= Mishaps'
      /\ h \in DOMAIN pending => pending[h].sent \in Nat
  BY SpendMishap, ItemsTyped DEF AllInv, KnownInv, FlowKnown
<1>2. /\ h \in DOMAIN pending => h \in DOMAIN pending' /\ pending'[h].sent = pending[h].sent
      /\ h \in DOMAIN pending' /\ h \notin DOMAIN pending => pending'[h].sent = 0
  <2>1. CASE pending' = pending
    BY <2>1
  <2>2. ASSUME NEW g \in Hits, NEW t \in Nat, pending' = Enqueue(pending, g, t)
        PROVE  /\ h \in DOMAIN pending => h \in DOMAIN pending' /\ pending'[h] = pending[h]
               /\ h \in DOMAIN pending' /\ h \notin DOMAIN pending => pending'[h].sent = 0
    BY <2>2 DEF Enqueue, Fresh
  <2> QED
    BY <2>1, <2>2
<1>3. h \in DOMAIN pending' =>
        delivered'[h] <= pending'[h].sent + Mishaps' + (IF Marking(h)' THEN 1 ELSE 0)
  <2>1. CASE h \in DOMAIN pending
    BY <1>1, <1>2, <2>1 DEF Accounted
  <2>2. CASE h \notin DOMAIN pending
    BY <1>1, <1>2, <2>2 DEF Accounted
  <2> QED
    BY <2>1, <2>2
<1>4. RepeatMax > 0 => delivered'[h] <= RepeatMax + Mishaps'
  BY <1>1, RepeatAssumption DEF Accounted
<1> QED
  BY <1>1, <1>2, <1>3, <1>4 DEF Accounted

\* Operations: the mark's rename counts the alert that went out, and LoadDue takes what
\* the cap allows.
LEMMA OperationAccounts ==
  ASSUME AllInv, spent["ack"] = 0, NEW h \in Hits, Accounted(h), NEW p \in Actors, Operation(p)
  PROVE  Accounted(h)'
<1> USE DEF AllInv
<1>1. UNCHANGED <<delivered, spent>> /\ Mishaps' = Mishaps
  BY SpendMishap DEF Operation, LoadToEnqueue, LoadToMark, CheckAck, ReadAck, CreateTmp, FillTmp,
     Rename, RemoveAck, LoadDue
<1>2. /\ delivered[h] \in Nat /\ Mishaps \in Nat
      /\ h \in DOMAIN pending => pending[h].sent \in Nat
  BY SpendMishap, ItemsTyped DEF KnownInv, FlowKnown
<1>3. Marking(h)' => Marking(h)
  <2>1. CASE p = Reporter
    BY <2>1, ActorAssumption DEF Operation, LoadToEnqueue, LoadToMark, CheckAck, ReadAck,
       CreateTmp, FillTmp, Rename, RemoveAck, LoadDue, Leave, Modify, Stage, Goto, After, Marking, KnownInv, ControlKnown,
       Places, Actors
  <2>2. CASE p # Reporter
    BY <2>2, ReporterStays DEF Marking
  <2> QED
    BY <2>1, <2>2
<1>4. CASE p = Reporter /\ pc[p] = "mark" /\ Rename(p)
  <2>1. Result(p) /\ tmp = buf[p] /\ IsQueue(buf[p])
    BY <1>4 DEF Rename, AtomicInv, ResultsCurrent, Prepared, Saving, KnownInv, ControlKnown, Known
  <2>2. tmp # Nil
    BY <2>1, ActorAssumption DEF IsQueue
  <2>3. pending' = MarkSent(pending, cur[p], now[p])
    BY <1>4, <2>1, <2>2 DEF Rename, Result
  <2>4. pc'[Reporter] = "alert" /\ due' = due
    BY <1>4 DEF Rename, Leave, Goto, After, KnownInv, ControlKnown
  <2>5. ~Marking(h)' /\ (Marking(h) <=> cur[p] = h)
    BY <1>4, <2>4 DEF Marking
  <2>6. CASE cur[p] = h
    <3>1. h \in DOMAIN pending /\ h \notin due
      BY <2>5, <2>6 DEF Accounted
    <3>2. h \in DOMAIN pending' /\ pending'[h].sent = pending[h].sent + 1
      BY <2>3, <2>6, <3>1 DEF MarkSent
    <3> QED
      BY <1>1, <1>2, <2>4, <2>5, <2>6, <3>1, <3>2 DEF Accounted
  <2>7. CASE cur[p] # h
    <3>1. /\ h \in DOMAIN pending' <=> h \in DOMAIN pending
          /\ h \in DOMAIN pending => pending'[h] = pending[h]
      BY <2>3, <2>7 DEF MarkSent
    <3> QED
      BY <1>1, <1>2, <2>4, <2>5, <2>7, <3>1 DEF Accounted
  <2> QED
    BY <2>6, <2>7
<1>5. CASE LoadDue(p)
  <2>1. /\ pending' = pending /\ due' = DueSet(pending, now[p]) /\ pc[p] = "due"
    BY <1>5 DEF LoadDue, files, AtomicInv, ResultsCurrent, KnownInv, ControlKnown, Operating
  <2>2. p = Reporter
    BY <2>1 DEF KnownInv, ControlKnown, Places
  <2>3. ~Marking(h) /\ ~Marking(h)'
    BY <1>3, <2>1, <2>2 DEF Marking
  <2> QED
    BY <1>1, <1>2, <2>1, <2>3, RepeatAssumption DEF Accounted, DueSet, Due
<1>6. CASE ~(p = Reporter /\ pc[p] = "mark" /\ Rename(p)) /\ ~LoadDue(p)
  <2>1. due' = due
    BY <1>6 DEF Operation, LoadToEnqueue, LoadToMark, CheckAck, ReadAck, CreateTmp, FillTmp, Rename,
       RemoveAck
  <2>2. pending' = pending \/ \E g \in Hits, t \in Nat : pending' = Enqueue(pending, g, t)
    <3>1. CASE Rename(p)
      <4>1. pc[p] \in Queuing => cur[p] \in Hits /\ now[p] \in Nat
        BY DEF Queuing, Holding, KnownInv, FilesKnown, ControlKnown, CountersOK
      <4> QED
        BY <1>6, <3>1, <4>1, RenameGrows
    <3>2. CASE ~Rename(p)
      <4>1. FillTmp(p) => pending' = pending
        BY FillExact DEF AtomicInv
      <4> QED
        BY <1>6, <3>2, <4>1 DEF Operation, LoadToEnqueue, LoadToMark, CheckAck, ReadAck, CreateTmp,
           RemoveAck, files
    <3> QED
      BY <3>1, <3>2
  <2>3. Marking(h) => Marking(h)'
    <3>1. CASE p = Reporter /\ pc[p] = "mark"
      <4>1. stage[p] \notin {"read", "unlink"}
        BY <3>1 DEF KnownInv, ControlKnown, Operating
      <4>2. (LoadToMark(p) /\ Readable) \/ CreateTmp(p) \/ FillTmp(p)
        BY <1>6, <3>1, <4>1 DEF Operation, LoadToEnqueue, CheckAck, ReadAck, RemoveAck, At,
           AtomicInv, ResultsCurrent
      <4> QED
        BY <4>2 DEF LoadToMark, CreateTmp, FillTmp, Modify, Stage, Marking
    <3>2. CASE p # Reporter
      BY <3>2, ReporterStays DEF Marking
    <3> QED
      BY <3>1, <3>2 DEF Marking
  <2> QED
    BY <1>1, <1>3, <2>1, <2>2, <2>3, AccountKept
<1> QED
  BY <1>4, <1>5, <1>6

\* An operation that fails has its fault.
LEMMA FaultAccounts ==
  ASSUME AllInv, NEW h \in Hits, Accounted(h), NEW p \in Actors, Fault(p) \/ FillFails(p)
  PROVE  Accounted(h)'
<1> USE DEF AllInv
<1>1. UNCHANGED <<delivered, pending, due>> /\ Mishaps' = Mishaps + 1
  <2>1. FillFails(p) => pending' = pending
    BY FillFailsAside DEF AtomicInv
  <2> QED
    BY <2>1, SpendMishap DEF Fault, FillFails, files, Troubles
<1>2. Marking(h)' => Marking(h)
  <2>1. CASE p = Reporter
    BY <2>1, ActorAssumption DEF Fault, FillFails, Leave, Modify, Stage, Goto, After, Marking, KnownInv,
       ControlKnown, Places, Actors
  <2>2. CASE p # Reporter
    BY <2>2, ReporterStays DEF Marking
  <2> QED
    BY <2>1, <2>2
<1> QED
  BY <1>1, <1>2, AccountKept

LEMMA StepAccounts ==
  ASSUME KnownInv, Together => AllInv, AlertInv, [Next]_vars
  PROVE  AlertInv'
<1>0. spent'["ack"] = 0 => spent["ack"] = 0
  BY AcksStayAsked
<1> SUFFICES ASSUME spent["ack"] = 0, NEW h \in Hits, Accounted(h) PROVE Accounted(h)'
  BY <1>0 DEF AlertInv
<1>a. AllInv
  BY DEF Together
<1> USE <1>a DEF AllInv
<1>1. /\ delivered[h] \in Nat /\ Mishaps \in Nat /\ Reporter \in Actors /\ delivered \in [Hits -> Nat]
      /\ h \in DOMAIN pending => pending[h].sent \in Nat
      /\ pc = [p \in Actors |-> pc[p]] /\ cur \in [Actors -> findings \cup {Nil}]
  BY SpendMishap, ItemsTyped DEF KnownInv, FlowKnown, ControlKnown, Actors
<1>2. CASE \E p \in Actors : Operation(p) \/ Fault(p) \/ FillFails(p)
  BY <1>2, OperationAccounts, FaultAccounts
<1>3. ASSUME NEW w \in Workers, Notify(w) \/ WorkerExits(w)
                 \/ \E g \in Hits : PersistHit(w, g) \/ PersistFails(w, g)
      PROVE  Accounted(h)'
  <2>1. w # Reporter
    BY ActorAssumption
  <2>2. UNCHANGED <<delivered, pending, due>> /\ (Marking(h)' <=> Marking(h))
    BY <1>1, <1>3, <2>1 DEF Notify, WorkerExits, PersistHit, PersistFails, files, local, Goto, Marking
  <2>3. Mishaps' = Mishaps \/ Mishaps' = Mishaps + 1
    BY <1>3, SpendMishap DEF Notify, WorkerExits, PersistHit, PersistFails, Troubles
  <2> QED
    BY <2>2, <2>3, AccountKept
<1>4. CASE Wake \/ Close \/ TakeNotice \/ Flush \/ Rest \/ Start
  <2>1. UNCHANGED <<delivered, pending, due>>
    BY <1>4 DEF Wake, Close, TakeNotice, Flush, Rest, Start, files
  <2>2. ~Marking(h) /\ ~Marking(h)'
    <3>1. pc[Reporter] # "mark"
      BY <1>1, <1>4 DEF Wake, Close, TakeNotice, Flush, Rest, Start, At
    <3>2. pc'[Reporter] # "mark"
      BY <1>1, <1>4 DEF Wake, Close, TakeNotice, Flush, Rest, Start, Goto
    <3> QED
      BY <3>1, <3>2 DEF Marking
  <2>3. Mishaps' = Mishaps
    BY <1>4, SpendMishap DEF Wake, Close, TakeNotice, Flush, Rest, Start, Troubles
  <2> QED
    BY <2>1, <2>2, <2>3, AccountKept
<1>5. ASSUME NEW g \in Hits, SendOk(g) PROVE Accounted(h)'
  <2>1. /\ pending' = pending /\ g \in due /\ due' = due \ {g} /\ Mishaps' = Mishaps
        /\ delivered' = [delivered EXCEPT ![g] = @ + 1] /\ pc[Reporter] = "alert"
    BY <1>5, SpendMishap DEF SendOk, files, At
  <2>2. pc'[Reporter] = "mark" /\ cur'[Reporter] = g
    BY <1>1, <1>5 DEF SendOk, Goto
  <2>3. ~Marking(h) /\ (Marking(h)' <=> h = g)
    BY <2>1, <2>2 DEF Marking
  <2>4. CASE h = g
    BY <1>1, <2>1, <2>3, <2>4, RepeatAssumption DEF Accounted
  <2>5. CASE h # g
    BY <1>1, <2>1, <2>3, <2>5, AccountKept
  <2> QED
    BY <2>4, <2>5
<1>6. ASSUME NEW g \in Hits, SendFails(g) PROVE Accounted(h)'
  <2>1. /\ pending' = pending /\ g \in due /\ due' = due \ {g} /\ Mishaps' = Mishaps + 1
        /\ pc' = pc /\ pc[Reporter] = "alert"
    BY <1>6, SpendMishap DEF SendFails, files, At, Troubles
  <2>2. ~Marking(h) /\ ~Marking(h)'
    BY <2>1 DEF Marking
  <2>3. delivered'[h] = delivered[h] \/ (h = g /\ delivered'[h] = delivered[h] + 1)
    BY <1>1, <1>6 DEF SendFails
  <2>4. CASE h = g /\ delivered'[h] = delivered[h] + 1
    BY <1>1, <2>1, <2>2, <2>4, RepeatAssumption DEF Accounted
  <2>5. CASE delivered'[h] = delivered[h]
    BY <2>1, <2>2, <2>5, AccountKept
  <2> QED
    BY <2>3, <2>4, <2>5
<1>7. CASE AskForAck \/ WriteAck \/ AckerKilled
  <2>1. Acker # Reporter
    BY ActorAssumption
  <2>2. UNCHANGED <<delivered, pending, due>> /\ (Marking(h)' <=> Marking(h))
    BY <1>1, <1>7, <2>1 DEF AskForAck, WriteAck, AckerKilled, Forget, files, local, Goto, Marking
  <2>3. Mishaps' = Mishaps
    BY <1>7, SpendMishap DEF AskForAck, WriteAck, AckerKilled, Troubles
  <2> QED
    BY <2>2, <2>3, AccountKept
<1>8. CASE Crash
  <2>1. InEngine(Reporter) /\ Acker # Reporter
    BY ActorAssumption DEF InEngine
  <2>2. UNCHANGED <<delivered, pending>> /\ due' = {} /\ ~Marking(h)'
    BY <1>1, <1>8, <2>1 DEF Crash, Forget, files, Marking
  <2>3. Mishaps' = Mishaps + 1
    BY <1>8, SpendMishap DEF Crash, Troubles
  <2> QED
    BY <2>2, <2>3, AccountKept
<1>9. CASE Tick \/ UNCHANGED vars
  <2>1. UNCHANGED <<delivered, pending, due, spent>> /\ (Marking(h)' <=> Marking(h))
    BY <1>9 DEF Tick, vars, files, local, Marking
  <2> QED
    BY <2>1, SpendMishap, AccountKept
<1> QED
  BY <1>2, <1>3, <1>4, <1>5, <1>6, <1>7, <1>8, <1>9 DEF Next, ReporterStep

\* Until an ack is asked for, every alert beyond the count in the queue or the cap has a
\* crash, a failed operation or a failed send of its own as its cause.
THEOREM ExtraAlertsHaveCauses == Spec => []AlertsAccountedFor
<1> DEFINE I == KnownInv /\ CountInv /\ (Together => AtomicInv) /\ AlertInv
<1>1. Init => I
  BY KnownInvInit, CountInvInit, AtomicInit, AlertInit
<1>2. I /\ [Next]_vars => I'
  <2> SUFFICES ASSUME I, [Next]_vars PROVE I'
    OBVIOUS
  <2>1. KnownInv' /\ CountInv'
    BY KnownInvStep, CountInvStep
  <2>2. Together' => AtomicInv'
    BY StillTogether, AtomicStep
  <2>3. AlertInv'
    BY StepAccounts DEF AllInv
  <2> QED
    BY <2>1, <2>2, <2>3
<1>3. I => AlertsAccountedFor
  BY DEF AlertInv, Accounted, AlertsAccountedFor
<1> QED
  BY <1>1, <1>2, <1>3, PTL DEF Spec

=============================================================================
