---------------------------- MODULE KeyWalkProofs ---------------------------
(***************************************************************************)
(* Theorems about KeyWalk, for every number of workers, batch size, width  *)
(* of the hashing groups, set of spans and set of funded hashes.           *)
(***************************************************************************)
EXTENDS KeyWalk, TLAPS

Hit == {"save"} \cup Saving

\* The bookkeeping of one worker: between batches the walker's point is start plus
\* base; within a batch slot i holds the hashes of start plus base plus i and the
\* point is a batch ahead; a hit names a funded hash.
InStep(w) ==
  /\ pc[w] = "batch" => point[w] = start[w] + base[w]
  /\ pc[w] \in {"look"} \cup Hit =>
       /\ out[w] = [i \in Slots |-> start[w] + base[w] + i]
       /\ point[w] = start[w] + base[w] + Batch
  /\ pc[w] \in Hit => slot[w] < Batch /\ HitOf(w) \in Funded

StepInv == TypeOK /\ \A w \in Workers : InStep(w)

-----------------------------------------------------------------------------
\* The hashing groups

\* A slot is found again from its group and its lane in it.
LEMMA GroupAndLane ==
  ASSUME NEW i \in Nat
  PROVE  (i \div Lanes) * Lanes + (i % Lanes) = i
<1>1. Lanes \in Nat \ {0}
  BY WalkAssumption
<1> QED
  BY <1>1, SMTT(20)

\* Grouped hashing, with a padded last group, puts every hash where its key is.
LEMMA HashesInPlace ==
  ASSUME NEW p \in Nat
  PROVE  HashMany(Emitted(p)) = [i \in Slots |-> p + i]
<1>1. ASSUME NEW i \in Slots PROVE Lane(i \div Lanes, i % Lanes) = i
  <2>1. i \in Nat /\ i < Batch
    BY WalkAssumption DEF Slots
  <2>2. (i \div Lanes) * Lanes + (i % Lanes) = i
    BY <2>1, GroupAndLane
  <2> QED
    BY <2>1, <2>2 DEF Lane
<1>2. \A i \in Slots : Emitted(p)[Lane(i \div Lanes, i % Lanes)] = p + i
  BY <1>1 DEF Emitted
<1> QED
  BY <1>2 DEF HashMany

-----------------------------------------------------------------------------
\* Every worker keeps in step

LEMMA StepInit == Init => StepInv
BY WalkAssumption DEF Init, StepInv, TypeOK, InStep, Slots, Places, Forms, Hit, Saving

\* The next lookup is one of this batch or its end.
LEMMA OnwardType ==
  ASSUME TypeOK, NEW w \in Workers, slot[w] < Batch, Onward(w), UNCHANGED both
  PROVE  /\ slot' \in [Workers -> 0 .. Batch]
         /\ form' \in [Workers -> IF both' THEN Forms ELSE {"comp"}]
         /\ \A v \in Workers \ {w} : slot'[v] = slot[v] /\ form'[v] = form[v]
<1>1. slot[w] \in Nat /\ slot[w] + 1 \in 0 .. Batch
  BY WalkAssumption DEF TypeOK
<1>2. CASE form[w] = "comp" /\ both
  BY <1>2 DEF TypeOK, Onward, Forms
<1>3. CASE ~(form[w] = "comp" /\ both)
  BY <1>1, <1>3 DEF TypeOK, Onward, Forms
<1> QED
  BY <1>2, <1>3

\* A worker is in step as long as nothing of its own changes.
LEMMA OthersStay ==
  ASSUME NEW v \in Workers, InStep(v),
         pc'[v] = pc[v], start'[v] = start[v], base'[v] = base[v],
         point'[v] = point[v], out'[v] = out[v], slot'[v] = slot[v], form'[v] = form[v]
  PROVE  InStep(v)'
BY DEF InStep, HitOf

\* What a worker writes is an entry of the file.
LEMMA WriteType ==
  ASSUME StepInv, NEW w \in Workers, NEW what \in {"stamp", "key", "blank", "torn"},
         NEW hit \in Hashes \cup {Nil}, Write(w, what, hit)
  PROVE  file' \in Seq(Entries)
BY DEF StepInv, TypeOK, Write, Entries

\* A hit is the hash of a key.
LEMMA HitType ==
  ASSUME TypeOK, NEW w \in Workers
  PROVE  HitOf(w) \in Hashes
<1>1. start[w] + base[w] + slot[w] \in Nat
  BY WalkAssumption DEF TypeOK
<1>2. form[w] \in Forms
  BY DEF TypeOK, Forms
<1> QED
  BY <1>1, <1>2 DEF HitOf, Hashes, Keys

\* The walk of a worker.
LEMMA WalkStep ==
  ASSUME StepInv, NEW w \in Workers, Walk(w)
  PROVE  StepInv'
<1> USE DEF StepInv
<1>1. CASE Begin(w)
  <2>1. TypeOK'
    <3>1. start' \in [Workers -> Nat] /\ point' \in [Workers -> Nat]
      BY <1>1, WalkAssumption DEF Begin, TypeOK, walker
    <3>2. base' \in [Workers -> Nat]
      <4>1. base' = base \/ base' = [base EXCEPT ![w] = 0]
        BY <1>1 DEF Begin, walker
      <4>2. base \in [Workers -> Nat] /\ 0 \in Nat
        BY DEF TypeOK
      <4> QED
        BY <4>1, <4>2
    <3>4. out' = out
      BY <1>1 DEF Begin, walker
    <3>3. begun' \in Nat
      BY <1>1 DEF Begin, TypeOK
    <3> QED
      BY <1>1, <3>1, <3>2, <3>3, <3>4 DEF Begin, TypeOK, Places, shared, loop, disk
  <2>2. ASSUME NEW v \in Workers \ {w} PROVE InStep(v)'
    BY <1>1, OthersStay DEF Begin, TypeOK, walker, loop
  <2>3. InStep(w)'
    <3>1. CASE running
      <4>1. PICK s \in Starts : start' = [start EXCEPT ![w] = s] /\ point' = [point EXCEPT ![w] = s]
        BY <1>1, <3>1 DEF Begin
      <4>2. start'[w] = s /\ point'[w] = s /\ base'[w] = 0 /\ pc'[w] = "batch" /\ s \in Nat
        BY <1>1, <3>1, <4>1, WalkAssumption DEF Begin, TypeOK
      <4> QED
        BY <4>2 DEF InStep, Hit, Saving
    <3>2. CASE ~running
      BY <1>1, <3>2 DEF Begin, TypeOK, InStep, Hit, Saving
    <3> QED
      BY <3>1, <3>2
  <2> QED
    BY <2>1, <2>2, <2>3
<1>2. CASE NextBatch(w)
  <2>1. point[w] \in Nat /\ start[w] \in Nat /\ base[w] \in Nat /\ point[w] = start[w] + base[w]
    BY <1>2 DEF TypeOK, NextBatch, InStep
  <2>2. HashMany(Emitted(point[w])) = [i \in Slots |-> point[w] + i]
    BY <2>1, HashesInPlace
  <2>3. TypeOK'
    <3>1. HashMany(Emitted(point[w])) \in [Slots -> Nat]
      BY <2>1, <2>2, WalkAssumption DEF Slots
    <3>2. out' \in [Workers -> [Slots -> Nat]]
      BY <1>2, <3>1 DEF NextBatch, TypeOK
    <3>3. point' \in [Workers -> Nat] /\ slot' \in [Workers -> 0 .. Batch]
      BY <1>2, WalkAssumption DEF NextBatch, TypeOK
    <3>4. form' \in [Workers -> IF both' THEN Forms ELSE {"comp"}]
      BY <1>2 DEF NextBatch, TypeOK, Forms, shared
    <3> QED
      BY <1>2, <3>2, <3>3, <3>4 DEF NextBatch, TypeOK, Places, shared, disk, bounds
  <2>4. ASSUME NEW v \in Workers \ {w} PROVE InStep(v)'
    BY <1>2, OthersStay DEF NextBatch, TypeOK
  <2>5. InStep(w)'
    <3>1. out'[w] = [i \in Slots |-> start[w] + base[w] + i]
      BY <1>2, <2>1, <2>2 DEF NextBatch, TypeOK
    <3>2. point'[w] = start[w] + base[w] + Batch
      BY <1>2, <2>1 DEF NextBatch, TypeOK
    <3> QED
      BY <1>2, <3>1, <3>2 DEF NextBatch, TypeOK, InStep, Hit, Saving
  <2> QED
    BY <2>3, <2>4, <2>5
<1>3. CASE EndSpan(w)
  <2>1. TypeOK'
    BY <1>3 DEF EndSpan, TypeOK, Places, shared, walker, loop, disk, bounds
  <2>2. ASSUME NEW v \in Workers \ {w} PROVE InStep(v)'
    BY <1>3, OthersStay DEF EndSpan, TypeOK, walker, loop
  <2>3. InStep(w)'
    BY <1>3 DEF EndSpan, TypeOK, InStep, Hit, Saving
  <2> QED
    BY <2>1, <2>2, <2>3
<1>4. CASE Look(w)
  <2>1. slot[w] \in Slots /\ slot[w] < Batch
    BY <1>4, WalkAssumption DEF Look, Slots, TypeOK
  <2>2. CASE <<out[w][slot[w]], form[w]>> \in Funded
    <3>1. HitOf(w) \in Funded
      BY <1>4, <2>1, <2>2 DEF Look, InStep, HitOf
    <3>2. TypeOK'
      BY <1>4, <2>2 DEF Look, TypeOK, Places, shared, walker, loop, disk, bounds
    <3>3. ASSUME NEW v \in Workers \ {w} PROVE InStep(v)'
      BY <1>4, <2>2, OthersStay DEF Look, TypeOK, walker, loop
    <3>4. InStep(w)'
      BY <1>4, <2>1, <2>2, <3>1 DEF Look, TypeOK, InStep, HitOf, Hit, Saving, walker, loop
    <3> QED
      BY <3>2, <3>3, <3>4
  <2>3. CASE <<out[w][slot[w]], form[w]>> \notin Funded
    <3>1. Onward(w) /\ UNCHANGED both /\ UNCHANGED pc
      BY <1>4, <2>3 DEF Look, shared
    <3>2. TypeOK'
      BY <1>4, <2>1, <3>1, OnwardType DEF Look, TypeOK, shared, walker, disk, bounds
    <3>3. ASSUME NEW v \in Workers \ {w} PROVE InStep(v)'
      BY <1>4, <2>1, <3>1, OnwardType, OthersStay DEF Look, walker
    <3>4. InStep(w)'
      BY <1>4, <3>1 DEF Look, InStep, Hit, Saving, walker
    <3> QED
      BY <3>2, <3>3, <3>4
  <2> QED
    BY <2>2, <2>3
<1>5. CASE BatchDone(w)
  <2>1. TypeOK'
    <3>1. base' \in [Workers -> Nat]
      BY <1>5, WalkAssumption DEF BatchDone, TypeOK
    <3> QED
      BY <1>5, <3>1 DEF BatchDone, TypeOK, Places, shared, loop, disk, bounds
  <2>2. ASSUME NEW v \in Workers \ {w} PROVE InStep(v)'
    BY <1>5, OthersStay DEF BatchDone, TypeOK, loop
  <2>3. InStep(w)'
    <3>1. point[w] = start[w] + base[w] + Batch
      BY <1>5 DEF BatchDone, InStep
    <3>2. point'[w] = start'[w] + base'[w]
      BY <1>5, <3>1, WalkAssumption DEF BatchDone, TypeOK
    <3> QED
      BY <1>5, <3>2 DEF BatchDone, TypeOK, InStep, Hit, Saving
  <2> QED
    BY <2>1, <2>2, <2>3
<1> QED
  BY <1>1, <1>2, <1>3, <1>4, <1>5 DEF Walk

\* persist.
LEMMA PersistStep ==
  ASSUME StepInv, NEW w \in Workers, Persist(w)
  PROVE  StepInv'
<1> USE DEF StepInv
<1>1. CASE Stamp(w) \/ Record(w) \/ Part(w)
  <2>1. /\ UNCHANGED <<shared, walker, loop, bounds, failed>>
        /\ pc[w] \in Hit
        /\ \E p \in Saving : pc' = [pc EXCEPT ![w] = p]
    BY <1>1 DEF Stamp, Record, Part, Hit, Saving
  <2>2. file' \in Seq(Entries)
    <3>1. Nil \in Hashes \cup {Nil} /\ HitOf(w) \in Hashes \cup {Nil}
      BY HitType
    <3> QED
      BY <1>1, <3>1, WriteType DEF Stamp, Record, Part
  <2>3. lock' \in Workers \cup {Nil}
    BY <1>1 DEF Stamp, Record, Part, TypeOK
  <2>4. TypeOK'
    BY <2>1, <2>2, <2>3 DEF TypeOK, Places, Saving, shared, walker, loop, bounds
  <2>5. ASSUME NEW v \in Workers \ {w} PROVE InStep(v)'
    BY <2>1, OthersStay DEF TypeOK, walker, loop
  <2>6. InStep(w)'
    BY <2>1 DEF TypeOK, InStep, HitOf, Hit, Saving, walker, loop
  <2> QED
    BY <2>4, <2>5, <2>6
<1>2. CASE Synced(w) \/ SaveFails(w)
  <2>1. /\ UNCHANGED <<shared, walker, begun>> /\ Onward(w) /\ lock' = Nil
        /\ pc[w] \in Hit /\ pc' = [pc EXCEPT ![w] = "look"]
    BY <1>2 DEF Synced, SaveFails, Hit, Saving, bounds
  <2>2. slot[w] < Batch
    BY <2>1 DEF InStep
  <2>3. /\ slot' \in [Workers -> 0 .. Batch]
        /\ form' \in [Workers -> IF both' THEN Forms ELSE {"comp"}]
        /\ \A v \in Workers \ {w} : slot'[v] = slot[v] /\ form'[v] = form[v]
    BY <2>1, <2>2, OnwardType DEF shared
  <2>4. file' \in Seq(Entries)
    <3>1. Nil \in Hashes \cup {Nil}
      OBVIOUS
    <3> QED
      BY <1>2, <3>1, WriteType DEF Synced, SaveFails, TypeOK
  <2>5. failed' \subseteq Hashes /\ spent' \in Nat
    <3>1. HitOf(w) \in Hashes
      BY HitType
    <3>2. failed' \in {failed, failed \cup {HitOf(w)}}
      BY <1>2 DEF Synced, SaveFails
    <3>3. spent' = spent \/ spent' = spent + 1
      BY <1>2 DEF Synced, SaveFails, Spend, bounds
    <3> QED
      BY <3>1, <3>2, <3>3 DEF TypeOK
  <2>6. TypeOK'
    BY <2>1, <2>3, <2>4, <2>5 DEF TypeOK, Places, shared, walker
  <2>7. ASSUME NEW v \in Workers \ {w} PROVE InStep(v)'
    BY <2>1, <2>3, OthersStay DEF TypeOK, walker
  <2>8. InStep(w)'
    BY <2>1 DEF TypeOK, InStep, Hit, Saving, walker
  <2> QED
    BY <2>6, <2>7, <2>8
<1> QED
  BY <1>1, <1>2 DEF Persist

\* The invariant of the walk is inductive.
LEMMA StepNext == StepInv /\ [Next]_vars => StepInv'
<1> SUFFICES ASSUME StepInv, [Next]_vars PROVE StepInv'
  OBVIOUS
<1>1. ASSUME NEW w \in Workers, Walk(w) \/ Persist(w) PROVE StepInv'
  BY <1>1, WalkStep, PersistStep
<1>2. CASE Halt
  <2>1. TypeOK'
    BY <1>2 DEF StepInv, TypeOK, Halt, walker, loop, disk, bounds
  <2>2. ASSUME NEW v \in Workers PROVE InStep(v)'
    BY <1>2, OthersStay DEF StepInv, Halt, walker, loop
  <2> QED
    BY <2>1, <2>2 DEF StepInv
<1>3. CASE Crash
  <2>1. spent' \in Nat
    BY <1>3 DEF StepInv, TypeOK, Crash, Spend
  <2>2. pc' \in [Workers -> Places] /\ lock' \in Workers \cup {Nil}
    BY <1>3 DEF Crash, Places
  <2>3. TypeOK'
    BY <1>3, <2>1, <2>2 DEF StepInv, TypeOK, Crash, walker, loop
  <2>4. ASSUME NEW v \in Workers PROVE InStep(v)'
    BY <1>3 DEF Crash, InStep, Hit, Saving
  <2> QED
    BY <2>3, <2>4 DEF StepInv
<1>4. CASE Spawn
  <2>1. pc' \in [Workers -> Places]
    BY <1>4 DEF Spawn, Places
  <2>2. TypeOK'
    BY <1>4, <2>1 DEF StepInv, TypeOK, Spawn, walker, loop, disk, bounds
  <2>3. ASSUME NEW v \in Workers PROVE InStep(v)'
    BY <1>4 DEF Spawn, InStep, Hit, Saving
  <2> QED
    BY <2>2, <2>3 DEF StepInv
<1>5. CASE UNCHANGED vars
  <2>1. TypeOK'
    BY <1>5 DEF StepInv, TypeOK, vars, shared, walker, loop, disk, bounds
  <2>2. ASSUME NEW v \in Workers PROVE InStep(v)'
    BY <1>5, OthersStay DEF StepInv, vars, walker, loop
  <2> QED
    BY <2>1, <2>2 DEF StepInv
<1> QED
  BY <1>1, <1>2, <1>3, <1>4, <1>5 DEF Next

\* Every variable keeps its type, and no slot leaves the batch: among it that the
\* uncompressed form is only looked up where it is configured (engine.rs:328).
THEOREM WalkTypeCorrect == Spec => []TypeOK
<1>1. StepInv => TypeOK
  BY DEF StepInv
<1> QED
  BY <1>1, StepInit, StepNext, PTL DEF Spec

-----------------------------------------------------------------------------
\* What is saved is funded

\* Only persist writes to the file, one entry at a time and at its end, and the key
\* it writes is that of the hit.
LEMMA FileGrows ==
  ASSUME StepInv, [Next]_vars
  PROVE  \/ file' = file
         \/ \E w \in Workers, e \in Entries :
              /\ file' = Append(file, e)
              /\ e.what = "key" => e.hit = HitOf(w) /\ pc[w] = "stamped"
<1>1. ASSUME NEW w \in Workers, Walk(w) PROVE file' = file
  BY <1>1 DEF Walk, Begin, NextBatch, EndSpan, Look, BatchDone, disk
<1>2. ASSUME NEW w \in Workers, Persist(w), file' # file
      PROVE  \E e \in Entries : /\ file' = Append(file, e)
                                /\ e.what = "key" => e.hit = HitOf(w) /\ pc[w] = "stamped"
  <2>1. HitOf(w) \in Hashes
    BY HitType DEF StepInv
  <2>2. CASE Stamp(w)
    <3> DEFINE e == [by |-> w, what |-> "stamp", hit |-> Nil]
    <3> QED
      BY <2>2 DEF Stamp, Write, Entries
  <2>3. CASE Record(w)
    BY <2>1, <2>3 DEF Record, Write, Entries
  <2>4. CASE Part(w)
    BY <2>4 DEF Part, Write, Entries
  <2>5. CASE SaveFails(w)
    BY <1>2, <2>5 DEF SaveFails, Write, Entries
  <2>6. CASE Synced(w)
    BY <1>2, <2>6 DEF Synced
  <2> QED
    BY <1>2, <2>2, <2>3, <2>4, <2>5, <2>6 DEF Persist
<1>3. CASE Halt \/ Crash \/ Spawn \/ UNCHANGED vars
  BY <1>3 DEF Halt, Crash, Spawn, vars, disk
<1> QED
  BY <1>1, <1>2, <1>3 DEF Next

\* What is in the file stays in it.
LEMMA SavedStays ==
  ASSUME StepInv, [Next]_vars
  PROVE  /\ Saved \subseteq Saved'
         /\ \A n \in DOMAIN file : n \in DOMAIN file' /\ file'[n] = file[n]
<1>1. file \in Seq(Entries)
  BY DEF StepInv, TypeOK
<1>2. \A n \in DOMAIN file : n \in DOMAIN file' /\ file'[n] = file[n]
  BY <1>1, FileGrows
<1> QED
  BY <1>2 DEF Saved, KeyLines

\* A saved private key is one whose hash is funded in the form its record is marked
\* with (engine.rs:335, :392), whatever the spans, the groups and the interleaving.
THEOREM SavedKeyIsFunded == Spec => []SavedIsFunded
<1>1. Init => SavedIsFunded
  BY DEF Init, SavedIsFunded, KeyLines
<1>2. StepInv /\ SavedIsFunded /\ [Next]_vars => SavedIsFunded'
  <2> SUFFICES ASSUME StepInv, SavedIsFunded, [Next]_vars, NEW n \in DOMAIN file',
                      file'[n].what = "key"
               PROVE  file'[n].hit \in Funded
    BY DEF SavedIsFunded, KeyLines
  <2>1. file \in Seq(Entries)
    BY DEF StepInv, TypeOK
  <2>2. CASE n \in DOMAIN file
    BY <2>2, SavedStays DEF SavedIsFunded, KeyLines
  <2>3. CASE n \notin DOMAIN file
    <3>1. PICK w \in Workers, e \in Entries :
            /\ file' = Append(file, e)
            /\ e.what = "key" => e.hit = HitOf(w) /\ pc[w] = "stamped"
      BY <2>3, FileGrows
    <3>2. file'[n] = e
      BY <2>1, <2>3, <3>1
    <3>3. HitOf(w) \in Funded
      BY <3>1, <3>2 DEF StepInv, InStep, Hit, Saving
    <3> QED
      BY <3>1, <3>2, <3>3
  <2> QED
    BY <2>2, <2>3
<1> QED
  BY <1>1, <1>2, StepInit, StepNext, PTL DEF Spec

-----------------------------------------------------------------------------
\* Nothing is passed over

\* A worker that has written its record has its hit in the file.
PassInv ==
  /\ NothingPassedOver
  /\ \A w \in Workers : pc[w] \in {"written", "parted"} => HitOf(w) \in Saved

\* The hash a lookup of worker w is about.
At(w) == <<start[w] + base[w] + slot[w], form[w]>>

\* A lookup puts exactly its own hash behind the worker.
LEMMA OnwardPasses ==
  ASSUME StepInv, NEW w \in Workers, pc[w] \in {"look"} \cup Hit, slot[w] < Batch,
         Onward(w), pc'[w] \in {"look"} \cup Hit, UNCHANGED <<both, start, base>>,
         NEW h \in Hashes, Passed(w, h)'
  PROVE  Passed(w, h) \/ h = At(w)
<1>1. start[w] \in Nat /\ base[w] \in Nat /\ slot[w] \in Nat
  BY WalkAssumption DEF StepInv, TypeOK
<1>2. h[1] \in Nat /\ h[2] \in Forms /\ h = <<h[1], h[2]>>
  BY DEF Hashes, Keys
<1>3. form[w] \in Forms /\ (form[w] = "uncomp" => both)
  BY DEF StepInv, TypeOK, Forms
<1> DEFINE o == h[1] - start[w] - base[w]
<1>4. /\ h[2] = "uncomp" => both
      /\ h[1] >= start[w]
      /\ o < 0 \/ o < slot'[w] \/ (o = slot'[w] /\ h[2] = "comp" /\ form'[w] = "uncomp")
  BY DEF Passed
<1>5. CASE form[w] = "comp" /\ both
  <2>1. form'[w] = "uncomp" /\ slot'[w] = slot[w]
    BY <1>5 DEF Onward, StepInv, TypeOK
  <2>2. CASE o < 0 \/ o < slot[w]
    BY <1>4, <2>2 DEF Passed, Hit, Saving, Places
  <2>3. CASE o = slot[w] /\ h[2] = "comp"
    BY <1>1, <1>2, <1>5, <2>3 DEF At
  <2> QED
    BY <1>4, <2>1, <2>2, <2>3
<1>6. CASE ~(form[w] = "comp" /\ both)
  <2>1. form'[w] = "comp" /\ slot'[w] = slot[w] + 1
    BY <1>6 DEF Onward, StepInv, TypeOK
  <2>2. CASE o < 0 \/ o < slot[w]
    BY <1>4, <2>2 DEF Passed, Hit, Saving, Places
  <2>3. CASE o = slot[w]
    <3>1. h[1] = start[w] + base[w] + slot[w]
      BY <1>1, <1>2, <2>3
    <3>2. CASE h[2] = form[w]
      BY <1>2, <3>1, <3>2 DEF At
    <3>3. CASE h[2] # form[w]
      <4>1. h[2] = "comp" /\ form[w] = "uncomp"
        BY <1>2, <1>3, <1>4, <1>6, <3>3 DEF Forms
      <4> QED
        BY <1>4, <2>3, <4>1 DEF Passed, Hit, Saving, Places
    <3> QED
      BY <3>2, <3>3
  <2> QED
    BY <1>1, <1>2, <1>4, <2>1, <2>2, <2>3
<1> QED
  BY <1>5, <1>6

\* A worker none of whose own state changes has passed what it had.
LEMMA OthersPassed ==
  ASSUME NEW v \in Workers, NEW h, Passed(v, h)', UNCHANGED both,
         pc'[v] = pc[v], start'[v] = start[v], base'[v] = base[v],
         slot'[v] = slot[v], form'[v] = form[v]
  PROVE  Passed(v, h)
BY DEF Passed

\* What was saved or failed remains so.
LEMMA DoneStays ==
  ASSUME StepInv, [Next]_vars
  PROVE  Saved \cup failed \subseteq Saved' \cup failed'
<1>1. failed \subseteq failed'
  BY DEF Next, Walk, Begin, NextBatch, EndSpan, Look, BatchDone, Persist, Stamp, Record, Part,
         Synced, SaveFails, Halt, Crash, Spawn, vars, disk
<1> QED
  BY <1>1, SavedStays

\* The lookups of one worker, and what it saves of them.
LEMMA PassesOnlyDone ==
  ASSUME StepInv, PassInv, NEW w \in Workers, Walk(w) \/ Persist(w),
         NEW h \in Funded, Passed(w, h)'
  PROVE  Passed(w, h) \/ h \in Saved' \cup failed'
<1>1. h \in Hashes
  BY WalkAssumption
<1>2. start[w] \in Nat /\ base[w] \in Nat /\ slot[w] \in Nat /\ h[1] \in Nat
  BY <1>1, WalkAssumption DEF StepInv, TypeOK, Hashes, Keys
<1>3. CASE Begin(w)
  <2>1. pc'[w] = "batch" /\ base'[w] = 0 /\ start'[w] \in Nat
    BY <1>3, WalkAssumption DEF Begin, Passed, StepInv, TypeOK, Places
  <2> QED
    BY <1>2, <2>1 DEF Passed
<1>4. CASE NextBatch(w)
  BY <1>2, <1>4 DEF NextBatch, Passed, StepInv, TypeOK, Places, shared
<1>5. CASE EndSpan(w)
  BY <1>5 DEF EndSpan, Passed, StepInv, TypeOK
<1>6. CASE Look(w)
  <2>1. slot[w] \in Slots /\ slot[w] < Batch
    BY <1>6, WalkAssumption DEF Look, Slots, StepInv, TypeOK
  <2>2. out[w][slot[w]] = start[w] + base[w] + slot[w]
    BY <1>6, <2>1 DEF Look, StepInv, InStep
  <2>3. CASE At(w) \in Funded
    BY <1>6, <2>2, <2>3 DEF At, Look, Passed, StepInv, TypeOK, Places, walker, loop, shared
  <2>4. CASE At(w) \notin Funded
    <3>1. Onward(w) /\ UNCHANGED <<both, start, base, pc>> /\ pc[w] = "look"
      BY <1>6, <2>2, <2>4 DEF At, Look, shared, walker
    <3> QED
      BY <1>1, <2>1, <2>4, <3>1, OnwardPasses
  <2> QED
    BY <2>3, <2>4
<1>7. CASE BatchDone(w)
  <2>1. base'[w] = base[w] + Batch /\ pc'[w] = "batch" /\ slot[w] = Batch /\ pc[w] = "look"
    BY <1>7 DEF BatchDone, StepInv, TypeOK
  <2>2. h[1] >= start[w] /\ (h[2] = "uncomp" => both) /\ h[1] - start[w] - (base[w] + Batch) < 0
    BY <1>7, <2>1 DEF Passed, BatchDone, shared
  <2>3. h[1] - start[w] - base[w] < slot[w]
    BY <1>2, <2>1, <2>2, WalkAssumption
  <2> QED
    BY <1>1, <2>1, <2>2, <2>3 DEF Passed, Places
<1>8. CASE Stamp(w) \/ Record(w) \/ Part(w)
  BY <1>8 DEF Stamp, Record, Part, Passed, StepInv, TypeOK, Places, shared, walker, loop
<1>9. CASE Synced(w) \/ SaveFails(w)
  <2>1. /\ Onward(w) /\ UNCHANGED <<both, start, base>>
        /\ pc[w] \in Hit /\ pc'[w] = "look" /\ slot[w] < Batch
    BY <1>9 DEF Synced, SaveFails, Hit, Saving, StepInv, TypeOK, InStep, shared, walker
  <2>2. Passed(w, h) \/ h = HitOf(w)
    BY <1>1, <2>1, OnwardPasses DEF At, HitOf
  <2>3. HitOf(w) \in Saved' \cup failed'
    <3>1. CASE Synced(w)
      BY <3>1 DEF Synced, PassInv, Saved, KeyLines
    <3>2. CASE SaveFails(w)
      BY <3>2 DEF SaveFails
    <3> QED
      BY <1>9, <3>1, <3>2
  <2> QED
    BY <2>2, <2>3
<1> QED
  BY <1>3, <1>4, <1>5, <1>6, <1>7, <1>8, <1>9 DEF Walk, Persist

\* A worker that has written its record has its hit in the file.
LEMMA WrittenIsSaved ==
  ASSUME StepInv, PassInv, [Next]_vars, NEW v \in Workers, pc'[v] \in {"written", "parted"}
  PROVE  HitOf(v)' \in Saved'
<1>1. CASE Record(v)
  <2>1. file \in Seq(Entries) /\ HitOf(v)' = HitOf(v)
    BY <1>1 DEF Record, HitOf, StepInv, TypeOK, walker, loop
  <2>2. file' = Append(file, [by |-> v, what |-> "key", hit |-> HitOf(v)])
    BY <1>1 DEF Record, Write
  <2>3. Len(file) + 1 \in DOMAIN file' /\ file'[Len(file) + 1].hit = HitOf(v)
        /\ file'[Len(file) + 1].what = "key"
    BY <2>1, <2>2
  <2> QED
    BY <2>1, <2>3 DEF Saved, KeyLines
<1>2. CASE ~Record(v)
  <2>1. pc[v] \in {"written", "parted"} /\ HitOf(v)' = HitOf(v)
    <3>1. CASE Halt \/ UNCHANGED vars
      BY <3>1 DEF Halt, vars, HitOf, walker, loop
    <3>2. CASE Crash \/ Spawn
      BY <3>2 DEF Crash, Spawn
    <3>3. ASSUME NEW w \in Workers, Walk(w)
          PROVE  pc[v] \in {"written", "parted"} /\ HitOf(v)' = HitOf(v)
      <4>1. w # v
        BY <3>3 DEF Walk, Begin, NextBatch, EndSpan, Look, BatchDone, StepInv, TypeOK
      <4> QED
        BY <3>3, <4>1, OnwardType DEF Walk, Begin, NextBatch, EndSpan, Look, BatchDone, HitOf,
           Onward, StepInv, TypeOK, walker, loop
    <3>4. ASSUME NEW w \in Workers, Persist(w)
          PROVE  pc[v] \in {"written", "parted"} /\ HitOf(v)' = HitOf(v)
      BY <1>2, <3>4 DEF Persist, Stamp, Record, Part, Synced, SaveFails, HitOf,
           Onward, StepInv, TypeOK, walker, loop
    <3> QED
      BY <3>1, <3>2, <3>3, <3>4 DEF Next
  <2> QED
    BY <2>1, SavedStays DEF PassInv
<1> QED
  BY <1>1, <1>2

\* Every funded key of a walk the lookups are past was saved, or its persist reported
\* an error: no slot, form or batch is skipped (engine.rs:323-336).
THEOREM NoFundedKeySkipped == Spec => []NothingPassedOver
<1>1. Init => PassInv
  BY DEF Init, PassInv, NothingPassedOver, Passed, Places
<1>2. StepInv /\ PassInv /\ [Next]_vars => PassInv'
  <2> SUFFICES ASSUME StepInv, PassInv, [Next]_vars PROVE PassInv'
    OBVIOUS
  <2>1. ASSUME NEW v \in Workers, NEW h \in Funded, Passed(v, h)'
        PROVE  h \in Saved' \cup failed'
    <3>1. CASE Halt \/ UNCHANGED vars
      <4>1. Passed(v, h)
        BY <2>1, <3>1, OthersPassed DEF Halt, vars, shared, walker, loop
      <4> QED
        BY <4>1, DoneStays DEF PassInv, NothingPassedOver
    <3>2. CASE Crash \/ Spawn
      BY <2>1, <3>2 DEF Crash, Spawn, Passed
    <3>3. ASSUME NEW w \in Workers, Walk(w) \/ Persist(w)
          PROVE  Passed(v, h) \/ h \in Saved' \cup failed'
      <4>1. CASE w = v
        BY <2>1, <3>3, <4>1, PassesOnlyDone
      <4>2. CASE w # v
        BY <2>1, <3>3, <4>2, OthersPassed DEF Walk, Begin, NextBatch, EndSpan, Look, BatchDone,
           Persist, Stamp, Record, Part, Synced, SaveFails, Onward, StepInv, TypeOK,
           shared, walker, loop
      <4> QED
        BY <4>1, <4>2
    <3> QED
      BY <3>1, <3>2, <3>3, DoneStays DEF Next, PassInv, NothingPassedOver
  <2>2. ASSUME NEW v \in Workers, pc'[v] \in {"written", "parted"}
        PROVE  HitOf(v)' \in Saved'
    BY <2>2, WrittenIsSaved
  <2> QED
    BY <2>1, <2>2 DEF PassInv, NothingPassedOver
<1>3. PassInv => NothingPassedOver
  BY DEF PassInv
<1> QED
  BY <1>1, <1>2, <1>3, StepInit, StepNext, PTL DEF Spec

-----------------------------------------------------------------------------
\* Records do not mix

\* The entry a worker inside persist wrote last.
Last(w) == [by |-> w, what |-> IF pc[w] = "stamped" THEN "stamp" ELSE "key"]

\* Who is inside persist holds HIT_LOCK, and the file ends with its entry.
LockInv ==
  /\ RecordsApart
  /\ \A w \in Workers : pc[w] \in Saving => lock = w
  /\ \A w \in Workers : pc[w] \in {"stamped", "written"} =>
       /\ Len(file) > 0
       /\ file[Len(file)].by = Last(w).by /\ file[Len(file)].what = Last(w).what

\* An entry that may follow the last one leaves the records apart.
LEMMA AppendApart ==
  ASSUME StepInv, RecordsApart, NEW e \in Entries, file' = Append(file, e),
         e.what = "key" => /\ Len(file) > 0 /\ file[Len(file)].by = e.by
                           /\ file[Len(file)].what = "stamp",
         e.what = "blank" => /\ Len(file) > 0 /\ file[Len(file)].by = e.by
                             /\ file[Len(file)].what = "key"
  PROVE  RecordsApart'
<1>1. file \in Seq(Entries)
  BY DEF StepInv, TypeOK
<1>2. /\ Len(file') = Len(file) + 1 /\ DOMAIN file' = 1 .. Len(file) + 1
      /\ DOMAIN file = 1 .. Len(file) /\ Len(file) \in Nat
      /\ file'[Len(file) + 1] = e /\ \A n \in 1 .. Len(file) : file'[n] = file[n]
  BY <1>1
<1> SUFFICES ASSUME NEW n \in DOMAIN file'
             PROVE  /\ file'[n].what = "key" => n > 1 /\ file'[n - 1].by = file'[n].by
                                                /\ file'[n - 1].what = "stamp"
                    /\ file'[n].what = "blank" => n > 1 /\ file'[n - 1].by = file'[n].by
                                                  /\ file'[n - 1].what = "key"
  BY DEF RecordsApart
<1>3. CASE n \in DOMAIN file
  <2>1. n - 1 > 0 => n - 1 \in DOMAIN file
    BY <1>2, <1>3
  <2> QED
    BY <1>2, <1>3, <2>1 DEF RecordsApart
<1>4. CASE n = Len(file) + 1
  <2>1. file'[n] = e
    BY <1>2, <1>4
  <2>2. ASSUME Len(file) > 0
        PROVE  n > 1 /\ n - 1 = Len(file) /\ file'[n - 1] = file[Len(file)]
    <3>1. n > 1 /\ n - 1 = Len(file)
      BY <1>2, <1>4, <2>2
    <3>2. Len(file) \in 1 .. Len(file)
      BY <1>2, <2>2
    <3>3. \A m \in 1 .. Len(file) : file'[m] = file[m]
      BY <1>2
    <3> QED
      BY <3>1, <3>2, <3>3
  <2> QED
    BY <2>1, <2>2
<1> QED
  BY <1>2, <1>3, <1>4

\* A step of persist finds nobody else inside it and leaves its entry last.
LEMMA PersistApart ==
  ASSUME StepInv, LockInv, NEW w \in Workers, Persist(w)
  PROVE  LockInv'
<1>1. file \in Seq(Entries) /\ pc \in [Workers -> Places]
  BY DEF StepInv, TypeOK
<1>2. \A v \in Workers \ {w} : pc[v] \notin Saving
  BY WalkAssumption DEF LockInv, Persist, Stamp, Record, Part, Synced, SaveFails, Saving
<1>3. \A v \in Workers \ {w} : pc'[v] \notin Saving
  BY <1>1, <1>2 DEF Persist, Stamp, Record, Part, Synced, SaveFails
<1>4. HitOf(w) \in Hashes
  BY HitType DEF StepInv
<1>5. CASE Stamp(w)
  <2> DEFINE e == [by |-> w, what |-> "stamp", hit |-> Nil]
  <2>1. e \in Entries /\ file' = Append(file, e) /\ pc'[w] = "stamped" /\ lock' = w
    BY <1>1, <1>5 DEF Stamp, Write, Entries, Places
  <2>2. RecordsApart'
    BY <2>1, AppendApart DEF LockInv
  <2>3. Len(file') > 0 /\ file'[Len(file')] = e
    BY <1>1, <2>1
  <2> QED
    BY <1>3, <2>1, <2>2, <2>3 DEF LockInv, Last, Saving
<1>6. CASE Record(w)
  <2> DEFINE e == [by |-> w, what |-> "key", hit |-> HitOf(w)]
  <2>1. /\ e \in Entries /\ file' = Append(file, e) /\ pc[w] = "stamped"
        /\ pc'[w] = "written" /\ lock' = lock
    BY <1>1, <1>4, <1>6 DEF Record, Write, Entries, Places
  <2>2. RecordsApart'
    BY <2>1, AppendApart DEF LockInv, Last
  <2>3. Len(file') > 0 /\ file'[Len(file')] = e
    BY <1>1, <2>1
  <2> QED
    BY <1>3, <2>1, <2>2, <2>3 DEF LockInv, Last, Saving
<1>7. CASE Part(w)
  <2> DEFINE e == [by |-> w, what |-> "blank", hit |-> Nil]
  <2>1. /\ e \in Entries /\ file' = Append(file, e) /\ pc[w] = "written"
        /\ pc'[w] = "parted" /\ lock' = lock
    BY <1>1, <1>7 DEF Part, Write, Entries, Places
  <2>2. RecordsApart'
    BY <2>1, AppendApart DEF LockInv, Last
  <2> QED
    BY <1>3, <2>1, <2>2 DEF LockInv, Saving
<1>8. CASE Synced(w) \/ SaveFails(w)
  <2>1. pc'[w] = "look"
    BY <1>1, <1>8 DEF Synced, SaveFails, Places
  <2>2. RecordsApart'
    <3>1. CASE file' = file
      BY <3>1 DEF LockInv, RecordsApart
    <3>2. CASE file' = Append(file, [by |-> w, what |-> "torn", hit |-> Nil])
      BY <3>2, AppendApart DEF LockInv, Entries
    <3> QED
      BY <1>8, <3>1, <3>2 DEF Synced, SaveFails, Write
  <2> QED
    BY <1>3, <2>1, <2>2 DEF LockInv, Saving
<1> QED
  BY <1>5, <1>6, <1>7, <1>8 DEF Persist

\* Records of several workers do not mix, whatever fails or is killed in between
\* (HIT_LOCK, hit.rs:11).
THEOREM RecordsStayApart == Spec => []RecordsApart
<1>1. Init => LockInv
  BY DEF Init, LockInv, RecordsApart, Saving
<1>2. StepInv /\ LockInv /\ [Next]_vars => LockInv'
  <2> SUFFICES ASSUME StepInv, LockInv, [Next]_vars PROVE LockInv'
    OBVIOUS
  <2>1. CASE Halt \/ UNCHANGED vars
    BY <2>1 DEF Halt, vars, disk, LockInv, RecordsApart, Last
  <2>2. CASE Crash \/ Spawn
    BY <2>2 DEF Crash, Spawn, disk, LockInv, RecordsApart, Saving
  <2>3. ASSUME NEW w \in Workers, Walk(w) PROVE LockInv'
    <3>1. UNCHANGED <<file, lock>> /\ \A v \in Workers : pc'[v] \in Saving => pc'[v] = pc[v]
      BY <2>3 DEF Walk, Begin, NextBatch, EndSpan, Look, BatchDone, disk, Saving, StepInv, TypeOK
    <3> QED
      BY <3>1 DEF LockInv, RecordsApart, Last, Saving
  <2>4. ASSUME NEW w \in Workers, Persist(w) PROVE LockInv'
    BY <2>4, PersistApart
  <2> QED
    BY <2>1, <2>2, <2>3, <2>4 DEF Next
<1>3. LockInv => RecordsApart
  BY DEF LockInv
<1> QED
  BY <1>1, <1>2, <1>3, StepInit, StepNext, PTL DEF Spec

=============================================================================
