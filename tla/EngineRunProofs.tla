--------------------------- MODULE EngineRunProofs --------------------------
(***************************************************************************)
(* Theorems about EngineRun, for every number of workers, block size and   *)
(* budget.                                                                 *)
(***************************************************************************)
EXTENDS EngineRun, FiniteSetTheorems, TLAPS

\* The places of the main thread at which a round's workers may live.
Searching == {"loop", "report", "age", "final", "close", "join"}

\* What the status file will be told is known by then, and workers only live
\* during a round.
RoundInv ==
  /\ TypeOK
  /\ main = "close" => told \in Nat
  /\ \A w \in Workers : wpc[w] # "off" => main \in Searching

\* An event that is spent leaves the counters numbers.
LEMMA SpendCounts ==
  ASSUME TypeOK, NEW k \in Events, Spend(k)
  PROVE  spent' \in [Events -> Nat]
BY DEF TypeOK, Spend

\* A status that is written, or not, is a status.
LEMMA StatusWritten ==
  ASSUME TypeOK, NEW s \in Status, WriteStatus(s)
  PROVE  (status' = Nil \/ status' \in Status) /\ spent' \in [Events -> Nat]
<1>1. "fault" \in Events
  BY DEF Events
<1> QED
  BY <1>1, SpendCounts DEF TypeOK, WriteStatus

\* A process that ends leaves no worker.
LEMMA ExitRound ==
  ASSUME RoundInv, NEW c \in Codes, Exit(c), stale' \in BOOLEAN,
         super' \in {"on", "gone"}, spent' \in [Events -> Nat],
         status' = status
  PROVE  RoundInv'
BY RunAssumption DEF RoundInv, TypeOK, Exit, flags, Places, Searching

\* The invariant holds at the start.
LEMMA RoundInit == Init => RoundInv
<1> SUFFICES ASSUME Init PROVE RoundInv
  OBVIOUS
<1>1. auto \in BOOLEAN
  BY RunAssumption DEF Init
<1>2. since \in [Workers -> Nat] /\ \A w \in Workers : since[w] < Block
  BY RunAssumption DEF Init
<1>3. spent \in [Events -> Nat]
  BY DEF Init
<1> QED
  BY <1>1, <1>2, <1>3 DEF Init, RoundInv, TypeOK, Places

\* run keeps the invariant.
LEMMA RunRound ==
  ASSUME RoundInv, Head \/ Load \/ LoadFails \/ Join \/ Refresh
  PROVE  RoundInv'
<1>1. CASE Head
  <2>1. CASE halt
    BY <1>1, <2>1, ExitRound DEF Head, outside, Codes, RoundInv, TypeOK
  <2>2. CASE ~halt
    BY <1>1, <2>2 DEF Head, outside, flags, counts, ending, RoundInv, TypeOK, Places, Searching
  <2> QED
    BY <2>1, <2>2
<1>2. CASE Load
  <2>1. since' \in [Workers -> Nat] /\ \A w \in Workers : since'[w] < Block
    BY <1>2, RunAssumption DEF Load
  <2>2. wpc' \in [Workers -> {"check", "batch", "leave", "off"}]
    BY <1>2 DEF Load
  <2> QED
    BY <1>2, <2>1, <2>2 DEF Load, ending, outside, RoundInv, TypeOK, Places, Searching
<1>3. CASE LoadFails
  <2>1. spent' \in [Events -> Nat]
    BY <1>3, SpendCounts DEF LoadFails, Events, RoundInv
  <2> QED
    BY <1>3, <2>1, ExitRound DEF LoadFails, Codes, RoundInv, TypeOK
<1>4. CASE Join
  <2>1. CASE outcome = "reload" /\ auto
    BY <1>4, <2>1
       DEF Join, outside, flags, counts, ending, RoundInv, TypeOK, Places, Searching
  <2>2. CASE ~(outcome = "reload" /\ auto)
    <3>1. \E c \in Codes : Exit(c)
      BY <1>4, <2>2 DEF Join, Codes
    <3> QED
      BY <1>4, <3>1, ExitRound DEF Join, outside, RoundInv, TypeOK
  <2> QED
    BY <2>1, <2>2
<1>5. CASE Refresh
  <2>1. spent' \in [Events -> Nat] /\ stale' \in BOOLEAN
    BY <1>5, SpendCounts DEF Refresh, Events, RoundInv, TypeOK
  <2> QED
    BY <1>5, <2>1 DEF Refresh, flags, counts, ending, RoundInv, TypeOK, Places, Searching
<1> QED
  BY <1>1, <1>2, <1>3, <1>4, <1>5

\* reporter keeps the invariant.
LEMMA ReporterRound ==
  ASSUME RoundInv, CheckHalt \/ Report \/ Age \/ Final \/ Close
  PROVE  RoundInv'
<1> USE DEF flags, counts, ending, outside
<1>1. CASE CheckHalt
  BY <1>1 DEF CheckHalt, RoundInv, TypeOK, Places, Searching
<1>2. CASE Report
  <2>1. (status' = Nil \/ status' \in Status) /\ spent' \in [Events -> Nat]
    BY <1>2, StatusWritten DEF Report, RoundInv, TypeOK, Status
  <2> QED
    BY <1>2, <2>1 DEF Report, RoundInv, TypeOK, Places, Searching
<1>3. CASE Age
  BY <1>3 DEF Age, RoundInv, TypeOK, Places, Searching
<1>4. CASE Final
  BY <1>4 DEF Final, RoundInv, TypeOK, Places, Searching
<1>5. CASE Close
  <2>1. (status' = Nil \/ status' \in Status) /\ spent' \in [Events -> Nat]
    BY <1>5, StatusWritten DEF Close, RoundInv, TypeOK, Status
  <2> QED
    BY <1>5, <2>1 DEF Close, RoundInv, TypeOK, Places, Searching
<1> QED
  BY <1>1, <1>2, <1>3, <1>4, <1>5

\* A worker keeps the invariant: its own count stays below a block.
LEMMA WorkerRound ==
  ASSUME RoundInv, NEW w \in Workers, WorkerStep(w)
  PROVE  RoundInv'
<1> USE DEF flags, counts, ending, outside
<1>1. CASE Check(w)
  BY <1>1 DEF Check, RoundInv, TypeOK
<1>2. CASE Batch(w)
  <2>1. /\ keys' \in Nat /\ since' \in [Workers -> Nat]
        /\ \A v \in Workers : since'[v] < Block
    BY <1>2, RunAssumption DEF Batch, RoundInv, TypeOK
  <2> QED
    BY <1>2, <2>1 DEF Batch, RoundInv, TypeOK
<1>3. CASE Leave(w)
  BY <1>3, RunAssumption DEF Leave, RoundInv, TypeOK
<1> QED
  BY <1>1, <1>2, <1>3 DEF WorkerStep

\* What comes from outside keeps the invariant.
LEMMA OutsideRound ==
  ASSUME RoundInv, Interrupt \/ Kill \/ GetOld \/ Supervise \/ Stop
  PROVE  RoundInv'
<1> USE DEF flags, counts, ending
<1>1. CASE Interrupt
  BY <1>1, SpendCounts DEF Interrupt, Events, RoundInv, TypeOK
<1>2. CASE Kill
  <2>1. spent' \in [Events -> Nat]
    BY <1>2, SpendCounts DEF Kill, Events, RoundInv
  <2> QED
    BY <1>2, <2>1, ExitRound DEF Kill, Codes, RoundInv, TypeOK
<1>3. CASE GetOld
  BY <1>3, SpendCounts DEF GetOld, Events, RoundInv, TypeOK
<1>4. CASE Supervise
  <2>1. CASE code = "ok"
    BY <1>4, <2>1 DEF Supervise, RoundInv, TypeOK
  <2>2. CASE code # "ok"
    <3>1. stale' \in BOOLEAN
      BY <1>4, <2>2 DEF Supervise
    <3>2. wpc' = wpc /\ \A w \in Workers : wpc[w] = "off"
      BY <1>4, <2>2 DEF Supervise, RoundInv, Searching
    <3>3. /\ main' = "head" /\ code' = Nil /\ outcome' = "stopped"
          /\ halt' = FALSE /\ running' = FALSE /\ reload' = FALSE
          /\ keys' = 0 /\ checked' = 0 /\ told' = Nil
          /\ UNCHANGED <<auto, since, super, status, spent>>
      BY <1>4, <2>2 DEF Supervise
    <3> QED
      BY <3>1, <3>2, <3>3 DEF RoundInv, TypeOK, Places
  <2> QED
    BY <2>1, <2>2
<1>5. CASE Stop
  <2>1. spent' \in [Events -> Nat]
    BY <1>5, SpendCounts DEF Stop, Events, RoundInv
  <2>2. CASE main = "down"
    BY <1>5, <2>1, <2>2 DEF Stop, RoundInv, TypeOK
  <2>3. CASE main # "down"
    BY <1>5, <2>1, <2>3, ExitRound DEF Stop, Codes, RoundInv, TypeOK
  <2> QED
    BY <2>2, <2>3
<1> QED
  BY <1>1, <1>2, <1>3, <1>4, <1>5

\* The invariant is inductive.
LEMMA RoundStep == RoundInv /\ [Next]_vars => RoundInv'
<1>1. RoundInv /\ UNCHANGED vars => RoundInv'
  BY DEF vars, flags, counts, ending, outside, RoundInv, TypeOK
<1> QED
  BY <1>1, RunRound, ReporterRound, WorkerRound, OutsideRound DEF Next, MainStep

\* The flags, the counters, the status file and the places keep their types.
THEOREM RunTypeCorrect == Spec => []TypeOK
<1>1. RoundInv => TypeOK
  BY DEF RoundInv
<1> QED
  BY <1>1, RoundInit, RoundStep, PTL DEF Spec

\* Between two rounds no worker of the last one is left, whenever halt, a kill or an
\* error strikes: the funded set is released before the next is downloaded.
THEOREM RoundsDoNotOverlap == Spec => []OneRound
<1>1. RoundInv => OneRound
  BY DEF RoundInv, OneRound, Searching
<1> QED
  BY <1>1, RoundInit, RoundStep, PTL DEF Spec

-----------------------------------------------------------------------------
\* The batches workers hold, counted as the elements of Uncounted.

\* Workers that are on a batch.
OnBatch == {w \in Workers : wpc[w] = "batch"}

\* Where a worker may hold a batch: Block places each.
LEMMA PlacesFinite ==
  /\ IsFiniteSet(Workers \X (1..Block)) /\ Cardinality(Workers) \in Nat
  /\ Cardinality(Workers \X (1..Block)) = Cardinality(Workers) * Block
<1>1. IsFiniteSet(1..Block) /\ Cardinality(1..Block) = Block
  BY FS_Interval, RunAssumption
<1> QED
  BY <1>1, FS_Product, FS_CardinalityType, RunAssumption

LEMMA UncountedFinite ==
  ASSUME TypeOK
  PROVE  /\ IsFiniteSet(Uncounted) /\ Cardinality(Uncounted) \in Nat
         /\ IsFiniteSet(OnBatch) /\ Cardinality(OnBatch) \in Nat
<1>1. Uncounted \subseteq Workers \X (1..Block)
  BY RunAssumption DEF Uncounted, TypeOK
<1> QED
  BY <1>1, PlacesFinite, FS_Subset, FS_CardinalityType, RunAssumption DEF OnBatch

\* A worker that goes on within its block holds one more.
LEMMA OneMoreHeld ==
  ASSUME TypeOK, NEW w \in Workers, since' = [since EXCEPT ![w] = @ + 1]
  PROVE  Cardinality(Uncounted') = Cardinality(Uncounted) + 1
<1> DEFINE new == <<w, since[w] + 1>>
<1>1. since[w] \in Nat /\ \A v \in Workers : since[v] \in Nat
  BY DEF TypeOK
<1>2. \A v \in Workers : since'[v] = IF v = w THEN since[w] + 1 ELSE since[v]
  BY DEF TypeOK
<1>3. ASSUME NEW v \in Workers
      PROVE  {v} \X (1..since'[v]) =
               ({v} \X (1..since[v])) \cup (IF v = w THEN {new} ELSE {})
  BY <1>1, <1>2
<1>4. Uncounted' = Uncounted \cup {new}
  BY <1>3 DEF Uncounted
<1>5. new \notin Uncounted
  BY <1>1 DEF Uncounted
<1> HIDE DEF new
<1> QED
  BY <1>4, <1>5, UncountedFinite, FS_AddElement

\* A worker that counts what it holds holds nothing.
LEMMA HeldIsSettled ==
  ASSUME TypeOK, NEW w \in Workers, since' = [since EXCEPT ![w] = 0]
  PROVE  Cardinality(Uncounted') = Cardinality(Uncounted) - since[w]
<1> DEFINE mine == {w} \X (1..since[w])
<1>1. since[w] \in Nat
  BY DEF TypeOK
<1>2. IsFiniteSet(mine) /\ Cardinality(mine) = since[w]
  <2>1. IsFiniteSet({w}) /\ Cardinality({w}) = 1
    BY FS_Singleton
  <2>2. IsFiniteSet(1..since[w]) /\ Cardinality(1..since[w]) = since[w]
    BY <1>1, FS_Interval
  <2>3. IsFiniteSet(mine) /\ Cardinality(mine) = Cardinality({w}) * Cardinality(1..since[w])
    BY <2>1, <2>2, FS_Product
  <2> HIDE DEF mine
  <2> QED
    BY <1>1, <2>1, <2>2, <2>3
<1>3. ASSUME NEW v \in Workers
      PROVE  {v} \X (1..since'[v]) = IF v = w THEN {} ELSE {v} \X (1..since[v])
  BY DEF TypeOK
<1>4. Uncounted' = Uncounted \ mine
  BY <1>3 DEF Uncounted
<1>5. Uncounted \cap mine = mine
  BY DEF Uncounted
<1> HIDE DEF mine
<1>6. Cardinality(Uncounted \ mine) = Cardinality(Uncounted) - Cardinality(Uncounted \cap mine)
  BY UncountedFinite, FS_Difference
<1> QED
  BY <1>2, <1>4, <1>5, <1>6

\* A worker that holds nothing adds nothing.
LEMMA NoneOf ==
  ASSUME NEW w \in Workers, NEW n, n = 0
  PROVE  {w} \X (1..n) = {}
<1>1. \A i \in 1..n : FALSE
  OBVIOUS
<1> QED
  BY <1>1

\* Workers that hold nothing.
LEMMA NothingHeld ==
  ASSUME \A w \in Workers : since[w] = 0
  PROVE  Cardinality(Uncounted) = 0
<1>1. Uncounted = {}
  BY NoneOf DEF Uncounted
<1> QED
  BY <1>1, FS_EmptySet

\* What all workers hold and are on is at most a block each.
LEMMA HeldFits ==
  ASSUME TypeOK
  PROVE  Cardinality(Uncounted) + Cardinality(OnBatch) <= Cardinality(Workers) * Block
<1> DEFINE last == OnBatch \X {Block}
<1>1. IsFiniteSet(last) /\ Cardinality(last) = Cardinality(OnBatch)
  <2>1. IsFiniteSet({Block}) /\ Cardinality({Block}) = 1
    BY FS_Singleton
  <2>2. IsFiniteSet(last) /\ Cardinality(last) = Cardinality(OnBatch) * Cardinality({Block})
    BY <2>1, UncountedFinite, FS_Product
  <2> HIDE DEF last
  <2> QED
    BY <2>1, <2>2, UncountedFinite
<1>2. Uncounted \cap last = {}
  BY DEF Uncounted, TypeOK
<1>3. Uncounted \cup last \subseteq Workers \X (1..Block)
  BY RunAssumption DEF Uncounted, TypeOK, OnBatch
<1> HIDE DEF last
<1>4. Cardinality(Uncounted \cup last) = Cardinality(Uncounted) + Cardinality(last)
  BY <1>1, <1>2, UncountedFinite, FS_Union, FS_EmptySet
<1> QED
  BY <1>1, <1>3, <1>4, PlacesFinite, FS_Subset

-----------------------------------------------------------------------------
\* What the last report may miss.

\* A worker that has ended holds nothing, and every batch is counted once.
CountInv ==
  /\ RoundInv
  /\ \A w \in Workers : wpc[w] = "off" => since[w] = 0
  /\ CountsAddUp

\* Once running is cleared no worker begins a batch, so what is looked up after the
\* last report are the batches workers are on.
LagInv ==
  /\ CountInv
  /\ main \in {"loop", "report", "age", "final"} => told = Nil
  /\ main = "final" \/ told # Nil => ~running
  /\ told # Nil /\ main # "down" =>
       /\ told <= checked
       /\ checked - told + Cardinality(OnBatch) <= Cardinality(Workers) * Block

\* A step that leaves the counters alone.
LEMMA SameCount ==
  ASSUME CountInv, RoundInv', UNCHANGED <<since, keys, checked>>,
         main' # "down" => main # "down",
         \A w \in Workers : wpc'[w] = "off" => wpc[w] = "off"
  PROVE  CountInv'
BY DEF CountInv, CountsAddUp, Uncounted

\* A process that ends.
LEMMA ExitCount ==
  ASSUME RoundInv', NEW c \in Codes, Exit(c)
  PROVE  CountInv'
BY DEF Exit, CountInv, CountsAddUp

LEMMA CountInit == Init => CountInv
<1> SUFFICES ASSUME Init PROVE CountInv
  OBVIOUS
<1>1. RoundInv /\ \A w \in Workers : since[w] = 0
  BY RoundInit DEF Init
<1> QED
  BY <1>1, NothingHeld DEF Init, CountInv, CountsAddUp

\* A worker counts each batch once, wherever in its block it is.
LEMMA WorkerCount ==
  ASSUME CountInv, RoundInv', NEW w \in Workers, WorkerStep(w)
  PROVE  CountInv'
<1>1. /\ TypeOK /\ RoundInv /\ keys \in Nat /\ checked \in Nat /\ since[w] \in Nat
      /\ \A v \in Workers : since[v] \in Nat
  BY DEF CountInv, RoundInv, TypeOK
<1>2. main # "down"
  BY DEF CountInv, RoundInv, TypeOK, WorkerStep, Check, Batch, Leave, Searching
<1>3. main' = main
  BY DEF WorkerStep, Check, Batch, Leave
<1>4. keys + Cardinality(Uncounted) = checked /\ Cardinality(Uncounted) \in Nat
  BY <1>1, <1>2, UncountedFinite DEF CountInv, CountsAddUp
<1>5. CASE Check(w)
  <2>1. UNCHANGED <<since, keys, checked>>
    BY <1>5 DEF Check, counts
  <2>2. \A v \in Workers : wpc'[v] = "off" => wpc[v] = "off"
    BY <1>1, <1>5 DEF Check, TypeOK
  <2> QED
    BY <1>2, <2>1, <2>2, SameCount
<1>6. CASE Batch(w)
  <2>1. checked' = checked + 1 /\ wpc' = [wpc EXCEPT ![w] = "check"]
    BY <1>6 DEF Batch
  <2>2. \A v \in Workers : wpc'[v] = "off" => v # w /\ wpc[v] = "off"
    BY <1>1, <2>1 DEF TypeOK
  <2>3. \A v \in Workers : v # w => since'[v] = since[v]
    BY <1>1, <1>6 DEF Batch, TypeOK
  <2>4. CASE since[w] + 1 >= Block
    <3>1. keys' = keys + since[w] + 1 /\ since' = [since EXCEPT ![w] = 0]
      BY <1>6, <2>4 DEF Batch
    <3>2. Cardinality(Uncounted') = Cardinality(Uncounted) - since[w]
      BY <1>1, <3>1, HeldIsSettled
    <3>3. keys' + Cardinality(Uncounted') = checked'
      BY <1>1, <1>4, <2>1, <3>1, <3>2
    <3> QED
      BY <2>2, <2>3, <3>3 DEF CountInv, CountsAddUp
  <2>5. CASE ~(since[w] + 1 >= Block)
    <3>1. keys' = keys /\ since' = [since EXCEPT ![w] = @ + 1]
      BY <1>6, <2>5 DEF Batch
    <3>2. Cardinality(Uncounted') = Cardinality(Uncounted) + 1
      BY <1>1, <3>1, OneMoreHeld
    <3>3. keys' + Cardinality(Uncounted') = checked'
      BY <1>1, <1>4, <2>1, <3>1, <3>2
    <3> QED
      BY <2>2, <2>3, <3>3 DEF CountInv, CountsAddUp
  <2> QED
    BY <2>4, <2>5
<1>7. CASE Leave(w)
  <2>1. /\ keys' = keys + since[w] /\ since' = [since EXCEPT ![w] = 0]
        /\ checked' = checked /\ wpc' = [wpc EXCEPT ![w] = "off"]
    BY <1>7 DEF Leave
  <2>2. Cardinality(Uncounted') = Cardinality(Uncounted) - since[w]
    BY <1>1, <2>1, HeldIsSettled
  <2>3. keys' + Cardinality(Uncounted') = checked'
    BY <1>1, <1>4, <2>1, <2>2
  <2>4. ASSUME NEW v \in Workers, wpc'[v] = "off" PROVE since'[v] = 0
    BY <1>1, <2>1, <2>4 DEF CountInv, TypeOK
  <2> QED
    BY <2>3, <2>4 DEF CountInv, CountsAddUp
<1> QED
  BY <1>5, <1>6, <1>7 DEF WorkerStep

\* The count survives every step.
LEMMA CountStep == CountInv /\ [Next]_vars => CountInv'
<1> SUFFICES ASSUME CountInv, [Next]_vars PROVE CountInv'
  OBVIOUS
<1>1. RoundInv /\ RoundInv'
  BY RoundStep DEF CountInv
<1> USE DEF flags, counts, ending, outside
<1>2. CASE Head
  <2>1. CASE halt
    BY <1>1, <1>2, <2>1, ExitCount DEF Head, Codes
  <2>2. CASE ~halt
    BY <1>1, <1>2, <2>2, SameCount DEF Head
  <2> QED
    BY <2>1, <2>2
<1>3. CASE Load
  <2>1. /\ \A w \in Workers : since'[w] = 0
        /\ keys' = 0 /\ checked' = 0
    BY <1>3 DEF Load
  <2>2. Uncounted' = {}
    BY <2>1, NoneOf DEF Uncounted
  <2> QED
    BY <1>1, <2>1, <2>2, FS_EmptySet DEF CountInv, CountsAddUp
<1>4. CASE LoadFails
  BY <1>1, <1>4, ExitCount DEF LoadFails, Codes
<1>5. CASE Join
  <2>1. CASE outcome = "reload" /\ auto
    BY <1>1, <1>5, <2>1, SameCount DEF Join
  <2>2. CASE ~(outcome = "reload" /\ auto)
    BY <1>1, <1>5, <2>2, ExitCount DEF Join, Codes
  <2> QED
    BY <2>1, <2>2
<1>6. CASE Refresh \/ CheckHalt \/ Report \/ Age \/ Final \/ Close \/ Interrupt \/ GetOld
  BY <1>1, <1>6, SameCount
     DEF Refresh, CheckHalt, Report, Age, Final, Close, Interrupt, GetOld
<1>7. CASE \E w \in Workers : WorkerStep(w)
  BY <1>1, <1>7, WorkerCount
<1>8. CASE Kill
  BY <1>1, <1>8, ExitCount DEF Kill, Codes
<1>9. CASE Supervise
  <2>1. main = "down" /\ UNCHANGED <<since, wpc>>
    BY <1>9 DEF Supervise
  <2>2. \A w \in Workers : wpc[w] = "off" /\ since[w] = 0
    BY <1>1, <2>1 DEF RoundInv, Searching, CountInv
  <2>3. CASE code = "ok"
    BY <1>1, <1>9, <2>1, <2>2, <2>3 DEF Supervise, CountInv, CountsAddUp
  <2>4. CASE code # "ok"
    <3>1. keys' = 0 /\ checked' = 0
      BY <1>9, <2>4 DEF Supervise
    <3>2. Cardinality(Uncounted) = 0 /\ Uncounted' = Uncounted
      BY <2>1, <2>2, NothingHeld DEF Uncounted
    <3> QED
      BY <1>1, <2>1, <2>2, <3>1, <3>2 DEF CountInv, CountsAddUp
  <2> QED
    BY <2>3, <2>4
<1>10. CASE Stop
  <2>1. CASE main = "down"
    BY <1>1, <1>10, <2>1 DEF Stop, CountInv, CountsAddUp
  <2>2. CASE main # "down"
    BY <1>1, <1>10, <2>2, ExitCount DEF Stop, Codes
  <2> QED
    BY <2>1, <2>2
<1>11. CASE UNCHANGED vars
  BY <1>1, <1>11, SameCount DEF vars
<1> QED
  BY <1>2, <1>3, <1>4, <1>5, <1>6, <1>7, <1>8, <1>9, <1>10, <1>11 DEF Next, MainStep

\* A step that looks nothing up and makes no last report.
LEMMA SameLag ==
  ASSUME LagInv, CountInv', UNCHANGED <<checked, told, running>>, OnBatch' = OnBatch,
         main' # "down" => main # "down",
         main' \in {"loop", "report", "age", "final"} => main = main'
  PROVE  LagInv'
BY DEF LagInv

\* A process that ends owes no report.
LEMMA ExitLag ==
  ASSUME LagInv, CountInv', NEW c \in Codes, Exit(c)
  PROVE  LagInv'
BY DEF LagInv, Exit, flags

\* The reporter's ticks, its last report, and what it leaves to run.
LEMMA ReporterLag ==
  ASSUME LagInv, CountInv', CheckHalt \/ Report \/ Age \/ Final \/ Close
  PROVE  LagInv'
<1> USE DEF flags, counts, ending, outside
<1>1. TypeOK /\ OnBatch' = OnBatch
  BY DEF LagInv, CountInv, RoundInv, CheckHalt, Report, Age, Final, Close, OnBatch
<1>2. CASE CheckHalt \/ Age \/ Report
  <2>1. /\ main \in {"loop", "report", "age"} /\ told' = told
        /\ main' \in {"loop", "report", "age", "final"} /\ (main' = "final" => ~running')
    BY <1>1, <1>2 DEF CheckHalt, Age, Report, TypeOK
  <2>2. told = Nil
    BY <2>1 DEF LagInv
  <2> QED
    BY <2>1, <2>2 DEF LagInv
<1>3. CASE Final
  <2>1. /\ main = "final" /\ main' = "close" /\ told' = keys
        /\ UNCHANGED <<keys, checked, running>>
    BY <1>3 DEF Final
  <2>2. keys \in Nat /\ checked \in Nat /\ keys + Cardinality(Uncounted) = checked
    BY <1>1, <2>1 DEF TypeOK, LagInv, CountInv, CountsAddUp
  <2>3. /\ Cardinality(Uncounted) + Cardinality(OnBatch) <= Cardinality(Workers) * Block
        /\ Cardinality(Uncounted) \in Nat
    BY <1>1, HeldFits, UncountedFinite
  <2>4. /\ told' <= checked'
        /\ checked' - told' + Cardinality(OnBatch) <= Cardinality(Workers) * Block
    BY <2>1, <2>2, <2>3, UncountedFinite
  <2> QED
    BY <1>1, <2>1, <2>4 DEF LagInv
<1>4. CASE Close
  BY <1>1, <1>4, SameLag DEF Close
<1> QED
  BY <1>2, <1>3, <1>4

\* A worker's step: after the last report it can only end the batch it is on.
LEMMA WorkerLag ==
  ASSUME LagInv, CountInv', NEW w \in Workers, WorkerStep(w)
  PROVE  LagInv'
<1>1. TypeOK
  BY DEF LagInv, CountInv, RoundInv
<1>2. UNCHANGED <<main, told, running>>
  BY DEF WorkerStep, Check, Batch, Leave, flags, counts
<1>3. CASE told = Nil
  BY <1>2, <1>3 DEF LagInv
<1>4. CASE told # Nil
  <2>1. ~running /\ told \in Nat /\ checked \in Nat /\ wpc \in [Workers -> {"check", "batch", "leave", "off"}]
    BY <1>1, <1>4 DEF LagInv, TypeOK
  <2>2. CASE Check(w)
    <3>1. wpc' = [wpc EXCEPT ![w] = "leave"] /\ wpc[w] = "check" /\ checked' = checked
      BY <2>1, <2>2 DEF Check, counts
    <3>2. OnBatch' = OnBatch
      BY <2>1, <3>1 DEF OnBatch
    <3> QED
      BY <1>2, <3>1, <3>2, SameLag
  <2>3. CASE Batch(w)
    <3>1. wpc' = [wpc EXCEPT ![w] = "check"] /\ wpc[w] = "batch" /\ checked' = checked + 1
      BY <2>3 DEF Batch
    <3>2. OnBatch' = OnBatch \ {w} /\ w \in OnBatch
      BY <2>1, <3>1 DEF OnBatch
    <3>3. /\ Cardinality(OnBatch') = Cardinality(OnBatch) - 1
          /\ Cardinality(OnBatch) \in Nat
      BY <1>1, <3>2, UncountedFinite, FS_RemoveElement
    <3>4. main # "down" => /\ told <= checked + 1
                           /\ (checked + 1) - told + Cardinality(OnBatch')
                                <= Cardinality(Workers) * Block
      <4>1. main # "down" => /\ told <= checked
                             /\ checked - told + Cardinality(OnBatch)
                                  <= Cardinality(Workers) * Block
        BY <1>4 DEF LagInv
      <4> QED
        BY <2>1, <3>3, <4>1
    <3> QED
      BY <1>2, <3>1, <3>4 DEF LagInv
  <2>4. CASE Leave(w)
    <3>1. wpc' = [wpc EXCEPT ![w] = "off"] /\ wpc[w] = "leave" /\ checked' = checked
      BY <2>4 DEF Leave
    <3>2. OnBatch' = OnBatch
      BY <2>1, <3>1 DEF OnBatch
    <3> QED
      BY <1>2, <3>1, <3>2, SameLag
  <2> QED
    BY <2>2, <2>3, <2>4 DEF WorkerStep
<1> QED
  BY <1>3, <1>4

LEMMA LagInit == Init => LagInv
BY CountInit DEF Init, LagInv

LEMMA LagStep == LagInv /\ [Next]_vars => LagInv'
<1> SUFFICES ASSUME LagInv, [Next]_vars PROVE LagInv'
  OBVIOUS
<1>1. CountInv'
  BY CountStep DEF LagInv
<1> USE DEF flags, counts, ending, outside
<1>2. CASE Head
  <2>1. CASE halt
    BY <1>1, <1>2, <2>1, ExitLag DEF Head, Codes
  <2>2. CASE ~halt
    BY <1>1, <1>2, <2>2, SameLag DEF Head, OnBatch
  <2> QED
    BY <2>1, <2>2
<1>3. CASE Load
  BY <1>1, <1>3 DEF Load, LagInv
<1>4. CASE LoadFails \/ Kill
  BY <1>1, <1>4, ExitLag DEF LoadFails, Kill, Codes
<1>5. CASE Join
  <2>1. CASE outcome = "reload" /\ auto
    BY <1>1, <1>5, <2>1, SameLag DEF Join, OnBatch
  <2>2. CASE ~(outcome = "reload" /\ auto)
    BY <1>1, <1>5, <2>2, ExitLag DEF Join, Codes
  <2> QED
    BY <2>1, <2>2
<1>6. CASE Refresh \/ Interrupt \/ GetOld
  BY <1>1, <1>6, SameLag DEF Refresh, Interrupt, GetOld, OnBatch
<1>7. CASE CheckHalt \/ Report \/ Age \/ Final \/ Close
  BY <1>1, <1>7, ReporterLag
<1>8. CASE \E w \in Workers : WorkerStep(w)
  BY <1>1, <1>8, WorkerLag
<1>9. CASE Supervise
  <2>1. CASE code = "ok"
    BY <1>1, <1>9, <2>1 DEF Supervise, LagInv
  <2>2. CASE code # "ok"
    BY <1>1, <1>9, <2>2 DEF Supervise, LagInv
  <2> QED
    BY <2>1, <2>2
<1>10. CASE Stop
  <2>1. CASE main = "down"
    BY <1>1, <1>10, <2>1 DEF Stop, LagInv
  <2>2. CASE main # "down"
    BY <1>1, <1>10, <2>2, ExitLag DEF Stop, Codes
  <2> QED
    BY <2>1, <2>2
<1>11. CASE UNCHANGED vars
  BY <1>1, <1>11, SameLag DEF vars, OnBatch
<1> QED
  BY <1>2, <1>3, <1>4, <1>5, <1>6, <1>7, <1>8, <1>9, <1>10, <1>11 DEF Next, MainStep

\* Every batch is counted once, in the shared count or by the worker that looked it
\* up, for any number of workers, any block and whenever the round is cut short.
THEOREM EveryBatchCounted == Spec => []CountsAddUp
<1>1. CountInv => CountsAddUp
  BY DEF CountInv
<1> QED
  BY <1>1, CountInit, CountStep, PTL DEF Spec

\* The last report of a round says no more than was looked up, and less only by what
\* is within a block of each worker.
THEOREM LastReportIsClose == Spec => []LastReportLag
<1>1. LagInv => LastReportLag
  <2>1. ASSUME LagInv, told # Nil, main # "down"
        PROVE  told <= checked /\ checked - told <= Cardinality(Workers) * Block
    <3>1. TypeOK /\ told \in Nat /\ checked \in Nat
      BY <2>1 DEF LagInv, CountInv, RoundInv, TypeOK
    <3>2. Cardinality(OnBatch) \in Nat /\ Cardinality(Workers) * Block \in Nat
      BY <3>1, UncountedFinite, PlacesFinite, FS_CardinalityType
    <3> QED
      BY <2>1, <3>1, <3>2 DEF LagInv
  <2> QED
    BY <2>1 DEF LastReportLag
<1> QED
  BY <1>1, LagInit, LagStep, PTL DEF Spec

=============================================================================
