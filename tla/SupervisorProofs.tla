-------------------------- MODULE SupervisorProofs --------------------------
(***************************************************************************)
(* Theorems about Supervisor, for any number of processes and any number   *)
(* of starts, stops, deaths and failed writes.                             *)
(***************************************************************************)
EXTENDS Supervisor, TLAPS

\* Supervisors have no parent here, engines have; $child is a child; only processes
\* that were started get into a file.
Lineage ==
  /\ \A p \in Pids : state[p] \in Looping \cup {"unborn"} => parent[p] = Nil
  /\ \A p \in Pids : state[p] = "up" => parent[p] # Nil
  /\ \A p \in Pids : child[p] # Nil => parent[child[p]] = p
  /\ \A p \in Pids : state[p] = "named" => child[p] # Nil
  /\ \A p \in recorded : state[p] # "unborn"
  /\ engFile \in Pids => parent[engFile] # Nil

\* What the command under way knows of supervisor.pid.
Commands ==
  /\ op \in {"fork", "record"} => ~stopped /\ \A p \in recorded : state[p] \notin Looping
  /\ op = "record" => parent[target] = Nil /\ state[target] # "unborn"
  /\ op = "term" => target = supFile
  /\ op \in {"engine", "unlink"} \/ stopped => supFile = Nil

\* A recorded supervisor that loops is the one of the pid file, and a recorded engine
\* that runs is the one its supervisor waits for.
Held ==
  /\ \A p \in recorded : state[p] \in Looping => supFile = p
  /\ \A e \in recorded : state[e] = "up" =>
       state[parent[e]] = "wait" /\ child[parent[e]] = e

SupInv == TypeOK /\ Lineage /\ Commands /\ Held

-----------------------------------------------------------------------------

LEMMA SupInit == Init => SupInv
<1> SUFFICES ASSUME Init PROVE SupInv
  OBVIOUS
<1>1. TypeOK
  <2>1. state \in [Pids -> Places] /\ spent \in [Events -> Nat]
    BY DEF Init, Places
  <2>2. child \in [Pids -> Pids \cup {Nil}] /\ parent \in [Pids -> Pids \cup {Nil}]
    BY DEF Init
  <2>3. next \in 1 .. MaxPid + 1
    BY SupervisorAssumption DEF Init
  <2>4. \A p \in Pids : p >= next <=> state[p] = "unborn"
    BY DEF Init, Pids
  <2> QED
    BY <2>1, <2>2, <2>3, <2>4 DEF Init, TypeOK
<1> QED
  BY <1>1, SupervisorAssumption DEF Init, SupInv, Lineage, Commands, Held, Pids, Looping

\* Nil and Empty are no processes.
LEMMA NoPid == Nil \notin Pids /\ Empty \notin Pids
BY SupervisorAssumption DEF Pids

\* The counters stay numbers.
LEMMA SpendType ==
  ASSUME TypeOK, NEW k \in Events, Spend(k)
  PROVE  spent' \in [Events -> Nat]
BY DEF TypeOK, Spend

\* A command that starts no process and ends none.
LEMMA CheckKeeps ==
  ASSUME SupInv, StartCheck \/ StopBegin \/ StopUnlink
  PROVE  SupInv'
<1> USE NoPid DEF SupInv
<1>1. CASE StartCheck
  <2>1. spent' \in [Events -> Nat]
    BY <1>1, SpendType DEF StartCheck, Events
  <2>2. TypeOK'
    BY <1>1, <2>1 DEF StartCheck, TypeOK, procs, files
  <2>3. op' = "fork" => \A p \in recorded : state[p] \notin Looping
    BY <1>1 DEF StartCheck, Alive, Held, Running, TypeOK
  <2> QED
    BY <1>1, <2>2, <2>3 DEF StartCheck, Lineage, Commands, Held, procs, files
<1>2. CASE StopBegin
  <2>1. spent' \in [Events -> Nat]
    BY <1>2, SpendType DEF StopBegin, Events
  <2>2. CASE Alive(supFile)
    <3>1. TypeOK'
      BY <1>2, <2>1, <2>2 DEF StopBegin, TypeOK, Alive, procs, files
    <3> QED
      BY <1>2, <2>2, <3>1 DEF StopBegin, Lineage, Commands, Held, Alive, procs, files
  <2>3. CASE ~Alive(supFile)
    <3>1. TypeOK'
      BY <1>2, <2>1, <2>3 DEF StopBegin, TypeOK, procs
    <3>2. \A p \in recorded : state[p] \notin Looping
      BY <2>3 DEF Alive, Held, Running, TypeOK
    <3> QED
      BY <1>2, <2>3, <3>1, <3>2 DEF StopBegin, Lineage, Commands, Held, procs
  <2> QED
    BY <2>2, <2>3
<1>3. CASE StopUnlink
  <2>1. TypeOK'
    BY <1>3 DEF StopUnlink, TypeOK, procs
  <2> QED
    BY <1>3, <2>1 DEF StopUnlink, Lineage, Commands, Held, procs
<1> QED
  BY <1>1, <1>2, <1>3

\* A supervisor is started and recorded.
LEMMA StartKeeps ==
  ASSUME SupInv, StartFork \/ StartRecord
  PROVE  SupInv'
<1> USE NoPid DEF SupInv
<1>1. CASE StartFork
  <2>1. next \in Pids /\ state[next] = "unborn" /\ next + 1 \in 1 .. MaxPid + 1
    BY <1>1, SupervisorAssumption DEF StartFork, TypeOK, Pids
  <2>2. TypeOK'
    <3>1. state' \in [Pids -> Places]
      BY <1>1 DEF StartFork, TypeOK, Places, Running, Looping
    <3>2. \A p \in Pids : p >= next' <=> state'[p] = "unborn"
      BY <1>1, <2>1, SupervisorAssumption DEF StartFork, TypeOK, Pids
    <3> QED
      BY <1>1, <2>1, <3>1, <3>2 DEF StartFork, TypeOK, files
  <2>3. Lineage'
    BY <1>1, <2>1 DEF StartFork, TypeOK, Lineage, files
  <2>4. Commands'
    BY <1>1, <2>1 DEF StartFork, TypeOK, Lineage, Commands, files
  <2>5. Held'
    BY <1>1, <2>1 DEF StartFork, TypeOK, Lineage, Held, files
  <2> QED
    BY <2>2, <2>3, <2>4, <2>5
<1>2. CASE StartRecord
  <2>1. spent' \in [Events -> Nat]
    BY <1>2, SpendType DEF StartRecord, Events, TypeOK
  <2>2. TypeOK'
    BY <1>2, <2>1 DEF StartRecord, TypeOK, procs
  <2>3. Lineage' /\ Commands'
    BY <1>2 DEF StartRecord, TypeOK, Lineage, Commands, procs
  <2>4. Held'
    BY <1>2 DEF StartRecord, TypeOK, Lineage, Commands, Held, procs
  <2> QED
    BY <2>2, <2>3, <2>4
<1> QED
  BY <1>1, <1>2

\* A supervisor or an engine is ended by stop.sh.
LEMMA StopKeeps ==
  ASSUME SupInv, StopSupervisor \/ StopEngine
  PROVE  SupInv'
<1> USE NoPid DEF SupInv
<1>1. CASE StopSupervisor
  <2>1. target \in Pids /\ target = supFile /\ state[target] # "unborn"
        /\ state[target] \notin {"up", "wait"}
    BY <1>1 DEF StopSupervisor, TypeOK, Commands
  <2>2. TypeOK'
    <3>1. state' \in [Pids -> Places]
      BY <1>1 DEF StopSupervisor, TypeOK, Places, Dead
    <3>2. \A p \in Pids : p >= next' <=> state'[p] = "unborn"
      BY <1>1, <2>1 DEF StopSupervisor, TypeOK
    <3> QED
      BY <1>1, <3>1, <3>2 DEF StopSupervisor, TypeOK
  <2>3. Lineage' /\ Commands'
    BY <1>1, <2>1 DEF StopSupervisor, TypeOK, Lineage, Commands, Looping
  <2>4. Held'
    BY <1>1, <2>1 DEF StopSupervisor, TypeOK, Lineage, Held, Looping
  <2> QED
    BY <2>2, <2>3, <2>4
<1>2. CASE StopEngine
  <2>1. CASE ~Alive(engFile)
    <3>1. TypeOK'
      BY <1>2, <2>1 DEF StopEngine, TypeOK, files
    <3> QED
      BY <1>2, <2>1, <3>1 DEF StopEngine, Lineage, Commands, Held, files
  <2>2. CASE Alive(engFile)
    <3>1. engFile \in Pids /\ state[engFile] = "up"
      BY <2>2 DEF Alive, Running, Looping, Lineage
    <3>2. state' = [state EXCEPT ![engFile] = "bad"]
      BY <1>2, <2>2 DEF StopEngine
    <3>3. TypeOK'
      <4>1. state' \in [Pids -> Places]
        BY <3>2 DEF TypeOK, Places, Dead
      <4>2. \A p \in Pids : p >= next <=> state'[p] = "unborn"
        BY <3>1, <3>2 DEF TypeOK
      <4> QED
        BY <1>2, <4>1, <4>2 DEF StopEngine, TypeOK, files
    <3>4. Lineage' /\ Commands'
      BY <1>2, <3>1, <3>2 DEF StopEngine, TypeOK, Lineage, Commands, Looping, files
    <3>5. Held'
      BY <1>2, <3>1, <3>2 DEF StopEngine, TypeOK, Lineage, Held, Looping, files
    <3> QED
      BY <3>3, <3>4, <3>5
  <2> QED
    BY <2>1, <2>2
<1> QED
  BY <1>1, <1>2

\* A process that runs takes another state without touching its engine.
LEMMA MoveKeeps ==
  ASSUME SupInv, NEW p \in Pids, NEW to \in (Looping \ {"named"}) \cup Dead,
         state[p] \in Looping,
         state[p] = "wait" => child[p] # Nil /\ state[child[p]] \in Dead,
         state' = [state EXCEPT ![p] = to], spent' \in [Events -> Nat],
         UNCHANGED <<command, child, parent, next, termed, files>>
  PROVE  SupInv'
<1> USE NoPid DEF SupInv
<1>1. state[p] \notin {"unborn", "up"} /\ to \notin {"unborn", "up", "named"}
  BY DEF Looping, Dead
<1>2. TypeOK'
  <2>1. state' \in [Pids -> Places]
    BY DEF TypeOK, Places, Running
  <2>2. \A q \in Pids : q >= next' <=> state'[q] = "unborn"
    BY <1>1 DEF TypeOK
  <2> QED
    BY <2>1, <2>2 DEF TypeOK, command, files
<1>3. Lineage'
  BY <1>1 DEF TypeOK, Lineage, files
<1>4. Commands'
  BY <1>1 DEF TypeOK, Lineage, Commands, command, files
<1>5. Held'
  <2>1. ASSUME NEW e \in recorded, state[e] = "up"
        PROVE  parent[e] # p /\ parent[e] \in Pids
    BY <2>1 DEF TypeOK, Lineage, Held, Dead
  <2> QED
    BY <1>1, <2>1 DEF TypeOK, Held, files
<1> QED
  BY <1>2, <1>3, <1>4, <1>5

\* An engine is ended, its supervisor as well or not.
LEMMA EndKeeps ==
  ASSUME SupInv, NEW p \in Pids, Trap(p) \/ EngineDies(p)
  PROVE  SupInv'
<1> USE NoPid DEF SupInv
<1>1. /\ state' \in [Pids -> Places]
      /\ \A q \in Pids : state'[q] = state[q] \/ (state'[q] \in Dead /\ state[q] \in Running)
      /\ \A q \in Pids : state[q] = "wait" /\ state'[q] # "wait" /\ child[q] # Nil
           => state'[child[q]] # "up"
  <2>1. CASE Trap(p)
    <3>1. /\ state[p] \in Looping
          /\ state' = [q \in Pids |-> IF q = p THEN "gone"
                                     ELSE IF q = child[p] /\ state[q] = "up" THEN "bad"
                                     ELSE state[q]]
      BY <2>1 DEF Trap, Looping
    <3>2. \A q \in Pids : child[q] # Nil => child[q] \in Pids
      BY DEF TypeOK
    <3>3. state' \in [Pids -> Places]
      BY <3>1 DEF TypeOK, Places, Dead
    <3>4. \A q \in Pids : state'[q] = state[q] \/ (state'[q] \in Dead /\ state[q] \in Running)
      BY <3>1 DEF Running, Dead
    <3>5. state'[p] = "gone" /\ (child[p] # Nil => state'[child[p]] # "up")
      BY <3>1, <3>2
    <3>6. \A q \in Pids \ {p} : state[q] = "wait" => state'[q] = "wait"
      BY <3>1
    <3> QED
      BY <3>3, <3>4, <3>5, <3>6
  <2>2. CASE EngineDies(p)
    <3>1. PICK code \in {"clean", "reload", "bad"} : state' = [state EXCEPT ![p] = code]
      BY <2>2 DEF EngineDies
    <3>2. state[p] = "up"
      BY <2>2 DEF EngineDies
    <3>3. state' \in [Pids -> Places]
      BY <3>1 DEF TypeOK, Places, Dead
    <3>4. \A q \in Pids : state'[q] = state[q] \/ (state'[q] \in Dead /\ state[q] \in Running)
      BY <3>1, <3>2 DEF TypeOK, Running, Dead
    <3>5. \A q \in Pids : state[q] = "wait" => state'[q] = "wait"
      BY <3>1, <3>2 DEF TypeOK
    <3> QED
      BY <3>3, <3>4, <3>5
  <2> QED
    BY <2>1, <2>2
<1>2. UNCHANGED <<op, target, stopped, child, parent, next, termed, supFile, engFile, recorded>>
  BY DEF Trap, EngineDies, command, files
<1>3. spent' \in [Events -> Nat]
  BY SpendType DEF Trap, EngineDies, Events, TypeOK
<1>4. TypeOK'
  <2>1. \A q \in Pids : q >= next' <=> state'[q] = "unborn"
    BY <1>1, <1>2 DEF TypeOK, Running, Looping, Dead
  <2> QED
    BY <1>1, <1>2, <1>3, <2>1 DEF TypeOK
<1>5. Lineage'
  BY <1>1, <1>2 DEF TypeOK, Lineage, Looping, Dead
<1>6. Commands'
  BY <1>1, <1>2 DEF TypeOK, Commands, Looping, Dead, Running
<1>7. Held'
  <2>1. ASSUME NEW e \in recorded, state'[e] = "up"
        PROVE  state'[parent[e]] = "wait" /\ child[parent[e]] = e
    BY <1>1, <1>2, <2>1 DEF TypeOK, Lineage, Held, Dead
  <2>2. \A q \in recorded : state'[q] \in Looping => supFile = q
    BY <1>1 DEF TypeOK, Held, Dead, Looping
  <2> QED
    BY <1>2, <2>1, <2>2 DEF Held
<1> QED
  BY <1>4, <1>5, <1>6, <1>7

\* A supervisor starts an engine and names it.
LEMMA ForkKeeps ==
  ASSUME SupInv, NEW p \in Pids, Fork(p) \/ Name(p)
  PROVE  SupInv'
<1> USE NoPid DEF SupInv
<1>1. CASE Fork(p)
  <2>1. /\ next \in Pids /\ state[next] = "unborn" /\ next + 1 \in 1 .. MaxPid + 1
        /\ next # p /\ parent[next] = Nil /\ next \notin recorded
    BY <1>1, SupervisorAssumption DEF Fork, TypeOK, Pids, Lineage
  <2>2. /\ state' = [state EXCEPT ![p] = "forked", ![next] = "up"]
        /\ parent' = [parent EXCEPT ![next] = p] /\ next' = next + 1 /\ state[p] = "head"
        /\ UNCHANGED <<op, target, stopped, child, termed, supFile, engFile, recorded, spent>>
    BY <1>1 DEF Fork, command, files
  <2>3. TypeOK'
    <3>1. state' \in [Pids -> Places] /\ parent' \in [Pids -> Pids \cup {Nil}]
      BY <2>2 DEF TypeOK, Places, Running, Looping
    <3>2. \A q \in Pids : q >= next' <=> state'[q] = "unborn"
      BY <2>1, <2>2, SupervisorAssumption DEF TypeOK, Pids
    <3> QED
      BY <2>1, <2>2, <3>1, <3>2 DEF TypeOK
  <2>4. Lineage'
    BY <2>1, <2>2 DEF TypeOK, Lineage, Looping
  <2>5. Commands'
    BY <2>1, <2>2 DEF TypeOK, Commands, Looping
  <2>6. Held'
    <3>1. \A e \in recorded : /\ e \in Pids \ {next} /\ parent'[e] = parent[e]
                              /\ state'[e] = "up" => state[e] = "up"
      BY <2>1, <2>2 DEF TypeOK
    <3>2. \A e \in recorded : state'[e] = "up" =>
            state[parent[e]] = "wait" /\ child[parent[e]] = e /\ parent[e] \in Pids \ {p, next}
      BY <2>1, <2>2, <3>1 DEF TypeOK, Lineage, Held
    <3>3. \A e \in recorded : state'[e] \in Looping => supFile = e
      BY <2>1, <2>2, <3>1 DEF TypeOK, Held, Looping
    <3>4. \A q \in Pids \ {p, next} : state'[q] = state[q]
      BY <2>2 DEF TypeOK
    <3>5. \A e \in recorded : state'[e] = "up" =>
            state'[parent'[e]] = "wait" /\ child'[parent'[e]] = e
      <4> SUFFICES ASSUME NEW e \in recorded, state'[e] = "up"
                   PROVE  state'[parent'[e]] = "wait" /\ child'[parent'[e]] = e
        OBVIOUS
      <4>1. parent'[e] = parent[e] /\ parent[e] \in Pids \ {p, next}
        BY <3>1, <3>2
      <4> QED
        BY <2>2, <3>2, <3>4, <4>1
    <3> QED
      BY <2>2, <3>3, <3>5 DEF Held
  <2> QED
    BY <2>3, <2>4, <2>5, <2>6
<1>2. CASE Name(p)
  <2>1. PICK e \in Pids : parent[e] = p /\ child' = [child EXCEPT ![p] = e]
    BY <1>2 DEF Name
  <2>2. /\ state[p] = "forked" /\ state' = [state EXCEPT ![p] = "named"]
        /\ UNCHANGED <<op, target, stopped, parent, next, termed, supFile, engFile, recorded, spent>>
    BY <1>2 DEF Name, Move, command, files
  <2>3. TypeOK'
    <3>1. state' \in [Pids -> Places] /\ child' \in [Pids -> Pids \cup {Nil}]
      BY <2>1, <2>2 DEF TypeOK, Places, Running, Looping
    <3>2. \A q \in Pids : q >= next' <=> state'[q] = "unborn"
      BY <2>2 DEF TypeOK
    <3> QED
      BY <2>2, <3>1, <3>2 DEF TypeOK
  <2>4. Lineage'
    BY <2>1, <2>2 DEF TypeOK, Lineage, Looping
  <2>5. Commands'
    BY <2>2 DEF TypeOK, Commands, Lineage, Looping
  <2>6. Held'
    BY <2>1, <2>2 DEF TypeOK, Lineage, Held, Looping
  <2> QED
    BY <2>3, <2>4, <2>5, <2>6
<1> QED
  BY <1>1, <1>2

\* The engine gets into its file, or its supervisor ends.
LEMMA RecordKeeps ==
  ASSUME SupInv, NEW p \in Pids, RecordEngine(p)
  PROVE  SupInv'
<1> USE NoPid DEF SupInv
<1>1. /\ state[p] = "named" /\ UNCHANGED <<op, target, stopped, child, parent, next, termed, supFile>>
      /\ child[p] \in Pids /\ parent[child[p]] = p
      /\ state[child[p]] \notin Looping \cup {"unborn"}
  BY DEF RecordEngine, Move, command, TypeOK, Lineage
<1>2. \/ /\ state' = [state EXCEPT ![p] = "wait"] /\ engFile' = child[p]
         /\ recorded' = recorded \cup {child[p]} /\ spent' = spent
      \/ /\ state' = [state EXCEPT ![p] = "gone"] /\ engFile' = Empty
         /\ recorded' = recorded /\ Spend("fault")
  BY DEF RecordEngine, Move
<1>3. TypeOK'
  <2>1. state' \in [Pids -> Places]
    BY <1>2 DEF TypeOK, Places, Running, Looping, Dead
  <2>2. \A q \in Pids : q >= next' <=> state'[q] = "unborn"
    BY <1>1, <1>2 DEF TypeOK
  <2>3. spent' \in [Events -> Nat]
    BY <1>2, SpendType DEF TypeOK, Events
  <2>4. recorded' \subseteq Pids /\ engFile' \in Pids \cup {Nil, Empty}
    BY <1>1, <1>2 DEF TypeOK
  <2> QED
    BY <1>1, <2>1, <2>2, <2>3, <2>4 DEF TypeOK
<1>4. Lineage'
  BY <1>1, <1>2 DEF TypeOK, Lineage, Looping
<1>5. Commands'
  BY <1>1, <1>2 DEF TypeOK, Commands, Lineage, Looping
<1>6. Held'
  <2>1. \A e \in recorded : state[e] = "up" => parent[e] \in Pids \ {p}
    BY <1>1 DEF TypeOK, Held, Lineage
  <2> QED
    BY <1>1, <1>2, <2>1 DEF TypeOK, Held, Looping
<1> QED
  BY <1>3, <1>4, <1>5, <1>6

LEMMA SupNext == SupInv /\ [Next]_vars => SupInv'
<1> SUFFICES ASSUME SupInv, [Next]_vars PROVE SupInv'
  OBVIOUS
<1>1. CASE StartCheck \/ StopBegin \/ Commanding
  BY <1>1, CheckKeeps, StartKeeps, StopKeeps DEF Commanding
<1>2. ASSUME NEW p \in Pids, Fork(p) \/ Name(p) \/ RecordEngine(p) \/ Trap(p) \/ EngineDies(p)
      PROVE  SupInv'
  BY <1>2, ForkKeeps, RecordKeeps, EndKeeps
<1>3. ASSUME NEW p \in Pids, Reap(p) \/ Updated(p) \/ Slept(p) \/ LogFails(p)
      PROVE  SupInv'
  <2>1. /\ state[p] \in Looping
        /\ state[p] = "wait" => child[p] # Nil /\ state[child[p]] \in Dead
        /\ UNCHANGED <<command, child, parent, next, termed, files>>
    BY <1>3 DEF Reap, Updated, Slept, LogFails, Move, Looping
  <2>2. \E to \in (Looping \ {"named"}) \cup Dead : state' = [state EXCEPT ![p] = to]
    BY <1>3 DEF Reap, Updated, Slept, LogFails, Move, Looping, Dead
  <2>3. spent' \in [Events -> Nat]
    BY <1>3, SpendType DEF Reap, Updated, Slept, LogFails, SupInv, TypeOK, Events
  <2> QED
    BY <2>1, <2>2, <2>3, MoveKeeps
<1>4. CASE UNCHANGED vars
  <2>1. UNCHANGED <<op, target, stopped, state, child, parent, next, termed, supFile, engFile,
                    recorded, spent>>
    BY <1>4 DEF vars, command, procs, files
  <2> QED
    BY <2>1 DEF SupInv, TypeOK, Lineage, Commands, Held
<1> QED
  BY <1>1, <1>2, <1>3, <1>4 DEF Next, Supervise

LEMMA SupAlways == Spec => []SupInv
BY SupInit, SupNext, PTL DEF Spec

-----------------------------------------------------------------------------

\* The pid files hold processes, a marker of a failed write, or nothing, and numbers
\* are given out in order.
THEOREM SupervisorTypeCorrect == Spec => []TypeOK
<1>1. SupInv => TypeOK
  BY DEF SupInv
<1> QED
  BY <1>1, SupAlways, PTL

\* When stop.sh has ended, no engine of a recorded supervisor runs and no recorded
\* supervisor is left to start one, whatever the signal met (stop.sh:25).
THEOREM StoppedForGood == Spec => []StopIsFinal
<1>1. SupInv => StopIsFinal
  <2> SUFFICES ASSUME SupInv, stopped, NEW p \in Supervisors \cup Engines
               PROVE  Stray(p)
    BY DEF StopIsFinal
  <2>1. supFile \notin Pids
    BY NoPid DEF SupInv, Commands
  <2>2. \A q \in recorded : state[q] \notin Looping
    BY <2>1 DEF SupInv, Held, TypeOK
  <2>3. CASE p \in recorded
    <3>1. p \in Pids /\ state[p] = "up"
      BY <2>2, <2>3 DEF Supervisors, Engines
    <3>2. parent[p] # Nil /\ state[parent[p]] = "wait"
      BY <2>3, <3>1 DEF SupInv, Lineage, Held
    <3> QED
      BY <2>2, <3>2 DEF Stray, Looping
  <2> QED
    BY <2>3 DEF Stray
<1> QED
  BY <1>1, SupAlways, PTL

\* Of two supervisors, or two engines, at work one never got into a pid file
\* (start.sh:33).
THEOREM OneSupervisorOneEngine == Spec => []OneOfEach
<1>1. SupInv => OneOfEach
  <2> SUFFICES ASSUME SupInv, NEW p \in Pids, NEW q \in Pids, p # q,
                      {p, q} \subseteq Supervisors \/ {p, q} \subseteq Engines,
                      ~Stray(p), ~Stray(q)
               PROVE  FALSE
    BY DEF OneOfEach
  <2>1. {p, q} \subseteq recorded
    BY DEF Stray
  <2>2. CASE {p, q} \subseteq Supervisors
    BY <2>1, <2>2 DEF Supervisors, SupInv, Held
  <2>3. CASE {p, q} \subseteq Engines
    <3>1. \A e \in {p, q} : /\ state[parent[e]] = "wait" /\ child[parent[e]] = e
                            /\ parent[e] \in recorded
      BY <2>1, <2>3 DEF Engines, Stray, SupInv, Lineage, Held
    <3>2. parent[p] = supFile /\ parent[q] = supFile
      BY <3>1 DEF SupInv, Held, Looping
    <3> QED
      BY <3>1, <3>2
  <2> QED
    BY <2>2, <2>3
<1> QED
  BY <1>1, SupAlways, PTL

=============================================================================
