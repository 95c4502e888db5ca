--------------------------- MODULE SnapshotProofs --------------------------
(***************************************************************************)
(* Theorems about SnapshotStore, for any set of keys, any chunk size and   *)
(* any number of failures, crashes, refreshes and updates.                 *)
(***************************************************************************)
EXTENDS SnapshotStore, FiniteSetTheorems, TLAPS

LEMMA KeyCount == Cardinality(Keys) \in Nat
BY FS_CardinalityType, StoreAssumption

\* The counters stay numbers.
LEMMA SpendType ==
  ASSUME TypeOK, NEW k \in Events, Spend(k)
  PROVE  spent' \in [Events -> Nat]
BY DEF TypeOK, Spend

\* What a process forgets keeps its type.
LEMMA DropType ==
  ASSUME TypeOK, NEW p \in Procs, Drop(p)
  PROVE  /\ left' \in [Procs -> Dump] /\ made' \in [Procs -> Nat]
         /\ plan' \in [Procs -> SUBSET Keys]
         /\ input' \in [Procs -> Inodes \cup {Nil}] /\ fd' \in [Procs -> Inodes \cup {Nil}]
<1>1. NoDump \in Dump
  BY DEF NoDump, Dump
<1> QED
  BY <1>1 DEF TypeOK, Drop

\* The control of a process and its own data.
OwnType ==
  /\ pc \in [Procs -> Places] /\ mode \in [Procs -> {"load", "refresh"}]
  /\ left \in [Procs -> Dump] /\ made \in [Procs -> Nat]
  /\ plan \in [Procs -> SUBSET Keys]
  /\ input \in [Procs -> Inodes \cup {Nil}] /\ fd \in [Procs -> Inodes \cup {Nil}]

\* The files.
FileType ==
  /\ dir \in [{"snapshot", "tmp"} -> Inodes \cup {Nil}]
  /\ DOMAIN data = Inodes /\ \A i \in Inodes : data[i] = Torn \/ data[i] \in Image
  /\ gz = Nil \/ gz \in Dump
  /\ sorted = Nil \/ sorted \subseteq Keys
  /\ DOMAIN chunk = ChunkNames
  /\ \A n \in ChunkNames : chunk[n] = Nil \/ chunk[n] \subseteq Keys

\* What is left of TypeOK.
RestType ==
  /\ site \in Sites
  /\ db = Closed \/ db \in [inode : Inodes, image : Image]
  /\ inputs \subseteq SUBSET Keys /\ spent \in [Events -> Nat]

LEMMA TypeParts == TypeOK <=> OwnType /\ FileType /\ RestType
BY DEF TypeOK, OwnType, FileType, RestType

\* An error leaves everything well typed.
LEMMA FailsType ==
  ASSUME TypeOK, NEW p \in Procs, Fails(p)
  PROVE  OwnType'
<1>1. Drop(p)
  BY DEF Fails
<1> QED
  BY <1>1, DropType DEF TypeOK, OwnType, Fails, Enter, Goto, Places

LEMMA TypeInit == Init => TypeOK
<1> SUFFICES ASSUME Init PROVE TypeOK
  OBVIOUS
<1>1. OwnType
  <2>1. NoDump \in Dump
    BY DEF NoDump, Dump
  <2> QED
    BY <2>1 DEF Init, OwnType, Places
<1>2. FileType
  <2>1. chunk = [n \in ChunkNames |-> Nil] /\ gz = Nil /\ sorted = Nil
    BY DEF Init
  <2>2. CASE site.found = "none"
    BY <2>1, <2>2 DEF Init, FileType
  <2>3. CASE site.found # "none"
    <3>1. site.found \in Formats
      BY <2>3, StoreAssumption DEF Init, Site
    <3>2. dir \in [{"snapshot", "tmp"} -> Inodes \cup {Nil}]
      BY <2>3, StoreAssumption DEF Init
    <3>3. PICK keys \in SUBSET Keys :
            data = [i \in Inodes |-> IF i = dir["snapshot"]
                                      THEN [format |-> site.found, keys |-> keys] ELSE Torn]
      BY <2>3 DEF Init
    <3> QED
      BY <2>1, <3>1, <3>2, <3>3 DEF FileType, Image
  <2> QED
    BY <2>2, <2>3
<1>3. RestType
  BY StoreAssumption DEF Init, RestType
<1> QED
  BY <1>1, <1>2, <1>3, TypeParts

LEMMA TypeNext == TypeOK /\ [Next]_vars => TypeOK'
<1> SUFFICES ASSUME TypeOK, [Next]_vars PROVE OwnType' /\ FileType' /\ RestType'
  BY TypeParts DEF TypeOK, OwnType, FileType, RestType
<1> USE TypeParts, FailsType
<1>1. ASSUME NEW p \in Procs, NEW d \in Dump, Fetch(p, d) PROVE OwnType' /\ FileType' /\ RestType'
  BY <1>1 DEF Fetch, OwnType, FileType, RestType, Goto, disk, work, Places, Dump
<1>2. ASSUME NEW p \in Procs, Scan(p) PROVE OwnType' /\ FileType' /\ RestType'
  <2>1. OwnType'
    BY <1>2 DEF Scan, OwnType, FileType, Goto, Places
  <2> QED
    BY <1>2, <2>1 DEF Scan, FileType, RestType, disk, partial
<1>3. ASSUME NEW p \in Procs, WriteChunk(p) PROVE OwnType' /\ FileType' /\ RestType'
  <2>1. PICK c \in SUBSET left[p].keys, again \in SUBSET left[p].keys :
          /\ chunk' = [chunk EXCEPT ![made[p]] = c]
          /\ left' = [left EXCEPT ![p].keys = @ \ (c \ again)]
    BY <1>3 DEF WriteChunk
  <2>2. left[p] \in Dump
    BY DEF OwnType
  <2>3. left' \in [Procs -> Dump]
    BY <2>1, <2>2 DEF OwnType, Dump
  <2>4. OwnType'
    BY <1>3, <2>3 DEF WriteChunk, OwnType
  <2>5. c \subseteq Keys
    BY <2>1, <2>2 DEF Dump
  <2> QED
    BY <1>3, <2>1, <2>4, <2>5 DEF WriteChunk, FileType, RestType, disk
<1>4. ASSUME NEW p \in Procs, EndOfDump(p) PROVE OwnType' /\ FileType' /\ RestType'
  <2>1. OwnType'
    BY <1>4 DEF EndOfDump, OwnType, Goto, Places, work
  <2> QED
    BY <1>4, <2>1 DEF EndOfDump, FileType, RestType, disk, partial
<1>5. ASSUME NEW p \in Procs, Merge(p) PROVE OwnType' /\ FileType' /\ RestType'
  <2> DEFINE mine == {chunk[n] : n \in {n \in ChunkNames : n < made[p]}}
  <2>1. CASE Nil \in mine
    BY <1>5, <2>1 DEF Merge, FileType, RestType, disk
  <2>2. CASE Nil \notin mine
    <3>1. sorted' = UNION mine /\ Goto(p, "survey") /\ UNCHANGED <<mode, work>>
      BY <1>5, <2>2 DEF Merge
    <3>2. UNION mine \subseteq Keys
      BY <2>2 DEF FileType
    <3>3. OwnType'
      BY <3>1 DEF OwnType, Goto, Places, work
    <3> QED
      BY <1>5, <3>1, <3>2, <3>3 DEF Merge, FileType, RestType, disk
  <2> QED
    BY <2>1, <2>2
<1>6. ASSUME NEW p \in Procs, Survey(p) PROVE OwnType' /\ FileType' /\ RestType'
  <2>1. OwnType'
    BY <1>6 DEF Survey, OwnType, FileType, Goto, Places
  <2> QED
    BY <1>6, <2>1 DEF Survey, FileType, RestType, disk, partial
<1>7. ASSUME NEW p \in Procs, Convert(p) PROVE OwnType' /\ FileType' /\ RestType'
  <2>1. OwnType'
    <3>1. CASE dir["snapshot"] = Nil \/ data[dir["snapshot"]] = Torn
      BY <1>7, <3>1 DEF Convert
    <3>2. CASE ~(dir["snapshot"] = Nil \/ data[dir["snapshot"]] = Torn)
      <4>1. dir["snapshot"] \in Inodes /\ data[dir["snapshot"]].keys \subseteq Keys
        BY <3>2 DEF FileType, Image
      <4>2. /\ input' = [input EXCEPT ![p] = dir["snapshot"]]
            /\ plan' = [plan EXCEPT ![p] = data[dir["snapshot"]].keys]
            /\ Goto(p, "create") /\ UNCHANGED <<mode, left, made, fd>>
        BY <1>7, <3>2 DEF Convert
      <4> QED
        BY <4>1, <4>2 DEF OwnType, Goto, Places
    <3> QED
      BY <3>1, <3>2
  <2> QED
    BY <1>7, <2>1 DEF Convert, FileType, RestType, disk, partial
<1>8. ASSUME NEW p \in Procs, Create(p) PROVE OwnType' /\ FileType' /\ RestType'
  <2>1. InodeFor("tmp") \in Inodes
    BY <1>8 DEF Create, InodeFor, Free, FileType
  <2>2. OwnType'
    BY <1>8, <2>1 DEF Create, OwnType, Goto, Places
  <2>3. FileType'
    BY <1>8, <2>1 DEF Create, FileType, partial
  <2> QED
    BY <1>8, <2>2, <2>3 DEF Create, RestType
<1>9. ASSUME NEW p \in Procs, Sync(p) PROVE OwnType' /\ FileType' /\ RestType'
  <2>1. OwnType'
    BY <1>9 DEF Sync, OwnType, Goto, Places
  <2>2. [format |-> "plh2", keys |-> plan[p]] \in Image
    BY DEF OwnType, Image, Formats
  <2>3. FileType'
    BY <1>9, <2>2 DEF Sync, FileType, partial
  <2> QED
    BY <1>9, <2>1, <2>3 DEF Sync, RestType
<1>10. ASSUME NEW p \in Procs, Publish(p) PROVE OwnType' /\ FileType' /\ RestType'
  <2>1. OwnType'
    BY <1>10 DEF Publish, OwnType, Goto, Places
  <2>2. FileType'
    BY <1>10 DEF Publish, FileType, partial
  <2> QED
    BY <1>10, <2>1, <2>2 DEF Publish, RestType
<1>11. ASSUME NEW p \in Procs, Clean(p) PROVE OwnType' /\ FileType' /\ RestType'
  <2>1. OwnType'
    BY <1>11, DropType DEF Clean, OwnType, Goto, Enter, Places
  <2> QED
    BY <1>11, <2>1 DEF Clean, FileType, RestType, disk
<1>12. ASSUME NEW p \in Procs, LoadPickles(p) PROVE OwnType' /\ FileType' /\ RestType'
  <2>1. [keys |-> Pickles, broken |-> FALSE] \in Dump
    BY StoreAssumption DEF Dump
  <2>2. OwnType'
    BY <1>12, <2>1 DEF LoadPickles, OwnType, Goto, Places
  <2> QED
    BY <1>12, <2>2 DEF LoadPickles, FileType, RestType, disk, partial
<1>13. ASSUME NEW p \in Procs, Load(p) PROVE OwnType' /\ FileType' /\ RestType'
  <2>1. OwnType'
    BY <1>13 DEF Load, OwnType, Goto, Places, work
  <2>2. db' = db \/ db' \in [inode : Inodes, image : Image]
    BY <1>13 DEF Load, FileType
  <2> QED
    BY <1>13, <2>1, <2>2 DEF Load, FileType, RestType, disk, partial
<1>14. ASSUME NEW p \in Procs, Fault(p) PROVE OwnType' /\ FileType' /\ RestType'
  <2>1. OwnType'
    BY <1>14, DropType DEF Fault, OwnType, Goto, Enter, Places
  <2>2. spent' \in [Events -> Nat]
    BY <1>14, SpendType DEF Fault, Events
  <2> QED
    BY <1>14, <2>1, <2>2 DEF Fault, FileType, RestType, disk, partial
<1>15. ASSUME NEW p \in Procs, Crash(p) PROVE OwnType' /\ FileType' /\ RestType'
  <2>1. OwnType'
    BY <1>15, DropType DEF Crash, OwnType, Goto, Enter, Places
  <2>2. spent' \in [Events -> Nat]
    BY <1>15, SpendType DEF Crash, Events
  <2> QED
    BY <1>15, <2>1, <2>2 DEF Crash, FileType, RestType, disk, partial
<1>16. ASSUME NEW p \in Updaters, StartUpdate(p) PROVE OwnType' /\ FileType' /\ RestType'
  <2>1. [keys |-> Pickles, broken |-> FALSE] \in Dump /\ p \in Procs
    BY StoreAssumption DEF Dump, Procs
  <2>2. OwnType'
    <3>1. CASE Goto(p, "fetch") /\ Enter(p, "refresh") /\ UNCHANGED left
      BY <1>16, <3>1 DEF StartUpdate, OwnType, Goto, Enter, Places
    <3>2. CASE /\ left' = [left EXCEPT ![p] = [keys |-> Pickles, broken |-> FALSE]]
               /\ Goto(p, "chunk") /\ UNCHANGED mode
      BY <1>16, <2>1, <3>2 DEF StartUpdate, OwnType, Goto, Places
    <3> QED
      BY <1>16, <3>1, <3>2 DEF StartUpdate
  <2>3. spent' \in [Events -> Nat]
    BY <1>16, SpendType DEF StartUpdate, Events
  <2> QED
    BY <1>16, <2>2, <2>3 DEF StartUpdate, FileType, RestType, disk, partial
<1>17. CASE AgeCheck
  <2>1. OwnType'
    BY <1>17 DEF AgeCheck, OwnType, Goto, Enter, Places, work, Procs
  <2>2. spent' \in [Events -> Nat]
    BY <1>17, SpendType DEF AgeCheck, Events
  <2> QED
    BY <1>17, <2>1, <2>2 DEF AgeCheck, FileType, RestType, disk, partial
<1>18. CASE StartEngine
  <2>1. OwnType'
    BY <1>18 DEF StartEngine, OwnType, Goto, Places, work, Procs
  <2> QED
    BY <1>18, <2>1 DEF StartEngine, FileType, RestType, disk, partial
<1>19. CASE Search \/ UNCHANGED vars
  BY <1>19 DEF Search, vars, disk, partial, work, OwnType, FileType, RestType
<1> QED
  BY <1>1, <1>2, <1>3, <1>4, <1>5, <1>6, <1>7, <1>8, <1>9, <1>10, <1>11, <1>12, <1>13, <1>14,
     <1>15, <1>16, <1>17, <1>18, <1>19 DEF Next, Work

-----------------------------------------------------------------------------
\* One process at a time rewrites the snapshot.

\* What deploy/goldpan-update.service and docs/DEPLOY.md ask for: either the engine
\* refreshes or one `data update` at a time does, beside an engine whose snapshot
\* is in the current format.
OneWriter ==
  /\ \A s \in Sites : ~(s.auto /\ s.timer) /\ (s.timer => s.found = "plh2")
  /\ \A p, q \in Updaters : p = q

\* Who writes.
Writer(p) == IF site.timer THEN p \in Updaters ELSE p = Engine

\* The others hold none of the files that are written.
Idle(p) ==
  /\ pc[p] \in {"down", "load", "run"} /\ (p # Engine => pc[p] = "down")
  /\ input[p] = Nil /\ fd[p] = Nil

\* The snapshot and its temporary file are two files, the one whole, and the engine's
\* open file is not the other.
FilesInv ==
  /\ dir["snapshot"] # Nil => dir["snapshot"] # dir["tmp"]
  /\ SnapshotWhole /\ OneDump
  /\ site.timer => dir["snapshot"] # Nil /\ data[dir["snapshot"]].format = "plh2"
  /\ Pickles \in inputs
  /\ Latest # Nil => Latest \in inputs
  /\ db.inode # Nil => db.inode # dir["tmp"] /\ data[db.inode] = db.image
  /\ pc[Engine] = "run" => db.inode # Nil

\* What the chunks of p's import hold.
ChunksOf(p) == UNION {chunk[n] : n \in {m \in ChunkNames : m < made[p]}}

\* What p is to import.
Wanted(p) == IF mode[p] = "refresh" THEN Latest ELSE Pickles

\* The chunks and what is left are the dump, and there are names enough for them.
Gathering(p) ==
  /\ pc[p] \in {"down", "load", "run", "fetch", "scan", "convert"} => made[p] = 0
  /\ pc[p] \in {"down", "load", "run", "convert"} => mode[p] = "load"
  /\ pc[p] \in {"fetch", "scan"} => mode[p] = "refresh"
  /\ pc[p] \in {"chunk", "merge"} =>
       /\ \A n \in ChunkNames : n < made[p] => chunk[n] # Nil
       /\ Cardinality(left[p].keys) + made[p] <= Cardinality(Keys)
  /\ pc[p] = "chunk" => left[p].broken \/ ChunksOf(p) \cup left[p].keys = Wanted(p)
  /\ pc[p] = "merge" => ChunksOf(p) = Wanted(p)
  /\ pc[p] = "survey" => sorted = Wanted(p)

\* What is being written is one dump, read from a file that stays as it is.
Writing(p) ==
  /\ fd[p] = IF pc[p] = "sync" THEN dir["tmp"] ELSE Nil
  /\ pc[p] \in {"sync", "publish"} => dir["tmp"] # Nil
  /\ pc[p] \in {"create", "sync", "publish"} /\ input[p] = Nil => plan[p] = Wanted(p)
  /\ pc[p] \in {"create", "sync"} /\ input[p] = Nil => sorted = plan[p]
  /\ input[p] # Nil =>
       /\ pc[p] \in {"create", "sync", "publish"} /\ made[p] = 0 /\ mode[p] = "load"
       /\ input[p] = dir["snapshot"] /\ data[input[p]].keys = plan[p]
  /\ pc[p] = "publish" => data[dir["tmp"]] = [format |-> "plh2", keys |-> plan[p]]

StoreInv ==
  /\ TypeOK /\ FilesInv
  /\ \A p \in Procs : IF Writer(p) THEN Gathering(p) /\ Writing(p) ELSE Idle(p)

LEMMA OneIsWriter ==
  ASSUME OneWriter, NEW p \in Procs, NEW q \in Procs, Writer(p), Writer(q)
  PROVE  p = q
BY DEF OneWriter, Writer

\* A step of the writer is a matter of the files and of the writer alone.
LEMMA WriterStep ==
  ASSUME OneWriter, StoreInv, TypeOK', NEW p \in Procs, Writer(p), site' = site,
         \A q \in Procs \ {p} : pc'[q] = pc[q] /\ input'[q] = input[q] /\ fd'[q] = fd[q],
         FilesInv', Gathering(p)', Writing(p)'
  PROVE  StoreInv'
<1>1. ASSUME NEW q \in Procs PROVE IF Writer(q)' THEN Gathering(q)' /\ Writing(q)' ELSE Idle(q)'
  <2>1. Writer(q)' <=> q = p
    BY OneIsWriter DEF Writer
  <2>2. CASE q = p
    BY <2>1, <2>2
  <2>3. CASE q # p
    <3>1. Idle(q)
      BY <2>3, OneIsWriter DEF StoreInv
    <3> QED
      BY <2>1, <2>3, <3>1 DEF Idle
  <2> QED
    BY <2>2, <2>3
<1> QED
  BY <1>1 DEF StoreInv

\* A process that is in an import or a conversion is the writer.
LEMMA WhoWrites ==
  ASSUME StoreInv, NEW p \in Procs,
         pc[p] \notin {"down", "load", "run"} \/ (p # Engine /\ pc[p] # "down")
  PROVE  Writer(p) /\ Gathering(p) /\ Writing(p)
BY DEF StoreInv, Idle

\* The files stay as they are and p neither searches nor fetched.
LEMMA FilesKept ==
  ASSUME StoreInv, UNCHANGED <<site, disk, gz, db, inputs>>, pc'[Engine] = "run" => pc[Engine] = "run"
  PROVE  FilesInv'
BY DEF StoreInv, FilesInv, SnapshotWhole, OneDump, Latest, disk

\* What is being written is one of the whole dumps.
LEMMA PlanIsDump ==
  ASSUME StoreInv, NEW p \in Procs, Writing(p), pc[p] \in {"create", "sync", "publish"}
  PROVE  plan[p] \in inputs
<1>1. TypeOK /\ FilesInv /\ plan[p] # Nil
  BY StoreAssumption DEF StoreInv, TypeOK
<1>2. CASE input[p] = Nil
  <2>1. Wanted(p) \in inputs
    BY <1>1, <1>2 DEF Writing, Wanted, FilesInv
  <2> QED
    BY <1>2, <2>1 DEF Writing
<1>3. CASE input[p] # Nil
  BY <1>1, <1>3 DEF Writing, FilesInv, SnapshotWhole, OneDump
<1> QED
  BY <1>2, <1>3

\* Dropping everything is always right.
LEMMA DropKeeps ==
  ASSUME OneWriter, StoreInv, TypeOK', NEW p \in Procs, Drop(p), Enter(p, "load"),
         NEW to \in {"down", "load"}, pc' = [pc EXCEPT ![p] = to],
         p # Engine /\ ~Writer(p) => to = "down",
         UNCHANGED <<site, disk, inputs>>, gz' \in {gz, Nil},
         Writer(p) \/ UNCHANGED partial,
         db' = db \/ (p = Engine /\ db' = Closed)
  PROVE  StoreInv'
<1>1. \A q \in Procs \ {p} : pc'[q] = pc[q] /\ input'[q] = input[q] /\ fd'[q] = fd[q]
  BY DEF Drop, StoreInv, TypeOK
<1>2. FilesInv'
  <2>1. UNCHANGED <<site, dir, data, inputs>> /\ FilesInv /\ pc'[Engine] \in {pc[Engine], to}
    BY DEF StoreInv, TypeOK, disk, Procs
  <2>2. SnapshotWhole' /\ OneDump'
    BY <2>1 DEF FilesInv, SnapshotWhole, OneDump
  <2>3. db'.inode # Nil => db' = db
    BY DEF Closed
  <2>4. pc'[Engine] = "run" => db' = db /\ pc[Engine] = "run"
    BY DEF StoreInv, TypeOK, Procs
  <2> QED
    BY <2>1, <2>2, <2>3, <2>4 DEF FilesInv, Latest
<1>3. made'[p] = 0 /\ input'[p] = Nil /\ fd'[p] = Nil /\ pc'[p] = to /\ mode'[p] = "load"
  BY DEF Drop, Enter, StoreInv, TypeOK
<1>4. CASE Writer(p)
  <2>1. Gathering(p)' /\ Writing(p)'
    BY <1>3 DEF Gathering, Writing
  <2> QED
    BY <1>1, <1>2, <1>4, <2>1, WriterStep
<1>5. CASE ~Writer(p)
  <2>1. ASSUME NEW q \in Procs PROVE IF Writer(q)' THEN Gathering(q)' /\ Writing(q)' ELSE Idle(q)'
    <3>1. CASE q = p
      BY <1>3, <1>5, <3>1 DEF Writer, Idle
    <3>2. CASE q # p
      <4>1. /\ pc'[q] = pc[q] /\ input'[q] = input[q] /\ fd'[q] = fd[q]
            /\ left'[q] = left[q] /\ made'[q] = made[q] /\ plan'[q] = plan[q]
            /\ mode'[q] = mode[q]
            /\ UNCHANGED <<gz, chunk, sorted, dir, data, site, inputs>>
        BY <1>1, <1>5, <3>2 DEF Drop, Enter, StoreInv, TypeOK, partial, disk
      <4>2. CASE Writer(q)
        <5>1. Gathering(q) /\ Writing(q) /\ ChunksOf(q)' = ChunksOf(q)
          BY <4>1, <4>2 DEF StoreInv, ChunksOf
        <5>2. Gathering(q)' /\ Writing(q)'
          BY <4>1, <5>1 DEF Gathering, Writing, Wanted, Latest
        <5> QED
          BY <4>1, <4>2, <5>2 DEF Writer
      <4>3. CASE ~Writer(q)
        BY <4>1, <4>3 DEF StoreInv, Writer, Idle
      <4> QED
        BY <4>2, <4>3 DEF Writer
    <3> QED
      BY <3>1, <3>2
  <2> QED
    BY <1>2, <2>1 DEF StoreInv
<1> QED
  BY <1>4, <1>5

LEMMA FailsKeeps ==
  ASSUME OneWriter, StoreInv, TypeOK', NEW p \in Procs, Fails(p),
         UNCHANGED <<site, disk, partial, db, inputs>>
  PROVE  StoreInv'
<1> DEFINE to == IF p = Engine /\ mode[p] = "refresh" THEN "load" ELSE "down"
<1>1. /\ Drop(p) /\ Enter(p, "load") /\ pc' = [pc EXCEPT ![p] = to]
      /\ to \in {"down", "load"} /\ (p # Engine => to = "down")
  BY DEF Fails, Goto
<1>2. gz' \in {gz, Nil}
  BY DEF partial
<1> HIDE DEF to
<1> QED
  BY <1>1, <1>2, DropKeeps

\* The dump is fetched and opened.
LEMMA FetchKeeps ==
  ASSUME OneWriter, StoreInv, TypeOK', NEW p \in Procs,
         Scan(p) \/ \E d \in Dump : Fetch(p, d)
  PROVE  StoreInv'
<1>1. pc[p] \in {"fetch", "scan"} /\ Writer(p) /\ Gathering(p) /\ Writing(p) /\ TypeOK /\ FilesInv
  BY WhoWrites DEF Scan, Fetch, StoreInv
<1>2. made[p] = 0 /\ input[p] = Nil /\ fd[p] = Nil
  BY <1>1 DEF Gathering, Writing
<1>3. ASSUME NEW d \in Dump, Fetch(p, d) PROVE StoreInv'
  <2>1. /\ pc' = [pc EXCEPT ![p] = "scan"] /\ gz' = d
        /\ UNCHANGED <<site, dir, data, mode, made, input, fd, db>>
        /\ inputs \subseteq inputs' /\ (d.broken \/ d.keys \in inputs')
    BY <1>3 DEF Fetch, Goto, disk, work
  <2>2. pc'[p] = "scan" /\ \A q \in Procs \ {p} : pc'[q] = pc[q]
    BY <1>1, <2>1 DEF TypeOK
  <2>3. FilesInv'
    BY <1>1, <2>1, <2>2 DEF FilesInv, SnapshotWhole, OneDump, Latest, Procs
  <2>4. Gathering(p)' /\ Writing(p)'
    BY <1>1, <1>2, <2>1, <2>2 DEF Gathering, Writing
  <2> QED
    BY <1>1, <2>1, <2>2, <2>3, <2>4, WriterStep
<1>4. CASE Scan(p)
  <2>1. CASE gz = Nil
    BY <1>4, <2>1, FailsKeeps DEF Scan
  <2>2. CASE gz # Nil
    <3>1. /\ pc' = [pc EXCEPT ![p] = "chunk"] /\ left' = [left EXCEPT ![p] = gz]
          /\ UNCHANGED <<site, disk, partial, dir, data, gz, mode, made, input, fd, db, inputs>>
      BY <1>4, <2>2 DEF Scan, Goto, disk, partial
    <3>2. pc'[p] = "chunk" /\ left'[p] = gz /\ \A q \in Procs \ {p} : pc'[q] = pc[q]
      BY <1>1, <3>1 DEF TypeOK
    <3>3. FilesInv'
      BY <3>1, <3>2, FilesKept DEF Procs
    <3>4. gz.keys \subseteq Keys /\ Cardinality(gz.keys) <= Cardinality(Keys)
      BY <1>1, <2>2, FS_Subset, StoreAssumption DEF TypeOK, Dump
    <3>5. Cardinality(gz.keys) \in Nat
      BY <3>4, FS_Subset, FS_CardinalityType, StoreAssumption
    <3>6. ChunksOf(p)' = {}
      BY <1>2, <3>1 DEF ChunksOf, ChunkNames
    <3>7. left'[p].broken \/ left'[p].keys = Wanted(p)'
      BY <1>1, <2>2, <3>1, <3>2 DEF Gathering, Wanted, Latest
    <3>9. Gathering(p)'
      BY <1>1, <1>2, <2>2, <3>1, <3>2, <3>4, <3>5, <3>6, <3>7, KeyCount DEF Gathering, ChunkNames
    <3>8. Writing(p)'
      BY <1>2, <3>1, <3>2 DEF Writing
    <3> QED
      BY <1>1, <3>1, <3>2, <3>3, <3>8, <3>9, WriterStep
  <2> QED
    BY <2>1, <2>2
<1> QED
  BY <1>3, <1>4

\* What a chunk takes from what is left, even if some of it comes again.
LEMMA LessLeft ==
  ASSUME NEW L \in SUBSET Keys, NEW c \in SUBSET L, NEW again \in SUBSET c, c # {}, c # again
  PROVE  /\ Cardinality(L) \in Nat /\ Cardinality(L \ (c \ again)) \in Nat
         /\ Cardinality(L \ (c \ again)) + 1 <= Cardinality(L)
<1> DEFINE M == L \ (c \ again)
<1>1. IsFiniteSet(L) /\ IsFiniteSet(M) /\ M \in SUBSET L /\ M # L
  BY FS_Subset, StoreAssumption
<1>2. Cardinality(L) \in Nat /\ Cardinality(M) \in Nat
  BY <1>1, FS_CardinalityType
<1>3. Cardinality(M) <= Cardinality(L) /\ Cardinality(M) # Cardinality(L)
  BY <1>1, FS_Subset
<1> QED
  BY <1>2, <1>3

\* A chunk is written.
LEMMA ChunkKeeps ==
  ASSUME OneWriter, StoreInv, TypeOK', NEW p \in Procs, WriteChunk(p)
  PROVE  StoreInv'
<1>1. /\ pc[p] = "chunk" /\ Writer(p) /\ Gathering(p) /\ Writing(p) /\ TypeOK /\ FilesInv
      /\ UNCHANGED <<site, disk, gz, pc, mode, dir, data, input, fd, db, inputs>>
  BY WhoWrites DEF WriteChunk, StoreInv, disk
<1>2. PICK c \in SUBSET left[p].keys, again \in SUBSET left[p].keys :
        /\ again \subseteq c /\ c # {} /\ c # again
        /\ chunk' = [chunk EXCEPT ![made[p]] = c]
        /\ left' = [left EXCEPT ![p].keys = @ \ (c \ again)]
        /\ made' = [made EXCEPT ![p] = @ + 1]
  BY DEF WriteChunk
<1>3. left[p] \in Dump /\ left[p].keys \in SUBSET Keys /\ made[p] \in Nat
  BY <1>1 DEF TypeOK, Dump
<1>4. /\ left'[p].keys = left[p].keys \ (c \ again) /\ left'[p].broken = left[p].broken
      /\ made'[p] = made[p] + 1
  BY <1>1, <1>2, <1>3 DEF TypeOK, Dump
<1>5. Cardinality(left[p].keys) + made[p] <= Cardinality(Keys)
  BY <1>1 DEF Gathering
<1>6. /\ Cardinality(left[p].keys) \in Nat /\ Cardinality(left'[p].keys) \in Nat
      /\ Cardinality(left'[p].keys) + 1 <= Cardinality(left[p].keys)
  <2>1. again \in SUBSET c
    BY <1>2
  <2> DEFINE L == left[p].keys
  <2>2. L \in SUBSET Keys /\ c \in SUBSET L /\ again \in SUBSET c /\ c # {} /\ c # again
    BY <1>2, <1>3, <2>1
  <2>3. left'[p].keys = L \ (c \ again)
    BY <1>4
  <2> HIDE DEF L
  <2>4. /\ Cardinality(L) \in Nat /\ Cardinality(L \ (c \ again)) \in Nat
        /\ Cardinality(L \ (c \ again)) + 1 <= Cardinality(L)
    BY <2>2, LessLeft
  <2> QED
    BY <2>3, <2>4 DEF L
<1>7. made[p] \in ChunkNames /\ Cardinality(left'[p].keys) + made'[p] <= Cardinality(Keys)
  BY <1>3, <1>4, <1>5, <1>6, KeyCount DEF ChunkNames
<1>8. \A n \in ChunkNames : n < made'[p] <=> n < made[p] \/ n = made[p]
  BY <1>3, <1>4, KeyCount DEF ChunkNames
<1>9. \A n \in ChunkNames : chunk'[n] = IF n = made[p] THEN c ELSE chunk[n]
  BY <1>1, <1>2 DEF TypeOK
<1>10. c # Nil
  BY <1>3, StoreAssumption
<1>11. ChunksOf(p)' = ChunksOf(p) \cup c
  <2>1. \A n \in ChunkNames : n < made[p] => n # made[p]
    BY <1>3, KeyCount DEF ChunkNames
  <2>2. ASSUME NEW x PROVE x \in ChunksOf(p)' <=> x \in ChunksOf(p) \cup c
    BY <1>7, <1>8, <1>9, <2>1 DEF ChunksOf
  <2> QED
    BY <2>2
<1>12. left'[p].broken \/ ChunksOf(p)' \cup left'[p].keys = Wanted(p)'
  <2>1. left[p].broken \/ ChunksOf(p) \cup left[p].keys = Wanted(p)
    BY <1>1 DEF Gathering
  <2>2. ChunksOf(p)' \cup left'[p].keys = ChunksOf(p) \cup left[p].keys
    BY <1>2, <1>4, <1>11
  <2> QED
    BY <1>1, <1>4, <2>1, <2>2 DEF Wanted, Latest
<1>13. \A n \in ChunkNames : n < made'[p] => chunk'[n] # Nil
  BY <1>1, <1>8, <1>9, <1>10 DEF Gathering
<1>14. Gathering(p)'
  BY <1>1, <1>7, <1>12, <1>13 DEF Gathering, ChunkNames
<1>15. Writing(p)'
  BY <1>1 DEF Writing
<1>16. FilesInv'
  BY <1>1, FilesKept
<1> QED
  BY <1>1, <1>14, <1>15, <1>16, WriterStep

\* The end of the dump, and the merge of the chunks it was written to.
LEMMA MergeKeeps ==
  ASSUME OneWriter, StoreInv, TypeOK', NEW p \in Procs, EndOfDump(p) \/ Merge(p)
  PROVE  StoreInv'
<1>1. /\ pc[p] \in {"chunk", "merge"} /\ Writer(p) /\ Gathering(p) /\ Writing(p) /\ TypeOK /\ FilesInv
      /\ UNCHANGED <<site, disk, gz, chunk, dir, data, db, inputs>>
  BY WhoWrites DEF EndOfDump, Merge, StoreInv, disk, partial
<1>2. input[p] = Nil /\ fd[p] = Nil
  BY <1>1 DEF Writing
<1>3. CASE EndOfDump(p)
  <2>1. CASE Fails(p)
    BY <1>3, <2>1, FailsKeeps DEF EndOfDump
  <2>2. CASE left[p] = NoDump /\ Goto(p, "merge") /\ UNCHANGED <<mode, work>>
    <3>1. /\ pc' = [pc EXCEPT ![p] = "merge"] /\ pc[p] = "chunk"
          /\ UNCHANGED <<mode, left, made, plan, input, fd, sorted>>
      BY <1>3, <2>2 DEF EndOfDump, Goto, work, partial
    <3>2. pc'[p] = "merge" /\ \A q \in Procs \ {p} : pc'[q] = pc[q]
      BY <1>1, <3>1 DEF TypeOK
    <3>3. ChunksOf(p) = Wanted(p)
      <4>1. ChunksOf(p) \cup left[p].keys = Wanted(p) /\ left[p].keys = {}
        BY <1>1, <2>2, <3>1 DEF Gathering, NoDump
      <4>2. ChunksOf(p) \cup {} = ChunksOf(p)
        OBVIOUS
      <4> QED
        BY <4>1, <4>2
    <3>4. ChunksOf(p)' = ChunksOf(p)
      BY <1>1, <3>1 DEF ChunksOf
    <3>5. Gathering(p)' /\ Writing(p)'
      BY <1>1, <1>2, <3>1, <3>2, <3>3, <3>4 DEF Gathering, Writing, Wanted, Latest
    <3>6. FilesInv'
      BY <1>1, <3>2, FilesKept DEF Procs
    <3> QED
      BY <1>1, <3>1, <3>2, <3>5, <3>6, WriterStep
  <2> QED
    BY <1>3, <2>1, <2>2 DEF EndOfDump
<1>4. CASE Merge(p)
  <2> DEFINE mine == {chunk[n] : n \in {n \in ChunkNames : n < made[p]}}
  <2>1. Nil \notin mine /\ pc[p] = "merge"
    BY <1>1, <1>4 DEF Merge, Gathering
  <2>2. sorted' = UNION mine /\ pc' = [pc EXCEPT ![p] = "survey"] /\ UNCHANGED <<mode, work>>
    BY <1>4, <2>1 DEF Merge, Goto
  <2>3. UNION mine = Wanted(p)
    BY <1>1, <2>1 DEF Gathering, ChunksOf
  <2> HIDE DEF mine
  <2>4. pc'[p] = "survey" /\ \A q \in Procs \ {p} : pc'[q] = pc[q]
    BY <1>1, <2>2 DEF TypeOK
  <2>5. Gathering(p)' /\ Writing(p)'
    BY <1>1, <1>2, <2>2, <2>3, <2>4 DEF Gathering, Writing, Wanted, Latest, work
  <2>6. FilesInv'
    BY <1>1, <2>4, FilesKept DEF Procs
  <2> QED
    BY <1>1, <2>2, <2>4, <2>5, <2>6, WriterStep DEF work
<1> QED
  BY <1>3, <1>4

\* The first pass over the sorted records, or over the snapshot to convert.
LEMMA SurveyKeeps ==
  ASSUME OneWriter, StoreInv, TypeOK', NEW p \in Procs, Survey(p) \/ Convert(p)
  PROVE  StoreInv'
<1>1. /\ pc[p] \in {"survey", "convert"} /\ Writer(p) /\ Gathering(p) /\ Writing(p) /\ TypeOK /\ FilesInv
      /\ UNCHANGED <<site, disk, partial, gz, chunk, sorted, dir, data, db, inputs>>
  BY WhoWrites DEF Survey, Convert, StoreInv, disk, partial
<1>2. input[p] = Nil /\ fd[p] = Nil
  BY <1>1 DEF Writing
<1>3. CASE Survey(p)
  <2>1. CASE sorted = Nil
    BY <1>1, <1>3, <2>1, FailsKeeps DEF Survey
  <2>2. CASE sorted # Nil
    <3>1. /\ pc' = [pc EXCEPT ![p] = "create"] /\ plan' = [plan EXCEPT ![p] = sorted] /\ pc[p] = "survey"
          /\ UNCHANGED <<mode, left, made, input, fd>>
      BY <1>3, <2>2 DEF Survey, Goto
    <3>2. pc'[p] = "create" /\ plan'[p] = sorted /\ \A q \in Procs \ {p} : pc'[q] = pc[q]
      BY <1>1, <3>1 DEF TypeOK
    <3>3. Gathering(p)' /\ Writing(p)'
      BY <1>1, <1>2, <3>1, <3>2 DEF Gathering, Writing, Wanted, Latest
    <3>4. FilesInv'
      BY <1>1, <3>2, FilesKept DEF Procs
    <3> QED
      BY <1>1, <3>1, <3>2, <3>3, <3>4, WriterStep
  <2> QED
    BY <2>1, <2>2
<1>4. CASE Convert(p)
  <2> DEFINE i == dir["snapshot"]
  <2>1. CASE i = Nil \/ data[i] = Torn
    BY <1>1, <1>4, <2>1, FailsKeeps DEF Convert
  <2>2. CASE ~(i = Nil \/ data[i] = Torn)
    <3>1. /\ pc' = [pc EXCEPT ![p] = "create"] /\ plan' = [plan EXCEPT ![p] = data[i].keys]
          /\ input' = [input EXCEPT ![p] = i] /\ pc[p] = "convert"
          /\ UNCHANGED <<mode, left, made, fd>>
      BY <1>4, <2>2 DEF Convert, Goto
    <3>2. /\ pc'[p] = "create" /\ plan'[p] = data[i].keys /\ input'[p] = i
          /\ \A q \in Procs \ {p} : pc'[q] = pc[q] /\ input'[q] = input[q]
      BY <1>1, <3>1 DEF TypeOK
    <3>3. i \in Inodes
      BY <1>1, <2>2 DEF TypeOK
    <3>4. Gathering(p)'
      BY <3>1, <3>2 DEF Gathering
    <3>5. made[p] = 0 /\ mode[p] = "load"
      BY <1>1, <3>1 DEF Gathering
    <3>6. Writing(p)'
      BY <1>1, <1>2, <3>1, <3>2, <3>3, <3>5, StoreAssumption DEF Writing
    <3>7. FilesInv'
      BY <1>1, <3>2, FilesKept DEF Procs
    <3> QED
      BY <1>1, <3>1, <3>2, <3>4, <3>6, <3>7, WriterStep
  <2> QED
    BY <2>1, <2>2
<1> QED
  BY <1>3, <1>4

\* The temporary file is created, and filled.
LEMMA FillKeeps ==
  ASSUME OneWriter, StoreInv, TypeOK', NEW p \in Procs, Create(p) \/ Sync(p)
  PROVE  StoreInv'
<1>1. /\ pc[p] \in {"create", "sync"} /\ Writer(p) /\ Gathering(p) /\ Writing(p) /\ TypeOK /\ FilesInv
      /\ UNCHANGED <<site, partial, gz, chunk, sorted, mode, left, made, plan, input, db, inputs>>
  BY WhoWrites DEF Create, Sync, StoreInv, partial
<1>2. CASE Create(p)
  <2> DEFINE i == InodeFor("tmp")
  <2>1. /\ dir' = [dir EXCEPT !["tmp"] = i] /\ data' = [data EXCEPT ![i] = Torn]
        /\ fd' = [fd EXCEPT ![p] = i] /\ pc' = [pc EXCEPT ![p] = "sync"] /\ pc[p] = "create"
    BY <1>2 DEF Create, Goto
  <2>2. i \in Inodes /\ i # dir["snapshot"] /\ i # db.inode
    <3>1. CASE dir["tmp"] = Nil
      <4>1. i \in Free
        BY <1>2, <3>1 DEF Create, InodeFor
      <4> QED
        BY <4>1 DEF Free
    <3>2. CASE dir["tmp"] # Nil
      BY <1>1, <3>2 DEF InodeFor, FilesInv, TypeOK
    <3> QED
      BY <3>1, <3>2
  <2> HIDE DEF i
  <2>3. /\ dir'["snapshot"] = dir["snapshot"] /\ dir'["tmp"] = i
        /\ \A j \in Inodes \ {i} : data'[j] = data[j]
        /\ pc'[p] = "sync" /\ fd'[p] = i
        /\ \A q \in Procs \ {p} : pc'[q] = pc[q] /\ fd'[q] = fd[q]
    BY <1>1, <2>1, <2>2 DEF TypeOK
  <2>4. dir["snapshot"] # Nil => data'[dir["snapshot"]] = data[dir["snapshot"]]
    BY <1>1, <2>2, <2>3 DEF TypeOK
  <2>5. db.inode # Nil => db.inode \in Inodes
    BY <1>1 DEF TypeOK, Closed
  <2>6. FilesInv'
    <3>1. SnapshotWhole' /\ OneDump'
      BY <1>1, <2>3, <2>4 DEF FilesInv, SnapshotWhole, OneDump
    <3>2. pc'[Engine] = "run" => pc[Engine] = "run"
      BY <2>3 DEF Procs
    <3>3. db.inode # Nil => data'[db.inode] = data[db.inode]
      BY <2>2, <2>3, <2>5
    <3> QED
      BY <1>1, <2>2, <2>3, <2>4, <3>1, <3>2, <3>3 DEF FilesInv, Latest
  <2>7. Gathering(p)'
    BY <2>3 DEF Gathering
  <2>8. Writing(p)'
    BY <1>1, <2>1, <2>2, <2>3, <2>4, StoreAssumption DEF Writing, Wanted, Latest
  <2> QED
    BY <1>1, <2>3, <2>6, <2>7, <2>8, WriterStep
<1>3. CASE Sync(p)
  <2> DEFINE i == dir["tmp"]
  <2> DEFINE image == [format |-> "plh2", keys |-> plan[p]]
  <2>1. i \in Inodes /\ fd[p] = i /\ pc[p] = "sync" /\ i # dir["snapshot"] /\ i # db.inode
    BY <1>1, <1>3 DEF Sync, Writing, TypeOK, FilesInv
  <2>2. ~ \E q \in Procs \ {p} : fd[q] = fd[p]
    BY <1>1, <2>1, OneIsWriter, StoreAssumption DEF StoreInv, Idle
  <2>3. Records(p) = plan[p]
    <3>1. CASE input[p] = Nil
      BY <1>1, <2>1, <3>1 DEF Records, Writing
    <3>2. CASE input[p] # Nil
      BY <1>1, <3>2 DEF Records, Writing, FilesInv, SnapshotWhole
    <3> QED
      BY <3>1, <3>2
  <2>4. /\ data' = [data EXCEPT ![i] = image] /\ dir' = dir
        /\ fd' = [fd EXCEPT ![p] = Nil] /\ pc' = [pc EXCEPT ![p] = "publish"]
    BY <1>3, <2>1, <2>2, <2>3 DEF Sync, Goto
  <2> HIDE DEF i, image
  <2>5. /\ data'[i] = image /\ \A j \in Inodes \ {i} : data'[j] = data[j]
        /\ pc'[p] = "publish" /\ fd'[p] = Nil
        /\ \A q \in Procs \ {p} : pc'[q] = pc[q] /\ fd'[q] = fd[q]
    BY <1>1, <2>1, <2>4 DEF TypeOK
  <2>6. dir["snapshot"] # Nil => data'[dir["snapshot"]] = data[dir["snapshot"]]
    BY <1>1, <2>1, <2>5 DEF TypeOK
  <2>7. db.inode # Nil => db.inode \in Inodes
    BY <1>1 DEF TypeOK, Closed
  <2>8. FilesInv'
    <3>1. SnapshotWhole' /\ OneDump'
      BY <1>1, <2>4, <2>6 DEF FilesInv, SnapshotWhole, OneDump
    <3>2. pc'[Engine] = "run" => pc[Engine] = "run"
      BY <2>5 DEF Procs
    <3>3. db.inode # Nil => data'[db.inode] = data[db.inode]
      BY <2>1, <2>5, <2>7
    <3> QED
      BY <1>1, <2>4, <2>6, <3>1, <3>2, <3>3 DEF FilesInv, Latest
  <2>9. Gathering(p)'
    BY <2>5 DEF Gathering
  <2>10. Writing(p)'
    BY <1>1, <2>1, <2>4, <2>5, <2>6, StoreAssumption DEF Writing, Wanted, Latest, i, image
  <2> QED
    BY <1>1, <2>5, <2>8, <2>9, <2>10, WriterStep
<1> QED
  BY <1>2, <1>3

\* The rename, and the removal of the import's files.
LEMMA PublishKeeps ==
  ASSUME OneWriter, StoreInv, TypeOK', NEW p \in Procs, Publish(p) \/ Clean(p)
  PROVE  StoreInv'
<1>1. /\ pc[p] \in {"publish", "clean"} /\ Writer(p) /\ Gathering(p) /\ Writing(p) /\ TypeOK /\ FilesInv
      /\ UNCHANGED <<site, data, db, inputs>>
  BY WhoWrites DEF Publish, Clean, StoreInv, disk
<1>2. CASE Publish(p)
  <2> DEFINE i == dir["tmp"]
  <2> DEFINE to == IF input[p] = Nil THEN "clean" ELSE "load"
  <2>1. /\ i # Nil /\ i \in Inodes /\ pc[p] = "publish" /\ fd[p] = Nil
        /\ data[i] = [format |-> "plh2", keys |-> plan[p]] /\ plan[p] \in inputs
        /\ input[p] # Nil => made[p] = 0 /\ mode[p] = "load"
    BY <1>1, <1>2, PlanIsDump DEF Publish, Writing, TypeOK
  <2>2. /\ dir' = [snapshot |-> i, tmp |-> Nil] /\ pc' = [pc EXCEPT ![p] = to]
        /\ input' = [input EXCEPT ![p] = Nil] /\ UNCHANGED <<mode, left, made, fd, gz>>
    BY <1>2, <2>1 DEF Publish, Goto, partial
  <2>3. /\ dir'["snapshot"] = i /\ dir'["tmp"] = Nil /\ pc'[p] = to /\ input'[p] = Nil
        /\ \A q \in Procs \ {p} : pc'[q] = pc[q] /\ input'[q] = input[q]
    BY <1>1, <2>2 DEF TypeOK
  <2>4. data[i] # Torn
    BY <1>1, <2>1, StoreAssumption DEF TypeOK, Image, Formats
  <2>5. FilesInv'
    <3>1. SnapshotWhole' /\ OneDump'
      BY <1>1, <2>1, <2>3, <2>4 DEF SnapshotWhole, OneDump
    <3>2. pc'[Engine] = "run" => pc[Engine] = "run"
      BY <2>3 DEF Procs
    <3> QED
      BY <1>1, <2>1, <2>2, <2>3, <3>1, <3>2 DEF FilesInv, Latest
  <2>6. Gathering(p)' /\ Writing(p)'
    BY <2>1, <2>2, <2>3 DEF Gathering, Writing
  <2> QED
    BY <1>1, <2>2, <2>3, <2>5, <2>6, WriterStep
<1>3. CASE Clean(p)
  <2>1. /\ Drop(p) /\ Enter(p, "load") /\ pc' = [pc EXCEPT ![p] = "load"]
        /\ gz' \in {gz, Nil} /\ UNCHANGED disk
    BY <1>3 DEF Clean, Goto
  <2> QED
    BY <1>1, <2>1, DropKeeps
<1> QED
  BY <1>2, <1>3

\* A process that writes nothing goes from one such place to another.
LEMMA PlainKeeps ==
  ASSUME OneWriter, StoreInv, TypeOK', NEW p \in Procs, pc[p] \in {"down", "load", "run"},
         NEW to \in {"down", "load", "run"}, pc' = [pc EXCEPT ![p] = to],
         p # Engine => to = "down",
         UNCHANGED <<site, disk, partial, mode, work, inputs>>, FilesInv'
  PROVE  StoreInv'
<1>1. /\ TypeOK /\ pc'[p] = to /\ \A q \in Procs \ {p} : pc'[q] = pc[q]
      /\ UNCHANGED <<dir, data, gz, sorted, chunk, mode, left, made, plan, input, fd>>
  BY DEF StoreInv, TypeOK, disk, partial, work
<1>2. CASE Writer(p)
  <2>1. Gathering(p) /\ Writing(p)
    BY <1>2 DEF StoreInv
  <2>2. Gathering(p)' /\ Writing(p)'
    BY <1>1, <2>1 DEF Gathering, Writing, Wanted, Latest
  <2> QED
    BY <1>1, <1>2, <2>2, WriterStep
<1>3. CASE ~Writer(p)
  <2>1. ASSUME NEW q \in Procs PROVE IF Writer(q)' THEN Gathering(q)' /\ Writing(q)' ELSE Idle(q)'
    <3>1. CASE q = p
      BY <1>1, <1>3, <3>1 DEF StoreInv, Idle, Writer
    <3>2. CASE q # p /\ Writer(q)
      <4>1. Gathering(q) /\ Writing(q) /\ ChunksOf(q)' = ChunksOf(q) /\ pc'[q] = pc[q]
        BY <1>1, <3>2 DEF StoreInv, ChunksOf
      <4>2. Gathering(q)' /\ Writing(q)'
        BY <1>1, <4>1 DEF Gathering, Writing, Wanted, Latest
      <4> QED
        BY <3>2, <4>2 DEF Writer
    <3>3. CASE q # p /\ ~Writer(q)
      BY <1>1, <3>3 DEF StoreInv, Idle, Writer
    <3> QED
      BY <3>1, <3>2, <3>3
  <2> QED
    BY <2>1 DEF StoreInv
<1> QED
  BY <1>2, <1>3

\* The pickles are imported.
LEMMA PicklesKeep ==
  ASSUME OneWriter, StoreInv, TypeOK', NEW p \in Procs, Writer(p), pc[p] \in {"down", "load"},
         left' = [left EXCEPT ![p] = [keys |-> Pickles, broken |-> FALSE]],
         pc' = [pc EXCEPT ![p] = "chunk"],
         UNCHANGED <<site, disk, partial, mode, made, plan, input, fd, db, inputs>>
  PROVE  StoreInv'
<1>1. Gathering(p) /\ Writing(p) /\ TypeOK /\ FilesInv
  BY DEF StoreInv
<1>2. made[p] = 0 /\ mode[p] = "load" /\ input[p] = Nil /\ fd[p] = Nil
  BY <1>1 DEF Gathering, Writing
<1>3. /\ pc'[p] = "chunk" /\ \A q \in Procs \ {p} : pc'[q] = pc[q]
      /\ left'[p] = [keys |-> Pickles, broken |-> FALSE]
  BY <1>1 DEF TypeOK
<1>4. Cardinality(Pickles) \in Nat /\ Cardinality(Pickles) <= Cardinality(Keys)
  BY FS_Subset, FS_CardinalityType, StoreAssumption
<1>5. ChunksOf(p)' = {}
  BY <1>2 DEF ChunksOf, ChunkNames
<1>6. Gathering(p)'
  BY <1>1, <1>2, <1>3, <1>4, <1>5, KeyCount DEF Gathering, Wanted, ChunkNames
<1>7. Writing(p)'
  BY <1>2, <1>3 DEF Writing
<1>8. FilesInv'
  BY <1>3, FilesKept DEF Procs, partial
<1> QED
  BY <1>3, <1>6, <1>7, <1>8, WriterStep

\* The snapshot is loaded, or sent to be converted.
LEMMA LoadKeeps ==
  ASSUME OneWriter, StoreInv, TypeOK', NEW p \in Procs, LoadPickles(p) \/ Load(p)
  PROVE  StoreInv'
<1>1. pc[p] = "load" /\ TypeOK /\ FilesInv /\ UNCHANGED <<site, disk, partial, gz, inputs>>
  BY DEF LoadPickles, Load, StoreInv, partial
<1>2. p # Engine => Writer(p)
  BY <1>1, WhoWrites
<1>3. CASE LoadPickles(p)
  <2>1. Writer(p)
    BY <1>2, <1>3, <1>1 DEF LoadPickles, FilesInv, Writer
  <2>2. CASE p = Engine /\ site.pickles
    <3>1. /\ left' = [left EXCEPT ![p] = [keys |-> Pickles, broken |-> FALSE]]
          /\ pc' = [pc EXCEPT ![p] = "chunk"] /\ UNCHANGED <<mode, made, plan, input, fd, db>>
      BY <1>3, <2>2 DEF LoadPickles, Goto
    <3> QED
      BY <1>1, <2>1, <3>1, PicklesKeep
  <2>3. CASE ~(p = Engine /\ site.pickles)
    BY <1>1, <1>3, <2>3, FailsKeeps DEF LoadPickles
  <2> QED
    BY <2>2, <2>3
<1>4. CASE Load(p)
  <2> DEFINE i == dir["snapshot"]
  <2>1. i # Nil /\ i \in Inodes /\ data[i] # Torn /\ i # dir["tmp"]
    BY <1>1, <1>4 DEF Load, FilesInv, SnapshotWhole, TypeOK
  <2>2. CASE data[i].format # "plh2"
    <3>1. pc' = [pc EXCEPT ![p] = "convert"] /\ UNCHANGED <<mode, work, db>>
      BY <1>4, <2>1, <2>2 DEF Load, Goto
    <3>2. Writer(p) /\ Gathering(p) /\ Writing(p)
      BY <1>1, <1>2, <2>2 DEF FilesInv, Writer, StoreInv
    <3>3. /\ pc'[p] = "convert" /\ \A q \in Procs \ {p} : pc'[q] = pc[q]
          /\ UNCHANGED <<mode, left, made, plan, input, fd>>
      BY <1>1, <3>1 DEF TypeOK, work
    <3>4. Gathering(p)' /\ Writing(p)'
      BY <1>1, <3>2, <3>3 DEF Gathering, Writing
    <3>5. FilesInv'
      BY <1>1, <3>1, <3>3, FilesKept DEF Procs
    <3> QED
      BY <1>1, <3>2, <3>3, <3>4, <3>5, WriterStep
  <2>3. CASE data[i].format = "plh2"
    <3> DEFINE to == IF p = Engine THEN "run" ELSE "down"
    <3>1. /\ pc' = [pc EXCEPT ![p] = to] /\ UNCHANGED <<mode, work>>
          /\ db' = IF p = Engine THEN [inode |-> i, image |-> data[i]] ELSE db
      BY <1>4, <2>1, <2>3 DEF Load, Goto
    <3>2. UNCHANGED <<dir, data>>
      BY <1>1 DEF disk
    <3>3. FilesInv'
      <4>1. SnapshotWhole' /\ OneDump'
        BY <1>1, <3>2 DEF FilesInv, SnapshotWhole, OneDump
      <4>2. p # Engine => db' = db /\ pc'[Engine] = pc[Engine]
        BY <1>1, <3>1 DEF TypeOK, Procs
      <4>3. p = Engine => db'.inode = i /\ db'.image = data[i]
        BY <3>1
      <4> HIDE DEF i
      <4> QED
        BY <1>1, <2>1, <3>2, <4>1, <4>2, <4>3 DEF FilesInv, Latest
    <3>4. to \in {"down", "load", "run"} /\ (p # Engine => to = "down")
      OBVIOUS
    <3> HIDE DEF to
    <3> QED
      BY <1>1, <3>1, <3>3, <3>4, PlainKeeps
  <2> QED
    BY <2>2, <2>3
<1> QED
  BY <1>3, <1>4

\* Starts, failures and crashes.
LEMMA OutsideKeeps ==
  ASSUME OneWriter, StoreInv, TypeOK',
         \/ \E p \in Procs : Fault(p) \/ Crash(p)
         \/ \E p \in Updaters : StartUpdate(p)
         \/ AgeCheck \/ StartEngine
  PROVE  StoreInv'
<1> USE DEF Goto
<1>1. ASSUME NEW p \in Procs, Fault(p) PROVE StoreInv'
  <2>1. UNCHANGED <<site, disk, partial, gz, db, inputs>>
    BY <1>1 DEF Fault, partial
  <2>2. CASE pc[p] = "clean"
    <3>1. Drop(p) /\ Enter(p, "load") /\ pc' = [pc EXCEPT ![p] = "load"] /\ Writer(p)
      BY <1>1, <2>2, WhoWrites DEF Fault
    <3> QED
      BY <2>1, <3>1, DropKeeps
  <2>3. CASE pc[p] # "clean"
    BY <1>1, <2>1, <2>3, FailsKeeps DEF Fault
  <2> QED
    BY <2>2, <2>3
<1>2. ASSUME NEW p \in Procs, Crash(p) PROVE StoreInv'
  <2>1. /\ Drop(p) /\ Enter(p, "load") /\ pc' = [pc EXCEPT ![p] = "down"]
        /\ UNCHANGED <<site, disk, partial, gz, inputs>>
        /\ db' = db \/ (p = Engine /\ db' = Closed)
    BY <1>2 DEF Crash, partial
  <2> QED
    BY <2>1, DropKeeps
<1>3. ASSUME NEW p \in Updaters, StartUpdate(p) PROVE StoreInv'
  <2>1. /\ Writer(p) /\ p \in Procs /\ p # Engine /\ pc[p] = "down"
        /\ UNCHANGED <<site, disk, partial, gz, made, plan, input, fd, db, inputs>>
    BY <1>3, StoreAssumption DEF StartUpdate, Writer, Procs, partial
  <2>2. Gathering(p) /\ Writing(p) /\ TypeOK
    BY <2>1 DEF StoreInv
  <2>3. CASE pc' = [pc EXCEPT ![p] = "fetch"] /\ Enter(p, "refresh")
    <3>1. pc'[p] = "fetch" /\ mode'[p] = "refresh" /\ \A q \in Procs \ {p} : pc'[q] = pc[q]
      BY <2>2, <2>3 DEF TypeOK, Enter
    <3>2. Gathering(p)' /\ Writing(p)'
      BY <2>1, <2>2, <3>1 DEF Gathering, Writing
    <3>3. FilesInv'
      BY <2>1, <3>1, FilesKept DEF Procs
    <3> QED
      BY <2>1, <3>1, <3>2, <3>3, WriterStep
  <2>4. CASE /\ left' = [left EXCEPT ![p] = [keys |-> Pickles, broken |-> FALSE]]
             /\ pc' = [pc EXCEPT ![p] = "chunk"] /\ UNCHANGED mode
    BY <2>1, <2>4, PicklesKeep
  <2> QED
    BY <1>3, <2>3, <2>4 DEF StartUpdate
<1>4. CASE AgeCheck
  <2>1. TypeOK /\ FilesInv /\ Engine \in Procs
    BY DEF StoreInv, Procs
  <2>2. /\ pc' = [pc EXCEPT ![Engine] = "fetch"] /\ db' = Closed /\ pc[Engine] = "run"
        /\ UNCHANGED <<site, dir, data, gz, left, made, plan, input, fd, inputs>>
    BY <1>4 DEF AgeCheck, disk, partial, work
  <2>3. Writer(Engine)
    BY <1>4, <2>1 DEF AgeCheck, OneWriter, Writer, TypeOK
  <2>4. Gathering(Engine) /\ Writing(Engine)
    BY <2>1, <2>3 DEF StoreInv
  <2>5. /\ pc'[Engine] = "fetch" /\ \A q \in Procs \ {Engine} : pc'[q] = pc[q]
        /\ mode'[Engine] = "refresh"
    BY <1>4, <2>1, <2>2 DEF AgeCheck, Enter, TypeOK
  <2>6. Gathering(Engine)' /\ Writing(Engine)'
    BY <2>2, <2>4, <2>5 DEF Gathering, Writing
  <2>7. FilesInv'
    BY <2>1, <2>2, <2>5 DEF FilesInv, SnapshotWhole, OneDump, Latest, Closed
  <2> QED
    BY <2>1, <2>2, <2>3, <2>5, <2>6, <2>7, WriterStep
<1>5. CASE StartEngine
  <2>1. /\ pc[Engine] = "down" /\ pc' = [pc EXCEPT ![Engine] = "load"] /\ Engine \in Procs
        /\ UNCHANGED <<site, disk, partial, gz, mode, work, db, inputs>>
    BY <1>5 DEF StartEngine, Procs, partial
  <2>2. pc'[Engine] = "load"
    BY <2>1 DEF StoreInv, TypeOK
  <2>3. FilesInv'
    BY <2>1, <2>2, FilesKept
  <2> QED
    BY <2>1, <2>3, PlainKeeps
<1> QED
  BY <1>1, <1>2, <1>3, <1>4, <1>5

LEMMA StoreInit == OneWriter /\ Init => StoreInv
<1> SUFFICES ASSUME OneWriter, Init PROVE StoreInv
  OBVIOUS
<1>1. TypeOK
  BY TypeInit
<1>2. FilesInv
  <2>1. CASE site.found = "none"
    BY <2>1 DEF Init, FilesInv, SnapshotWhole, OneDump, OneWriter, Latest, Closed, Procs
  <2>2. CASE site.found # "none"
    <3>1. PICK i \in Inodes : dir = [snapshot |-> i, tmp |-> Nil]
      BY <2>2, StoreAssumption DEF Init
    <3>2. PICK keys \in SUBSET Keys :
            /\ data = [j \in Inodes |-> IF j = dir["snapshot"]
                                      THEN [format |-> site.found, keys |-> keys] ELSE Torn]
            /\ inputs = {Pickles, keys}
      BY <2>2 DEF Init
    <3>3. data[i] = [format |-> site.found, keys |-> keys]
      BY <3>1, <3>2
    <3>4. data[i] # Torn
      BY <2>2, <3>3, StoreAssumption DEF Init, Site
    <3>5. site.timer => site.found = "plh2"
      BY DEF Init, OneWriter
    <3> QED
      BY <3>1, <3>2, <3>3, <3>4, <3>5, StoreAssumption
      DEF Init, FilesInv, SnapshotWhole, OneDump, Latest, Closed, Procs
  <2> QED
    BY <2>1, <2>2
<1>3. ASSUME NEW p \in Procs PROVE IF Writer(p) THEN Gathering(p) /\ Writing(p) ELSE Idle(p)
  BY <1>3 DEF Init, Gathering, Writing, Idle
<1> QED
  BY <1>1, <1>2, <1>3 DEF StoreInv

LEMMA StoreNext == OneWriter /\ StoreInv /\ [Next]_vars => StoreInv'
<1> SUFFICES ASSUME OneWriter, StoreInv, [Next]_vars PROVE StoreInv'
  OBVIOUS
<1>1. TypeOK'
  BY TypeNext DEF StoreInv
<1>2. ASSUME NEW p \in Procs, Work(p) \/ \E d \in Dump : Fetch(p, d) PROVE StoreInv'
  BY <1>1, <1>2, FetchKeeps, ChunkKeeps, MergeKeeps, SurveyKeeps, FillKeeps, PublishKeeps, LoadKeeps
  DEF Work
<1>3. CASE \/ \E p \in Procs : Fault(p) \/ Crash(p)
           \/ \E p \in Updaters : StartUpdate(p)
           \/ AgeCheck \/ StartEngine
  BY <1>1, <1>3, OutsideKeeps
<1>4. CASE UNCHANGED vars
  <2>1. UNCHANGED <<site, dir, data, gz, chunk, sorted, pc, mode, left, made, plan, input, fd, db, inputs>>
    BY <1>4 DEF vars, disk, partial, work
  <2>2. FilesInv'
    BY <2>1 DEF StoreInv, FilesInv, SnapshotWhole, OneDump, Latest
  <2>3. ASSUME NEW p \in Procs PROVE IF Writer(p)' THEN Gathering(p)' /\ Writing(p)' ELSE Idle(p)'
    <3>1. CASE Writer(p)
      <4>1. Gathering(p)' /\ Writing(p)'
        BY <2>1, <3>1 DEF StoreInv, Gathering, ChunksOf, Writing, Wanted, Latest
      <4> QED
        BY <2>1, <3>1, <4>1 DEF Writer
    <3>2. CASE ~Writer(p)
      BY <2>1, <3>2 DEF StoreInv, Idle, Writer
    <3> QED
      BY <3>1, <3>2
  <2> QED
    BY <1>1, <2>2, <2>3 DEF StoreInv
<1> QED
  BY <1>2, <1>3, <1>4 DEF Next, Search

LEMMA StoreAlways == ASSUME OneWriter PROVE Spec => []StoreInv
BY StoreInit, StoreNext, PTL DEF Spec

-----------------------------------------------------------------------------

\* Every file and every process keeps its type, whoever writes at the same time.
THEOREM StoreTypeCorrect == Spec => []TypeOK
BY TypeInit, TypeNext, PTL DEF Spec

\* With one writer what is at cfg.snapshot can be loaded after any failure or kill
\* (main.rs:46).
THEOREM SnapshotStaysWhole == OneWriter => (Spec => []SnapshotWhole)
<1> SUFFICES ASSUME OneWriter PROVE Spec => []SnapshotWhole
  OBVIOUS
<1>1. StoreInv => SnapshotWhole
  BY DEF StoreInv, FilesInv
<1> QED
  BY <1>1, StoreAlways, PTL

\* With one writer the engine's index is that of the file it has open, whatever
\* replaced the snapshot since.
THEOREM LookupsStayCoherent == OneWriter => (Spec => []LookupCoherent)
<1> SUFFICES ASSUME OneWriter PROVE Spec => []LookupCoherent
  OBVIOUS
<1>1. StoreInv => LookupCoherent
  BY DEF StoreInv, FilesInv, LookupCoherent
<1> QED
  BY <1>1, StoreAlways, PTL

\* With one writer the snapshot holds one whole dump, whatever an interrupted import
\* left in partial/.
THEOREM SnapshotIsOneDump == OneWriter => (Spec => []OneDump)
<1> SUFFICES ASSUME OneWriter PROVE Spec => []OneDump
  OBVIOUS
<1>1. StoreInv => OneDump
  BY DEF StoreInv, FilesInv
<1> QED
  BY <1>1, StoreAlways, PTL

-----------------------------------------------------------------------------
\* The refinement of FundedStore.  Every step but four leaves what readers see as it
\* is: Fetch and Clean change the download, Publish the snapshot, and a load, AgeCheck
\* and Crash what lookups are answered by.

\* What readers see: the snapshot and what the engine answers by.
Kept == IF dir["snapshot"] = Nil THEN Nil ELSE KeysIn(dir["snapshot"])
Served ==
  IF pc[Engine] # "run" THEN Nil
  ELSE IF data[db.inode] # db.image THEN Torn ELSE KeysIn(db.inode)

\* While one process writes, the engine is answered by what it opened.
LEMMA ServedIsOpened ==
  ASSUME StoreInv, pc[Engine] = "run"
  PROVE  /\ db.inode \in Inodes /\ data[db.inode] = db.image /\ db.image # Torn
         /\ Served = db.image.keys /\ Served \in SUBSET Keys /\ Served # Nil
<1>1. TypeOK /\ FilesInv
  BY DEF StoreInv
<1>2. db.inode # Nil /\ data[db.inode] = db.image
  BY <1>1 DEF FilesInv
<1>3. db \in [inode : Inodes, image : Image]
  BY <1>1, <1>2 DEF TypeOK, Closed
<1>4. db.image # Torn /\ db.image.keys \in SUBSET Keys
  BY <1>3, StoreAssumption DEF Image
<1> QED
  BY <1>2, <1>3, <1>4, StoreAssumption DEF Served, KeysIn

\* The snapshot's keys are keys.
LEMMA KeptIsKeys ==
  ASSUME StoreInv
  PROVE  /\ Kept \in (SUBSET Keys) \cup {Nil}
         /\ dir["snapshot"] # Nil =>
              Kept = data[dir["snapshot"]].keys /\ Kept \in SUBSET Keys /\ Kept # Nil
<1>1. TypeOK /\ FilesInv
  BY DEF StoreInv
<1>2. CASE dir["snapshot"] = Nil
  BY <1>2 DEF Kept
<1>3. CASE dir["snapshot"] # Nil
  <2>1. data[dir["snapshot"]] \in Image /\ data[dir["snapshot"]] # Torn
    BY <1>1, <1>3 DEF FilesInv, SnapshotWhole, TypeOK
  <2>2. Kept = data[dir["snapshot"]].keys
    BY <1>3, <2>1 DEF Kept, KeysIn
  <2>3. Kept \in SUBSET Keys
    BY <2>1, <2>2 DEF Image
  <2> QED
    BY <2>2, <2>3, StoreAssumption
<1> QED
  BY <1>2, <1>3

\* What was downloaded is keys.
LEMMA LatestIsKeys == TypeOK => Latest \in (SUBSET Keys) \cup {Nil}
BY DEF TypeOK, Latest, Dump

\* The four steps of FundedStore, and none, in terms of what readers see here.
LEMMA IsDownload ==
  ASSUME Latest' \in (SUBSET Keys) \cup {Nil}, UNCHANGED <<Kept, Served>>
  PROVE  Promise!FNext
BY DEF Promise!FNext, Promise!Download, Kept, Served

LEMMA IsImport ==
  ASSUME Kept' \in {Latest, Pickles} \ {Nil}, UNCHANGED <<Latest, Served>>
  PROVE  Promise!FNext
BY DEF Promise!FNext, Promise!Import, Kept, Served

LEMMA IsOpen ==
  ASSUME Served = Nil, Kept # Nil, Served' = Kept, UNCHANGED <<Latest, Kept>>
  PROVE  Promise!FNext
BY DEF Promise!FNext, Promise!Open, Kept, Served

LEMMA IsClose ==
  ASSUME Served # Nil, Served' = Nil, UNCHANGED <<Latest, Kept>>
  PROVE  Promise!FNext
BY DEF Promise!FNext, Promise!Close, Kept, Served

LEMMA IsStutter ==
  ASSUME UNCHANGED <<Latest, Kept, Served>>
  PROVE  UNCHANGED Promise!fvars
BY DEF Promise!fvars, Kept, Served

\* A step of a process that neither searches nor begins to.
Aside(p) == pc[p] # "run" /\ \E to \in Places \ {"run"} : pc' = [pc EXCEPT ![p] = to]

LEMMA AsideKeepsRun ==
  ASSUME TypeOK, NEW p \in Procs, Aside(p)
  PROVE  pc'[Engine] = "run" <=> pc[Engine] = "run"
BY DEF TypeOK, Aside, Procs

LEMMA FailsAside ==
  ASSUME NEW p \in Procs, Fails(p), pc[p] # "run"
  PROVE  Aside(p)
<1> DEFINE to == IF p = Engine /\ mode[p] = "refresh" THEN "load" ELSE "down"
<1>1. to \in Places \ {"run"} /\ pc' = [pc EXCEPT ![p] = to]
  BY DEF Fails, Goto, Places
<1> QED
  BY <1>1 DEF Aside

\* Readers see nothing of a step that leaves the files and the engine's search alone.
LEMMA QuietStep ==
  ASSUME UNCHANGED <<disk, gz, db>>, pc'[Engine] = "run" <=> pc[Engine] = "run"
  PROVE  UNCHANGED <<Latest, Kept, Served>>
<1>1. UNCHANGED <<dir, data, gz, db>>
  BY DEF disk
<1> QED
  BY <1>1 DEF Latest, Kept, Served, KeysIn

\* Nor of one that writes to the temporary file.
LEMMA TmpStep ==
  ASSUME StoreInv, UNCHANGED <<gz, db>>, pc'[Engine] = "run" <=> pc[Engine] = "run",
         dir'["snapshot"] = dir["snapshot"],
         NEW i \in Inodes, i # dir["snapshot"], i # db.inode,
         \A j \in Inodes \ {i} : data'[j] = data[j]
  PROVE  UNCHANGED <<Latest, Kept, Served>>
<1>1. Latest' = Latest
  BY DEF Latest
<1>2. Kept' = Kept
  <2>1. dir["snapshot"] # Nil => dir["snapshot"] \in Inodes
    BY DEF StoreInv, TypeOK
  <2> QED
    BY <2>1 DEF Kept, KeysIn
<1>3. Served' = Served
  <2>1. CASE pc[Engine] = "run"
    <3>1. db.inode \in Inodes
      BY <2>1, ServedIsOpened
    <3> QED
      BY <2>1, <3>1 DEF Served, KeysIn
  <2>2. CASE pc[Engine] # "run"
    BY <2>2 DEF Served
  <2> QED
    BY <2>1, <2>2
<1> QED
  BY <1>1, <1>2, <1>3

\* What readers see when p works: nothing, until it has a whole snapshot to rename.
LEMMA WorkIsQuiet ==
  ASSUME StoreInv, NEW p \in Procs,
         \/ Scan(p) \/ WriteChunk(p) \/ EndOfDump(p) \/ Merge(p) \/ Survey(p) \/ Convert(p)
         \/ LoadPickles(p)
  PROVE  UNCHANGED <<Latest, Kept, Served>>
<1>1. TypeOK /\ UNCHANGED <<disk, gz, db>>
  BY DEF StoreInv, Scan, WriteChunk, EndOfDump, Merge, Survey, Convert, LoadPickles, partial
<1>2. CASE WriteChunk(p)
  BY <1>1, <1>2, QuietStep DEF WriteChunk
<1>3. CASE \/ Scan(p) \/ EndOfDump(p) \/ Merge(p) \/ Survey(p) \/ Convert(p) \/ LoadPickles(p)
  <2>1. pc[p] # "run"
    BY <1>3 DEF Scan, EndOfDump, Merge, Survey, Convert, LoadPickles
  <2>2. Fails(p) \/ \E to \in {"chunk", "merge", "survey", "create"} : Goto(p, to)
    BY <1>3 DEF Scan, EndOfDump, Merge, Survey, Convert, LoadPickles
  <2>3. Aside(p)
    BY <2>1, <2>2, FailsAside DEF Aside, Goto, Places
  <2> QED
    BY <1>1, <2>3, AsideKeepsRun, QuietStep
<1> QED
  BY <1>2, <1>3

\* A snapshot is written under another name, in a file that no reader has open.
LEMMA FillIsQuiet ==
  ASSUME StoreInv, NEW p \in Procs, Create(p) \/ Sync(p)
  PROVE  UNCHANGED <<Latest, Kept, Served>>
<1>1. TypeOK /\ FilesInv /\ Writing(p) /\ UNCHANGED <<gz, db>>
  BY WhoWrites DEF StoreInv, Create, Sync, partial
<1>2. Aside(p)
  BY DEF Create, Sync, Aside, Goto, Places
<1>3. pc'[Engine] = "run" <=> pc[Engine] = "run"
  BY <1>1, <1>2, AsideKeepsRun
<1>4. CASE Create(p)
  <2> DEFINE i == InodeFor("tmp")
  <2>1. dir' = [dir EXCEPT !["tmp"] = i] /\ data' = [data EXCEPT ![i] = Torn]
    BY <1>4 DEF Create
  <2>2. i \in Inodes /\ i # dir["snapshot"] /\ i # db.inode
    <3>1. CASE dir["tmp"] = Nil
      <4>1. i \in Free
        BY <1>4, <3>1 DEF Create, InodeFor
      <4> QED
        BY <4>1 DEF Free
    <3>2. CASE dir["tmp"] # Nil
      <4>1. i = dir["tmp"] /\ i \in Inodes
        BY <1>1, <3>2 DEF InodeFor, TypeOK
      <4> QED
        BY <1>1, <3>2, <4>1, StoreAssumption DEF FilesInv
    <3> QED
      BY <3>1, <3>2
  <2>3. dir'["snapshot"] = dir["snapshot"] /\ \A j \in Inodes \ {i} : data'[j] = data[j]
    BY <1>1, <2>1 DEF TypeOK
  <2> HIDE DEF i
  <2> QED
    BY <1>1, <1>3, <2>2, <2>3, TmpStep
<1>5. CASE Sync(p)
  <2>1. fd[p] = dir["tmp"] /\ dir["tmp"] # Nil /\ dir' = dir
    BY <1>1, <1>5 DEF Sync, Writing
  <2>2. fd[p] \in Inodes /\ fd[p] # dir["snapshot"] /\ fd[p] # db.inode
    BY <1>1, <2>1, StoreAssumption DEF FilesInv, TypeOK
  <2>3. \A j \in Inodes \ {fd[p]} : data'[j] = data[j]
    BY <1>1, <1>5 DEF Sync, TypeOK
  <2> QED
    BY <1>1, <1>3, <2>1, <2>2, <2>3, TmpStep
<1> QED
  BY <1>4, <1>5

\* The rename is an import, or shows the same keys in another format.
LEMMA PublishKeepsPromise ==
  ASSUME StoreInv, NEW p \in Procs, Publish(p)
  PROVE  [Promise!FNext]_Promise!fvars
<1>1. TypeOK /\ FilesInv /\ Gathering(p) /\ Writing(p) /\ pc[p] = "publish" /\ dir["tmp"] # Nil
  BY WhoWrites DEF StoreInv, Publish, Writing
<1>2. /\ dir' = [snapshot |-> dir["tmp"], tmp |-> Nil]
      /\ Goto(p, IF input[p] = Nil THEN "clean" ELSE "load")
      /\ UNCHANGED <<data, gz, db>>
  BY <1>1 DEF Publish, partial
<1>3. pc'[Engine] = "run" <=> pc[Engine] = "run"
  <2>1. Aside(p)
    BY <1>1, <1>2 DEF Goto, Aside, Places
  <2> QED
    BY <1>1, <2>1, AsideKeepsRun
<1>4. UNCHANGED <<Latest, Served>>
  BY <1>2, <1>3 DEF Latest, Served, KeysIn
<1>5. Kept' = plan[p] /\ plan[p] # Nil
  <2>1. data[dir["tmp"]].keys = plan[p] /\ data[dir["tmp"]] # Torn
    <3>1. data[dir["tmp"]] = [format |-> "plh2", keys |-> plan[p]]
      BY <1>1 DEF Writing
    <3>2. plan[p] \in SUBSET Keys /\ "plh2" \in Formats
      BY <1>1 DEF TypeOK, Formats
    <3> QED
      BY <3>1, <3>2, StoreAssumption
  <2> QED
    BY <1>1, <1>2, <2>1, StoreAssumption DEF Kept, KeysIn, TypeOK
<1>6. CASE input[p] = Nil
  <2>1. Kept' \in {Latest, Pickles} \ {Nil}
    BY <1>1, <1>5, <1>6 DEF Writing, Wanted
  <2> QED
    BY <1>4, <2>1, IsImport
<1>7. CASE input[p] # Nil
  <2>1. dir["snapshot"] # Nil /\ data[dir["snapshot"]].keys = plan[p]
    BY <1>1, <1>7 DEF Writing
  <2>2. Kept' = Kept
    BY <1>5, <2>1, KeptIsKeys
  <2> QED
    BY <1>4, <2>2, IsStutter
<1> QED
  BY <1>6, <1>7

\* A download or its removal is a Download.
LEMMA FetchKeepsPromise ==
  ASSUME StoreInv, TypeOK', NEW p \in Procs, Clean(p) \/ \E d \in Dump : Fetch(p, d)
  PROVE  [Promise!FNext]_Promise!fvars
<1>1. TypeOK /\ UNCHANGED <<dir, data, db>>
  BY DEF StoreInv, Clean, Fetch, disk
<1>2. Aside(p)
  BY DEF Clean, Fetch, Aside, Goto, Places
<1>3. pc'[Engine] = "run" <=> pc[Engine] = "run"
  BY <1>1, <1>2, AsideKeepsRun
<1>4. UNCHANGED <<Kept, Served>>
  BY <1>1, <1>3 DEF Kept, Served, KeysIn
<1>5. Latest' \in (SUBSET Keys) \cup {Nil}
  BY DEF TypeOK, Latest, Dump
<1> QED
  BY <1>4, <1>5, IsDownload

\* A load that ends in a search opens the snapshot; no other load shows.
LEMMA LoadKeepsPromise ==
  ASSUME StoreInv, NEW p \in Procs, Load(p)
  PROVE  [Promise!FNext]_Promise!fvars
<1> DEFINE i == dir["snapshot"]
<1>1. /\ TypeOK /\ FilesInv /\ pc[p] = "load" /\ i # Nil /\ UNCHANGED <<disk, gz>>
      /\ data[i] # Torn
  BY DEF Load, StoreInv, partial, FilesInv, SnapshotWhole
<1>2. CASE data[i].format # "plh2" \/ p # Engine
  <2>1. db' = db /\ \E to \in {"convert", "down"} : Goto(p, to)
    BY <1>1, <1>2 DEF Load
  <2>2. Aside(p)
    BY <1>1, <2>1 DEF Goto, Aside, Places
  <2> QED
    BY <1>1, <2>1, <2>2, AsideKeepsRun, QuietStep, IsStutter
<1>3. CASE data[i].format = "plh2" /\ p = Engine
  <2>1. db' = [inode |-> i, image |-> data[i]] /\ Goto(Engine, "run")
    BY <1>1, <1>3 DEF Load
  <2>2. pc'[Engine] = "run" /\ pc[Engine] # "run" /\ UNCHANGED <<dir, data, gz>>
    BY <1>1, <1>3, <2>1 DEF TypeOK, Goto, disk
  <2>3. Kept = data[i].keys /\ Kept # Nil
    BY <1>1, KeptIsKeys
  <2>4. Served = Nil
    BY <2>2 DEF Served
  <2>5. Served' = data[i].keys
    <3>1. db'.inode = i /\ db'.image = data[i]
      BY <2>1
    <3> HIDE DEF i
    <3> QED
      BY <1>1, <2>2, <3>1 DEF Served, KeysIn
  <2>6. UNCHANGED <<Latest, Kept>>
    BY <2>2 DEF Latest, Kept, KeysIn
  <2> QED
    BY <2>3, <2>4, <2>5, <2>6, IsOpen
<1> QED
  BY <1>2, <1>3

\* An age check closes what the engine had open, and so does a crash; failures and
\* starts show nothing.
LEMMA OutsideKeepsPromise ==
  ASSUME StoreInv,
         \/ \E p \in Procs : Fault(p) \/ Crash(p)
         \/ \E p \in Updaters : StartUpdate(p)
         \/ AgeCheck \/ StartEngine
  PROVE  [Promise!FNext]_Promise!fvars
<1>1. TypeOK /\ Engine \in Procs /\ UNCHANGED <<disk, gz>>
  BY DEF StoreInv, Procs, Fault, Crash, StartUpdate, AgeCheck, StartEngine, partial
<1>2. ASSUME pc[Engine] = "run", pc'[Engine] # "run"
      PROVE  [Promise!FNext]_Promise!fvars
  <2>1. Served # Nil
    BY <1>2, ServedIsOpened
  <2>2. Served' = Nil
    BY <1>2 DEF Served
  <2>3. UNCHANGED <<Latest, Kept>>
    BY <1>1 DEF disk, Latest, Kept, KeysIn
  <2> QED
    BY <2>1, <2>2, <2>3, IsClose
<1>3. ASSUME NEW p \in Procs, Fault(p) PROVE [Promise!FNext]_Promise!fvars
  <2>1. db' = db /\ pc[p] # "run"
    BY <1>3 DEF Fault
  <2>2. Aside(p)
    BY <1>3, <2>1, FailsAside DEF Fault, Goto, Aside, Places
  <2> QED
    BY <1>1, <2>1, <2>2, AsideKeepsRun, QuietStep, IsStutter
<1>4. ASSUME NEW p \in Procs, Crash(p) PROVE [Promise!FNext]_Promise!fvars
  <2>1. pc' = [pc EXCEPT ![p] = "down"] /\ (p # Engine => db' = db)
    BY <1>4 DEF Crash, Goto
  <2>2. CASE p = Engine /\ pc[p] = "run"
    BY <1>1, <1>2, <2>1, <2>2 DEF TypeOK
  <2>3. CASE p = Engine /\ pc[p] # "run"
    <3>1. pc'[Engine] # "run"
      BY <1>1, <2>1, <2>3 DEF TypeOK
    <3>2. UNCHANGED <<Latest, Kept, Served>>
      BY <1>1, <2>3, <3>1 DEF disk, Latest, Kept, Served, KeysIn
    <3> QED
      BY <3>2, IsStutter
  <2>4. CASE p # Engine
    <3>1. pc'[Engine] = pc[Engine]
      BY <1>1, <2>1, <2>4 DEF TypeOK
    <3> QED
      BY <1>1, <2>1, <2>4, <3>1, QuietStep, IsStutter
  <2> QED
    BY <2>2, <2>3, <2>4
<1>5. ASSUME NEW p \in Updaters, StartUpdate(p) PROVE [Promise!FNext]_Promise!fvars
  <2>1. db' = db /\ p # Engine /\ \E to \in {"fetch", "chunk"} : Goto(p, to)
    BY <1>5, StoreAssumption DEF StartUpdate
  <2>2. pc'[Engine] = pc[Engine]
    BY <1>1, <2>1 DEF TypeOK, Goto
  <2> QED
    BY <1>1, <2>1, <2>2, QuietStep, IsStutter
<1>6. CASE AgeCheck
  <2>1. pc[Engine] = "run" /\ pc'[Engine] # "run"
    BY <1>1, <1>6 DEF AgeCheck, Goto, TypeOK
  <2> QED
    BY <1>2, <2>1
<1>7. CASE StartEngine
  <2>1. db' = db /\ Aside(Engine)
    BY <1>7 DEF StartEngine, Goto, Aside, Places
  <2> QED
    BY <1>1, <2>1, AsideKeepsRun, QuietStep, IsStutter
<1> QED
  BY <1>3, <1>4, <1>5, <1>6, <1>7

LEMMA InitKeepsPromise == OneWriter /\ Init => Promise!FInit
<1> SUFFICES ASSUME OneWriter, Init PROVE Promise!FInit
  OBVIOUS
<1>1. StoreInv /\ Engine \in Procs
  BY StoreInit DEF Procs
<1>2. Latest = Nil /\ pc[Engine] # "run"
  BY <1>1 DEF Init, Latest
<1>3. Kept \in (SUBSET Keys) \cup {Nil}
  BY <1>1, KeptIsKeys
<1> QED
  BY <1>2, <1>3 DEF Promise!FInit, Kept

LEMMA StepKeepsPromise ==
  ASSUME StoreInv, TypeOK', [Next]_vars
  PROVE  [Promise!FNext]_Promise!fvars
<1>1. ASSUME NEW p \in Procs, Work(p) \/ \E d \in Dump : Fetch(p, d)
      PROVE  [Promise!FNext]_Promise!fvars
  BY <1>1, WorkIsQuiet, FillIsQuiet, IsStutter, PublishKeepsPromise, FetchKeepsPromise,
     LoadKeepsPromise DEF Work
<1>2. CASE \/ \E p \in Procs : Fault(p) \/ Crash(p)
           \/ \E p \in Updaters : StartUpdate(p)
           \/ AgeCheck \/ StartEngine
  BY <1>2, OutsideKeepsPromise
<1>3. CASE UNCHANGED vars
  <2>1. UNCHANGED <<disk, gz, db, pc>>
    BY <1>3 DEF vars, partial
  <2> QED
    BY <2>1, QuietStep, IsStutter
<1> QED
  BY <1>1, <1>2, <1>3 DEF Next, Search

\* With one writer, readers see a snapshot that changes in one step, to a whole dump
\* that was asked for, through any failure, kill or conversion.
THEOREM StoreKeepsPromise == OneWriter => (Spec => ImportIsAtomic)
<1> SUFFICES ASSUME OneWriter PROVE Spec => ImportIsAtomic
  OBVIOUS
<1>1. Init => Promise!FInit
  BY InitKeepsPromise
<1>2. StoreInv /\ StoreInv' /\ [Next]_vars => [Promise!FNext]_Promise!fvars
  BY StepKeepsPromise DEF StoreInv
<1> QED
  BY <1>1, <1>2, StoreAlways, PTL DEF Spec, ImportIsAtomic, Promise!FSpec

=============================================================================
