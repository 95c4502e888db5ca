--------------------------- MODULE SnapshotStore ----------------------------
(***************************************************************************)
(* The funded set on disk and who rewrites it (src/db.rs): the engine,     *)
(* which loads it and, with auto_update, refreshes it when it is too old   *)
(* (src/engine.rs), and `plutus-rustus data update`, run by an operator, a *)
(* timer or the shell supervisor.                                          *)
(*                                                                         *)
(* Both import through the same files: partial/addresses.txt.gz, sorted    *)
(* chunks, partial/sorted.raw, then addresses.h160.tmp, which a rename     *)
(* makes the snapshot.  The engine keeps the snapshot it loaded open and   *)
(* looks records up in it, by an index it has in memory, so the two files  *)
(* that are renamed are modelled as directory entries of inodes; those in  *)
(* partial/ are only ever read by name.  Nothing locks any of it.          *)
(*                                                                         *)
(* A key is a hash160; order, encoding and the Bloom filter's false        *)
(* positives are left out.  lookup is mmap, the default of every profile.  *)
(***************************************************************************)
EXTENDS Naturals, FiniteSets

CONSTANTS Keys,        \* hash160s
          Engine,      \* the engine process
          Updaters,    \* processes of `data update` and `data prepare`
          Inodes,
          ChunkCap,    \* CHUNK_RECORDS
          Pickles,     \* the keys of the bundled pickles
          Sites,       \* how the program is deployed, see Site
          Budget,      \* how often each kind of event may happen
          Nil, Torn    \* no value; a file that is not completely written

Procs == Updaters \cup {Engine}

Events == {"fault", "crash", "old", "update"}

\* What an operator sets up: cfg.auto_update, whether something runs `data update`,
\* what is at cfg.snapshot at first and whether cfg.pickle_dir is there.  "plh1" is
\* the format before the Bloom filter, "rebloom" has another bits_per_key.
Formats == {"plh1", "rebloom", "plh2"}
Site == [auto : BOOLEAN, timer : BOOLEAN, found : Formats \cup {"none"}, pickles : BOOLEAN]

ASSUME StoreAssumption ==
  /\ Engine \notin Updaters /\ IsFiniteSet(Keys)
  /\ ChunkCap \in Nat \ {0} /\ Sites \subseteq Site /\ Pickles \subseteq Keys
  /\ Budget \in [Events -> Nat]
  /\ Nil \notin Inodes /\ \A keys \in SUBSET Keys : Nil # keys
  /\ Inodes # {} /\ Torn \notin [format : Formats, keys : SUBSET Keys]

VARIABLES
  site,    \* the deployment
  dir,     \* the inode of "snapshot" and of "tmp" (addresses.h160.tmp), or Nil
  data,    \* what is in each inode: an image, or Torn
  gz,      \* partial/addresses.txt.gz
  chunk,   \* partial/chunk-NNNN.raw, all there may be
  sorted,  \* partial/sorted.raw
  pc,      \* where each process is
  mode,    \* "refresh" inside refresh_snapshot, else "load"
  left,    \* what a process has yet to read of the dump it opened
  made,    \* how many chunks it has written
  plan,    \* what its first pass found: Bloom filter, index and count
  input,   \* the inode it converts, Nil when it writes sorted.raw
  fd,      \* the inode it writes
  db,      \* the engine's DiskDb: the inode it has open, the image its index is of
  inputs,  \* history: the key sets of the snapshot and of every whole dump
  spent    \* events so far

disk == <<dir, data>>
partial == <<gz, chunk, sorted>>
work == <<left, made, plan, input, fd>>
vars == <<site, disk, partial, pc, mode, work, db, inputs, spent>>

\* A dump that is broken decodes to some keys and then to an error; one without
\* usable rows holds no keys.
Dump == [keys : SUBSET Keys, broken : BOOLEAN]
NoDump == [keys |-> {}, broken |-> FALSE]
Image == [format : Formats, keys : SUBSET Keys]
Closed == [inode |-> Nil, image |-> Torn]

ChunkNames == 0..Cardinality(Keys)

Places == {"down", "load", "run", "fetch", "scan", "chunk", "merge", "survey", "convert",
           "create", "sync", "publish", "clean"}

-----------------------------------------------------------------------------
\* Helpers

Spend(k) == spent[k] < Budget[k] /\ spent' = [spent EXCEPT ![k] = @ + 1]

Goto(p, place) == pc' = [pc EXCEPT ![p] = place]

Enter(p, m) == mode' = [mode EXCEPT ![p] = m]

\* Inodes nothing refers to.
Free == Inodes \ ({dir["snapshot"], dir["tmp"], db.inode}
                  \cup {fd[p] : p \in Procs} \cup {input[p] : p \in Procs})

\* The inode File::create gives a name that has none, or truncates under it.
InodeFor(name) == IF dir[name] = Nil THEN CHOOSE i \in Free : TRUE ELSE dir[name]

\* p's files are closed and what it computed is forgotten.
Drop(p) ==
  /\ left' = [left EXCEPT ![p] = NoDump] /\ made' = [made EXCEPT ![p] = 0]
  /\ plan' = [plan EXCEPT ![p] = {}]
  /\ input' = [input EXCEPT ![p] = Nil] /\ fd' = [fd EXCEPT ![p] = Nil]

\* An error ends p's work; nothing it wrote is removed.  A failed refresh sends the
\* engine back to the snapshot it had, a failed load ends the process.
Fails(p) ==
  /\ Drop(p) /\ Enter(p, "load")
  /\ Goto(p, IF p = Engine /\ mode[p] = "refresh" THEN "load" ELSE "down")

-----------------------------------------------------------------------------
\* refresh_snapshot, load_pickles: the import

\* download_file writes to a name of its own and renames it when it is complete.
Fetch(p, d) ==
  /\ pc[p] = "fetch"
  /\ gz' = d
  /\ inputs' = IF d.broken THEN inputs ELSE inputs \cup {d.keys}
  /\ Goto(p, "scan")
  /\ UNCHANGED <<site, disk, chunk, sorted, mode, work, db, spent>>

\* gzip_to_chunks opens the dump.
Scan(p) ==
  /\ pc[p] = "scan"
  /\ IF gz = Nil THEN Fails(p)
     ELSE /\ left' = [left EXCEPT ![p] = gz]
          /\ Goto(p, "chunk")
          /\ UNCHANGED <<mode, made, plan, input, fd>>
  /\ UNCHANGED <<site, disk, partial, db, inputs, spent>>

\* ChunkWriter::flush writes the next chunk, over what an earlier import left under
\* its name.  A dump may hold a key twice, so a key may be in two chunks.
WriteChunk(p) ==
  /\ pc[p] = "chunk" /\ left[p].keys # {}
  /\ \E c \in SUBSET left[p].keys : \E again \in SUBSET c :
       /\ c # {} /\ c # again /\ Cardinality(c) <= ChunkCap
       /\ chunk' = [chunk EXCEPT ![made[p]] = c]
       /\ left' = [left EXCEPT ![p].keys = @ \ (c \ again)]
  /\ made' = [made EXCEPT ![p] = @ + 1]
  /\ UNCHANGED <<site, disk, gz, sorted, pc, mode, plan, input, fd, db, inputs, spent>>

\* Mutation of EndOfDump: a row that cannot be read ends the dump.
EndOfDumpQuietly(p) ==
  /\ pc[p] = "chunk"
  /\ left[p].broken \/ left[p] = NoDump
  /\ Goto(p, "merge")
  /\ UNCHANGED <<site, disk, partial, mode, work, db, inputs, spent>>

\* The decoder's error, at whatever row, or the end of the dump.
EndOfDump(p) ==
  /\ pc[p] = "chunk"
  /\ \/ left[p].broken /\ Fails(p)
     \/ left[p] = NoDump /\ Goto(p, "merge") /\ UNCHANGED <<mode, work>>
  /\ UNCHANGED <<site, disk, partial, db, inputs, spent>>

\* Mutation of Merge: every chunk in partial/ is merged.
MergeWhatIsThere(p) ==
  /\ pc[p] = "merge"
  /\ sorted' = UNION {chunk[n] : n \in {n \in ChunkNames : chunk[n] # Nil}}
  /\ Goto(p, "survey")
  /\ UNCHANGED <<site, disk, gz, chunk, mode, work, db, inputs, spent>>

\* merge_chunks merges the chunks this import wrote, and no others.
Merge(p) ==
  /\ pc[p] = "merge"
  /\ LET mine == {chunk[n] : n \in {n \in ChunkNames : n < made[p]}}
     IN IF Nil \in mine THEN Fails(p) /\ UNCHANGED sorted
        ELSE sorted' = UNION mine /\ Goto(p, "survey") /\ UNCHANGED <<mode, work>>
  /\ UNCHANGED <<site, disk, gz, chunk, db, inputs, spent>>

\* write_plh2_from_sorted_file's first pass.
Survey(p) ==
  /\ pc[p] = "survey"
  /\ IF sorted = Nil THEN Fails(p)
     ELSE /\ plan' = [plan EXCEPT ![p] = sorted]
          /\ Goto(p, "create")
          /\ UNCHANGED <<mode, left, made, input, fd>>
  /\ UNCHANGED <<site, disk, partial, db, inputs, spent>>

\* rewrite_snapshot_as_plh2 opens the snapshot again and makes its first pass.
Convert(p) ==
  /\ pc[p] = "convert"
  /\ LET i == dir["snapshot"]
     IN IF i = Nil \/ data[i] = Torn THEN Fails(p)
        ELSE /\ input' = [input EXCEPT ![p] = i]
             /\ plan' = [plan EXCEPT ![p] = data[i].keys]
             /\ Goto(p, "create")
             /\ UNCHANGED <<mode, left, made, fd>>
  /\ UNCHANGED <<site, disk, partial, db, inputs, spent>>

-----------------------------------------------------------------------------
\* Writing a snapshot: addresses.h160.tmp, fsync, rename

\* Mutation of Create: the snapshot is rewritten in place.
CreateInPlace(p) ==
  /\ pc[p] = "create"
  /\ LET i == InodeFor("snapshot")
     IN /\ dir' = [snapshot |-> i, tmp |-> i]
        /\ data' = [data EXCEPT ![i] = Torn]
        /\ fd' = [fd EXCEPT ![p] = i]
  /\ Goto(p, "sync")
  /\ UNCHANGED <<site, partial, mode, left, made, plan, input, db, inputs, spent>>

\* File::create makes a new file or truncates the one that has the name.  Inodes
\* bounds the files there are.
Create(p) ==
  /\ pc[p] = "create" /\ (dir["tmp"] = Nil => Free # {})
  /\ LET i == InodeFor("tmp")
     IN /\ dir' = [dir EXCEPT !["tmp"] = i]
        /\ data' = [data EXCEPT ![i] = Torn]
        /\ fd' = [fd EXCEPT ![p] = i]
  /\ Goto(p, "sync")
  /\ UNCHANGED <<site, partial, mode, left, made, plan, input, db, inputs, spent>>

\* The records as the second pass reads them.
Records(p) ==
  IF input[p] = Nil THEN sorted
  ELSE IF data[input[p]] = Torn THEN Nil ELSE data[input[p]].keys

\* Mutation of Sync: bits_per_key and magic are copied from the old header.
SyncKeepsHeader(p) ==
  /\ pc[p] = "sync"
  /\ data' = [data EXCEPT ![fd[p]] =
                [format |-> IF input[p] = Nil THEN "plh2" ELSE data[input[p]].format,
                 keys |-> plan[p]]]
  /\ fd' = [fd EXCEPT ![p] = Nil]
  /\ Goto(p, "publish")
  /\ UNCHANGED <<site, dir, partial, mode, left, made, plan, input, db, inputs, spent>>

\* Header, index and records are written, synced and closed.  The file is good
\* when the records are those of the first pass and nobody else is writing to it.
Sync(p) ==
  /\ pc[p] = "sync"
  /\ data' = [data EXCEPT ![fd[p]] =
                IF Records(p) # plan[p] \/ \E q \in Procs \ {p} : fd[q] = fd[p] THEN Torn
                ELSE [format |-> "plh2", keys |-> plan[p]]]
  /\ fd' = [fd EXCEPT ![p] = Nil]
  /\ Goto(p, "publish")
  /\ UNCHANGED <<site, dir, partial, mode, left, made, plan, input, db, inputs, spent>>

\* Mutation of Publish: the file is copied over the snapshot.
PublishByCopy(p) ==
  /\ pc[p] = "publish" /\ dir["tmp"] # Nil
  /\ IF dir["snapshot"] = Nil
     THEN dir' = [snapshot |-> dir["tmp"], tmp |-> Nil] /\ UNCHANGED data
     ELSE /\ data' = [data EXCEPT ![dir["snapshot"]] = data[dir["tmp"]]]
          /\ dir' = [dir EXCEPT !["tmp"] = Nil]
  /\ Goto(p, IF input[p] = Nil THEN "clean" ELSE "load")
  /\ input' = [input EXCEPT ![p] = Nil] /\ plan' = [plan EXCEPT ![p] = {}]
  /\ UNCHANGED <<site, partial, mode, left, made, fd, db, inputs, spent>>

\* The rename, which fails when somebody else has renamed the file.
Publish(p) ==
  /\ pc[p] = "publish"
  /\ IF dir["tmp"] = Nil THEN Fails(p) /\ UNCHANGED dir
     ELSE /\ dir' = [snapshot |-> dir["tmp"], tmp |-> Nil]
          /\ Goto(p, IF input[p] = Nil THEN "clean" ELSE "load")
          /\ input' = [input EXCEPT ![p] = Nil] /\ plan' = [plan EXCEPT ![p] = {}]
          /\ UNCHANGED <<mode, left, made, fd>>
  /\ UNCHANGED <<site, data, partial, db, inputs, spent>>

\* The import's files are removed, and the snapshot is loaded.
Clean(p) ==
  /\ pc[p] = "clean"
  /\ sorted' = Nil
  /\ gz' = IF mode[p] = "refresh" THEN Nil ELSE gz
  /\ chunk' = [n \in ChunkNames |-> IF n < made[p] THEN Nil ELSE chunk[n]]
  /\ Drop(p) /\ Enter(p, "load") /\ Goto(p, "load")
  /\ UNCHANGED <<site, disk, db, inputs, spent>>

-----------------------------------------------------------------------------
\* load, load_snapshot_with, load_plh2

\* There is no snapshot: the engine imports the pickles, if there are any.
LoadPickles(p) ==
  /\ pc[p] = "load" /\ dir["snapshot"] = Nil
  /\ IF p = Engine /\ site.pickles
     THEN /\ left' = [left EXCEPT ![p] = [keys |-> Pickles, broken |-> FALSE]]
          /\ Goto(p, "chunk")
          /\ UNCHANGED <<mode, made, plan, input, fd>>
     ELSE Fails(p)
  /\ UNCHANGED <<site, disk, partial, db, inputs, spent>>

\* A snapshot whose size does not fit its header is refused, one of another format
\* or bits_per_key is rewritten first.
Load(p) ==
  /\ pc[p] = "load" /\ dir["snapshot"] # Nil
  /\ LET i == dir["snapshot"]
     IN \/ data[i] = Torn /\ Fails(p) /\ UNCHANGED db
        \/ /\ data[i] # Torn /\ data[i].format # "plh2"
           /\ Goto(p, "convert") /\ UNCHANGED <<mode, work, db>>
        \/ /\ data[i] # Torn /\ data[i].format = "plh2"
           /\ Goto(p, IF p = Engine THEN "run" ELSE "down")
           /\ db' = IF p = Engine THEN [inode |-> i, image |-> data[i]] ELSE db
           /\ UNCHANGED <<mode, work>>
  /\ UNCHANGED <<site, disk, partial, inputs, spent>>

-----------------------------------------------------------------------------
\* When

\* Mutation of AgeCheck: the file is closed and the index kept.
AgeCheckKeepsIndex ==
  /\ pc[Engine] = "run" /\ site.auto /\ Spend("old")
  /\ db' = [db EXCEPT !.inode = Nil]
  /\ Enter(Engine, "refresh") /\ Goto(Engine, "fetch")
  /\ UNCHANGED <<site, disk, partial, work, inputs>>

\* reporter finds the snapshot too old: run joins the workers, drops the Db and
\* refreshes.  Only with auto_update does it look.
AgeCheck ==
  /\ pc[Engine] = "run" /\ site.auto /\ Spend("old")
  /\ db' = Closed
  /\ Enter(Engine, "refresh") /\ Goto(Engine, "fetch")
  /\ UNCHANGED <<site, disk, partial, work, inputs>>

\* The workers search: a lookup changes nothing here.
Search == pc[Engine] = "run" /\ UNCHANGED vars

\* The supervisor or systemd starts the engine again.
StartEngine ==
  /\ pc[Engine] = "down"
  /\ Goto(Engine, "load")
  /\ UNCHANGED <<site, disk, partial, mode, work, db, inputs, spent>>

\* `data update`, or `data prepare`.
StartUpdate(p) ==
  /\ pc[p] = "down" /\ site.timer /\ Spend("update")
  /\ \/ Goto(p, "fetch") /\ Enter(p, "refresh") /\ UNCHANGED left
     \/ /\ site.pickles
        /\ left' = [left EXCEPT ![p] = [keys |-> Pickles, broken |-> FALSE]]
        /\ Goto(p, "chunk") /\ UNCHANGED mode
  /\ UNCHANGED <<site, disk, partial, made, plan, input, fd, db, inputs>>

\* Any I/O fails; clean's errors are ignored and leave the files.
Fault(p) ==
  /\ pc[p] \notin {"down", "run"} /\ Spend("fault")
  /\ IF pc[p] = "clean" THEN Drop(p) /\ Enter(p, "load") /\ Goto(p, "load") ELSE Fails(p)
  /\ UNCHANGED <<site, disk, partial, db, inputs>>

\* A process is killed or stopped, wherever it is.
Crash(p) ==
  /\ pc[p] # "down" /\ Spend("crash")
  /\ Drop(p) /\ Enter(p, "load") /\ Goto(p, "down")
  /\ db' = IF p = Engine THEN Closed ELSE db
  /\ UNCHANGED <<site, disk, partial, inputs>>

-----------------------------------------------------------------------------

Init ==
  /\ site \in Sites
  /\ \/ /\ site.found = "none"
        /\ dir = [snapshot |-> Nil, tmp |-> Nil]
        /\ data = [i \in Inodes |-> Torn]
        /\ inputs = {Pickles}
     \/ /\ site.found # "none"
        /\ dir = [snapshot |-> CHOOSE i \in Inodes : TRUE, tmp |-> Nil]
        /\ \E keys \in SUBSET Keys :
             /\ data = [i \in Inodes |-> IF i = dir["snapshot"]
                                       THEN [format |-> site.found, keys |-> keys] ELSE Torn]
             /\ inputs = {Pickles, keys}
  /\ gz = Nil /\ sorted = Nil /\ chunk = [n \in ChunkNames |-> Nil]
  /\ pc = [p \in Procs |-> "down"]
  /\ mode = [p \in Procs |-> "load"]
  /\ left = [p \in Procs |-> NoDump] /\ made = [p \in Procs |-> 0]
  /\ plan = [p \in Procs |-> {}]
  /\ input = [p \in Procs |-> Nil] /\ fd = [p \in Procs |-> Nil]
  /\ db = Closed
  /\ spent = [k \in Events |-> 0]

\* What a process does on its own once it has its dump.
Work(p) ==
  \/ Scan(p) \/ WriteChunk(p) \/ EndOfDump(p) \/ Merge(p) \/ Survey(p) \/ Convert(p)
  \/ Create(p) \/ Sync(p) \/ Publish(p) \/ Clean(p) \/ LoadPickles(p) \/ Load(p)

Next ==
  \/ \E p \in Procs : Work(p) \/ Fault(p) \/ Crash(p) \/ \E d \in Dump : Fetch(p, d)
  \/ \E p \in Updaters : StartUpdate(p)
  \/ Search \/ AgeCheck \/ StartEngine

Spec == Init /\ [][Next]_vars

\* A process goes on with its work and a supervisor restarts the engine.  Nothing
\* makes a download end: download_file sets no time-out.
Fairness == WF_vars(StartEngine) /\ \A p \in Procs : WF_vars(Work(p))

FairSpec == Spec /\ Fairness

-----------------------------------------------------------------------------
\* Properties

TypeOK ==
  /\ site \in Sites
  /\ dir \in [{"snapshot", "tmp"} -> Inodes \cup {Nil}]
  /\ DOMAIN data = Inodes /\ \A i \in Inodes : data[i] = Torn \/ data[i] \in Image
  /\ gz = Nil \/ gz \in Dump
  /\ sorted = Nil \/ sorted \subseteq Keys
  /\ DOMAIN chunk = ChunkNames
  /\ \A n \in ChunkNames : chunk[n] = Nil \/ chunk[n] \subseteq Keys
  /\ pc \in [Procs -> Places] /\ mode \in [Procs -> {"load", "refresh"}]
  /\ left \in [Procs -> Dump] /\ made \in [Procs -> Nat]
  /\ plan \in [Procs -> SUBSET Keys]
  /\ input \in [Procs -> Inodes \cup {Nil}] /\ fd \in [Procs -> Inodes \cup {Nil}]
  /\ db = Closed \/ db \in [inode : Inodes, image : Image]
  /\ inputs \subseteq SUBSET Keys /\ spent \in [Events -> Nat]

\* What is at cfg.snapshot can always be loaded, wherever an import or a conversion
\* fails or is killed (main.rs:46, "atomically replace the snapshot").
SnapshotWhole == dir["snapshot"] # Nil => data[dir["snapshot"]] # Torn

\* DiskDb reads records by an index it loaded earlier: the file it has open still
\* holds what the index was made of, whatever replaced the snapshot since.
LookupCoherent == pc[Engine] = "run" => data[db.inode] = db.image

\* The snapshot holds the keys of one whole dump: never of half a download, nor of
\* two imports mixed by the chunks an interrupted one left in partial/.
OneDump ==
  \A i \in {dir["snapshot"]} \ {Nil} : data[i] # Torn => data[i].keys \in inputs

\* The snapshot as its readers see it: an import takes effect in the rename or not at
\* all and brings exactly the dump it fetched, a broken download or a conversion, even
\* when killed, changes no key, and lookups are answered by what the engine opened
\* until it closes it.
Latest == IF gz = Nil THEN Nil ELSE IF gz.broken THEN Nil ELSE gz.keys
KeysIn(i) == IF data[i] = Torn THEN Torn ELSE data[i].keys
Promise ==
  INSTANCE FundedStore WITH
    latest <- Latest,
    kept <- IF dir["snapshot"] = Nil THEN Nil ELSE KeysIn(dir["snapshot"]),
    served <- IF pc[Engine] # "run" THEN Nil
              ELSE IF data[db.inode] # db.image THEN Torn ELSE KeysIn(db.inode)
ImportIsAtomic == Promise!FSpec

\* An engine that is not searching, once its download ended, searches again: a
\* failed refresh falls back to the snapshot and a failed load to a restart.
EngineReturns == pc[Engine] \notin {"run", "fetch"} ~> pc[Engine] = "run"

=============================================================================
