---------------------------- MODULE FundedIndex -----------------------------
(***************************************************************************)
(* From the rows of a dump to the answer of a lookup (src/db.rs): chunks   *)
(* that are sorted, their merge, the PLH2 snapshot with its Bloom filter   *)
(* and bucket index, what a start makes of it under the configuration it   *)
(* read, and the search of a bucket, step by step.                         *)
(*                                                                         *)
(* SnapshotStore models who writes the files and what a crash leaves; here *)
(* one process does it undisturbed and the subject is what is in them.     *)
(* Hashes are numbers in the order of their bytes, a bucket is a range of  *)
(* them.  Offsets count records and do not overflow their 32 bits.         *)
(***************************************************************************)
EXTENDS Integers, Settings, Bloom, Sequences, FiniteSets

CONSTANTS Buckets,      \* the values of the first two bytes
          BucketSize,   \* how many hashes share them
          Sort,         \* external: sort_unstable and dedup of the standard library
          ChunkCap,     \* CHUNK_RECORDS
          MaxRows,      \* bound on the records an import holds
          MaxImports,   \* bound on the imports
          Files, Envs,  \* configurations and environments to start with
          OldSets,      \* key sets of PLH1 snapshots there may be at first
          Pickles,      \* whether there may be pickles
          Nil           \* no value

Elems(s) == {s[i] : i \in DOMAIN s}
Increasing(s) == \A i, j \in DOMAIN s : i < j => s[i] < s[j]

ASSUME IndexAssumption ==
  /\ BucketSize \in Nat \ {0} /\ ChunkCap \in Nat \ {0} /\ MaxRows \in Nat /\ MaxImports \in Nat
  /\ Buckets = {h \div BucketSize : h \in Hashes}
  /\ OldSets \subseteq SUBSET Hashes /\ Pickles \subseteq BOOLEAN
  /\ \A K \in SUBSET Hashes : Nil # K

\* Fields have names, the numbers in a file and in the environment are numbers, and the
\* environment has three fields.
ASSUME ConfigAssumption ==
  /\ \A f \in Files : DOMAIN f \subseteq STRING
  /\ \A f \in Files \cup Envs : \A k \in Numbers \cap DOMAIN f : f[k] \in Nat
  /\ \A e \in Envs : DOMAIN e \subseteq {"threads", "check_uncompressed", "cpu_percent"}

\* The standard library keeps its promise.
ASSUME SortAssumption ==
  \A S \in SUBSET Hashes : Sort[S] \in Seq(Hashes) /\ Increasing(Sort[S]) /\ Elems(Sort[S]) = S

VARIABLES
  pc,       \* where the process is
  pickles,  \* whether cfg.pickle_dir is there
  cfg,      \* the configuration it runs with
  buf,      \* ChunkWriter::buf, or the hashes of all shards
  chunks,   \* the chunk files
  pos,      \* what each reader of merge_chunks reads next
  heap,     \* its heap, of pairs of a record and its reader
  out,      \* sorted.raw
  file,     \* the snapshot
  db,       \* the Db
  q,        \* the lookup under way
  imports,  \* imports so far
  rows,     \* history: the keys of the import under way
  keys      \* history: the keys the snapshot is of

import == <<buf, chunks, pos, heap, out, rows>>
vars == <<pc, pickles, cfg, import, imports, file, db, q, keys>>

NoFile == [format |-> "none"]
NoDb == [lookup |-> "none"]
NoQuery == [place |-> "none"]

-----------------------------------------------------------------------------
\* The snapshot

BucketOf(hash) == hash \div BucketSize

\* index_from_counts: where a bucket begins, and its length.
IndexOf(recs) ==
  LET count(B) == Cardinality({i \in DOMAIN recs : BucketOf(recs[i]) \in B})
  IN [b \in Buckets |-> <<count({c \in Buckets : c < b}), count({b})>>]

\* write_plh2, write_plh2_from_sorted_file and rewrite_snapshot_as_plh2: records are
\* copied in the order they have.
Plh2(recs, bits) ==
  [format |-> "plh2", index |-> IndexOf(recs), recs |-> recs,
   bloom |-> WriteTo(Insert(NewBloom(Len(recs), bits), Elems(recs)))]

\* load_plh2.
OpenPlh2(f) == [lookup |-> "mmap", bloom |-> FromBytes(f.bloom), index |-> f.index, recs |-> f.recs]

\* read_all_records and from_hashes.
InMemory(hashes, lookup) == [lookup |-> lookup, recs |-> Sort[hashes]]

-----------------------------------------------------------------------------
\* The import

\* Mutation of Begin: the Db is kept while the snapshot is replaced.
BeginHolding(place) ==
  /\ imports < MaxImports /\ imports' = imports + 1
  /\ pc' = place /\ UNCHANGED db /\ rows' = {}
  /\ buf' = <<>> /\ chunks' = <<>> /\ pos' = <<>> /\ heap' = {} /\ out' = <<>>

\* An import begins, with nothing in hand.
Begin(place) ==
  /\ imports < MaxImports /\ imports' = imports + 1
  /\ pc' = place /\ db' = NoDb /\ rows' = {}
  /\ buf' = <<>> /\ chunks' = <<>> /\ pos' = <<>> /\ heap' = {} /\ out' = <<>>

\* refresh_snapshot: by the engine, which gives up its Db first, or by `data update`.
Refresh ==
  /\ pc \in {"load", "ready"}
  /\ Begin("scan") /\ UNCHANGED <<pickles, cfg, file, q, keys>>

\* load_pickles: in chunks, or in memory when lookups will be.  `data prepare` does it
\* whatever snapshot there is.
OpenPickles ==
  /\ pc = "load" /\ pickles
  /\ file = NoFile \/ cfg.lookup = "mmap"
  /\ Begin(IF cfg.lookup = "mmap" THEN "scan" ELSE "shard")
  /\ UNCHANGED <<pickles, cfg, file, q, keys>>

\* How many records the import holds.
Held == Len(buf) + Cardinality({c \in (1..Len(chunks)) \X (1..ChunkCap) : c[2] <= Len(chunks[c[1]])})

\* Mutation of Flushed: only full chunks are written.
FlushedFull(b) == IF Len(b) < ChunkCap THEN chunks ELSE Append(chunks, Sort[Elems(b)])

\* ChunkWriter::flush of b.
Flushed(b) == IF b = <<>> THEN chunks ELSE Append(chunks, Sort[Elems(b)])

\* ChunkWriter::push of a row that is an address of a kind we look for.
Push(h) ==
  /\ pc = "scan" /\ Held < MaxRows
  /\ rows' = rows \cup {h}
  /\ LET b == Append(buf, h)
     IN IF Len(b) >= ChunkCap THEN buf' = <<>> /\ chunks' = Flushed(b)
        ELSE buf' = b /\ UNCHANGED chunks
  /\ UNCHANGED <<pc, pickles, cfg, pos, heap, out, file, db, q, keys, imports>>

\* finish, then the beginning of merge_chunks: no chunk and one chunk are not merged.
EndOfRows ==
  /\ pc = "scan"
  /\ LET cs == Flushed(buf)
     IN /\ chunks' = cs
        /\ IF Len(cs) <= 1
           THEN /\ out' = IF cs = <<>> THEN <<>> ELSE cs[1]
                /\ pc' = "build" /\ UNCHANGED <<pos, heap>>
           ELSE /\ heap' = {<<cs[i][1], i>> : i \in DOMAIN cs}
                /\ pos' = [i \in DOMAIN cs |-> 2]
                /\ pc' = "merge" /\ UNCHANGED out
  /\ buf' = <<>>
  /\ UNCHANGED <<pickles, cfg, file, db, q, rows, keys, imports>>

\* What the heap pops: the least record, of its readers the last.
Top == CHOOSE e \in heap : \A f \in heap : e[1] < f[1] \/ (e[1] = f[1] /\ e[2] >= f[2])

\* Mutation of Pop: the reader of a duplicate is not read on.
PopSkips ==
  /\ pc = "merge"
  /\ IF heap = {} THEN pc' = "build" /\ UNCHANGED <<pos, heap, out>>
     ELSE LET i == Top[2]
              twice == out # <<>> /\ out[Len(out)] = Top[1]
              more == ~twice /\ pos[i] <= Len(chunks[i])
          IN /\ out' = IF twice THEN out ELSE Append(out, Top[1])
             /\ heap' = (heap \ {Top}) \cup (IF more THEN {<<chunks[i][pos[i]], i>>} ELSE {})
             /\ pos' = IF more THEN [pos EXCEPT ![i] = @ + 1] ELSE pos
             /\ UNCHANGED pc
  /\ UNCHANGED <<pickles, cfg, buf, chunks, file, db, q, rows, keys, imports>>

\* merge_chunks, one turn of its loop.
Pop ==
  /\ pc = "merge"
  /\ IF heap = {} THEN pc' = "build" /\ UNCHANGED <<pos, heap, out>>
     ELSE LET rec == Top[1]
              i == Top[2]
              more == pos[i] <= Len(chunks[i])
          IN /\ out' = IF out # <<>> /\ out[Len(out)] = rec THEN out ELSE Append(out, rec)
             /\ heap' = (heap \ {Top}) \cup (IF more THEN {<<chunks[i][pos[i]], i>>} ELSE {})
             /\ pos' = IF more THEN [pos EXCEPT ![i] = @ + 1] ELSE pos
             /\ UNCHANGED pc
  /\ UNCHANGED <<pickles, cfg, buf, chunks, file, db, q, rows, keys, imports>>

Forget ==
  /\ buf' = <<>> /\ chunks' = <<>> /\ pos' = <<>> /\ heap' = {} /\ out' = <<>> /\ rows' = {}

\* write_plh2_from_sorted_file; what was imported through is removed.
Build ==
  /\ pc = "build"
  /\ file' = Plh2(out, cfg.bits_per_key) /\ keys' = rows
  /\ pc' = "load" /\ Forget
  /\ UNCHANGED <<pickles, cfg, db, q, imports>>

\* load_pickle_shard; the shards are put together in any order.
Shard(h) ==
  /\ pc = "shard" /\ Held < MaxRows
  /\ rows' = rows \cup {h} /\ buf' = Append(buf, h)
  /\ UNCHANGED <<pc, pickles, cfg, chunks, pos, heap, out, file, db, q, keys, imports>>

\* The in-memory end of load_pickles, and load, which writes a snapshot for the next
\* start and can do without.
Migrate ==
  /\ pc = "shard"
  /\ db' = InMemory(Elems(buf), cfg.lookup) /\ keys' = rows
  /\ \/ file' = Plh2(Sort[Elems(buf)], cfg.bits_per_key)
     \/ UNCHANGED file
  /\ pc' = "ready" /\ Forget
  /\ UNCHANGED <<pickles, cfg, q, imports>>

-----------------------------------------------------------------------------
\* A process

Start(f, e) ==
  /\ pc = "down"
  /\ cfg' = LoadConfig(f, e) /\ pc' = "load"
  /\ UNCHANGED <<pickles, import, file, db, q, keys, imports>>

\* load_snapshot_with: a PLH1 snapshot is converted, one whose filter has another
\* bits_per_key when lookups go to the disk.
Load ==
  /\ pc = "load" /\ file # NoFile
  /\ LET f1 == IF file.format = "plh1" THEN Plh2(file.recs, cfg.bits_per_key) ELSE file
         disk == OpenPlh2(f1)
     IN IF cfg.lookup = "mmap"
        THEN /\ file' = IF disk.bloom.per # cfg.bits_per_key
                        THEN Plh2(f1.recs, cfg.bits_per_key) ELSE f1
             /\ db' = OpenPlh2(file')
        ELSE file' = f1 /\ db' = InMemory(Elems(f1.recs), cfg.lookup)
  /\ pc' = "ready"
  /\ UNCHANGED <<pickles, cfg, import, q, keys, imports>>

\* There is nothing to load; `data prepare` read the pickles into memory, and that is
\* all it does when lookup is not mmap; or the process is stopped.
Stop ==
  /\ pc \in {"load", "ready"}
  /\ pc' = "down" /\ db' = NoDb /\ cfg' = Default
  /\ UNCHANGED <<pickles, import, file, q, keys, imports>>

-----------------------------------------------------------------------------
\* Db::contains

Answer(key, found, failed) ==
  /\ pc' = "answer" /\ q' = [place |-> "answer", key |-> key, found |-> found, failed |-> failed]

\* The filter, the index, and the read of the bucket, whose error counts as not found.
Contains(key) ==
  /\ pc = "ready"
  /\ IF db.lookup # "mmap" THEN Answer(key, key \in Elems(db.recs), FALSE)
     ELSE LET range == db.index[BucketOf(key)]
          IN IF ~MaybeContains(db.bloom, key) \/ range[2] = 0 THEN Answer(key, FALSE, FALSE)
             ELSE \/ /\ pc' = "search"
                     /\ q' = [place |-> "search", key |-> key, off |-> range[1],
                              lo |-> 0, hi |-> range[2], turns |-> 0]
                  \/ Answer(key, FALSE, TRUE)
  /\ UNCHANGED <<pickles, cfg, import, file, db, keys, imports>>

\* Mutation of Narrow: the upper end taken for an inclusive one.
NarrowInside(mid, below) ==
  IF below THEN [q EXCEPT !.lo = mid + 1] ELSE [q EXCEPT !.hi = mid - 1]

\* Mutation of Narrow: mid is kept as a candidate.
NarrowTo(mid, below) == IF below THEN [q EXCEPT !.lo = mid] ELSE [q EXCEPT !.hi = mid]

\* What is left to search once the record at mid is known to be below the key or above.
Narrow(mid, below) == IF below THEN [q EXCEPT !.lo = mid + 1] ELSE [q EXCEPT !.hi = mid]

\* One turn of the search.  turns is history.
Probe ==
  /\ pc = "search"
  /\ IF q.lo >= q.hi THEN Answer(q.key, FALSE, FALSE)
     ELSE LET mid == (q.lo + q.hi) \div 2
              rec == db.recs[q.off + mid + 1]
          IN IF rec = q.key THEN Answer(q.key, TRUE, FALSE)
             ELSE /\ q' = [Narrow(mid, rec < q.key) EXCEPT !.turns = @ + 1]
                  /\ UNCHANGED pc
  /\ UNCHANGED <<pickles, cfg, import, file, db, keys, imports>>

Reply ==
  /\ pc = "answer"
  /\ pc' = "ready" /\ q' = NoQuery
  /\ UNCHANGED <<pickles, cfg, import, file, db, keys, imports>>

-----------------------------------------------------------------------------
Init ==
  /\ pc = "down" /\ pickles \in Pickles /\ cfg = Default
  /\ buf = <<>> /\ chunks = <<>> /\ pos = <<>> /\ heap = {} /\ out = <<>> /\ rows = {}
  /\ db = NoDb /\ q = NoQuery /\ imports = 0
  /\ \/ file = NoFile /\ keys = {}
     \/ keys \in OldSets /\ file = [format |-> "plh1", recs |-> Sort[keys]]

Next ==
  \/ \E f \in Files, e \in Envs : Start(f, e)
  \/ \E h \in Hashes : Push(h) \/ Shard(h) \/ Contains(h)
  \/ Refresh \/ OpenPickles \/ EndOfRows \/ Pop \/ Build \/ Migrate
  \/ Load \/ Stop \/ Probe \/ Reply

Spec == Init /\ [][Next]_vars

-----------------------------------------------------------------------------
\* Properties

Places == {"down", "load", "scan", "shard", "merge", "build", "ready", "search", "answer"}

\* Types.
TypeOK ==
  /\ pc \in Places /\ pickles \in BOOLEAN /\ imports \in 0..MaxImports
  /\ DOMAIN cfg = DOMAIN Default
  /\ buf \in Seq(Hashes) /\ out \in Seq(Hashes)
  /\ chunks \in Seq(Seq(Hashes)) /\ pos \in Seq(Nat)
  /\ heap \subseteq Hashes \X DOMAIN chunks
  /\ rows \subseteq Hashes /\ keys \subseteq Hashes
  /\ file.format \in {"none", "plh1", "plh2"} /\ db.lookup \in {"none", "mmap", "sorted", "hash"}
  /\ (pc \in {"ready", "search", "answer"}) <=> (db # NoDb)
  /\ (pc \in {"search", "answer"}) <=> (q.place = pc)

\* A lookup whose read did not fail finds a hash exactly when the rows of the dump the
\* snapshot was made of hold it: whatever the chunks, the format at first, the lookup
\* mode and the size of the filter (src/bloom.rs:3, "False negatives are a correctness
\* bug"; DiskDb::contains, merge_chunks, rewrite_snapshot_as_plh2).
SearchExact == pc = "answer" /\ ~q.failed => (q.found <=> q.key \in keys)

\* The index as its callers see it, a set: an import brings exactly the rows it was
\* given, a load, a conversion and another lookup mode change no key, and a lookup is
\* answered by what was loaded, or by a read error before it searched.
Promise ==
  INSTANCE FundedSet WITH
    gathered <- rows,
    kept <- IF file = NoFile THEN Nil ELSE Elems(file.recs),
    served <- IF db = NoDb THEN Nil ELSE Elems(db.recs),
    asked <- IF q = NoQuery THEN Nil ELSE q.key,
    answer <- IF q = NoQuery THEN "none"
              ELSE IF q.place = "search" THEN "open"
              ELSE IF q.failed THEN "error"
              ELSE IF q.found THEN "yes" ELSE "no"
ServesASet == Promise!SSpec

\* While chunks are merged the output is strictly increasing, nothing that is still to
\* come is below its end, every reader that has records left has one in the heap, and
\* no row has gone (merge_chunks).
MergeLosesNothing ==
  pc = "merge" =>
    LET rest(i) == {chunks[i][j] : j \in pos[i]..Len(chunks[i])}
        coming == {e[1] : e \in heap} \cup UNION {rest(i) : i \in DOMAIN chunks}
    IN /\ Increasing(out)
       /\ out # <<>> => \A h \in coming : h >= out[Len(out)]
       /\ \A i \in DOMAIN chunks : rest(i) # {} => \E e \in heap : e[2] = i
       /\ Elems(out) \cup coming = rows

\* A start leaves the snapshot with the filter it was configured to have, so the next
\* start with this configuration does not rewrite it: the limits of src/config.rs and
\* those of src/bloom.rs agree (load_snapshot_with).
Settled ==
  db # NoDb => /\ db.lookup = cfg.lookup
               /\ db.lookup = "mmap" => db.bloom.per = cfg.bits_per_key

\* Whatever the file and the environment say, there is a worker, it is given a
\* hundredth of the time at least, walks some way, and no period is zero (LoadConfig;
\* worker_count, throttle and process of src/engine.rs rely on it).
Usable ==
  /\ \A cpus \in {0, 1, 4} : WorkerCount(cfg, cpus) >= 1
  /\ cfg.cpu_percent >= 1 /\ Rest(cfg, 100) <= 9900
  /\ \A f \in Positive : cfg[f] > 0

\* What the merge has yet to write or drop.
Unmerged == Cardinality(heap) +
  Cardinality({c \in (DOMAIN chunks) \X (1..ChunkCap) : c[2] \in pos[c[1]]..Len(chunks[c[1]])})

\* Every turn of a loop leaves less to do: a search halves what it has, at either end of
\* its bucket, and a merge cannot pop and push back what it has (DiskDb::contains,
\* merge_chunks).
LoopsAdvance ==
  [][/\ pc = "search" /\ pc' = "search" => 2 * (q'.hi - q'.lo) <= q.hi - q.lo
     /\ pc = "merge" /\ pc' = "merge" => Unmerged' < Unmerged]_vars

=============================================================================
