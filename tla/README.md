# Plutus-rustus in TLA+

The engine generates keys along a walk, hashes them and looks the hashes up in a set of
funded hash160s. Around that loop sits the part that is hard to test: a queue of alerts
that must survive crashes and is rewritten by threads and by a second process, a
snapshot of several hundred megabytes that is rebuilt and replaced while it is in use, a
supervisor of two pid files and a trap, and a watcher that reads a file others write.
This directory models these, the loop itself as far as it decides which key is saved,
and the way from a dump's rows to the answer of a lookup; and it proves, for every value
of the constants, what each part promises.

Paths below are those of the repository (`src/engine.rs`, `shell/start.sh`, ...).

## Inventory

| Part | State it keeps | Operations | Talks to | What makes it correct |
|---|---|---|---|---|
| Hit alert queue (`src/pending.rs`) | `data/pending-hits.json`, its one `.tmp`, `data/hits.ack`, the in-process `LOCK` | `enqueue`, `apply_ack`, `due`, `mark_sent`, `ack_now` | workers, reporter, the `ack` process | an operation happens or does not; none undoes another's; only an ack removes hits |
| Hit persistence (`src/hit.rs`, `on_hit`) | `findings/hits.txt`, `HIT_LOCK` | `persist`, `on_hit` | queue, channel to the reporter | key on disk before any alert; records of several workers do not mix |
| Engine (`src/engine.rs`) | `running`, `reload`, `halt`, counters, worker threads, reporter, channel | `run`, `process`, `reporter`, `drain_hits`, `flush_pending` | everything | due alerts go out, a stop stops, a reload returns to searching |
| Snapshot store (`src/db.rs`) | `addresses.h160`, `addresses.h160.tmp`, `partial/*`, the engine's open file and index | `load`, `load_pickles`, `rewrite_snapshot_as_plh2`, `refresh_snapshot`, `update_from_url` | engine, `data update`, `data prepare` | the snapshot is always a whole dump; a lookup reads the file its index is of |
| PLH2 index, external sort, lookup (`src/db.rs`) | header, bucket index, sorted records | chunk, merge, index, `DiskDb::contains` | snapshot store | a key is found exactly when it was imported |
| Bloom filter (`src/bloom.rs`) | words of bits, length, number of probes | `insert`, `maybe_contains`, `write_to`, `from_bytes` | lookup | no false negative, after a round through the file either |
| Key walk (`ec::Walk`, `csrc/shim.c`, `process`) | start secret, running point, base, slot | `set_start`, `batch`, the lookups | worker | the key saved for a hit is the key that was hashed; none is skipped |
| SIMD hashing (`csrc/hash_*.c`) | none | `hash160_many` | worker | each output is its own input's hash, in a short last group too |
| Configuration (`src/config.rs`) | layers: defaults, file, profile, environment | `load` | all | the documented precedence |
| Notifier (`src/notify.rs`) | endpoint | `send`, `send_hit` | reporter | `send_hit` is Ok only when the service took it |
| Status file (`src/status.rs`) | `data/status.json` | `write_atomic` | reporter, operator | never torn |
| plutus-watch (`src/bin/plutus-watch.rs`) | the funded part of a watchlist, as of the last look | `load_watchlist`, `check_snapshot`, report | operator, two endpoints | messages add up to what is remembered; what the last snapshot has is told |
| Supervisor (`shell/start.sh`, `stop.sh`) | `supervisor.pid`, `engine.pid`, `$child`, the trap | start, restart, stop, update | engine process | one engine; a stop is final, a crash is not |
| Installer, build, CI, `make_pickles.py` | none at run time | | | not a running system |

The hard behaviours: read-modify-write cycles on one file by several threads and a
second process that does not share their lock; a crash between any two file operations;
sends that time out and arrive all the same; a rename that publishes a file somebody
else is writing; an import interrupted half way, whose leftovers the next one finds;
lookups in a file that was replaced; a signal between any two commands of a script; a
key that is not kept but computed again from three counters when it hits. Each is a
hazard of `PROJECT.json`, at its line, with the properties that would catch it.

## Modules

| Module | Models |
|---|---|
| `PendingQueue` | the data of `pending.rs`: a queue is a function from hits to `[first, last, sent]`; `Enqueue`, `MarkSent`, `Retain`, `DueSet` |
| `AlertQueue` | the abstract specification: every operation one atomic step, no lock, file or crash |
| `HitAlerts` | workers, reporter and acker, each operation of `pending.rs` split where the code touches a file |
| `MCHitAlerts` | budgets and symmetry for TLC |
| `HitAlertsProofs` | type correctness, key first, honest count |
| `PromiseProofs` | when every caller is a thread: `HitAlerts` implements `AlertQueue`, its queue only grows, extra alerts have causes |
| `SnapshotStore` | the snapshot, its temporary file, `partial/`, the engine and `data update` |
| `FundedStore` | the abstract specification: an import is one step to a whole dump, the engine answers by what it opened |
| `MCSnapshotStore` | deployments and budgets for TLC |
| `SnapshotProofs` | type correctness; with one writer at a time a whole snapshot, coherent lookups, one dump, and `SnapshotStore` implements `FundedStore` |
| `EngineRun` | `run`, `reporter` and `process`: flags, counters, status file, exit codes, and the restart loop around them |
| `MCEngineRun` | budgets for TLC |
| `EngineRunProofs` | type correctness, rounds do not overlap, every batch is counted, the last report is close |
| `Settings` | `config.rs`: defaults, profile, file and environment with their limits |
| `Bloom` | `bloom.rs`: size, probes, bits, the round through the file |
| `FundedIndex` | `db.rs` from rows to answers: chunks, merge, PLH2, loading under a configuration, the search of a bucket |
| `FundedSet` | the abstract specification: rows are gathered, kept, loaded and asked for as a set |
| `MCFundedIndex` | hashes, configurations and environments for TLC |
| `FundedIndexProofs` | type correctness, the merge, the lookup, the start, the configuration, progress of the loops, and `FundedIndex` implements `FundedSet` |
| `KeyWalk` | `process`, the walker of `csrc/shim.c`, the groups of `csrc/hash_*.c` and `persist`, write by write |
| `MCKeyWalk` | funded keys at the edges of batches and groups, symmetry |
| `KeyWalkProofs` | type correctness, the saved key is the hashed one, none is skipped, records stay apart |
| `Supervisor` | `start.sh` and `stop.sh` command by command, the trap, both pid files |
| `MCSupervisor` | budgets for TLC |
| `SupervisorProofs` | type correctness, a stop is final, one of each |
| `Watch` | `plutus-watch.rs`: watchlist, scans, reports by number or by name, both endpoints, and the snapshot others replace or write over |
| `MCWatch` | watchlists and snapshots for TLC |
| `WatchProofs` | type correctness, messages that add up |

How they go together: `HitAlerts` takes up where `KeyWalk` ends (a hit that is saved),
`EngineRun` has the threads both run in, `SnapshotStore` the file `FundedIndex` makes
and searches and `Watch`'s like reads; `Supervisor` starts what `EngineRun` models and
maps its three ways of ending to codes. Each takes from its neighbour what that one
proves or checks: `EngineRun` that a load may fail, `KeyWalk` that a lookup answers by a
fixed set (`SearchExact`, `LookupCoherent`), `Supervisor` that an engine ends with 0, 75
or else.

### HitAlerts

An actor is a worker, the reporter or the acker. `pc` says where it is in `on_hit`,
`reporter` or `ack_hits`; `stage` how far it is inside an operation of `pending.rs`. An
operation is: load and change in memory (one step, `LoadToEnqueue`, `LoadToMark`,
`CheckAck` and `ReadAck`), `CreateTmp`, `FillTmp`, `Rename`, then for an ack `RemoveAck`,
and for `due` its own `LoadDue`. The first step of an operation waits for `LOCK` (`Unlocked`);
the last gives it back (`Leave`). `LOCK` is modelled by what it excludes: actors of one
process.

* `AckInProcess` is the one thing the code leaves to its caller. `ack_now` is public and
  its comment calls it safe while the engine runs; called by a thread (`TRUE`), it takes
  the engine's `LOCK`. `main.rs` calls it in a process of its own (`FALSE`), where the
  same static excludes nobody. The promise of `AlertQueue` holds for the first only and
  is checked and proved for it; the other theorems are proved for both. `thread`
  checks the first, `process` the second.
* `fs::write` truncates the temporary file and then fills it, and two processes may be
  between these at once. `opened` says by what name the file an actor has open is known
  by now (a rename by the other process makes the temporary file the queue), `mixed`
  which of the two names holds parts of two bodies. A body that is written over another
  process's leaves that one's end behind if it is shorter (`FillTmp`); more hits make it
  longer, equally many may do either by a digit. A queue that does not parse is an error
  of every load (`Readable`). The body itself goes out in one write, which may stop half
  way with an error (`FillFails`) but is not cut by a kill.
* `unix_now()` is read before `LOCK` is waited for, as in the code, so an operation may
  use an old time (`now`). The clock does not step back.
* `hits.ack` is created and filled in two steps (`Torn` between them). A file that
  vanished, cannot be read or does not parse stands for an ack at the reader's own
  `now`, as in `apply_ack_unlocked`.
* A send succeeds, fails, or fails after it reached the operator (`late` in
  `SendFails`).
* `Fault`: any file operation of `pending.rs` returns an error. `Crash` kills the engine
  between any two steps, also when the reporter has ended and `run` still joins its
  workers, `AckerKilled` the ack process. `Close` is a halt or the reload,
  after which the reporter drains once more; `Start` is the next round or process.
* A hit is found once. Text, addresses and WIFs are left out; two hits are two
  `(address, compressed)` pairs, the key `enqueue` compares by.
* `AlertQueue` lets a mark through only if the hit was due at the time the mark bears
  (`Confirm`). So no interval is cut short, as long as it is taken between the
  beginnings of two flushes, whose one `now` serves for both `due` and `mark_sent`; how
  long the sends before it took is not part of it, in the code neither.

### SnapshotStore

`dir` maps the two names that are renamed to inodes and `data` gives each inode an image
(format and key set) or `Torn`. The engine's `db` is the inode it has open and the image
its index was made of. The files of `partial/` are read by name only, so they are plain
variables: `gz`, `chunk`, `sorted`. A process walks through `pc`: `fetch`, `scan`,
`chunk`, `merge`, `survey`, `create`, `sync`, `publish`, `clean`, `load`, as
`refresh_snapshot` does; a conversion (`rewrite_snapshot_as_plh2`) enters at `convert`
and leaves to `load`; pickles enter at `chunk`. A dump may repeat a key, be broken
anywhere (the decoder's error) or hold no usable row.

Deployments are the constant `Sites`: does the engine refresh (`auto_update`), does
something run `data update`, what is on disk at first, are there pickles.
`DocumentedSites` are those `deploy/goldpan-update.service:12` and `docs/DEPLOY.md`
allow: the one or the other, not both.

`Inodes` bounds the files there are: `Create` waits for a number nobody uses.

`ImportIsAtomic` is the refinement of `FundedStore` under this mapping: `latest` is the
dump in `gz` once it is a whole one (`Latest`), `kept` the keys in the inode named
snapshot, and `served` the keys in the inode the engine has open while it searches, or
`Torn` if its index is of another content. A fetch and the removal at the end of an
import are `Download`s, the rename an `Import` (after a conversion a stutter: the same
keys in another format), the load that ends in `run` an `Open`, an age check and a crash
a `Close`. Chunks, merge, both passes, failures and everybody's starts are stutters.

Left out: lookup = sorted and hash (a copy in memory, closed after load), the age of a
snapshot (the environment says when it is too old), byte counts and trailing bytes,
power loss (the code syncs the file, not the directory). After a conversion the code
calls `load_plh2` directly, the model goes through `Load` again, which takes the same
branch unless somebody replaced the snapshot in between.

### EngineRun

`main` is where the thread of `run` and `reporter` is: `head` and `load` of a round,
`loop`, `report`, `age` of the reporter's tick, `final` and `close` after the loop,
`join`, then `refresh` or the exit. A worker reads `running` (`Check`), then looks a
batch up and counts it (`Batch`), so the flag may change in between; `Leave` counts what
is less than a block. Keys are counted in batches. `checked` is a history variable, what
was really looked up. `Kill` is SIGKILL, an abort and SIGTERM, which has no handler.
`Supervise` is `run_loop` of `shell/start.sh`, its `data update` after exit code 75
included, and `Stop` is `stop.sh`, each taken as one step; `Supervisor` takes them
apart.

Left out: the age check's ten minutes (it is made at every tick), heartbeats, throttling
and walk spans (the end of a span only leads to the next check of `running`).

### FundedIndex

Where `SnapshotStore` has key sets and crashes, this module has sequences and no
trouble. `pc` goes `scan` (`Push`, `EndOfRows`), `merge` (`Pop`, one turn of the loop of
`merge_chunks`), `build`, `load`, `ready`, then `search` (`Probe`, one turn of
`DiskDb::contains`) and `answer`; pickles with an in-memory lookup go through `shard`.
Every `Start` reads another configuration (`LoadConfig` of `Settings`), so snapshots
meet other sizes of the filter, other lookup modes and the PLH1 format. A hash is a
number, its bucket a range of numbers, and bytes in their order are numbers in theirs.
`IndexOf` states the prefix sums of `index_from_counts` by what they count. `Sort`
stands for `sort_unstable` and `dedup` of the standard library, with their promise
(`SortAssumption`) instead of a definition; `mix` of the filter is an arbitrary
function, because false positives may cost time and nothing else. A configuration is a
function from the fields that are set; one field that does not parse empties the file,
as in the code.

`ServesASet` is the refinement of `FundedSet`: `gathered` is `rows`, `kept` and `served`
are the elements of the records in the snapshot and in the Db, `asked` and `answer` are
read off the lookup under way. `Push` and `Shard` gather, `Build` and `Migrate` are the
two ways an import ends, `Load` opens, `Contains` asks and the `Probe` that ends a search
replies; the merge, the other probes and a start are stutters.

Left out: rows that are no address of a wanted kind (they are skipped), the counts of
skipped rows, which are only printed, the checks of magic, version and sizes, and 32-bit
offsets, which 2^32 records would take.

### KeyWalk

A worker goes `span` (`Begin`: a start secret, its point, base 0), `batch` (`NextBatch`:
`Batch` keys are emitted and hashed, the point moves on), `look` (`Look`: one lookup, of
one form of one slot), and after the last slot `BatchDone` lets base follow. A hit goes
through `persist`: `Stamp`, `Record`, `Part`, `Synced` are its lock, its three writes
and its `sync_all`; `SaveFails` is an error at any of them, a write perhaps half done.
`Onward` is the order of the lookups, by which a hit goes on too. The key in a record is
computed as the code does (`HitOf`), from start, base and slot; what was hashed is in
`out`, which only the walker fills. That the two agree is what the module is about.
`HashMany` sends slots through groups of `Lanes`, the last padded with the last key.

A point is named by its secret and a hash is the pair of key and form, so equal hashes
of different keys, which nobody has seen, do not occur. Left out: the wrap-around at the
group's order, and `set_start` of a secret that is no key, both of probability 2^-128;
the text of a record; two engine processes that append to one file without a common
lock.

### Supervisor

`op` is where the operator's command is: `start.sh` checks (`StartCheck`), forks
(`StartFork`) and writes the number (`StartRecord`), and its child runs meanwhile;
`stop.sh` signals the supervisor (`StopBegin`), waits for it or kills it
(`StopSupervisor`), ends the engine (`StopEngine`) and removes the file (`StopUnlink`).
`state[p]` is where process p is: a supervisor before the fork, after it, with `$child`
set, in `wait`, in `data update`, in `sleep`; an engine is `up` or ended with a code.
`termed` are supervisors whose SIGTERM is pending: bash runs a trap between commands, in
`wait` at once (`Trap`), so it may come between the fork and `child=$!`. SIGKILL after
five seconds runs no trap; only `data update` takes that long. A write that fails leaves
an empty pid file and `set -e` ends the script. A failing log line or rotation is
`LogFails`.

Left out: process numbers are not reused; two operator commands at once; that `data
update` outlives its killed parent; finding the binary and `.env`;
`deploy/goldpan.service`, where systemd does the supervising.

### Watch

`LoadList`, then look by look `Open`, `ReadRow` row by row, `Differ`, `Announce` (which
asks for the age of the file of that name again), one `Post` per endpoint, `Keep`, and
the sleep or, with `--once`, the end (`done`). Every error ends the process (`Exit`,
`failed`): there is no retry in the code, and nothing in the repository starts it again.
Whoever does (`Start`, which nobody has to take) gets a process that remembers nothing.

The snapshot belongs to others. `Replace` puts another under its name, which an open
scan does not see (`linked`). `WriteOver` truncates the file and begins to fill it,
`Written` is the last of it; `bodies` are the contents that are mixed in it meanwhile,
`reading` those the opened file has had since `Open`. With one content a scan reads its
rows in order. With several it may read anything (`RowsAt`): any of their addresses with
any balance, also none, which is what a row cut there has and what counts as funded; and
it may end anywhere (`AtEnd`). That a torn scan reads no more rows than the longest
content has is a bound.

A message always tells how many addresses were added and removed, and which only with
`--include-addresses` (`named`). `sum` and `life` are history: what the numbers and what
the addresses in the messages of this process add up to, for each listener. A send that
failed may have arrived.

Left out: the lines of the report besides what was added and removed, the options'
syntax, HTTP.

## Runs

| Run | Instance | Shows |
|---|---|---|
| `thread` | 2 hits, 2 workers, `ack_now` in a thread, `hit_repeat_max` 2, one each of I/O error, failed send, close and crash and two acks, two in all; symmetry | `KeepsPromise`: refinement of `AlertQueue`; `QueueOnlyGrows`, `AlertsAccountedFor`: no interleaving loses or resets an entry, and every alert too many has a mishap to blame |
| `process` | 1 hit, 1 worker, the ack process, two of all kinds of trouble, its being killed among them; fairness | `TypeOK`, `FindingBeforeAlert`, `SentNeverOverstates` without a common lock; `DueIsAlerted`: a hit that is due is alerted and marked, unless an ack takes it from the queue; `SavedIsAlerted`: so is one whose key was saved, in spite of one failure |
| `ack_returns` | violation | an acked hit is queued again by its late notice |
| `ack_loses` | violation | the ack process overwrites a newer hit |
| `store` | 2 keys, chunks of 1, engine and one updater, an error, a crash, two refreshes, two updates, fairness | `TypeOK`, `SnapshotWhole`, `LookupCoherent`, `OneDump`, `EngineReturns`; `ImportIsAtomic`: refinement of `FundedStore` |
| `store_clash` | violation | conversion at start against the timer's update: a torn snapshot |
| `run` | 2 workers, blocks of 2 batches, 5 batches a round, with and without `auto_update`, one each of error, Ctrl+C, kill, ageing, stop; fairness | `TypeOK`, `CountsAddUp`, `LastReportLag`, `OneRound`, `HaltEnds`, `StaleIsSeen` |
| `index` | 6 hashes in 2 buckets, up to 4 records in chunks of 2, one import, 6 configuration files and 2 environments, a PLH1 snapshot or none at first | `TypeOK`, `SearchExact`, `MergeLosesNothing`, `LoopsAdvance`, `Settled`, `Usable`; `ServesASet`: refinement of `FundedSet` |
| `walk` | 2 workers, batches of 3 keys in groups of 2, spans of one and of two batches, two spans begun, starts 1 and 3, four funded hashes, one error or crash; symmetry | `TypeOK`, `SavedIsFunded`, `NothingPassedOver`, `RecordsApart` |
| `super` | 6 processes, two starts, two stops, two engines that die, one failed write; fairness | `TypeOK`, `StopIsFinal`, `OneOfEach`, `KeptUp` |
| `super_stray` | violation | a stop between the fork and `child=$!`, and the engine runs on |
| `watch` | 2 addresses, 4 watchlists, 2 snapshots and none, two changes, one failure, one or both endpoints, with and without `--once` and `--include-addresses`; fairness | `TypeOK`, `ChangesAddUp`, `FundedIsTold`, `LossIsTold` |

Bounds. Every counter is cut off by a named bound: `MaxClock` and `Budget` in the
guards. Two hits are what it takes for one operation to overwrite another's item; two
workers for two `enqueue`s at once besides the reporter. The interval is one second and
the clock reaches one, so a hit can be alerted, come due again and be acked before and
after. Two troubles cover a crash while an error is being recovered from, or two acks.
Two keys and chunks of one record give two chunks, a shorter import after a longer,
interrupted one (what `OneDump` is about), and repeated keys. Four inodes are more than
are ever referred to at once: snapshot, temporary file, the engine's open one and one
being written. In `EngineRun` a round may begin five batches, one more than the four
`LastReportLag` allows to be missing (two workers, blocks of two). In `FundedIndex` four
records in chunks of two give no, one, two and three or four chunks (repeats shrink
them), repeats inside a chunk and across chunks, buckets that are empty, full, and of
one; two pairs of hashes share all their bits, one pair inside a bucket, so searches
that end in nothing occur. One import is enough because an import starts from nothing
and replaces the snapshot. The filter's limits and its 64-bit words are the code's own;
the words that `mix` makes have 16 bits. In `KeyWalk` batches of three in groups of two
end in a short group, a span of 4 is no multiple of the batch and is exceeded by its
second batch, as `base < span` has it; the funded keys lie at the end and the beginning
of a batch, in a short group, and one is funded in both forms. In `Supervisor` six
processes are two supervisors and four engines, as many as two starts and two deaths
make; of the stops one may come between and one after. In `Watch` two changes are a loss
and a return, or a change under a scan and one after it. Deadlock is checked except in
`EngineRun`, where an engine that was stopped, and its supervisor with it, are gone for
good, and in `Supervisor`, which runs out of commands and processes.

Fairness. In `HitAlerts` every thread that can run does (`WF`), an ended process is
started again (`Restart=on-failure`, `shell/start.sh`, and an operator), and a thread
that waits for `LOCK` gets it some time (`SF`): holders let go after a few file
operations and the reporter sleeps three seconds between rounds. Trouble and the clock
are never fair. In `SnapshotStore` a process goes on with its work and the engine is
restarted; nothing is assumed of a download, because `download_file` sets no time-out,
and `EngineReturns` excuses it. In `EngineRun` the main thread, each worker and the
supervisor go on; again nothing is assumed of a refresh, and `HaltEnds` and
`StaleIsSeen` say so. In `Supervisor` the scripts and the supervisors go on, which is
bash running its next command; a `data update` may hang. In `Watch` the process goes on as
long as it lives: nothing makes anybody start it again, finish a write or let the clock
pass an mtime, so `FundedIsTold` and `LossIsTold` are about a process that lives and a
snapshot that is written. Failures are never fair.

Each property of a passing run has a mutation: the code with a plausible bug (a lock not
taken, a count forgotten, the snapshot written in place, the fsync'd copy replaced by
one over the live file), written next to the definition it changes, that breaks it.

## What is proved

For every set of hits and workers, every budget, interval and cap (`ActorAssumption`,
`RepeatAssumption`), both placements of the acker:

* `TypeCorrect`, `KeyComesFirst` (`Spec => []TypeOK`, `[]FindingBeforeAlert`). `TypeOK`
  is not inductive: an actor may hold anything. `KnownInv` adds that everything on its
  way (a loaded copy, the temporary file, `cur`, the channel, `due`) is a hit whose key
  is already in `findings`, and at which places an actor can be in which stage. One
  lemma per operation; `LeaveKnown`, `ModifyKnown`, `StageKnown` do what they share.
* `CountIsHonest` (`[]SentNeverOverstates`). The count is written after the send but
  through a copy that may be old, by two processes without a common lock. `CountInv`
  says that every copy (the file, the temporary file, each `buf`) is below `Sure`, the
  alerts sent less the one the reporter has not marked yet; a copy may be stale, and
  stale counts are only lower.
* `ThreadsKeepPromise` (`AckInProcess => (Spec => KeepsPromise)`): the refinement.
  `AtomicInv` has `Exclusive` (at most one actor inside an operation), `TimesPast`,
  `AckAsked`, and `ResultsCurrent`: what the actor inside an operation is about to
  rename is the abstract operation applied to the queue as it is now, and the temporary
  file is its own and never mixed (`Prepared`, `FillExact`). `RoundInv` adds that what
  the reporter alerts and marks was due at the time its round bears. With these only
  `Rename` changes the abstract queue, by exactly one abstract step
  (`RenameKeepsPromise`), and every other step stutters or maps to a record, a send, a
  tick or an ask.
* `QueueKeepsHits` (`Spec => QueueOnlyGrows`) and `ExtraAlertsHaveCauses`
  (`Spec => []AlertsAccountedFor`) need no such assumption, because they speak of the time
  before an ack: until then the `ack` process does not run (`AckerIdle`) and all that do
  share the `LOCK`. So `AtomicInv` holds as long as `Together` does, and `Together`
  never comes back (`StillTogether`, from `AcksStayAsked`). `LastPast`: no time in the
  queue is later than the time the reporter's round began with, because the reporter
  alone marks. `AlertInv`: what is due is queued and below the cap, what is being marked
  is no longer due, and every alert beyond the count is the one being marked or has a
  trouble spent.

* `RunTypeCorrect`, `RoundsDoNotOverlap`, `EveryBatchCounted` and `LastReportIsClose`
  (`EngineRun`, for any number of workers and any block, assuming `RunAssumption`).
  `RoundInv` adds to the types that a worker lives only while `main` is between `loop`
  and `join`, and that the last total is known when the last status is written.
  `CountInv` adds that a worker that is off holds nothing back, so that the exit of a
  round and a new one leave the sum alone. What is not counted yet is a set of pairs of
  a worker and a number up to its `since`, so the sum is a cardinality and a batch adds
  one pair or, at the end of a block, takes a whole column away (`OneMoreHeld`,
  `HeldIsSettled`). `LagInv` says that from the last report on nobody begins a batch, and
  that what was looked up and not told, with the batches workers are still on
  (`OnBatch`), fits one block each; `LagStep` shows that a batch that ends moves from
  the one to the other.

* `StoreTypeCorrect` for any deployment, and, assuming `OneWriter`, which
  `DocumentedSites` satisfy (nothing that runs `data update` beside an engine that
  refreshes or converts, one updater at a time), `SnapshotStaysWhole`,
  `LookupsStayCoherent` and `SnapshotIsOneDump`. `StoreInv` says of the one writer,
  place by place, what it has made so far: the chunks up to `made` and `left` are
  together the dump (`Gathering`), `sorted` and later the temporary file hold exactly it
  (`Writing`); of everybody else that they hold none of these (`Idle`); and that the
  temporary file is neither the snapshot nor what the engine has open (`FilesInv`). It
  needs the names of the chunks only up to `made`, so what an interrupted import left
  does not matter.
* `StoreKeepsPromise` (`OneWriter => (Spec => ImportIsAtomic)`): the refinement of
  `FundedStore`, for any dumps, chunk sizes, failures and crashes. The same invariant
  carries it, because it says which dump is being made: `Wanted`, the last download
  inside `refresh_snapshot` and the pickles otherwise. `AsideKeepsRun` and `QuietStep`
  dispose of the steps readers see nothing of, `TmpStep` of writes to the temporary
  file, and `PublishKeepsPromise` shows that the rename is an `Import` or a stutter.
* `WalkTypeCorrect`, `SavedKeyIsFunded`, `NoFundedKeySkipped`, `RecordsStayApart`
  (`KeyWalk`, for any batch, span, number of lanes and workers, `WalkAssumption`).
  `StepInv` says that the point is start plus base, one batch further while lookups are
  made, and that slot `i` of `out` is then start plus base plus `i` (by `GroupAndLane`,
  division with rest); `PassInv` that what a walk is past is done; `LockInv` that the
  last line of the file is the lock holder's, as far as it is in `persist`.
* `SupervisorTypeCorrect`, `StoppedForGood`, `OneSupervisorOneEngine`, for any number of
  processes and events. `SupInv` is `Lineage` (an engine has a parent, a supervisor has
  none, `$child` names a child), `Commands` (what is known in each place of a command)
  and `Held` (a supervisor that loops and got into the file is still in it, and an
  engine that did is the one its supervisor waits for).
* `WatchTypeCorrect`, `MessagesAddUp`, for any list, any files and any number of
  changes, torn scans among them. `WatchInv` says what each listener's messages add up
  to at each place between `Differ` and `Keep`, as a set and in number: the sizes of the
  two differences lead from the size of one look to that of the next
  (`DifferenceApplies`), because a watchlist is finite (`WatchedFinite`).
* `IndexTypeCorrect`, `MergeCorrect`, `LookupCorrect`, `StartSettles`, `ConfigUsable`,
  `LoopsEnd`
  (`FundedIndex`, for any hashes, buckets, chunk size, dump, configurations and filter
  function, assuming `SortAssumption` of the standard library and `ConfigAssumption`,
  the field types of `FileConfig`). `IndexInv` has one part per phase. In the merge
  (`MergeInv`) the heap's element of a reader is the record it read last, the output
  increases up to the least of the heap, and output, heap and what is unread are
  together the rows. A snapshot (`SnapshotOf`) is the keys in their order, with the
  index and the filter of these; from that a search (`SearchInv`) has the key between
  its ends if the snapshot has it at all. `IndexFinds` shows that the index of an
  increasing sequence gives each bucket exactly its records (`SegmentIs`,
  `DivMonotonic`), `BloomHasAll` that the round through the file keeps every bit, and
  `ConfigSane` that defaults, profiles, file and environment keep to the limits.
  `LoopsEnd` also needs `ShortInv`, chunks within `CHUNK_RECORDS` (`SortShort`), and
  counts the heap and what is ahead of the readers (`MergeFinite`, `PopAdvances`).
* `IndexIsASet` (`Spec => ServesASet`), under the same assumptions: `View` says what a
  caller can tell of a state in terms of `keys` and of where the process is; it follows
  from `IndexInv` (`ViewHolds`), so each step has to be looked at for `rows`, `keys` and
  `pc` only, and for the key of a search.

Only model-checked: liveness, which is beyond the prover: `DueIsAlerted`,
`SavedIsAlerted`, `EngineReturns`, `HaltEnds`, `StaleIsSeen`, `KeptUp`, `FundedIsTold`,
`LossIsTold`. Every safety property of a passing run has its theorem.

## Where code and documentation disagree

With a run each:

1. `drain_hits` queues a notice whatever was acked meanwhile: an acked hit comes back
   (`ack_returns`, against `src/pending.rs:116`).
2. The `ack` process shares no lock with the engine and can drop a hit queued after the
   ack (`ack_loses`, against `src/pending.rs:117` and the test of `:243`).
3. A conversion and a `data update` write one temporary file (`store_clash`, against
   `src/main.rs:46`).
4. A SIGTERM between the fork of an engine and `child=$!` (`shell/start.sh:52`) leaves
   it running, and no pid file names it (`super_stray`, against `shell/stop.sh:2`).
   `StopIsFinal` is what holds for processes that got into a pid file (`Stray`).

Stated in the modules and refuted by TLC with a configuration that is kept beside them,
but not among the runs, because they follow from a few lines of code or from what 2 and
3 show:

5. The `ack` process and the engine may fill the one temporary file at once; the body
   that comes of it is no JSON, and when it is renamed over the queue every later load
   fails (`QueueReadable` of `HitAlerts`, `HitAlertsGarbled.cfg`, against
   `src/pending.rs:116`).
6. Nothing reads `findings/hits.txt` at startup, so a crash between `persist` and
   `enqueue` loses the alert, not the key (`HitIsAlerted` of `HitAlerts`,
   `HitAlertsSavedLost.cfg`, against `README.md:57`). `SavedIsAlerted` is what holds: a
   crash loses no hit that is in the queue.
7. plutus-watch takes a row without a balance for a funded one, so a file that is
   written over during a scan reports addresses that no snapshot has as funded
   (`ChangeIsReal` of `Watch`, `WatchTorn.cfg`, against `docs/REVIVAL_PLAN.md:118`).
8. Exit code 75 cannot occur: `reporter` asks for a reload only with `auto_update`,
   `run` returns `Reload` only without (`StaleIsRefreshed` of `EngineRun`,
   `EngineManual.cfg`, against `shell/start.sh:60` and `src/engine.rs:20`).

Seen while reading and not the subject of a run: `Cargo.toml` does not enable ctrlc's
`termination`, so SIGTERM ends the engine with 143 and not with the clean stop of
`shell/start.sh:60`; a dump without a usable row counts as a good one and empties the
snapshot (`src/db.rs:725`, against `docs/REVIVAL_PLAN.md:283`); a dead webhook of
plutus-watch silences ServerChan, since the first error ends the process, and one that
is started again tells every funded address again and no loss that happened meanwhile
(`docs/REVIVAL_PLAN.md:118` again); `data prepare` with lookup = sorted or hash says
where it prepared the snapshot and writes none (`src/main.rs:198`, `Stop` of
`FundedIndex`).

## Plan

Done: `PendingQueue`, `AlertQueue`, `HitAlerts`, `SnapshotStore`, `EngineRun`,
`KeyWalk`, `Supervisor`, `Watch`, and `FundedIndex` with `Settings` and `Bloom`, each
with its proofs.

1. lookup = sorted and hash in `SnapshotStore`, where the engine has nothing open after
   the load.

## Not modelled

The rounds of SHA-256 and RIPEMD-160 (bit-level, covered by test vectors; which key goes
through which lane is in `KeyWalk`), the curve arithmetic of `depend/secp256k1`, HTTP
and message formats, commands that only print, installer, build and CI: none keeps a
state of the running system or meets another part but through what is modelled.
