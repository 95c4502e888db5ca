------------------------------ MODULE KeyWalk ------------------------------
(***************************************************************************)
(* The hot loop of src/engine.rs (process, on_hit, persist_hit), the       *)
(* walker of csrc/shim.c, the grouped hashing of csrc/hash_*.c and the     *)
(* findings file of src/hit.rs.                                            *)
(*                                                                         *)
(* A worker never sees the private key of what it hashes: the walker hands *)
(* out public keys, and the key of a hit is computed afterwards as start   *)
(* secret plus base plus slot.  Points are named by their secrets, which   *)
(* are numbers; the group order is out of reach of a walk and left out.    *)
(* The hash of a key in one of its two forms is the pair of them.          *)
(***************************************************************************)
EXTENDS Integers, Sequences, FiniteSets

CONSTANTS Workers,
          Batch,     \* BATCH
          Lanes,     \* keys hashed at once: 4 with SIMD, 1 without
          Spans,     \* the values of walk_span considered
          Starts,    \* the secrets random_secret may draw
          Funded,    \* the hashes contains() answers TRUE for
          MaxBegun,  \* how many spans may begin
          MaxTrouble, \* how many errors and crashes may happen
          Nil

Forms == {"comp", "uncomp"}
Slots == 0 .. Batch - 1
Keys == Nat
Hashes == Keys \X Forms

ASSUME WalkAssumption ==
  /\ Batch \in Nat \ {0} /\ Lanes \in Nat \ {0}
  /\ Spans \subseteq Nat \ {0} /\ Starts \subseteq Nat \ {0}
  /\ Funded \subseteq Hashes
  /\ MaxBegun \in Nat /\ MaxTrouble \in Nat /\ Nil \notin Workers \cup Hashes

VARIABLES
  running,  \* Shared.running
  span,     \* Shared.walk_span
  both,     \* Shared.check_uncompressed
  pc,       \* where each worker is
  start,    \* start_secret of each worker
  point,    \* the walker's running point, p of ec_walk
  base,     \* base of each worker
  out,      \* h160 and h160_u: the key whose hashes each slot holds
  slot,     \* i of the lookup loop
  form,     \* which of the two lookups of the slot is next
  lock,     \* who holds HIT_LOCK
  file,     \* findings/hits.txt, a sequence of what single writes left
  failed,   \* history: hits whose persist returned an error
  begun,    \* spans begun so far
  spent     \* troubles so far

shared == <<running, span, both>>
walker == <<start, point, base, out>>
loop == <<slot, form>>
disk == <<lock, file, failed>>
bounds == <<begun, spent>>
vars == <<shared, pc, walker, loop, disk, bounds>>

\* span: the outer loop's check; batch: the inner one's; look: the next lookup;
\* save: a hit waits for HIT_LOCK; stamped, written, parted: inside persist.
Places == {"off", "span", "batch", "look", "save", "stamped", "written", "parted"}
Saving == {"stamped", "written", "parted"}
Entries == [by : Workers, what : {"stamp", "key", "blank", "torn"}, hit : Hashes \cup {Nil}]

TypeOK ==
  /\ running \in BOOLEAN /\ span \in Spans /\ both \in BOOLEAN
  /\ pc \in [Workers -> Places]
  /\ start \in [Workers -> Nat] /\ point \in [Workers -> Nat] /\ base \in [Workers -> Nat]
  /\ out \in [Workers -> [Slots -> Nat]]
  /\ slot \in [Workers -> 0 .. Batch]
  /\ form \in [Workers -> IF both THEN Forms ELSE {"comp"}]
  /\ lock \in Workers \cup {Nil} /\ file \in Seq(Entries) /\ failed \subseteq Hashes
  /\ begun \in Nat /\ spent \in Nat

-----------------------------------------------------------------------------
\* The walker and the hashes

Spend == spent < MaxTrouble /\ spent' = spent + 1

\* ec_walk_batch: Batch consecutive points from p on.
Emitted(p) == [i \in Slots |-> p + i]

\* Which input lane l of group g takes: a short last group is padded with the last key.
Lane(g, l) == IF g * Lanes + l < Batch THEN g * Lanes + l ELSE Batch - 1

\* hash160_many: group by group, and only as many outputs as there are inputs.
HashMany(keys) == [i \in Slots |-> keys[Lane(i \div Lanes, i % Lanes)]]

-----------------------------------------------------------------------------
\* process

\* The outer loop: a new start secret and its point, unless told to stop.
Begin(w) ==
  /\ pc[w] = "span"
  /\ \/ /\ running /\ begun < MaxBegun
        /\ \E s \in Starts : /\ start' = [start EXCEPT ![w] = s]
                             /\ point' = [point EXCEPT ![w] = s]
        /\ base' = [base EXCEPT ![w] = 0]
        /\ pc' = [pc EXCEPT ![w] = "batch"]
        /\ begun' = begun + 1
        /\ UNCHANGED <<out>>
     \/ /\ ~running
        /\ pc' = [pc EXCEPT ![w] = "off"]
        /\ UNCHANGED <<walker, begun>>
  /\ UNCHANGED <<shared, loop, disk, spent>>

\* The inner loop goes on: the next keys are emitted and hashed, the point moves on.
NextBatch(w) ==
  /\ pc[w] = "batch" /\ base[w] < span /\ running
  /\ out' = [out EXCEPT ![w] = HashMany(Emitted(point[w]))]
  /\ point' = [point EXCEPT ![w] = @ + Batch]
  /\ slot' = [slot EXCEPT ![w] = 0] /\ form' = [form EXCEPT ![w] = "comp"]
  /\ pc' = [pc EXCEPT ![w] = "look"]
  /\ UNCHANGED <<shared, start, base, disk, bounds>>

\* The inner loop ends: the span was walked, or the flag fell.
EndSpan(w) ==
  /\ pc[w] = "batch" /\ ~(base[w] < span /\ running)
  /\ pc' = [pc EXCEPT ![w] = "span"]
  /\ UNCHANGED <<shared, walker, loop, disk, bounds>>

\* Mutation of Onward: the second lookup is made whatever is configured.
OnwardBoth(w) ==
  IF form[w] = "comp"
  THEN form' = [form EXCEPT ![w] = "uncomp"] /\ UNCHANGED slot
  ELSE form' = [form EXCEPT ![w] = "comp"] /\ slot' = [slot EXCEPT ![w] = @ + 1]

\* The lookup after this one: the key's other form, or the next key.
Onward(w) ==
  IF form[w] = "comp" /\ both
  THEN form' = [form EXCEPT ![w] = "uncomp"] /\ UNCHANGED slot
  ELSE form' = [form EXCEPT ![w] = "comp"] /\ slot' = [slot EXCEPT ![w] = @ + 1]

\* contains(): a hit is saved before the next lookup.
Look(w) ==
  /\ pc[w] = "look" /\ slot[w] < Batch
  /\ IF <<out[w][slot[w]], form[w]>> \in Funded
     THEN pc' = [pc EXCEPT ![w] = "save"] /\ UNCHANGED loop
     ELSE Onward(w) /\ UNCHANGED pc
  /\ UNCHANGED <<shared, walker, disk, bounds>>

\* The batch is done and base follows the point.
BatchDone(w) ==
  /\ pc[w] = "look" /\ slot[w] = Batch
  /\ base' = [base EXCEPT ![w] = @ + Batch]
  /\ pc' = [pc EXCEPT ![w] = "batch"]
  /\ UNCHANGED <<shared, start, point, out, loop, disk, bounds>>

-----------------------------------------------------------------------------
\* on_hit, persist_hit and persist

\* Mutation of HitOf: the offset within the batch is taken for the one within the walk.
HitOfSlot(w) == <<start[w] + slot[w], form[w]>>

\* The key persist_hit computes for the hit, and the form it marks it with.
HitOf(w) == <<start[w] + base[w] + slot[w], form[w]>>

Write(w, what, hit) == file' = Append(file, [by |-> w, what |-> what, hit |-> hit])

\* Mutation of Stamp: HIT_LOCK is not taken.
StampUnlocked(w) ==
  /\ pc[w] = "save"
  /\ Write(w, "stamp", Nil)
  /\ pc' = [pc EXCEPT ![w] = "stamped"]
  /\ UNCHANGED <<lock, failed, shared, walker, loop, bounds>>

\* HIT_LOCK is taken, the file opened for appending and the time written.
Stamp(w) ==
  /\ pc[w] = "save" /\ lock = Nil
  /\ lock' = w
  /\ Write(w, "stamp", Nil)
  /\ pc' = [pc EXCEPT ![w] = "stamped"]
  /\ UNCHANGED <<failed, shared, walker, loop, bounds>>

\* The record: the secret, its WIF, its public key and its address.
Record(w) ==
  /\ pc[w] = "stamped"
  /\ Write(w, "key", HitOf(w))
  /\ pc' = [pc EXCEPT ![w] = "written"]
  /\ UNCHANGED <<lock, failed, shared, walker, loop, bounds>>

\* The empty line that parts records.
Part(w) ==
  /\ pc[w] = "written"
  /\ Write(w, "blank", Nil)
  /\ pc' = [pc EXCEPT ![w] = "parted"]
  /\ UNCHANGED <<lock, failed, shared, walker, loop, bounds>>

\* Mutation of Synced: a hit ends the lookups of its key.
SyncedNextKey(w) ==
  /\ pc[w] = "parted"
  /\ lock' = Nil
  /\ pc' = [pc EXCEPT ![w] = "look"]
  /\ form' = [form EXCEPT ![w] = "comp"] /\ slot' = [slot EXCEPT ![w] = @ + 1]
  /\ UNCHANGED <<file, failed, shared, walker, bounds>>

\* sync_all, then the lock is given back and the next lookup follows.
Synced(w) ==
  /\ pc[w] = "parted"
  /\ lock' = Nil
  /\ pc' = [pc EXCEPT ![w] = "look"]
  /\ Onward(w)
  /\ UNCHANGED <<file, failed, shared, walker, bounds>>

\* Any of persist's calls returns an error, a write perhaps half done: the hit is
\* given up, with a line in the log.
SaveFails(w) ==
  /\ pc[w] \in Saving \cup {"save"} /\ (pc[w] = "save" => lock = Nil)
  /\ Spend
  /\ \/ UNCHANGED file
     \/ pc[w] # "parted" /\ Write(w, "torn", Nil)
  /\ failed' = failed \cup {HitOf(w)}
  /\ lock' = Nil
  /\ pc' = [pc EXCEPT ![w] = "look"]
  /\ Onward(w)
  /\ UNCHANGED <<shared, walker, begun>>

-----------------------------------------------------------------------------
\* Around the workers

\* run or the reporter clears running.
Halt ==
  /\ running
  /\ running' = FALSE
  /\ UNCHANGED <<span, both, pc, walker, loop, disk, bounds>>

\* The process is killed or aborts; the file stays as it is.
Crash ==
  /\ Spend
  /\ pc' = [w \in Workers |-> "off"]
  /\ lock' = Nil
  /\ running' = FALSE
  /\ UNCHANGED <<span, both, walker, loop, file, failed, begun>>

\* The next round, or the next process: fresh threads.
Spawn ==
  /\ ~running /\ \A w \in Workers : pc[w] = "off"
  /\ running' = TRUE
  /\ pc' = [w \in Workers |-> "span"]
  /\ UNCHANGED <<span, both, walker, loop, disk, bounds>>

Init ==
  /\ running = TRUE /\ span \in Spans /\ both \in BOOLEAN
  /\ pc = [w \in Workers |-> "span"]
  /\ start = [w \in Workers |-> 0] /\ point = [w \in Workers |-> 0]
  /\ base = [w \in Workers |-> 0]
  /\ out = [w \in Workers |-> [i \in Slots |-> 0]]
  /\ slot = [w \in Workers |-> 0] /\ form = [w \in Workers |-> "comp"]
  /\ lock = Nil /\ file = <<>> /\ failed = {}
  /\ begun = 0 /\ spent = 0

Persist(w) == Stamp(w) \/ Record(w) \/ Part(w) \/ Synced(w) \/ SaveFails(w)
Walk(w) == Begin(w) \/ NextBatch(w) \/ EndSpan(w) \/ Look(w) \/ BatchDone(w)

Next ==
  \/ \E w \in Workers : Walk(w) \/ Persist(w)
  \/ Halt \/ Crash \/ Spawn

Spec == Init /\ [][Next]_vars

-----------------------------------------------------------------------------
\* Properties

KeyLines == {n \in DOMAIN file : file[n].what = "key"}
Saved == {file[n].hit : n \in KeyLines}

\* A saved private key is one whose hash is funded in the form its record is
\* marked with: start, base and slot name the very key the walker emitted
\* there, over all batches, spans and hashing groups (engine.rs:335, :392).
SavedIsFunded == \A n \in KeyLines : file[n].hit \in Funded

\* Whether the lookups of worker w's current walk are past hash h.
Passed(w, h) ==
  /\ pc[w] \in Places \ {"off", "span"}
  /\ h \in Hashes /\ (h[2] = "uncomp" => both)
  /\ h[1] >= start[w]
  /\ LET o == h[1] - start[w] - base[w] IN
       \/ o < 0
       \/ /\ pc[w] # "batch"
          /\ o < slot[w] \/ (o = slot[w] /\ h[2] = "comp" /\ form[w] = "uncomp")

\* Every funded key of a walk the lookups are past is in the findings file,
\* unless persist reported an error for it: no slot, form or batch is skipped
\* where one batch meets the next or a group of lanes is short.
NothingPassedOver ==
  \A w \in Workers, h \in Funded : Passed(w, h) => h \in Saved \cup failed

\* What several workers save, and what failures and crashes leave, does not
\* mix: each key follows directly on its own time and each empty line on its
\* own key, so a record is never torn apart by another (HIT_LOCK, hit.rs:12).
RecordsApart ==
  \A n \in DOMAIN file :
    LET follows(what) == n > 1 /\ file[n - 1].by = file[n].by /\ file[n - 1].what = what IN
      /\ file[n].what = "key" => follows("stamp")
      /\ file[n].what = "blank" => follows("key")

=============================================================================
