------------------------------ MODULE EngineRun -----------------------------
(***************************************************************************)
(* One engine process from start to exit and the supervisor around it:     *)
(* run, reporter and process of src/engine.rs, the flags and counters they *)
(* share, and the restart loop of shell/start.sh.                          *)
(*                                                                         *)
(* run and reporter are one thread, the workers are others.  They share    *)
(* relaxed atomics only: halt, running, reload and the count of keys.  A   *)
(* step is a batch of keys, not a key.  What the reporter does with hits   *)
(* is in HitAlerts, what load and refresh do to the disk in SnapshotStore. *)
(***************************************************************************)
EXTENDS Naturals, FiniteSets

CONSTANTS Workers,
          Block,        \* REPORT_BLOCK, in batches
          AutoUpdates,  \* the values of cfg.auto_update considered
          MaxBatches,   \* how many batches a round may begin
          Budget,       \* how often each kind of event may happen
          Nil

Events == {"fault", "interrupt", "kill", "age", "stop"}

ASSUME RunAssumption ==
  /\ IsFiniteSet(Workers) /\ Block \in Nat \ {0} /\ AutoUpdates \subseteq BOOLEAN
  /\ MaxBatches \in Nat /\ Budget \in [Events -> Nat] /\ Nil \notin Nat

VARIABLES
  auto,     \* cfg.auto_update
  halt,     \* set by the handler of Ctrl+C
  running,  \* Shared.running
  reload,   \* Shared.reload
  main,     \* where run and reporter are
  outcome,  \* what reporter returned
  code,     \* how the process ended, Nil while it lives
  wpc,      \* where each worker is
  since,    \* since_report of each worker, in batches
  keys,     \* Shared.keys, in batches
  checked,  \* history: batches looked up in this round
  told,     \* the total of the round's last report, Nil before
  status,   \* data/status.json, Nil before the first
  stale,    \* the snapshot is older than max_snapshot_age_hours
  super,    \* run_loop of shell/start.sh: "on" or "gone"
  spent     \* events so far

flags == <<auto, halt, running, reload>>
counts == <<since, keys, checked, told>>
ending == <<outcome, code>>
outside == <<status, stale, super, spent>>
vars == <<flags, main, wpc, counts, ending, outside>>

Places == {"head", "load", "loop", "report", "age", "final", "close", "join",
           "refresh", "down"}
Codes == {"ok", "error", "reload", "killed"}
Status == [running : BOOLEAN, reload : BOOLEAN, keys : Nat]

-----------------------------------------------------------------------------
\* Helpers

Spend(k) == spent[k] < Budget[k] /\ spent' = [spent EXCEPT ![k] = @ + 1]

\* write_atomic, whose error is printed or ignored.
WriteStatus(s) ==
  \/ status' = s /\ UNCHANGED spent
  \/ Spend("fault") /\ UNCHANGED status

\* The process ends: its threads and counters with it.
Exit(c) ==
  /\ code' = c /\ main' = "down"
  /\ wpc' = [w \in Workers |-> "off"] /\ since' = [w \in Workers |-> 0]
  /\ UNCHANGED <<flags, keys, checked, told, outcome>>

-----------------------------------------------------------------------------
\* run

\* The head of run's loop.
Head ==
  /\ main = "head"
  /\ IF halt THEN Exit("ok")
     ELSE main' = "load" /\ UNCHANGED <<flags, wpc, counts, ending>>
  /\ UNCHANGED outside

\* The funded set is loaded, and a round begins with flags and counters of its own.
Load ==
  /\ main = "load"
  /\ main' = "loop"
  /\ running' = TRUE /\ reload' = FALSE
  /\ wpc' = [w \in Workers |-> "check"]
  /\ since' = [w \in Workers |-> 0] /\ keys' = 0 /\ checked' = 0 /\ told' = Nil
  /\ UNCHANGED <<auto, halt, ending, outside>>

LoadFails ==
  /\ main = "load" /\ Spend("fault")
  /\ Exit("error")
  /\ UNCHANGED <<status, stale, super>>

\* Mutation of Join: the workers are not waited for.
JoinDetached ==
  /\ main = "join"
  /\ IF outcome = "reload" /\ auto
     THEN main' = "refresh" /\ UNCHANGED <<flags, wpc, counts, ending>>
     ELSE Exit(IF outcome = "stopped" THEN "ok" ELSE "reload")
  /\ UNCHANGED outside

\* The workers are told to end and waited for; then Stopped ends the process,
\* Reload ends it without auto_update and refreshes the snapshot with it.
Join ==
  /\ main = "join" /\ \A w \in Workers : wpc[w] = "off"
  /\ IF outcome = "reload" /\ auto
     THEN main' = "refresh" /\ UNCHANGED <<flags, wpc, counts, ending>>
     ELSE Exit(IF outcome = "stopped" THEN "ok" ELSE "reload")
  /\ UNCHANGED outside

\* refresh_snapshot; when it fails the previous file is loaded again.
Refresh ==
  /\ main = "refresh"
  /\ main' = "head"
  /\ \/ stale' = FALSE /\ UNCHANGED spent
     \/ Spend("fault") /\ UNCHANGED stale
  /\ UNCHANGED <<flags, wpc, counts, ending, status, super>>

-----------------------------------------------------------------------------
\* reporter

\* The head of its loop; running is still set, only the reporter clears it.
CheckHalt ==
  /\ main = "loop"
  /\ running' = ~halt
  /\ main' = IF halt THEN "final" ELSE "report"
  /\ UNCHANGED <<auto, halt, reload, wpc, counts, ending, outside>>

\* After the sleep: the total as it is now goes to the status file.
Report ==
  /\ main = "report"
  /\ WriteStatus([running |-> TRUE, reload |-> FALSE, keys |-> keys])
  /\ main' = "age"
  /\ UNCHANGED <<flags, wpc, counts, ending, stale, super>>

\* Mutation of Age: the reload is asked for and the loop goes on.
AgeGoesOn ==
  /\ main = "age"
  /\ reload' = (reload \/ (auto /\ stale))
  /\ main' = "loop"
  /\ UNCHANGED <<auto, halt, running, wpc, counts, ending, outside>>

\* The check of the snapshot's age, made every ten minutes, here every time.
Age ==
  /\ main = "age"
  /\ IF auto /\ stale
     THEN reload' = TRUE /\ running' = FALSE /\ main' = "final"
     ELSE main' = "loop" /\ UNCHANGED <<reload, running>>
  /\ UNCHANGED <<auto, halt, wpc, counts, ending, outside>>

\* Mutation of Final: the last report repeats the total of the status file.
FinalRepeats ==
  /\ main = "final"
  /\ told' = IF status = Nil THEN 0 ELSE status.keys
  /\ outcome' = IF reload /\ ~halt THEN "reload" ELSE "stopped"
  /\ main' = "close"
  /\ UNCHANGED <<flags, wpc, since, keys, checked, code, outside>>

\* After the loop, with the workers still on their last batch: the total of the
\* last report, and what run will be told.
Final ==
  /\ main = "final"
  /\ told' = keys
  /\ outcome' = IF reload /\ ~halt THEN "reload" ELSE "stopped"
  /\ main' = "close"
  /\ UNCHANGED <<flags, wpc, since, keys, checked, code, outside>>

Close ==
  /\ main = "close"
  /\ WriteStatus([running |-> FALSE, reload |-> outcome = "reload", keys |-> told])
  /\ main' = "join"
  /\ UNCHANGED <<flags, wpc, counts, ending, stale, super>>

-----------------------------------------------------------------------------
\* A worker: process

\* Mutation of Check: running is not read before a batch.
CheckSkipped(w) ==
  /\ wpc[w] = "check" /\ checked < MaxBatches
  /\ wpc' = [wpc EXCEPT ![w] = "batch"]
  /\ UNCHANGED <<flags, main, counts, ending, outside>>

\* Both of its loops read running before the next batch.
Check(w) ==
  /\ wpc[w] = "check"
  /\ \/ running /\ checked < MaxBatches /\ wpc' = [wpc EXCEPT ![w] = "batch"]
     \/ ~running /\ wpc' = [wpc EXCEPT ![w] = "leave"]
  /\ UNCHANGED <<flags, main, counts, ending, outside>>

\* Mutation of Batch: the block is passed before it is counted.
BatchLate(w) ==
  /\ wpc[w] = "batch"
  /\ checked' = checked + 1
  /\ IF since[w] >= Block
     THEN keys' = keys + since[w] + 1 /\ since' = [since EXCEPT ![w] = 0]
     ELSE since' = [since EXCEPT ![w] = @ + 1] /\ UNCHANGED keys
  /\ wpc' = [wpc EXCEPT ![w] = "check"]
  /\ UNCHANGED <<flags, main, told, ending, outside>>

\* A batch is looked up; the shared count is touched once per block.
Batch(w) ==
  /\ wpc[w] = "batch"
  /\ checked' = checked + 1
  /\ IF since[w] + 1 >= Block
     THEN keys' = keys + since[w] + 1 /\ since' = [since EXCEPT ![w] = 0]
     ELSE since' = [since EXCEPT ![w] = @ + 1] /\ UNCHANGED keys
  /\ wpc' = [wpc EXCEPT ![w] = "check"]
  /\ UNCHANGED <<flags, main, told, ending, outside>>

\* Mutation of Leave: what is less than a block is not counted.
LeaveForgets(w) ==
  /\ wpc[w] = "leave"
  /\ since' = [since EXCEPT ![w] = 0]
  /\ wpc' = [wpc EXCEPT ![w] = "off"]
  /\ UNCHANGED <<flags, main, keys, checked, told, ending, outside>>

\* The rest is counted, and the thread ends.
Leave(w) ==
  /\ wpc[w] = "leave"
  /\ keys' = keys + since[w] /\ since' = [since EXCEPT ![w] = 0]
  /\ wpc' = [wpc EXCEPT ![w] = "off"]
  /\ UNCHANGED <<flags, main, checked, told, ending, outside>>

-----------------------------------------------------------------------------
\* Outside

\* Ctrl+C: the handler only sets halt.
Interrupt ==
  /\ main # "down" /\ Spend("interrupt")
  /\ halt' = TRUE
  /\ UNCHANGED <<auto, running, reload, main, wpc, counts, ending, status, stale, super>>

\* SIGKILL, an abort, and SIGTERM, which has no handler.
Kill ==
  /\ main # "down" /\ Spend("kill")
  /\ Exit("killed")
  /\ UNCHANGED <<status, stale, super>>

\* Time passes and the snapshot is too old.
GetOld ==
  /\ ~stale /\ Spend("age")
  /\ stale' = TRUE
  /\ UNCHANGED <<flags, main, wpc, counts, ending, status, super>>

\* The supervisor ends with a process that ended well, and starts another one
\* otherwise, after `data update` if it ended with RELOAD_EXIT.
Supervise ==
  /\ super = "on" /\ main = "down"
  /\ \/ /\ code = "ok"
        /\ super' = "gone"
        /\ UNCHANGED <<flags, main, counts, ending, stale>>
     \/ /\ code # "ok"
        /\ stale' = (stale /\ code # "reload")
        /\ main' = "head" /\ code' = Nil /\ outcome' = "stopped"
        /\ halt' = FALSE /\ running' = FALSE /\ reload' = FALSE
        /\ keys' = 0 /\ checked' = 0 /\ told' = Nil
        /\ UNCHANGED <<auto, since, super>>
  /\ UNCHANGED <<wpc, status, spent>>

\* shell/stop.sh: the supervisor's trap kills its child.
Stop ==
  /\ super = "on" /\ Spend("stop")
  /\ super' = "gone"
  /\ IF main = "down" THEN UNCHANGED <<flags, main, wpc, counts, ending>>
     ELSE Exit("killed")
  /\ UNCHANGED <<status, stale>>

-----------------------------------------------------------------------------

Init ==
  /\ auto \in AutoUpdates
  /\ halt = FALSE /\ running = FALSE /\ reload = FALSE
  /\ main = "head" /\ outcome = "stopped" /\ code = Nil
  /\ wpc = [w \in Workers |-> "off"]
  /\ since = [w \in Workers |-> 0] /\ keys = 0 /\ checked = 0 /\ told = Nil
  /\ status = Nil /\ stale \in BOOLEAN /\ super = "on"
  /\ spent = [k \in Events |-> 0]

MainStep == Head \/ Load \/ Join \/ CheckHalt \/ Report \/ Age \/ Final \/ Close

WorkerStep(w) == Check(w) \/ Batch(w) \/ Leave(w)

Next ==
  \/ MainStep \/ LoadFails \/ Refresh
  \/ \E w \in Workers : WorkerStep(w)
  \/ Interrupt \/ Kill \/ GetOld \/ Supervise \/ Stop

Spec == Init /\ [][Next]_vars

\* Threads run and the supervisor's loop does; a download may never end.
Fairness ==
  /\ WF_vars(MainStep) /\ WF_vars(Supervise)
  /\ \A w \in Workers : WF_vars(WorkerStep(w))

FairSpec == Spec /\ Fairness

-----------------------------------------------------------------------------
\* Properties

TypeOK ==
  /\ auto \in BOOLEAN /\ halt \in BOOLEAN /\ running \in BOOLEAN /\ reload \in BOOLEAN
  /\ main \in Places /\ outcome \in {"stopped", "reload"} /\ code \in Codes \cup {Nil}
  /\ wpc \in [Workers -> {"check", "batch", "leave", "off"}]
  /\ since \in [Workers -> Nat] /\ \A w \in Workers : since[w] < Block
  /\ keys \in Nat /\ checked \in Nat /\ told \in Nat \cup {Nil}
  /\ status = Nil \/ status \in Status
  /\ stale \in BOOLEAN /\ super \in {"on", "gone"} /\ spent \in [Events -> Nat]

\* The batches the workers looked up and have not added to the shared count.
Uncounted == UNION {{w} \X (1..since[w]) : w \in Workers}

\* Every batch looked up is counted once: in the shared count or in a worker's own,
\* also when the worker ends within a block.
CountsAddUp == main # "down" => keys + Cardinality(Uncounted) = checked

\* The last report of a round is made before the workers are joined, so it misses
\* what they had not counted yet and the batch each was on: less than a block and a
\* batch each, however long they take.  It never says more than was looked up.
LastReportLag ==
  (told # Nil /\ main # "down") =>
    told <= checked /\ checked - told <= Cardinality(Workers) * Block

\* No worker is left between two rounds: the old set is released before a new one
\* is downloaded and loaded (docs/DEPLOY.md:62 counts on it for the memory needed).
OneRound == main \in {"refresh", "head", "load", "down"} => \A w \in Workers : wpc[w] = "off"

\* Ctrl+C ends the process, in whatever state it finds it, unless it is downloading.
HaltEnds == halt ~> (main = "down" \/ main = "refresh")

\* With auto_update an old snapshot is noticed and its download begun, in spite of
\* failures and restarts, unless the engine is stopped.
StaleIsSeen == (auto /\ stale) ~> (~stale \/ main = "refresh" \/ halt \/ super = "gone")

-----------------------------------------------------------------------------
\* What the documentation promises and the code does not keep

\* "75 = caller should refresh snapshot (auto_update=false)" (shell/start.sh:60):
\* under the supervisor an old snapshot is refreshed without auto_update as well.
StaleIsRefreshed == stale ~> (~stale \/ halt \/ super = "gone")

=============================================================================
