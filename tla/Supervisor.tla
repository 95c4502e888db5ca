----------------------------- MODULE Supervisor ----------------------------
(***************************************************************************)
(* shell/start.sh and shell/stop.sh: the supervisor process run_loop, the  *)
(* engines it starts, the two pid files, and the operator's commands, one  *)
(* at a time.  An engine is only a process here that ends with a code; its *)
(* inside is EngineRun.                                                    *)
(*                                                                         *)
(* bash runs a trap between two commands: at once when it is in `wait`,    *)
(* only after the command when that runs in the foreground.  Process       *)
(* numbers are given out in order and not reused.                          *)
(***************************************************************************)
EXTENDS Naturals, FiniteSets

CONSTANTS MaxPid,  \* bound on the processes started
          Budget,  \* how often each kind of event may happen
          Nil,     \* no such file, no such process
          Empty    \* a pid file whose write failed

Events == {"start", "stop", "death", "fault"}
Pids == 1 .. MaxPid

ASSUME SupervisorAssumption ==
  MaxPid \in Nat /\ Budget \in [Events -> Nat] /\ Nil \notin Nat /\ Empty \notin Nat

VARIABLES
  op,        \* where the operator's command is
  target,    \* the process it started or waits for
  state,     \* where each process is
  child,     \* $child of each supervisor
  parent,    \* who started each engine
  next,      \* the next process number
  termed,    \* supervisors with a SIGTERM not yet handled
  supFile,   \* data/supervisor.pid
  engFile,   \* data/engine.pid
  recorded,  \* history: processes whose number got into their file
  stopped,   \* history: a stop.sh has ended and no start.sh begun since
  spent      \* events so far

command == <<op, target, stopped>>
procs == <<state, child, parent, next>>
files == <<supFile, engFile, recorded>>
vars == <<command, procs, termed, files, spent>>

\* A supervisor before a fork, after it, with $child set, in `wait`, in `data
\* update` and in `sleep`; an engine that runs.
Looping == {"head", "forked", "named", "wait", "update", "sleep"}
Running == Looping \cup {"up"}
Dead == {"gone", "clean", "reload", "bad"}
Places == {"unborn"} \cup Running \cup Dead

Supervisors == {p \in Pids : state[p] \in Looping}
Engines == {p \in Pids : state[p] = "up"}

\* kill -0 of what a pid file holds.
Alive(f) == f \in Pids /\ state[f] \in Running

TypeOK ==
  /\ op \in {"idle", "fork", "record", "term", "engine", "unlink"}
  /\ target \in Pids \cup {Nil} /\ (op \in {"record", "term"} <=> target # Nil)
  /\ stopped \in BOOLEAN
  /\ state \in [Pids -> Places]
  /\ child \in [Pids -> Pids \cup {Nil}] /\ parent \in [Pids -> Pids \cup {Nil}]
  /\ next \in 1 .. MaxPid + 1 /\ \A p \in Pids : p >= next <=> state[p] = "unborn"
  /\ termed \subseteq Pids
  /\ supFile \in Pids \cup {Nil, Empty} /\ engFile \in Pids \cup {Nil, Empty}
  /\ recorded \subseteq Pids /\ spent \in [Events -> Nat]

Spend(k) == spent[k] < Budget[k] /\ spent' = [spent EXCEPT ![k] = @ + 1]

-----------------------------------------------------------------------------
\* start.sh

\* Mutation of StartCheck: only asks whether the last engine runs.
StartCheckEngine ==
  /\ op = "idle" /\ Spend("start")
  /\ op' = IF Alive(engFile) THEN "idle" ELSE "fork"
  /\ stopped' = FALSE
  /\ UNCHANGED <<target, procs, termed, files>>

\* Refused while the supervisor of the pid file lives.
StartCheck ==
  /\ op = "idle" /\ Spend("start")
  /\ op' = IF Alive(supFile) THEN "idle" ELSE "fork"
  /\ stopped' = FALSE
  /\ UNCHANGED <<target, procs, termed, files>>

\* run_loop & : the supervisor begins before its number is written.
StartFork ==
  /\ op = "fork" /\ next <= MaxPid
  /\ op' = "record" /\ target' = next
  /\ state' = [state EXCEPT ![next] = "head"] /\ next' = next + 1
  /\ UNCHANGED <<stopped, child, parent, termed, files, spent>>

\* echo $! > supervisor.pid; a write that fails leaves an empty file and ends start.sh.
StartRecord ==
  /\ op = "record" /\ op' = "idle" /\ target' = Nil
  /\ \/ /\ supFile' = target /\ recorded' = recorded \cup {target}
        /\ UNCHANGED spent
     \/ /\ Spend("fault") /\ supFile' = Empty
        /\ UNCHANGED recorded
  /\ UNCHANGED <<stopped, procs, termed, engFile>>

-----------------------------------------------------------------------------
\* stop.sh

\* Mutation of StopBegin: does not ask whether there is a file and a process.
StopBeginBlind ==
  /\ op = "idle" /\ Spend("stop")
  /\ op' = "term" /\ target' = supFile /\ termed' = termed \cup {supFile}
  /\ UNCHANGED <<stopped, procs, files>>

\* stop_pidfile supervisor.pid: SIGTERM when the process lives, else only the file goes.
StopBegin ==
  /\ op = "idle" /\ Spend("stop")
  /\ IF Alive(supFile)
     THEN /\ op' = "term" /\ target' = supFile /\ termed' = termed \cup {supFile}
          /\ UNCHANGED files
     ELSE /\ op' = "engine" /\ supFile' = Nil
          /\ UNCHANGED <<target, termed, engFile, recorded>>
  /\ UNCHANGED <<stopped, procs>>

\* Mutation of StopSupervisor: gives up waiting without SIGKILL.
StopSupervisorGivesUp ==
  /\ op = "term" /\ op' = "engine" /\ target' = Nil
  /\ state[target] \in {"gone", "update"}
  /\ supFile' = Nil
  /\ UNCHANGED <<stopped, procs, termed, engFile, recorded, spent>>

\* It is gone, or is not after five seconds and gets SIGKILL, which runs no trap:
\* only `data update` keeps it longer from its trap than that, `sleep` takes three.
StopSupervisor ==
  /\ op = "term" /\ op' = "engine" /\ target' = Nil
  /\ state[target] \in {"gone", "update"}
  /\ state' = [state EXCEPT ![target] = "gone"]
  /\ supFile' = Nil
  /\ UNCHANGED <<stopped, child, parent, next, termed, engFile, recorded, spent>>

\* stop_pidfile engine.pid; SIGTERM, which an engine does not handle, ends it.
StopEngine ==
  /\ op = "engine" /\ op' = "unlink"
  /\ state' = IF Alive(engFile) THEN [state EXCEPT ![engFile] = "bad"] ELSE state
  /\ UNCHANGED <<target, stopped, child, parent, next, termed, files, spent>>

StopUnlink ==
  /\ op = "unlink" /\ op' = "idle" /\ stopped' = TRUE
  /\ engFile' = Nil
  /\ UNCHANGED <<target, procs, termed, supFile, recorded, spent>>

-----------------------------------------------------------------------------
\* run_loop of supervisor p.  With a signal pending it begins no command.

Move(p, from, to) ==
  /\ state[p] = from /\ p \notin termed
  /\ state' = [state EXCEPT ![p] = to]

\* The engine is started in the background.
Fork(p) ==
  /\ state[p] = "head" /\ p \notin termed /\ next <= MaxPid
  /\ state' = [state EXCEPT ![p] = "forked", ![next] = "up"]
  /\ parent' = [parent EXCEPT ![next] = p]
  /\ next' = next + 1
  /\ UNCHANGED <<command, child, termed, files, spent>>

\* child=$!
Name(p) ==
  /\ Move(p, "forked", "named")
  /\ \E e \in Pids : /\ parent[e] = p /\ \A d \in Pids : parent[d] = p => d <= e
                     /\ child' = [child EXCEPT ![p] = e]
  /\ UNCHANGED <<command, parent, next, termed, files, spent>>

\* echo "$child" > engine.pid; a write that fails ends the supervisor (set -e).
RecordEngine(p) ==
  /\ \/ /\ Move(p, "named", "wait")
        /\ engFile' = child[p] /\ recorded' = recorded \cup {child[p]}
        /\ UNCHANGED spent
     \/ /\ Move(p, "named", "gone") /\ Spend("fault")
        /\ engFile' = Empty /\ UNCHANGED recorded
  /\ UNCHANGED <<command, child, parent, next, termed, supFile>>

\* Mutation of Reap: the code is not told apart.
ReapEnds(p) ==
  /\ child[p] # Nil /\ state[child[p]] \in Dead
  /\ Move(p, "wait", "gone")
  /\ UNCHANGED <<command, child, parent, next, termed, files, spent>>

\* wait "$child": 0 ends the loop, 75 refreshes the snapshot, all else waits and goes round.
Reap(p) ==
  /\ child[p] # Nil /\ state[child[p]] \in Dead
  /\ \/ state[child[p]] = "clean" /\ Move(p, "wait", "gone")
     \/ state[child[p]] = "reload" /\ Move(p, "wait", "update")
     \/ state[child[p]] \in {"bad", "gone"} /\ Move(p, "wait", "sleep")
  /\ UNCHANGED <<command, child, parent, next, termed, files, spent>>

\* A foreground command ends, with a signal pending or not.
Updated(p) ==
  /\ state[p] = "update" /\ state' = [state EXCEPT ![p] = "sleep"]
  /\ UNCHANGED <<command, child, parent, next, termed, files, spent>>

Slept(p) ==
  /\ state[p] = "sleep" /\ state' = [state EXCEPT ![p] = "head"]
  /\ UNCHANGED <<command, child, parent, next, termed, files, spent>>

\* rotate_logs or a line for the log fails: set -e ends the supervisor.
LogFails(p) ==
  /\ Move(p, "head", "gone") \/ (/\ child[p] # Nil /\ state[child[p]] \in Dead
                                 /\ Move(p, "wait", "gone"))
  /\ Spend("fault")
  /\ UNCHANGED <<command, child, parent, next, termed, files>>

\* trap ... TERM: the engine that $child names is ended, then the supervisor.
Trap(p) ==
  /\ p \in termed /\ state[p] \in {"head", "forked", "named", "wait"}
  /\ state' = [q \in Pids |-> IF q = p THEN "gone"
                              ELSE IF q = child[p] /\ state[q] = "up" THEN "bad"
                              ELSE state[q]]
  /\ UNCHANGED <<command, child, parent, next, termed, files, spent>>

-----------------------------------------------------------------------------

\* The engine ends: 0 after Ctrl+C, 75, or an error, a panic or a signal.
EngineDies(e) ==
  /\ state[e] = "up" /\ Spend("death")
  /\ \E code \in {"clean", "reload", "bad"} : state' = [state EXCEPT ![e] = code]
  /\ UNCHANGED <<command, child, parent, next, termed, files>>

Init ==
  /\ op = "idle" /\ target = Nil /\ stopped = FALSE
  /\ state = [p \in Pids |-> "unborn"] /\ next = 1
  /\ child = [p \in Pids |-> Nil] /\ parent = [p \in Pids |-> Nil]
  /\ termed = {} /\ supFile = Nil /\ engFile = Nil /\ recorded = {}
  /\ spent = [k \in Events |-> 0]

Commanding == StartFork \/ StartRecord \/ StopSupervisor \/ StopEngine \/ StopUnlink
Supervise(p) == Fork(p) \/ Name(p) \/ RecordEngine(p) \/ Reap(p) \/ Slept(p) \/ Trap(p)

Next ==
  \/ StartCheck \/ StopBegin \/ Commanding
  \/ \E p \in Pids : Supervise(p) \/ Updated(p) \/ LogFails(p) \/ EngineDies(p)

Spec == Init /\ [][Next]_vars

\* Commands and supervisors go on; a `data update` may hang in its download.
FairSpec ==
  Spec /\ WF_vars(Commanding) /\ \A p \in Pids : WF_vars(Supervise(p))

-----------------------------------------------------------------------------
\* Properties

\* No pid file ever held p, or p is the engine of such a supervisor.
Stray(p) == p \notin recorded \/ (parent[p] # Nil /\ parent[p] \notin recorded)

\* When stop.sh has ended, nothing it could know of runs and nothing is left that
\* would start an engine again: the signal may find the supervisor before or
\* after a fork, in its trap, asleep or in a download (stop.sh:25).
StopIsFinal == stopped => \A p \in Supervisors \cup Engines : Stray(p)

\* Documented: "Stop the supervisor and engine started by start.sh" (stop.sh:2).  Does not
\* hold: a signal between the fork and `child=$!` (start.sh:52) ends a supervisor that is
\* in its pid file, and the engine it has just started is in none and in no variable.
StopEndsEngine == stopped => \A e \in Engines : parent[e] \notin recorded

\* Of two supervisors or two engines at work at least one was never in a pid file:
\* however commands, crashes and restarts follow each other, start.sh's check and
\* the loop keep one of each (start.sh:33).
OneOfEach ==
  \A p, q \in Pids :
    p # q /\ ({p, q} \subseteq Supervisors \/ {p, q} \subseteq Engines)
      => Stray(p) \/ Stray(q)

\* Whether p's engine ended although nobody meant it to end.
Lost(p) == state[p] = "wait" /\ child[p] # Nil /\ state[child[p]] \in {"bad", "reload"}

\* An engine that ended by itself, with 75 or by a signal is followed by another
\* that gets into engine.pid, however often; but for a stop, a write that failed
\* and a `data update` that hangs (start.sh:61, :64, :68).
KeptUp ==
  \A p \in Pids :
    Lost(p) ~> \/ state[p] = "wait" /\ ~Lost(p)
               \/ state[p] = "update" \/ p \in termed \/ spent["fault"] > 0

=============================================================================
