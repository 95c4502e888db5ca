---------------------------- MODULE MCHitAlerts ----------------------------
(***************************************************************************)
(* Small instances of HitAlerts for TLC.                                   *)
(***************************************************************************)
EXTENDS HitAlerts, TLC

\* How often each kind of trouble happens in a run, and all together.
Spending(fault, miss, close, crash, ack, kill, any) ==
  [k \in Troubles |->
     CASE k = "fault" -> fault [] k = "miss" -> miss [] k = "close" -> close
       [] k = "crash" -> crash [] k = "ack" -> ack [] k = "kill" -> kill
       [] k = "any" -> any]

ThreadBudget == Spending(1, 1, 1, 1, 2, 0, 2)
ProcessBudget == Spending(1, 1, 1, 1, 1, 1, 2)
AckBudget == Spending(0, 0, 0, 0, 1, 0, 1)
CrashBudget == Spending(0, 0, 0, 1, 0, 0, 1)

Symmetry == Permutations(Hits) \cup Permutations(Workers)

=============================================================================
