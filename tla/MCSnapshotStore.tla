-------------------------- MODULE MCSnapshotStore ---------------------------
(***************************************************************************)
(* Small instances of SnapshotStore for TLC.                               *)
(***************************************************************************)
EXTENDS SnapshotStore

CONSTANTS k1, k2

PickledKeys == {k1}

\* auto_update without a timer, whatever is on disk at first.
AutoSites ==
  {s \in Site : s.auto /\ ~s.timer /\ (s.found # "none" \/ s.pickles)}

\* A timer, or an operator, runs `data update` instead; the snapshot is current.
TimerSites == {s \in Site : ~s.auto /\ s.timer /\ s.found = "plh2"}

DocumentedSites == AutoSites \cup TimerSites

\* The same with a snapshot the engine converts as it starts.
ConvertingSites == {s \in Site : ~s.auto /\ s.timer /\ s.found = "rebloom" /\ ~s.pickles}

\* How often each event happens in a run.
Happening(fault, crash, old, update) ==
  [k \in Events |-> CASE k = "fault" -> fault [] k = "crash" -> crash
                      [] k = "old" -> old [] k = "update" -> update]
StoreBudget == Happening(1, 1, 2, 2)
ClashBudget == Happening(0, 0, 0, 1)

=============================================================================
