---------------------------- MODULE MCEngineRun -----------------------------
(***************************************************************************)
(* Small instances of EngineRun for TLC.                                   *)
(***************************************************************************)
EXTENDS EngineRun

\* How often each event happens in a run.
Happening(fault, interrupt, kill, age, stop) ==
  [k \in Events |-> CASE k = "fault" -> fault [] k = "interrupt" -> interrupt
                      [] k = "kill" -> kill [] k = "age" -> age [] k = "stop" -> stop]
RunBudget == Happening(1, 1, 1, 1, 1)
ManualBudget == Happening(0, 0, 0, 1, 0)

=============================================================================
