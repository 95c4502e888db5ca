---------------------------- MODULE MCSupervisor ---------------------------
(***************************************************************************)
(* A small instance of Supervisor for TLC.                                  *)
(***************************************************************************)
EXTENDS Supervisor

Spending(start, stop, death, fault) ==
  [k \in Events |-> CASE k = "start" -> start [] k = "stop" -> stop
                      [] k = "death" -> death [] k = "fault" -> fault]

\* Two starts make two supervisors, and with two deaths and a stop four engines.
Trouble == Spending(2, 2, 2, 1)

Once == Spending(1, 1, 0, 0)

=============================================================================
