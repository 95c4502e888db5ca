\* Two workers, with and without auto_update, every event.
\* The process may end for good.
CHECK_DEADLOCK FALSE
CONSTANTS
  Workers = {w1, w2}
  Block = 2
  AutoUpdates = {TRUE, FALSE}
  MaxBatches = 5
  Budget <- RunBudget
  Nil = Nil
SPECIFICATION FairSpec
INVARIANTS TypeOK CountsAddUp LastReportLag OneRound
PROPERTIES HaltEnds StaleIsSeen
