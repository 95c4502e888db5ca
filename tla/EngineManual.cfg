\* The supervisor around an engine without auto_update.
\* The process may end for good.
CHECK_DEADLOCK FALSE
CONSTANTS
  Workers = {w1}
  Block = 2
  AutoUpdates = {FALSE}
  MaxBatches = 2
  Budget <- ManualBudget
  Nil = Nil
SPECIFICATION FairSpec
PROPERTIES StaleIsRefreshed
