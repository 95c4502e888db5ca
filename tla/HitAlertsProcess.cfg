\* The ack as a process of its own, which LOCK does not keep out, and every kind of trouble: safety, and progress under fairness.
CONSTANTS
  Hits = {h1}
  Workers = {w1}
  Reporter = Reporter
  Acker = Acker
  Nil = Nil
  Torn = Torn
  RepeatSecs = 1
  RepeatMax = 0
  NotifyEnabled = TRUE
  AckInProcess = FALSE
  MaxClock = 1
  Budget <- ProcessBudget
SPECIFICATION FairSpec
INVARIANTS TypeOK FindingBeforeAlert SentNeverOverstates
PROPERTIES DueIsAlerted SavedIsAlerted
