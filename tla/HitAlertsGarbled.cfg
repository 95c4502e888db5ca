\* The engine and the ack process fill one temporary file.
CONSTANTS
  Hits = {h1}
  Workers = {w1}
  Reporter = Reporter
  Acker = Acker
  Nil = Nil
  Torn = Torn
  RepeatSecs = 1
  RepeatMax = 0
  NotifyEnabled = TRUE
  AckInProcess = FALSE
  MaxClock = 1
  Budget <- AckBudget
SPECIFICATION Spec
INVARIANTS QueueReadable
