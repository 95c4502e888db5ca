\* The engine is killed between a hit's key and its place in the queue.
CONSTANTS
  Hits = {h1}
  Workers = {w1}
  Reporter = Reporter
  Acker = Acker
  Nil = Nil
  Torn = Torn
  RepeatSecs = 1
  RepeatMax = 0
  NotifyEnabled = TRUE
  AckInProcess = TRUE
  MaxClock = 1
  Budget <- CrashBudget
SPECIFICATION FairSpec
PROPERTIES HitIsAlerted
