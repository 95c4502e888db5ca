\* The ack process saves a queue older than the hit it drops.
CONSTANTS
  Hits = {h1, h2}
  Workers = {w1}
  Reporter = Reporter
  Acker = Acker
  Nil = Nil
  Torn = Torn
  RepeatSecs = 1
  RepeatMax = 0
  NotifyEnabled = TRUE
  AckInProcess = FALSE
  MaxClock = 1
  Budget <- AckBudget
SPECIFICATION Spec
PROPERTIES LaterHitKept
