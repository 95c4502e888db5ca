\* A notice still on the channel queues an acked hit again.
CONSTANTS
  Hits = {h1}
  Workers = {w1}
  Reporter = Reporter
  Acker = Acker
  Nil = Nil
  Torn = Torn
  RepeatSecs = 1
  RepeatMax = 0
  NotifyEnabled = TRUE
  AckInProcess = TRUE
  MaxClock = 2
  Budget <- AckBudget
SPECIFICATION Spec
PROPERTIES AckedStaysAcked
