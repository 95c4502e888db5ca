\* Two workers, the reporter and an ack called by a thread of the engine: LOCK keeps everyone apart.
CONSTANTS
  Hits = {h1, h2}
  Workers = {w1, w2}
  Reporter = Reporter
  Acker = Acker
  Nil = Nil
  Torn = Torn
  RepeatSecs = 1
  RepeatMax = 2
  NotifyEnabled = TRUE
  AckInProcess = TRUE
  MaxClock = 1
  Budget <- ThreadBudget
SPECIFICATION Spec
SYMMETRY Symmetry
PROPERTIES KeepsPromise QueueOnlyGrows
INVARIANTS AlertsAccountedFor
