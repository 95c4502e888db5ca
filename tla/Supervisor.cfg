\* Starts, stops, dying engines and a failed write, one command at a time.
CONSTANTS
  MaxPid = 6
  Nil = Nil
  Empty = Empty
  Budget <- Trouble
SPECIFICATION FairSpec
INVARIANTS TypeOK StopIsFinal OneOfEach
PROPERTIES KeptUp
CHECK_DEADLOCK FALSE
