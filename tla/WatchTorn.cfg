\* One snapshot written over by another while it is scanned, nothing else goes wrong.
CONSTANTS
  a1 = a1
  a2 = a2
  Addresses = {a1, a2}
  Lists <- WatchLists
  Files <- Emptied
  Endpoints <- Hooks
  MaxWrites = 1
  MaxFaults = 0
  Header = Header
  Junk = Junk
  Missing = Missing
SPECIFICATION Spec
INVARIANTS ChangeIsReal
