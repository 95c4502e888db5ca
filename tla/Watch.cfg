\* Two addresses, two snapshots and no snapshot, two changes, one failure.
CONSTANTS
  a1 = a1
  a2 = a2
  Addresses = {a1, a2}
  Lists <- WatchLists
  Files <- Snapshots
  Endpoints <- Hooks
  MaxWrites = 2
  MaxFaults = 1
  Header = Header
  Junk = Junk
  Missing = Missing
SPECIFICATION FairSpec
INVARIANTS TypeOK ChangesAddUp
PROPERTIES FundedIsTold LossIsTold
