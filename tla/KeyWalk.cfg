\* Two workers, batches of three keys in groups of two, spans of one and of two batches.
CONSTANTS
  Workers = {w1, w2}
  Batch = 3
  Lanes = 2
  Spans = {3, 4}
  Starts = {1, 3}
  Funded <- FundedKeys
  MaxBegun = 2
  MaxTrouble = 1
  Nil = Nil
SPECIFICATION Spec
SYMMETRY Symmetry
INVARIANTS TypeOK SavedIsFunded NothingPassedOver RecordsApart
