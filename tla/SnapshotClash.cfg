\* `data update` while the engine converts the snapshot it found.
CONSTANTS
  k1 = k1
  k2 = k2
  Keys = {k1, k2}
  Engine = Engine
  Updaters = {u1}
  Inodes = {i1, i2, i3, i4}
  ChunkCap = 1
  Pickles <- PickledKeys
  Sites <- ConvertingSites
  Budget <- ClashBudget
  Nil = Nil
  Torn = Torn
SPECIFICATION Spec
INVARIANTS SnapshotWhole
