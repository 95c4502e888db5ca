\* The documented deployments, with crashes and I/O errors.
CONSTANTS
  k1 = k1
  k2 = k2
  Keys = {k1, k2}
  Engine = Engine
  Updaters = {u1}
  Inodes = {i1, i2, i3, i4}
  ChunkCap = 1
  Pickles <- PickledKeys
  Sites <- DocumentedSites
  Budget <- StoreBudget
  Nil = Nil
  Torn = Torn
SPECIFICATION FairSpec
INVARIANTS TypeOK SnapshotWhole LookupCoherent OneDump
PROPERTIES ImportIsAtomic EngineReturns
