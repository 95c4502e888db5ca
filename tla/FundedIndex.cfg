\* Imports of up to four records in chunks of two, restarts with another configuration,
\* every lookup.
CONSTANTS
  Hashes <- MCHashes
  W = 65536
  Mix <- MCMix
  Buckets <- MCBuckets
  BucketSize = 3
  Sort <- MCSort
  ChunkCap = 2
  MaxRows = 4
  MaxImports = 1
  Files <- MCFiles
  Envs <- MCEnvs
  OldSets <- MCOldSets
  Pickles = {TRUE}
  Nil = Nil
SPECIFICATION Spec
INVARIANTS TypeOK SearchExact MergeLosesNothing Settled Usable
PROPERTIES ServesASet LoopsAdvance
