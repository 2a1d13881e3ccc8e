SPECIFICATION FairSpec
CONSTANTS
  d1 = d1
  d2 = d2
  Docs = {d1, d2}
  Checksum <- SameBytes
  Requests = {r1}
  Workers = {w1}
  NumChunks = 2
  MaxAttempts = 2
  DraftDocs = {d2}
  MaxCrashes = 1
  MaxFaults = 1
  None = None
INVARIANTS
  IndexedIsComplete
  OnlyDeathStrands
PROPERTIES
  IngestionSettles
