SPECIFICATION Spec
CONSTANTS
  d1 = d1
  d2 = d2
  Docs = {d1}
  Checksum <- OwnBytes
  Requests = {r1}
  Workers = {w1}
  NumChunks = 2
  MaxAttempts = 2
  DraftDocs = {d1}
  MaxCrashes = 0
  MaxFaults = 0
  None = None
PROPERTY JobsNeverKillTheWorker
