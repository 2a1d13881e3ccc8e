SPECIFICATION FairSpec
CONSTANTS
  d1 = d1
  d2 = d2
  Docs = {d1}
  Checksum <- OwnBytes
  Requests = {r1, r2}
  Workers = {w1, w2}
  NumChunks = 2
  MaxAttempts = 2
  DraftDocs = {}
  MaxCrashes = 1
  MaxFaults = 1
  None = None
INVARIANTS
  TypeOK
  ExclusiveClaim
  NothingSurvivesErasure
  NoForgottenTombstone
  AttemptsCapped
PROPERTIES
  DeletionSettles
  FinishedJobsStayFinished
  ImplementsView
