SPECIFICATION Service
CONSTANTS
  Users = {alice}
  Browsers = {b1}
  Flows = {f1, f2}
  Callbacks = {c1, c2}
  Queries = {q1}
  None = None
  TicksPerSecond = 2
  SessionTTL = 2
  AccessTTL = 1
  MaxTime = 4
  MaxRevocations = 1
  Requests = {r1, r2}
  UserChunks <- MCUserChunks
  LawChunks <- MCLawChunks
  Owners = {"alice"}
  Spokes = {"General", "Legal"}
  Jurisdictions = {"us-nv"}
  Verdicts = {"none", "insufficient"}
  UserTopK = 2
  LawTopK = 1
  Attempts = 2
  MaxFaults = 1
  Clients = {k1, k2}
  Capacity = 2
  TicksPerToken = 2
  MaxBuckets = 1
  MaxClock = 5
SYMMETRY Interchangeable
CONSTRAINT Bounded
CHECK_DEADLOCK FALSE
INVARIANTS
  RateCapped
  EntitlementWasHeld
  NoOpinionOnLaw
  CitationsNameTheirSource
  ReadyMeansIndexed
PROPERTIES
  RevocationIsFinal
  RefusedOnlyAround
  RevokedStaysRevoked
