SPECIFICATION Spec
CONSTANTS
  Uploads = {u1}
  Moves = {m1}
  Workers = {w1}
  Files <- OnePdf
  Declared <- MCDeclared
  Spokes = {General, Legal}
  General = General
  Archives = {}
  Texts = {}
  Statutes = {}
  Libraries = {}
  Filters = {}
  None = None
  MaxLimit = 1
  TargetMin = 8
  TargetMax = 8
  Overlap = 2
  MaxUploadSize = 2
  MaxEntries = 4
  MaxEntrySize = 2
  MaxTotalSize = 3
  MaxAttempts = 2
  RetryAttempts = 2
  MaxDocs = 1
  MaxDeletes = 0
  MaxFaults = 0
CHECK_DEADLOCK FALSE
INVARIANTS
  InFlightJobsFollowMoves
