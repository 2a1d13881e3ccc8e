SPECIFICATION Spec
CONSTANTS
  Uploads = {u1, u2}
  Moves = {m1, m2}
  Workers = {w1}
  Files <- MCFiles
  Declared <- MCDeclared
  Spokes = {General, Legal}
  General = General
  Archives <- SomeArchives
  Texts <- SomeTexts
  Statutes <- SomeStatutes
  Libraries <- SomeLibraries
  Filters <- SomeFilters
  None = None
  MaxLimit = 3
  TargetMin = 8
  TargetMax = 8
  Overlap = 2
  MaxUploadSize = 2
  MaxEntries = 4
  MaxEntrySize = 2
  MaxTotalSize = 3
  MaxAttempts = 2
  RetryAttempts = 2
  MaxDocs = 3
  MaxDeletes = 1
  MaxFaults = 2
SYMMETRY Interchangeable
CONSTRAINT Bounded
CHECK_DEADLOCK FALSE
INVARIANTS
  FanoutIdempotent
  UnpackedIsComplete
  FiledWhereShown
  ArchivesExtract
  ChunksCoverText
  ChunksStayNearTarget
  StatutesAreQuotedWhole
  PagesListTheLibrary
