SPECIFICATION FairSpec
CONSTANTS
  Drafts = {d1}
  Calls = {c1, c2}
  Fields = {f1}
  MaxFaults = 1
  None = None
PROPERTY PendingEndsInADocument
CHECK_DEADLOCK FALSE
