SPECIFICATION FairSpec
CONSTANTS
  Drafts = {d1}
  Calls = {c1, c2, c3, c4}
  Fields = {f1, f2}
  MaxFaults = 1
  None = None
INVARIANTS
  TypeOK
  OneDocumentPerDraft
  NoConfirmedFieldIsLost
  DeletedDraftsStayUndocumented
  
PROPERTY FinalizeSettles
CHECK_DEADLOCK FALSE
