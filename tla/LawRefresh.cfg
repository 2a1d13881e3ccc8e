SPECIFICATION Spec
CONSTANTS
  s1 = s1
  s2 = s2
  p1 = p1
  p2 = p2
  p3 = p3
  p4 = p4
  old = old
  new = new
  Sections = {s1, s2}
  Texts = {old, new}
  Pages = {p1, p2, p3, p4}
  Text <- Published
  here = here
  there = there
  Places = {here, there}
  Place <- Standing
  Embedders = {fake, real}
  MaxRefreshes = 5
  MaxFaults = 2
  None = None
INVARIANTS
  TypeOK
  LedgerDescribesVectors
  IndexedVersionHasItsLedger
  OneEmbeddingSpace
  StandingLawStaysSearchable
