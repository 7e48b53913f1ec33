SPECIFICATION FairSpec
CONSTANTS
  Proc = {p1, p2}
  Inode = {i1, i2}
  Macro = {1, 2}
  Subject = {27, 72, 87}
  SubjectsBy <- MCSubjectsBy
  Unknown = unknown
  NoRegion = NoRegion
  Date <- MCDate
  None = None
INVARIANTS LifespanTypeOK OneInstance ClosedBeforeRelease SchemaIsLatest
PROPERTIES ExpiryEnds
