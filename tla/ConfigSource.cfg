SPECIFICATION FairSpec
CONSTANTS
  Macro = {1, 2}
  Subject = {14, 51, 87}
  SubjectsOf <- Catalog
  Rest = {a}
  DefaultRest = a
  Torn = torn
  Saver = {p1}
  Timer = {t1, t2}
  MaxChanges = 2
  None = None
INVARIANTS SettledIsCurrent SerialDiffsKeepRows
PROPERTIES EditIsPickedUp
CHECK_DEADLOCK FALSE
