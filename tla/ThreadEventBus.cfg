SPECIFICATION Spec
CONSTANTS
  Publisher = {p1, p2}
  Tab = {t1}
  NormalType = {status, login}
  TransientType = {login}
  CriticalType = {smtp}
  QueueSize = 2
  MaxPublished = 2
  None = None
INVARIANTS InOrderOnce AddressedIsAccounted
SYMMETRY Symmetry
CHECK_DEADLOCK FALSE
