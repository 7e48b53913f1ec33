SPECIFICATION Spec
CONSTANTS
  Lot = {1, 2, 3, 4}
  PerPage = 1
  PageLimit = 3
  BatchSize = 2
  MaxChanges = 2
  MaxFaults = 1
PROPERTIES PartialWalkNeverMarks
CHECK_DEADLOCK FALSE
