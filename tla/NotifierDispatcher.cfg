SPECIFICATION FairSpec
CONSTANTS
  Lot = {l1}
  Recipient = {r1}
  Local = local
  MaxTotalAttempts = 3
  RetryAttempts = 2
  QueueSize = 1
  MaxFailures = 1
  NoLot = NoLot
  NoSlot = NoSlot
INVARIANTS CallsCapped DuplicatesNeedFailures
PROPERTIES VerdictsAreTrue ImplementsStateMachine PendingIsResolved QueuedLotIsServed
