CONSTANTS
  Messages = {m1, m2}
  Deliveries = {d1}
  Turns = {t1}
  Clients = {c1}
  Texts = {x1}
  NoReceipt = NoReceipt
  NoTurn = NoTurn
  MaxRev = 1
  MaxEntries = 2
  MaxAttempts = 2
SPECIFICATION Spec
SYMMETRY Symmetry
INVARIANTS TypeOK CarriedOnce AcknowledgedIsRecorded
PROPERTIES RecoveryReturnsAll KeepsPromise
CHECK_DEADLOCK FALSE
