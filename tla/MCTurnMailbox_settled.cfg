CONSTANTS
  Messages = {m1}
  Deliveries = {d1}
  Turns = {t1}
  Clients = {c1}
  Texts = {x1}
  NoReceipt = NoReceipt
  NoTurn = NoTurn
  MaxRev = 1
  MaxEntries = 2
  MaxAttempts = 1
SPECIFICATION FairSpec
PROPERTY AcceptedIsSettled
CHECK_DEADLOCK FALSE
