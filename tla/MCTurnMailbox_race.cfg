CONSTANTS
  Messages = {m1}
  Deliveries = {d1, d2}
  Turns = {t1}
  Clients = {c1, c2}
  Texts = {x1, x2}
  NoReceipt = NoReceipt
  NoTurn = NoTurn
  MaxRev = 2
  MaxEntries = 2
  MaxAttempts = 2
SPECIFICATION CalmSpec
SYMMETRY Symmetry
INVARIANTS CarriedOnce CarriesShownText
PROPERTY KeepsPromise
CHECK_DEADLOCK FALSE
