CONSTANTS
  t1 = t1
  t2 = t2
  d1 = d1
  d2 = d2
  d3 = d3
  th1 = th1
  Threads = {th1}
  Turns = {t1, t2}
  Deliveries = {d1, d2, d3}
  Runs = {r1, r2}
  Patchers = {p1}
  ThreadOf <- OneThread
  Start <- Requests
  NoTurn = NoTurn
  NoRun = NoRun
  Served = {d1}
  Compaction = Compaction
  NoDelivery = NoDelivery
  MaxRestarts = 0
SPECIFICATION PatchedSpec
SYMMETRY AnyRun
INVARIANTS OneActiveTurn
CHECK_DEADLOCK FALSE
