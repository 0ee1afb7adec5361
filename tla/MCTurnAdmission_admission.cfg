CONSTANTS
  t1 = t1
  t2 = t2
  d1 = d1
  d2 = d2
  d3 = d3
  th1 = th1
  Threads = {th1}
  Turns = {t1}
  Deliveries = {d1, d3}
  Runs = {r1, r2}
  Patchers = {}
  ThreadOf <- OneThread
  Start <- Requests
  NoTurn = NoTurn
  NoRun = NoRun
  Served = {}
  Compaction = Compaction
  NoDelivery = NoDelivery
  MaxRestarts = 1
SPECIFICATION Spec
SYMMETRY AnyRun
INVARIANTS TypeOK ReservationOwned ClaimIsLive StreamIsOfTheRun AcknowledgedStartIsRecorded
CHECK_DEADLOCK FALSE
