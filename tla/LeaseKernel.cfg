\* Two hosts of which nothing is assumed, a task of two attempts, and a task
\* only the controller and the Owner move, on whose card the mission is closed;
\* time and the controller's loops are fair.
SPECIFICATION FairSpec
CONSTANTS
  Tasks = {t1, t2}
  Hosts = {h1, h2}
  NoHost = NoHost
  External = {}
  Dispatched = {t1}
  MaxAttempts = 2
  Slots = 1
  LeaseTTL = 1
  Grace = 2
INVARIANTS TypeOK LiveMatchesTask FreshEpochs HandedOver SalvageClosesLease
PROPERTIES NoLateWork ImplementsFencedWork ClosedMissionEmpties
CHECK_DEADLOCK FALSE
