\* Two tasks that compete for the one slot of the host: an attempt may be taken
\* while the daemon still has an earlier one. The daemon crashes twice; every call
\* is answered (calls on their way are HostLiveness.cfg's).
SPECIFICATION HostSpec
CONSTANTS
  Tasks = {t1, t2}
  Hosts = {h1}
  NoHost = NoHost
  External = {}
  Dispatched = {t1, t2}
  MaxAttempts = 1
  Slots = 1
  LeaseTTL = 1
  Grace = 1
  Host = h1
  NoOne = NoOne
  MaxCrashes = 2
  MaxOnItsWay = 0
SYMMETRY TaskSymmetry
INVARIANTS HostTypeOK NoneRunsUnrecorded NothingBeside SlotsHold
CHECK_DEADLOCK FALSE
