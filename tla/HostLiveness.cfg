\* One external task, one attempt of it; the daemon crashes twice, two calls are
\* on their way at once; the daemon, time and the controller's loops are fair.
SPECIFICATION FairHostSpec
CONSTANTS
  Tasks = {t1}
  Hosts = {h1}
  NoHost = NoHost
  External = {t1}
  Dispatched = {t1}
  MaxAttempts = 1
  Slots = 1
  LeaseTTL = 1
  Grace = 2
  Host = h1
  NoOne = NoOne
  MaxCrashes = 2
  MaxOnItsWay = 2
INVARIANTS SubmittedStays JournalNotAhead
PROPERTIES ExternalNotRedispatched EveryLeaseEnds JournalSettles
CHECK_DEADLOCK FALSE
