\* One attempt of one host, past its grace before the lease loop comes.
SPECIFICATION Spec
CONSTANTS
  Tasks = {t1}
  Hosts = {h1}
  NoHost = NoHost
  External = {}
  Dispatched = {t1}
  MaxAttempts = 1
  Slots = 1
  LeaseTTL = 1
  Grace = 1
PROPERTIES SalvagedLeaseIsLost
CHECK_DEADLOCK FALSE
