\* Ticks of a minute: LEASE_MS and HEARTBEAT_MS as they are, a lag of a minute, one lost heartbeat.
SPECIFICATION Spec
CONSTANTS
  Caller = {c1, c2, c3}
  NoOwner = NoOwner
  Lease = 15
  Heartbeat = 5
  MaxLag = 1
  MaxLost = 1
INVARIANTS
  TypeOK
  RunningIsVisible
  HoldersCovered
PROPERTIES
  ImplementsExclusiveRun
  LiveLeaseOnlyReleased
  OrphanExpires
