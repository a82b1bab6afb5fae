CONSTANTS
  None = None
  Unknown = Unknown
  Streams = {"s", "t"}
  Packets = {p1}
  SessionIds = {"a", "b", "c"}
  ConnOf <- SmallConnOf
  Ips = {"i", "j"}
  Headers <- SmallHeaders
  FirstSizes = {24, 27, 38}
  IpLimits = {1}
  QueueMax = 2
  Loads <- SmallLoads
SPECIFICATION FairSpec
INVARIANTS
  TypeOK
  SessionExact
  RegistryExact
  BilledIsDelivered
  WasteBound
  CutBound
  QuotaOvershoot
  HeaderSplit
PROPERTY
  DeviceLimitAtAdmission
  LeavingCloses
CHECK_DEADLOCK FALSE
