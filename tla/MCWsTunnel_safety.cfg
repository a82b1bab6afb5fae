\* Two tunnels from two addresses, a quota of two units, device limits of
\* none and one, tunnels that live long enough to be pruned.
CONSTANTS
  None = None
  Unknown = Unknown
  Tunnels = {t1, t2}
  Ips = {i1, i2}
  Headers <- OneHeader
  Sizes = {2}
  MaxChunk = 2
  Limits = {2}
  IpLimits = {0, 1}
  Usages = {0, 3}
  Pruning = TRUE
  Horizon = 3
SPECIFICATION Spec
SYMMETRY Interchangeable
INVARIANTS
  TypeOK
  RegistryExact
  QuotaOvershoot
  CutBound
PROPERTY
  DeviceLimitAtAdmission
