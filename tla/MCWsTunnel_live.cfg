\* One tunnel of a link whose quota is set and lifted, under fairness.
CONSTANTS
  None = None
  Unknown = Unknown
  Tunnels = {t1}
  Ips = {i1}
  Headers <- SmallHeaders
  Sizes = {1}
  MaxChunk = 2
  Limits = {0, 1}
  IpLimits = {0, 1}
  Usages = {0}
  Pruning = TRUE
  Horizon = 3
SPECIFICATION FairSpec
INVARIANT
  QuotaOvershoot
PROPERTY
  TunnelsSettle
