\* The pruning loop against a tunnel that is moving a chunk.
CONSTANTS
  None = None
  Unknown = Unknown
  Tunnels = {t1}
  Ips = {i1}
  Headers <- OneHeader
  Sizes = {1}
  MaxChunk = 2
  Limits = {0}
  IpLimits = {0}
  Usages = {0}
  Pruning = TRUE
  Horizon = 2
SPECIFICATION Spec
PROPERTY
  PruneSparesTraffic
