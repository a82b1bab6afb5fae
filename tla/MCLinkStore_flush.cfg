SPECIFICATION FairSpec

CONSTANTS
  u1 = u1
  u2 = u2
  t1 = t1
  t2 = t2
  None = None
  Uuids <- OneUuid
  DefaultUuid = u1
  Tokens <- OneToken
  MaxLimit = 2
  MaxUsed = 3
  ChargeSizes = {1, 2}
  Patches <- SomePatches
  TopUps <- UpAndDown
  Selections <- JustOne
  Backups <- NoBackups
  DbErrors = TRUE

INVARIANT
  LedgerExact

PROPERTY
  UsageBecomesDurable
