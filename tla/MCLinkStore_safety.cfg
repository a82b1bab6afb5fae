SPECIFICATION Spec

CONSTANTS
  u1 = u1
  u2 = u2
  t1 = t1
  t2 = t2
  None = None
  Uuids <- TwoUuids
  DefaultUuid = u1
  Tokens <- TwoTokens
  MaxLimit = 1
  MaxUsed = 1
  ChargeSizes = {1}
  Patches <- SomePatches
  TopUps = {1}
  Selections <- BothUuids
  Backups <- ClashingBackup
  DbErrors = TRUE

INVARIANTS
  TypeOK
  CacheMatchesRows
  TokenIndexExact
  LedgerExact

PROPERTY
  ImplementsAtomicStore
