CONSTANTS
  str = str
  v1 = v1
  r1 = r1
  r2 = r2
  Nil = Nil
  Idle = Idle
  StringKey = {str}
  UsedKey <- MCUsed
  Value = {v1}
  Referent = {r1,r2}
  MAX_INT = 5
  MAXBITS = 3
  Hashes <- MCHashes
  ArraySizes = {0,2}
  HashSizes = {0,4}
  Lists = {3}
  MaxRef = 2
SPECIFICATION Spec
INVARIANTS
  RegistryTypeOK
  NextAcceptsItsKeys
  CollidingInMainPosition
  LengthIsBorder
  RehashFits
  ReferencesHold
  ArrayHalfUsed
  StoreChangesOne

  
