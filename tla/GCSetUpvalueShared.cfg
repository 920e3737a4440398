CONSTANTS
  Nil = Nil
  main = main
  t1 = t1
  t2 = t2
  t3 = t3
  f1 = f1
  f2 = f2
  n1 = n1
  u1 = u1
  u2 = u2
  s1 = s1
  s2 = s2
  p1 = p1
  p2 = p2
  c1 = c1
  Table = {t1}
  Closure = {f1,f2}
  NativeClosure = {}
  Udata = {}
  UpVal = {u1}
  Str = {s1}
  FixedStr = {}
  Thread = {main}
  MainThread = main
  Registry = t1
  Globals = t1
  Slot = {1, 2}
  ArrayKey = {}
  FieldKey = {"field"}
  BasicType = {}
  MaxEntry = 1
  NBucket = 1
  Metafields <- MCNoFields
  Bucket <- MCBucket
  Ops = {"debug.setupvalue"}
SPECIFICATION Spec
INVARIANTS
  MemorySafe
