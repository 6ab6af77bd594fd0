SPECIFICATION Spec
CONSTANTS
  LongMax = 7
  IntMax = 7
  ValueSize = 2
  PtrSize = 2
  TypeSizes = {1, 4}
  Obj = {o1, o2, o3}
  Counts = {2, 3}
  Offsets <- MCOffsets
  Pad = 1
  EmbedMax = 2
  Storages = 2
  Freer = {t1, t2}
  View = {v1, v2}
  Str = {s1, s2}
  Mem = {m1, m2}
  Val = {p1, p2}
  Field = {f1}
  Putter = {u1}
  NoObj = NoObj
  Null = Null
  NoRefs = NoRefs
  Nil = Nil
SYMMETRY ObjectSymmetry
INVARIANTS TypeOK StorageOwned ViewsBacked AccessesInBounds ReleasedOnce CollectedReleased ReferencesKeepPointees
CHECK_DEADLOCK FALSE
