SPECIFICATION Spec
CONSTANTS
  Func = {f1, f2}
  FType = {t1}
  Proc = {p1}
  Name = {}
  Thread = {th1, th2}
  Slots = {s1, s2}
  Handles = {}
  Default = Default
  None = None
PROPERTIES CacheNeverOverwritten
CHECK_DEADLOCK FALSE
