SPECIFICATION Spec
CONSTANTS
  Func = {f1, f2}
  FType = {t1}
  Proc = {p1}
  Name = {n1}
  Thread = {th1}
  Slots = {s1}
  Handles = {h1, h2}
  Default = Default
  None = None
INVARIANTS StashProtectsMethods
CHECK_DEADLOCK FALSE
