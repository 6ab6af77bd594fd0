SPECIFICATION Spec
CONSTANTS
  Frame = {f1, f2, f3}
  Exception = {e1, e2}
  Errno = {ok}
  None = None
  MaxDepth = 6
  MaxThrows = 1
SYMMETRY AddressSymmetry
INVARIANTS TypeOK CurrentIsInnermost CallsRaiseTheirOwn DamageIsLocal
