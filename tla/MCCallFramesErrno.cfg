SPECIFICATION Spec
CONSTANTS
  Frame = {f1}
  Exception = {e1}
  Errno = {ok, failed}
  None = None
  MaxDepth = 1
  MaxThrows = 0
INVARIANTS ErrorReadsBack
