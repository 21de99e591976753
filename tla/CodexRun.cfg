CONSTANTS
  Wrapper = {c1, c2}
  Free = Free
  Names = 2
SPECIFICATION Spec
INVARIANT NoTraceback
CHECK_DEADLOCK FALSE
