CONSTANTS
  Lwps = {l1, l2}
  Start = {l1, l2}
SPECIFICATION Spec
INVARIANT CoreNeverPanics
CHECK_DEADLOCK FALSE
