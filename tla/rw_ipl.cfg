CONSTANTS
  Lwps = {l1, l2}
  Intrs = {}
  Nobody = Nobody
  Ops = {"wrlock_rellock"}
  MaxCalls = 2
SPECIFICATION Spec
SYMMETRY Symmetry
INVARIANT EntryLockMasked
