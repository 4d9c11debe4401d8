CONSTANTS
  Lwps = {l1, l2, l3}
  Intrs = {i1}
  Nobody = Nobody
  NOPID = NOPID
  SL_BUSY = SL_BUSY
  Ops = {"lock", "lock_sig", "exit"}
  Proc <- MCProc
  WaitProcs <- MCWaitProcs
  Family = {l1, l2, l3}
  CatchWaiting = TRUE
  MaxCalls = 3
  MaxSigs = 1
SPECIFICATION Spec
SYMMETRY Symmetry
INVARIANTS NiblkedBalanced OneWaker
CHECK_DEADLOCK FALSE
