CONSTANTS
  Lwps = {l1, l2}
  Intrs = {i1}
  Nobody = Nobody
  NOPID = NOPID
  SL_BUSY = SL_BUSY
  Ops = {"lock_sig", "lock"}
  Proc <- MCProc
  WaitProcs <- MCWaitProcs
  Family = {l1, l2}
  CatchWaiting = FALSE
  MaxCalls = 2
  MaxSigs = 0
SPECIFICATION Spec
INVARIANTS AcquireOwnsMutex
