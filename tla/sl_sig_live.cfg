CONSTANTS
  Lwps = {l1, l2}
  Intrs = {i1}
  Nobody = Nobody
  NOPID = NOPID
  SL_BUSY = SL_BUSY
  Ops = {"lock", "lock_sig"}
  Proc <- MCProc
  WaitProcs <- MCWaitProcs
  Family = {}
  CatchWaiting = FALSE
  MaxCalls = 3
  MaxSigs = 2
SPECIFICATION FairSpec
INVARIANTS NobodyStranded
PROPERTIES ImplementsLock EveryCallReturns
