CONSTANTS
  Lwps = {l1, l2, l3}
  Intrs = {i1}
  Nobody = Nobody
  NOPID = NOPID
  SL_BUSY = SL_BUSY
  Ops = {"lock", "rellock", "trylock", "private", "disown"}
  Proc <- MCProc
  WaitProcs <- MCWaitProcs
  Family = {l1, l2, l3}
  CatchWaiting = FALSE
  MaxCalls = 3
  MaxSigs = 0
SPECIFICATION FairSpec
INVARIANTS MutualExclusion TrueOwner NoLateUnlocker PendAccounting AssertsHold
PROPERTIES ImplementsFairLock
