CONSTANTS
  Lwps = {l1, l2}
  Intrs = {i1, i2}
  Nobody = Nobody
  Ops = {"wait", "wait_sig"}
  Proc <- MCProc
  WaitProcs <- MCWaitProcs
  Family = {l1, l2}
  MaxSigs = 2
SPECIFICATION FairSpec
INVARIANTS NiblkedBalanced SleeperHearsSignals
PROPERTIES ImplementsCondVar
