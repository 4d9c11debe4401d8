CONSTANTS
  Lwps = {l1, l2, l3}
  Intrs = {}
  Nobody = Nobody
  Ops = {"rdlock_rellock", "wrlock", "tryrdlock", "trywrlock"}
  MaxCalls = 3
SPECIFICATION FairSpec
INVARIANTS RwExclusion ReadersCounted ModeOfHolders PendAccounting NobodyStranded
PROPERTIES PendRule ImplementsFairRwLock
