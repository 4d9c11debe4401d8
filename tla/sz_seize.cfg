CONSTANTS
  Lwps = {l1, l2, l3, l4}
  FirstLwp = l1
  Agents = {s1, s2}
  Nobody = Nobody
  Cpus = 2
SPECIFICATION FairSpec
INVARIANTS SeizedMeansStopped SeizedCount NobodyLeftBehind NoReportLost
PROPERTIES ImplementsSeize
