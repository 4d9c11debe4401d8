CONSTANTS
  Lwps = {l1, l2, l3}
  Start = {l1, l2}
SPECIFICATION FairSpec
PROPERTIES ImplementsRendezvous DestroyReturns
CONSTRAINT UntilUpset
CHECK_DEADLOCK FALSE
