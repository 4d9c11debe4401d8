CONSTANTS
  Lwps = {l1, l2, l3}
  Start = {l1, l2}
SPECIFICATION Spec
INVARIANTS StasisMeansStopped RendezvousedCount OnlyDestroyMayPanic PanicsHaveACause
INVARIANTS  NobodyWaitsInVain SuspendedStaysOut
SYMMETRY Symmetry
CHECK_DEADLOCK FALSE
