CONSTANTS
  k1 = k1
  k2 = k2
  k3 = k3
  k4 = k4
  Keys = {k1, k2, k3, k4}
  HashOf <- MCHashOf
  StepOf <- MCStepOf
  Entries <- MCEntries
  Own <- MCOwn
  MinClear = 4
  Junk = Junk
  None = None
SPECIFICATION Spec
INVARIANTS TypeOK Reachable NothingLost
PROPERTIES ImplementsMap Returns
