CONSTANTS
  k1 = k1
  k2 = k2
  k3 = k3
  Keys = {k1, k2, k3}
  HashOf <- MCHashOf
  Data <- MCData
  Own <- MCOwn
  DELETED = DELETED
  None = None
  Null = Null
  EMPTY = EMPTY
  GroupSize = 2
  WordBits = 2
  MinSize = 4
  Goals <- MCGoals
  Careless = {}
SPECIFICATION Spec
INVARIANTS Reachable TypeOK CountsAgree SearchEnds CopiesOwned LastFindLive IterationExact
           SavedWhole SparseIsDense
PROPERTY ImplementsMap
