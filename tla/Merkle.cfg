CONSTANTS
  MaxTx = 20
  Junk = Junk
SPECIFICATION Spec
INVARIANTS ArrayInv RootCorrect
PROPERTY Returns
CHECK_DEADLOCK FALSE
