CONSTANTS
  t1 = t1
  t2 = t2
  b1 = b1
  o1 = o1
  o2 = o2
  Txs <- MCTxs
  Blocks = {b1}
  NOut <- MCNOut
  Offsets = {o1}
  Absent = Absent
  Junk = Junk
  Zero = Zero
  Engine = "ldb"
  QuickBits = 1
  UMark = 12
  UMask = 3
  InitSlots = 2
  MaxLen = 6
  MaxIndex = 2
SPECIFICATION RawSpec
INVARIANTS UsedWithinAvailable SlotZeroUnused
PROPERTY KindsKept
