CONSTANTS
  t1 = t1
  t2 = t2
  b1 = b1
  o1 = o1
  o2 = o2
  Txs <- MCTxs
  Blocks = {}
  NOut <- MCNOut
  Offsets = {o1, o2}
  Absent = Absent
  Junk = Junk
  Zero = Zero
  Engine = "tc"
  QuickBits = 1
  UMark = 12
  UMask = 3
  InitSlots = 2
  MaxLen = 6
  MaxIndex = 0
SYMMETRY MCSymmetry
SPECIFICATION Spec
INVARIANTS TypeOK NoOverrun RegionsApart QuickBitsAgree
PROPERTY LedgerSpec
