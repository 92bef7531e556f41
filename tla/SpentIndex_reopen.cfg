CONSTANTS
  t1 = t1
  t2 = t2
  b1 = b1
  o1 = o1
  o2 = o2
  Txs = {t1}
  Blocks = {}
  NOut <- MCNOut1
  Offsets = {o1}
  Absent = Absent
  Junk = Junk
  Zero = Zero
  Engine = "ldb"
  QuickBits = 3
  UMark = 12
  UMask = 4
  InitSlots = 4
  MaxLen = 9
  MaxIndex = 2
SPECIFICATION RawSpec
INVARIANT PlacedWithinUsed
