CONSTANTS
  t1 = t1
  t2 = t2
  b1 = b1
  o1 = o1
  o2 = o2
  Txs = {t1}
  Blocks = {}
  NOut <- MCNOutBig
  Offsets = {o1}
  Absent = Absent
  Junk = Junk
  Zero = Zero
  Engine = "khash"
  QuickBits = 3
  UMark = 12
  UMask = 4
  InitSlots = 1
  MaxLen = 9
  MaxIndex = 2
SPECIFICATION Spec
INVARIANT UsedWithinAvailable
