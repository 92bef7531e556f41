CONSTANTS
  z = z
  c = c
  a = a
  b = b
  b1 = b1
  b2 = b2
  Txs = {z, c, a, b}
  Blocks = {b1, b2}
  NOut <- MCNOut
  Offsets <- MCOffsets
  Chain <- MCChain
  ChainSlots = 4
  Absent = Absent
  Junk = Junk
  Zero = Zero
  Engine = "tc"
  QuickBits = 1
  UMark = 16
  UMask = 3
  InitSlots = 2
  MaxLen = 10
  MaxIndex = 0
SPECIFICATION RegenSpec
INVARIANT WalkExact
PROPERTIES KeepsDiscipline WalkEnds
