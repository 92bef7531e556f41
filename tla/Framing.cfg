CONSTANTS
  Base = 8
  FrameLen = 2
  HeadLen = 3
  VersLen = 1
  OutpLen = 2
  SeqLen = 1
  ValLen = 2
  LockLen = 1
  Chains <- MCChains
  Widths = {1, 3, 5, 9}
  MaxTail = 13
  Files <- ChainFiles
SPECIFICATION Spec
INVARIANTS TypeOK InPlace Exact WithinFile
CHECK_DEADLOCK FALSE
