CONSTANTS
  h1 = h1
  h2 = h2
  h3 = h3
  e1 = e1
  e2 = e2
  Hashes = {h1, h2, h3}
  Cut <- MCCut
  Entries = {e1, e2}
  None = None
  Frame = Frame
  Definitions <- MCDefinitions
  Careless = {}
SPECIFICATION Spec
INVARIANT TypeOK
PROPERTY ImplementsInventory
