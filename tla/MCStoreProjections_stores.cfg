SPECIFICATION FairStores
CONSTANTS
  c1 = c1
  c2 = c2
  w1 = w1
  w2 = w2
  fts = fts
  vec = vec
  mem = mem
  book = book
  rows = rows
  Chapters = {c1, c2}
  Cores = {w1, w2}
  Stores = {fts, vec, mem, book, rows}
  Kind <- MCKind
  Setups <- MCSetups
  OpenedAt <- MCOpenedAt
  Amendable = {c2}
  NoCall = NoCall
  MaxRows <- MCMaxRows
  MaxFaults = 1
INVARIANTS
  StoresTypeOK
  IndexFaithful
  OneDocument
PROPERTIES
  RebuildCompletes
  CallsReturn
CHECK_DEADLOCK FALSE
