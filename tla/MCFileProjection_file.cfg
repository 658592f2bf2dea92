SPECIFICATION FileSpec
CONSTANTS
  c1 = c1
  c2 = c2
  attached = attached
  oneshot = oneshot
  Chapters = {c1, c2}
  Bodies = {b1, b2}
  NoBody = NoBody
  Edits = {e1}
  NoFile = NoFile
  NoCall = NoCall
  OpenedAt <- MCOpenedAt
  Projections = {attached, oneshot}
  OneShots = {oneshot}
  Renderable <- MCRenderable
  Debounced = TRUE
  BacksUp = TRUE
  MaxFaults = 2
INVARIANTS
  FileTypeOK
  NothingOverwritten
PROPERTIES
  RebuildShowsJournal
