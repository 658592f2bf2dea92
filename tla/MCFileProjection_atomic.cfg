SPECIFICATION FileSpec
CONSTANTS
  c1 = c1
  c2 = c2
  attached = attached
  oneshot = oneshot
  Chapters = {c1, c2}
  Bodies = {b1}
  NoBody = NoBody
  Edits = {e1}
  NoFile = NoFile
  NoCall = NoCall
  OpenedAt <- MCOpenedAt
  Projections = {attached}
  OneShots = {}
  Renderable <- MCRenderable
  Debounced = TRUE
  BacksUp = TRUE
  MaxFaults = 1
PROPERTIES
  FailedCallLeavesFile
