SPECIFICATION Spec
CONSTANTS
  c1 = c1
  c2 = c2
  s1 = s1
  s2 = s2
  k1 = k1
  k2 = k2
  w1 = w1
  w2 = w2
  Chapters = {c1}
  Sections = {s1, s2}
  SchemaIds = {k1, k2}
  States = {"open", "appending", "closed"}
  NoState = NoState
  NoRow = NoRow
  NoSection = NoSection
  NoChapter = NoChapter
  MigrationStream = MigrationStream
  ImportState = "closed"
  ImportSchema = k1
  NoSchema = NoSchema
  Cores = {w1}
  Versions <- MCVersions
  BuiltIn <- MCBuiltIn
  LocalFiles <- MCNoFiles
  Uploads <- MCNoUploads
  ImportFiles <- MCImportFiles
  NumProjections = 1
  MaxEvents = 5
  MaxFaults = 1
INVARIANTS
  CloseEventClosesChapter
CHECK_DEADLOCK FALSE
