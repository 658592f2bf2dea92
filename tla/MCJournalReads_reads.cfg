SPECIFICATION ReadSpec
CONSTANTS
  c1 = c1
  c2 = c2
  s1 = s1
  s2 = s2
  k1 = k1
  k2 = k2
  w1 = w1
  w2 = w2
  Chapters = {c1, c2}
  Sections = {s1}
  SchemaIds = {k1,k2}
  States = {"open", "appending", "closed"}
  NoState = NoState
  NoRow = NoRow
  NoSection = NoSection
  NoChapter = NoChapter
  MigrationStream = MigrationStream
  ImportState = "closed"
  ImportSchema = k2
  NoSchema = NoSchema
  Cores = {w1}
  Versions <- MCReadVersions
  BuiltIn <- MCReadBuiltIn
  LocalFiles <- MCNoFiles
  Uploads <- MCNoUploads
  ImportFiles <- MCReadFiles
  NumProjections = 0
  MaxEvents = 3
  MaxFaults = 1
  Ties = {0, 1}
  ReaderSchemas = {k2}
  Requests <- MCRequests
  MaxClock = 1
  MaxSetBacks = 1
  NoStamp = NoStamp
  Unread = Unread
INVARIANTS
  ReadsTypeOK
  PagingMissesNothing
  ClosedReadsAreFinal
PROPERTIES
  AppendsReadInOrder
CHECK_DEADLOCK FALSE
