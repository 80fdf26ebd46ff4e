SPECIFICATION RecordsSpec
CONSTANTS
  LastKey = 2
  Handler = {h1, h2}
  Walker = {w1, w2}
  PageSize = 1
  MaxWrites = 2
  MaxFaults = 1
  NoDoc = NoDoc
  NoText = NoText
  Idle = Idle
  Colo = {c1}
  MaxVersions = 2
  MaxMoves = 1
  MaxFlakes = 1
  NoPage = NoPage
  NoVisit = NoVisit
  NoHost = NoHost
  Asker = {a1, a2}
  LastPub = 3
  MaxAsked = 4
  MaxRefused = 1
  NoPub = NoPub
  NoTask = NoTask
  Loose = Loose
  Control = {c1, c2}
  Record = {r1, r2, r3}
  MaxPressed = 4
  MaxFailed = 1
  NoCall = NoCall
  Tab = {t1}
  DraftId = {d1, d2}
  Image = {i1}
  DraftCap = 1
  MaxEdits = 3
  MaxLost = 1
  MaxOpened = 2
  Pages = {"new", "draft", "edit"}
  NoDraft = NoDraft
  NoRow = NoRow
  NoSave = NoSave
  NoForm = NoForm
  LastReply = 3
  RenderCap = 1
  BodyCap = 2
  RepliesTTL = 1
  PageTTL = 1
  LastTime = 2
  MaxDropped = 1
  NoTalk = NoTalk
  NoView = NoView
  BoardRow = {r1, r2}
  Uri = {u1, u2}
  BatchSize = 2
  CountTTL = 1
  TopCount = 1
  LastTick = 2
  MaxMissed = 1
  Slowest = 1
  Gone = Gone
  Silent = Silent
  NoRef = NoRef
  NoCount = NoCount
  NoBoard = NoBoard
CHECK_DEADLOCK FALSE
INVARIANTS
  RecordsTypeOK
  SearchIsTrue
  PurgedIsFresh
  MissingIsTrue
  SettingsKept
  ControlIsTrue
  PicturesKept
  ReadsAreTheirs
PROPERTIES
  NothingUndone
  OnePublication
  PagesSettle
  EditsGetSaved
