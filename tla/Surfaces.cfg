\* Two tabs on one writer's drafts, the pages a writer is shown, and a reader's.
SPECIFICATION SurfacesSpec
CONSTANTS
  Tab = {t1, t2}
  DraftId = {d1, d2, d3}
  d3 = d3
  Image = {}
  DraftCap = 1
  MaxEdits = 2
  MaxLost = 1
  MaxOpened = 2
  Pages = {"new", "draft", "edit"}
  NoDraft = NoDraft
  NoRow = NoRow
  NoSave = NoSave
  NoForm = NoForm
  Domain = {"bluesky", "site"}
  OtherSite = {"site"}
  LastStatPost = 2
  FinalDay = 4
  RangeDays = 2
  DayRowCap = 2
  RowCap = 1
  EnoughViews = 2
  PostBatch = 1
  BatchBudget = 1
  MaxHappened = 3
  NoPost = NoPost
  NoReading = NoReading
  NotShared = NotShared
  Gone = Gone
  Unknown = Unknown
  NoInquiry = NoInquiry
  StatRange = {s1, s2}
  Request = {q1, q2}
  KeptFor = 1
  LastMoment = 1
  MaxUnread = 1
  NoRequest = NoRequest
  NoSection = NoSection
  Over = Over
  Awaited = Awaited
  Failed = Failed
  LastPic = 3
  PicCap = 2
  ImageBudget = 5
  CardBudget = 1
  HopCap = 1
  MaxTouched = 2
  NoPicture = NoPicture
  NoRecordYet = NoRecordYet
  NoPub = NoPub
  OwnCover = OwnCover
  LastPiece = 2
  ListedAPage = 1
  MaxElsewhere = 2
  MaxFlaked = 1
  MaxPosts = 4
  NoScreen = NoScreen
  NoUrl = NoUrl
  Unread = Unread
  LastRkey = 3
  ArchivePage = 2
  FeedItems = 2
  MaxChanged = 1
  MaxFailed = 1
  NoVisitor = NoVisitor
  NotStored = NotStored
  NoAnswer = NoAnswer
  NotAsked = NotAsked
  NoIndex = NoIndex
  Undirected = Undirected
  LastWork = 2
  OverviewPage = 1
  Shortlist = 1
  MaxWorked = 2
  MaxHalts = 1
  MaxVisits = 2
  NoHome = NoHome
  NoList = NoList
  NoCount = NoCount
  Account = {a1, a2}
  Handle = {h1, h2}
  MaxRenames = 2
  MaxLookups = 1
  MaxNoted = 1
  MaxUnheard = 1
  Nobody = Nobody
  NoHandle = NoHandle
  NoErrand = NoErrand
  NoReply = NoReply
  MaxTokens = 3
  MaxPages = 2
  MaxSent = 3
  MaxMishaps = 2
  NoStranger = NoStranger
  NoEntry = NoEntry
  Swatch = {c1, c2}
  MaxTouches = 2
  MaxOutside = 1
  MaxBalks = 1
  NoMasthead = NoMasthead
  NoIcon = NoIcon
  NoColours = NoColours
  Garbled = Garbled
  Untouched = Untouched
  NoSettings = NoSettings
  NoLanding = NoLanding
CHECK_DEADLOCK FALSE
SYMMETRY Symmetric
INVARIANTS
  SurfacesTypeOK
  WordsStored
  
  CapSlack
  
  PicturesLast
