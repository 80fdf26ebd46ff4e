SPECIFICATION StoresSpec
CONSTANTS
  Browser = {b1, b2}
  Cron = Cron
  IdleTime = 2
  TouchTime = 0
  MaxTime = 4
  MaxSids = 2
  MaxJobs = 4
  NoSession = NoSession
  NoCookie = NoCookie
  NoJob = NoJob
  Unset = Unset
  Item = {i1, i2}
  Picker = {t1, t2}
  Press = {p1, p2}
  DraftRow = {d1, d2}
  PostKey = {k1, k2}
  i2 = i2
  t2 = t2
  p2 = p2
  k2 = k2
  RowCap = 1
  MaxMishaps = 1
  NoItem = NoItem
  NoEntry = NoEntry
  NoRun = NoRun
  NoPress = NoPress
  None = None
  Tick = {c1, c2}
  LastReport = 2
  AlertCap = 1
  w1 = w1
  w2 = w2
  Writer = {w1, w2, w3}
  Unreadable = {w3}
  SampleCap = 2
  ChunkSize = 1
  HoursPerDay = 2
  LastDay = 1
  RecentDays = 1
  RetainedDays = 0
  MaxTrouble = 1
  NoTick = NoTick
  LastRecord = 5
  ListLimit = 3
  SmallPage = 1
  ArchivePages = 3
  ByteLimit = 4
  MaxChanges = 1
  NoWalk = NoWalk
  NoListing = NoListing
  Asker = {a1, a2}
  a1 = a1
  LastPost = 4
  FeedLimit = 1
  FeedPages = 2
  ListCap = 1
  ThreadCap = 2
  Depth = 2
  HourlyReads = 1
  MaxBroken = 1
  NoPost = NoPost
  NoAsk = NoAsk
  NoList = NoList
  NoPiece = NoPiece
  Opener = Opener
  Stranger = Stranger
  PostId = {g1, g2}
  LastEntry = 3
  ExportCap = 2
  EntryLimit = 2
  TotalBudget = 3
  MaxSlots = 1
  NoId = NoId
  Address = {"page", "moved", "feed", "own"}
  UsualPlaces <- PlacesToLook
  Unfit = {"own"}
  HopLimit = 1
  TryCap = 2
  ListedAtMost = 2
  RunsPerHour = 1
  MaxRuns = 2
  Hints <- NamedByPages
  Entries <- CarriedByFeeds
  NoFetch = NoFetch
  NoReply = NoReply
  LastLine = 2
  RoomAtMost = 2
  MaxAside = 1
  MaxVisits = 2
  NoOffer = NoOffer
  NoCall = NoCall
SYMMETRY Symmetric
CHECK_DEADLOCK FALSE
INVARIANTS
  StoresTypeOK
  EndedStaysEnded
  
  ClosedIsEmpty
  
  
  ToldBeforeStamped
  DayIsSampled
  WholeOrSaid
