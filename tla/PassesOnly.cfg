\* The cron alone publishes: one schedule, two passes, moves and saves meanwhile.
SPECIFICATION PubSpec
CONSTANTS
  Draft = {d1}
  RowId = {r1}
  Key = {k1, k2}
  OwnKey = {}
  Reason <- PublishReasons
  Tick = {t1, t2}
  Request = {q1}
  NoReason = NoReason
  NoRow = NoRow
  NoTime = NoTime
  NoKey = NoKey
  NoJob = NoJob
  NoRecord = NoRecord
  NoAtt = NoAtt
  Gone = Gone
  Cap = 1
  MaxAttempts = 2
  StaleAge = 1
  TickLife = 1
  MaxDue = 2
  MaxClock = 4
  MaxFaults = 1
  MaxVersion = 1
  MaxNetFaults = 1
  Announce = {TRUE}
  Ops = {"edit", "schedule", "move", "deleteDraft"}
SYMMETRY Symmetry
INVARIANTS DraftGoneIsTrue
PROPERTIES PublishesOnce NeverGoesBack AnnouncesUnnoted
