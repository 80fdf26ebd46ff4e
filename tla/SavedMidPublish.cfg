\* No faults: the editor saves a draft a pass is publishing.
SPECIFICATION PubSpec
CONSTANTS
  Draft = {d1}
  RowId = {r1}
  Key = {k1}
  OwnKey = {o1}
  Reason <- PublishReasons
  Tick = {t1}
  Request = {q1}
  NoReason = NoReason
  NoRow = NoRow
  NoTime = NoTime
  NoKey = NoKey
  NoJob = NoJob
  NoRecord = NoRecord
  NoAtt = NoAtt
  Gone = Gone
  Cap = 3
  MaxAttempts = 3
  StaleAge = 2
  TickLife = 1
  MaxDue = 4
  MaxClock = 5
  MaxFaults = 0
  MaxVersion = 1
  MaxNetFaults = 0
  Announce = {TRUE}
  Ops = {"schedule", "edit"}
PROPERTY LastSavePublished
