\* A schedule fails after its write landed, and the writer schedules the draft again.
SPECIFICATION PubSpec
CONSTANTS
  Draft = {d1}
  RowId = {r1, r2}
  Key = {k1, k2}
  OwnKey = {o1}
  Reason <- PublishReasons
  Tick = {t1}
  Request = {q1}
  NoReason = NoReason
  NoRow = NoRow
  NoTime = NoTime
  NoKey = NoKey
  NoJob = NoJob
  NoRecord = NoRecord
  NoAtt = NoAtt
  Gone = Gone
  Cap = 3
  MaxAttempts = 3
  StaleAge = 2
  TickLife = 1
  MaxDue = 4
  MaxClock = 5
  MaxFaults = 0
  MaxVersion = 0
  MaxNetFaults = 2
  Announce = {TRUE}
  Ops = {"schedule", "again"}
INVARIANT OneRecordPerDraft
