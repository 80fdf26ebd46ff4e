\* One pass and every request of the writer, faults included.
SPECIFICATION PubSpec
CONSTANTS
  Draft = {d1}
  RowId = {r1, r2}
  Key = {k1, k2}
  OwnKey = {o1}
  Reason <- PublishReasons
  Tick = {t1}
  Request = {q1}
  NoReason = NoReason
  NoRow = NoRow
  NoTime = NoTime
  NoKey = NoKey
  NoJob = NoJob
  NoRecord = NoRecord
  NoAtt = NoAtt
  Gone = Gone
  Cap = 1
  MaxAttempts = 2
  StaleAge = 1
  TickLife = 1
  MaxDue = 2
  MaxClock = 4
  MaxFaults = 1
  MaxVersion = 0
  MaxNetFaults = 1
  Announce = {TRUE}
  Ops = {"edit", "schedule", "move", "again", "unschedule", "deleteDraft", "publishNow", "publishForm"}
SYMMETRY Symmetry
INVARIANTS WordsKept ReleasedIsOwned
PROPERTIES QueueSpec RefKept
