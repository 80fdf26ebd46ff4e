\* The real limits, no faults: the writer moves a post a pass is publishing.
SPECIFICATION Spec
CONSTANTS
  Draft = {d1}
  RowId = {r1}
  Key = {k1}
  Reason = {why}
  Tick = {t1}
  NoReason = NoReason
  NoRow = NoRow
  NoTime = NoTime
  NoKey = NoKey
  NoJob = NoJob
  Cap = 3
  MaxAttempts = 3
  StaleAge = 2
  TickLife = 1
  MaxDue = 3
  MaxClock = 4
  MaxFaults = 0
  Announce = {FALSE}
INVARIANT FailedRowWasTried
