\* The real limits; the pass dies in three attempts running.
SPECIFICATION Spec
CONSTANTS
  Draft = {d1}
  RowId = {r1}
  Key = {k1}
  Reason = {why}
  Tick = {t1}
  NoReason = NoReason
  NoRow = NoRow
  NoTime = NoTime
  NoKey = NoKey
  NoJob = NoJob
  Cap = 3
  MaxAttempts = 3
  StaleAge = 2
  TickLife = 1
  MaxDue = 3
  MaxClock = 10
  MaxFaults = 3
  Announce = {FALSE}
INVARIANT AttemptsBounded
