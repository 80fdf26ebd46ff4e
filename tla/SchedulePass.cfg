\* Two drafts, two overlapping passes, one fault: the queue's safety properties.
SPECIFICATION Spec
CONSTANTS
  Draft = {d1, d2}
  RowId = {r1, r2}
  Key = {k1, k2}
  Reason = {why}
  Tick = {t1, t2}
  NoReason = NoReason
  NoRow = NoRow
  NoTime = NoTime
  NoKey = NoKey
  NoJob = NoJob
  Cap = 2
  MaxAttempts = 2
  StaleAge = 1
  TickLife = 1
  MaxDue = 2
  MaxClock = 4
  MaxFaults = 1
  Announce = {FALSE}
SYMMETRY Symmetry
INVARIANTS LeaseExclusive OneKeyPerRow AttemptCeiling FailedForCause
