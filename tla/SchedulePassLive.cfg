\* Two drafts, one pass an hour, one fault, time for every attempt and stale lease.
SPECIFICATION FairSpec
CONSTANTS
  Draft = {d1, d2}
  RowId = {r1, r2}
  Key = {k1, k2}
  Reason = {why}
  Tick = {t1}
  NoReason = NoReason
  NoRow = NoRow
  NoTime = NoTime
  NoKey = NoKey
  NoJob = NoJob
  Cap = 1
  MaxAttempts = 2
  StaleAge = 1
  TickLife = 1
  MaxDue = 1
  MaxClock = 8
  MaxFaults = 1
  Announce = {FALSE}
PROPERTIES Settles
