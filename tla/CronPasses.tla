------------------------------ MODULE CronPasses ------------------------------
(***************************************************************************)
(* Two of the hourly cron's passes, in their order: the alert about abuse  *)
(* reports nobody has been told of, and the daily sample of every writer's *)
(* follower count.  A tick that takes longer than its hour overlaps the    *)
(* next one; one may die anywhere.                                         *)
(***************************************************************************)
EXTENDS Integers, FiniteSets

CONSTANTS
  Tick,         \* ticks that may be under way at once
  LastReport,   \* bound: reports, numbered as they are filed
  AlertCap,     \* MAX_REPORTS_PER_ALERT
  Writer,
  Unreadable,   \* writers whose profile never has a usable count
  SampleCap,    \* MAX_SAMPLES_PER_RUN
  ChunkSize,    \* PROFILES_PER_REQUEST
  HoursPerDay,
  LastDay,      \* bound: days
  RecentDays,   \* RECENT_WRITER_DAYS
  RetainedDays, \* SNAPSHOT_RETENTION_DAYS
  MaxTrouble,   \* bound: calls that fail, ticks that die, sessions that end
  NoTick

Report == 1..LastReport
Day == 0..LastDay
Hour == 0..((LastDay + 1) * HoursPerDay)

ASSUME CronPassesAssumption ==
  /\ {AlertCap, ChunkSize, HoursPerDay} \subseteq Nat \ {0}
  /\ {LastReport, SampleCap, LastDay, RecentDays, RetainedDays, MaxTrouble} \subseteq Nat
  /\ Unreadable \subseteq Writer /\ IsFiniteSet(Writer) /\ IsFiniteSet(Tick)

VARIABLES
  filedTo,  \* the newest report
  stamped,  \* reports with notifiedAt
  heard,    \* history: reports in a message the webhook took
  signedIn, \* writers with a session row
  steady,   \* history: signed in since the day began
  samples,  \* follower_snapshots: <<writer, day>>
  hour,     \* ticks begun
  tick,     \* each tick
  wasted,   \* history: ticks of each day that died, lost a call, or overlapped
  trouble   \* how many of those so far

cronVars == <<filedTo, stamped, heard, signedIn, steady, samples, hour, tick, wasted, trouble>>

DayOf(h) == h \div HoursPerDay
Today == DayOf(hour)

(* batch: the reports read.  left: writers still to sample.                 *)
TickState == [at: {"read", "post", "stamp", "choose", "fetch", "prune"}, day: Day,
              batch: SUBSET Report, left: SUBSET Writer, counted: BOOLEAN]

ASSUME NoTickAssumption == NoTick \notin TickState

CronInit ==
  /\ filedTo = 0 /\ stamped = {} /\ heard = {}
  /\ signedIn = Writer /\ steady = Writer
  /\ samples = {}
  /\ hour = 0
  /\ tick = [k \in Tick |-> NoTick]
  /\ wasted = [d \in Day |-> 0]
  /\ trouble = 0

Trouble == trouble < MaxTrouble /\ trouble' = trouble + 1
Moves(k, at) == tick' = [tick EXCEPT ![k].at = at]

(* A tick counts as wasted once. *)
Wastes(k) ==
  /\ wasted' = [wasted EXCEPT ![tick[k].day] = @ + (IF tick[k].counted THEN 0 ELSE 1)]

FileReport ==
  /\ filedTo < LastReport
  /\ filedTo' = filedTo + 1
  /\ UNCHANGED <<stamped, heard, signedIn, steady, samples, hour, tick, wasted, trouble>>

SignsIn(w) ==
  /\ w \notin signedIn
  /\ signedIn' = signedIn \cup {w}
  /\ UNCHANGED <<filedTo, stamped, heard, steady, samples, hour, tick, wasted, trouble>>

SessionEnds(w) ==
  /\ w \in signedIn /\ Trouble
  /\ signedIn' = signedIn \ {w} /\ steady' = steady \ {w}
  /\ UNCHANGED <<filedTo, stamped, heard, samples, hour, tick, wasted>>

(* The hour strikes: one tick.                                              *)
Strike(k) ==
  /\ tick[k] = NoTick /\ Today <= LastDay
  /\ hour' = hour + 1
  /\ tick' = [tick EXCEPT ![k] = [at |-> "read", day |-> Today, batch |-> {}, left |-> {}, counted |-> FALSE]]
  /\ steady' = IF hour % HoursPerDay = 0 THEN signedIn ELSE steady
  /\ UNCHANGED <<filedTo, stamped, heard, signedIn, samples, wasted, trouble>>

Dies(k) ==
  /\ tick[k] # NoTick /\ Trouble
  /\ tick' = [tick EXCEPT ![k] = NoTick]
  /\ Wastes(k)
  /\ UNCHANGED <<filedTo, stamped, heard, signedIn, steady, samples, hour>>

-----------------------------------------------------------------------------
(* runReportAlertPass.                                                      *)

Untold == (1..filedTo) \ stamped

(* selectUnnotifiedReports: the oldest. *)
OldestUntold == {r \in Untold : Cardinality({q \in Untold : q <= r}) <= AlertCap}

(* Nothing to tell, a read that failed, or no webhook set: on to the samples. *)
ReadReports(k) ==
  /\ tick[k] # NoTick /\ tick[k].at = "read"
  /\ \/ /\ Untold # {}
        /\ tick' = [tick EXCEPT ![k].at = "post", ![k].batch = OldestUntold]
        /\ UNCHANGED trouble
     \/ Untold = {} /\ Moves(k, "choose") /\ UNCHANGED trouble
     \/ Trouble /\ Moves(k, "choose")
  /\ UNCHANGED <<filedTo, stamped, heard, signedIn, steady, samples, hour, wasted>>

(* A refusal, a timeout: perhaps the message was taken all the same. *)
PostAlert(k) ==
  /\ tick[k] # NoTick /\ tick[k].at = "post"
  /\ \/ heard' = heard \cup tick[k].batch /\ Moves(k, "stamp") /\ UNCHANGED trouble
     \/ Trouble /\ heard' \in {heard, heard \cup tick[k].batch} /\ Moves(k, "choose")
  /\ UNCHANGED <<filedTo, stamped, signedIn, steady, samples, hour, wasted>>

(* Slip: all that is there by now. *)
StampsAll(k) == 1..filedTo

(* markReportsNotified: exactly the ids of the message. *)
Stamps(k) == tick[k].batch

StampReports(k) ==
  /\ tick[k] # NoTick /\ tick[k].at = "stamp"
  /\ \/ stamped' = stamped \cup Stamps(k) /\ UNCHANGED trouble
     \/ Trouble /\ UNCHANGED stamped
  /\ Moves(k, "choose")
  /\ UNCHANGED <<filedTo, heard, signedIn, steady, samples, hour, wasted>>

-----------------------------------------------------------------------------
(* runFollowerSnapshotPass.                                                 *)

Sampled(w, since) == {d \in Day : d >= since /\ <<w, d>> \in samples}
Tracked(d) == {w \in Writer : w \in signedIn \/ Sampled(w, d - RecentDays) # {}}

(* The day before the first for a writer without a recent sample. *)
LastSample(w, d) ==
  LET seen == Sampled(w, d - RecentDays) IN
  IF seen = {} THEN -1 ELSE CHOOSE s \in seen : \A o \in seen : o <= s

UpTo(n, S) == {B \in SUBSET S : Cardinality(B) = IF Cardinality(S) < n THEN Cardinality(S) ELSE n}

(* Slip: any of the tracked, whether or not they have today's sample. *)
AnyBatch(d) == UpTo(SampleCap, Tracked(d))

(* chooseSampleBatch: not sampled today, the most overdue first (the DIDs   *)
(* break ties).                                                             *)
SampleBatches(d) ==
  LET waiting == {w \in Tracked(d) : <<w, d>> \notin samples} IN
  {B \in UpTo(SampleCap, waiting) :
     \A w \in B, o \in waiting \ B : LastSample(w, d) <= LastSample(o, d)}

Overlapped(k) == \E o \in Tick \ {k} : tick[o] # NoTick /\ tick[o].day = tick[k].day

ChooseWriters(k) ==
  /\ tick[k] # NoTick /\ tick[k].at = "choose"
  /\ \E B \in SampleBatches(tick[k].day) :
       tick' = [tick EXCEPT ![k].at = IF B = {} THEN "prune" ELSE "fetch", ![k].left = B,
                            ![k].counted = Overlapped(k)]
  /\ IF Overlapped(k) THEN Wastes(k) ELSE UNCHANGED wasted
  /\ UNCHANGED <<filedTo, stamped, heard, signedIn, steady, samples, hour, trouble>>

(* fetchProfilesCounts for a chunk, and a row for each usable count.        *)
SampleChunk(k) ==
  /\ tick[k] # NoTick /\ tick[k].at = "fetch"
  /\ \E chunk \in UpTo(ChunkSize, tick[k].left) :
       LET rest == tick[k].left \ chunk IN
       \/ /\ samples' = samples \cup ((chunk \ Unreadable) \X {tick[k].day})
          /\ tick' = [tick EXCEPT ![k].left = rest, ![k].at = IF rest = {} THEN "prune" ELSE "fetch"]
          /\ UNCHANGED <<wasted, trouble>>
       \/ /\ Trouble /\ Wastes(k) /\ UNCHANGED samples
          /\ tick' = [tick EXCEPT ![k].left = rest, ![k].counted = TRUE,
                                  ![k].at = IF rest = {} THEN "prune" ELSE "fetch"]
  /\ UNCHANGED <<filedTo, stamped, heard, signedIn, steady, hour>>

PruneSamples(k) ==
  /\ tick[k] # NoTick /\ tick[k].at = "prune"
  /\ samples' = {s \in samples : s[2] >= tick[k].day - RetainedDays}
  /\ tick' = [tick EXCEPT ![k] = NoTick]
  /\ UNCHANGED <<filedTo, stamped, heard, signedIn, steady, hour, wasted, trouble>>

CronNext ==
  \/ FileReport
  \/ \E w \in Writer : SignsIn(w) \/ SessionEnds(w)
  \/ \E k \in Tick : Strike(k) \/ Dies(k) \/ ReadReports(k) \/ PostAlert(k) \/ StampReports(k)
                     \/ ChooseWriters(k) \/ SampleChunk(k) \/ PruneSamples(k)

CronSpec == CronInit /\ [][CronNext]_cronVars

-----------------------------------------------------------------------------
CronTypeOK ==
  /\ filedTo \in 0..LastReport /\ stamped \subseteq Report /\ heard \subseteq Report
  /\ signedIn \subseteq Writer /\ steady \subseteq Writer
  /\ samples \subseteq Writer \X Day
  /\ hour \in Hour
  /\ tick \in [Tick -> TickState \cup {NoTick}]
  /\ wasted \in [Day -> Nat] /\ trouble \in 0..MaxTrouble

(* A report is put away only once somebody was told of it: neither one that *)
(* arrives while the message is under way, nor one a second tick has in     *)
(* hand, nor one in a message that was refused.                             *)
ToldBeforeStamped == stamped \subseteq heard

(* Every writer signed in all day has a sample of it at the day's end, when *)
(* its profile can be read and the hours that were neither lost nor doubled *)
(* are enough to get past the profiles that cannot.                         *)
Ended(d) == Today > d /\ \A k \in Tick : tick[k] # NoTick => tick[k].day # d

DayIsSampled ==
  \A d \in Day :
    (hour = (d + 1) * HoursPerDay /\ Ended(d)
     /\ (HoursPerDay - wasted[d]) * (SampleCap - Cardinality(Unreadable))
          >= Cardinality(Writer \ Unreadable))
    => \A w \in steady \ Unreadable : <<w, d>> \in samples
=============================================================================
