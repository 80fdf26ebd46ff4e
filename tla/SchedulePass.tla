---------------------------- MODULE SchedulePass ----------------------------
(***************************************************************************)
(* The schedule queue: the hourly pass that publishes due posts, any       *)
(* number of overlapping passes of it, and the writer's requests that      *)
(* schedule, move, cancel and take over rows meanwhile.                    *)
(*                                                                         *)
(* A pass is a process that takes one D1 statement or one publish at a     *)
(* time.  The publish itself is abstract here: it lands or not, clears the *)
(* draft's rows when it lands, and gives a verdict; ScheduledPublishing    *)
(* fills it in and is shown to implement this module.  A fault is a D1     *)
(* call that rejects or a pass that dies; MaxFaults bounds them.           *)
(*                                                                         *)
(* The clock counts hours.  Cloudflare fires a pass every hour, may fire   *)
(* more (a retried tick, another isolate), and kills one that runs longer  *)
(* than TickLife.                                                          *)
(***************************************************************************)
EXTENDS ScheduleTable

CONSTANTS
  Tick,         \* processes that can be running a pass
  Cap,          \* MAX_PUBLISHES_PER_TICK
  MaxAttempts,  \* MAX_PUBLISH_ATTEMPTS
  StaleAge,     \* STALE_CLAIM_MS
  TickLife,     \* the longest a pass can run: the platform's limit, external
  MaxDue,       \* bound: the latest hour a post is scheduled for
  MaxClock,     \* bound: the clock stops here
  MaxFaults,    \* bound: rejected D1 calls and dead passes
  Announce,     \* the announce choices a writer makes, of TRUE and FALSE
  NoJob

ASSUME BoundAssumption ==
  /\ Cap \in Nat \ {0} /\ MaxAttempts \in Nat \ {0}
  /\ StaleAge \in Nat /\ TickLife \in Nat
  /\ MaxDue \in Nat /\ MaxClock \in Nat /\ MaxFaults \in Nat
  /\ Announce \subseteq BOOLEAN

(* "Two hours is two ticks: long enough that a slow-but-alive publish is    *)
(* never yanked out from under itself."                                    *)
ASSUME LeaseAssumption == TickLife <= StaleAge

(* A claimed post: what the due lookup read, the reserved key, and the     *)
(* attempt's number.                                                       *)
ClaimedPost == [id: RowId, draft: Draft, announce: BOOLEAN,
                rkey: Key, attempts: Nat]

ASSUME NoJobAssumption == NoJob \notin ClaimedPost

PublishAttempt == [kind: {"ok", "retry", "fail"}, reason: Reason \cup {NoReason}]
NoVerdict == [kind |-> "ok", reason |-> NoReason]
Ok == NoVerdict
Retry(why) == [kind |-> "retry", reason |-> why]
Fail(why) == [kind |-> "fail", reason |-> why]

VARIABLES
  rows,      \* the table
  clock,     \* the hour it is
  fired,     \* has this hour's pass been fired?
  pc,        \* where each pass is
  passNow,   \* the `now' of each pass, read once when it starts
  queue,     \* the due posts each pass has still to handle
  job,       \* the claimed post each pass is working on
  verdict,   \* what the publish of that post reported
  faults,    \* faults so far
  usedIds, usedKeys,  \* ids and keys minted so far: random, so never minted twice
  lost,      \* history: attempts of a row that died without reporting
  torn,      \* history: rows the writer moved while a pass held them
  reserved   \* history: the key each row was first claimed with

passVars == <<pc, passNow, queue, job, verdict>>
mintVars == <<usedIds, usedKeys>>
histVars == <<lost, torn, reserved>>
vars == <<rows, clock, fired, passVars, faults, mintVars, histVars>>

Init ==
  /\ rows = [id \in RowId |-> NoRow]
  /\ clock = 0
  /\ fired = FALSE
  /\ pc = [t \in Tick |-> "idle"]
  /\ passNow = [t \in Tick |-> 0]
  /\ queue = [t \in Tick |-> <<>>]
  /\ job = [t \in Tick |-> NoJob]
  /\ verdict = [t \in Tick |-> NoVerdict]
  /\ faults = 0
  /\ usedIds = {} /\ usedKeys = {}
  /\ lost = [id \in RowId |-> 0]
  /\ torn = {}
  /\ reserved = [id \in RowId |-> NoKey]

InFlight(t) == pc[t] \in {"publish", "landed", "report"}

Fault == faults < MaxFaults /\ faults' = faults + 1

Lose(ids) == lost' = [id \in RowId |-> IF id \in ids THEN lost[id] + 1 ELSE lost[id]]

(* On to the next due post, or out of the loop: a pass keeps nothing. *)
GoTo(t, q) ==
  /\ queue' = [queue EXCEPT ![t] = q]
  /\ pc' = [pc EXCEPT ![t] = IF q = <<>> THEN "idle" ELSE "claim"]
  /\ passNow' = [passNow EXCEPT ![t] = IF q = <<>> THEN 0 ELSE @]

-----------------------------------------------------------------------------
(* Time *)

Advance ==
  /\ clock < MaxClock
  /\ fired
  /\ \A t \in Tick : pc[t] # "idle" => clock < passNow[t] + TickLife
  /\ clock' = clock + 1
  /\ fired' = FALSE
  /\ UNCHANGED <<rows, passVars, faults, mintVars, histVars>>

Fire(t) ==
  /\ pc[t] = "idle"
  /\ pc' = [pc EXCEPT ![t] = "release"]
  /\ passNow' = [passNow EXCEPT ![t] = clock]
  /\ fired' = TRUE
  /\ UNCHANGED <<rows, clock, queue, job, verdict, faults, mintVars, histVars>>

-----------------------------------------------------------------------------
(* One pass *)

ReleaseStale(t) ==
  /\ pc[t] = "release"
  /\ \/ rows' = ReleaseStaleClaims(rows, passNow[t] - StaleAge) /\ UNCHANGED faults
     \/ Fault /\ UNCHANGED rows
  /\ pc' = [pc EXCEPT ![t] = "read"]
  /\ UNCHANGED <<clock, fired, passNow, queue, job, verdict, mintVars, histVars>>

(* The code reads Cap + 1 rows, to say when it leaves a queue behind, and  *)
(* works on the first Cap of them.                                         *)
ReadDue(t) ==
  /\ pc[t] = "read"
  /\ \/ \E q \in SelectDuePosts(rows, passNow[t], Cap) : GoTo(t, q) /\ UNCHANGED faults
     \/ Fault /\ GoTo(t, <<>>)
  /\ UNCHANGED <<rows, clock, fired, job, verdict, mintVars, histVars>>

(* The UPDATE that takes the lease, with the key the row keeps from then on. *)
TakeLease(id, now) ==
  \E k \in IF rows[id].rkey = NoKey THEN Key \ usedKeys ELSE {rows[id].rkey} :
    /\ rows' = ClaimDuePost(rows, id, now, k)
    /\ usedKeys' = usedKeys \cup {k}
    /\ reserved' = [reserved EXCEPT ![id] = k]

Claim(t) ==
  LET post == Head(queue[t]) IN
  /\ pc[t] = "claim"
  /\ Claimable(rows, post.id)
  /\ TakeLease(post.id, passNow[t])
  /\ job' = [job EXCEPT ![t] =
               [id |-> post.id, draft |-> post.draft, announce |-> post.announce,
                rkey |-> rows'[post.id].rkey, attempts |-> rows'[post.id].attempts]]
  /\ pc' = [pc EXCEPT ![t] = "publish"]
  /\ UNCHANGED <<clock, fired, passNow, queue, verdict, faults, usedIds, lost, torn>>

(* Another pass, or the writer, got there first. *)
Contended(t) ==
  /\ pc[t] = "claim"
  /\ ~Claimable(rows, Head(queue[t]).id)
  /\ GoTo(t, Tail(queue[t]))
  /\ UNCHANGED <<rows, clock, fired, job, verdict, faults, mintVars, histVars>>

(* The claim rejects: it never ran, or it ran and the answer was lost.  The *)
(* row is skipped either way.                                               *)
ClaimErrs(t) ==
  LET post == Head(queue[t]) IN
  /\ pc[t] = "claim"
  /\ Fault
  /\ \/ UNCHANGED <<rows, usedKeys, reserved, lost>>
     \/ /\ Claimable(rows, post.id)
        /\ TakeLease(post.id, passNow[t])
        /\ Lose({post.id})
  /\ GoTo(t, Tail(queue[t]))
  /\ UNCHANGED <<clock, fired, job, verdict, usedIds, torn>>

(* The publish put the record in the writer's repo; it then clears the     *)
(* draft's rows, best effort.                                              *)
Land(t) ==
  /\ pc[t] = "publish"
  /\ \/ rows' = DeleteSchedulesForDraft(rows, job[t].draft) /\ UNCHANGED faults
     \/ Fault /\ UNCHANGED rows
  /\ pc' = [pc EXCEPT ![t] = "landed"]
  /\ UNCHANGED <<clock, fired, passNow, queue, job, verdict, mintVars, histVars>>

Answer(t, v) ==
  /\ pc[t] \in {"publish", "landed"}
  /\ pc[t] = "landed" => v = Ok
  /\ verdict' = [verdict EXCEPT ![t] = v]
  /\ pc' = [pc EXCEPT ![t] = "report"]
  /\ UNCHANGED <<rows, clock, fired, passNow, queue, job, faults, mintVars, histVars>>

(* Slip: the ceiling is off by one. *)
SettledLate(t) ==
  IF verdict[t].kind = "retry" /\ job[t].attempts <= MaxAttempts
  THEN ReleaseForRetry(rows, job[t].id, verdict[t].reason)
  ELSE DeletePublishedSchedule(rows, job[t].id)

(* The row's bookkeeping, by id alone. *)
Settled(t) ==
  LET exhausted == job[t].attempts >= MaxAttempts
      id == job[t].id
      why == verdict[t].reason
  IN  IF verdict[t].kind = "ok" THEN DeletePublishedSchedule(rows, id)
      ELSE IF verdict[t].kind = "retry" /\ ~exhausted THEN ReleaseForRetry(rows, id, why)
      ELSE MarkFailed(rows, id, why)

(* If the bookkeeping rejects, the row keeps its lease. *)
Report(t) ==
  /\ pc[t] = "report"
  /\ \/ rows' = Settled(t) /\ UNCHANGED <<faults, lost>>
     \/ Fault /\ Lose({job[t].id}) /\ UNCHANGED rows
  /\ GoTo(t, Tail(queue[t]))
  /\ job' = [job EXCEPT ![t] = NoJob]
  /\ verdict' = [verdict EXCEPT ![t] = NoVerdict]
  /\ UNCHANGED <<clock, fired, mintVars, torn, reserved>>

(* The isolate is evicted, or the pass runs out of its budget. *)
Die(t) ==
  /\ pc[t] # "idle"
  /\ Fault
  /\ Lose(IF InFlight(t) THEN {job[t].id} ELSE {})
  /\ GoTo(t, <<>>)
  /\ job' = [job EXCEPT ![t] = NoJob]
  /\ verdict' = [verdict EXCEPT ![t] = NoVerdict]
  /\ UNCHANGED <<rows, clock, fired, mintVars, torn, reserved>>

-----------------------------------------------------------------------------
(* The writer *)

(* Schedule a draft, or move its pending row: at least a minute from now, so *)
(* due at a later pass.                                                      *)
Schedule(d, dueAt, announce) ==
  LET held == {id \in PendingOf(rows, d) : Claimed(rows, id)} IN
  \E id \in RowId :
    /\ dueAt > clock
    /\ PendingOf(rows, d) = {} => id \notin usedIds
    /\ rows' = UpsertSchedule(rows, id, d, dueAt, announce)
    /\ usedIds' = IF PendingOf(rows, d) = {} THEN usedIds \cup {id} ELSE usedIds
    /\ torn' = torn \cup held
    /\ lost' = [i \in RowId |-> IF i \in PendingOf(rows, d) THEN 0 ELSE lost[i]]
    /\ UNCHANGED <<clock, fired, passVars, faults, usedKeys, reserved>>

(* intent=unschedule with the row's id. *)
Cancel(id) ==
  /\ Exists(rows, id)
  /\ rows' = CancelSchedule(rows, id)
  /\ UNCHANGED <<clock, fired, passVars, faults, mintVars, histVars>>

(* intent=unschedule with the draft's id, deleting the draft, publishing it  *)
(* from the editor.                                                          *)
CancelForDraft(d) ==
  /\ RowsOf(rows, d) # {}
  /\ rows' = DeleteSchedulesForDraft(rows, d)
  /\ UNCHANGED <<clock, fired, passVars, faults, mintVars, histVars>>

(* "Publish now" takes the draft's unclaimed rows out of the queue. *)
TakeOver(d) ==
  /\ UnclaimedOf(rows, d) # {}
  /\ rows' = DeleteUnclaimedSchedulesForDraft(rows, d)
  /\ UNCHANGED <<clock, fired, passVars, faults, mintVars, histVars>>

-----------------------------------------------------------------------------
Publish(t) ==
  \/ Land(t)
  \/ \E v \in PublishAttempt : (v.kind = "ok" <=> v.reason = NoReason) /\ Answer(t, v)

Pass(t) ==
  \/ ReleaseStale(t) \/ ReadDue(t)
  \/ Claim(t) \/ Contended(t) \/ ClaimErrs(t)
  \/ Publish(t)
  \/ Report(t)

Writer ==
  \/ \E d \in Draft, dueAt \in 1..MaxDue, announce \in Announce : Schedule(d, dueAt, announce)
  \/ \E id \in RowId : Cancel(id)
  \/ \E d \in Draft : CancelForDraft(d) \/ TakeOver(d)

Next ==
  \/ Advance
  \/ \E t \in Tick : Fire(t) \/ Pass(t) \/ Die(t)
  \/ Writer

Spec == Init /\ [][Next]_vars

(* A pass that has not died keeps going, and the cron fires every hour.     *)
(* Nothing is assumed of the writer or of faults.                           *)
FairSpec ==
  /\ Spec
  /\ WF_vars(Advance)
  /\ WF_vars(\E t \in Tick : Fire(t))
  /\ \A t \in Tick : WF_vars(Pass(t))

-----------------------------------------------------------------------------
(* What the queue promises *)

PcState == {"idle", "release", "read", "claim", "publish", "landed", "report"}

TypeOK ==
  /\ rows \in Table
  /\ clock \in Nat /\ fired \in BOOLEAN /\ faults \in Nat
  /\ pc \in [Tick -> PcState]
  /\ passNow \in [Tick -> Nat]
  /\ queue \in [Tick -> Seq(DuePost)]
  /\ \A t \in Tick : queue[t] = <<>> => pc[t] \in {"idle", "release", "read"}
  /\ job \in [Tick -> ClaimedPost \cup {NoJob}]
  /\ \A t \in Tick : InFlight(t) <=> job[t] # NoJob
  /\ verdict \in [Tick -> PublishAttempt]
  /\ usedIds \in SUBSET RowId /\ usedKeys \in SUBSET Key
  /\ lost \in [RowId -> Nat] /\ torn \in SUBSET RowId
  /\ reserved \in [RowId -> Key \cup {NoKey}]

(* "Callers MUST NOT touch a row they did not win": two passes never work   *)
(* on one row at the same time, through overlapping and retried passes,     *)
(* dead passes and stale leases.  The one exception is a row the writer     *)
(* moved while a pass held it: the move clears the lease.                   *)
LeaseExclusive ==
  \A t, u \in Tick :
    InFlight(t) /\ InFlight(u) /\ t # u /\ job[t].id = job[u].id => job[t].id \in torn

(* "A retry can't publish twice": every attempt on a row, past and present, *)
(* writes under the key its first claim reserved, whoever moved or released *)
(* the row since, and no other row ever gets that key.                      *)
OneKeyPerRow ==
  /\ \A t \in Tick : InFlight(t) => job[t].rkey = reserved[job[t].id]
  /\ \A id \in RowId : Exists(rows, id) => rows[id].rkey = reserved[id]
  /\ \A i, j \in RowId : reserved[i] # NoKey /\ reserved[i] = reserved[j] => i = j

(* "Nothing retries forever": a row waiting for a pass has an attempt left, *)
(* but for the attempts that died without reporting.                        *)
AttemptCeiling ==
  \A id \in RowId :
    Claimable(rows, id) /\ id \notin torn => rows[id].attempts < MaxAttempts + lost[id]

(* A failed row failed on its own account: it was tried, and says why. *)
FailedForCause ==
  \A id \in RowId :
    Exists(rows, id) /\ rows[id].status = "failed" /\ id \notin torn =>
      rows[id].attempts > 0 /\ rows[id].lastError # NoReason /\ rows[id].claimedAt = NoTime

(* "The writer's post is only ever late, not lost": some hour a post that   *)
(* came due is published, failed with a reason, or cancelled.               *)
Settles == \A id \in RowId : Pending(rows, id) ~> ~Pending(rows, id)

-----------------------------------------------------------------------------
(* What the code's comments say and the code does not do *)

(* "A released row cannot loop" and the count at claim time "stops a        *)
(* crash-loop from retrying forever": no row is tried more than MaxAttempts *)
(* times.  Nothing on the claim's side looks at the count.                  *)
AttemptsBounded == \A id \in RowId : Exists(rows, id) => rows[id].attempts <= MaxAttempts

(* A moved post "gets its own full budget of tries": no row fails untried.  *)
(* An attempt made before the move fails the row it finds under its id.     *)
FailedRowWasTried ==
  \A id \in RowId :
    Exists(rows, id) /\ rows[id].status = "failed" => rows[id].attempts > 0
=============================================================================
