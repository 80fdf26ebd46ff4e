------------------------ MODULE SchedulePass_proofs ------------------------
(***************************************************************************)
(* Proofs about the schedule queue, for any number of passes, rows, drafts *)
(* and keys, any lengths of time, and any number of faults.                *)
(***************************************************************************)
EXTENDS SchedulePass, SequenceTheorems, TLAPS

-----------------------------------------------------------------------------
(* What each statement on scheduled_posts does to a row, and that it leaves *)
(* a table.                                                                 *)

(* A row that exists is a row. *)
LEMMA RowsAreRows ==
  ASSUME NEW R \in Table, NEW id \in RowId, Exists(R, id)
  PROVE  R[id] \in Row
BY DEF Table, Exists

(* Fields of a row can be set to values of their types. *)
LEMMA RowFields ==
  ASSUME NEW r \in Row, NEW c \in Nat \cup {NoTime}, NEW k \in Key \cup {NoKey},
         NEW e \in Reason \cup {NoReason}, NEW s \in {"pending", "failed"},
         NEW n \in Nat
  PROVE  /\ [r EXCEPT !.claimedAt = c] \in Row
         /\ [r EXCEPT !.claimedAt = c, !.lastError = e] \in Row
         /\ [r EXCEPT !.status = s, !.claimedAt = c, !.lastError = e] \in Row
         /\ [r EXCEPT !.claimedAt = c, !.attempts = n, !.rkey = k] \in Row
         /\ [r EXCEPT !.rkey = k] \in Row
<1>1. [r EXCEPT !.claimedAt = c] \in Row
  BY DEF Row
<1>2. [r EXCEPT !.claimedAt = c, !.lastError = e] \in Row
  BY DEF Row
<1>3. [r EXCEPT !.status = s, !.claimedAt = c, !.lastError = e] \in Row
  BY DEF Row
<1>4. [r EXCEPT !.claimedAt = c, !.attempts = n, !.rkey = k] \in Row
  BY DEF Row
<1>5. [r EXCEPT !.rkey = k] \in Row
  BY DEF Row
<1>6. QED
  BY <1>1, <1>2, <1>3, <1>4, <1>5

(* The due lookup answers with a list of due posts. *)
LEMMA SelectDuePostsType ==
  ASSUME NEW R \in Table, NEW now \in Nat, NEW limit \in Nat,
         NEW q \in SelectDuePosts(R, now, limit)
  PROVE  q \in Seq(DuePost)
<1>1. DuePosts(R, now) \subseteq DuePost
  <2>1. SUFFICES ASSUME NEW i \in RowId, Exists(R, i)
                 PROVE  [id |-> i, draft |-> R[i].draft, announce |-> R[i].announce] \in DuePost
    BY DEF DuePosts, Pending
  <2>2. QED
    BY <2>1, RowsAreRows DEF DuePost, Row
<1>2. PICK n \in 0..limit : q \in [1..n -> DuePosts(R, now)]
  BY DEF SelectDuePosts
<1>3. q \in [1..n -> DuePost]
  BY <1>1, <1>2
<1>4. QED
  BY <1>2, <1>3, SeqDef

(* The claim sets the lease and the key of its row, and nothing else. *)
LEMMA ClaimDuePostRows ==
  ASSUME NEW R \in Table, NEW id \in RowId, Exists(R, id),
         NEW now \in Nat, NEW k \in Key
  PROVE  /\ ClaimDuePost(R, id, now, k) \in Table
         /\ \A i \in RowId : i # id => ClaimDuePost(R, id, now, k)[i] = R[i]
         /\ Exists(ClaimDuePost(R, id, now, k), id)
         /\ ClaimDuePost(R, id, now, k)[id].claimedAt = now
         /\ ClaimDuePost(R, id, now, k)[id].rkey = Coalesce(R[id].rkey, k)
         /\ ClaimDuePost(R, id, now, k)[id].attempts = R[id].attempts + 1
<1> DEFINE r == [R[id] EXCEPT !.claimedAt = now, !.attempts = R[id].attempts + 1,
                              !.rkey = Coalesce(R[id].rkey, k)]
<1>1. R[id] \in Row
  BY RowsAreRows
<1>2. Coalesce(R[id].rkey, k) \in Key \cup {NoKey}
  BY <1>1 DEF Coalesce, Row
<1>3. r \in Row
  <2>1. R[id].attempts + 1 \in Nat
    BY <1>1 DEF Row
  <2>2. QED
    BY <1>1, <1>2, <2>1, RowFields
<1>4. ClaimDuePost(R, id, now, k) = [R EXCEPT ![id] = r]
  BY <1>1 DEF ClaimDuePost, Table, Row
<1>5. r.claimedAt = now /\ r.rkey = Coalesce(R[id].rkey, k) /\ r.attempts = R[id].attempts + 1
  BY <1>1 DEF Row
<1>6. QED
  BY <1>3, <1>4, <1>5, NoRowAssumption DEF Table, Exists

(* The bookkeeping of a pass touches its row only, and never the key. *)
LEMMA BookkeepingRows ==
  ASSUME NEW R \in Table, NEW id \in RowId, NEW e \in Reason \cup {NoReason},
         NEW S,
         \/ S = DeletePublishedSchedule(R, id)
         \/ S = MarkFailed(R, id, e)
         \/ S = ReleaseForRetry(R, id, e)
  PROVE  /\ S \in Table
         /\ \A i \in RowId : i # id => S[i] = R[i]
         /\ Exists(S, id) => Exists(R, id) /\ S[id].rkey = R[id].rkey
<1>1. CASE S = DeletePublishedSchedule(R, id)
  BY <1>1 DEF DeletePublishedSchedule, Table, Exists
<1>2. CASE ~Exists(R, id) /\ S = R
  BY <1>2
<1>3. CASE Exists(R, id) /\ S = MarkFailed(R, id, e)
  <2> DEFINE r == [R[id] EXCEPT !.status = "failed", !.claimedAt = NoTime, !.lastError = e]
  <2>1. R[id] \in Row
    BY <1>3, RowsAreRows
  <2>2. r \in Row /\ r.rkey = R[id].rkey
    BY <2>1, RowFields DEF Row
  <2>3. S = [R EXCEPT ![id] = r]
    BY <1>3, <2>1 DEF MarkFailed, Table, Row
  <2>4. QED
    BY <1>3, <2>2, <2>3, NoRowAssumption DEF Table, Exists
<1>4. CASE Exists(R, id) /\ S = ReleaseForRetry(R, id, e)
  <2> DEFINE r == [R[id] EXCEPT !.claimedAt = NoTime, !.lastError = e]
  <2>1. R[id] \in Row
    BY <1>4, RowsAreRows
  <2>2. r \in Row /\ r.rkey = R[id].rkey
    BY <2>1, RowFields DEF Row
  <2>3. S = [R EXCEPT ![id] = r]
    BY <1>4, <2>1 DEF ReleaseForRetry, Table, Row
  <2>4. QED
    BY <1>4, <2>2, <2>3, NoRowAssumption DEF Table, Exists
<1>5. QED
  BY <1>1, <1>2, <1>3, <1>4 DEF MarkFailed, ReleaseForRetry

(* Releasing abandoned leases frees the stale rows and leaves the others.  *)
LEMMA ReleaseStaleClaimsRows ==
  ASSUME NEW R \in Table, NEW before \in Int
  PROVE  /\ ReleaseStaleClaims(R, before) \in Table
         /\ \A i \in RowId : ~Stale(R, i, before) => ReleaseStaleClaims(R, before)[i] = R[i]
         /\ \A i \in RowId : Exists(ReleaseStaleClaims(R, before), i) <=> Exists(R, i)
         /\ \A i \in RowId : Exists(R, i) => ReleaseStaleClaims(R, before)[i].rkey = R[i].rkey
<1> DEFINE S == ReleaseStaleClaims(R, before)
<1>1. SUFFICES ASSUME NEW i \in RowId, Stale(R, i, before)
               PROVE  S[i] \in Row /\ Exists(R, i) /\ S[i].rkey = R[i].rkey
  BY NoRowAssumption DEF ReleaseStaleClaims, Table, Exists, Stale, Pending
<1>2. Exists(R, i) /\ R[i] \in Row
  BY <1>1, RowsAreRows DEF Stale, Pending
<1>3. S[i] = [R[i] EXCEPT !.claimedAt = NoTime]
  BY <1>1 DEF ReleaseStaleClaims
<1>4. [R[i] EXCEPT !.claimedAt = NoTime] \in Row
  BY <1>2, RowFields
<1>5. [R[i] EXCEPT !.claimedAt = NoTime].rkey = R[i].rkey
  BY <1>2 DEF Row
<1>6. QED
  BY <1>2, <1>3, <1>4, <1>5

(* Deleting rows leaves the others. *)
LEMMA DeleteRowsRows ==
  ASSUME NEW R \in Table, NEW ids \in SUBSET RowId
  PROVE  /\ DeleteRows(R, ids) \in Table
         /\ \A i \in RowId : Exists(DeleteRows(R, ids), i) =>
              Exists(R, i) /\ DeleteRows(R, ids)[i] = R[i]
BY DEF DeleteRows, Table, Exists

(* Scheduling a draft that has no pending row adds a row under the fresh   *)
(* id; otherwise it starts the pending row over, under its own key.        *)
LEMMA UpsertScheduleRows ==
  ASSUME NEW R \in Table, NEW id \in RowId, NEW d \in Draft, NEW dueAt \in Nat,
         NEW announce \in BOOLEAN
  PROVE  /\ UpsertSchedule(R, id, d, dueAt, announce) \in Table
         /\ PendingOf(R, d) = {} =>
              UpsertSchedule(R, id, d, dueAt, announce) =
                [R EXCEPT ![id] = NewRow(d, dueAt, announce)]
         /\ PendingOf(R, d) # {} =>
              \A i \in RowId :
                /\ i \notin PendingOf(R, d) =>
                     UpsertSchedule(R, id, d, dueAt, announce)[i] = R[i]
                /\ Exists(UpsertSchedule(R, id, d, dueAt, announce), i) <=> Exists(R, i)
                /\ Exists(R, i) =>
                     UpsertSchedule(R, id, d, dueAt, announce)[i].rkey = R[i].rkey
<1> DEFINE S == UpsertSchedule(R, id, d, dueAt, announce)
           new == NewRow(d, dueAt, announce)
<1>1. new \in Row
  BY DEF NewRow, Row
<1>2. CASE PendingOf(R, d) = {}
  BY <1>1, <1>2 DEF UpsertSchedule, Table
<1>3. CASE PendingOf(R, d) # {}
  <2>1. \A i \in RowId :
          S[i] = IF i \in PendingOf(R, d) THEN [new EXCEPT !.rkey = R[i].rkey] ELSE R[i]
    BY <1>3 DEF UpsertSchedule
  <2>2. ASSUME NEW i \in PendingOf(R, d)
        PROVE  S[i] \in Row /\ Exists(R, i) /\ S[i].rkey = R[i].rkey
    <3>1. i \in RowId /\ Exists(R, i)
      BY <2>2 DEF PendingOf, RowsOf
    <3>2. R[i].rkey \in Key \cup {NoKey}
      BY <3>1, RowsAreRows DEF Row
    <3>3. S[i] = [new EXCEPT !.rkey = R[i].rkey]
      BY <2>1, <3>1
    <3>4. [new EXCEPT !.rkey = R[i].rkey] \in Row
      BY <1>1, <3>2, RowFields
    <3>5. [new EXCEPT !.rkey = R[i].rkey].rkey = R[i].rkey
      BY <1>1 DEF Row
    <3>6. QED
      BY <3>1, <3>3, <3>4, <3>5
  <2>3. S \in Table
    BY <1>3, <2>1, <2>2 DEF UpsertSchedule, Table
  <2>4. QED
    BY <1>3, <2>1, <2>2, <2>3, NoRowAssumption DEF Exists
<1>4. QED
  BY <1>2, <1>3

-----------------------------------------------------------------------------

(***************************************************************************)
(* The keys.  Beyond what OneKeyPerRow says: a row id is minted before a   *)
(* row has it, a key before it is reserved, and an attempt has a key.      *)
(***************************************************************************)
IdsMinted ==
  /\ \A id \in RowId : Exists(rows, id) => id \in usedIds
  /\ \A id \in RowId : reserved[id] # NoKey => id \in usedIds
  /\ \A t \in Tick : InFlight(t) => job[t].id \in usedIds

KeysMinted ==
  /\ \A id \in RowId : reserved[id] # NoKey => reserved[id] \in usedKeys
  /\ \A t \in Tick : InFlight(t) => reserved[job[t].id] # NoKey

KeyInv == TypeOK /\ IdsMinted /\ KeysMinted /\ OneKeyPerRow

(***************************************************************************)
(* The leases.  A pass that runs is younger than TickLife, and a row it    *)
(* works on, unless the writer moved it, carries the pass's own lease.     *)
(***************************************************************************)
PassesAreYoung ==
  \A t \in Tick : pc[t] # "idle" => passNow[t] <= clock /\ clock <= passNow[t] + TickLife

LeaseHeld ==
  \A t \in Tick :
    InFlight(t) /\ job[t].id \notin torn /\ Exists(rows, job[t].id) =>
      rows[job[t].id].claimedAt = passNow[t]

LeaseInv == KeyInv /\ PassesAreYoung /\ LeaseHeld /\ LeaseExclusive
-----------------------------------------------------------------------------
(* Facts several steps of a pass share. *)

(* Going on to the rest of the queue keeps the types of what it writes. *)
LEMMA GoToType ==
  ASSUME TypeOK, NEW t \in Tick, NEW q \in Seq(DuePost), GoTo(t, q)
  PROVE  /\ queue' \in [Tick -> Seq(DuePost)]
         /\ pc' \in [Tick -> PcState]
         /\ passNow' \in [Tick -> Nat]
         /\ pc'[t] \in {"idle", "claim"} /\ (queue'[t] = <<>> => pc'[t] = "idle")
         /\ \A u \in Tick : u # t => /\ queue'[u] = queue[u] /\ pc'[u] = pc[u]
                                    /\ passNow'[u] = passNow[u]
BY DEF TypeOK, GoTo, PcState

(* A pass past its due lookup has a post to handle. *)
LEMMA QueueHead ==
  ASSUME TypeOK, NEW t \in Tick, pc[t] \in {"claim", "publish", "landed", "report"}
  PROVE  Head(queue[t]) \in DuePost /\ Tail(queue[t]) \in Seq(DuePost)
BY HeadTailProperties DEF TypeOK

(* Counting lost attempts keeps the type of the count. *)
LEMMA LoseType ==
  ASSUME TypeOK, NEW ids, Lose(ids)
  PROVE  lost' \in [RowId -> Nat]
BY DEF TypeOK, Lose

(* A lease leaves a table in which the row is held under a key. *)
LEMMA TakeLeaseRows ==
  ASSUME TypeOK, NEW id \in RowId, Claimable(rows, id), NEW now \in Nat,
         TakeLease(id, now)
  PROVE  \E k \in Key :
           /\ rows' = ClaimDuePost(rows, id, now, k)
           /\ rows' \in Table
           /\ \A i \in RowId : i # id => rows'[i] = rows[i]
           /\ Exists(rows', id)
           /\ rows'[id].claimedAt = now
           /\ rows'[id].rkey = k
           /\ rows'[id].attempts \in Nat
           /\ rows[id].rkey = NoKey => k \notin usedKeys
           /\ rows[id].rkey # NoKey => k = rows[id].rkey
           /\ usedKeys' = usedKeys \cup {k}
           /\ reserved' = [reserved EXCEPT ![id] = k]
<1>1. rows \in Table /\ Exists(rows, id) /\ rows[id] \in Row
  BY RowsAreRows DEF TypeOK, Claimable, Pending
<1>2. PICK k \in IF rows[id].rkey = NoKey THEN Key \ usedKeys ELSE {rows[id].rkey} :
        /\ rows' = ClaimDuePost(rows, id, now, k)
        /\ usedKeys' = usedKeys \cup {k}
        /\ reserved' = [reserved EXCEPT ![id] = k]
  BY DEF TakeLease
<1>3. /\ k \in Key
      /\ rows[id].rkey = NoKey => k \notin usedKeys
      /\ rows[id].rkey # NoKey => k = rows[id].rkey
  BY <1>1, <1>2 DEF Row
<1>4. Coalesce(rows[id].rkey, k) = k
  BY <1>3 DEF Coalesce
<1>5. rows[id].attempts + 1 \in Nat
  BY <1>1 DEF Row
<1>6. /\ ClaimDuePost(rows, id, now, k) \in Table
      /\ \A i \in RowId : i # id => ClaimDuePost(rows, id, now, k)[i] = rows[i]
      /\ Exists(ClaimDuePost(rows, id, now, k), id)
      /\ ClaimDuePost(rows, id, now, k)[id].claimedAt = now
      /\ ClaimDuePost(rows, id, now, k)[id].rkey = k
      /\ ClaimDuePost(rows, id, now, k)[id].attempts \in Nat
  BY <1>1, <1>3, <1>4, <1>5, ClaimDuePostRows
<1>7. QED
  BY <1>2, <1>3, <1>6

(* The bookkeeping of an attempt touches the attempt's row only. *)
LEMMA SettledRows ==
  ASSUME TypeOK, NEW t \in Tick, pc[t] = "report"
  PROVE  /\ job[t] \in ClaimedPost /\ job[t].id \in RowId
         /\ Settled(t) \in Table
         /\ \A i \in RowId : i # job[t].id => Settled(t)[i] = rows[i]
         /\ Exists(Settled(t), job[t].id) =>
              /\ Exists(rows, job[t].id)
              /\ Settled(t)[job[t].id].rkey = rows[job[t].id].rkey
<1>1. job[t] \in ClaimedPost /\ job[t].id \in RowId
  BY DEF TypeOK, InFlight, ClaimedPost
<1>2. verdict[t].reason \in Reason \cup {NoReason}
  BY DEF TypeOK, PublishAttempt
<1>3. \/ Settled(t) = DeletePublishedSchedule(rows, job[t].id)
      \/ Settled(t) = MarkFailed(rows, job[t].id, verdict[t].reason)
      \/ Settled(t) = ReleaseForRetry(rows, job[t].id, verdict[t].reason)
  BY DEF Settled
<1>4. rows \in Table
  BY DEF TypeOK
<1>5. QED
  BY <1>1, <1>2, <1>3, <1>4, BookkeepingRows

(* Whatever the writer does but schedule only deletes rows. *)
LEMMA WriterDeletes ==
  ASSUME TypeOK,
         \/ \E id \in RowId : Cancel(id)
         \/ \E d \in Draft : CancelForDraft(d) \/ TakeOver(d)
  PROVE  \E ids \in SUBSET RowId :
           /\ rows' = DeleteRows(rows, ids)
           /\ UNCHANGED <<clock, fired, passVars, faults, mintVars, histVars>>
<1>1. CASE \E id \in RowId : Cancel(id)
  <2>1. PICK id \in RowId : Cancel(id)
    BY <1>1
  <2>2. rows' = DeleteRows(rows, {id})
    BY <2>1 DEF Cancel, CancelSchedule, DeleteRows, TypeOK, Table
  <2>3. QED
    BY <2>1, <2>2 DEF Cancel
<1>2. CASE \E d \in Draft : CancelForDraft(d)
  BY <1>2 DEF CancelForDraft, DeleteSchedulesForDraft, RowsOf
<1>3. CASE \E d \in Draft : TakeOver(d)
  BY <1>3 DEF TakeOver, DeleteUnclaimedSchedulesForDraft, UnclaimedOf, RowsOf
<1>4. QED
  BY <1>1, <1>2, <1>3

-----------------------------------------------------------------------------
(* Type correctness. *)

LEMMA InitTypeOK == Init => TypeOK
<1> SUFFICES ASSUME Init PROVE TypeOK
  OBVIOUS
<1>1. \A t \in Tick : queue[t] \in Seq(DuePost)
  BY EmptySeq DEF Init
<1>2. NoVerdict \in PublishAttempt
  BY DEF NoVerdict, PublishAttempt
<1>3. rows \in Table
  BY DEF Init, Table
<1>4. QED
  BY <1>1, <1>2, <1>3 DEF Init, TypeOK, PcState, InFlight

(* The passes' steps. *)
LEMMA PassTypeOK ==
  ASSUME TypeOK, NEW t \in Tick, Fire(t) \/ Pass(t) \/ Die(t)
  PROVE  TypeOK'
<1> USE BoundAssumption
<1>0. NoVerdict \in PublishAttempt
  BY DEF NoVerdict, PublishAttempt
<1>1. CASE Fire(t)
  BY <1>1 DEF Fire, TypeOK, PcState, InFlight, mintVars, histVars
<1>2. CASE ReleaseStale(t)
  <2>1. rows' \in Table
    <3>1. passNow[t] - StaleAge \in Int
      BY DEF TypeOK
    <3>2. QED
      BY <1>2, <3>1, ReleaseStaleClaimsRows DEF ReleaseStale, TypeOK
  <2>2. faults' \in Nat
    BY <1>2 DEF ReleaseStale, TypeOK, Fault
  <2>3. QED
    BY <1>2, <2>1, <2>2 DEF ReleaseStale, TypeOK, PcState, InFlight, mintVars, histVars
<1>3. CASE ReadDue(t)
  <2>1. PICK q \in Seq(DuePost) : GoTo(t, q)
    BY <1>3, SelectDuePostsType, EmptySeq DEF ReadDue, TypeOK
  <2>2. faults' \in Nat
    BY <1>3 DEF ReadDue, TypeOK, Fault
  <2>3. QED
    BY <1>3, <2>1, <2>2, GoToType DEF ReadDue, TypeOK, InFlight, mintVars, histVars
<1>4. CASE Claim(t)
  <2> DEFINE post == Head(queue[t])
             claimed == [id |-> post.id, draft |-> post.draft, announce |-> post.announce,
                         rkey |-> rows'[post.id].rkey, attempts |-> rows'[post.id].attempts]
  <2>1. post \in DuePost
    BY <1>4, QueueHead DEF Claim
  <2>2. PICK k \in Key :
          /\ rows' \in Table
          /\ rows'[post.id].rkey = k
          /\ rows'[post.id].attempts \in Nat
          /\ usedKeys' = usedKeys \cup {k}
          /\ reserved' = [reserved EXCEPT ![post.id] = k]
    BY <1>4, <2>1, TakeLeaseRows DEF Claim, DuePost, TypeOK
  <2>3. claimed \in ClaimedPost
    BY <2>1, <2>2 DEF DuePost, ClaimedPost
  <2>4. job' = [job EXCEPT ![t] = claimed]
    BY <1>4 DEF Claim
  <2>5. QED
    BY <1>4, <2>2, <2>3, <2>4, NoJobAssumption
      DEF Claim, TypeOK, PcState, InFlight
<1>5. CASE Contended(t)
  BY <1>5, QueueHead, GoToType DEF Contended, TypeOK, InFlight, mintVars, histVars
<1>6. CASE ClaimErrs(t)
  <2> DEFINE post == Head(queue[t])
  <2>1. post \in DuePost /\ Tail(queue[t]) \in Seq(DuePost)
    BY <1>6, QueueHead DEF ClaimErrs
  <2>2. /\ rows' \in Table /\ usedKeys' \in SUBSET Key
        /\ reserved' \in [RowId -> Key \cup {NoKey}] /\ lost' \in [RowId -> Nat]
    <3>1. CASE UNCHANGED <<rows, usedKeys, reserved, lost>>
      BY <3>1 DEF TypeOK
    <3>2. CASE Claimable(rows, post.id) /\ TakeLease(post.id, passNow[t]) /\ Lose({post.id})
      <4>1. PICK k \in Key :
              /\ rows' \in Table
              /\ usedKeys' = usedKeys \cup {k}
              /\ reserved' = [reserved EXCEPT ![post.id] = k]
        BY <2>1, <3>2, TakeLeaseRows DEF DuePost, TypeOK
      <4>2. QED
        BY <3>2, <4>1, LoseType DEF TypeOK
    <3>3. QED
      BY <1>6, <3>1, <3>2 DEF ClaimErrs
  <2>3. /\ queue' \in [Tick -> Seq(DuePost)] /\ pc' \in [Tick -> PcState]
        /\ passNow' \in [Tick -> Nat]
        /\ pc'[t] \in {"idle", "claim"} /\ (queue'[t] = <<>> => pc'[t] = "idle")
        /\ \A u \in Tick : u # t => queue'[u] = queue[u] /\ pc'[u] = pc[u]
    BY <1>6, <2>1, GoToType DEF ClaimErrs
  <2>4. faults' \in Nat
    BY <1>6 DEF ClaimErrs, Fault, TypeOK
  <2>5. \A u \in Tick : /\ queue'[u] = <<>> => pc'[u] \in {"idle", "release", "read"}
                       /\ InFlight(u)' <=> job'[u] # NoJob
    BY <1>6, <2>3 DEF ClaimErrs, TypeOK, InFlight
  <2>6. QED
    BY <1>6, <2>2, <2>3, <2>4, <2>5 DEF ClaimErrs, TypeOK
<1>7. CASE Land(t)
  <2>1. RowsOf(rows, job[t].draft) \in SUBSET RowId
    BY DEF RowsOf
  <2>2. rows' \in Table
    BY <1>7, <2>1, DeleteRowsRows DEF Land, TypeOK, DeleteSchedulesForDraft
  <2>3. QED
    BY <1>7, <2>2 DEF Land, TypeOK, Fault, PcState, InFlight, mintVars, histVars
<1>8. CASE \E v \in PublishAttempt : Answer(t, v)
  BY <1>8 DEF Answer, TypeOK, PcState, InFlight, mintVars, histVars
<1>9. CASE Report(t)
  <2>1. Tail(queue[t]) \in Seq(DuePost)
    BY <1>9, QueueHead DEF Report
  <2>2. rows' \in Table
    BY <1>9, SettledRows DEF Report, TypeOK
  <2>3. lost' \in [RowId -> Nat] /\ faults' \in Nat
    BY <1>9, LoseType DEF Report, TypeOK, Fault
  <2>4. QED
    BY <1>0, <1>9, <2>1, <2>2, <2>3, GoToType DEF Report, TypeOK, InFlight, mintVars
<1>10. CASE Die(t)
  <2>1. lost' \in [RowId -> Nat] /\ faults' \in Nat
    BY <1>10, LoseType DEF Die, TypeOK, Fault
  <2>2. QED
    BY <1>0, <1>10, <2>1, GoToType, EmptySeq DEF Die, TypeOK, InFlight, mintVars
<1>11. QED
  BY <1>1, <1>2, <1>3, <1>4, <1>5, <1>6, <1>7, <1>8, <1>9, <1>10 DEF Pass, Publish

(* The writer's steps. *)
LEMMA WriterTypeOK ==
  ASSUME TypeOK, Writer
  PROVE  TypeOK'
<1>1. CASE \E d \in Draft, dueAt \in 1..MaxDue, announce \in Announce :
             Schedule(d, dueAt, announce)
  <2>1. PICK d \in Draft, dueAt \in 1..MaxDue, announce \in Announce :
          Schedule(d, dueAt, announce)
    BY <1>1
  <2>2. PICK id \in RowId :
          /\ rows' = UpsertSchedule(rows, id, d, dueAt, announce)
          /\ usedIds' = IF PendingOf(rows, d) = {} THEN usedIds \cup {id} ELSE usedIds
    BY <2>1 DEF Schedule
  <2>3. rows' \in Table
    BY <2>2, BoundAssumption, UpsertScheduleRows DEF TypeOK
  <2>4. usedIds' \in SUBSET RowId /\ torn' \in SUBSET RowId /\ lost' \in [RowId -> Nat]
    BY <2>1, <2>2 DEF Schedule, TypeOK, PendingOf, RowsOf
  <2>5. QED
    BY <2>1, <2>3, <2>4 DEF Schedule, TypeOK, passVars, InFlight
<1>2. CASE \E ids \in SUBSET RowId :
             /\ rows' = DeleteRows(rows, ids)
             /\ UNCHANGED <<clock, fired, passVars, faults, mintVars, histVars>>
  BY <1>2, DeleteRowsRows DEF TypeOK, passVars, mintVars, histVars, InFlight
<1>3. QED
  BY <1>1, <1>2, WriterDeletes DEF Writer

(* TypeOK is inductive. *)
LEMMA TypeOKStep ==
  ASSUME TypeOK, [Next]_vars
  PROVE  TypeOK'
<1>1. CASE Advance
  <2>1. clock' \in Nat
    <3>1. clock \in Nat
      BY DEF TypeOK
    <3>2. clock' = clock + 1
      BY <1>1 DEF Advance
    <3>3. QED
      BY <3>1, <3>2
  <2>2. UNCHANGED <<rows, pc, passNow, queue, job, verdict, faults, usedIds, usedKeys,
                    lost, torn, reserved>>
    BY <1>1 DEF Advance, passVars, mintVars, histVars
  <2>3. fired' \in BOOLEAN
    BY <1>1, Zenon DEF Advance
  <2>4. QED
    BY <2>1, <2>2, <2>3 DEF TypeOK, InFlight
<1>2. CASE \E t \in Tick : Fire(t) \/ Pass(t) \/ Die(t)
  BY <1>2, PassTypeOK
<1>3. CASE Writer
  BY <1>3, WriterTypeOK
<1>4. CASE UNCHANGED vars
  BY <1>4 DEF vars, passVars, mintVars, histVars, TypeOK, InFlight
<1>5. QED
  BY <1>1, <1>2, <1>3, <1>4 DEF Next

(* Every variable keeps its type, in every instance. *)
THEOREM TypeCorrect == Spec => []TypeOK
<1>1. TypeOK /\ [Next]_vars => TypeOK'
  BY TypeOKStep
<1>2. QED
  BY <1>1, InitTypeOK, PTL DEF Spec

-----------------------------------------------------------------------------
(* The keys. *)

(* A step that reserves no key and makes no row keeps the keys as they are, *)
(* if the attempts and rows it leaves were there before.                    *)
LEMMA KeysStay ==
  ASSUME KeyInv, TypeOK', reserved' = reserved,
         usedIds \subseteq usedIds', usedKeys \subseteq usedKeys',
         \A t \in Tick : InFlight(t)' => InFlight(t) /\ job'[t] = job[t],
         \A id \in RowId : Exists(rows', id) =>
           Exists(rows, id) /\ rows'[id].rkey = rows[id].rkey
  PROVE  KeyInv'
<1>1. IdsMinted'
  BY DEF KeyInv, IdsMinted
<1>2. KeysMinted'
  BY DEF KeyInv, KeysMinted
<1>3. OneKeyPerRow'
  BY DEF KeyInv, OneKeyPerRow
<1>4. QED
  BY <1>1, <1>2, <1>3 DEF KeyInv

(* A lease reserves a new key for a row that has none, and keeps the key of *)
(* one that has.                                                            *)
LEMMA TakeLeaseKeys ==
  ASSUME KeyInv, TypeOK', NEW id \in RowId, Claimable(rows, id),
         NEW now \in Nat, TakeLease(id, now), usedIds' = usedIds,
         \A t \in Tick : InFlight(t)' =>
           \/ InFlight(t) /\ job'[t] = job[t]
           \/ job'[t].id = id /\ job'[t].rkey = rows'[id].rkey
  PROVE  KeyInv'
<1>1. PICK k \in Key :
        /\ \A i \in RowId : i # id => rows'[i] = rows[i]
        /\ Exists(rows', id)
        /\ rows'[id].rkey = k
        /\ rows[id].rkey = NoKey => k \notin usedKeys
        /\ rows[id].rkey # NoKey => k = rows[id].rkey
        /\ usedKeys' = usedKeys \cup {k}
        /\ reserved' = [reserved EXCEPT ![id] = k]
  BY TakeLeaseRows DEF KeyInv
<1>2. Exists(rows, id) /\ k # NoKey
  BY NullAssumption DEF Claimable, Pending
<1>3. /\ reserved'[id] = k
      /\ \A i \in RowId : i # id => reserved'[i] = reserved[i]
  BY <1>1 DEF KeyInv, TypeOK
<1>4. rows[id].rkey = reserved[id]
  BY <1>2 DEF KeyInv, OneKeyPerRow
<1>5. reserved[id] # NoKey => k = reserved[id]
  BY <1>1, <1>4
<1>6. \A t \in Tick : InFlight(t) => reserved'[job[t].id] = reserved[job[t].id]
  <2> SUFFICES ASSUME NEW t \in Tick, InFlight(t)
               PROVE  reserved'[job[t].id] = reserved[job[t].id]
    OBVIOUS
  <2>1. job[t].id \in RowId /\ reserved[job[t].id] # NoKey
    BY DEF KeyInv, KeysMinted, TypeOK, ClaimedPost
  <2>2. QED
    BY <2>1, <1>3, <1>5
<1>7. IdsMinted'
  <2>1. \A i \in RowId : Exists(rows', i) => Exists(rows, i)
    BY <1>1, <1>2 DEF Exists
  <2>2. id \in usedIds
    BY <1>2 DEF KeyInv, IdsMinted
  <2>3. QED
    BY <1>3, <2>1, <2>2 DEF KeyInv, IdsMinted
<1>8. KeysMinted'
  <2>1. \A i \in RowId : reserved'[i] # NoKey => reserved'[i] \in usedKeys'
    BY <1>1, <1>3 DEF KeyInv, KeysMinted
  <2>2. \A t \in Tick : InFlight(t)' => reserved'[job'[t].id] # NoKey
    BY <1>2, <1>3, <1>6 DEF KeyInv, KeysMinted
  <2>3. QED
    BY <2>1, <2>2 DEF KeysMinted
<1>9. OneKeyPerRow'
  <2>1. \A t \in Tick : InFlight(t)' => job'[t].rkey = reserved'[job'[t].id]
    BY <1>1, <1>3, <1>6 DEF KeyInv, OneKeyPerRow
  <2>2. \A i \in RowId : Exists(rows', i) => rows'[i].rkey = reserved'[i]
    BY <1>1, <1>3 DEF KeyInv, OneKeyPerRow, Exists
  <2>3. \A i \in RowId : i # id => reserved[i] # k \/ reserved[i] = reserved[id]
    BY <1>1, <1>2, <1>4 DEF KeyInv, KeysMinted
  <2>4. \A i, j \in RowId : reserved'[i] # NoKey /\ reserved'[i] = reserved'[j] => i = j
    BY <1>2, <1>3, <1>5, <2>3 DEF KeyInv, OneKeyPerRow
  <2>5. QED
    BY <2>1, <2>2, <2>4 DEF OneKeyPerRow
<1>10. QED
  BY <1>7, <1>8, <1>9 DEF KeyInv

(* The passes' steps. *)
LEMMA PassKeys ==
  ASSUME KeyInv, TypeOK', NEW t \in Tick, Fire(t) \/ Pass(t) \/ Die(t)
  PROVE  KeyInv'
<1>0. TypeOK
  BY DEF KeyInv
<1>1. CASE \/ Fire(t) \/ ReadDue(t) \/ Contended(t) \/ Die(t)
           \/ \E v \in PublishAttempt : Answer(t, v)
  <2>1. rows' = rows /\ reserved' = reserved /\ usedIds' = usedIds /\ usedKeys' = usedKeys
    BY <1>1 DEF Fire, ReadDue, Contended, Die, Answer, mintVars, histVars
  <2>2. ASSUME NEW u \in Tick, InFlight(u)'
        PROVE  InFlight(u) /\ job'[u] = job[u]
    BY <1>0, <1>1, <2>2
      DEF Fire, ReadDue, Contended, Die, Answer, GoTo, InFlight, TypeOK
  <2>3. QED
    BY <2>1, <2>2, KeysStay
<1>2. CASE ReleaseStale(t)
  <2>1. \A id \in RowId : Exists(rows', id) =>
          Exists(rows, id) /\ rows'[id].rkey = rows[id].rkey
    <3>1. rows \in Table /\ passNow[t] - StaleAge \in Int
      BY <1>0, BoundAssumption DEF TypeOK
    <3>2. QED
      BY <1>2, <3>1, ReleaseStaleClaimsRows DEF ReleaseStale
  <2>2. \A u \in Tick : InFlight(u)' => InFlight(u) /\ job'[u] = job[u]
    BY <1>0, <1>2 DEF ReleaseStale, InFlight, TypeOK
  <2>3. QED
    BY <1>2, <2>1, <2>2, KeysStay DEF ReleaseStale, mintVars, histVars
<1>3. CASE Claim(t)
  <2>1. Head(queue[t]).id \in RowId /\ passNow[t] \in Nat
    BY <1>0, <1>3, QueueHead DEF Claim, DuePost, TypeOK
  <2>2. ASSUME NEW u \in Tick, InFlight(u)'
        PROVE  \/ InFlight(u) /\ job'[u] = job[u]
               \/ job'[u].id = Head(queue[t]).id /\ job'[u].rkey = rows'[Head(queue[t]).id].rkey
    BY <1>0, <1>3, <2>2 DEF Claim, InFlight, TypeOK
  <2>3. QED
    BY <1>3, <2>1, <2>2, TakeLeaseKeys DEF Claim
<1>4. CASE ClaimErrs(t)
  <2>1. Head(queue[t]).id \in RowId /\ passNow[t] \in Nat
    BY <1>0, <1>4, QueueHead DEF ClaimErrs, DuePost, TypeOK
  <2>2. \A u \in Tick : InFlight(u)' => InFlight(u) /\ job'[u] = job[u]
    BY <1>0, <1>4 DEF ClaimErrs, GoTo, InFlight, TypeOK
  <2>3. CASE UNCHANGED <<rows, usedKeys, reserved>>
    BY <1>4, <2>2, <2>3, KeysStay DEF ClaimErrs
  <2>4. CASE Claimable(rows, Head(queue[t]).id) /\ TakeLease(Head(queue[t]).id, passNow[t])
    BY <1>4, <2>1, <2>2, <2>4, TakeLeaseKeys DEF ClaimErrs
  <2>5. QED
    BY <1>4, <2>3, <2>4 DEF ClaimErrs
<1>5. CASE Land(t)
  <2>1. RowsOf(rows, job[t].draft) \in SUBSET RowId /\ rows \in Table
    BY <1>0 DEF RowsOf, TypeOK
  <2>2. \A id \in RowId : Exists(rows', id) => Exists(rows, id) /\ rows'[id] = rows[id]
    BY <1>5, <2>1, DeleteRowsRows DEF Land, DeleteSchedulesForDraft
  <2>3. \A u \in Tick : InFlight(u)' => InFlight(u) /\ job'[u] = job[u]
    BY <1>0, <1>5 DEF Land, InFlight, TypeOK
  <2>4. QED
    BY <1>5, <2>2, <2>3, KeysStay DEF Land, mintVars, histVars
<1>6. CASE Report(t)
  <2>1. \A id \in RowId : Exists(rows', id) =>
          Exists(rows, id) /\ rows'[id].rkey = rows[id].rkey
    BY <1>0, <1>6, SettledRows DEF Report, Exists
  <2>2. \A u \in Tick : InFlight(u)' => InFlight(u) /\ job'[u] = job[u]
    BY <1>0, <1>6 DEF Report, GoTo, InFlight, TypeOK
  <2>3. QED
    BY <1>6, <2>1, <2>2, KeysStay DEF Report, mintVars
<1>7. QED
  BY <1>1, <1>2, <1>3, <1>4, <1>5, <1>6 DEF Pass, Publish

(* The writer's steps: a new row has no key, a moved one keeps its own. *)
LEMMA WriterKeys ==
  ASSUME KeyInv, TypeOK', Writer
  PROVE  KeyInv'
<1>0. TypeOK
  BY DEF KeyInv
<1>1. CASE \E d \in Draft, dueAt \in 1..MaxDue, announce \in Announce :
             Schedule(d, dueAt, announce)
  <2>1. PICK d \in Draft, dueAt \in 1..MaxDue, announce \in Announce :
          Schedule(d, dueAt, announce)
    BY <1>1
  <2>2. PICK id \in RowId :
          /\ PendingOf(rows, d) = {} => id \notin usedIds
          /\ rows' = UpsertSchedule(rows, id, d, dueAt, announce)
          /\ usedIds' = IF PendingOf(rows, d) = {} THEN usedIds \cup {id} ELSE usedIds
    BY <2>1 DEF Schedule
  <2>3. rows \in Table /\ dueAt \in Nat /\ announce \in BOOLEAN
    BY <1>0, BoundAssumption DEF TypeOK
  <2>4. UNCHANGED <<pc, job, usedKeys, reserved>>
    BY <2>1 DEF Schedule, passVars
  <2>5. CASE PendingOf(rows, d) # {}
    <3>1. \A i \in RowId : Exists(rows', i) => Exists(rows, i) /\ rows'[i].rkey = rows[i].rkey
      BY <2>2, <2>3, <2>5, UpsertScheduleRows
    <3>2. QED
      BY <2>2, <2>4, <2>5, <3>1, KeysStay DEF InFlight
  <2>6. CASE PendingOf(rows, d) = {}
    <3>1. rows' = [rows EXCEPT ![id] = NewRow(d, dueAt, announce)]
      BY <2>2, <2>3, <2>6, UpsertScheduleRows
    <3>2. reserved[id] = NoKey
      BY <2>2, <2>6 DEF KeyInv, IdsMinted
    <3>3. /\ rows'[id].rkey = NoKey
          /\ \A i \in RowId : i # id => rows'[i] = rows[i]
      BY <2>3, <3>1 DEF Table, NewRow
    <3>4. IdsMinted'
      BY <2>2, <2>4, <2>6, <3>3 DEF KeyInv, IdsMinted, Exists, InFlight
    <3>5. KeysMinted'
      BY <2>4 DEF KeyInv, KeysMinted, InFlight
    <3>6. OneKeyPerRow'
      BY <2>4, <3>2, <3>3 DEF KeyInv, OneKeyPerRow, Exists, InFlight
    <3>7. QED
      BY <3>4, <3>5, <3>6 DEF KeyInv
  <2>7. QED
    BY <2>5, <2>6
<1>2. CASE \E ids \in SUBSET RowId :
             /\ rows' = DeleteRows(rows, ids)
             /\ UNCHANGED <<clock, fired, passVars, faults, mintVars, histVars>>
  <2>1. PICK ids \in SUBSET RowId : rows' = DeleteRows(rows, ids)
    BY <1>2
  <2>2. rows \in Table
    BY <1>0 DEF TypeOK
  <2>3. \A i \in RowId : Exists(rows', i) => Exists(rows, i) /\ rows'[i] = rows[i]
    BY <2>1, <2>2, DeleteRowsRows
  <2>4. QED
    BY <1>2, <2>3, KeysStay DEF passVars, mintVars, histVars, InFlight
<1>3. QED
  BY <1>0, <1>1, <1>2, WriterDeletes DEF Writer

(* KeyInv is inductive. *)
LEMMA KeyInvStep ==
  ASSUME KeyInv, [Next]_vars
  PROVE  KeyInv'
<1>0. TypeOK
  BY DEF KeyInv
<1>1. TypeOK'
  BY <1>0, TypeOKStep
<1>2. CASE Advance
  BY <1>1, <1>2, KeysStay DEF Advance, passVars, mintVars, histVars, InFlight
<1>3. CASE \E t \in Tick : Fire(t) \/ Pass(t) \/ Die(t)
  BY <1>1, <1>3, PassKeys
<1>4. CASE Writer
  BY <1>1, <1>4, WriterKeys
<1>5. CASE UNCHANGED vars
  BY <1>1, <1>5, KeysStay DEF vars, passVars, mintVars, histVars, InFlight
<1>6. QED
  BY <1>2, <1>3, <1>4, <1>5 DEF Next

LEMMA InitKeyInv == Init => KeyInv
BY InitTypeOK DEF Init, KeyInv, IdsMinted, KeysMinted, OneKeyPerRow, Exists, InFlight

(* "A retry can't publish twice": every attempt on a row, past and present, *)
(* writes under the one key reserved for the row, in every instance.        *)
THEOREM KeysHold == Spec => []OneKeyPerRow
<1>1. KeyInv => OneKeyPerRow
  BY DEF KeyInv
<1>2. KeyInv /\ [Next]_vars => KeyInv'
  BY KeyInvStep
<1>3. QED
  BY <1>1, <1>2, InitKeyInv, PTL DEF Spec

-----------------------------------------------------------------------------
(* The leases. *)

(* A step that starts no attempt keeps the leases, if the rows of the       *)
(* attempts it leaves keep theirs, or are gone, or were moved.              *)
LEMMA LeasesStay ==
  ASSUME LeaseInv, KeyInv', PassesAreYoung', torn \subseteq torn',
         \A t \in Tick : InFlight(t)' =>
           InFlight(t) /\ job'[t] = job[t] /\ passNow'[t] = passNow[t],
         \A t \in Tick : InFlight(t)' /\ job[t].id \notin torn' /\ Exists(rows', job[t].id) =>
           Exists(rows, job[t].id) /\ rows'[job[t].id].claimedAt = rows[job[t].id].claimedAt
  PROVE  LeaseInv'
<1>1. LeaseHeld'
  BY DEF LeaseInv, LeaseHeld
<1>2. LeaseExclusive'
  BY DEF LeaseInv, LeaseExclusive
<1>3. QED
  BY <1>1, <1>2 DEF LeaseInv

(* A pass that keeps its `now', or stops, stays young while the clock stands. *)
LEMMA YoungStay ==
  ASSUME PassesAreYoung, clock' = clock,
         \A t \in Tick : pc'[t] # "idle" => pc[t] # "idle" /\ passNow'[t] = passNow[t]
  PROVE  PassesAreYoung'
BY DEF PassesAreYoung

(* An attempt on a row the writer has not moved holds the row's lease, so   *)
(* nobody can take it, and no pass running at the time finds it stale.      *)
LEMMA HeldIsHeld ==
  ASSUME LeaseInv, NEW t \in Tick, InFlight(t), job[t].id \notin torn
  PROVE  /\ job[t].id \in RowId
         /\ ~Claimable(rows, job[t].id)
         /\ Exists(rows, job[t].id) => Claimed(rows, job[t].id)
         /\ \A u \in Tick : pc[u] # "idle" => ~Stale(rows, job[t].id, passNow[u] - StaleAge)
<1>1. /\ job[t].id \in RowId
      /\ passNow[t] \in Nat
      /\ clock \in Nat
  BY DEF LeaseInv, KeyInv, TypeOK, ClaimedPost
<1>2. Exists(rows, job[t].id) => rows[job[t].id].claimedAt = passNow[t]
  BY DEF LeaseInv, LeaseHeld
<1>3. passNow[t] # NoTime
  BY <1>1, NullAssumption
<1>4. ~Claimable(rows, job[t].id) /\ (Exists(rows, job[t].id) => Claimed(rows, job[t].id))
  BY <1>2, <1>3 DEF Claimable, Pending, Claimed
<1>5. ASSUME NEW u \in Tick, pc[u] # "idle", Stale(rows, job[t].id, passNow[u] - StaleAge)
      PROVE  FALSE
  <2>1. passNow[t] < passNow[u] - StaleAge
    BY <1>2, <1>5 DEF Stale, Pending
  <2>2. passNow[u] <= clock /\ clock <= passNow[t] + TickLife
    BY <1>5 DEF LeaseInv, PassesAreYoung, InFlight
  <2>3. passNow[u] \in Nat
    BY DEF LeaseInv, KeyInv, TypeOK
  <2>4. TickLife \in Nat /\ StaleAge \in Nat /\ TickLife <= StaleAge
    BY BoundAssumption, LeaseAssumption
  <2>5. QED
    BY <1>1, <2>1, <2>2, <2>3, <2>4
<1>6. QED
  BY <1>1, <1>4, <1>5

(* The passes' steps. *)
LEMMA PassLeases ==
  ASSUME LeaseInv, KeyInv', NEW t \in Tick, Fire(t) \/ Pass(t) \/ Die(t)
  PROVE  LeaseInv'
<1>0. TypeOK /\ PassesAreYoung
  BY DEF LeaseInv, KeyInv
<1>1. CASE Fire(t)
  <2>1. PassesAreYoung'
    <3>1. clock \in Nat /\ TickLife \in Nat
      BY <1>0, BoundAssumption DEF TypeOK
    <3>2. passNow'[t] = clock /\ \A u \in Tick : u # t => passNow'[u] = passNow[u] /\ pc'[u] = pc[u]
      BY <1>0, <1>1 DEF Fire, TypeOK
    <3>3. clock' = clock
      BY <1>1 DEF Fire
    <3>4. QED
      BY <1>0, <3>1, <3>2, <3>3 DEF PassesAreYoung
  <2>2. \A u \in Tick : InFlight(u)' =>
          InFlight(u) /\ job'[u] = job[u] /\ passNow'[u] = passNow[u]
    BY <1>0, <1>1 DEF Fire, InFlight, TypeOK
  <2>3. rows' = rows /\ torn' = torn
    BY <1>1 DEF Fire, histVars
  <2>4. QED
    BY <2>1, <2>2, <2>3, LeasesStay
<1>2. CASE \/ ReadDue(t) \/ Contended(t) \/ Die(t)
           \/ \E v \in PublishAttempt : Answer(t, v)
  <2>1. rows' = rows /\ torn' = torn /\ clock' = clock
    BY <1>2 DEF ReadDue, Contended, Die, Answer, histVars
  <2>2. ASSUME NEW u \in Tick
        PROVE  /\ pc'[u] # "idle" => pc[u] # "idle" /\ passNow'[u] = passNow[u]
               /\ InFlight(u)' => InFlight(u) /\ job'[u] = job[u] /\ passNow'[u] = passNow[u]
    BY <1>0, <1>2 DEF ReadDue, Contended, Die, Answer, GoTo, InFlight, TypeOK
  <2>3. QED
    BY <1>0, <2>1, <2>2, YoungStay, LeasesStay
<1>3. CASE ReleaseStale(t)
  <2>1. torn' = torn /\ clock' = clock
    BY <1>3 DEF ReleaseStale, histVars
  <2>2. ASSUME NEW u \in Tick
        PROVE  /\ pc'[u] # "idle" => pc[u] # "idle" /\ passNow'[u] = passNow[u]
               /\ InFlight(u)' => InFlight(u) /\ job'[u] = job[u] /\ passNow'[u] = passNow[u]
    BY <1>0, <1>3 DEF ReleaseStale, InFlight, TypeOK
  <2>3. ASSUME NEW u \in Tick, InFlight(u)', job[u].id \notin torn'
        PROVE  rows'[job[u].id] = rows[job[u].id]
    <3>1. job[u].id \in RowId /\ ~Stale(rows, job[u].id, passNow[t] - StaleAge)
      BY <1>3, <2>1, <2>2, <2>3, HeldIsHeld DEF ReleaseStale
    <3>2. rows \in Table /\ passNow[t] - StaleAge \in Int
      BY <1>0, BoundAssumption DEF TypeOK
    <3>3. QED
      BY <1>3, <3>1, <3>2, ReleaseStaleClaimsRows DEF ReleaseStale
  <2>4. QED
    BY <1>0, <2>1, <2>2, <2>3, YoungStay, LeasesStay DEF Exists
<1>4. CASE Claim(t)
  <2> DEFINE id == Head(queue[t]).id
  <2>1. id \in RowId /\ passNow[t] \in Nat /\ Claimable(rows, id) /\ TakeLease(id, passNow[t])
    BY <1>0, <1>4, QueueHead DEF Claim, DuePost, TypeOK
  <2>2. /\ rows'[id].claimedAt = passNow[t]
        /\ \A i \in RowId : i # id => rows'[i] = rows[i]
    BY <1>0, <2>1, TakeLeaseRows
  <2>3. torn' = torn /\ clock' = clock /\ passNow' = passNow
    BY <1>4 DEF Claim
  <2>4. /\ InFlight(t)' /\ job'[t].id = id
        /\ \A u \in Tick : u # t => job'[u] = job[u] /\ pc'[u] = pc[u]
    BY <1>0, <1>4 DEF Claim, InFlight, TypeOK
  <2>5. ASSUME NEW u \in Tick, u # t, InFlight(u)', job'[u].id \notin torn'
        PROVE  InFlight(u) /\ job'[u].id \in RowId /\ job'[u].id # id
    BY <2>1, <2>3, <2>4, <2>5, HeldIsHeld DEF InFlight
  <2>6. PassesAreYoung'
    BY <1>0, <1>4, <2>3, <2>4, YoungStay DEF Claim
  <2>7. LeaseHeld'
    BY <2>2, <2>3, <2>4, <2>5 DEF LeaseInv, LeaseHeld, Exists
  <2>8. LeaseExclusive'
    BY <2>3, <2>4, <2>5 DEF LeaseInv, LeaseExclusive, InFlight
  <2>9. QED
    BY <2>6, <2>7, <2>8 DEF LeaseInv
<1>5. CASE ClaimErrs(t)
  <2> DEFINE id == Head(queue[t]).id
  <2>1. id \in RowId /\ passNow[t] \in Nat
    BY <1>0, <1>5, QueueHead DEF ClaimErrs, DuePost, TypeOK
  <2>2. torn' = torn /\ clock' = clock
    BY <1>5 DEF ClaimErrs
  <2>3. ASSUME NEW u \in Tick
        PROVE  /\ pc'[u] # "idle" => pc[u] # "idle" /\ passNow'[u] = passNow[u]
               /\ InFlight(u)' => InFlight(u) /\ job'[u] = job[u] /\ passNow'[u] = passNow[u]
    BY <1>0, <1>5 DEF ClaimErrs, GoTo, InFlight, TypeOK
  <2>4. ASSUME NEW u \in Tick, InFlight(u)', job[u].id \notin torn'
        PROVE  rows'[job[u].id] = rows[job[u].id]
    <3>1. job[u].id \in RowId /\ ~Claimable(rows, job[u].id)
      BY <2>2, <2>3, <2>4, HeldIsHeld
    <3>2. CASE Claimable(rows, id) /\ TakeLease(id, passNow[t])
      BY <1>0, <2>1, <3>1, <3>2, TakeLeaseRows
    <3>3. CASE rows' = rows
      BY <3>3
    <3>4. QED
      BY <1>5, <3>2, <3>3 DEF ClaimErrs
  <2>5. QED
    BY <1>0, <2>2, <2>3, <2>4, YoungStay, LeasesStay DEF Exists
<1>6. CASE Land(t)
  <2>1. RowsOf(rows, job[t].draft) \in SUBSET RowId /\ rows \in Table
    BY <1>0 DEF RowsOf, TypeOK
  <2>2. \A i \in RowId : Exists(rows', i) => Exists(rows, i) /\ rows'[i] = rows[i]
    BY <1>6, <2>1, DeleteRowsRows DEF Land, DeleteSchedulesForDraft
  <2>3. torn' = torn /\ clock' = clock
    BY <1>6 DEF Land, histVars
  <2>4. ASSUME NEW u \in Tick
        PROVE  /\ pc'[u] # "idle" => pc[u] # "idle" /\ passNow'[u] = passNow[u]
               /\ InFlight(u)' => /\ InFlight(u) /\ job'[u] = job[u] /\ passNow'[u] = passNow[u]
                                  /\ job[u].id \in RowId
    BY <1>0, <1>6 DEF Land, InFlight, TypeOK, ClaimedPost
  <2>5. QED
    BY <1>0, <2>2, <2>3, <2>4, YoungStay, LeasesStay
<1>7. CASE Report(t)
  <2>1. job[t].id \in RowId /\ \A i \in RowId : i # job[t].id => rows'[i] = rows[i]
    BY <1>0, <1>7, SettledRows DEF Report
  <2>2. torn' = torn /\ clock' = clock
    BY <1>7 DEF Report
  <2>3. ASSUME NEW u \in Tick
        PROVE  /\ pc'[u] # "idle" => pc[u] # "idle" /\ passNow'[u] = passNow[u]
               /\ InFlight(u)' => /\ InFlight(u) /\ job'[u] = job[u] /\ passNow'[u] = passNow[u]
                                  /\ u # t /\ job[u].id \in RowId
    BY <1>0, <1>7 DEF Report, GoTo, InFlight, TypeOK, ClaimedPost
  <2>4. ASSUME NEW u \in Tick, InFlight(u)', job[u].id \notin torn'
        PROVE  rows'[job[u].id] = rows[job[u].id]
    <3>1. job[u].id # job[t].id
      BY <1>7, <2>2, <2>3, <2>4 DEF LeaseInv, LeaseExclusive, Report, InFlight
    <3>2. QED
      BY <2>1, <2>3, <2>4, <3>1
  <2>5. QED
    BY <1>0, <2>2, <2>3, <2>4, YoungStay, LeasesStay DEF Exists
<1>8. QED
  BY <1>1, <1>2, <1>3, <1>4, <1>5, <1>6, <1>7 DEF Pass, Publish

(* The writer's steps: a held row that is moved is torn, and the ids of new *)
(* rows were never an attempt's.                                            *)
LEMMA WriterLeases ==
  ASSUME LeaseInv, KeyInv', Writer
  PROVE  LeaseInv'
<1>0. TypeOK /\ PassesAreYoung
  BY DEF LeaseInv, KeyInv
<1>1. CASE \E d \in Draft, dueAt \in 1..MaxDue, announce \in Announce :
             Schedule(d, dueAt, announce)
  <2>1. PICK d \in Draft, dueAt \in 1..MaxDue, announce \in Announce :
          Schedule(d, dueAt, announce)
    BY <1>1
  <2>2. PICK id \in RowId :
          /\ PendingOf(rows, d) = {} => id \notin usedIds
          /\ rows' = UpsertSchedule(rows, id, d, dueAt, announce)
          /\ torn' = torn \cup {i \in PendingOf(rows, d) : Claimed(rows, i)}
    BY <2>1 DEF Schedule
  <2>3. rows \in Table /\ dueAt \in Nat /\ announce \in BOOLEAN
    BY <1>0, BoundAssumption DEF TypeOK
  <2>4. UNCHANGED <<clock, pc, passNow, job>>
    BY <2>1 DEF Schedule, passVars
  <2>5. ASSUME NEW t \in Tick, InFlight(t)', job[t].id \notin torn', Exists(rows', job[t].id)
        PROVE  rows'[job[t].id] = rows[job[t].id]
    <3>1. InFlight(t) /\ job[t].id \notin torn /\ job[t].id \in RowId /\ job[t].id \in usedIds
      BY <1>0, <2>2, <2>4, <2>5
        DEF InFlight, TypeOK, ClaimedPost, LeaseInv, KeyInv, IdsMinted
    <3>2. job[t].id \notin PendingOf(rows, d)
      BY <2>2, <2>5, <3>1, HeldIsHeld DEF PendingOf, RowsOf
    <3>3. CASE PendingOf(rows, d) = {}
      BY <2>2, <2>3, <3>1, <3>3, UpsertScheduleRows DEF Table
    <3>4. CASE PendingOf(rows, d) # {}
      BY <2>2, <2>3, <3>1, <3>2, <3>4, UpsertScheduleRows
    <3>5. QED
      BY <3>3, <3>4
  <2>6. PassesAreYoung'
    BY <1>0, <2>4, YoungStay
  <2>7. QED
    BY <2>2, <2>4, <2>5, <2>6, LeasesStay DEF InFlight, Exists
<1>2. CASE \E ids \in SUBSET RowId :
             /\ rows' = DeleteRows(rows, ids)
             /\ UNCHANGED <<clock, fired, passVars, faults, mintVars, histVars>>
  <2>1. PICK ids \in SUBSET RowId : rows' = DeleteRows(rows, ids)
    BY <1>2
  <2>2. rows \in Table
    BY <1>0 DEF TypeOK
  <2>3. \A i \in RowId : Exists(rows', i) => Exists(rows, i) /\ rows'[i] = rows[i]
    BY <2>1, <2>2, DeleteRowsRows
  <2>4. UNCHANGED <<clock, pc, passNow, job, torn>>
    BY <1>2 DEF passVars, histVars
  <2>5. \A t \in Tick : InFlight(t)' => InFlight(t) /\ job[t].id \in RowId
    BY <1>0, <2>4 DEF InFlight, TypeOK, ClaimedPost
  <2>6. PassesAreYoung'
    BY <1>0, <2>4, YoungStay
  <2>7. QED
    BY <2>3, <2>4, <2>5, <2>6, LeasesStay
<1>3. QED
  BY <1>0, <1>1, <1>2, WriterDeletes DEF Writer

LEMMA InitLeaseInv == Init => LeaseInv
BY InitKeyInv DEF Init, LeaseInv, PassesAreYoung, LeaseHeld, LeaseExclusive, InFlight

(* LeaseInv is inductive. *)
LEMMA LeaseInvStep ==
  ASSUME LeaseInv, [Next]_vars
  PROVE  LeaseInv'
<1>0. TypeOK /\ PassesAreYoung
  BY DEF LeaseInv, KeyInv
<1>1. KeyInv'
  BY KeyInvStep DEF LeaseInv
<1>2. CASE Advance
  <2>1. UNCHANGED <<rows, pc, passNow, job, torn>>
    BY <1>2 DEF Advance, passVars, histVars
  <2>2. PassesAreYoung'
    <3>1. clock' = clock + 1 /\ \A t \in Tick : pc[t] # "idle" => clock < passNow[t] + TickLife
      BY <1>2 DEF Advance
    <3>2. clock \in Nat /\ passNow \in [Tick -> Nat] /\ TickLife \in Nat
      BY <1>0, BoundAssumption DEF TypeOK
    <3>3. QED
      BY <1>0, <2>1, <3>1, <3>2 DEF PassesAreYoung
  <2>3. QED
    BY <1>1, <2>1, <2>2, LeasesStay DEF InFlight
<1>3. CASE \E t \in Tick : Fire(t) \/ Pass(t) \/ Die(t)
  BY <1>1, <1>3, PassLeases
<1>4. CASE Writer
  BY <1>1, <1>4, WriterLeases
<1>5. CASE UNCHANGED vars
  <2>1. UNCHANGED <<rows, clock, pc, passNow, job, torn>>
    BY <1>5 DEF vars, passVars, histVars
  <2>2. PassesAreYoung'
    BY <1>0, <2>1, YoungStay
  <2>3. QED
    BY <1>1, <2>1, <2>2, LeasesStay DEF InFlight
<1>6. QED
  BY <1>2, <1>3, <1>4, <1>5 DEF Next

(* "Callers MUST NOT touch a row they did not win": no two passes work on a *)
(* row at once, but on one the writer moved while it was held.  It holds as *)
(* long as no pass outlives STALE_CLAIM_MS (LeaseAssumption).               *)
THEOREM LeasesHold == Spec => []LeaseExclusive
<1>1. LeaseInv => LeaseExclusive
  BY DEF LeaseInv
<1>2. LeaseInv /\ [Next]_vars => LeaseInv'
  BY LeaseInvStep
<1>3. QED
  BY <1>1, <1>2, InitLeaseInv, PTL DEF Spec

-----------------------------------------------------------------------------
(* The counting of attempts: nothing waits for a pass without an attempt    *)
(* left, and a failed row says why.  It rests on the leases: the row an     *)
(* attempt counts against is the attempt's own until it ends.               *)

InHand(id) == \E t \in Tick : InFlight(t) /\ job[t].id = id

(* A row somebody works on may have had its last attempt counted.          *)
RowSound(id) ==
  /\ Pending(rows, id) /\ id \notin torn =>
       /\ rows[id].attempts <= MaxAttempts + lost[id]
       /\ ~InHand(id) => rows[id].attempts < MaxAttempts + lost[id]
  /\ Exists(rows, id) /\ rows[id].status = "failed" /\ id \notin torn =>
       /\ rows[id].attempts > 0
       /\ rows[id].lastError # NoReason
       /\ rows[id].claimedAt = NoTime

(* An attempt knows how many there were, and a failure comes with a reason. *)
AttemptSound(t) ==
  InFlight(t) =>
    /\ job[t].attempts > 0
    /\ job[t].id \notin torn /\ Exists(rows, job[t].id) =>
         rows[job[t].id].attempts = job[t].attempts
    /\ pc[t] = "report" => verdict[t].kind = "ok" \/ verdict[t].reason # NoReason

AttemptsInv ==
  /\ LeaseInv
  /\ \A id \in RowId : RowSound(id)
  /\ \A t \in Tick : AttemptSound(t)

-----------------------------------------------------------------------------
(* What the statements do to a row's count and status. *)

LEMMA RowCounts ==
  ASSUME NEW R \in Table, NEW id \in RowId, Exists(R, id), NEW e \in Reason \cup {NoReason}
  PROVE  /\ MarkFailed(R, id, e)[id].status = "failed"
         /\ MarkFailed(R, id, e)[id].attempts = R[id].attempts
         /\ MarkFailed(R, id, e)[id].lastError = e
         /\ MarkFailed(R, id, e)[id].claimedAt = NoTime
         /\ ReleaseForRetry(R, id, e)[id].status = R[id].status
         /\ ReleaseForRetry(R, id, e)[id].attempts = R[id].attempts
         /\ ~Exists(DeletePublishedSchedule(R, id), id)
<1>1. R[id] \in Row /\ R = [i \in RowId |-> R[i]]
  BY RowsAreRows DEF Table
<1>2. MarkFailed(R, id, e)[id] =
        [R[id] EXCEPT !.status = "failed", !.claimedAt = NoTime, !.lastError = e]
  BY <1>1 DEF MarkFailed, Row
<1>3. ReleaseForRetry(R, id, e)[id] = [R[id] EXCEPT !.claimedAt = NoTime, !.lastError = e]
  BY <1>1 DEF ReleaseForRetry, Row
<1>4. DeletePublishedSchedule(R, id)[id] = NoRow
  BY <1>1 DEF DeletePublishedSchedule
<1>5. QED
  BY <1>1, <1>2, <1>3, <1>4 DEF Row, Exists

(* Releasing a stale lease changes the lease only. *)
LEMMA StaleCounts ==
  ASSUME NEW R \in Table, NEW id \in RowId, NEW before \in Int, Stale(R, id, before)
  PROVE  /\ ReleaseStaleClaims(R, before)[id].status = "pending"
         /\ ReleaseStaleClaims(R, before)[id].attempts = R[id].attempts
<1>1. R[id] \in Row /\ R[id].status = "pending"
  BY RowsAreRows DEF Stale, Pending
<1>2. ReleaseStaleClaims(R, before)[id] = [R[id] EXCEPT !.claimedAt = NoTime]
  BY DEF ReleaseStaleClaims
<1>3. QED
  BY <1>1, <1>2 DEF Row

(* A lease counts an attempt of a pending row. *)
LEMMA LeaseCounts ==
  ASSUME TypeOK, NEW id \in RowId, Claimable(rows, id), NEW now \in Nat,
         TakeLease(id, now)
  PROVE  /\ rows'[id].attempts = rows[id].attempts + 1
         /\ rows'[id].status = "pending"
         /\ Exists(rows', id)
         /\ rows[id].attempts \in Nat
         /\ \A i \in RowId : i # id => rows'[i] = rows[i]
<1>1. rows \in Table /\ Exists(rows, id) /\ rows[id] \in Row /\ rows[id].status = "pending"
  BY RowsAreRows DEF TypeOK, Claimable, Pending
<1>2. PICK k \in Key : rows' = ClaimDuePost(rows, id, now, k)
  BY TakeLeaseRows
<1>3. rows'[id] = [rows[id] EXCEPT !.claimedAt = now, !.attempts = @ + 1,
                                  !.rkey = Coalesce(@, k)]
  BY <1>1, <1>2 DEF ClaimDuePost, Table, Row
<1>4. rows'[id].attempts = rows[id].attempts + 1 /\ rows'[id].status = "pending"
  BY <1>1, <1>3 DEF Row
<1>5. Exists(rows', id) /\ rows[id].attempts \in Nat /\ \A i \in RowId : i # id => rows'[i] = rows[i]
  BY <1>1, <1>2, ClaimDuePostRows DEF Row
<1>6. QED
  BY <1>4, <1>5

(* A row scheduled, or moved, starts over. *)
LEMMA ScheduleCounts ==
  ASSUME NEW R \in Table, NEW id \in RowId, NEW d \in Draft, NEW dueAt \in Nat,
         NEW announce \in BOOLEAN, NEW i \in RowId,
         IF PendingOf(R, d) = {} THEN i = id ELSE i \in PendingOf(R, d)
  PROVE  /\ UpsertSchedule(R, id, d, dueAt, announce)[i].status = "pending"
         /\ UpsertSchedule(R, id, d, dueAt, announce)[i].attempts = 0
<1>1. CASE PendingOf(R, d) = {}
  BY <1>1 DEF UpsertSchedule, NewRow, Table
<1>2. CASE PendingOf(R, d) # {}
  <2>1. UpsertSchedule(R, id, d, dueAt, announce)[i] =
          [NewRow(d, dueAt, announce) EXCEPT !.rkey = R[i].rkey]
    BY <1>2 DEF UpsertSchedule
  <2>2. QED
    BY <2>1 DEF NewRow
<1>3. QED
  BY <1>1, <1>2

-----------------------------------------------------------------------------
(* What most steps do: nothing to the counts. *)

(* A row stays sound if it goes, or keeps its count and status, and an      *)
(* attempt on it that ends without reporting is counted as lost.            *)
LEMMA RowStays ==
  ASSUME AttemptsInv, NEW id \in RowId, torn \subseteq torn', lost' \in [RowId -> Nat],
         Exists(rows', id) => Exists(rows, id),
         Exists(rows', id) =>
           \/ rows'[id] = rows[id]
           \/ /\ rows[id].status = "pending" /\ rows'[id].status = "pending"
              /\ rows'[id].attempts = rows[id].attempts,
         lost'[id] >= lost[id],
         InHand(id) /\ Pending(rows', id) => InHand(id)' \/ lost'[id] > lost[id]
  PROVE  RowSound(id)'
<1>1. RowSound(id) /\ TypeOK
  BY DEF AttemptsInv, LeaseInv, KeyInv
<1>2. lost[id] \in Nat /\ lost'[id] \in Nat /\ MaxAttempts \in Nat
  BY <1>1, BoundAssumption DEF TypeOK
<1>3. ASSUME Exists(rows', id) PROVE rows[id].attempts \in Nat
  BY <1>1, <1>3, RowsAreRows DEF TypeOK, Row
<1>4. ASSUME Pending(rows', id), id \notin torn'
      PROVE  /\ rows'[id].attempts <= MaxAttempts + lost'[id]
             /\ ~InHand(id)' => rows'[id].attempts < MaxAttempts + lost'[id]
  <2>1. Pending(rows, id) /\ id \notin torn /\ rows'[id].attempts = rows[id].attempts
    BY <1>4 DEF Pending
  <2>2. rows[id].attempts \in Nat
    BY <1>3, <1>4 DEF Pending
  <2>3. /\ rows[id].attempts <= MaxAttempts + lost[id]
        /\ ~InHand(id) => rows[id].attempts < MaxAttempts + lost[id]
    BY <1>1, <2>1 DEF RowSound
  <2>4. QED
    BY <1>2, <1>4, <2>1, <2>2, <2>3
<1>5. ASSUME Exists(rows', id), rows'[id].status = "failed", id \notin torn'
      PROVE  rows'[id].attempts > 0 /\ rows'[id].lastError # NoReason /\ rows'[id].claimedAt = NoTime
  BY <1>1, <1>5 DEF RowSound
<1>6. QED
  BY <1>4, <1>5 DEF RowSound

(* An attempt stays sound while its row, if it is still there and was not   *)
(* moved, keeps its count.                                                  *)
LEMMA AttemptStays ==
  ASSUME AttemptsInv, NEW t \in Tick, torn \subseteq torn',
         InFlight(t)' =>
           /\ InFlight(t) /\ job'[t] = job[t]
           /\ pc'[t] = "report" =>
                \/ pc[t] = "report" /\ verdict'[t] = verdict[t]
                \/ verdict'[t].kind = "ok" \/ verdict'[t].reason # NoReason,
         InFlight(t)' /\ job[t].id \notin torn' /\ Exists(rows', job[t].id) =>
           Exists(rows, job[t].id) /\ rows'[job[t].id].attempts = rows[job[t].id].attempts
  PROVE  AttemptSound(t)'
BY DEF AttemptsInv, AttemptSound

(* Nothing goes out of hand in a step that ends no attempt. *)
LEMMA HandStays ==
  ASSUME \A u \in Tick : InFlight(u) => InFlight(u)' /\ job'[u] = job[u]
  PROVE  \A id : InHand(id) => InHand(id)'
BY DEF InHand

(* A step that ends and starts no attempt, and leaves the counts alone.     *)
LEMMA QuietStep ==
  ASSUME AttemptsInv, LeaseInv', torn' = torn, lost' = lost,
         \A u \in Tick :
           /\ InFlight(u)' <=> InFlight(u)
           /\ InFlight(u) =>
                /\ job'[u] = job[u]
                /\ pc'[u] = "report" =>
                     \/ pc[u] = "report" /\ verdict'[u] = verdict[u]
                     \/ verdict'[u].kind = "ok" \/ verdict'[u].reason # NoReason,
         \A id \in RowId : Exists(rows', id) =>
           /\ Exists(rows, id)
           /\ rows'[id].attempts = rows[id].attempts
           /\ \/ rows'[id] = rows[id]
              \/ rows[id].status = "pending" /\ rows'[id].status = "pending"
  PROVE  AttemptsInv'
<1>0. TypeOK
  BY DEF AttemptsInv, LeaseInv, KeyInv
<1>1. ASSUME NEW id \in RowId PROVE RowSound(id)'
  <2>1. InHand(id) => InHand(id)'
    BY HandStays
  <2>2. lost' \in [RowId -> Nat] /\ lost'[id] >= lost[id]
    BY <1>0 DEF TypeOK
  <2>3. QED
    BY <2>1, <2>2, RowStays
<1>2. ASSUME NEW u \in Tick PROVE AttemptSound(u)'
  <2>1. InFlight(u) => job[u].id \in RowId
    BY <1>0 DEF TypeOK, ClaimedPost
  <2>2. QED
    BY <2>1, AttemptStays
<1>3. QED
  BY <1>1, <1>2 DEF AttemptsInv

(* A pass's claim: the row had an attempt left, and it is counted. *)
LEMMA ClaimSound ==
  ASSUME AttemptsInv, LeaseInv', NEW t \in Tick, Claim(t) \/ ClaimErrs(t)
  PROVE  AttemptsInv'
<1>0. TypeOK /\ LeaseInv
  BY DEF AttemptsInv, LeaseInv, KeyInv
<1>1. PICK id \in RowId : id = Head(queue[t]).id /\ passNow[t] \in Nat /\ torn' = torn
  BY <1>0, QueueHead DEF Claim, ClaimErrs, DuePost, TypeOK
<1>2. ~InFlight(t) /\ \A u \in Tick : u # t => pc'[u] = pc[u] /\ job'[u] = job[u] /\ verdict'[u] = verdict[u]
  BY <1>0 DEF Claim, ClaimErrs, GoTo, InFlight, TypeOK
<1>3. \A u \in Tick : InFlight(u) => InFlight(u)' /\ job'[u] = job[u]
  BY <1>2 DEF InFlight
<1>4. ASSUME Claimable(rows, id), TakeLease(id, passNow[t]), Claim(t) \/ Lose({id})
      PROVE  AttemptsInv'
  <2>1. /\ rows'[id].attempts = rows[id].attempts + 1
        /\ rows'[id].status = "pending" /\ Exists(rows', id)
        /\ rows[id].attempts \in Nat
        /\ \A i \in RowId : i # id => rows'[i] = rows[i]
    BY <1>0, <1>1, <1>4, LeaseCounts
  <2>2. \A u \in Tick : InFlight(u) /\ job[u].id \notin torn => job[u].id \in RowId /\ job[u].id # id
    BY <1>0, <1>4, HeldIsHeld
  <2>3. /\ lost \in [RowId -> Nat] /\ lost' \in [RowId -> Nat] /\ MaxAttempts \in Nat
        /\ \A i \in RowId : lost'[i] >= lost[i]
        /\ Claim(t) \/ lost'[id] = lost[id] + 1
    <3>1. lost \in [RowId -> Nat] /\ MaxAttempts \in Nat
      BY <1>0, BoundAssumption DEF TypeOK
    <3>2. CASE Claim(t)
      BY <3>1, <3>2 DEF Claim
    <3>3. CASE Lose({id})
      BY <1>0, <3>1, <3>3, LoseType DEF Lose
    <3>4. QED
      BY <1>4, <3>1, <3>2, <3>3
  <2>4. ASSUME NEW i \in RowId, i # id PROVE RowSound(i)'
    <3>1. InHand(i) => InHand(i)'
      BY <1>3, HandStays
    <3>2. QED
      BY <1>1, <2>1, <2>3, <2>4, <3>1, RowStays DEF Exists
  <2>5. RowSound(id)'
    <3>1. CASE id \in torn
      BY <1>1, <2>1, <3>1 DEF RowSound
    <3>2. CASE id \notin torn
      <4>1. ~InHand(id)
        BY <2>2, <3>2 DEF InHand
      <4>2. rows[id].attempts < MaxAttempts + lost[id]
        BY <1>1, <1>4, <3>2, <4>1 DEF AttemptsInv, RowSound, Claimable
      <4>3. Claim(t) => InHand(id)'
        BY <1>0, <1>1 DEF Claim, InHand, InFlight, TypeOK
      <4>4. lost[id] \in Nat /\ lost'[id] \in Nat /\ lost'[id] >= lost[id]
        BY <1>1, <2>3
      <4>5. rows'[id].attempts <= MaxAttempts + lost'[id]
        BY <2>1, <2>3, <4>2, <4>4
      <4>6. ~InHand(id)' => rows'[id].attempts < MaxAttempts + lost'[id]
        BY <2>1, <2>3, <4>2, <4>3, <4>4
      <4>7. QED
        BY <2>1, <4>5, <4>6 DEF RowSound
    <3>3. QED
      BY <3>1, <3>2
  <2>6. ASSUME NEW u \in Tick, u # t PROVE AttemptSound(u)'
    BY <1>1, <1>2, <2>1, <2>2, <2>6, AttemptStays DEF InFlight, Exists
  <2>7. AttemptSound(t)'
    <3>1. CASE Claim(t)
      <4>1. pc'[t] = "publish" /\ job'[t].id = id /\ job'[t].attempts = rows'[id].attempts
        BY <1>0, <1>1, <3>1 DEF Claim, TypeOK
      <4>2. QED
        BY <2>1, <4>1 DEF AttemptSound
    <3>2. CASE ClaimErrs(t)
      BY <1>0, <3>2, GoToType, QueueHead DEF ClaimErrs, AttemptSound, InFlight
    <3>3. QED
      BY <3>1, <3>2
  <2>8. QED
    BY <2>4, <2>5, <2>6, <2>7 DEF AttemptsInv
<1>5. ASSUME ClaimErrs(t), UNCHANGED <<rows, lost>> PROVE AttemptsInv'
  <2>1. ~InFlight(t)'
    BY <1>0, <1>5, GoToType, QueueHead DEF ClaimErrs, InFlight
  <2>2. QED
    BY <1>1, <1>2, <1>5, <2>1, QuietStep DEF InFlight
<1>6. QED
  BY <1>1, <1>4, <1>5 DEF Claim, ClaimErrs

(* The report of an attempt on a row the writer did not move: the row is    *)
(* the attempt's own, so what the attempt decides is right for it.          *)
LEMMA ReportSound ==
  ASSUME AttemptsInv, LeaseInv', NEW t \in Tick, Report(t)
  PROVE  AttemptsInv'
<1>0. TypeOK /\ LeaseInv
  BY DEF AttemptsInv, LeaseInv, KeyInv
<1>1. PICK id \in RowId : id = job[t].id /\ torn' = torn
  BY <1>0, SettledRows DEF Report
<1>2. /\ ~InFlight(t)' /\ InFlight(t) /\ pc[t] = "report"
      /\ \A u \in Tick : u # t =>
           /\ pc'[u] = pc[u] /\ job'[u] = job[u] /\ verdict'[u] = verdict[u]
           /\ InFlight(u)' <=> InFlight(u)
  BY <1>0, GoToType, QueueHead DEF Report, InFlight, TypeOK
<1>3. \A i \in RowId : i # id => rows'[i] = rows[i] /\ (InHand(i) => InHand(i)')
  <2>1. \A i \in RowId : i # id => rows'[i] = rows[i]
    BY <1>0, <1>1, SettledRows DEF Report
  <2>2. \A i \in RowId : i # id /\ InHand(i) => InHand(i)'
    BY <1>1, <1>2 DEF InHand
  <2>3. QED
    BY <2>1, <2>2
<1>4. /\ lost \in [RowId -> Nat] /\ lost' \in [RowId -> Nat] /\ MaxAttempts \in Nat
      /\ \A i \in RowId : lost'[i] >= lost[i]
      /\ \/ rows' = Settled(t) /\ lost' = lost
         \/ rows' = rows /\ lost'[id] = lost[id] + 1
  <2>1. lost \in [RowId -> Nat] /\ MaxAttempts \in Nat
    BY <1>0, BoundAssumption DEF TypeOK
  <2>2. CASE rows' = Settled(t) /\ lost' = lost
    BY <2>1, <2>2
  <2>3. CASE Lose({id}) /\ rows' = rows
    BY <1>0, <2>1, <2>3, LoseType DEF Lose
  <2>4. QED
    BY <1>1, <2>1, <2>2, <2>3 DEF Report
<1>5. ASSUME NEW i \in RowId, i # id PROVE RowSound(i)'
  BY <1>1, <1>3, <1>4, <1>5, RowStays DEF Exists
<1>6. ASSUME rows' = rows, lost'[id] = lost[id] + 1
      PROVE  RowSound(id)'
  <2>1. lost'[id] > lost[id]
    BY <1>4, <1>6
  <2>2. QED
    BY <1>1, <1>4, <1>6, <2>1, RowStays
<1>7. ASSUME rows' = Settled(t), lost' = lost, id \notin torn, Exists(rows', id)
      PROVE  RowSound(id)'
  <2>1. /\ rows \in Table /\ Exists(rows, id) /\ verdict[t] \in PublishAttempt
        /\ verdict[t].reason \in Reason \cup {NoReason}
    BY <1>0, <1>1, <1>2, <1>7, SettledRows DEF TypeOK, PublishAttempt
  <2>2. /\ job[t].attempts > 0 /\ rows[id].attempts = job[t].attempts
        /\ verdict[t].kind = "ok" \/ verdict[t].reason # NoReason
    BY <1>1, <1>2, <1>7, <2>1 DEF AttemptsInv, AttemptSound
  <2>3. verdict[t].kind # "ok" /\ rows[id].attempts \in Nat
    BY <1>1, <1>7, <2>1, RowCounts, RowsAreRows DEF Settled, Row
  <2>4. CASE rows' = MarkFailed(rows, id, verdict[t].reason)
    BY <2>1, <2>2, <2>3, <2>4, RowCounts DEF RowSound, Pending
  <2>5. CASE /\ rows' = ReleaseForRetry(rows, id, verdict[t].reason)
             /\ ~(job[t].attempts >= MaxAttempts)
    <3>1. rows'[id].status = rows[id].status /\ rows'[id].attempts = rows[id].attempts
      BY <2>1, <2>5, RowCounts
    <3>2. rows[id].status = "pending"
      <4>1. rows[id].claimedAt # NoTime
        BY <1>0, <1>1, <1>2, <1>7, <2>1, HeldIsHeld DEF Claimed
      <4>2. rows[id].status \in {"pending", "failed"}
        BY <2>1, RowsAreRows DEF Row
      <4>3. QED
        BY <1>7, <2>1, <4>1, <4>2 DEF AttemptsInv, RowSound
    <3>3. rows'[id].attempts < MaxAttempts
      BY <1>4, <2>2, <2>3, <2>5, <3>1
    <3>4. QED
      BY <1>4, <1>7, <2>3, <3>1, <3>2, <3>3 DEF RowSound
  <2>6. QED
    BY <1>1, <1>7, <2>3, <2>4, <2>5 DEF Settled
<1>8. ASSUME NEW u \in Tick PROVE AttemptSound(u)'
  <2>1. CASE u = t
    BY <1>2, <2>1 DEF AttemptSound
  <2>2. CASE u # t /\ InFlight(u) /\ job[u].id \notin torn
    <3>1. job[u].id # id /\ job[u].id \in RowId
      BY <1>0, <1>1, <1>2, <2>2, HeldIsHeld DEF LeaseInv, LeaseExclusive
    <3>2. QED
      BY <1>1, <1>2, <1>3, <2>2, <3>1, AttemptStays DEF Exists
  <2>3. CASE u # t /\ ~(InFlight(u) /\ job[u].id \notin torn)
    BY <1>1, <1>2, <2>3, AttemptStays
  <2>4. QED
    BY <2>1, <2>2, <2>3
<1>9. RowSound(id)'
  <2>1. CASE id \in torn \/ ~Exists(rows', id)
    BY <1>1, <2>1 DEF RowSound, Pending
  <2>2. QED
    BY <1>1, <1>4, <1>6, <1>7, <2>1
<1>10. QED
  BY <1>5, <1>8, <1>9 DEF AttemptsInv

(* The passes' other steps. *)
LEMMA PassSound ==
  ASSUME AttemptsInv, LeaseInv', NEW t \in Tick, Fire(t) \/ Pass(t) \/ Die(t)
  PROVE  AttemptsInv'
<1>0. TypeOK /\ LeaseInv
  BY DEF AttemptsInv, LeaseInv, KeyInv
<1>1. CASE Fire(t) \/ ReadDue(t) \/ Contended(t)
  <2>1. rows' = rows /\ torn' = torn /\ lost' = lost
    BY <1>1 DEF Fire, ReadDue, Contended, histVars
  <2>2. \A u \in Tick :
          /\ InFlight(u)' <=> InFlight(u)
          /\ InFlight(u) => job'[u] = job[u] /\ pc'[u] = pc[u] /\ verdict'[u] = verdict[u]
    BY <1>0, <1>1 DEF Fire, ReadDue, Contended, GoTo, InFlight, TypeOK
  <2>3. QED
    BY <2>1, <2>2, QuietStep
<1>2. CASE ReleaseStale(t)
  <2>1. torn' = torn /\ lost' = lost
    BY <1>2 DEF ReleaseStale, histVars
  <2>2. \A u \in Tick :
          /\ InFlight(u)' <=> InFlight(u)
          /\ InFlight(u) => job'[u] = job[u] /\ pc'[u] = pc[u] /\ verdict'[u] = verdict[u]
    BY <1>0, <1>2 DEF ReleaseStale, InFlight, TypeOK
  <2>3. ASSUME NEW id \in RowId, Exists(rows', id)
        PROVE  /\ Exists(rows, id)
               /\ rows'[id].attempts = rows[id].attempts
               /\ \/ rows'[id] = rows[id]
                  \/ rows[id].status = "pending" /\ rows'[id].status = "pending"
    <3>1. rows \in Table /\ passNow[t] - StaleAge \in Int
      BY <1>0, BoundAssumption DEF TypeOK
    <3>2. CASE rows' = rows
      BY <2>3, <3>2
    <3>3. CASE rows' = ReleaseStaleClaims(rows, passNow[t] - StaleAge)
      <4>1. CASE Stale(rows, id, passNow[t] - StaleAge)
        BY <3>1, <3>3, <4>1, StaleCounts DEF Stale, Pending
      <4>2. CASE ~Stale(rows, id, passNow[t] - StaleAge)
        BY <2>3, <3>1, <3>3, <4>2, ReleaseStaleClaimsRows DEF Exists
      <4>3. QED
        BY <4>1, <4>2
    <3>4. QED
      BY <1>2, <3>2, <3>3 DEF ReleaseStale
  <2>4. QED
    BY <2>1, <2>2, <2>3, QuietStep
<1>3. CASE Claim(t) \/ ClaimErrs(t)
  BY <1>3, ClaimSound
<1>4. CASE Land(t)
  <2>1. RowsOf(rows, job[t].draft) \in SUBSET RowId /\ rows \in Table
    BY <1>0 DEF RowsOf, TypeOK
  <2>2. \A i \in RowId : Exists(rows', i) => Exists(rows, i) /\ rows'[i] = rows[i]
    BY <1>4, <2>1, DeleteRowsRows DEF Land, DeleteSchedulesForDraft
  <2>3. torn' = torn /\ lost' = lost
    BY <1>4 DEF Land, histVars
  <2>4. \A u \in Tick :
          /\ InFlight(u)' <=> InFlight(u)
          /\ InFlight(u) => /\ job'[u] = job[u] /\ verdict'[u] = verdict[u]
                            /\ pc'[u] = "report" => pc[u] = "report"
    BY <1>0, <1>4 DEF Land, InFlight, TypeOK
  <2>5. QED
    BY <2>2, <2>3, <2>4, QuietStep
<1>5. CASE \E v \in PublishAttempt : (v.kind = "ok" <=> v.reason = NoReason) /\ Answer(t, v)
  <2>1. PICK v \in PublishAttempt : (v.kind = "ok" <=> v.reason = NoReason) /\ Answer(t, v)
    BY <1>5
  <2>2. rows' = rows /\ torn' = torn /\ lost' = lost
    BY <2>1 DEF Answer, histVars
  <2>3. /\ verdict'[t] = v /\ InFlight(t)' /\ InFlight(t) /\ job' = job
        /\ \A u \in Tick : u # t => pc'[u] = pc[u] /\ verdict'[u] = verdict[u]
    BY <1>0, <2>1 DEF Answer, InFlight, TypeOK
  <2>4. \A u \in Tick :
          /\ InFlight(u)' <=> InFlight(u)
          /\ InFlight(u) =>
               /\ job'[u] = job[u]
               /\ pc'[u] = "report" =>
                    \/ pc[u] = "report" /\ verdict'[u] = verdict[u]
                    \/ verdict'[u].kind = "ok" \/ verdict'[u].reason # NoReason
    BY <2>1, <2>3 DEF InFlight
  <2>5. QED
    BY <2>2, <2>4, QuietStep
<1>6. CASE Report(t)
  BY <1>6, ReportSound
<1>7. CASE Die(t)
  <2>1. rows' = rows /\ torn' = torn
    BY <1>7 DEF Die
  <2>2. /\ ~InFlight(t)'
        /\ \A u \in Tick : u # t =>
             /\ pc'[u] = pc[u] /\ job'[u] = job[u] /\ verdict'[u] = verdict[u]
             /\ InFlight(u)' <=> InFlight(u)
    BY <1>0, <1>7, GoToType, EmptySeq DEF Die, InFlight, TypeOK
  <2>3. /\ lost \in [RowId -> Nat] /\ lost' \in [RowId -> Nat]
        /\ \A i \in RowId : lost'[i] >= lost[i]
        /\ \A i \in RowId : InFlight(t) /\ job[t].id = i => lost'[i] > lost[i]
    <3>1. lost \in [RowId -> Nat]
      BY <1>0 DEF TypeOK
    <3>2. Lose(IF InFlight(t) THEN {job[t].id} ELSE {})
      BY <1>7 DEF Die
    <3>3. QED
      BY <1>0, <3>1, <3>2, LoseType DEF Lose
  <2>4. ASSUME NEW id \in RowId PROVE RowSound(id)'
    <3>1. InHand(id) => InHand(id)' \/ lost'[id] > lost[id]
      BY <2>2, <2>3 DEF InHand
    <3>2. QED
      BY <2>1, <2>3, <3>1, RowStays
  <2>5. ASSUME NEW u \in Tick PROVE AttemptSound(u)'
    BY <2>1, <2>2, AttemptStays
  <2>6. QED
    BY <2>4, <2>5 DEF AttemptsInv
<1>8. QED
  BY <1>1, <1>2, <1>3, <1>4, <1>5, <1>6, <1>7 DEF Pass, Publish

(* The writer's steps: a row scheduled or moved starts over, uncounted. *)
LEMMA WriterSound ==
  ASSUME AttemptsInv, LeaseInv', Writer
  PROVE  AttemptsInv'
<1>0. TypeOK /\ LeaseInv
  BY DEF AttemptsInv, LeaseInv, KeyInv
<1>1. CASE \E d \in Draft, dueAt \in 1..MaxDue, announce \in Announce :
             Schedule(d, dueAt, announce)
  <2>1. PICK d \in Draft, dueAt \in 1..MaxDue, announce \in Announce :
          Schedule(d, dueAt, announce)
    BY <1>1
  <2>2. PICK id \in RowId :
          /\ PendingOf(rows, d) = {} => id \notin usedIds
          /\ rows' = UpsertSchedule(rows, id, d, dueAt, announce)
          /\ torn' = torn \cup {i \in PendingOf(rows, d) : Claimed(rows, i)}
          /\ lost' = [i \in RowId |-> IF i \in PendingOf(rows, d) THEN 0 ELSE lost[i]]
    BY <2>1 DEF Schedule
  <2>3. rows \in Table /\ dueAt \in Nat /\ announce \in BOOLEAN
    BY <1>0, BoundAssumption DEF TypeOK
  <2>4. UNCHANGED <<pc, job, verdict>>
    BY <2>1 DEF Schedule, passVars
  <2>5. /\ lost' \in [RowId -> Nat] /\ MaxAttempts \in Nat /\ MaxAttempts > 0
        /\ \A i \in RowId : i \notin PendingOf(rows, d) => lost'[i] = lost[i]
        /\ lost \in [RowId -> Nat]
    BY <1>0, <2>2, BoundAssumption DEF TypeOK
  <2>6. ASSUME NEW i \in RowId,
               IF PendingOf(rows, d) = {} THEN i = id ELSE i \in PendingOf(rows, d)
        PROVE  RowSound(i)'
    <3>1. rows'[i].status = "pending" /\ rows'[i].attempts = 0
      BY <2>2, <2>3, <2>6, ScheduleCounts
    <3>2. lost'[i] \in Nat
      BY <2>5
    <3>3. QED
      BY <2>5, <3>1, <3>2 DEF RowSound
  <2>7. ASSUME NEW i \in RowId,
               ~(IF PendingOf(rows, d) = {} THEN i = id ELSE i \in PendingOf(rows, d))
        PROVE  rows'[i] = rows[i] /\ i \notin PendingOf(rows, d)
    <3>1. CASE PendingOf(rows, d) = {}
      BY <2>2, <2>3, <2>7, <3>1, UpsertScheduleRows DEF Table
    <3>2. CASE PendingOf(rows, d) # {}
      BY <2>2, <2>3, <2>7, <3>2, UpsertScheduleRows
    <3>3. QED
      BY <3>1, <3>2
  <2>8. ASSUME NEW i \in RowId PROVE RowSound(i)'
    <3>1. CASE IF PendingOf(rows, d) = {} THEN i = id ELSE i \in PendingOf(rows, d)
      BY <2>6, <3>1
    <3>2. CASE ~(IF PendingOf(rows, d) = {} THEN i = id ELSE i \in PendingOf(rows, d))
      <4>1. rows'[i] = rows[i] /\ lost'[i] = lost[i]
        BY <2>5, <2>7, <3>2
      <4>2. lost'[i] >= lost[i]
        BY <2>5, <4>1
      <4>3. InHand(i) => InHand(i)'
        BY <2>4 DEF InHand, InFlight
      <4>4. QED
        BY <2>2, <2>5, <4>1, <4>2, <4>3, RowStays DEF Exists
    <3>3. QED
      BY <3>1, <3>2
  <2>9. ASSUME NEW u \in Tick PROVE AttemptSound(u)'
    <3>1. ASSUME InFlight(u)', job[u].id \notin torn', Exists(rows', job[u].id)
          PROVE  rows'[job[u].id] = rows[job[u].id]
      <4>1. InFlight(u) /\ job[u].id \notin torn /\ job[u].id \in RowId /\ job[u].id \in usedIds
        BY <1>0, <2>2, <2>4, <3>1
          DEF InFlight, TypeOK, ClaimedPost, LeaseInv, KeyInv, IdsMinted
      <4>2. job[u].id \notin PendingOf(rows, d)
        BY <1>0, <2>2, <3>1, <4>1, HeldIsHeld DEF PendingOf, RowsOf
      <4>3. QED
        BY <2>2, <2>7, <4>1, <4>2
    <3>2. QED
      BY <2>2, <2>4, <3>1, AttemptStays DEF InFlight, Exists
  <2>10. QED
    BY <2>8, <2>9 DEF AttemptsInv
<1>2. CASE \E ids \in SUBSET RowId :
             /\ rows' = DeleteRows(rows, ids)
             /\ UNCHANGED <<clock, fired, passVars, faults, mintVars, histVars>>
  <2>1. PICK ids \in SUBSET RowId : rows' = DeleteRows(rows, ids)
    BY <1>2
  <2>2. rows \in Table
    BY <1>0 DEF TypeOK
  <2>3. \A i \in RowId : Exists(rows', i) => Exists(rows, i) /\ rows'[i] = rows[i]
    BY <2>1, <2>2, DeleteRowsRows
  <2>4. UNCHANGED <<pc, job, verdict, torn, lost>>
    BY <1>2 DEF passVars, histVars
  <2>5. QED
    BY <2>3, <2>4, QuietStep DEF InFlight
<1>3. QED
  BY <1>0, <1>1, <1>2, WriterDeletes DEF Writer

LEMMA InitAttemptsInv == Init => AttemptsInv
BY InitLeaseInv DEF Init, AttemptsInv, RowSound, AttemptSound, InFlight, Pending, Exists

(* AttemptsInv is inductive. *)
LEMMA AttemptsInvStep ==
  ASSUME AttemptsInv, [Next]_vars
  PROVE  AttemptsInv'
<1>1. LeaseInv'
  BY LeaseInvStep DEF AttemptsInv
<1>2. CASE Advance \/ UNCHANGED vars
  <2>1. UNCHANGED <<rows, pc, job, verdict, torn, lost>>
    BY <1>2 DEF Advance, vars, passVars, histVars
  <2>2. QED
    BY <1>1, <2>1, QuietStep DEF InFlight
<1>3. CASE \E t \in Tick : Fire(t) \/ Pass(t) \/ Die(t)
  BY <1>1, <1>3, PassSound
<1>4. CASE Writer
  BY <1>1, <1>4, WriterSound
<1>5. QED
  BY <1>2, <1>3, <1>4 DEF Next

(* "Nothing retries forever": a row that waits for a pass, unless it was    *)
(* moved while it was held, has an attempt left, not counting the attempts  *)
(* that died without reporting.  A row nobody holds has no attempt in hand. *)
THEOREM CeilingHolds == Spec => []AttemptCeiling
<1>1. AttemptsInv => AttemptCeiling
  <2>1. SUFFICES ASSUME AttemptsInv, NEW id \in RowId, Claimable(rows, id), id \notin torn
                 PROVE  rows[id].attempts < MaxAttempts + lost[id]
    BY DEF AttemptCeiling
  <2>2. ~InHand(id)
    BY <2>1, HeldIsHeld DEF AttemptsInv, InHand
  <2>3. QED
    BY <2>1, <2>2 DEF AttemptsInv, RowSound, Claimable
<1>2. AttemptsInv /\ [Next]_vars => AttemptsInv'
  BY AttemptsInvStep
<1>3. QED
  BY <1>1, <1>2, InitAttemptsInv, PTL DEF Spec

(* A row fails on its own account: markFailed reaches it only from the      *)
(* attempt that holds it, after a try that gave a reason, and frees it.     *)
THEOREM FailuresHaveCause == Spec => []FailedForCause
<1>1. AttemptsInv => FailedForCause
  BY DEF AttemptsInv, RowSound, FailedForCause
<1>2. AttemptsInv /\ [Next]_vars => AttemptsInv'
  BY AttemptsInvStep
<1>3. QED
  BY <1>1, <1>2, InitAttemptsInv, PTL DEF Spec
=============================================================================
