--------------------------- MODULE ScheduleTable ---------------------------
(***************************************************************************)
(* The scheduled_posts table and the statements the program runs on it.    *)
(* Each operator maps a table to the table the statement leaves behind, so *)
(* a statement is atomic, as it is in D1.  Nothing else writes the table.  *)
(*                                                                         *)
(* A table is a function from row ids to rows; NoRow marks an id with no   *)
(* row.  Draft ids are UUIDs, so a draft determines its writer and the     *)
(* `did' every writer-facing statement pairs with its keys is left out.    *)
(* `updatedAt' and `createdAt' are read by nobody here and are left out.   *)
(***************************************************************************)
EXTENDS Integers, Sequences

CONSTANTS
  Draft,    \* draft ids
  RowId,    \* schedule row ids, crypto.randomUUID()
  Key,      \* record keys, generateTid()
  Reason,   \* the sentences lastError can hold
  NoReason, NoRow, NoTime, NoKey  \* NULLs

ASSUME NullAssumption ==
  /\ NoTime \notin Nat
  /\ NoKey \notin Key
  /\ NoReason \notin Reason

Row == [draft: Draft, status: {"pending", "failed"}, dueAt: Nat,
        claimedAt: Nat \cup {NoTime}, attempts: Nat, rkey: Key \cup {NoKey},
        announce: BOOLEAN, lastError: Reason \cup {NoReason}]

ASSUME NoRowAssumption == NoRow \notin Row

Table == [RowId -> Row \cup {NoRow}]

Exists(rows, id) == rows[id] # NoRow
Pending(rows, id) == Exists(rows, id) /\ rows[id].status = "pending"
Claimed(rows, id) == Exists(rows, id) /\ rows[id].claimedAt # NoTime
RowsOf(rows, d) == {id \in RowId : Exists(rows, id) /\ rows[id].draft = d}
PendingOf(rows, d) == {id \in RowsOf(rows, d) : rows[id].status = "pending"}

-----------------------------------------------------------------------------
(* The cron's statements *)

DuePost == [id: RowId, draft: Draft, announce: BOOLEAN]

DuePosts(rows, now) ==
  {[id |-> id, draft |-> rows[id].draft, announce |-> rows[id].announce] :
     id \in {i \in RowId : /\ Pending(rows, i)
                           /\ rows[i].claimedAt = NoTime
                           /\ rows[i].dueAt <= now}}

(* The answers of the due lookup: at most `limit' due posts, oldest first,  *)
(* none left out that is due earlier than one returned.  Rows due at the    *)
(* same time come in any order: the code orders them by a random UUID.      *)
SelectDuePosts(rows, now, limit) ==
  LET due == DuePosts(rows, now)
      dueAt(p) == rows[p.id].dueAt
  IN  {q \in UNION {[1..n -> due] : n \in 0..limit} :
         /\ \A i, j \in DOMAIN q :
              i < j => q[i] # q[j] /\ dueAt(q[i]) <= dueAt(q[j])
         /\ \A p \in due :
              \/ \E i \in DOMAIN q : q[i] = p
              \/ Len(q) = limit /\ \A i \in DOMAIN q : dueAt(q[i]) <= dueAt(p)}

(* Slip: the claim forgets claimedAt IS NULL. *)
ClaimableUnchecked(rows, id) == Pending(rows, id)

(* The WHERE of the claim: it does not look at dueAt or attempts. *)
Claimable(rows, id) == Pending(rows, id) /\ rows[id].claimedAt = NoTime

(* Slip: the claim reserves no key. *)
CoalesceNothing(rkey, fresh) == rkey

Coalesce(rkey, fresh) == IF rkey = NoKey THEN fresh ELSE rkey

ClaimDuePost(rows, id, now, fresh) ==
  [rows EXCEPT ![id].claimedAt = now,
               ![id].attempts = @ + 1,
               ![id].rkey = Coalesce(@, fresh)]

DeletePublishedSchedule(rows, id) == [rows EXCEPT ![id] = NoRow]

(* Slip: a failed row keeps its lease. *)
MarkFailedHeld(rows, id, reason) ==
  IF Exists(rows, id)
  THEN [rows EXCEPT ![id].status = "failed", ![id].lastError = reason]
  ELSE rows

MarkFailed(rows, id, reason) ==
  IF Exists(rows, id)
  THEN [rows EXCEPT ![id].status = "failed",
                    ![id].claimedAt = NoTime,
                    ![id].lastError = reason]
  ELSE rows

ReleaseForRetry(rows, id, reason) ==
  IF Exists(rows, id)
  THEN [rows EXCEPT ![id].claimedAt = NoTime, ![id].lastError = reason]
  ELSE rows

(* Slips: any lease is taken for abandoned; none is. *)
StaleAtOnce(rows, id, before) == Pending(rows, id) /\ Claimed(rows, id)
StaleNever(rows, id, before) == FALSE

(* A comparison with NULL is never true, so an unclaimed row is not stale. *)
Stale(rows, id, before) ==
  Pending(rows, id) /\ Claimed(rows, id) /\ rows[id].claimedAt < before

ReleaseStaleClaims(rows, before) ==
  [id \in RowId |-> IF Stale(rows, id, before)
                    THEN [rows[id] EXCEPT !.claimedAt = NoTime]
                    ELSE rows[id]]

-----------------------------------------------------------------------------
(* The writer's statements *)

NewRow(d, dueAt, announce) ==
  [draft |-> d, status |-> "pending", dueAt |-> dueAt, claimedAt |-> NoTime,
   attempts |-> 0, rkey |-> NoKey, announce |-> announce,
   lastError |-> NoReason]

(* Slip: a move starts the row over, its reserved key too. *)
UpsertAfresh(rows, id, d, dueAt, announce) ==
  LET at == IF PendingOf(rows, d) = {} THEN {id} ELSE PendingOf(rows, d) IN
  [i \in RowId |-> IF i \in at THEN NewRow(d, dueAt, announce) ELSE rows[i]]

(* INSERT ... ON CONFLICT (did, draft_id) WHERE status = 'pending'.  The    *)
(* conflicting row keeps its id and its reserved key.                       *)
UpsertSchedule(rows, id, d, dueAt, announce) ==
  IF PendingOf(rows, d) = {}
  THEN [rows EXCEPT ![id] = NewRow(d, dueAt, announce)]
  ELSE [i \in RowId |->
          IF i \in PendingOf(rows, d)
          THEN [NewRow(d, dueAt, announce) EXCEPT !.rkey = rows[i].rkey]
          ELSE rows[i]]

CancelSchedule(rows, id) == [rows EXCEPT ![id] = NoRow]

DeleteRows(rows, ids) == [id \in RowId |-> IF id \in ids THEN NoRow ELSE rows[id]]

DeleteSchedulesForDraft(rows, d) == DeleteRows(rows, RowsOf(rows, d))

(* Slip: "publish now" takes a claimed row too. *)
UnclaimedUnchecked(rows, d) == RowsOf(rows, d)

(* What RETURNING hands "publish now". *)
UnclaimedOf(rows, d) == {id \in RowsOf(rows, d) : rows[id].claimedAt = NoTime}

DeleteUnclaimedSchedulesForDraft(rows, d) == DeleteRows(rows, UnclaimedOf(rows, d))

(* The ids a lookup by draft may answer with: the pending row if there is   *)
(* one, else any of the failed ones.                                        *)
SelectScheduleForDraft(rows, d) ==
  IF PendingOf(rows, d) # {} THEN PendingOf(rows, d) ELSE RowsOf(rows, d)
=============================================================================
