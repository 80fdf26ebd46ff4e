------------------------ MODULE ScheduledPublishing ------------------------
(***************************************************************************)
(* Publishing a stored draft to the writer's repo, by the passes of        *)
(* SchedulePass and by "Publish now" and the editor's Publish button       *)
(* meanwhile.  Every await is a step of its own: what a publisher read may *)
(* be stale when it acts on it.                                            *)
(*                                                                         *)
(* The repo (the writer's PDS) is external.  It holds one record per key,  *)
(* refuses to create over one, and compares swapRecord with what it holds. *)
(* A net fault is a call to it, or a best-effort D1 call of a publisher,   *)
(* that fails: refused, unreachable, or done with the answer lost;         *)
(* MaxNetFaults bounds them.                                               *)
(***************************************************************************)
EXTENDS SchedulePass

CONSTANTS
  OwnKey,        \* the keys requests mint, apart from the claims' (random both)
  Request,       \* processes that can be serving a request of the writer
  Ops,           \* what the writer does in this instance, of WriterOps
  MaxVersion,    \* bound: saves of a draft
  MaxNetFaults,  \* bound: net faults
  Gone, NoRecord, NoAtt

WriterOps == {"edit", "schedule", "move", "again", "unschedule", "deleteDraft",
              "publishNow", "publishForm"}

ASSUME OpsAssumption == Ops \subseteq WriterOps
ASSUME NetBoundAssumption == MaxVersion \in Nat /\ MaxNetFaults \in Nat
ASSUME ProcAssumption == Tick \cap Request = {}
ASSUME KeyAssumption == Key \cap OwnKey = {} /\ NoKey \notin OwnKey
ASSUME ReasonAssumption ==
  {"session_lost", "read_failed", "draft_gone", "unconfirmed", "pds_unreachable",
   "threw", "refused"} \subseteq Reason

Proc == Tick \cup Request
Version == 0..MaxVersion
Rkey == Key \cup OwnKey

(* A document: whose words, which save of them, and whether bskyPostRef is  *)
(* set.  Its cid is its content.                                            *)
Record == [draft: Draft, ver: Version, ref: BOOLEAN]

ASSUME NullRecordAssumption == NoRecord \notin Record /\ Gone \notin Version

VARIABLES
  drafts,    \* the drafts table: the save each draft holds, or Gone
  repo,      \* the writer's document records
  posts,     \* announce posts made of each record
  att,       \* where each publisher is in its publish
  netFaults, \* net faults so far
  usedOwn,   \* the keys requests have minted
  discarded  \* history: drafts the writer deleted

pubVars == <<drafts, repo, posts, att, netFaults, usedOwn, discarded>>
allVars == <<vars, pubVars>>

(* at: the next step.  fixed: a claim reserved the key.  ver: the save being *)
(* published.  seen: the record read, and its cid.  todo: cleanups to run.   *)
Attempt == [at: {"restore", "draft", "probe", "resolve", "inflight", "load",
                 "create", "readback", "replace", "clean",
                 "announce", "post", "note", "answer", "upsert", "unqueue"},
            draft: Draft, rkey: Rkey \cup {NoKey}, fixed: BOOLEAN,
            announce: BOOLEAN, ver: Version, seen: Record \cup {NoRecord},
            todo: SUBSET {"draft", "rows"}]

ASSUME NoAttAssumption == NoAtt \notin Attempt

Starting(at, d, rkey, announce) ==
  [at |-> at, draft |-> d, rkey |-> rkey, fixed |-> rkey # NoKey,
   announce |-> announce, ver |-> 0, seen |-> NoRecord, todo |-> {}]

At(p, at) == att[p] # NoAtt /\ att[p].at = at

PubInit ==
  /\ Init
  /\ drafts = [d \in Draft |-> 0]
  /\ repo = [k \in Rkey |-> NoRecord]
  /\ posts = [k \in Rkey |-> 0]
  /\ att = [p \in Proc |-> NoAtt]
  /\ netFaults = 0
  /\ usedOwn = {}
  /\ discarded = {}

NetFault == netFaults < MaxNetFaults /\ netFaults' = netFaults + 1
NoNetFault == UNCHANGED netFaults

Step(p, at) == att' = [att EXCEPT ![p].at = at] /\ UNCHANGED vars

(* The publish ends with verdict v: a pass hears it, a request redirects.   *)
Done(p, v) ==
  /\ att' = [att EXCEPT ![p] = NoAtt]
  /\ IF p \in Tick THEN Answer(p, v) ELSE UNCHANGED vars

(* A refusal is worth another hour, or not, by its status; so is a throw.   *)
Refused(p) == \E v \in {Retry("refused"), Fail("refused")} : Done(p, v)
Threw(p) == Done(p, Retry("threw"))

-----------------------------------------------------------------------------
(* writeDocument: create, and on a reserved key read back and replace.      *)

NewRecord(p, ref) == [draft |-> att[p].draft, ver |-> att[p].ver, ref |-> ref]

Put(p, record) == repo' = [repo EXCEPT ![att[p].rkey] = record]

Written(p) ==
  /\ att' = [att EXCEPT ![p].at = "clean", ![p].todo = {"draft", "rows"}]
  /\ UNCHANGED vars

(* Slip: the refusal is not looked at. *)
NotCreatedUnchecked(p) == Written(p)

NotCreated(p) == IF att[p].fixed THEN Step(p, "readback") ELSE Refused(p)

Create(p) ==
  LET free == repo[att[p].rkey] = NoRecord IN
  /\ At(p, "create")
  /\ \/ free /\ Put(p, NewRecord(p, FALSE)) /\ Written(p) /\ NoNetFault
     \/ ~free /\ NotCreated(p) /\ UNCHANGED repo /\ NoNetFault
     \/ /\ NetFault
        /\ UNCHANGED repo \/ (free /\ Put(p, NewRecord(p, FALSE)))
        /\ NotCreated(p) \/ Threw(p)
  /\ UNCHANGED <<drafts, posts, usedOwn, discarded>>

ReadBack(p) ==
  LET existing == repo[att[p].rkey] IN
  /\ At(p, "readback")
  /\ \/ existing = NoRecord /\ Refused(p) /\ NoNetFault
     \/ /\ existing # NoRecord /\ NoNetFault
        /\ att' = [att EXCEPT ![p].at = "replace", ![p].seen = existing]
        /\ UNCHANGED vars
     \/ NetFault /\ Done(p, Retry("unconfirmed"))
  /\ UNCHANGED <<drafts, repo, posts, usedOwn, discarded>>

(* Slip: the record is rebuilt without the ref. *)
ReplaceDroppingRef(p) ==
  /\ At(p, "replace") /\ repo[att[p].rkey] = att[p].seen
  /\ Put(p, NewRecord(p, FALSE)) /\ Written(p)
  /\ UNCHANGED <<drafts, posts, netFaults, usedOwn, discarded>>

(* Keeps the bskyPostRef it saw; swapRecord refuses a record changed since. *)
Replace(p) ==
  LET swaps == repo[att[p].rkey] = att[p].seen
      record == NewRecord(p, att[p].seen.ref)
  IN
  /\ At(p, "replace")
  /\ \/ swaps /\ Put(p, record) /\ Written(p) /\ NoNetFault
     \/ ~swaps /\ Done(p, Fail("refused")) /\ UNCHANGED repo /\ NoNetFault
     \/ /\ NetFault
        /\ UNCHANGED repo \/ (swaps /\ Put(p, record))
        /\ Refused(p) \/ Threw(p)
  /\ UNCHANGED <<drafts, posts, usedOwn, discarded>>

-----------------------------------------------------------------------------
(* After the write: the draft and its rows go, each best effort, together.  *)

CleanedUp(p, what) ==
  LET left == att[p].todo \ {what}
      next == IF left # {} THEN "clean"
              ELSE IF att[p].announce THEN "announce" ELSE "answer"
  IN  att' = [att EXCEPT ![p].todo = left, ![p].at = next]

CleanDraft(p) ==
  /\ At(p, "clean") /\ "draft" \in att[p].todo
  /\ \/ drafts' = [drafts EXCEPT ![att[p].draft] = Gone] /\ NoNetFault
     \/ NetFault /\ UNCHANGED drafts
  /\ CleanedUp(p, "draft")
  /\ UNCHANGED <<vars, repo, posts, usedOwn, discarded>>

ClearRows(d) == CancelForDraft(d) \/ (RowsOf(rows, d) = {} /\ UNCHANGED vars)

CleanRows(p) ==
  /\ At(p, "clean") /\ "rows" \in att[p].todo
  /\ IF p \in Tick
     THEN Land(p) /\ NoNetFault
     ELSE \/ ClearRows(att[p].draft) /\ NoNetFault
          \/ NetFault /\ UNCHANGED vars
  /\ CleanedUp(p, "rows")
  /\ UNCHANGED <<drafts, repo, posts, usedOwn, discarded>>

-----------------------------------------------------------------------------
(* announceDocument with onlyOnce: no failure of it reaches the verdict.    *)

(* Slip: the ref is not looked at. *)
AnnounceReadUnchecked(p) ==
  /\ At(p, "announce") /\ repo[att[p].rkey] # NoRecord
  /\ att' = [att EXCEPT ![p].at = "post", ![p].seen = repo[att[p].rkey]]
  /\ UNCHANGED <<vars, drafts, repo, posts, netFaults, usedOwn, discarded>>

AnnounceRead(p) ==
  LET doc == repo[att[p].rkey] IN
  /\ At(p, "announce")
  /\ \/ /\ doc # NoRecord /\ ~doc.ref /\ NoNetFault
        /\ att' = [att EXCEPT ![p].at = "post", ![p].seen = doc]
     \/ /\ doc = NoRecord \/ doc.ref
        /\ NoNetFault
        /\ att' = [att EXCEPT ![p].at = "answer"]
     \/ NetFault /\ att' = [att EXCEPT ![p].at = "answer"]
  /\ UNCHANGED <<vars, drafts, repo, posts, usedOwn, discarded>>

AnnouncePost(p) ==
  /\ At(p, "post")
  /\ \/ /\ posts' = [posts EXCEPT ![att[p].rkey] = @ + 1]
        /\ \/ Step(p, "note") /\ NoNetFault
           \/ Step(p, "answer") /\ NetFault
     \/ UNCHANGED posts /\ Step(p, "answer") /\ NetFault
  /\ UNCHANGED <<drafts, repo, usedOwn, discarded>>

AnnounceNote(p) ==
  LET swaps == repo[att[p].rkey] = att[p].seen IN
  /\ At(p, "note")
  /\ \/ swaps /\ Put(p, [att[p].seen EXCEPT !.ref = TRUE]) /\ NoNetFault
     \/ ~swaps /\ UNCHANGED repo /\ NoNetFault
     \/ NetFault /\ UNCHANGED repo
  /\ Step(p, "answer")
  /\ UNCHANGED <<drafts, posts, usedOwn, discarded>>

Finish(p) ==
  /\ At(p, "answer")
  /\ Done(p, Ok)
  /\ UNCHANGED <<drafts, repo, posts, netFaults, usedOwn, discarded>>

-----------------------------------------------------------------------------
(* publishDuePost: what a pass does with a claimed row. *)

PassClaim(t) ==
  /\ Claim(t)
  /\ att' = [att EXCEPT ![t] = Starting("restore", job'[t].draft, job'[t].rkey, job'[t].announce)]
  /\ UNCHANGED <<drafts, repo, posts, netFaults, usedOwn, discarded>>

(* Slip: the publisher does the pass's bookkeeping. *)
RestoreSessionAndSettle(t) ==
  /\ At(t, "restore") /\ rows' = MarkFailed(rows, job[t].id, "session_lost")
  /\ att' = [att EXCEPT ![t] = NoAtt]
  /\ UNCHANGED <<clock, fired, passVars, faults, mintVars, histVars,
                 drafts, repo, posts, netFaults, usedOwn, discarded>>

RestoreSession(t) ==
  /\ At(t, "restore")
  /\ \/ Step(t, "draft") /\ NoNetFault
     \/ Done(t, Fail("session_lost")) /\ NetFault
  /\ UNCHANGED <<drafts, repo, posts, usedOwn, discarded>>

(* Slip: a draft that is gone is not noticed. *)
ReadDraftUnchecked(t) ==
  /\ At(t, "draft")
  /\ att' = [att EXCEPT ![t].at = "resolve", ![t].ver = drafts[att[t].draft]]
  /\ UNCHANGED <<vars, drafts, repo, posts, netFaults, usedOwn, discarded>>

ReadDraft(t) ==
  LET saved == drafts[att[t].draft] IN
  /\ At(t, "draft")
  /\ \/ /\ saved # Gone /\ NoNetFault
        /\ att' = [att EXCEPT ![t].at = "resolve", ![t].ver = saved]
        /\ UNCHANGED vars
     \/ saved = Gone /\ Step(t, "probe") /\ NoNetFault
     \/ Done(t, Retry("read_failed")) /\ NetFault
  /\ UNCHANGED <<drafts, repo, posts, usedOwn, discarded>>

(* Slip: a PDS that cannot say is read as saying no. *)
ProbeUnknownIsMissing(t) ==
  /\ At(t, "probe")
  /\ Done(t, Fail("draft_gone"))
  /\ UNCHANGED <<drafts, repo, posts, netFaults, usedOwn, discarded>>

(* No draft: did an earlier attempt publish it? *)
Probe(t) ==
  LET existing == repo[att[t].rkey] IN
  /\ At(t, "probe")
  /\ \/ existing = NoRecord /\ Done(t, Fail("draft_gone")) /\ NoNetFault
     \/ /\ existing # NoRecord /\ NoNetFault
        /\ Step(t, IF att[t].announce THEN "announce" ELSE "answer")
     \/ Done(t, Retry("unconfirmed")) /\ NetFault
  /\ UNCHANGED <<drafts, repo, posts, usedOwn, discarded>>

(* The writer's PDS, then what the draft itself can be refused for: no      *)
(* title, no valid record, too many bytes.                                  *)
Resolve(t) ==
  /\ At(t, "resolve")
  /\ \/ Step(t, "create") /\ NoNetFault
     \/ Done(t, Fail("refused")) /\ NoNetFault
     \/ Done(t, Retry("pds_unreachable")) /\ NetFault
  /\ UNCHANGED <<drafts, repo, posts, usedOwn, discarded>>

(* The steps of the pass around the publish. *)
PassStep(t) ==
  /\ \/ Fire(t) \/ ReleaseStale(t) \/ ReadDue(t)
     \/ Contended(t) \/ ClaimErrs(t) \/ Report(t)
  /\ UNCHANGED pubVars

PassDies(t) ==
  /\ Die(t)
  /\ att' = [att EXCEPT ![t] = NoAtt]
  /\ UNCHANGED <<drafts, repo, posts, netFaults, usedOwn, discarded>>

-----------------------------------------------------------------------------
(* The writer's requests *)

Begin(r, attempt) == att[r] = NoAtt /\ att' = [att EXCEPT ![r] = attempt]

(* Autosave. *)
Edit(d) ==
  /\ "edit" \in Ops
  /\ drafts[d] # Gone /\ drafts[d] < MaxVersion
  /\ drafts' = [drafts EXCEPT ![d] = @ + 1]
  /\ UNCHANGED <<vars, repo, posts, att, netFaults, usedOwn, discarded>>

(* scheduleDraft: the draft must be there; then the upsert.  "move" is a    *)
(* pending row's, "again" a draft's whose earlier schedule failed.          *)
ScheduleChecks(r, d) ==
  /\ drafts[d] # Gone
  /\ Begin(r, Starting("upsert", d, NoKey, FALSE))
  /\ UNCHANGED <<vars, drafts, repo, posts, netFaults, usedOwn, discarded>>

ScheduleOp(d) == IF PendingOf(rows, d) # {} THEN "move"
                 ELSE IF RowsOf(rows, d) # {} THEN "again" ELSE "schedule"

ScheduleUpserts(r) ==
  /\ At(r, "upsert")
  /\ ScheduleOp(att[r].draft) \in Ops
  /\ \E dueAt \in 1..MaxDue, announce \in Announce :
       Schedule(att[r].draft, dueAt, announce)
  /\ att' = [att EXCEPT ![r] = NoAtt]
  /\ UNCHANGED <<drafts, repo, posts, netFaults, usedOwn, discarded>>

(* By the row's id or by the draft's, whether or not a pass holds the row.  *)
Unschedule ==
  /\ "unschedule" \in Ops
  /\ (\E id \in RowId : Cancel(id)) \/ (\E d \in Draft : CancelForDraft(d))
  /\ UNCHANGED pubVars

DeleteDraft(r, d) ==
  /\ "deleteDraft" \in Ops
  /\ drafts[d] # Gone
  /\ Begin(r, Starting("unqueue", d, NoKey, FALSE))
  /\ drafts' = [drafts EXCEPT ![d] = Gone]
  /\ discarded' = discarded \cup {d}
  /\ UNCHANGED <<vars, repo, posts, netFaults, usedOwn>>

DeleteDraftUnqueues(r) ==
  /\ At(r, "unqueue")
  /\ \/ ClearRows(att[r].draft) /\ NoNetFault
     \/ UNCHANGED vars /\ NetFault
  /\ att' = [att EXCEPT ![r] = NoAtt]
  /\ UNCHANGED <<drafts, repo, posts, usedOwn, discarded>>

(* publishNow takes the unclaimed rows out of the queue; the one it hears   *)
(* of first gives the key and the announce choice.  A rejected statement    *)
(* counts as "no rows", whether or not it ran.                              *)
PublishNow(r, d) ==
  /\ "publishNow" \in Ops
  /\ \/ \E id \in UnclaimedOf(rows, d) :
          /\ TakeOver(d) /\ NoNetFault
          /\ Begin(r, Starting("load", d, rows[id].rkey, rows[id].announce))
     \/ /\ UnclaimedOf(rows, d) = {} /\ UNCHANGED vars /\ NoNetFault
        /\ Begin(r, Starting("inflight", d, NoKey, FALSE))
     \/ /\ NetFault
        /\ TakeOver(d) \/ UNCHANGED vars
        /\ Begin(r, Starting("inflight", d, NoKey, FALSE))
  /\ UNCHANGED <<drafts, repo, posts, usedOwn, discarded>>

(* A row still there is one a pass is publishing. *)
NowInFlight(r) ==
  /\ At(r, "inflight")
  /\ \/ RowsOf(rows, att[r].draft) # {} /\ Done(r, Ok) /\ NoNetFault
     \/ RowsOf(rows, att[r].draft) = {} /\ Step(r, "load") /\ NoNetFault
     \/ Step(r, "load") /\ NetFault
  /\ UNCHANGED <<drafts, repo, posts, usedOwn, discarded>>

(* A key of its own, if it was given none. *)
KeysFor(rkey) == IF rkey = NoKey THEN OwnKey \ usedOwn ELSE {rkey}
Mint(k) == usedOwn' = usedOwn \cup ({k} \ Key)

NowLoads(r) ==
  LET saved == drafts[att[r].draft] IN
  /\ At(r, "load")
  /\ \/ \E k \in KeysFor(att[r].rkey) :
          /\ saved # Gone /\ Mint(k) /\ NoNetFault
          /\ att' = [att EXCEPT ![r].at = "create", ![r].rkey = k, ![r].ver = saved]
          /\ UNCHANGED vars
     \/ saved = Gone /\ Done(r, Ok) /\ NoNetFault /\ UNCHANGED usedOwn
     \/ Done(r, Ok) /\ NetFault /\ UNCHANGED usedOwn
  /\ UNCHANGED <<drafts, repo, posts, discarded>>

(* publishDocument, from an editor open on the stored draft: it looks for a *)
(* schedule, and refuses one a pass holds.                                  *)
PublishForm(r, d) ==
  /\ "publishForm" \in Ops
  /\ drafts[d] # Gone
  /\ \E rkey \in {NoKey} \cup {rows[id].rkey : id \in SelectScheduleForDraft(rows, d)},
        announce \in Announce :
       /\ \/ /\ \E id \in SelectScheduleForDraft(rows, d) :
                  rows[id].rkey = rkey /\ ~Claimed(rows, id)
             /\ NoNetFault
          \/ rkey = NoKey /\ SelectScheduleForDraft(rows, d) = {} /\ NoNetFault
          \/ rkey = NoKey /\ NetFault
       /\ \E k \in KeysFor(rkey) :
            /\ Mint(k)
            /\ Begin(r, [Starting("create", d, rkey, announce)
                           EXCEPT !.rkey = k, !.ver = drafts[d]])
  /\ UNCHANGED <<vars, drafts, repo, posts, discarded>>

RequestDies(r) ==
  /\ att[r] # NoAtt
  /\ NetFault
  /\ Done(r, Ok)
  /\ UNCHANGED <<drafts, repo, posts, usedOwn, discarded>>

-----------------------------------------------------------------------------
Write(p) ==
  \/ Create(p) \/ ReadBack(p) \/ Replace(p)
  \/ CleanDraft(p) \/ CleanRows(p)
  \/ AnnounceRead(p) \/ AnnouncePost(p) \/ AnnounceNote(p)
  \/ Finish(p)

PublishDuePost(t) == RestoreSession(t) \/ ReadDraft(t) \/ Probe(t) \/ Resolve(t)

Serve(r) ==
  \/ ScheduleUpserts(r) \/ DeleteDraftUnqueues(r)
  \/ NowInFlight(r) \/ NowLoads(r)

WriterActs ==
  \/ Unschedule
  \/ \E d \in Draft :
       \/ Edit(d)
       \/ \E r \in Request : \/ ScheduleChecks(r, d) \/ DeleteDraft(r, d)
                             \/ PublishNow(r, d) \/ PublishForm(r, d)

PubNext ==
  \/ Advance /\ UNCHANGED pubVars
  \/ \E t \in Tick : PassStep(t) \/ PassClaim(t) \/ PublishDuePost(t) \/ PassDies(t)
  \/ \E p \in Proc : Write(p)
  \/ \E r \in Request : Serve(r) \/ RequestDies(r)
  \/ WriterActs

PubSpec == PubInit /\ [][PubNext]_allVars

-----------------------------------------------------------------------------
(* What publishing promises *)

PubTypeOK ==
  /\ TypeOK
  /\ drafts \in [Draft -> Version \cup {Gone}]
  /\ repo \in [Rkey -> Record \cup {NoRecord}]
  /\ posts \in [Rkey -> Nat]
  /\ att \in [Proc -> Attempt \cup {NoAtt}]
  /\ netFaults \in Nat /\ usedOwn \in SUBSET OwnKey /\ discarded \in SUBSET Draft

RecordsOf(d) == {k \in Rkey : repo[k] # NoRecord /\ repo[k].draft = d}

(* "A retry can't publish twice": a draft is live at one key at most. *)
OneRecordPerDraft == \A d \in Draft : \A j, k \in RecordsOf(d) : j = k

(* What the writer sees is PublishedOnce. *)
Once == INSTANCE PublishedOnce
          WITH live <- [d \in Draft |-> {<<k, repo[k].ver>> : k \in RecordsOf(d)}]
PublishesOnce == Once!Spec

(* Publishing completes a draft by deleting it: a draft is gone only if its *)
(* words are live, or the writer threw them away.                           *)
WordsKept == \A d \in Draft : drafts[d] = Gone => RecordsOf(d) # {} \/ d \in discarded

(* "Keeping any bskyPostRef it gained": no publisher's replace, however     *)
(* late, undoes the announcement another noted on the record.               *)
RefKept ==
  [][\A k \in Rkey : repo[k] # NoRecord /\ repo[k].ref => repo'[k].ref]_allVars

(* "No edit made between attempts lost": while a row is held by one pass at *)
(* a time, no attempt puts an older save over a newer one.                  *)
NeverGoesBack ==
  [][\A k \in Rkey : repo[k] # NoRecord /\ torn = {} => repo'[k].ver >= repo[k].ver]_allVars

(* "Its reserved key says whether it did": the row of a post that is live   *)
(* is never failed with "there was nothing to publish", unless the writer   *)
(* moved the row while a pass held it.                                      *)
DraftGoneIsTrue ==
  \A id \in RowId :
    Exists(rows, id) /\ rows[id].lastError = "draft_gone" /\ id \notin torn =>
      repo[reserved[id]] = NoRecord

(* "An automatic announce must never post twice, even when a retried        *)
(* publish finds its record already live": while a row is held by one pass  *)
(* at a time, nothing is posted of a record that notes its post.            *)
AnnouncesUnnoted ==
  [][\A k \in Rkey : posts'[k] # posts[k] /\ torn = {} => ~repo[k].ref]_allVars

(* "A returned row means the caller owns the publish": when "Publish now"   *)
(* has released a row and is about to publish under its key, no pass is     *)
(* working on that row, unless the writer moved it while the pass held it.  *)
ReleasedIsOwned ==
  \A r \in Request, t \in Tick :
    At(r, "load") /\ att[r].fixed /\ InFlight(t) /\ job[t].rkey = att[r].rkey =>
      job[t].id \in torn

(* The queue is as SchedulePass says, whatever the publishers do. *)
QueueSpec == Spec

-----------------------------------------------------------------------------
(* What the code's comments say and the code does not do *)

(* "This publishes whatever is saved when it goes out": the record that     *)
(* replaces a draft has the last save of it.  A save between a pass's read  *)
(* of the draft and its delete is in neither.                               *)
LastSavePublished ==
  [][\A d \in Draft :
       drafts[d] # Gone /\ drafts'[d] = Gone /\ d \notin discarded' =>
         \E k \in RecordsOf(d) : repo[k].ver = drafts[d]]_allVars
=============================================================================
