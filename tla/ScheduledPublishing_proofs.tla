--------------------- MODULE ScheduledPublishing_proofs ---------------------
(***************************************************************************)
(* Publishing, step by step, implements the queue: whatever the publishers *)
(* and the writer's requests do, the table and the passes move as          *)
(* SchedulePass says.  So what is proved of the queue holds of publishing. *)
(* Then the records publishing writes, for any number of passes, requests, *)
(* drafts, rows, keys and faults.                                          *)
(***************************************************************************)
EXTENDS ScheduledPublishing, SchedulePass_proofs

StoresOK ==
  /\ drafts \in [Draft -> Version \cup {Gone}]
  /\ repo \in [Rkey -> Record \cup {NoRecord}]
  /\ posts \in [Rkey -> Nat]
  /\ netFaults \in Nat /\ usedOwn \in SUBSET OwnKey /\ discarded \in SUBSET Draft

Places == {"restore", "draft", "probe", "resolve", "inflight", "load", "create",
           "readback", "replace", "clean", "announce", "post", "note", "answer",
           "upsert", "unqueue"}

(* A publisher has a key before it turns to the repo, and has seen a record *)
(* where it is about to replace one.                                       *)
Ready(a) ==
  /\ a.rkey = NoKey => a.at \in {"inflight", "load", "upsert", "unqueue"}
  /\ a.at \in {"replace", "post", "note"} => a.seen # NoRecord

AttOK ==
  /\ att \in [Proc -> Attempt \cup {NoAtt}]
  /\ \A p \in Proc : att[p] # NoAtt => Ready(att[p])

PubInv == TypeOK /\ StoresOK /\ AttOK

-----------------------------------------------------------------------------
(* Facts several steps share. *)

(* Fields of an attempt can be set to values of their types. *)
LEMMA AttemptFields ==
  ASSUME NEW a \in Attempt, NEW at \in Places
  PROVE  /\ [a EXCEPT !.at = at] \in Attempt
         /\ \A todo \in SUBSET {"draft", "rows"} :
              /\ [a EXCEPT !.at = at, !.todo = todo] \in Attempt
              /\ [a EXCEPT !.todo = todo, !.at = at] \in Attempt
         /\ \A rec \in Record : [a EXCEPT !.at = at, !.seen = rec] \in Attempt
         /\ \A v \in Version : [a EXCEPT !.at = at, !.ver = v] \in Attempt
         /\ \A k \in Rkey, v \in Version :
              [a EXCEPT !.at = at, !.rkey = k, !.ver = v] \in Attempt
<1>1. [a EXCEPT !.at = at] \in Attempt
  BY DEF Attempt, Places
<1>2. ASSUME NEW todo \in SUBSET {"draft", "rows"}
      PROVE  /\ [a EXCEPT !.at = at, !.todo = todo] \in Attempt
             /\ [a EXCEPT !.todo = todo, !.at = at] \in Attempt
  BY DEF Attempt, Places
<1>3. ASSUME NEW rec \in Record PROVE [a EXCEPT !.at = at, !.seen = rec] \in Attempt
  BY DEF Attempt, Places
<1>4. ASSUME NEW v \in Version PROVE [a EXCEPT !.at = at, !.ver = v] \in Attempt
  BY DEF Attempt, Places
<1>5. ASSUME NEW k \in Rkey, NEW v \in Version
      PROVE  [a EXCEPT !.at = at, !.rkey = k, !.ver = v] \in Attempt
  BY DEF Attempt, Places, Rkey
<1>6. QED
  BY <1>1, <1>2, <1>3, <1>4, <1>5

(* An attempt under way is one. *)
LEMMA AttemptUnderWay ==
  ASSUME PubInv, NEW p \in Proc, att[p] # NoAtt
  PROVE  att[p] \in Attempt /\ Ready(att[p])
BY DEF PubInv, AttOK

(* One publisher moves. *)
LEMMA AttSet ==
  ASSUME PubInv, NEW p \in Proc, NEW a \in Attempt \cup {NoAtt},
         a # NoAtt => Ready(a), att' = [att EXCEPT ![p] = a]
  PROVE  AttOK'
BY DEF PubInv, AttOK, Ready

(* Where a step leaves a publisher. *)
LEMMA MovesOn ==
  ASSUME PubInv, NEW p \in Proc, att[p] # NoAtt, NEW at, Step(p, at),
         at \in {"draft", "probe", "resolve", "create", "readback", "announce", "note", "answer"},
         att[p].rkey # NoKey, at = "note" => att[p].seen # NoRecord
  PROVE  [Next]_vars /\ AttOK'
<1>1. att[p] \in Attempt
  BY AttemptUnderWay
<1>2. [att[p] EXCEPT !.at = at] \in Attempt /\ Ready([att[p] EXCEPT !.at = at])
  BY <1>1 DEF Attempt, Ready
<1>3. att' = [att EXCEPT ![p] = [att[p] EXCEPT !.at = at]]
  BY DEF Step
<1>4. QED
  BY <1>2, <1>3, AttSet DEF Step

(* The verdicts of the publishers are verdicts. *)
LEMMA Verdicts ==
  /\ Ok \in PublishAttempt /\ (Ok.kind = "ok" <=> Ok.reason = NoReason)
  /\ \A why \in {"session_lost", "read_failed", "draft_gone", "unconfirmed",
                 "pds_unreachable", "threw", "refused"} :
       /\ Retry(why) \in PublishAttempt /\ Fail(why) \in PublishAttempt
       /\ Retry(why).kind # "ok" /\ Retry(why).reason # NoReason
       /\ Fail(why).kind # "ok" /\ Fail(why).reason # NoReason
BY ReasonAssumption, NullAssumption DEF Ok, NoVerdict, Retry, Fail, PublishAttempt

(* The end of a publish is the queue's Answer, or nothing to the queue. *)
LEMMA Answers ==
  ASSUME PubInv, NEW p \in Proc, NEW v \in PublishAttempt,
         v.kind = "ok" <=> v.reason = NoReason, Done(p, v)
  PROVE  [Next]_vars /\ AttOK'
<1>1. AttOK'
  BY AttSet DEF Done
<1>2. CASE p \in Tick
  BY <1>1, <1>2 DEF Done, Publish, Pass, Next
<1>3. CASE p \notin Tick
  BY <1>1, <1>3 DEF Done
<1>4. QED
  BY <1>1, <1>2, <1>3

LEMMA RefusedAnswers ==
  ASSUME PubInv, NEW p \in Proc, Refused(p) \/ Threw(p)
  PROVE  [Next]_vars /\ AttOK'
BY Verdicts, Answers DEF Refused, Threw

(* Net faults are counted. *)
LEMMA NetFaultCounts ==
  ASSUME PubInv, NetFault \/ NoNetFault
  PROVE  netFaults' \in Nat
BY DEF PubInv, StoresOK, NetFault, NoNetFault

(* A record put keeps the repo a repo. *)
LEMMA PutType ==
  ASSUME PubInv, NEW p \in Proc, NEW rec \in Record, Put(p, rec)
  PROVE  repo' \in [Rkey -> Record \cup {NoRecord}]
BY DEF PubInv, StoresOK, Put

LEMMA NewRecordType ==
  ASSUME PubInv, NEW p \in Proc, att[p] # NoAtt, NEW ref \in BOOLEAN
  PROVE  NewRecord(p, ref) \in Record
BY AttemptUnderWay DEF NewRecord, Record, Attempt

-----------------------------------------------------------------------------
(* The steps of a publish. *)

LEMMA CreateSteps ==
  ASSUME PubInv, NEW p \in Proc, Create(p) \/ ReadBack(p) \/ Replace(p)
  PROVE  [Next]_vars /\ AttOK' /\ StoresOK'
<1>1. att[p] # NoAtt /\ att[p] \in Attempt /\ Ready(att[p])
  BY AttemptUnderWay DEF Create, ReadBack, Replace, At
<1>2. att[p].rkey \in Rkey
  BY <1>1 DEF Create, ReadBack, Replace, At, Ready, Attempt, Rkey
<1>3. repo[att[p].rkey] \in Record \cup {NoRecord}
  BY <1>2 DEF PubInv, StoresOK
<1>4. ASSUME Written(p) PROVE [Next]_vars /\ AttOK'
  <2>1. "clean" \in Places /\ {"draft", "rows"} \in SUBSET {"draft", "rows"}
    BY DEF Places
  <2> DEFINE a == [att[p] EXCEPT !.at = "clean", !.todo = {"draft", "rows"}]
  <2>2. a \in Attempt
    BY <1>1, <2>1, AttemptFields
  <2>3. Ready(a)
    BY <1>1, <1>2, KeyAssumption, NullAssumption DEF Ready, Attempt, Rkey
  <2>4. att' = [att EXCEPT ![p] = a]
    BY <1>4 DEF Written
  <2>5. QED
    BY <1>4, <2>2, <2>3, <2>4, AttSet DEF Written
<1>5. ASSUME At(p, "create"), NotCreated(p) PROVE [Next]_vars /\ AttOK'
  <2>1. CASE att[p].fixed
    BY <1>1, <1>2, <1>5, <2>1, MovesOn, KeyAssumption, NullAssumption DEF NotCreated, Rkey
  <2>2. CASE ~att[p].fixed
    BY <1>5, <2>2, RefusedAnswers DEF NotCreated
  <2>3. QED
    BY <2>1, <2>2
<1>6. CASE Create(p)
  <2>1. [Next]_vars /\ AttOK'
    BY <1>4, <1>5, <1>6, RefusedAnswers DEF Create
  <2>2. netFaults' \in Nat
    BY <1>6, NetFaultCounts DEF Create
  <2>3. repo' \in [Rkey -> Record \cup {NoRecord}]
    <3>1. NewRecord(p, FALSE) \in Record
      BY <1>1, NewRecordType
    <3>2. repo' = repo \/ Put(p, NewRecord(p, FALSE))
      BY <1>6 DEF Create
    <3>3. QED
      BY <3>1, <3>2, PutType DEF PubInv, StoresOK
  <2>4. QED
    BY <1>6, <2>1, <2>2, <2>3 DEF Create, PubInv, StoresOK
<1>7. CASE ReadBack(p)
  <2>1. netFaults' \in Nat
    BY <1>7, NetFaultCounts DEF ReadBack
  <2>2. [Next]_vars /\ AttOK'
    <3>1. CASE Refused(p)
      BY <3>1, RefusedAnswers
    <3>2. CASE Done(p, Retry("unconfirmed"))
      BY <3>2, Verdicts, Answers
    <3>3. CASE /\ repo[att[p].rkey] # NoRecord
               /\ att' = [att EXCEPT ![p].at = "replace", ![p].seen = repo[att[p].rkey]]
               /\ UNCHANGED vars
      <4> DEFINE a == [att[p] EXCEPT !.at = "replace", !.seen = repo[att[p].rkey]]
      <4>1. "replace" \in Places
        BY DEF Places
      <4>2. a \in Attempt
        BY <1>1, <1>3, <3>3, <4>1, AttemptFields
      <4>3. Ready(a)
        BY <1>1, <1>2, <3>3, KeyAssumption, NullAssumption DEF Ready, Attempt, Rkey
      <4>4. att' = [att EXCEPT ![p] = a]
        BY <3>3
      <4>5. QED
        BY <3>3, <4>2, <4>3, <4>4, AttSet
    <3>4. QED
      BY <1>7, <3>1, <3>2, <3>3 DEF ReadBack
  <2>3. QED
    BY <1>7, <2>1, <2>2 DEF ReadBack, PubInv, StoresOK
<1>8. CASE Replace(p)
  <2>1. netFaults' \in Nat
    BY <1>8, NetFaultCounts DEF Replace
  <2>2. [Next]_vars /\ AttOK'
    BY <1>4, <1>8, Verdicts, Answers, RefusedAnswers DEF Replace
  <2>3. repo' \in [Rkey -> Record \cup {NoRecord}]
    <3>1. att[p].seen \in Record
      BY <1>1, <1>8 DEF Replace, At, Ready, Attempt
    <3>2. att[p].seen.ref \in BOOLEAN
      BY <3>1 DEF Record
    <3>3. NewRecord(p, att[p].seen.ref) \in Record
      BY <1>1, <3>2, NewRecordType
    <3>4. repo' = repo \/ Put(p, NewRecord(p, att[p].seen.ref))
      BY <1>8 DEF Replace
    <3>5. QED
      BY <3>3, <3>4, PutType DEF PubInv, StoresOK
  <2>4. QED
    BY <1>8, <2>1, <2>2, <2>3 DEF Replace, PubInv, StoresOK
<1>9. QED
  BY <1>6, <1>7, <1>8

(* A publisher's cleanup of the rows is the queue's Land, or the writer's   *)
(* clearing of a draft's rows.                                              *)
LEMMA CleanSteps ==
  ASSUME PubInv, NEW p \in Proc, CleanDraft(p) \/ CleanRows(p)
  PROVE  [Next]_vars /\ AttOK' /\ StoresOK'
<1>1. /\ att[p] # NoAtt /\ att[p] \in Attempt /\ Ready(att[p])
      /\ att[p].at = "clean" /\ att[p].draft \in Draft
  BY AttemptUnderWay DEF CleanDraft, CleanRows, At, Attempt
<1>2. ASSUME NEW what, CleanedUp(p, what) PROVE AttOK'
  <2> DEFINE left == att[p].todo \ {what}
             next == IF left # {} THEN "clean"
                     ELSE IF att[p].announce THEN "announce" ELSE "answer"
             a == [att[p] EXCEPT !.todo = left, !.at = next]
  <2>1. next \in Places /\ next \notin {"replace", "post", "note"}
    BY DEF Places
  <2>2. left \in SUBSET {"draft", "rows"}
    BY <1>1 DEF Attempt
  <2>3. a \in Attempt
    BY <1>1, <2>1, <2>2, AttemptFields
  <2>4. a.rkey = att[p].rkey /\ a.at = next
    BY <1>1 DEF Attempt
  <2>5. Ready(a)
    BY <1>1, <2>1, <2>4 DEF Ready
  <2>6. att' = [att EXCEPT ![p] = a]
    BY <1>2 DEF CleanedUp
  <2>7. QED
    BY <2>3, <2>5, <2>6, AttSet
<1>3. CASE CleanDraft(p)
  <2>1. netFaults' \in Nat
    BY <1>3, NetFaultCounts DEF CleanDraft
  <2>2. drafts' \in [Draft -> Version \cup {Gone}]
    BY <1>3 DEF CleanDraft, PubInv, StoresOK
  <2>3. AttOK' /\ UNCHANGED vars
    BY <1>2, <1>3 DEF CleanDraft
  <2>4. QED
    BY <1>3, <2>1, <2>2, <2>3 DEF CleanDraft, PubInv, StoresOK
<1>4. CASE CleanRows(p)
  <2>1. netFaults' \in Nat
    BY <1>4, NetFaultCounts DEF CleanRows
  <2>2. [Next]_vars
    <3>1. CASE p \in Tick /\ Land(p)
      BY <3>1 DEF Next, Pass, Publish
    <3>2. CASE ClearRows(att[p].draft)
      BY <1>1, <3>2 DEF ClearRows, Next, Writer
    <3>3. CASE UNCHANGED vars
      BY <3>3
    <3>4. QED
      BY <1>4, <3>1, <3>2, <3>3 DEF CleanRows
  <2>3. AttOK'
    BY <1>2, <1>4 DEF CleanRows
  <2>4. QED
    BY <1>4, <2>1, <2>2, <2>3 DEF CleanRows, PubInv, StoresOK
<1>5. QED
  BY <1>3, <1>4

LEMMA AnnounceSteps ==
  ASSUME PubInv, NEW p \in Proc,
         AnnounceRead(p) \/ AnnouncePost(p) \/ AnnounceNote(p) \/ Finish(p)
  PROVE  [Next]_vars /\ AttOK' /\ StoresOK'
<1>1. /\ att[p] # NoAtt /\ att[p] \in Attempt /\ Ready(att[p])
      /\ att[p].at \in {"announce", "post", "note", "answer"}
  BY AttemptUnderWay DEF AnnounceRead, AnnouncePost, AnnounceNote, Finish, At
<1>2. att[p].rkey \in Rkey /\ att[p].rkey # NoKey
  BY <1>1 DEF Ready, Attempt, Rkey
<1>3. CASE AnnounceRead(p)
  <2>1. netFaults' \in Nat
    BY <1>3, NetFaultCounts DEF AnnounceRead
  <2>2. CASE att' = [att EXCEPT ![p].at = "answer"]
    <3>1. [Next]_vars /\ AttOK'
      BY <1>1, <1>2, <1>3, <2>2, MovesOn DEF AnnounceRead, Step
    <3>2. QED
      BY <1>3, <2>1, <3>1 DEF AnnounceRead, PubInv, StoresOK
  <2>3. CASE /\ repo[att[p].rkey] # NoRecord
             /\ att' = [att EXCEPT ![p].at = "post", ![p].seen = repo[att[p].rkey]]
    <3> DEFINE a == [att[p] EXCEPT !.at = "post", !.seen = repo[att[p].rkey]]
    <3>1. repo[att[p].rkey] \in Record
      BY <1>2, <2>3 DEF PubInv, StoresOK
    <3>2. "post" \in Places
      BY DEF Places
    <3>3. a \in Attempt
      BY <1>1, <3>1, <3>2, AttemptFields
    <3>4. Ready(a)
      BY <1>1, <1>2, <2>3 DEF Ready, Attempt
    <3>5. AttOK'
      BY <2>3, <3>3, <3>4, AttSet
    <3>6. QED
      BY <1>3, <2>1, <3>5 DEF AnnounceRead, PubInv, StoresOK
  <2>4. QED
    BY <1>3, <2>2, <2>3 DEF AnnounceRead
<1>4. CASE AnnouncePost(p)
  <2>1. netFaults' \in Nat
    BY <1>4, NetFaultCounts DEF AnnouncePost
  <2>2. posts' \in [Rkey -> Nat]
    BY <1>2, <1>4 DEF AnnouncePost, PubInv, StoresOK
  <2>3. att[p].seen # NoRecord
    BY <1>1, <1>4 DEF AnnouncePost, At, Ready
  <2>4. [Next]_vars /\ AttOK'
    BY <1>1, <1>2, <1>4, <2>3, MovesOn DEF AnnouncePost
  <2>5. QED
    BY <1>4, <2>1, <2>2, <2>4 DEF AnnouncePost, PubInv, StoresOK
<1>5. CASE AnnounceNote(p)
  <2>1. netFaults' \in Nat
    BY <1>5, NetFaultCounts DEF AnnounceNote
  <2>2. [Next]_vars /\ AttOK'
    BY <1>1, <1>2, <1>5, MovesOn DEF AnnounceNote
  <2>3. repo' \in [Rkey -> Record \cup {NoRecord}]
    <3>1. att[p].seen \in Record
      BY <1>1, <1>5 DEF AnnounceNote, At, Ready, Attempt
    <3>2. [att[p].seen EXCEPT !.ref = TRUE] \in Record
      BY <3>1 DEF Record
    <3>3. repo' = repo \/ Put(p, [att[p].seen EXCEPT !.ref = TRUE])
      BY <1>5 DEF AnnounceNote
    <3>4. QED
      BY <3>2, <3>3, PutType DEF PubInv, StoresOK
  <2>4. QED
    BY <1>5, <2>1, <2>2, <2>3 DEF AnnounceNote, PubInv, StoresOK
<1>6. CASE Finish(p)
  <2>1. [Next]_vars /\ AttOK'
    BY <1>6, Verdicts, Answers DEF Finish
  <2>2. QED
    BY <1>6, <2>1 DEF Finish, PubInv, StoresOK
<1>7. QED
  BY <1>3, <1>4, <1>5, <1>6

-----------------------------------------------------------------------------
(* The steps of a pass. *)

LEMMA PublisherSteps ==
  ASSUME PubInv, NEW t \in Tick, PublishDuePost(t)
  PROVE  [Next]_vars /\ AttOK' /\ StoresOK'
<1>1. /\ t \in Proc /\ att[t] # NoAtt /\ att[t] \in Attempt /\ Ready(att[t])
      /\ att[t].at \in {"restore", "draft", "probe", "resolve"}
  BY AttemptUnderWay
    DEF PublishDuePost, RestoreSession, ReadDraft, Probe, Resolve, At, Proc
<1>2. att[t].rkey \in Rkey /\ att[t].rkey # NoKey
  BY <1>1 DEF Ready, Attempt, Rkey
<1>3. netFaults' \in Nat
  BY NetFaultCounts DEF PublishDuePost, RestoreSession, ReadDraft, Probe, Resolve
<1>4. StoresOK'
  BY <1>3 DEF PublishDuePost, RestoreSession, ReadDraft, Probe, Resolve, PubInv, StoresOK
<1>5. CASE RestoreSession(t)
  BY <1>1, <1>2, <1>4, <1>5, Verdicts, Answers, MovesOn DEF RestoreSession
<1>6. CASE ReadDraft(t)
  <2>1. CASE /\ drafts[att[t].draft] # Gone
             /\ att' = [att EXCEPT ![t].at = "resolve", ![t].ver = drafts[att[t].draft]]
             /\ UNCHANGED vars
    <3> DEFINE a == [att[t] EXCEPT !.at = "resolve", !.ver = drafts[att[t].draft]]
    <3>1. drafts[att[t].draft] \in Version
      BY <1>1, <2>1 DEF PubInv, StoresOK, Attempt
    <3>2. "resolve" \in Places
      BY DEF Places
    <3>3. a \in Attempt
      BY <1>1, <3>1, <3>2, AttemptFields
    <3>4. Ready(a)
      BY <1>1, <1>2 DEF Ready, Attempt
    <3>5. QED
      BY <1>1, <1>4, <2>1, <3>3, <3>4, AttSet
  <2>2. CASE Step(t, "probe") \/ Done(t, Retry("read_failed"))
    BY <1>1, <1>2, <1>4, <2>2, Verdicts, Answers, MovesOn
  <2>3. QED
    BY <1>6, <2>1, <2>2 DEF ReadDraft
<1>7. CASE Probe(t)
  <2>1. CASE Step(t, IF att[t].announce THEN "announce" ELSE "answer")
    BY <1>1, <1>2, <1>4, <2>1, MovesOn
  <2>2. CASE Done(t, Fail("draft_gone")) \/ Done(t, Retry("unconfirmed"))
    BY <1>1, <1>4, <2>2, Verdicts, Answers
  <2>3. QED
    BY <1>7, <2>1, <2>2 DEF Probe
<1>8. CASE Resolve(t)
  BY <1>1, <1>2, <1>4, <1>8, Verdicts, Answers, MovesOn DEF Resolve
<1>9. QED
  BY <1>5, <1>6, <1>7, <1>8 DEF PublishDuePost

LEMMA PassSteps ==
  ASSUME PubInv, NEW t \in Tick, PassStep(t) \/ PassClaim(t) \/ PassDies(t)
  PROVE  [Next]_vars /\ AttOK' /\ StoresOK'
<1>1. StoresOK'
  BY DEF PassStep, PassClaim, PassDies, pubVars, PubInv, StoresOK
<1>2. [Next]_vars
  BY DEF PassStep, PassClaim, PassDies, Next, Pass
<1>3. TypeOK'
  BY <1>2, TypeOKStep DEF PubInv
<1>4. t \in Proc
  BY DEF Proc
<1>5. CASE PassStep(t)
  BY <1>1, <1>2, <1>5 DEF PassStep, pubVars, PubInv, AttOK, Ready
<1>6. CASE PassDies(t)
  BY <1>1, <1>2, <1>4, <1>6, AttSet DEF PassDies
<1>7. CASE PassClaim(t)
  <2>1. InFlight(t)'
    BY <1>7 DEF PassClaim, Claim, InFlight, PubInv, TypeOK
  <2>2. job'[t] \in ClaimedPost
    BY <1>3, <2>1 DEF TypeOK
  <2>3. PICK d \in Draft, k \in Key, c \in BOOLEAN :
          att' = [att EXCEPT ![t] = Starting("restore", d, k, c)]
    BY <1>7, <2>2 DEF PassClaim, ClaimedPost
  <2>4. Starting("restore", d, k, c) \in Attempt
    BY NetBoundAssumption DEF Starting, Attempt, Rkey, Version
  <2>5. Ready(Starting("restore", d, k, c))
    BY NullAssumption DEF Ready, Starting
  <2>6. QED
    BY <1>1, <1>2, <1>4, <2>3, <2>4, <2>5, AttSet
<1>8. QED
  BY <1>5, <1>6, <1>7

-----------------------------------------------------------------------------
(* The writer's requests. *)

(* A request begins with an attempt at a step it is ready for. *)
LEMMA Begins ==
  ASSUME PubInv, NEW r \in Request, NEW d \in Draft, NEW c \in BOOLEAN,
         NEW k \in Rkey \cup {NoKey}, NEW at \in {"inflight", "load", "upsert", "unqueue"},
         Begin(r, Starting(at, d, k, c))
  PROVE  AttOK'
<1>1. Starting(at, d, k, c) \in Attempt
  BY NetBoundAssumption DEF Starting, Attempt, Version
<1>2. Ready(Starting(at, d, k, c)) /\ r \in Proc
  BY DEF Ready, Starting, Proc
<1>3. QED
  BY <1>1, <1>2, AttSet DEF Begin

(* Clearing a draft's rows is the writer's, or nothing to the queue. *)
LEMMA ClearRowsStep ==
  ASSUME NEW d \in Draft, ClearRows(d)
  PROVE  [Next]_vars
BY DEF ClearRows, Next, Writer

(* A row's key is a key, or none yet; its choices are the writer's. *)
LEMMA RowsKey ==
  ASSUME PubInv, NEW id \in RowId, Exists(rows, id)
  PROVE  rows[id].rkey \in Rkey \cup {NoKey} /\ rows[id].announce \in BOOLEAN
BY RowsAreRows DEF PubInv, TypeOK, Row, Rkey

LEMMA MintType ==
  ASSUME PubInv, NEW k \in Rkey, Mint(k)
  PROVE  usedOwn' \in SUBSET OwnKey
BY DEF PubInv, StoresOK, Mint, Rkey

LEMMA KeysForType ==
  ASSUME NEW rkey \in Rkey \cup {NoKey}, NEW k \in KeysFor(rkey)
  PROVE  k \in Rkey /\ k # NoKey
BY NullAssumption, KeyAssumption DEF KeysFor, Rkey

LEMMA ServeSteps ==
  ASSUME PubInv, NEW r \in Request, Serve(r) \/ RequestDies(r)
  PROVE  [Next]_vars /\ AttOK' /\ StoresOK'
<1>1. /\ r \in Proc /\ att[r] # NoAtt /\ att[r] \in Attempt /\ Ready(att[r])
      /\ att[r].draft \in Draft /\ att[r].rkey \in Rkey \cup {NoKey}
  BY AttemptUnderWay
    DEF Serve, RequestDies, ScheduleUpserts, DeleteDraftUnqueues, NowInFlight, NowLoads,
        At, Proc, Attempt, Rkey
<1>2. CASE ScheduleUpserts(r)
  <2>1. [Next]_vars
    BY <1>1, <1>2 DEF ScheduleUpserts, Next, Writer
  <2>2. AttOK'
    BY <1>1, <1>2, AttSet DEF ScheduleUpserts
  <2>3. QED
    BY <1>2, <2>1, <2>2 DEF ScheduleUpserts, PubInv, StoresOK
<1>3. CASE DeleteDraftUnqueues(r)
  <2>1. netFaults' \in Nat
    BY <1>3, NetFaultCounts DEF DeleteDraftUnqueues
  <2>2. [Next]_vars
    BY <1>1, <1>3, ClearRowsStep DEF DeleteDraftUnqueues
  <2>3. AttOK'
    BY <1>1, <1>3, AttSet DEF DeleteDraftUnqueues
  <2>4. QED
    BY <1>3, <2>1, <2>2, <2>3 DEF DeleteDraftUnqueues, PubInv, StoresOK
<1>4. CASE NowInFlight(r)
  <2>1. netFaults' \in Nat
    BY <1>4, NetFaultCounts DEF NowInFlight
  <2>2. CASE Done(r, Ok)
    BY <1>1, <1>4, <2>1, <2>2, Verdicts, Answers DEF NowInFlight, PubInv, StoresOK
  <2>3. CASE Step(r, "load")
    <3> DEFINE a == [att[r] EXCEPT !.at = "load"]
    <3>1. "load" \in Places
      BY DEF Places
    <3>2. a \in Attempt
      BY <1>1, <3>1, AttemptFields
    <3>3. Ready(a)
      BY <1>1 DEF Ready, Attempt
    <3>4. AttOK' /\ UNCHANGED vars
      BY <1>1, <2>3, <3>2, <3>3, AttSet DEF Step
    <3>5. QED
      BY <1>4, <2>1, <3>4 DEF NowInFlight, PubInv, StoresOK
  <2>4. QED
    BY <1>4, <2>2, <2>3 DEF NowInFlight
<1>5. CASE NowLoads(r)
  <2> DEFINE saved == drafts[att[r].draft]
  <2>1. netFaults' \in Nat
    BY <1>5, NetFaultCounts DEF NowLoads
  <2>2. CASE Done(r, Ok) /\ UNCHANGED usedOwn
    BY <1>1, <1>5, <2>1, <2>2, Verdicts, Answers DEF NowLoads, PubInv, StoresOK
  <2>3. CASE \E k \in KeysFor(att[r].rkey) :
               /\ saved # Gone /\ Mint(k) /\ NoNetFault
               /\ att' = [att EXCEPT ![r].at = "create", ![r].rkey = k, ![r].ver = saved]
               /\ UNCHANGED vars
    <3>1. PICK k \in KeysFor(att[r].rkey) :
            /\ saved # Gone /\ Mint(k)
            /\ att' = [att EXCEPT ![r].at = "create", ![r].rkey = k, ![r].ver = saved]
            /\ UNCHANGED vars
      BY <2>3
    <3> DEFINE a == [att[r] EXCEPT !.at = "create", !.rkey = k, !.ver = saved]
    <3>2. k \in Rkey /\ k # NoKey
      BY <1>1, KeysForType
    <3>3. "create" \in Places
      BY DEF Places
    <3>4. saved \in Version
      BY <1>1, <3>1 DEF PubInv, StoresOK
    <3>5. a \in Attempt
      BY <1>1, <3>2, <3>3, <3>4, AttemptFields
    <3>6. Ready(a)
      BY <1>1, <3>2 DEF Ready, Attempt
    <3>7. usedOwn' \in SUBSET OwnKey
      BY <3>1, <3>2, MintType
    <3>8. AttOK'
      <4>1. att' = [att EXCEPT ![r] = a]
        BY <1>1, <3>1 DEF PubInv, AttOK
      <4>2. QED
        BY <1>1, <3>5, <3>6, <4>1, AttSet
    <3>9. QED
      BY <1>5, <2>1, <3>1, <3>7, <3>8 DEF NowLoads, PubInv, StoresOK
  <2>4. QED
    BY <1>5, <2>2, <2>3 DEF NowLoads
<1>6. CASE RequestDies(r)
  <2>1. netFaults' \in Nat
    BY <1>6, NetFaultCounts DEF RequestDies
  <2>2. QED
    BY <1>1, <1>6, <2>1, Verdicts, Answers DEF RequestDies, PubInv, StoresOK
<1>7. QED
  BY <1>2, <1>3, <1>4, <1>5, <1>6 DEF Serve

LEMMA WriterSteps ==
  ASSUME PubInv, WriterActs
  PROVE  [Next]_vars /\ AttOK' /\ StoresOK'
<1>1. CASE Unschedule
  <2>1. [Next]_vars
    BY <1>1 DEF Unschedule, Next, Writer
  <2>2. QED
    BY <1>1, <2>1 DEF Unschedule, pubVars, PubInv, StoresOK, AttOK, Ready
<1>2. ASSUME NEW d \in Draft, Edit(d) PROVE [Next]_vars /\ AttOK' /\ StoresOK'
  <2>1. drafts[d] + 1 \in Version
    BY <1>2, NetBoundAssumption DEF Edit, PubInv, StoresOK, Version
  <2>2. drafts' \in [Draft -> Version \cup {Gone}]
    BY <1>2, <2>1 DEF Edit, PubInv, StoresOK
  <2>3. QED
    BY <1>2, <2>2 DEF Edit, PubInv, StoresOK, AttOK, Ready
<1>3. ASSUME NEW d \in Draft, NEW r \in Request, ScheduleChecks(r, d)
      PROVE  [Next]_vars /\ AttOK' /\ StoresOK'
  BY <1>3, Begins DEF ScheduleChecks, PubInv, StoresOK
<1>4. ASSUME NEW d \in Draft, NEW r \in Request, DeleteDraft(r, d)
      PROVE  [Next]_vars /\ AttOK' /\ StoresOK'
  <2>1. AttOK'
    BY <1>4, Begins DEF DeleteDraft
  <2>2. QED
    BY <1>4, <2>1 DEF DeleteDraft, PubInv, StoresOK
<1>5. ASSUME NEW d \in Draft, NEW r \in Request, PublishNow(r, d)
      PROVE  [Next]_vars /\ AttOK' /\ StoresOK'
  <2>1. netFaults' \in Nat
    BY <1>5, NetFaultCounts DEF PublishNow
  <2>2. [Next]_vars
    BY <1>5 DEF PublishNow, Next, Writer
  <2>3. AttOK'
    <3>1. CASE \E id \in UnclaimedOf(rows, d) :
                 Begin(r, Starting("load", d, rows[id].rkey, rows[id].announce))
      <4>1. PICK id \in UnclaimedOf(rows, d) :
              Begin(r, Starting("load", d, rows[id].rkey, rows[id].announce))
        BY <3>1
      <4>2. rows[id].rkey \in Rkey \cup {NoKey} /\ rows[id].announce \in BOOLEAN
        BY RowsKey DEF UnclaimedOf, RowsOf
      <4>3. QED
        BY <4>1, <4>2, Begins
    <3>2. CASE Begin(r, Starting("inflight", d, NoKey, FALSE))
      BY <3>2, Begins
    <3>3. QED
      BY <1>5, <3>1, <3>2 DEF PublishNow
  <2>4. QED
    BY <1>5, <2>1, <2>2, <2>3 DEF PublishNow, PubInv, StoresOK
<1>6. ASSUME NEW d \in Draft, NEW r \in Request, PublishForm(r, d)
      PROVE  [Next]_vars /\ AttOK' /\ StoresOK'
  <2>1. netFaults' \in Nat
    BY <1>6, NetFaultCounts DEF PublishForm
  <2>2. PICK rkey \in {NoKey} \cup {rows[id].rkey : id \in SelectScheduleForDraft(rows, d)},
             announce \in Announce :
          \E k \in KeysFor(rkey) :
            /\ Mint(k)
            /\ Begin(r, [Starting("create", d, rkey, announce)
                           EXCEPT !.rkey = k, !.ver = drafts[d]])
    BY <1>6 DEF PublishForm
  <2>3. PICK k \in KeysFor(rkey) :
          /\ Mint(k)
          /\ Begin(r, [Starting("create", d, rkey, announce)
                         EXCEPT !.rkey = k, !.ver = drafts[d]])
    BY <2>2
  <2>4. rkey \in Rkey \cup {NoKey} /\ announce \in BOOLEAN
    BY <2>2, RowsKey, BoundAssumption DEF SelectScheduleForDraft, PendingOf, RowsOf
  <2>5. k \in Rkey /\ k # NoKey
    BY <2>4, KeysForType
  <2>6. drafts[d] \in Version
    BY <1>6 DEF PublishForm, PubInv, StoresOK
  <2> DEFINE start == Starting("create", d, rkey, announce)
             a == [start EXCEPT !.rkey = k, !.ver = drafts[d]]
  <2>7. start \in Attempt /\ start.at = "create"
    BY <2>4, NetBoundAssumption DEF Starting, Attempt, Version
  <2>8. a \in Attempt /\ a.at = "create" /\ a.rkey = k
    BY <2>5, <2>6, <2>7 DEF Attempt
  <2>9. Ready(a)
    BY <2>5, <2>8 DEF Ready
  <2>10. AttOK'
    BY <2>3, <2>8, <2>9, AttSet DEF Begin, Proc
  <2>11. usedOwn' \in SUBSET OwnKey
    BY <2>3, <2>5, MintType
  <2>12. QED
    BY <1>6, <2>1, <2>10, <2>11 DEF PublishForm, PubInv, StoresOK
<1>7. QED
  BY <1>1, <1>2, <1>3, <1>4, <1>5, <1>6 DEF WriterActs

-----------------------------------------------------------------------------
LEMMA InitPubInv == PubInit => PubInv
<1> SUFFICES ASSUME PubInit PROVE PubInv
  OBVIOUS
<1>1. TypeOK
  BY InitTypeOK DEF PubInit
<1>2. 0 \in Version
  BY NetBoundAssumption DEF Version
<1>3. QED
  BY <1>1, <1>2 DEF PubInit, PubInv, StoresOK, AttOK

(* Every step of publishing keeps PubInv and is a step of the queue, or     *)
(* nothing to it.                                                          *)
LEMMA PubStep ==
  ASSUME PubInv, [PubNext]_allVars
  PROVE  [Next]_vars /\ PubInv'
<1>1. [Next]_vars /\ AttOK' /\ StoresOK'
  <2>1. CASE Advance /\ UNCHANGED pubVars
    BY <2>1 DEF Next, pubVars, PubInv, StoresOK, AttOK, Ready
  <2>2. ASSUME NEW t \in Tick,
               PassStep(t) \/ PassClaim(t) \/ PublishDuePost(t) \/ PassDies(t)
        PROVE  [Next]_vars /\ AttOK' /\ StoresOK'
    BY <2>2, PassSteps, PublisherSteps
  <2>3. ASSUME NEW p \in Proc, Write(p) PROVE [Next]_vars /\ AttOK' /\ StoresOK'
    BY <2>3, CreateSteps, CleanSteps, AnnounceSteps DEF Write
  <2>4. ASSUME NEW r \in Request, Serve(r) \/ RequestDies(r)
        PROVE  [Next]_vars /\ AttOK' /\ StoresOK'
    BY <2>4, ServeSteps
  <2>5. CASE WriterActs
    BY <2>5, WriterSteps
  <2>6. CASE UNCHANGED allVars
    BY <2>6 DEF allVars, pubVars, PubInv, StoresOK, AttOK, Ready
  <2>7. QED
    BY <2>1, <2>2, <2>3, <2>4, <2>5, <2>6 DEF PubNext
<1>2. TypeOK'
  BY <1>1, TypeOKStep DEF PubInv
<1>3. QED
  BY <1>1, <1>2 DEF PubInv

(* Every variable of publishing keeps its type, in every instance. *)
THEOREM PubTypeCorrect == PubSpec => []PubTypeOK
<1>1. PubInv => PubTypeOK
  BY DEF PubInv, StoresOK, AttOK, PubTypeOK
<1>2. PubInv /\ [PubNext]_allVars => PubInv'
  BY PubStep
<1>3. QED
  BY <1>1, <1>2, InitPubInv, PTL DEF PubSpec

(* Publishing implements the queue: each await of a publish, each request   *)
(* of the writer and each fault moves the table as SchedulePass says.       *)
THEOREM ImplementsQueue == PubSpec => QueueSpec
<1>1. PubInit => Init
  BY DEF PubInit
<1>2. PubInv /\ [PubNext]_allVars => PubInv' /\ [Next]_vars
  BY PubStep
<1>3. QED
  BY <1>1, <1>2, InitPubInv, PTL DEF PubSpec, QueueSpec, Spec

(* So publishing, too, never has two passes work on one row, writes every   *)
(* attempt on a row under its one key, and counts attempts.                 *)
THEOREM PublishingKeepsTheQueue ==
  PubSpec => [](LeaseExclusive /\ OneKeyPerRow /\ AttemptCeiling /\ FailedForCause)
<1>1. PubSpec => Spec
  BY ImplementsQueue DEF QueueSpec
<1>2. QED
  BY <1>1, LeasesHold, KeysHold, CeilingHolds, FailuresHaveCause, PTL

-----------------------------------------------------------------------------
(* "Keeping any bskyPostRef it gained": a record is only created where      *)
(* there is none, and only replaced by one that keeps the ref it has, since *)
(* the repo compares what the publisher saw with what it holds.             *)
THEOREM RefsKept == PubSpec => RefKept
<1> DEFINE Kept == \A k \in Rkey : repo[k] # NoRecord /\ repo[k].ref => repo'[k].ref
<1>1. ASSUME PubInv, [PubNext]_allVars PROVE Kept
  <2>1. CASE UNCHANGED repo
    BY <2>1
  <2>2. ASSUME NEW p \in Proc, Create(p) PROVE Kept
    <3>1. \/ repo' = repo
          \/ repo[att[p].rkey] = NoRecord /\ Put(p, NewRecord(p, FALSE))
      BY <2>2 DEF Create
    <3>2. QED
      BY <1>1, <3>1 DEF Put, PubInv, StoresOK
  <2>3. ASSUME NEW p \in Proc, Replace(p) PROVE Kept
    <3>1. \/ repo' = repo
          \/ /\ repo[att[p].rkey] = att[p].seen
             /\ Put(p, NewRecord(p, att[p].seen.ref))
      BY <2>3 DEF Replace
    <3>2. QED
      BY <1>1, <3>1 DEF Put, NewRecord, PubInv, StoresOK
  <2>4. ASSUME NEW p \in Proc, AnnounceNote(p) PROVE Kept
    <3>1. att[p].seen \in Record
      BY <1>1, <2>4, AttemptUnderWay DEF AnnounceNote, At, Ready, Attempt
    <3>2. [att[p].seen EXCEPT !.ref = TRUE].ref
      BY <3>1 DEF Record
    <3>3. repo' = repo \/ Put(p, [att[p].seen EXCEPT !.ref = TRUE])
      BY <2>4 DEF AnnounceNote
    <3>4. QED
      BY <1>1, <3>2, <3>3 DEF Put, PubInv, StoresOK
  <2>5. CASE /\ [PubNext]_allVars
             /\ ~\E p \in Proc : Create(p) \/ Replace(p) \/ AnnounceNote(p)
    <3>1. UNCHANGED repo
      BY <2>5
        DEF PubNext, allVars, pubVars, PassStep, PassClaim, PublishDuePost, PassDies,
            RestoreSession, ReadDraft, Probe, Resolve, Write, ReadBack, CleanDraft,
            CleanRows, AnnounceRead, AnnouncePost, Finish, Serve, RequestDies,
            ScheduleUpserts, DeleteDraftUnqueues, NowInFlight, NowLoads, WriterActs,
            Unschedule, Edit, ScheduleChecks, DeleteDraft, PublishNow, PublishForm
    <3>2. QED
      BY <2>1, <3>1
  <2>6. QED
    BY <1>1, <2>2, <2>3, <2>4, <2>5
<1>2. PubInv /\ [PubNext]_allVars => PubInv' /\ [Kept]_allVars
  BY <1>1, PubStep
<1>3. QED
  BY <1>2, InitPubInv, PTL DEF PubSpec, RefKept

-----------------------------------------------------------------------------
(* The records.  Most of what follows comes down to whose a key is.  A key  *)
(* belongs to one draft from the moment it is minted; a row "Publish now"   *)
(* has released is nobody else's; and, while no editor publishes and no row *)
(* is moved while a pass holds it, one publisher at a time works under a    *)
(* key.                                                                     *)

-----------------------------------------------------------------------------
(* The rows and the queue. *)

(* A due post a pass has read is the row's of that id, as long as there is  *)
(* one: no row changes drafts and no id is minted twice.                    *)
Known(post) ==
  /\ post.id \in usedIds
  /\ Exists(rows, post.id) => rows[post.id].draft = post.draft

QueueKnown == \A t \in Tick : \A i \in 1..Len(queue[t]) : Known(queue[t][i])

(* No statement on a row changes whose it is. *)
LEMMA ClaimedDraft ==
  ASSUME NEW R \in Table, NEW id \in RowId, Exists(R, id), NEW k \in Key, NEW now \in Nat
  PROVE  ClaimDuePost(R, id, now, k)[id].draft = R[id].draft
<1>1. R[id] \in Row
  BY RowsAreRows
<1>2. ClaimDuePost(R, id, now, k)[id] =
        [R[id] EXCEPT !.claimedAt = now, !.attempts = @ + 1, !.rkey = Coalesce(@, k)]
  BY <1>1 DEF ClaimDuePost, Row, Table
<1>3. QED
  BY <1>1, <1>2 DEF Row

LEMMA RowStatementDrafts ==
  ASSUME NEW R \in Table, NEW id \in RowId, Exists(R, id),
         NEW e \in Reason \cup {NoReason}, NEW before \in Int
  PROVE  /\ MarkFailed(R, id, e)[id].draft = R[id].draft
         /\ ReleaseForRetry(R, id, e)[id].draft = R[id].draft
         /\ ReleaseStaleClaims(R, before)[id].draft = R[id].draft
<1>1. R[id] \in Row
  BY RowsAreRows
<1>2. MarkFailed(R, id, e)[id] =
        [R[id] EXCEPT !.status = "failed", !.claimedAt = NoTime, !.lastError = e]
  BY <1>1 DEF MarkFailed, Row, Table
<1>3. ReleaseForRetry(R, id, e)[id] = [R[id] EXCEPT !.claimedAt = NoTime, !.lastError = e]
  BY <1>1 DEF ReleaseForRetry, Row, Table
<1>4. ReleaseStaleClaims(R, before)[id] =
        IF Stale(R, id, before) THEN [R[id] EXCEPT !.claimedAt = NoTime] ELSE R[id]
  BY DEF ReleaseStaleClaims
<1>5. QED
  BY <1>1, <1>2, <1>3, <1>4 DEF Row

(* A moved row stays its draft's. *)
LEMMA MovedDraft ==
  ASSUME NEW R \in Table, NEW id \in RowId, NEW d \in Draft, NEW dueAt \in Nat,
         NEW announce \in BOOLEAN, PendingOf(R, d) # {}, NEW i \in RowId, Exists(R, i)
  PROVE  UpsertSchedule(R, id, d, dueAt, announce)[i].draft = R[i].draft
<1>1. UpsertSchedule(R, id, d, dueAt, announce)[i] =
        IF i \in PendingOf(R, d)
        THEN [NewRow(d, dueAt, announce) EXCEPT !.rkey = R[i].rkey]
        ELSE R[i]
  BY DEF UpsertSchedule
<1>2. i \in PendingOf(R, d) => R[i].draft = d
  BY DEF PendingOf, RowsOf
<1>3. QED
  BY <1>1, <1>2 DEF NewRow

(* A row stays its draft's, gets a key once and a fresh one, and is new     *)
(* only under a fresh id.                                                   *)
RowKept(id) ==
  \/ /\ Exists(rows, id) /\ rows'[id].draft = rows[id].draft
     /\ \/ rows'[id].rkey = rows[id].rkey
        \/ rows[id].rkey = NoKey /\ rows'[id].rkey \in usedKeys' \ usedKeys
  \/ ~Exists(rows, id) /\ id \in usedIds' \ usedIds /\ rows'[id].rkey = NoKey

LEMMA TakeLeaseKept ==
  ASSUME KeyInv, NEW id \in RowId, Claimable(rows, id), NEW now \in Nat, TakeLease(id, now)
  PROVE  \A i \in RowId : Exists(rows', i) => RowKept(i)
<1>1. PICK k \in Key :
        /\ rows' = ClaimDuePost(rows, id, now, k)
        /\ \A i \in RowId : i # id => rows'[i] = rows[i]
        /\ rows'[id].rkey = k
        /\ rows[id].rkey = NoKey => k \notin usedKeys
        /\ rows[id].rkey # NoKey => k = rows[id].rkey
        /\ usedKeys' = usedKeys \cup {k}
  BY TakeLeaseRows DEF KeyInv
<1>2. Exists(rows, id) /\ rows \in Table
  BY DEF Claimable, Pending, KeyInv, TypeOK
<1>3. rows'[id].draft = rows[id].draft
  BY <1>1, <1>2, ClaimedDraft
<1>4. QED
  BY <1>1, <1>2, <1>3 DEF RowKept, Exists

(* A bookkeeping statement on one row. *)
LEMMA SettledKept ==
  ASSUME TypeOK, NEW t \in Tick, pc[t] = "report", rows' = Settled(t)
  PROVE  \A i \in RowId : Exists(rows', i) => RowKept(i)
<1>1. /\ job[t].id \in RowId /\ rows \in Table
      /\ \A i \in RowId : i # job[t].id => rows'[i] = rows[i]
      /\ Exists(rows', job[t].id) =>
           /\ Exists(rows, job[t].id)
           /\ rows'[job[t].id].rkey = rows[job[t].id].rkey
  BY SettledRows DEF TypeOK
<1>2. verdict[t].reason \in Reason \cup {NoReason}
  BY DEF TypeOK, PublishAttempt
<1>3. Exists(rows', job[t].id) => rows'[job[t].id].draft = rows[job[t].id].draft
  <2>1. \/ rows' = DeletePublishedSchedule(rows, job[t].id)
        \/ rows' = MarkFailed(rows, job[t].id, verdict[t].reason)
        \/ rows' = ReleaseForRetry(rows, job[t].id, verdict[t].reason)
    BY DEF Settled
  <2>2. CASE rows' = DeletePublishedSchedule(rows, job[t].id)
    BY <1>1, <2>2 DEF DeletePublishedSchedule, Table, Exists
  <2>3. CASE \/ rows' = MarkFailed(rows, job[t].id, verdict[t].reason)
             \/ rows' = ReleaseForRetry(rows, job[t].id, verdict[t].reason)
    <3>1. \A e \in Reason \cup {NoReason} : Exists(rows, job[t].id) =>
            /\ MarkFailed(rows, job[t].id, e)[job[t].id].draft = rows[job[t].id].draft
            /\ ReleaseForRetry(rows, job[t].id, e)[job[t].id].draft = rows[job[t].id].draft
      BY <1>1, RowStatementDrafts
    <3>2. QED
      BY <1>1, <1>2, <2>3, <3>1
  <2>4. QED
    BY <2>1, <2>2, <2>3
<1>4. QED
  BY <1>1, <1>3 DEF RowKept, Exists

(* What a step of the queue does to the rows. *)
LEMMA RowsMove ==
  ASSUME KeyInv, [Next]_vars
  PROVE  /\ usedIds \subseteq usedIds' /\ usedKeys \subseteq usedKeys' /\ torn \subseteq torn'
         /\ \A i \in RowId : Exists(rows', i) => RowKept(i)
<1>0. TypeOK /\ rows \in Table
  BY DEF KeyInv, TypeOK
<1>1. CASE \/ Advance \/ UNCHANGED vars
           \/ \E t \in Tick : \/ Fire(t) \/ ReadDue(t) \/ Contended(t) \/ Die(t)
                              \/ \E v \in PublishAttempt : Answer(t, v)
  <2>1. UNCHANGED <<rows, usedIds, usedKeys, torn>>
    BY <1>1 DEF Advance, Fire, ReadDue, Contended, Die, Answer, vars, mintVars, histVars
  <2>2. QED
    BY <2>1 DEF RowKept
<1>2. ASSUME NEW t \in Tick, ReleaseStale(t)
      PROVE  /\ UNCHANGED <<usedIds, usedKeys, torn>>
             /\ \A i \in RowId : Exists(rows', i) => RowKept(i)
  <2>1. passNow[t] - StaleAge \in Int
    BY <1>0, BoundAssumption DEF TypeOK
  <2>2. \A i \in RowId : Exists(rows', i) =>
          /\ Exists(rows, i) /\ rows'[i].rkey = rows[i].rkey
          /\ rows'[i].draft = rows[i].draft
    <3> DEFINE S == ReleaseStaleClaims(rows, passNow[t] - StaleAge)
    <3>1. \A i \in RowId : Exists(S, i) => Exists(rows, i) /\ S[i].rkey = rows[i].rkey
      BY <1>0, <2>1, ReleaseStaleClaimsRows
    <3>2. \A i \in RowId : Exists(rows, i) => S[i].draft = rows[i].draft
      BY <1>0, <2>1, RowStatementDrafts
    <3>3. rows' = S \/ rows' = rows
      BY <1>2 DEF ReleaseStale
    <3> HIDE DEF S
    <3>4. QED
      BY <3>1, <3>2, <3>3
  <2>3. QED
    BY <1>2, <2>2 DEF ReleaseStale, RowKept, mintVars, histVars
<1>3. ASSUME NEW t \in Tick, Claim(t) \/ ClaimErrs(t)
      PROVE  /\ usedIds' = usedIds /\ usedKeys \subseteq usedKeys' /\ torn' = torn
             /\ \A i \in RowId : Exists(rows', i) => RowKept(i)
  <2>1. Head(queue[t]).id \in RowId /\ passNow[t] \in Nat
    BY <1>0, <1>3, QueueHead DEF Claim, ClaimErrs, DuePost, TypeOK
  <2>2. usedIds' = usedIds /\ torn' = torn
    BY <1>3 DEF Claim, ClaimErrs
  <2>3. CASE UNCHANGED <<rows, usedKeys>>
    BY <2>2, <2>3 DEF RowKept
  <2>4. CASE Claimable(rows, Head(queue[t]).id) /\ TakeLease(Head(queue[t]).id, passNow[t])
    <3>1. usedKeys \subseteq usedKeys'
      BY <2>4 DEF TakeLease
    <3>2. QED
      BY <2>1, <2>2, <2>4, <3>1, TakeLeaseKept
  <2>5. QED
    BY <1>3, <2>3, <2>4 DEF Claim, ClaimErrs
<1>4. ASSUME NEW t \in Tick, Report(t)
      PROVE  /\ UNCHANGED <<usedIds, usedKeys, torn>>
             /\ \A i \in RowId : Exists(rows', i) => RowKept(i)
  <2>1. UNCHANGED <<usedIds, usedKeys, torn>>
    BY <1>4 DEF Report, mintVars
  <2>2. CASE rows' = rows
    BY <2>1, <2>2 DEF RowKept
  <2>3. CASE rows' = Settled(t)
    BY <1>0, <1>4, <2>1, <2>3, SettledKept DEF Report
  <2>4. QED
    BY <1>4, <2>2, <2>3 DEF Report
<1>5. CASE \/ \E t \in Tick : Land(t)
           \/ \E ids \in SUBSET RowId :
                /\ rows' = DeleteRows(rows, ids)
                /\ UNCHANGED <<clock, fired, passVars, faults, mintVars, histVars>>
  <2>1. UNCHANGED <<usedIds, usedKeys, torn>>
    BY <1>5 DEF Land, mintVars, histVars
  <2>2. rows' = rows \/ \E ids \in SUBSET RowId : rows' = DeleteRows(rows, ids)
    BY <1>5 DEF Land, DeleteSchedulesForDraft, RowsOf
  <2>3. \A i \in RowId : Exists(rows', i) => Exists(rows, i) /\ rows'[i] = rows[i]
    BY <1>0, <2>2, DeleteRowsRows
  <2>4. QED
    BY <2>1, <2>3 DEF RowKept
<1>6. ASSUME NEW d \in Draft, NEW dueAt \in 1..MaxDue, NEW announce \in Announce,
             Schedule(d, dueAt, announce)
      PROVE  /\ usedIds \subseteq usedIds' /\ usedKeys' = usedKeys /\ torn \subseteq torn'
             /\ \A i \in RowId : Exists(rows', i) => RowKept(i)
  <2>1. PICK id \in RowId :
          /\ PendingOf(rows, d) = {} => id \notin usedIds
          /\ rows' = UpsertSchedule(rows, id, d, dueAt, announce)
          /\ usedIds' = IF PendingOf(rows, d) = {} THEN usedIds \cup {id} ELSE usedIds
    BY <1>6 DEF Schedule
  <2>2. usedKeys' = usedKeys /\ torn \subseteq torn' /\ usedIds \subseteq usedIds'
    BY <1>6, <2>1 DEF Schedule
  <2>3. dueAt \in Nat /\ announce \in BOOLEAN
    BY BoundAssumption
  <2>4. CASE PendingOf(rows, d) # {}
    <3>1. \A i \in RowId : Exists(rows', i) =>
            /\ Exists(rows, i) /\ rows'[i].rkey = rows[i].rkey
            /\ rows'[i].draft = rows[i].draft
      BY <1>0, <2>1, <2>3, <2>4, UpsertScheduleRows, MovedDraft
    <3>2. QED
      BY <2>2, <3>1 DEF RowKept
  <2>5. CASE PendingOf(rows, d) = {}
    <3>1. rows' = [rows EXCEPT ![id] = NewRow(d, dueAt, announce)]
      BY <1>0, <2>1, <2>3, <2>5, UpsertScheduleRows
    <3>2. ~Exists(rows, id) /\ id \in usedIds' \ usedIds
      BY <2>1, <2>5 DEF KeyInv, IdsMinted
    <3>3. /\ rows'[id].rkey = NoKey
          /\ \A i \in RowId : i # id => rows'[i] = rows[i]
      BY <1>0, <3>1 DEF Table, NewRow
    <3>4. QED
      BY <2>2, <3>2, <3>3 DEF RowKept, Exists
  <2>6. QED
    BY <2>4, <2>5
<1>7. CASE Writer
  BY <1>0, <1>5, <1>6, <1>7, WriterDeletes DEF Writer, mintVars, histVars
<1>8. QED
  BY <1>1, <1>2, <1>3, <1>4, <1>5, <1>7 DEF Next, Pass, Publish, Land, mintVars, histVars

(* What is known of a post stays known. *)
KnownNext(post) ==
  /\ post.id \in usedIds'
  /\ Exists(rows', post.id) => rows'[post.id].draft = post.draft

LEMMA KnownStays ==
  ASSUME KeyInv, [Next]_vars, NEW post \in DuePost, Known(post)
  PROVE  KnownNext(post)
<1>1. /\ usedIds \subseteq usedIds'
      /\ Exists(rows', post.id) => RowKept(post.id)
  BY RowsMove DEF DuePost
<1>2. QED
  BY <1>1 DEF Known, KnownNext, RowKept

LEMMA KnownAtNext ==
  ASSUME \A t \in Tick : \A i \in 1..Len(queue'[t]) : KnownNext(queue'[t][i])
  PROVE  QueueKnown'
BY DEF QueueKnown, Known, KnownNext

(* The due lookup answers with what the table holds. *)
LEMMA SelectedKnown ==
  ASSUME KeyInv, NEW now \in Nat, NEW limit \in Nat, NEW q \in SelectDuePosts(rows, now, limit)
  PROVE  \A i \in 1..Len(q) : q[i] \in DuePost /\ Known(q[i])
<1>1. \A p \in DuePosts(rows, now) : Known(p)
  BY DEF DuePosts, Known, Pending, KeyInv, IdsMinted
<1>2. PICK n \in 0..limit : q \in [1..n -> DuePosts(rows, now)]
  BY DEF SelectDuePosts
<1>3. q \in Seq(DuePost)
  BY SelectDuePostsType DEF KeyInv, TypeOK
<1>4. Len(q) = n
  BY <1>2, <1>3
<1>5. QED
  BY <1>1, <1>2, <1>3, <1>4

LEMMA QueueKnownStep ==
  ASSUME KeyInv, QueueKnown, [Next]_vars
  PROVE  QueueKnown'
<1>0. TypeOK /\ queue \in [Tick -> Seq(DuePost)]
  BY DEF KeyInv, TypeOK
<1>1. ASSUME NEW u \in Tick, NEW i \in 1..Len(queue[u])
      PROVE  queue[u][i] \in DuePost /\ KnownNext(queue[u][i])
  <2>1. queue[u][i] \in DuePost
    BY <1>0
  <2>2. QED
    BY <2>1, KnownStays DEF QueueKnown
<1>2. CASE UNCHANGED queue
  BY <1>1, <1>2, KnownAtNext
<1>3. ASSUME NEW t \in Tick, NEW q \in Seq(DuePost), GoTo(t, q),
             \A i \in 1..Len(q) : KnownNext(q[i])
      PROVE  QueueKnown'
  BY <1>0, <1>1, <1>3, KnownAtNext DEF GoTo
<1>4. ASSUME NEW t \in Tick, GoTo(t, Tail(queue[t])), pc[t] \in {"claim", "report"}
      PROVE  QueueKnown'
  <2>1. /\ Tail(queue[t]) \in Seq(DuePost) /\ queue[t] \in Seq(DuePost) /\ queue[t] # <<>>
    BY <1>0, <1>4, QueueHead DEF TypeOK
  <2>2. \A i \in 1..Len(Tail(queue[t])) : i + 1 \in 1..Len(queue[t]) /\ Tail(queue[t])[i] = queue[t][i + 1]
    BY <2>1, HeadTailProperties
  <2>3. QED
    BY <1>1, <1>3, <1>4, <2>1, <2>2
<1>5. ASSUME NEW t \in Tick, GoTo(t, <<>>) PROVE QueueKnown'
  <2>1. \A u \in Tick : queue'[u] = queue[u] \/ queue'[u] = <<>>
    BY <1>0, <1>5 DEF GoTo
  <2>2. \A u \in Tick : queue'[u] = <<>> => 1..Len(queue'[u]) = {}
    OBVIOUS
  <2>3. QED
    BY <1>1, <2>1, <2>2, KnownAtNext
<1>6. ASSUME NEW t \in Tick, ReadDue(t) PROVE QueueKnown'
  <2>1. CASE GoTo(t, <<>>)
    BY <1>5, <2>1
  <2>2. ASSUME NEW q \in SelectDuePosts(rows, passNow[t], Cap), GoTo(t, q) PROVE QueueKnown'
    <3>1. passNow[t] \in Nat /\ Cap \in Nat
      BY <1>0, BoundAssumption DEF TypeOK
    <3>2. q \in Seq(DuePost) /\ \A i \in 1..Len(q) : q[i] \in DuePost /\ Known(q[i])
      BY <1>0, <2>2, <3>1, SelectedKnown, SelectDuePostsType DEF TypeOK
    <3>3. \A i \in 1..Len(q) : KnownNext(q[i])
      BY <3>2, KnownStays
    <3>4. QED
      BY <1>3, <2>2, <3>2, <3>3
  <2>3. QED
    BY <1>6, <2>1, <2>2 DEF ReadDue
<1>7. ASSUME NEW t \in Tick, Die(t) PROVE QueueKnown'
  BY <1>5, <1>7 DEF Die
<1>8. CASE Writer
  BY <1>2, <1>8
    DEF Writer, Schedule, Cancel, CancelForDraft, TakeOver, passVars
<1>9. QED
  BY <1>2, <1>4, <1>6, <1>7, <1>8
    DEF Next, vars, passVars, Advance, Fire, Pass, Publish, ReleaseStale, Claim, Contended,
        ClaimErrs, Land, Answer, Report

-----------------------------------------------------------------------------
(* What a step of publishing does to the attempts, the repo, the drafts and *)
(* the posts.                                                               *)

(* A pass has an attempt while it publishes, on the row and under the key   *)
(* of its job.  A request has no key before it loads the draft, and none    *)
(* but a row's own when it does.                                            *)
PassAtWork(t) ==
  /\ att[t] # NoAtt <=> pc[t] \in {"publish", "landed"}
  /\ att[t] # NoAtt => att[t].rkey = job[t].rkey /\ att[t].draft = job[t].draft

RequestPlaces == {"upsert", "unqueue", "inflight", "load"}

Placed(p) ==
  att[p] # NoAtt /\ att[p].at \in RequestPlaces =>
    /\ p \in Request
    /\ att[p].fixed <=> att[p].rkey # NoKey
    /\ att[p].rkey \in Key \cup {NoKey}
    /\ att[p].at # "load" => att[p].rkey = NoKey

AtWork == (\A t \in Tick : PassAtWork(t)) /\ (\A p \in Proc : Placed(p))

ReadPlaces == {"resolve", "create", "readback", "replace"}

(* The publisher goes on, for the same draft and under the same key. *)
Goes(p) ==
  /\ att[p] # NoAtt /\ att'[p] # NoAtt
  /\ p \in Tick => UNCHANGED vars \/ Land(p)
  /\ att'[p].draft = att[p].draft /\ att'[p].rkey = att[p].rkey
  /\ att'[p].fixed = att[p].fixed
  /\ att'[p].at \in RequestPlaces => att[p].at = "inflight" /\ att'[p].at = "load"
  /\ att'[p].at = "clean" => att[p].at = "clean" \/ repo'[att[p].rkey] # NoRecord
  /\ att'[p].at \in ReadPlaces =>
       \/ att[p].at \in ReadPlaces /\ att'[p].ver = att[p].ver
       \/ /\ drafts[att[p].draft] # Gone /\ att'[p].ver = drafts[att[p].draft]
          /\ UNCHANGED <<drafts, repo>>
  /\ att'[p].at = "post" =>
       repo[att[p].rkey] # NoRecord /\ ~repo[att[p].rkey].ref /\ UNCHANGED repo

(* The publish ends.  There was nothing to publish only if the repo has no   *)
(* record under the key.                                                    *)
Ends(p) ==
  /\ att'[p] = NoAtt
  /\ p \in Tick =>
       \/ Die(p)
       \/ \E v \in PublishAttempt :
            /\ Answer(p, v) /\ (v.kind = "ok" <=> v.reason = NoReason)
            /\ v.reason = "draft_gone" =>
                 v.kind = "fail" /\ repo[att[p].rkey] = NoRecord /\ UNCHANGED repo

(* A request begins without a key. *)
Begun(r) ==
  /\ r \in Request /\ att[r] = NoAtt /\ att'[r] # NoAtt
  /\ att'[r].at \in {"upsert", "unqueue", "inflight"}
  /\ att'[r].at = "inflight" => "publishNow" \in Ops
  /\ att'[r].rkey = NoKey /\ ~att'[r].fixed

(* "Publish now" releases a draft's rows and begins under the key of one. *)
TakesOver(r) ==
  /\ r \in Request /\ att[r] = NoAtt /\ att'[r] # NoAtt /\ "publishNow" \in Ops
  /\ att'[r].at = "load" /\ (att'[r].fixed <=> att'[r].rkey # NoKey)
  /\ \E d \in Draft : \E id \in UnclaimedOf(rows, d) :
       TakeOver(d) /\ att'[r].draft = d /\ att'[r].rkey = rows[id].rkey

(* "Publish now" loads the draft. *)
Loads(r) ==
  /\ r \in Request /\ att[r] # NoAtt /\ att'[r] # NoAtt
  /\ att[r].at = "load" /\ att'[r].at = "create"
  /\ att'[r].draft = att[r].draft
  /\ drafts[att[r].draft] # Gone /\ att'[r].ver = drafts[att[r].draft]
  /\ att'[r].rkey \in KeysFor(att[r].rkey) /\ Mint(att'[r].rkey)
  /\ UNCHANGED <<vars, drafts, repo>>

(* The editor publishes, under the key of a row of the draft if it has one. *)
Forms(r) ==
  /\ r \in Request /\ att[r] = NoAtt /\ att'[r] # NoAtt /\ "publishForm" \in Ops
  /\ att'[r].at = "create"
  /\ \E d \in Draft, rkey \in Key \cup {NoKey} :
       /\ att'[r].draft = d /\ drafts[d] # Gone /\ att'[r].ver = drafts[d]
       /\ rkey # NoKey => \E id \in RowsOf(rows, d) : rows[id].rkey = rkey
       /\ att'[r].rkey \in KeysFor(rkey) /\ Mint(att'[r].rkey)
  /\ UNCHANGED <<vars, drafts, repo>>

(* A pass begins on the row it claimed. *)
Claims(t) ==
  /\ t \in Tick /\ Claim(t) /\ att'[t] # NoAtt
  /\ att'[t].at = "restore"
  /\ att'[t].draft = job'[t].draft /\ att'[t].rkey = job'[t].rkey

Moves(p) ==
  \/ Goes(p) \/ Ends(p)
  \/ Begun(p) \/ TakesOver(p) \/ Loads(p) \/ Forms(p) \/ Claims(p)

(* What a publisher begins with. *)
LEMMA StartingIs ==
  ASSUME NEW at \in Places, NEW d \in Draft, NEW rkey \in Rkey \cup {NoKey}, NEW c \in BOOLEAN
  PROVE  /\ Starting(at, d, rkey, c) \in Attempt
         /\ Starting(at, d, rkey, c).at = at /\ Starting(at, d, rkey, c).draft = d
         /\ Starting(at, d, rkey, c).rkey = rkey
         /\ Starting(at, d, rkey, c).fixed <=> rkey # NoKey
<1>1. Starting(at, d, rkey, c) \in Attempt
  BY NetBoundAssumption DEF Starting, Attempt, Version, Places
<1>2. /\ Starting(at, d, rkey, c).at = at /\ Starting(at, d, rkey, c).draft = d
      /\ Starting(at, d, rkey, c).rkey = rkey
  BY DEF Starting
<1>3. Starting(at, d, rkey, c).fixed <=> rkey # NoKey
  BY Zenon DEF Starting
<1>4. QED
  BY <1>1, <1>2, <1>3

(* An attempt whose fields are set keeps the others. *)
LEMMA FieldsKept ==
  ASSUME NEW a \in Attempt, NEW at, NEW todo, NEW seen, NEW ver, NEW k
  PROVE  /\ [a EXCEPT !.at = at].at = at
         /\ [a EXCEPT !.at = at].draft = a.draft
         /\ [a EXCEPT !.at = at].rkey = a.rkey
         /\ [a EXCEPT !.at = at].fixed = a.fixed
         /\ [a EXCEPT !.at = at].ver = a.ver
         /\ [a EXCEPT !.at = at].seen = a.seen
         /\ [a EXCEPT !.at = at, !.todo = todo].at = at
         /\ [a EXCEPT !.at = at, !.todo = todo].draft = a.draft
         /\ [a EXCEPT !.at = at, !.todo = todo].rkey = a.rkey
         /\ [a EXCEPT !.at = at, !.todo = todo].fixed = a.fixed
         /\ [a EXCEPT !.todo = todo, !.at = at].at = at
         /\ [a EXCEPT !.todo = todo, !.at = at].draft = a.draft
         /\ [a EXCEPT !.todo = todo, !.at = at].rkey = a.rkey
         /\ [a EXCEPT !.todo = todo, !.at = at].fixed = a.fixed
         /\ [a EXCEPT !.at = at, !.seen = seen].at = at
         /\ [a EXCEPT !.at = at, !.seen = seen].draft = a.draft
         /\ [a EXCEPT !.at = at, !.seen = seen].rkey = a.rkey
         /\ [a EXCEPT !.at = at, !.seen = seen].fixed = a.fixed
         /\ [a EXCEPT !.at = at, !.seen = seen].ver = a.ver
         /\ [a EXCEPT !.at = at, !.ver = ver].at = at
         /\ [a EXCEPT !.at = at, !.ver = ver].draft = a.draft
         /\ [a EXCEPT !.at = at, !.ver = ver].rkey = a.rkey
         /\ [a EXCEPT !.at = at, !.ver = ver].fixed = a.fixed
         /\ [a EXCEPT !.at = at, !.ver = ver].ver = ver
BY DEF Attempt

(* The steps of a publish, as moves. *)
LEMMA StepMoves ==
  ASSUME PubInv, NEW p \in Proc, att[p] # NoAtt, NEW at \in Places, Step(p, at),
         at \in RequestPlaces => att[p].at = "inflight" /\ at = "load",
         at \notin {"clean", "post"},
         at \in ReadPlaces => att[p].at \in ReadPlaces
  PROVE  Moves(p) /\ \A q \in Proc \ {p} : att'[q] = att[q]
<1>1. att[p] \in Attempt
  BY AttemptUnderWay
<1>2. /\ att' = [att EXCEPT ![p] = [att[p] EXCEPT !.at = at]]
      /\ att \in [Proc -> Attempt \cup {NoAtt}]
  BY DEF Step, PubInv, AttOK
<1>3. att'[p] = [att[p] EXCEPT !.at = at]
  BY <1>2
<1>4. att'[p] # NoAtt
  BY <1>1, <1>3, AttemptFields, NoAttAssumption
<1>5. QED
  BY <1>1, <1>2, <1>3, <1>4, FieldsKept DEF Moves, Goes, Step

(* The verdicts but "there was nothing to publish". *)
Other(v) == v \in PublishAttempt /\ (v.kind = "ok" <=> v.reason = NoReason) /\ v.reason # "draft_gone"

LEMMA OtherVerdicts ==
  /\ Other(Ok)
  /\ \A why \in {"session_lost", "read_failed", "unconfirmed", "pds_unreachable",
                 "threw", "refused"} : Other(Retry(why)) /\ Other(Fail(why))
BY ReasonAssumption, NullAssumption
  DEF Ok, NoVerdict, Retry, Fail, PublishAttempt, Other

LEMMA DoneMoves ==
  ASSUME PubInv, NEW p \in Proc,
         \/ \E v : Other(v) /\ Done(p, v)
         \/ Refused(p) \/ Threw(p)
         \/ Done(p, Fail("draft_gone")) /\ repo[att[p].rkey] = NoRecord /\ UNCHANGED repo
         \/ att' = [att EXCEPT ![p] = NoAtt] /\ (p \in Tick => Die(p))
  PROVE  Moves(p) /\ \A q \in Proc \ {p} : att'[q] = att[q]
<1>1. att' = [att EXCEPT ![p] = NoAtt]
  BY DEF Done, Refused, Threw
<1>2. CASE \/ \E v : Other(v) /\ Done(p, v)
           \/ Refused(p) \/ Threw(p)
  <2>1. PICK v : Other(v) /\ Done(p, v)
    BY <1>2, OtherVerdicts DEF Refused, Threw
  <2>2. Ends(p)
    BY <1>1, <2>1 DEF Done, Ends, Other, PubInv, AttOK
  <2>3. QED
    BY <1>1, <2>2 DEF Moves, PubInv, AttOK
<1>3. CASE Done(p, Fail("draft_gone")) /\ repo[att[p].rkey] = NoRecord /\ UNCHANGED repo
  <2>1. /\ Fail("draft_gone") \in PublishAttempt
        /\ Fail("draft_gone").kind = "fail" /\ Fail("draft_gone").reason # NoReason
    BY Verdicts DEF Fail
  <2>2. Ends(p)
    BY <1>1, <1>3, <2>1 DEF Done, Ends, PubInv, AttOK
  <2>3. QED
    BY <1>1, <2>2 DEF Moves, PubInv, AttOK
<1>4. CASE p \in Tick => Die(p)
  BY <1>1, <1>4 DEF Moves, Ends, PubInv, AttOK
<1>5. QED
  BY <1>2, <1>3, <1>4

(* Only p moves. *)
Only(p) == Moves(p) /\ \A q \in Proc \ {p} : att'[q] = att[q]

LEMMA WriteMoves ==
  ASSUME PubInv, NEW p \in Proc, Write(p)
  PROVE  Only(p)
<1>1. /\ att[p] # NoAtt /\ att[p] \in Attempt /\ Ready(att[p])
      /\ att[p].rkey # NoKey => att[p].rkey \in Rkey
      /\ att \in [Proc -> Attempt \cup {NoAtt}] /\ repo \in [Rkey -> Record \cup {NoRecord}]
  BY AttemptUnderWay
    DEF Write, Create, ReadBack, Replace, CleanDraft, CleanRows, AnnounceRead, AnnouncePost,
        AnnounceNote, Finish, At, Attempt, Rkey, PubInv, AttOK, StoresOK
<1>2. {"readback", "replace", "clean", "announce", "post", "note", "answer"} \subseteq Places
  BY DEF Places
<1>3. ASSUME NEW at \in {"readback", "note", "answer"}, Step(p, at),
             at = "readback" => At(p, "create")
      PROVE  Only(p)
  BY <1>1, <1>2, <1>3, StepMoves DEF Only, RequestPlaces, ReadPlaces, At
<1>4. ASSUME \/ \E v : Other(v) /\ Done(p, v)
             \/ Refused(p) \/ Threw(p)
      PROVE  Only(p)
  BY <1>4, DoneMoves DEF Only
<1>5. ASSUME Written(p), NEW rec \in Record, att[p].rkey # NoKey, Put(p, rec)
      PROVE  Only(p)
  <2> DEFINE a == [att[p] EXCEPT !.at = "clean", !.todo = {"draft", "rows"}]
  <2>1. att' = [att EXCEPT ![p] = a]
    BY <1>5 DEF Written
  <2>2. a \in Attempt
    BY <1>1, <1>2, AttemptFields
  <2>3. att'[p] = a /\ att'[p] # NoAtt /\ \A q \in Proc \ {p} : att'[q] = att[q]
    BY <1>1, <2>1, <2>2, NoAttAssumption
  <2>4. repo'[att[p].rkey] # NoRecord
    BY <1>1, <1>5, NullRecordAssumption DEF Put
  <2>5. /\ a.at = "clean" /\ a.draft = att[p].draft /\ a.rkey = att[p].rkey
        /\ a.fixed = att[p].fixed
    BY <1>1, FieldsKept
  <2> HIDE DEF a
  <2>6. Goes(p)
    BY <1>1, <1>5, <2>3, <2>4, <2>5 DEF Goes, RequestPlaces, ReadPlaces, Written
  <2>7. QED
    BY <2>3, <2>6 DEF Only, Moves
<1>6. CASE Create(p)
  <2>1. CASE NotCreated(p)
    BY <1>3, <1>4, <1>6, <2>1 DEF NotCreated, Create
  <2>2. CASE Put(p, NewRecord(p, FALSE)) /\ Written(p)
    <3>1. NewRecord(p, FALSE) \in Record
      BY <1>1, NewRecordType
    <3>2. att[p].rkey # NoKey
      BY <1>1, <1>6 DEF Create, At, Ready
    <3>3. QED
      BY <1>5, <2>2, <3>1, <3>2
  <2>3. CASE Threw(p)
    BY <1>4, <2>3
  <2>4. QED
    BY <1>6, <2>1, <2>2, <2>3 DEF Create
<1>7. CASE Replace(p)
  <2>1. CASE Put(p, NewRecord(p, att[p].seen.ref)) /\ Written(p)
    <3>1. att[p].seen \in Record /\ att[p].rkey # NoKey
      BY <1>1, <1>7 DEF Replace, At, Ready, Attempt
    <3>2. NewRecord(p, att[p].seen.ref) \in Record
      BY <1>1, <3>1, NewRecordType DEF Record
    <3>3. QED
      BY <1>5, <2>1, <3>1, <3>2
  <2>2. CASE Refused(p) \/ Threw(p) \/ \E v : Other(v) /\ Done(p, v)
    BY <1>4, <2>2
  <2>3. QED
    BY <1>7, <2>1, <2>2, OtherVerdicts DEF Replace
<1>8. CASE ReadBack(p)
  <2>1. CASE /\ att' = [att EXCEPT ![p].at = "replace", ![p].seen = repo[att[p].rkey]]
             /\ repo[att[p].rkey] # NoRecord /\ UNCHANGED vars
    <3> DEFINE a == [att[p] EXCEPT !.at = "replace", !.seen = repo[att[p].rkey]]
    <3>1. repo[att[p].rkey] \in Record
      BY <1>1, <1>8, <2>1 DEF ReadBack, At, Ready
    <3>2. a \in Attempt
      BY <1>1, <1>2, <3>1, AttemptFields
    <3>3. att'[p] = a /\ att'[p] # NoAtt /\ \A q \in Proc \ {p} : att'[q] = att[q]
      BY <1>1, <2>1, <3>2, NoAttAssumption
    <3>4. /\ a.at = "replace" /\ a.draft = att[p].draft /\ a.rkey = att[p].rkey
          /\ a.fixed = att[p].fixed /\ a.ver = att[p].ver
      BY <1>1, FieldsKept
    <3> HIDE DEF a
    <3>5. Goes(p)
      BY <1>1, <1>8, <2>1, <3>3, <3>4 DEF Goes, RequestPlaces, ReadPlaces, ReadBack, At
    <3>6. QED
      BY <3>3, <3>5 DEF Only, Moves
  <2>2. CASE Refused(p) \/ \E v : Other(v) /\ Done(p, v)
    BY <1>4, <2>2
  <2>3. QED
    BY <1>8, <2>1, <2>2, OtherVerdicts DEF ReadBack
<1>9. CASE CleanDraft(p) \/ CleanRows(p)
  <2>1. PICK what : CleanedUp(p, what)
    BY <1>9 DEF CleanDraft, CleanRows
  <2> DEFINE left == att[p].todo \ {what}
             next == IF left # {} THEN "clean"
                     ELSE IF att[p].announce THEN "announce" ELSE "answer"
             a == [att[p] EXCEPT !.todo = left, !.at = next]
  <2>2. att' = [att EXCEPT ![p] = a] /\ att[p].at = "clean"
    BY <1>9, <2>1 DEF CleanedUp, CleanDraft, CleanRows, At
  <2>3. next \in {"clean", "announce", "answer"} /\ left \in SUBSET {"draft", "rows"}
    BY <1>1 DEF Attempt
  <2>4. a \in Attempt
    BY <1>1, <1>2, <2>3, AttemptFields
  <2>5. att'[p] = a /\ att'[p] # NoAtt /\ \A q \in Proc \ {p} : att'[q] = att[q]
    BY <1>1, <2>2, <2>4, NoAttAssumption
  <2>6. a.at = next /\ a.draft = att[p].draft /\ a.rkey = att[p].rkey /\ a.fixed = att[p].fixed
    BY <1>1, FieldsKept
  <2> HIDE DEF a, next, left
  <2>7. p \in Tick => UNCHANGED vars \/ Land(p)
    BY <1>9 DEF CleanDraft, CleanRows
  <2>8. Goes(p)
    BY <1>1, <2>2, <2>3, <2>5, <2>6, <2>7 DEF Goes, RequestPlaces, ReadPlaces
  <2>9. QED
    BY <2>5, <2>8 DEF Only, Moves
<1>10. CASE AnnounceRead(p)
  <2>1. CASE att' = [att EXCEPT ![p].at = "answer"]
    BY <1>3, <1>10, <2>1 DEF AnnounceRead, Step
  <2>2. CASE /\ repo[att[p].rkey] # NoRecord /\ ~repo[att[p].rkey].ref
             /\ att' = [att EXCEPT ![p].at = "post", ![p].seen = repo[att[p].rkey]]
    <3> DEFINE a == [att[p] EXCEPT !.at = "post", !.seen = repo[att[p].rkey]]
    <3>1. repo[att[p].rkey] \in Record
      BY <1>1, <1>10, <2>2 DEF AnnounceRead, At, Ready
    <3>2. a \in Attempt
      BY <1>1, <1>2, <3>1, AttemptFields
    <3>3. att'[p] = a /\ att'[p] # NoAtt /\ \A q \in Proc \ {p} : att'[q] = att[q]
      BY <1>1, <2>2, <3>2, NoAttAssumption
    <3>4. /\ a.at = "post" /\ a.draft = att[p].draft /\ a.rkey = att[p].rkey
          /\ a.fixed = att[p].fixed
      BY <1>1, FieldsKept
    <3> HIDE DEF a
    <3>5. Goes(p)
      BY <1>1, <1>10, <2>2, <3>3, <3>4 DEF Goes, RequestPlaces, ReadPlaces, AnnounceRead
    <3>6. QED
      BY <3>3, <3>5 DEF Only, Moves
  <2>3. QED
    BY <1>10, <2>1, <2>2 DEF AnnounceRead
<1>11. CASE AnnouncePost(p) \/ AnnounceNote(p)
  BY <1>3, <1>11 DEF AnnouncePost, AnnounceNote
<1>12. CASE Finish(p)
  BY <1>4, <1>12, OtherVerdicts DEF Finish
<1>13. QED
  BY <1>6, <1>7, <1>8, <1>9, <1>10, <1>11, <1>12 DEF Write

LEMMA PublisherMoves ==
  ASSUME PubInv, NEW t \in Tick, PublishDuePost(t)
  PROVE  Only(t)
<1>1. /\ t \in Proc /\ att[t] # NoAtt /\ att[t] \in Attempt /\ Ready(att[t])
      /\ att[t].at \in {"restore", "draft", "probe", "resolve"}
      /\ att \in [Proc -> Attempt \cup {NoAtt}]
  BY AttemptUnderWay
    DEF PublishDuePost, RestoreSession, ReadDraft, Probe, Resolve, At, Proc, PubInv, AttOK
<1>2. ASSUME NEW at \in {"draft", "probe", "create", "announce", "answer"}, Step(t, at),
             at = "create" => att[t].at = "resolve"
      PROVE  Only(t)
  <2>1. at \in Places
    BY DEF Places
  <2>2. QED
    BY <1>1, <1>2, <2>1, StepMoves DEF Only, RequestPlaces, ReadPlaces
<1>3. ASSUME NEW v, Other(v), Done(t, v) PROVE Only(t)
  BY <1>1, <1>3, DoneMoves DEF Only
<1>4. CASE ReadDraft(t)
  <2>1. CASE /\ drafts[att[t].draft] # Gone /\ UNCHANGED vars
             /\ att' = [att EXCEPT ![t].at = "resolve", ![t].ver = drafts[att[t].draft]]
    <3> DEFINE a == [att[t] EXCEPT !.at = "resolve", !.ver = drafts[att[t].draft]]
    <3>1. drafts[att[t].draft] \in Version /\ "resolve" \in Places
      BY <1>1, <2>1 DEF PubInv, StoresOK, Attempt, Places
    <3>2. a \in Attempt
      BY <1>1, <3>1, AttemptFields
    <3>3. att'[t] = a /\ att'[t] # NoAtt /\ \A q \in Proc \ {t} : att'[q] = att[q]
      BY <1>1, <2>1, <3>2, NoAttAssumption
    <3>4. /\ a.at = "resolve" /\ a.draft = att[t].draft /\ a.rkey = att[t].rkey
          /\ a.fixed = att[t].fixed /\ a.ver = drafts[att[t].draft]
      BY <1>1, FieldsKept
    <3>5. UNCHANGED <<drafts, repo>>
      BY <1>4 DEF ReadDraft
    <3> HIDE DEF a
    <3>6. Goes(t)
      BY <1>1, <2>1, <3>3, <3>4, <3>5 DEF Goes, RequestPlaces, ReadPlaces
    <3>7. QED
      BY <3>3, <3>6 DEF Only, Moves
  <2>2. QED
    BY <1>2, <1>3, <1>4, <2>1, OtherVerdicts DEF ReadDraft
<1>5. CASE RestoreSession(t) \/ Resolve(t)
  BY <1>2, <1>3, <1>5, OtherVerdicts DEF RestoreSession, Resolve, At
<1>6. CASE Probe(t)
  <2>1. CASE Done(t, Fail("draft_gone")) /\ repo[att[t].rkey] = NoRecord
    BY <1>1, <1>6, <2>1, DoneMoves DEF Probe, Only
  <2>2. QED
    BY <1>2, <1>3, <1>6, <2>1, OtherVerdicts DEF Probe
<1>7. QED
  BY <1>4, <1>5, <1>6 DEF PublishDuePost

LEMMA ServeMoves ==
  ASSUME PubInv, NEW r \in Request, Serve(r) \/ RequestDies(r)
  PROVE  Only(r)
<1>1. /\ r \in Proc /\ att[r] # NoAtt /\ att[r] \in Attempt
      /\ att \in [Proc -> Attempt \cup {NoAtt}]
  BY AttemptUnderWay
    DEF Serve, RequestDies, ScheduleUpserts, DeleteDraftUnqueues, NowInFlight, NowLoads,
        At, Proc, PubInv, AttOK
<1>2. ASSUME (\E v : Done(r, v)) \/ att' = [att EXCEPT ![r] = NoAtt]
      PROVE  Only(r)
  BY <1>1, <1>2, DoneMoves, ProcAssumption DEF Only, Done
<1>3. CASE ScheduleUpserts(r) \/ DeleteDraftUnqueues(r) \/ RequestDies(r)
  BY <1>2, <1>3 DEF ScheduleUpserts, DeleteDraftUnqueues, RequestDies
<1>4. CASE NowInFlight(r)
  <2>1. CASE Step(r, "load")
    <3>1. "load" \in Places /\ att[r].at = "inflight"
      BY <1>4 DEF Places, NowInFlight, At
    <3>2. QED
      BY <1>1, <2>1, <3>1, StepMoves DEF Only, RequestPlaces, ReadPlaces
  <2>2. QED
    BY <1>2, <1>4, <2>1 DEF NowInFlight
<1>5. CASE NowLoads(r)
  <2>1. CASE \E v : Done(r, v)
    BY <1>2, <2>1
  <2>2. ASSUME NEW k \in KeysFor(att[r].rkey), drafts[att[r].draft] # Gone, Mint(k),
               att' = [att EXCEPT ![r].at = "create", ![r].rkey = k,
                                  ![r].ver = drafts[att[r].draft]],
               UNCHANGED vars
        PROVE  Only(r)
    <3> DEFINE a == [att[r] EXCEPT !.at = "create", !.rkey = k,
                                   !.ver = drafts[att[r].draft]]
    <3>1. att' = [att EXCEPT ![r] = a]
      BY <1>1, <2>2
    <3>2. att[r].at = "load" /\ UNCHANGED <<drafts, repo>>
      BY <1>5 DEF NowLoads, At
    <3>3. k \in Rkey /\ drafts[att[r].draft] \in Version /\ "create" \in Places
      BY <1>1, <2>2, KeysForType DEF Attempt, Rkey, PubInv, StoresOK, Places
    <3>4. a \in Attempt
      BY <1>1, <3>3, AttemptFields
    <3>5. /\ a.at = "create" /\ a.draft = att[r].draft /\ a.rkey = k
          /\ a.ver = drafts[att[r].draft]
      BY <1>1 DEF Attempt
    <3> HIDE DEF a
    <3>6. att'[r] = a /\ a # NoAtt /\ \A q \in Proc \ {r} : att'[q] = att[q]
      BY <1>1, <3>1, <3>4, NoAttAssumption
    <3>7. Loads(r)
      BY <1>1, <2>2, <3>2, <3>5, <3>6 DEF Loads
    <3>8. QED
      BY <3>6, <3>7 DEF Only, Moves
  <2>3. QED
    BY <1>5, <2>1, <2>2 DEF NowLoads
<1>6. QED
  BY <1>3, <1>4, <1>5 DEF Serve

LEMMA WriterMoves ==
  ASSUME PubInv, WriterActs
  PROVE  \/ UNCHANGED att
         \/ \E r \in Request : Only(r)
<1>0. att \in [Proc -> Attempt \cup {NoAtt}] /\ Request \subseteq Proc
  BY DEF PubInv, AttOK, Proc
<1>1. ASSUME NEW r \in Request, NEW a, Begin(r, a), Moves(r) PROVE Only(r)
  BY <1>0, <1>1 DEF Begin, Only
<1>2. ASSUME NEW r \in Request, NEW d \in Draft, NEW at \in {"upsert", "unqueue", "inflight"},
             Begin(r, Starting(at, d, NoKey, FALSE)),
             at = "inflight" => "publishNow" \in Ops
      PROVE  Only(r)
  <2> DEFINE a == Starting(at, d, NoKey, FALSE)
  <2>1. at \in Places /\ FALSE \in BOOLEAN /\ NoKey \in Rkey \cup {NoKey}
    BY DEF Places
  <2>2. a \in Attempt /\ a.at = at /\ a.rkey = NoKey /\ ~a.fixed
    BY <2>1, StartingIs
  <2> HIDE DEF a
  <2>3. att' = [att EXCEPT ![r] = a] /\ att[r] = NoAtt
    BY <1>2 DEF Begin, a
  <2>4. att'[r] = a /\ att'[r] # NoAtt
    BY <1>0, <2>2, <2>3, NoAttAssumption
  <2>5. Begun(r)
    BY <1>2, <2>2, <2>3, <2>4 DEF Begun
  <2>6. QED
    BY <1>0, <2>3, <2>5 DEF Only, Moves
<1>3. ASSUME NEW r \in Request, NEW d \in Draft, PublishNow(r, d) PROVE Only(r)
  <2>0. "publishNow" \in Ops
    BY <1>3 DEF PublishNow
  <2>1. CASE Begin(r, Starting("inflight", d, NoKey, FALSE))
    BY <1>2, <2>0, <2>1
  <2>2. ASSUME NEW id \in UnclaimedOf(rows, d), TakeOver(d),
               Begin(r, Starting("load", d, rows[id].rkey, rows[id].announce))
        PROVE  Only(r)
    <3> DEFINE a == Starting("load", d, rows[id].rkey, rows[id].announce)
    <3>1. /\ rows[id].rkey \in Rkey \cup {NoKey} /\ rows[id].announce \in BOOLEAN
          /\ "load" \in Places
      BY RowsKey DEF UnclaimedOf, RowsOf, Places
    <3>2. /\ a \in Attempt /\ a.at = "load" /\ a.rkey = rows[id].rkey /\ a.draft = d
          /\ (a.fixed <=> rows[id].rkey # NoKey)
      BY <3>1, StartingIs
    <3> HIDE DEF a
    <3>3. att' = [att EXCEPT ![r] = a] /\ att[r] = NoAtt
      BY <2>2 DEF Begin, a
    <3>4. att'[r] = a /\ att'[r] # NoAtt
      BY <1>0, <3>2, <3>3, NoAttAssumption
    <3>5. TakesOver(r)
      BY <2>0, <2>2, <3>2, <3>3, <3>4 DEF TakesOver
    <3>6. QED
      BY <1>0, <3>3, <3>5 DEF Only, Moves
  <2>3. QED
    BY <1>3, <2>1, <2>2 DEF PublishNow
<1>4. ASSUME NEW r \in Request, NEW d \in Draft, PublishForm(r, d) PROVE Only(r)
  <2>1. PICK rkey \in {NoKey} \cup {rows[id].rkey : id \in SelectScheduleForDraft(rows, d)},
             announce \in Announce :
          \E k \in KeysFor(rkey) :
            /\ Mint(k)
            /\ Begin(r, [Starting("create", d, rkey, announce)
                           EXCEPT !.rkey = k, !.ver = drafts[d]])
    BY <1>4 DEF PublishForm
  <2>2. PICK k \in KeysFor(rkey) :
          /\ Mint(k)
          /\ Begin(r, [Starting("create", d, rkey, announce)
                         EXCEPT !.rkey = k, !.ver = drafts[d]])
    BY <2>1
  <2>3. /\ rkey # NoKey => \E id \in RowsOf(rows, d) : rows[id].rkey = rkey
        /\ announce \in BOOLEAN
    BY BoundAssumption DEF SelectScheduleForDraft, PendingOf
  <2>4. rkey \in Key \cup {NoKey}
    BY <2>3, RowsAreRows DEF RowsOf, PubInv, TypeOK, Row
  <2>5. k \in Rkey /\ drafts[d] \in Version /\ drafts[d] # Gone /\ rkey \in Rkey \cup {NoKey}
    BY <1>4, <2>4, KeysForType DEF PublishForm, PubInv, StoresOK, Rkey
  <2> DEFINE start == Starting("create", d, rkey, announce)
             a == [start EXCEPT !.rkey = k, !.ver = drafts[d]]
  <2>6. /\ a \in Attempt /\ a.at = "create" /\ a.draft = d /\ a.rkey = k /\ a.ver = drafts[d]
    <3>1. "create" \in Places
      BY DEF Places
    <3>2. start \in Attempt /\ start.at = "create" /\ start.draft = d
      BY <2>3, <2>5, <3>1, StartingIs
    <3> HIDE DEF start
    <3>3. QED
      BY <2>5, <3>2 DEF Attempt
  <2>7. att' = [att EXCEPT ![r] = a] /\ att[r] = NoAtt
    BY <2>2 DEF Begin
  <2> HIDE DEF start, a
  <2>8. att'[r] = a /\ att'[r] # NoAtt
    BY <1>0, <2>6, <2>7, NoAttAssumption
  <2>9. "publishForm" \in Ops /\ UNCHANGED <<vars, drafts, repo>>
    BY <1>4 DEF PublishForm
  <2>10. Forms(r)
    BY <2>2, <2>3, <2>4, <2>5, <2>6, <2>7, <2>8, <2>9 DEF Forms
  <2>11. QED
    BY <1>0, <2>7, <2>10 DEF Only, Moves
<1>5. QED
  BY <1>2, <1>3, <1>4
    DEF WriterActs, Unschedule, Edit, ScheduleChecks, DeleteDraft, pubVars

LEMMA ClaimMoves ==
  ASSUME PubInv, NEW t \in Tick, PassClaim(t)
  PROVE  Only(t)
<1>0. /\ att \in [Proc -> Attempt \cup {NoAtt}] /\ pc \in [Tick -> PcState]
      /\ t \in Proc
  BY DEF PubInv, AttOK, TypeOK, Proc
<1>1. InFlight(t)'
  BY <1>0 DEF PassClaim, Claim, InFlight
<1>2. [Next]_vars
  BY DEF PassClaim, Next, Pass
<1>3. job'[t] \in ClaimedPost
  BY <1>1, <1>2, TypeOKStep DEF TypeOK, PubInv
<1> DEFINE d == job'[t].draft
           k == job'[t].rkey
           c == job'[t].announce
           a == Starting("restore", d, k, c)
<1>4. d \in Draft /\ k \in Rkey \cup {NoKey} /\ c \in BOOLEAN /\ "restore" \in Places
  BY <1>3 DEF ClaimedPost, Rkey, Places
<1>5. att' = [att EXCEPT ![t] = a]
  BY DEF PassClaim
<1> HIDE DEF d, k, c
<1>6. a \in Attempt /\ a.at = "restore" /\ a.draft = d /\ a.rkey = k
  BY <1>4, StartingIs
<1> HIDE DEF a
<1>7. att'[t] = a /\ att'[t] # NoAtt /\ \A q \in Proc \ {t} : att'[q] = att[q]
  BY <1>0, <1>5, <1>6, NoAttAssumption
<1>8. Claims(t)
  BY <1>6, <1>7 DEF Claims, PassClaim, d, k
<1>9. QED
  BY <1>7, <1>8 DEF Only, Moves

(* Every step of publishing moves the attempts so, and at most one of them. *)
LEMMA AttMoves ==
  ASSUME PubInv, [PubNext]_allVars
  PROVE  \/ UNCHANGED att
         \/ \E p \in Proc : Only(p)
<1>0. att \in [Proc -> Attempt \cup {NoAtt}] /\ Request \subseteq Proc /\ Tick \subseteq Proc
  BY DEF PubInv, AttOK, Proc
<1>1. CASE UNCHANGED allVars \/ (Advance /\ UNCHANGED pubVars)
  BY <1>1 DEF allVars, pubVars
<1>2. ASSUME NEW t \in Tick, PassClaim(t) PROVE Only(t)
  BY <1>0, <1>2, ClaimMoves
<1>3. ASSUME NEW t \in Tick, PassDies(t) PROVE Only(t)
  BY <1>0, <1>3, DoneMoves DEF Only, PassDies
<1>4. ASSUME NEW t \in Tick, PassStep(t) PROVE UNCHANGED att
  BY <1>4 DEF PassStep, pubVars
<1>5. QED
  BY <1>0, <1>1, <1>2, <1>3, <1>4, WriteMoves, PublisherMoves, ServeMoves, WriterMoves
    DEF PubNext

(* The three writes of a record. *)
Creates(p) ==
  At(p, "create") /\ repo[att[p].rkey] = NoRecord /\ Put(p, NewRecord(p, FALSE))
Replaces(p) ==
  At(p, "replace") /\ repo[att[p].rkey] = att[p].seen /\ Put(p, NewRecord(p, att[p].seen.ref))
Notes(p) ==
  At(p, "note") /\ repo[att[p].rkey] = att[p].seen /\ Put(p, [att[p].seen EXCEPT !.ref = TRUE])
Writes(p) == Creates(p) \/ Replaces(p) \/ Notes(p)

LEMMA StoreMoves ==
  ASSUME [PubNext]_allVars
  PROVE  /\ \/ repo' = repo
            \/ \E p \in Proc : Writes(p) /\ UNCHANGED <<drafts, posts, usedOwn, discarded>>
         /\ \/ UNCHANGED <<drafts, discarded>>
            \/ \E d \in Draft : Edit(d)
            \/ \E p \in Proc : CleanDraft(p)
            \/ \E r \in Request, d \in Draft : DeleteDraft(r, d)
         /\ \/ posts' = posts
            \/ \E p \in Proc :
                 At(p, "post") /\ posts' = [posts EXCEPT ![att[p].rkey] = @ + 1]
         /\ \/ usedOwn' = usedOwn
            \/ \E k : Mint(k)
<1>1. CASE \E p \in Proc : Create(p)
  BY <1>1 DEF Create, Writes, Creates
<1>2. CASE \E p \in Proc : Replace(p)
  BY <1>2 DEF Replace, Writes, Replaces
<1>3. CASE \E p \in Proc : AnnounceNote(p)
  BY <1>3 DEF AnnounceNote, Writes, Notes
<1>4. CASE \E p \in Proc : AnnouncePost(p)
  BY <1>4 DEF AnnouncePost
<1>5. CASE \E p \in Proc : CleanDraft(p)
  BY <1>5 DEF CleanDraft
<1>6. CASE \/ \E p \in Proc : \/ ReadBack(p) \/ CleanRows(p) \/ AnnounceRead(p) \/ Finish(p)
           \/ \E t \in Tick : PassStep(t) \/ PassClaim(t) \/ PublishDuePost(t) \/ PassDies(t)
           \/ \E r \in Request : \/ RequestDies(r) \/ ScheduleUpserts(r)
                                 \/ DeleteDraftUnqueues(r) \/ NowInFlight(r)
           \/ UNCHANGED allVars \/ UNCHANGED pubVars
  BY <1>6
    DEF ReadBack, CleanRows, AnnounceRead, Finish, PassStep, PassClaim, PublishDuePost,
        RestoreSession, ReadDraft, Probe, Resolve, PassDies, RequestDies, ScheduleUpserts,
        DeleteDraftUnqueues, NowInFlight, allVars, pubVars
<1>7. ASSUME NEW r \in Request, NowLoads(r)
      PROVE  UNCHANGED <<repo, drafts, discarded, posts>> /\ (usedOwn' = usedOwn \/ \E k : Mint(k))
  BY <1>7 DEF NowLoads
<1>8. CASE WriterActs
  BY <1>8
    DEF WriterActs, Unschedule, Edit, ScheduleChecks, DeleteDraft, PublishNow, PublishForm,
        pubVars
<1>9. QED
  BY <1>1, <1>2, <1>3, <1>4, <1>5, <1>6, <1>7, <1>8 DEF PubNext, Write, Serve

-----------------------------------------------------------------------------
(* Each pass is at work on its job, and each request at its place. *)

LEMMA PassAtWorkStep ==
  ASSUME PubInv, \A u \in Tick : PassAtWork(u), [PubNext]_allVars, NEW t \in Tick
  PROVE  PassAtWork(t)'
<1>0. /\ att \in [Proc -> Attempt \cup {NoAtt}] /\ pc \in [Tick -> PcState]
      /\ job \in [Tick -> ClaimedPost \cup {NoJob}]
      /\ t \in Proc /\ Tick \subseteq Proc /\ Request \subseteq Proc /\ t \notin Request
  BY ProcAssumption DEF PubInv, AttOK, TypeOK, Proc
<1>1. ASSUME Moves(t) PROVE PassAtWork(t)'
  <2>1. CASE Goes(t)
    <3>1. /\ pc'[t] \in {"publish", "landed"} /\ job'[t] = job[t]
      BY <1>0, <2>1 DEF Goes, PassAtWork, vars, passVars, Land
    <3>2. QED
      BY <2>1, <3>1 DEF Goes, PassAtWork
  <2>2. CASE Ends(t)
    BY <1>0, <2>2 DEF Ends, PassAtWork, Die, GoTo, Answer
  <2>3. CASE Claims(t)
    BY <1>0, <2>3 DEF Claims, Claim, PassAtWork
  <2>4. QED
    BY <1>0, <1>1, <2>1, <2>2, <2>3 DEF Moves, Begun, TakesOver, Loads, Forms
<1>2. ASSUME att'[t] = att[t], pc'[t] = pc[t], job'[t] = job[t] PROVE PassAtWork(t)'
  BY <1>2 DEF PassAtWork
<1>3. ASSUME NEW u \in Tick, PassStep(u) PROVE PassAtWork(t)'
  <2>1. att' = att
    BY <1>3 DEF PassStep, pubVars
  <2>2. CASE u = t
    <3>1. pc[t] \notin {"publish", "landed"} /\ pc'[t] \notin {"publish", "landed"}
      BY <1>0, <1>3, <2>2
        DEF PassStep, Fire, ReleaseStale, ReadDue, Contended, ClaimErrs, Report, GoTo
    <3>2. QED
      BY <2>1, <3>1 DEF PassAtWork
  <2>3. CASE u # t
    BY <1>0, <1>2, <1>3, <2>1, <2>3
      DEF PassStep, Fire, ReleaseStale, ReadDue, Contended, ClaimErrs, Report, GoTo
  <2>4. QED
    BY <2>2, <2>3
<1>4. ASSUME NEW u \in Tick, PassClaim(u) \/ PassDies(u) PROVE PassAtWork(t)'
  <2>1. CASE u = t
    BY <1>0, <1>1, <1>4, <2>1, DoneMoves, ClaimMoves DEF Only, PassDies
  <2>2. CASE u # t
    BY <1>0, <1>2, <1>4, <2>2 DEF PassClaim, PassDies, Claim, Die, GoTo
  <2>3. QED
    BY <2>1, <2>2
<1>5. ASSUME NEW p \in Proc, Only(p), p \in Tick => Goes(p) \/ Ends(p),
             p \notin Tick => UNCHANGED passVars
      PROVE  PassAtWork(t)'
  <2>1. CASE p = t
    BY <1>1, <1>5, <2>1 DEF Only
  <2>2. CASE p # t
    <3>1. att'[t] = att[t]
      BY <1>0, <1>5, <2>2 DEF Only
    <3>2. pc'[t] = pc[t] /\ job'[t] = job[t]
      BY <1>0, <1>5, <2>2 DEF Goes, Ends, vars, passVars, Land, Answer, Die, GoTo
    <3>3. QED
      BY <1>2, <3>1, <3>2
  <2>3. QED
    BY <2>1, <2>2
<1>6. ASSUME NEW p \in Proc, Write(p) PROVE PassAtWork(t)'
  <2>1. Only(p) /\ att[p] # NoAtt
    BY <1>6, WriteMoves
      DEF Write, Create, ReadBack, Replace, CleanDraft, CleanRows, AnnounceRead,
          AnnouncePost, AnnounceNote, Finish, At
  <2>2. p \in Tick => Goes(p) \/ Ends(p)
    <3>1. ~Claims(p)
      BY <2>1 DEF PassAtWork, Claims, Claim
    <3>2. QED
      BY <2>1, <3>1, ProcAssumption DEF Only, Moves, Begun, TakesOver, Loads, Forms
  <2>3. p \notin Tick => UNCHANGED passVars
    BY <1>6
      DEF Write, Create, ReadBack, Replace, CleanDraft, CleanRows, AnnounceRead,
          AnnouncePost, AnnounceNote, Finish, Done, Refused, Threw, Written, Step,
          NotCreated, ClearRows, CancelForDraft, vars
  <2>4. QED
    BY <1>5, <2>1, <2>2, <2>3
<1>7. ASSUME NEW u \in Tick, PublishDuePost(u) PROVE PassAtWork(t)'
  <2>1. Only(u)
    BY <1>7, PublisherMoves
  <2>2. ~Claims(u)
    BY <1>7
      DEF PublishDuePost, RestoreSession, ReadDraft, Probe, Resolve, At, PassAtWork, Claims,
          Claim
  <2>3. QED
    BY <1>0, <1>5, <2>1, <2>2, ProcAssumption DEF Only, Moves, Begun, TakesOver, Loads, Forms
<1>8. ASSUME NEW r \in Request, Serve(r) \/ RequestDies(r) PROVE PassAtWork(t)'
  <2>1. Only(r) /\ r \notin Tick
    BY <1>8, ServeMoves, ProcAssumption
  <2>2. UNCHANGED passVars
    BY <1>8, <2>1
      DEF Serve, RequestDies, ScheduleUpserts, DeleteDraftUnqueues, NowInFlight, NowLoads,
          Done, Step, ClearRows, CancelForDraft, Schedule, vars
  <2>3. QED
    BY <1>0, <1>5, <2>1, <2>2
<1>9. CASE WriterActs
  <2>1. UNCHANGED passVars
    BY <1>9
      DEF WriterActs, Unschedule, Edit, ScheduleChecks, DeleteDraft, PublishNow, PublishForm,
          Cancel, CancelForDraft, TakeOver, vars
  <2>2. att'[t] = att[t]
    BY <1>0, <1>9, WriterMoves DEF Only
  <2>3. QED
    BY <1>2, <2>1, <2>2 DEF passVars
<1>10. CASE UNCHANGED allVars \/ (Advance /\ UNCHANGED pubVars)
  BY <1>2, <1>10 DEF allVars, vars, pubVars, passVars, Advance
<1>11. QED
  BY <1>3, <1>4, <1>6, <1>7, <1>8, <1>9, <1>10 DEF PubNext

(* Only requests wait for a key, and they wait without one. *)
LEMMA PlacedStep ==
  ASSUME PubInv, [PubNext]_allVars, NEW p \in Proc, Placed(p)
  PROVE  Placed(p)'
<1>0. att \in [Proc -> Attempt \cup {NoAtt}]
  BY DEF PubInv, AttOK
<1>1. att'[p] = att[p] \/ Moves(p)
  BY <1>0, AttMoves DEF Only
<1>2. CASE att'[p] = att[p]
  BY <1>2 DEF Placed
<1>3. CASE Goes(p) \/ Ends(p)
  BY <1>3 DEF Goes, Ends, Placed, RequestPlaces
<1>4. CASE Begun(p)
  BY <1>4 DEF Begun, Placed
<1>5. CASE TakesOver(p)
  <2>1. \A d \in Draft : \A id \in UnclaimedOf(rows, d) : rows[id].rkey \in Key \cup {NoKey}
    BY RowsAreRows DEF UnclaimedOf, RowsOf, PubInv, TypeOK, Row
  <2>2. QED
    BY <1>5, <2>1 DEF TakesOver, Placed
<1>6. CASE Loads(p) \/ Forms(p) \/ Claims(p)
  BY <1>6 DEF Loads, Forms, Claims, Placed, RequestPlaces
<1>7. QED
  BY <1>1, <1>2, <1>3, <1>4, <1>5, <1>6 DEF Moves

-----------------------------------------------------------------------------
(* Whose a key is. *)

BaseInv == PubInv /\ LeaseInv /\ QueueKnown /\ AtWork

LEMMA BaseStep ==
  ASSUME BaseInv, [PubNext]_allVars
  PROVE  BaseInv' /\ [Next]_vars /\ KeyInv
<1>1. KeyInv /\ PubInv' /\ [Next]_vars
  BY PubStep DEF BaseInv, LeaseInv
<1>2. LeaseInv' /\ QueueKnown'
  BY <1>1, LeaseInvStep, QueueKnownStep DEF BaseInv
<1>3. AtWork'
  BY PassAtWorkStep, PlacedStep DEF BaseInv, AtWork
<1>4. QED
  BY <1>1, <1>2, <1>3 DEF BaseInv

LEMMA BaseInit == ASSUME PubInit PROVE BaseInv
<1>1. PubInv /\ LeaseInv
  BY InitPubInv, InitLeaseInv DEF PubInit
<1>2. QueueKnown
  BY DEF PubInit, Init, QueueKnown
<1>3. AtWork
  BY DEF PubInit, Init, AtWork, PassAtWork, Placed, Proc
<1>4. QED
  BY <1>1, <1>2, <1>3 DEF BaseInv

(* The keys minted, by claims and by requests. *)
Minted == usedKeys \cup usedOwn

RowHolds(k, d) == \E id \in RowId : Exists(rows, id) /\ rows[id].rkey = k /\ rows[id].draft = d

(* The same, of the table a step leaves. *)
RowHoldsNext(k, d) ==
  \E id \in RowId : Exists(rows', id) /\ rows'[id].rkey = k /\ rows'[id].draft = d

(* A record, a publisher or a row has the key, for that draft. *)
Holds(k, d) ==
  \/ repo[k] # NoRecord /\ repo[k].draft = d
  \/ \E p \in Proc : att[p] # NoAtt /\ att[p].rkey = k /\ att[p].draft = d
  \/ RowHolds(k, d)

(* A key is one draft's. *)
Owners ==
  \A k \in Rkey : \A d \in Draft :
    Holds(k, d) => k \in Minted /\ \A e \in Draft : Holds(k, e) => e = d

(* A key somebody has was had before the step, or was minted by it. *)
Fresh(k) == k \in (usedKeys' \cup usedOwn') \ Minted

(* The key of a row. *)
LEMMA RowHeld ==
  ASSUME BaseInv, [PubNext]_allVars, NEW k \in Rkey, NEW d \in Draft, RowHoldsNext(k, d)
  PROVE  RowHolds(k, d) \/ Fresh(k)
<1>1. PICK id \in RowId : Exists(rows', id) /\ rows'[id].rkey = k /\ rows'[id].draft = d
  BY DEF RowHoldsNext
<1>2. RowKept(id)
  BY <1>1, BaseStep, RowsMove
<1>3. k # NoKey
  BY NullAssumption, KeyAssumption DEF Rkey
<1>4. usedKeys' \subseteq Key /\ usedOwn \subseteq OwnKey
  BY BaseStep DEF BaseInv, PubInv, StoresOK, TypeOK
<1>5. QED
  BY <1>1, <1>2, <1>3, <1>4, KeyAssumption DEF RowKept, RowHolds, Fresh, Minted

(* The key of a publisher: it had it, or a row has it, or it was minted.    *)
LEMMA AttHeld ==
  ASSUME BaseInv, [PubNext]_allVars, NEW p \in Proc,
         att'[p] # NoAtt, att'[p].rkey # NoKey
  PROVE  \/ att[p] # NoAtt /\ att'[p].rkey = att[p].rkey /\ att'[p].draft = att[p].draft
         \/ RowHolds(att'[p].rkey, att'[p].draft)
         \/ RowHoldsNext(att'[p].rkey, att'[p].draft)
         \/ /\ Loads(p) \/ Forms(p)
            /\ att'[p].rkey \in OwnKey /\ Fresh(att'[p].rkey)
<1>0. att \in [Proc -> Attempt \cup {NoAtt}]
  BY DEF BaseInv, PubInv, AttOK
<1>1. att'[p] = att[p] \/ Moves(p)
  BY <1>0, AttMoves DEF Only, BaseInv
<1>2. CASE att'[p] = att[p] \/ Goes(p) \/ Ends(p) \/ Begun(p)
  BY <1>2 DEF Goes, Ends, Begun
<1>3. CASE TakesOver(p)
  BY <1>3 DEF TakesOver, UnclaimedOf, RowsOf, RowHolds
<1>4. ASSUME NEW rkey, rkey = NoKey, att'[p].rkey \in KeysFor(rkey), Mint(att'[p].rkey)
      PROVE  att'[p].rkey \in OwnKey /\ Fresh(att'[p].rkey)
  <2>1. att'[p].rkey \in OwnKey \ usedOwn
    BY <1>4 DEF KeysFor
  <2>2. att'[p].rkey \notin Key /\ usedKeys \subseteq Key
    BY <2>1, KeyAssumption DEF BaseInv, PubInv, TypeOK
  <2>3. att'[p].rkey \in usedOwn'
    BY <1>4, <2>2 DEF Mint
  <2>4. QED
    BY <2>1, <2>2, <2>3 DEF Fresh, Minted
<1>5. CASE Loads(p)
  BY <1>4, <1>5 DEF Loads, KeysFor
<1>6. CASE Forms(p)
  BY <1>4, <1>6 DEF Forms, KeysFor, RowsOf, RowHolds
<1>7. CASE Claims(p)
  <2>1. /\ queue \in [Tick -> Seq(DuePost)] /\ pc[p] = "claim"
        /\ Head(queue[p]) \in DuePost /\ Head(queue[p]) = queue[p][1] /\ 1 \in 1..Len(queue[p])
    <3>1. /\ queue \in [Tick -> Seq(DuePost)] /\ pc[p] = "claim"
          /\ queue[p] # <<>> /\ queue[p] \in Seq(DuePost)
      BY <1>7 DEF Claims, Claim, BaseInv, PubInv, TypeOK
    <3>2. QED
      BY <3>1
  <2> DEFINE post == Head(queue[p])
  <2>2. Known(post)
    BY <1>7, <2>1 DEF BaseInv, QueueKnown, Claims
  <2>3. KnownNext(post)
    BY <2>1, <2>2, BaseStep, KnownStays
  <2>4. /\ job \in [Tick -> ClaimedPost \cup {NoJob}] /\ p \in Tick
        /\ job'[p] = [id |-> post.id, draft |-> post.draft, announce |-> post.announce,
                      rkey |-> rows'[post.id].rkey, attempts |-> rows'[post.id].attempts]
    BY <1>7 DEF Claims, Claim, BaseInv, PubInv, TypeOK
  <2>5. att'[p].draft = post.draft /\ att'[p].rkey = rows'[post.id].rkey
    BY <1>7, <2>4 DEF Claims
  <2>6. post.id \in RowId /\ Exists(rows', post.id)
    <3>1. post.id \in RowId /\ passNow[p] \in Nat /\ rows \in Table /\ TypeOK
      BY <2>1, <2>4 DEF DuePost, BaseInv, PubInv, TypeOK
    <3>2. Claimable(rows, post.id) /\ TakeLease(post.id, passNow[p])
      BY <1>7 DEF Claims, Claim
    <3>3. QED
      BY <3>1, <3>2, TakeLeaseRows
  <2>7. QED
    BY <2>3, <2>5, <2>6 DEF KnownNext, RowHoldsNext
<1>8. QED
  BY <1>1, <1>2, <1>3, <1>5, <1>6, <1>7 DEF Moves

(* Three ways to hold a key after a step: as before it, as a row with a key *)
(* the step minted, as a request with one.                                  *)
LEMMA HeldFrom ==
  ASSUME BaseInv, [PubNext]_allVars, NEW k \in Rkey, NEW d \in Draft, Holds(k, d)'
  PROVE  \/ Holds(k, d)
         \/ Fresh(k) /\ RowHoldsNext(k, d)
         \/ \E r \in Proc : /\ Loads(r) \/ Forms(r)
                            /\ k \in OwnKey /\ Fresh(k)
                            /\ att'[r].rkey = k /\ att'[r].draft = d
<1>0. /\ repo \in [Rkey -> Record \cup {NoRecord}] /\ k # NoKey
      /\ \A p \in Proc : att[p] # NoAtt => att[p] \in Attempt /\ Ready(att[p])
  BY NullAssumption, KeyAssumption, AttemptUnderWay DEF BaseInv, PubInv, StoresOK, Rkey
<1>1. CASE RowHolds(k, d)'
  BY <1>1, RowHeld DEF RowHolds, RowHoldsNext, Holds, Exists
<1>2. CASE \E p \in Proc : att'[p] # NoAtt /\ att'[p].rkey = k /\ att'[p].draft = d
  <2>1. PICK p \in Proc : att'[p] # NoAtt /\ att'[p].rkey = k /\ att'[p].draft = d
    BY <1>2
  <2>2. RowHoldsNext(k, d) => RowHolds(k, d) \/ Fresh(k)
    BY RowHeld
  <2>3. QED
    BY <1>0, <2>1, <2>2, AttHeld DEF Holds
<1>3. CASE repo'[k] # NoRecord /\ repo'[k].draft = d
  <2>1. CASE repo' = repo
    BY <1>3, <2>1 DEF Holds
  <2>2. ASSUME NEW p \in Proc, Writes(p) PROVE Holds(k, d)
    <3>1. att[p] # NoAtt /\ att[p].at \in {"create", "replace", "note"} /\ att[p] \in Attempt
          /\ (att[p].at = "note" => att[p].seen \in Record)
      BY <1>0, <2>2 DEF Writes, Creates, Replaces, Notes, At, Ready, Attempt
    <3>2. CASE k # att[p].rkey
      <4>1. PICK rec : Put(p, rec)
        BY <2>2 DEF Writes, Creates, Replaces, Notes
      <4>2. repo'[k] = repo[k]
        BY <1>0, <3>2, <4>1 DEF Put
      <4>3. QED
        BY <1>3, <4>2 DEF Holds
    <3>3. CASE k = att[p].rkey /\ (Creates(p) \/ Replaces(p))
      <4>1. repo'[k].draft = att[p].draft
        BY <1>0, <3>3 DEF Creates, Replaces, Put, NewRecord
      <4>2. QED
        BY <1>3, <3>1, <3>3, <4>1 DEF Holds
    <3>4. CASE k = att[p].rkey /\ Notes(p)
      <4>1. repo[k] \in Record /\ repo'[k] = [repo[k] EXCEPT !.ref = TRUE]
        BY <1>0, <3>1, <3>4 DEF Notes, Put, At
      <4>2. repo'[k].draft = repo[k].draft
        BY <4>1 DEF Record
      <4>3. QED
        BY <1>3, <4>1, <4>2, NullRecordAssumption DEF Holds
    <3>5. QED
      BY <2>2, <3>2, <3>3, <3>4 DEF Writes
  <2>3. QED
    BY <2>1, <2>2, StoreMoves
<1>4. QED
  BY <1>1, <1>2, <1>3 DEF Holds

(* Keys stay minted. *)
LEMMA MintedGrows ==
  ASSUME BaseInv, [PubNext]_allVars
  PROVE  usedKeys \subseteq usedKeys' /\ usedOwn \subseteq usedOwn'
BY BaseStep, RowsMove, StoreMoves DEF Mint

LEMMA OwnersStep ==
  ASSUME BaseInv, Owners, [PubNext]_allVars
  PROVE  Owners'
<1>0. BaseInv' /\ att \in [Proc -> Attempt \cup {NoAtt}]
  BY BaseStep DEF BaseInv, PubInv, AttOK
<1> SUFFICES ASSUME NEW k \in Rkey, NEW d \in Draft, Holds(k, d)'
             PROVE  k \in Minted' /\ \A e \in Draft : Holds(k, e)' => e = d
  BY DEF Owners
<1>1. CASE k \in Minted
  <2>1. k \in Minted'
    BY <1>1, MintedGrows DEF Minted
  <2>2. \A e \in Draft : Holds(k, e)' => Holds(k, e)
    BY <1>1, HeldFrom DEF Fresh
  <2>3. QED
    BY <2>1, <2>2 DEF Owners
<1>2. CASE k \notin Minted
  <2> DEFINE ByRow(e) == RowHoldsNext(k, e)
             ByRequest(r, e) == /\ Loads(r) \/ Forms(r)
                                /\ k \in OwnKey
                                /\ att'[r].rkey = k /\ att'[r].draft = e
  <2>1. \A e \in Draft : ~Holds(k, e)
    BY <1>2 DEF Owners
  <2>2. \A e \in Draft : Holds(k, e)' => Fresh(k) /\ (ByRow(e) \/ \E r \in Proc : ByRequest(r, e))
    BY <2>1, HeldFrom
  <2>3. \A e, f \in Draft : ByRow(e) /\ ByRow(f) => e = f
    <3>1. \A i, j \in RowId : reserved'[i] # NoKey /\ reserved'[i] = reserved'[j] => i = j
      BY <1>0 DEF BaseInv, LeaseInv, KeyInv, OneKeyPerRow
    <3>2. \A i \in RowId : Exists(rows', i) => rows'[i].rkey = reserved'[i]
      BY <1>0 DEF BaseInv, LeaseInv, KeyInv, OneKeyPerRow, Exists
    <3>3. k # NoKey
      BY NullAssumption, KeyAssumption DEF Rkey
    <3>4. QED
      BY <3>1, <3>2, <3>3 DEF RowHoldsNext
  <2>4. ~\E r \in Proc, e, f \in Draft : ByRow(e) /\ ByRequest(r, f)
    <3>1. rows' \in Table
      BY <1>0 DEF BaseInv, PubInv, TypeOK
    <3>2. \A i \in RowId : Exists(rows', i) => rows'[i].rkey \in Key \cup {NoKey}
      BY <3>1, RowsAreRows DEF Row
    <3>3. QED
      BY <3>2, KeyAssumption DEF RowHoldsNext
  <2>5. \A r, s \in Proc, e, f \in Draft : ByRequest(r, e) /\ ByRequest(s, f) => r = s
    <3>1. ASSUME NEW r \in Proc, NEW e \in Draft, ByRequest(r, e) PROVE Only(r)
      <4>1. att'[r] # att[r]
        BY <2>1, <3>1 DEF Holds, Loads, Forms
      <4>2. QED
        BY <4>1, AttMoves DEF Only, BaseInv
    <3>2. ASSUME NEW r \in Proc, NEW e \in Draft, ByRequest(r, e) PROVE att'[r] # att[r]
      BY <2>1, <3>2 DEF Holds, Loads, Forms
    <3>3. QED
      BY <3>1, <3>2 DEF Only
  <2>6. k \in Minted'
    BY <2>2 DEF Fresh, Minted
  <2>7. QED
    BY <2>2, <2>3, <2>4, <2>5, <2>6
<1>3. QED
  BY <1>1, <1>2

-----------------------------------------------------------------------------
(* The words of a draft that is gone. *)

(* What publishing has put live stays live, and the draft's. *)
LEMMA RecordsStay ==
  ASSUME BaseInv, Owners, [PubNext]_allVars, NEW k \in Rkey, repo[k] # NoRecord
  PROVE  repo'[k] # NoRecord /\ repo'[k].draft = repo[k].draft
<1>0. /\ repo \in [Rkey -> Record \cup {NoRecord}] /\ repo' \in [Rkey -> Record \cup {NoRecord}]
      /\ repo[k] \in Record /\ repo[k].draft \in Draft
  BY BaseStep DEF BaseInv, PubInv, StoresOK, Record
<1>1. repo'[k] # NoRecord
  <2>1. CASE repo' = repo
    BY <2>1
  <2>2. ASSUME NEW p \in Proc, Writes(p) PROVE repo'[k] # NoRecord
    <3>1. /\ att[p] \in Attempt /\ att[p] # NoAtt /\ att[p].rkey \in Rkey
          /\ At(p, "note") \/ At(p, "replace") => att[p].seen \in Record
      BY <2>2, AttemptUnderWay
        DEF Writes, Creates, Replaces, Notes, At, Ready, Attempt, Rkey, BaseInv
    <3>2. PICK rec \in Record : Put(p, rec)
      <4>1. NewRecord(p, FALSE) \in Record
        BY <3>1, NewRecordType DEF BaseInv
      <4>2. CASE Replaces(p)
        <5>1. att[p].seen.ref \in BOOLEAN
          BY <3>1, <4>2 DEF Replaces, Record
        <5>2. NewRecord(p, att[p].seen.ref) \in Record
          BY <3>1, <5>1, NewRecordType DEF BaseInv
        <5>3. QED
          BY <4>2, <5>2 DEF Replaces
      <4>3. CASE Notes(p)
        <5>1. [att[p].seen EXCEPT !.ref = TRUE] \in Record
          BY <3>1, <4>3 DEF Notes, Record
        <5>2. QED
          BY <4>3, <5>1 DEF Notes
      <4>4. QED
        BY <2>2, <4>1, <4>2, <4>3 DEF Writes, Creates
    <3>3. QED
      BY <1>0, <3>1, <3>2, NullRecordAssumption DEF Put
  <2>3. QED
    BY <2>1, <2>2, StoreMoves
<1>2. repo'[k] \in Record /\ repo'[k].draft \in Draft
  BY <1>0, <1>1 DEF Record
<1>3. ASSUME NEW d \in Draft, d = repo'[k].draft PROVE d = repo[k].draft
  <2>1. Holds(k, d)'
    BY <1>1, <1>3 DEF Holds
  <2>2. Holds(k, repo[k].draft)
    BY DEF Holds
  <2>3. k \in Minted /\ ~Fresh(k)
    BY <1>0, <2>2 DEF Owners, Fresh
  <2>4. Holds(k, d)
    BY <2>1, <2>3, HeldFrom
  <2>5. QED
    BY <1>0, <2>2, <2>4 DEF Owners
<1>4. QED
  BY <1>1, <1>2, <1>3

(* A publisher cleans up once its record is live. *)
CleanLive == \A p \in Proc : At(p, "clean") => repo[att[p].rkey] # NoRecord

LEMMA CleanLiveStep ==
  ASSUME BaseInv, Owners, CleanLive, [PubNext]_allVars
  PROVE  CleanLive'
<1> SUFFICES ASSUME NEW p \in Proc, att'[p] # NoAtt, att'[p].at = "clean"
             PROVE  repo'[att'[p].rkey] # NoRecord
  BY DEF CleanLive, At
<1>0. \A k \in Rkey : repo[k] # NoRecord => repo'[k] # NoRecord
  BY RecordsStay
<1>1. att'[p] = att[p] \/ Moves(p)
  BY AttMoves DEF Only, BaseInv
<1>2. att[p] # NoAtt /\ att[p].at = "clean" => att[p].rkey \in Rkey
  BY AttemptUnderWay DEF BaseInv, Ready, Attempt, Rkey
<1>3. CASE att'[p] = att[p] \/ Goes(p)
  BY <1>0, <1>2, <1>3 DEF Goes, CleanLive, At
<1>4. QED
  BY <1>1, <1>3 DEF Moves, Ends, Begun, TakesOver, Loads, Forms, Claims

WordsInv == BaseInv /\ Owners /\ CleanLive /\ WordsKept

LEMMA WordsKeptStep ==
  ASSUME WordsInv, [PubNext]_allVars
  PROVE  WordsKept'
<1>0. /\ drafts \in [Draft -> Version \cup {Gone}] /\ drafts' \in [Draft -> Version \cup {Gone}]
      /\ discarded \in SUBSET Draft
  BY BaseStep DEF WordsInv, BaseInv, PubInv, StoresOK
<1> SUFFICES ASSUME NEW d \in Draft, drafts'[d] = Gone
             PROVE  RecordsOf(d)' # {} \/ d \in discarded'
  BY DEF WordsKept
<1>1. ASSUME RecordsOf(d) # {} PROVE RecordsOf(d)' # {}
  <2>1. PICK k \in Rkey : repo[k] # NoRecord /\ repo[k].draft = d
    BY <1>1 DEF RecordsOf
  <2>2. repo'[k] # NoRecord /\ repo'[k].draft = d
    BY <2>1, RecordsStay DEF WordsInv
  <2>3. QED
    BY <2>2 DEF RecordsOf
<1>2. CASE UNCHANGED <<drafts, discarded>>
  BY <1>1, <1>2 DEF WordsInv, WordsKept
<1>3. ASSUME NEW e \in Draft, Edit(e) PROVE RecordsOf(d)' # {} \/ d \in discarded'
  <2>1. discarded' = discarded /\ (drafts'[d] = drafts[d] \/ (d = e /\ drafts'[d] = drafts[d] + 1))
    BY <1>0, <1>3 DEF Edit
  <2>2. drafts[e] \in Nat /\ drafts[e] < MaxVersion
    BY <1>0, <1>3, NetBoundAssumption DEF Edit, Version
  <2>3. drafts[e] + 1 \in Version
    BY <2>2, NetBoundAssumption DEF Version
  <2>4. drafts'[d] = drafts[d]
    BY <2>1, <2>3, NullRecordAssumption
  <2>5. QED
    BY <1>1, <2>1, <2>4 DEF WordsInv, WordsKept
<1>4. ASSUME NEW p \in Proc, CleanDraft(p) PROVE RecordsOf(d)' # {} \/ d \in discarded'
  <2>1. /\ att[p] \in Attempt /\ att[p].rkey \in Rkey /\ att[p].draft \in Draft
        /\ att[p] # NoAtt /\ At(p, "clean")
    BY <1>4, AttemptUnderWay
      DEF CleanDraft, At, Ready, Attempt, Rkey, WordsInv, BaseInv
  <2>2. repo[att[p].rkey] # NoRecord /\ repo[att[p].rkey].draft \in Draft
    BY <2>1 DEF WordsInv, CleanLive, BaseInv, PubInv, StoresOK, Record
  <2>3. Holds(att[p].rkey, att[p].draft) /\ Holds(att[p].rkey, repo[att[p].rkey].draft)
    BY <2>1, <2>2 DEF Holds
  <2>4. repo[att[p].rkey].draft = att[p].draft
    BY <2>1, <2>2, <2>3 DEF Owners, WordsInv
  <2>5. RecordsOf(att[p].draft) # {}
    BY <2>1, <2>2, <2>4 DEF RecordsOf
  <2>6. discarded' = discarded /\ (drafts'[d] = drafts[d] \/ d = att[p].draft)
    BY <1>0, <1>4 DEF CleanDraft
  <2>7. QED
    BY <1>1, <2>5, <2>6 DEF WordsInv, WordsKept
<1>5. ASSUME NEW r \in Request, NEW e \in Draft, DeleteDraft(r, e)
      PROVE  RecordsOf(d)' # {} \/ d \in discarded'
  BY <1>0, <1>1, <1>5 DEF DeleteDraft, WordsInv, WordsKept
<1>6. QED
  BY <1>2, <1>3, <1>4, <1>5, StoreMoves

LEMMA WordsInvStep ==
  ASSUME WordsInv, [PubNext]_allVars
  PROVE  WordsInv'
BY BaseStep, OwnersStep, CleanLiveStep, WordsKeptStep DEF WordsInv

LEMMA WordsInvInit == ASSUME PubInit PROVE WordsInv
<1>1. /\ \A k \in Rkey, d \in Draft : ~Holds(k, d)
      /\ \A p \in Proc : att[p] = NoAtt
      /\ \A d \in Draft : drafts[d] = 0
  BY DEF PubInit, Init, Holds, RowHolds, Exists
<1>2. 0 # Gone
  BY NullRecordAssumption, NetBoundAssumption DEF Version
<1>3. QED
  BY <1>1, <1>2, BaseInit DEF WordsInv, Owners, CleanLive, At, WordsKept

(* Publishing completes a draft by deleting it, only once its words are     *)
(* live: a draft is gone only if a record holds its words, or the writer    *)
(* threw them away, through every fault, retry and overlap of publishers.   *)
THEOREM WordsKeptHolds == PubSpec => []WordsKept
<1>1. WordsInv => WordsKept
  BY DEF WordsInv
<1>2. WordsInv /\ [PubNext]_allVars => WordsInv'
  BY WordsInvStep
<1>3. QED
  BY <1>1, <1>2, WordsInvInit, PTL DEF PubSpec

-----------------------------------------------------------------------------
(* The row "Publish now" has released. *)

(* A pass's claim, as the job it starts. *)
LEMMA ClaimedJob ==
  ASSUME TypeOK, NEW t \in Tick, Claim(t)
  PROVE  /\ job'[t].id \in RowId /\ job'[t].rkey \in Key
         /\ Claimable(rows, job'[t].id)
         /\ Exists(rows', job'[t].id) /\ rows'[job'[t].id].rkey = job'[t].rkey
         /\ reserved' = [reserved EXCEPT ![job'[t].id] = job'[t].rkey]
         /\ ~InFlight(t)
<1> DEFINE id == Head(queue[t]).id
<1>1. id \in RowId /\ passNow[t] \in Nat
  BY QueueHead DEF Claim, DuePost, TypeOK
<1>2. Claimable(rows, id) /\ TakeLease(id, passNow[t])
  BY DEF Claim
<1>3. job'[t].id = id /\ job'[t].rkey = rows'[id].rkey /\ ~InFlight(t)
  BY DEF Claim, TypeOK, InFlight
<1> HIDE DEF id
<1>4. /\ rows'[id].rkey \in Key /\ Exists(rows', id)
      /\ reserved' = [reserved EXCEPT ![id] = rows'[id].rkey]
  BY <1>1, <1>2, TakeLeaseRows
<1>5. QED
  BY <1>1, <1>2, <1>3, <1>4

(* A pass at work was at it before the step, or claimed its row. *)
LEMMA JobsMove ==
  ASSUME TypeOK, [Next]_vars, NEW t \in Tick, InFlight(t)'
  PROVE  (InFlight(t) /\ job'[t] = job[t]) \/ Claim(t)
<1>1. CASE Writer
  BY <1>1 DEF Writer, Schedule, Cancel, CancelForDraft, TakeOver, passVars, InFlight
<1>2. CASE Advance \/ UNCHANGED vars
  BY <1>2 DEF Advance, vars, passVars, InFlight
<1>3. ASSUME NEW u \in Tick, u # t, Fire(u) \/ Pass(u) \/ Die(u)
      PROVE  UNCHANGED <<pc[t], job[t]>>
  BY <1>3
    DEF TypeOK, Fire, Pass, Die, ReleaseStale, ReadDue, Claim, Contended, ClaimErrs, Publish,
        Land, Answer, Report, GoTo
<1>4. CASE Fire(t) \/ ReleaseStale(t) \/ ReadDue(t) \/ Contended(t) \/ ClaimErrs(t) \/ Report(t)
           \/ Die(t)
  <2>1. pc'[t] \notin {"publish", "landed", "report"}
    BY <1>4 DEF TypeOK, Fire, Die, ReleaseStale, ReadDue, Contended, ClaimErrs, Report, GoTo
  <2>2. QED
    BY <2>1 DEF InFlight
<1>5. CASE Publish(t)
  BY <1>5 DEF Publish, Land, Answer, InFlight
<1>6. QED
  BY <1>1, <1>2, <1>3, <1>4, <1>5 DEF Next, Pass, InFlight

NobodysRow(k) == \A id \in RowId : Exists(rows, id) => rows[id].rkey # k
MovedOnly(k) == \A t \in Tick : InFlight(t) /\ job[t].rkey = k => job[t].id \in torn

(* A key that no row has, and under which passes work only on moved rows,   *)
(* stays so: no row gets a key that was minted before.                      *)
LEMMA NobodysStays ==
  ASSUME BaseInv, [PubNext]_allVars, NEW k \in Key, k \in usedKeys,
         NobodysRow(k), MovedOnly(k)
  PROVE  NobodysRow(k)' /\ MovedOnly(k)'
<1>0. KeyInv /\ [Next]_vars /\ TypeOK /\ k # NoKey
  BY BaseStep, NullAssumption DEF KeyInv
<1>1. NobodysRow(k)'
  <2>1. \A id \in RowId : Exists(rows', id) => rows'[id].rkey # k
    BY <1>0, RowsMove DEF RowKept, NobodysRow
  <2>2. QED
    BY <2>1 DEF NobodysRow, Exists
<1>2. ASSUME NEW t \in Tick, InFlight(t)', job'[t].rkey = k PROVE job'[t].id \in torn'
  <2>1. CASE InFlight(t) /\ job'[t] = job[t]
    BY <1>0, <1>2, <2>1, RowsMove DEF MovedOnly
  <2>2. CASE Claim(t)
    <3>1. /\ job'[t].id \in RowId /\ rows'[job'[t].id] # NoRow
          /\ rows'[job'[t].id].rkey = job'[t].rkey
      BY <1>0, <2>2, ClaimedJob DEF Exists
    <3>2. QED
      BY <1>1, <1>2, <3>1 DEF NobodysRow, Exists
  <2>3. QED
    BY <1>0, <1>2, <2>1, <2>2, JobsMove
<1>3. QED
  BY <1>1, <1>2 DEF MovedOnly

(* A request with a row's key: released to "Publish now", as long as no     *)
(* editor publishes under the key of a row that stays.                      *)
Released(r) ==
  att[r] # NoAtt /\ att[r].rkey \in Key /\ (att[r].at = "load" \/ "publishForm" \notin Ops)

ReleasedKeys ==
  \A r \in Request : Released(r) => NobodysRow(att[r].rkey) /\ MovedOnly(att[r].rkey)

(* The same, for a key that does not change with the state. *)
LEMMA ReleasedAt ==
  ASSUME \A r \in Request : \A k \in Key :
           Released(r)' /\ att'[r].rkey = k => NobodysRow(k)' /\ MovedOnly(k)'
  PROVE  ReleasedKeys'
BY DEF ReleasedKeys, Released, NobodysRow, MovedOnly

LEMMA ReleasedKeysStep ==
  ASSUME BaseInv, Owners, ReleasedKeys, [PubNext]_allVars
  PROVE  ReleasedKeys'
<1> SUFFICES ASSUME NEW r \in Request, NEW k \in Key, Released(r)', att'[r].rkey = k
             PROVE  NobodysRow(k)' /\ MovedOnly(k)'
  BY ReleasedAt
<1>0. /\ r \in Proc /\ r \notin Tick /\ k # NoKey /\ k \notin OwnKey /\ k \in Rkey
      /\ att'[r] # NoAtt /\ (att'[r].at = "load" \/ "publishForm" \notin Ops)
      /\ KeyInv /\ LeaseInv /\ TypeOK /\ [Next]_vars /\ Placed(r)
  BY BaseStep, ProcAssumption, NullAssumption, KeyAssumption
    DEF Proc, Released, BaseInv, KeyInv, AtWork, Rkey
<1>1. ASSUME att[r] # NoAtt, att[r].rkey = k, att[r].at = "load" \/ "publishForm" \notin Ops
      PROVE  NobodysRow(k)' /\ MovedOnly(k)'
  <2>1. NobodysRow(k) /\ MovedOnly(k)
    BY <1>1 DEF ReleasedKeys, Released
  <2>2. att[r].draft \in Draft
    BY <1>0, <1>1, AttemptUnderWay DEF BaseInv, Attempt
  <2>3. k \in Minted /\ usedOwn \subseteq OwnKey
    BY <1>0, <1>1, <2>2 DEF Owners, Holds, BaseInv, PubInv, StoresOK
  <2>4. k \in usedKeys
    BY <1>0, <2>3 DEF Minted
  <2>5. QED
    BY <2>1, <2>4, NobodysStays
<1>2. att'[r] = att[r] \/ Moves(r)
  BY <1>0, AttMoves DEF Only, BaseInv
<1>3. CASE att'[r] = att[r]
  BY <1>0, <1>1, <1>3
<1>4. CASE Goes(r)
  <2>1. CASE att'[r].at = "load"
    BY <1>0, <1>4, <2>1 DEF Goes, Placed, RequestPlaces
  <2>2. CASE "publishForm" \notin Ops
    BY <1>1, <1>4, <2>2 DEF Goes
  <2>3. QED
    BY <1>0, <2>1, <2>2
<1>5. CASE Loads(r)
  <2>1. att[r].rkey # NoKey /\ att[r].rkey = k /\ att[r].at = "load"
    BY <1>0, <1>5 DEF Loads, KeysFor
  <2>2. QED
    BY <1>1, <1>5, <2>1 DEF Loads
<1>6. CASE TakesOver(r)
  <2>a. PICK d \in Draft : \E id \in UnclaimedOf(rows, d) : TakeOver(d) /\ rows[id].rkey = k
    BY <1>6 DEF TakesOver
  <2>1. PICK id \in UnclaimedOf(rows, d) : TakeOver(d) /\ rows[id].rkey = k
    BY <2>a
  <2>2. /\ id \in RowId /\ Exists(rows, id) /\ rows[id].claimedAt = NoTime
        /\ reserved[id] = k
    BY <1>0, <2>1 DEF UnclaimedOf, RowsOf, KeyInv, OneKeyPerRow
  <2>3. \A i \in RowId : Exists(rows', i) => Exists(rows, i) /\ rows'[i] = rows[i] /\ i # id
    BY <1>0, <2>1, <2>2, NoRowAssumption
      DEF TakeOver, DeleteUnclaimedSchedulesForDraft, DeleteRows, Exists
  <2>4. \A i \in RowId : reserved[i] = k => i = id
    BY <1>0, <2>2 DEF KeyInv, OneKeyPerRow
  <2>5. NobodysRow(k)'
    <3>1. \A i \in RowId : rows'[i] # NoRow => rows'[i].rkey # k
      BY <1>0, <2>3, <2>4 DEF KeyInv, OneKeyPerRow, Exists
    <3>2. QED
      BY <3>1 DEF NobodysRow, Exists
  <2>6. UNCHANGED <<pc, job, torn>>
    BY <2>1 DEF TakeOver, passVars, histVars
  <2>7. MovedOnly(k)
    <3> SUFFICES ASSUME NEW t \in Tick, InFlight(t), job[t].rkey = k, job[t].id \notin torn
                 PROVE  FALSE
      BY DEF MovedOnly
    <3>1. job[t].id \in RowId /\ (Exists(rows, job[t].id) => Claimed(rows, job[t].id))
      BY <1>0, HeldIsHeld
    <3>2. job[t].id = id
      BY <1>0, <2>4, <3>1 DEF KeyInv, OneKeyPerRow
    <3>3. QED
      BY <2>2, <3>1, <3>2 DEF Claimed
  <2>8. MovedOnly(k)'
    BY <2>6, <2>7 DEF MovedOnly, InFlight
  <2>9. QED
    BY <2>5, <2>8
<1>7. CASE Forms(r) \/ Begun(r) \/ Ends(r) \/ Claims(r)
  BY <1>0, <1>7 DEF Forms, Begun, Ends, Claims
<1>8. QED
  BY <1>2, <1>3, <1>4, <1>5, <1>6, <1>7 DEF Moves

ReleasedInv == BaseInv /\ Owners /\ ReleasedKeys

(* "A returned row means the caller owns the publish": a request that is    *)
(* about to publish under the key of a row it released is alone with that   *)
(* row, but for a pass whose row the writer moved while it was held.        *)
THEOREM ReleasedIsOwnedHolds == PubSpec => []ReleasedIsOwned
<1>1. ReleasedInv => ReleasedIsOwned
  <2> SUFFICES ASSUME ReleasedInv, NEW r \in Request, NEW t \in Tick, At(r, "load"),
                      att[r].fixed, InFlight(t), job[t].rkey = att[r].rkey
               PROVE  job[t].id \in torn
    BY DEF ReleasedIsOwned
  <2>1. job[t].rkey \in Key
    BY DEF ReleasedInv, BaseInv, PubInv, TypeOK, ClaimedPost
  <2>2. QED
    BY <2>1 DEF ReleasedInv, ReleasedKeys, Released, MovedOnly, At
<1>2. ReleasedInv /\ [PubNext]_allVars => ReleasedInv'
  BY BaseStep, OwnersStep, ReleasedKeysStep DEF ReleasedInv
<1>3. PubInit => ReleasedInv
  <2>1. ASSUME PubInit PROVE \A p \in Proc : att[p] = NoAtt
    BY <2>1 DEF PubInit
  <2>2. QED
    BY <2>1, WordsInvInit DEF ReleasedInv, WordsInv, ReleasedKeys, Released, Proc
<1>4. QED
  BY <1>1, <1>2, <1>3, PTL DEF PubSpec

-----------------------------------------------------------------------------
(* One publisher at a time under a key. *)

(* No editor publishes: the writer publishes with "Publish now" alone. *)
NoForm == "publishForm" \notin Ops

(* Requests never share a key. *)
OwnKeys ==
  \A r, s \in Request :
    r # s /\ att[r] # NoAtt /\ att[s] # NoAtt /\ att[r].rkey # NoKey =>
      att[r].rkey # att[s].rkey

AloneInv == ReleasedInv /\ OwnKeys

(* The key a request comes by is not one another request has. *)
LEMMA KeyNotTaken ==
  ASSUME NoForm, AloneInv, [PubNext]_allVars, NEW p \in Request, NEW q \in Request, p # q,
         att'[p] # NoAtt, att'[q] # NoAtt, att'[q] = att[q],
         att'[p].rkey = att[q].rkey, att[q].rkey # NoKey
  PROVE  FALSE
<1>0. /\ BaseInv /\ Owners /\ ReleasedKeys /\ OwnKeys /\ ReleasedKeys' /\ BaseInv'
      /\ p \in Proc /\ q \in Proc
  BY BaseStep, ReleasedKeysStep DEF AloneInv, ReleasedInv, Proc
<1>1. att[q] \in Attempt /\ att[q].rkey \in Rkey /\ att[q].draft \in Draft
  BY <1>0, AttemptUnderWay DEF BaseInv, Attempt, Rkey
<1>2. CASE att[p] # NoAtt /\ att'[p].rkey = att[p].rkey
  BY <1>0, <1>2 DEF OwnKeys
<1>3. CASE RowHolds(att'[p].rkey, att'[p].draft)
  <2>1. PICK id \in RowId : Exists(rows, id) /\ rows[id].rkey = att[q].rkey
    BY <1>3 DEF RowHolds
  <2>2. att[q].rkey \in Key
    BY <1>0, <2>1, RowsAreRows DEF Row, BaseInv, PubInv, TypeOK
  <2>3. QED
    BY <1>0, <2>1, <2>2 DEF ReleasedKeys, Released, NobodysRow, NoForm
<1>4. CASE RowHoldsNext(att'[p].rkey, att'[p].draft)
  <2>1. PICK id \in RowId : Exists(rows', id) /\ rows'[id].rkey = att[q].rkey
    BY <1>4 DEF RowHoldsNext
  <2>2. att[q].rkey \in Key
    BY <1>0, <2>1, RowsAreRows DEF Row, BaseInv, PubInv, TypeOK
  <2>3. QED
    BY <1>0, <2>1, <2>2 DEF ReleasedKeys, Released, NobodysRow, NoForm, Exists
<1>5. CASE Fresh(att'[p].rkey)
  BY <1>0, <1>1, <1>5 DEF Fresh, Owners, Holds
<1>6. QED
  BY <1>0, <1>2, <1>3, <1>4, <1>5, AttHeld

LEMMA OwnKeysStep ==
  ASSUME NoForm, AloneInv, [PubNext]_allVars
  PROVE  OwnKeys'
<1> SUFFICES ASSUME NEW r \in Request, NEW s \in Request, r # s, att'[r] # NoAtt,
                    att'[s] # NoAtt, att'[r].rkey # NoKey, att'[r].rkey = att'[s].rkey
             PROVE  FALSE
  BY DEF OwnKeys
<1>0. r \in Proc /\ s \in Proc /\ PubInv
  BY DEF Proc, AloneInv, ReleasedInv, BaseInv
<1>1. att'[r] = att[r] \/ att'[s] = att[s]
  BY <1>0, AttMoves DEF Only
<1>2. QED
  BY <1>1, KeyNotTaken

LEMMA AloneInvStep ==
  ASSUME NoForm, AloneInv, [PubNext]_allVars
  PROVE  AloneInv'
BY BaseStep, OwnersStep, ReleasedKeysStep, OwnKeysStep DEF AloneInv, ReleasedInv

LEMMA AloneInvInit == ASSUME PubInit PROVE AloneInv
<1>1. \A p \in Proc : att[p] = NoAtt
  BY DEF PubInit
<1>2. QED
  BY <1>1, WordsInvInit
    DEF AloneInv, OwnKeys, ReleasedInv, WordsInv, ReleasedKeys, Released, Proc

(* While a pass works on a row the writer has not moved, nobody else        *)
(* publishes under its key.                                                 *)
LEMMA Alone ==
  ASSUME NoForm, AloneInv, NEW t \in Tick, InFlight(t), job[t].id \notin torn,
         NEW q \in Proc \ {t}, att[q] # NoAtt
  PROVE  att[q].rkey # job[t].rkey
<1> SUFFICES ASSUME att[q].rkey = job[t].rkey
             PROVE  FALSE
  OBVIOUS
<1>0. BaseInv /\ LeaseInv /\ KeyInv /\ TypeOK /\ ReleasedKeys /\ AtWork
  BY DEF AloneInv, ReleasedInv, BaseInv, LeaseInv, KeyInv
<1>1. job[t] \in ClaimedPost /\ job[t].rkey \in Key /\ job[t].id \in RowId
  BY <1>0 DEF TypeOK, ClaimedPost
<1>2. CASE q \in Request
  BY <1>0, <1>1, <1>2 DEF ReleasedKeys, Released, MovedOnly, NoForm
<1>3. CASE q \in Tick
  <2>1. InFlight(q) /\ job[q].rkey = job[t].rkey
    BY <1>0, <1>3 DEF AtWork, PassAtWork, InFlight
  <2>2. /\ reserved[job[q].id] = reserved[job[t].id] /\ reserved[job[t].id] # NoKey
        /\ job[q].id \in RowId
    BY <1>0, <1>1, <1>3, <2>1, NullAssumption DEF KeyInv, OneKeyPerRow, TypeOK, ClaimedPost
  <2>3. job[q].id = job[t].id
    BY <1>0, <1>1, <2>2 DEF KeyInv, OneKeyPerRow
  <2>4. QED
    BY <1>0, <1>3, <2>1, <2>3 DEF LeaseInv, LeaseExclusive
<1>4. QED
  BY <1>2, <1>3 DEF Proc

(* With no row moved while held, a key has one publisher. *)
LEMMA OnePublisher ==
  ASSUME NoForm, AloneInv, torn = {}, NEW p \in Proc, NEW q \in Proc, p # q,
         att[p] # NoAtt, att[q] # NoAtt, att[p].rkey # NoKey
  PROVE  att[p].rkey # att[q].rkey
<1>1. ASSUME NEW u \in Tick, NEW v \in Proc \ {u}, att[u] # NoAtt, att[v] # NoAtt
      PROVE  att[u].rkey # att[v].rkey
  <2>1. InFlight(u) /\ att[u].rkey = job[u].rkey
    BY <1>1 DEF AloneInv, ReleasedInv, BaseInv, AtWork, PassAtWork, InFlight
  <2>2. QED
    BY <1>1, <2>1, Alone
<1>2. CASE p \in Request /\ q \in Request
  BY <1>2 DEF AloneInv, OwnKeys
<1>3. QED
  BY <1>1, <1>2 DEF Proc

-----------------------------------------------------------------------------
(* The saves of a draft. *)

(* A draft's saves only grow, until it is gone. *)
LEMMA SavesGrow ==
  ASSUME PubInv, [PubNext]_allVars, NEW d \in Draft, drafts'[d] # Gone
  PROVE  /\ drafts[d] # Gone /\ drafts[d] \in Nat
         /\ drafts'[d] \in Nat /\ drafts[d] <= drafts'[d]
<1>0. drafts \in [Draft -> Version \cup {Gone}] /\ Version \subseteq Nat
  BY NetBoundAssumption DEF PubInv, StoresOK, Version
<1>1. ASSUME NEW e \in Draft, Edit(e)
      PROVE  drafts[d] # Gone /\ (drafts'[d] = drafts[d] \/ drafts'[d] = drafts[d] + 1)
  <2>1. drafts[e] # Gone /\ drafts' = [drafts EXCEPT ![e] = drafts[e] + 1]
    BY <1>1 DEF Edit
  <2>2. CASE d = e
    BY <1>0, <2>1, <2>2
  <2>3. CASE d # e
    BY <1>0, <2>1, <2>3
  <2>4. QED
    BY <2>2, <2>3
<1>2. ASSUME NEW p \in Proc, CleanDraft(p) PROVE drafts'[d] = drafts[d]
  BY <1>0, <1>2 DEF CleanDraft
<1>3. ASSUME NEW r \in Request, NEW e \in Draft, DeleteDraft(r, e) PROVE drafts'[d] = drafts[d]
  BY <1>0, <1>3 DEF DeleteDraft
<1>4. drafts'[d] = drafts[d] \/ \E e \in Draft : Edit(e)
  <2>1. \/ drafts' = drafts
        \/ \E e \in Draft : Edit(e)
        \/ \E p \in Proc : CleanDraft(p)
        \/ \E r \in Request, e \in Draft : DeleteDraft(r, e)
    BY StoreMoves
  <2>2. QED
    BY <1>2, <1>3, <2>1
<1>5. drafts[d] # Gone /\ (drafts'[d] = drafts[d] \/ drafts'[d] = drafts[d] + 1)
  BY <1>1, <1>4
<1>6. drafts[d] \in Nat
  BY <1>0, <1>5
<1>7. QED
  BY <1>5, <1>6

Reading(p) == att[p] # NoAtt /\ att[p].at \in ReadPlaces

(* What is published, or about to be, is a save the draft has had. *)
SavesOf ==
  /\ \A k \in Rkey :
       repo[k] # NoRecord /\ drafts[repo[k].draft] # Gone => repo[k].ver <= drafts[repo[k].draft]
  /\ \A p \in Proc :
       Reading(p) /\ drafts[att[p].draft] # Gone => att[p].ver <= drafts[att[p].draft]

(* What a write of a record leaves: the publisher's save, or the one there. *)
LEMMA WriteLeaves ==
  ASSUME BaseInv, NEW p \in Proc, Writes(p)
  PROVE  /\ att[p] # NoAtt /\ att[p] \in Attempt /\ att[p].rkey \in Rkey
         /\ \A k \in Rkey \ {att[p].rkey} : repo'[k] = repo[k]
         /\ Creates(p) => repo[att[p].rkey] = NoRecord
         /\ Creates(p) \/ Replaces(p) =>
              /\ att[p].at \in ReadPlaces
              /\ repo'[att[p].rkey].ver = att[p].ver
              /\ repo'[att[p].rkey].draft = att[p].draft
         /\ Notes(p) =>
              /\ att[p].at = "note" /\ repo[att[p].rkey] # NoRecord
              /\ repo'[att[p].rkey].ver = repo[att[p].rkey].ver
              /\ repo'[att[p].rkey].draft = repo[att[p].rkey].draft
<1>1. /\ att[p] # NoAtt /\ att[p] \in Attempt /\ att[p].rkey \in Rkey
      /\ att[p].at = "note" => att[p].seen \in Record
      /\ repo \in [Rkey -> Record \cup {NoRecord}]
  BY AttemptUnderWay
    DEF Writes, Creates, Replaces, Notes, At, Ready, Attempt, BaseInv, PubInv, StoresOK
<1>2. PICK rec : Put(p, rec)
  BY DEF Writes, Creates, Replaces, Notes
<1>3. \A k \in Rkey \ {att[p].rkey} : repo'[k] = repo[k]
  BY <1>1, <1>2 DEF Put
<1>4. ASSUME Creates(p) \/ Replaces(p)
      PROVE  /\ att[p].at \in ReadPlaces
             /\ repo'[att[p].rkey].ver = att[p].ver
             /\ repo'[att[p].rkey].draft = att[p].draft
  BY <1>1, <1>4 DEF Creates, Replaces, Put, NewRecord, At, ReadPlaces
<1>5. ASSUME Notes(p)
      PROVE  /\ att[p].at = "note" /\ repo[att[p].rkey] # NoRecord
             /\ repo'[att[p].rkey].ver = repo[att[p].rkey].ver
             /\ repo'[att[p].rkey].draft = repo[att[p].rkey].draft
  <2>1. att[p].at = "note" /\ repo[att[p].rkey] \in Record
    BY <1>1, <1>5 DEF Notes, At
  <2>2. repo'[att[p].rkey] = [repo[att[p].rkey] EXCEPT !.ref = TRUE]
    BY <1>1, <1>5 DEF Notes, Put
  <2>3. QED
    BY <2>1, <2>2, NullRecordAssumption DEF Record
<1>6. QED
  BY <1>1, <1>3, <1>4, <1>5 DEF Creates

(* A publisher that reads had read before, or reads the draft's last save.  *)
LEMMA ReadingFrom ==
  ASSUME BaseInv, [PubNext]_allVars, NEW p \in Proc, att'[p] # NoAtt, att'[p].at \in ReadPlaces
  PROVE  \/ Reading(p) /\ att'[p].ver = att[p].ver /\ att'[p].rkey = att[p].rkey
            /\ att'[p].draft = att[p].draft
         \/ att'[p].ver = drafts[att'[p].draft] /\ drafts[att'[p].draft] # Gone
            /\ UNCHANGED <<drafts, repo>>
<1>1. att'[p] = att[p] \/ Moves(p)
  BY AttMoves DEF Only, BaseInv
<1>2. CASE att'[p] = att[p] \/ Goes(p)
  BY <1>2 DEF Goes, Reading
<1>3. CASE Loads(p) \/ Forms(p)
  BY <1>3 DEF Loads, Forms
<1>4. QED
  BY <1>1, <1>2, <1>3 DEF Moves, Ends, Begun, TakesOver, Claims, ReadPlaces

LEMMA SavesOfStep ==
  ASSUME BaseInv, Owners, SavesOf, [PubNext]_allVars
  PROVE  SavesOf'
<1>0. /\ PubInv /\ BaseInv'
      /\ repo' \in [Rkey -> Record \cup {NoRecord}]
      /\ \A p \in Proc : att'[p] # NoAtt => att'[p].draft \in Draft
      /\ Version \subseteq Nat
  BY BaseStep, NetBoundAssumption
    DEF BaseInv, PubInv, StoresOK, AttOK, Attempt, Version
<1>1. ASSUME NEW d \in Draft, NEW n \in Nat, drafts[d] # Gone => n <= drafts[d], drafts'[d] # Gone
      PROVE  n <= drafts'[d]
  BY <1>0, <1>1, SavesGrow
<1>2. ASSUME NEW p \in Proc, Reading(p)', drafts'[att'[p].draft] # Gone
      PROVE  att'[p].ver <= drafts'[att'[p].draft]
  <2>1. att'[p] \in Attempt /\ att'[p].draft \in Draft /\ att'[p].ver \in Nat
    BY <1>0, <1>2, AttemptUnderWay DEF BaseInv, PubInv, AttOK, Attempt, Reading
  <2>2. CASE Reading(p) /\ att'[p].ver = att[p].ver /\ att'[p].draft = att[p].draft
    BY <1>1, <1>2, <2>1, <2>2 DEF SavesOf
  <2>3. CASE att'[p].ver = drafts[att'[p].draft] /\ UNCHANGED drafts
    BY <2>1, <2>3
  <2>4. QED
    BY <1>2, <2>2, <2>3, ReadingFrom DEF Reading
<1>3. ASSUME NEW k \in Rkey, repo'[k] # NoRecord, drafts'[repo'[k].draft] # Gone
      PROVE  repo'[k].ver <= drafts'[repo'[k].draft]
  <2>1. repo'[k].draft \in Draft /\ repo'[k].ver \in Nat
    BY <1>0, <1>3 DEF Record
  <2>2. CASE repo'[k] = repo[k]
    BY <1>1, <1>3, <2>1, <2>2 DEF SavesOf
  <2>3. ASSUME NEW p \in Proc, Writes(p), k = att[p].rkey
        PROVE  repo'[k].ver <= drafts'[repo'[k].draft]
    <3>1. CASE Creates(p) \/ Replaces(p)
      BY <1>1, <1>3, <2>1, <2>3, <3>1, WriteLeaves DEF SavesOf, Reading
    <3>2. CASE Notes(p)
      BY <1>1, <1>3, <2>1, <2>3, <3>2, WriteLeaves DEF SavesOf
    <3>3. QED
      BY <2>3, <3>1, <3>2 DEF Writes
  <2>4. QED
    BY <2>2, <2>3, StoreMoves, WriteLeaves
<1>4. QED
  BY <1>2, <1>3 DEF SavesOf

(* The record under a publisher's key changes by its own hand only. *)
LEMMA OthersKeep ==
  ASSUME NoForm, AloneInv, torn = {}, [PubNext]_allVars, NEW p \in Proc, att[p] # NoAtt,
         att[p].rkey \in Rkey
  PROVE  repo'[att[p].rkey] = repo[att[p].rkey] \/ Writes(p)
<1>0. BaseInv /\ NoKey \notin Rkey
  BY NullAssumption, KeyAssumption DEF AloneInv, ReleasedInv, Rkey
<1>1. ASSUME NEW q \in Proc, Writes(q), q # p PROVE repo'[att[p].rkey] = repo[att[p].rkey]
  BY <1>0, <1>1, WriteLeaves, OnePublisher
<1>2. QED
  BY <1>1, StoreMoves

(* No record is newer than what a publisher read to write over it. *)
NewerSave ==
  torn = {} =>
    \A p \in Proc :
      Reading(p) /\ repo[att[p].rkey] # NoRecord => repo[att[p].rkey].ver <= att[p].ver

(* A publisher that is about to post saw a record that notes no post, and   *)
(* the record still does.                                                   *)
Unnoted ==
  torn = {} =>
    \A p \in Proc : At(p, "post") => repo[att[p].rkey] # NoRecord /\ ~repo[att[p].rkey].ref

SavesInv == AloneInv /\ SavesOf /\ NewerSave /\ Unnoted

LEMMA NewerSaveStep ==
  ASSUME NoForm, SavesInv, [PubNext]_allVars
  PROVE  NewerSave'
<1> SUFFICES ASSUME torn' = {}, NEW p \in Proc, NEW k, att'[p].rkey = k, att'[p] # NoAtt,
                    att'[p].at \in ReadPlaces, repo'[k] # NoRecord
             PROVE  repo'[k].ver <= att'[p].ver
  BY DEF NewerSave, Reading
<1>0. /\ BaseInv /\ BaseInv' /\ Owners /\ Owners' /\ AloneInv /\ PubInv /\ PubInv' /\ torn = {}
  BY BaseStep, OwnersStep, RowsMove DEF SavesInv, AloneInv, ReleasedInv, BaseInv
<1>1. att'[p] \in Attempt /\ k \in Rkey /\ att'[p].ver \in Nat
  BY <1>0, NetBoundAssumption DEF PubInv, AttOK, Ready, Attempt, Rkey, ReadPlaces, Version
<1>2. CASE Reading(p) /\ att'[p].ver = att[p].ver /\ att'[p].rkey = att[p].rkey
  <2>1. CASE repo'[k] = repo[k]
    BY <1>0, <1>2, <2>1 DEF SavesInv, NewerSave
  <2>2. CASE Writes(p)
    <3>1. ~Notes(p)
      BY <1>0, <1>2, <2>2, WriteLeaves DEF Reading, ReadPlaces
    <3>2. repo'[k].ver = att'[p].ver
      BY <1>0, <1>2, <2>2, <3>1, WriteLeaves DEF Writes
    <3>3. QED
      BY <1>1, <3>2
  <2>3. QED
    BY <1>0, <1>1, <1>2, <2>1, <2>2, OthersKeep DEF Reading
<1>3. CASE /\ att'[p].ver = drafts[att'[p].draft] /\ drafts[att'[p].draft] # Gone
           /\ UNCHANGED <<drafts, repo>>
  <2>1. repo'[k].draft \in Draft /\ att'[p].draft \in Draft
    BY <1>0, <1>1 DEF PubInv, StoresOK, Record, Attempt
  <2>2. ASSUME NEW d \in Draft, d = att'[p].draft, NEW e \in Draft, e = repo'[k].draft
        PROVE  e = d
    <3>1. Holds(k, d)' /\ Holds(k, e)'
      BY <2>2 DEF Holds
    <3>2. QED
      BY <1>0, <1>1, <3>1 DEF Owners
  <2>3. repo[k].draft = att'[p].draft /\ repo[k] # NoRecord
    BY <1>3, <2>1, <2>2
  <2>4. repo[k].ver <= drafts[repo[k].draft]
    BY <1>1, <1>3, <2>3 DEF SavesInv, SavesOf
  <2>5. QED
    BY <1>3, <2>3, <2>4
<1>4. QED
  BY <1>0, <1>2, <1>3, ReadingFrom

LEMMA UnnotedStep ==
  ASSUME NoForm, SavesInv, [PubNext]_allVars
  PROVE  Unnoted'
<1> SUFFICES ASSUME torn' = {}, NEW p \in Proc, att'[p] # NoAtt, att'[p].at = "post"
             PROVE  repo'[att'[p].rkey] # NoRecord /\ ~repo'[att'[p].rkey].ref
  BY DEF Unnoted, At
<1>0. BaseInv /\ AloneInv /\ PubInv /\ torn = {}
  BY BaseStep, RowsMove DEF SavesInv, AloneInv, ReleasedInv, BaseInv
<1>1. att'[p] = att[p] \/ Moves(p)
  BY <1>0, AttMoves DEF Only
<1>2. CASE att'[p] = att[p]
  <2>1. att[p] \in Attempt /\ att[p].rkey \in Rkey
    BY <1>0, <1>2, AttemptUnderWay DEF Ready, Attempt, Rkey
  <2>2. ~Writes(p)
    BY <1>2 DEF Writes, Creates, Replaces, Notes, At
  <2>3. repo'[att[p].rkey] = repo[att[p].rkey]
    BY <1>0, <1>2, <2>1, <2>2, OthersKeep
  <2>4. QED
    BY <1>0, <1>2, <2>3 DEF SavesInv, Unnoted, At
<1>3. CASE Goes(p)
  BY <1>3 DEF Goes
<1>4. QED
  BY <1>1, <1>2, <1>3 DEF Moves, Ends, Begun, TakesOver, Loads, Forms, Claims

LEMMA SavesInvStep ==
  ASSUME NoForm, SavesInv, [PubNext]_allVars
  PROVE  SavesInv'
BY AloneInvStep, SavesOfStep, NewerSaveStep, UnnotedStep DEF SavesInv, AloneInv, ReleasedInv

LEMMA SavesInvInit == ASSUME PubInit PROVE SavesInv
<1>1. (\A p \in Proc : att[p] = NoAtt) /\ (\A k \in Rkey : repo[k] = NoRecord)
  BY DEF PubInit
<1>2. QED
  BY <1>1, AloneInvInit DEF SavesInv, SavesOf, NewerSave, Unnoted, Reading, At

(* "No edit made between attempts lost": while rows are held by one pass at *)
(* a time, no attempt puts an older save over a newer one, whatever else    *)
(* the writer does but publish from an editor.                              *)
THEOREM NeverGoesBackHolds ==
  ASSUME NoForm
  PROVE  PubSpec => NeverGoesBack
<1>1. ASSUME SavesInv, [PubNext]_allVars
      PROVE  [\A k \in Rkey : repo[k] # NoRecord /\ torn = {} => repo'[k].ver >= repo[k].ver]_allVars
  <2> SUFFICES ASSUME NEW k \in Rkey, repo[k] # NoRecord, torn = {}
               PROVE  repo'[k].ver >= repo[k].ver
    OBVIOUS
  <2>0. BaseInv /\ Version \subseteq Nat /\ repo[k] \in Record
    BY <1>1, NetBoundAssumption
      DEF SavesInv, AloneInv, ReleasedInv, BaseInv, PubInv, StoresOK, Version
  <2>1. repo[k].ver \in Nat
    BY <2>0 DEF Record
  <2>2. CASE repo'[k] = repo[k]
    BY <2>1, <2>2
  <2>3. ASSUME NEW p \in Proc, Writes(p), k = att[p].rkey PROVE repo'[k].ver >= repo[k].ver
    <3>1. CASE Notes(p)
      BY <2>0, <2>1, <2>3, <3>1, WriteLeaves
    <3>2. CASE ~Notes(p)
      <4>1. Reading(p) /\ repo'[k].ver = att[p].ver /\ att[p].ver \in Nat
        BY <2>0, <2>3, <3>2, WriteLeaves DEF Writes, Reading, Attempt
      <4>2. repo[k].ver <= att[p].ver
        BY <1>1, <2>3, <4>1 DEF SavesInv, NewerSave
      <4>3. QED
        BY <2>1, <4>1, <4>2
    <3>3. QED
      BY <3>1, <3>2
  <2>4. QED
    BY <1>1, <2>0, <2>2, <2>3, StoreMoves, WriteLeaves
<1>2. SavesInv /\ [PubNext]_allVars => SavesInv'
  BY SavesInvStep
<1>3. QED
  BY <1>1, <1>2, SavesInvInit, PTL DEF PubSpec, NeverGoesBack

(* "An automatic announce must never post twice": while rows are held by    *)
(* one pass at a time and no editor publishes, nothing is posted of a       *)
(* record that notes its post.                                              *)
THEOREM AnnouncesUnnotedHolds ==
  ASSUME NoForm
  PROVE  PubSpec => AnnouncesUnnoted
<1>1. ASSUME SavesInv, [PubNext]_allVars
      PROVE  [\A k \in Rkey : posts'[k] # posts[k] /\ torn = {} => ~repo[k].ref]_allVars
  <2> SUFFICES ASSUME NEW k \in Rkey, posts'[k] # posts[k], torn = {}
               PROVE  ~repo[k].ref
    OBVIOUS
  <2>1. posts \in [Rkey -> Nat]
    BY <1>1 DEF SavesInv, AloneInv, ReleasedInv, BaseInv, PubInv, StoresOK
  <2>2. PICK p \in Proc : At(p, "post") /\ posts' = [posts EXCEPT ![att[p].rkey] = @ + 1]
    BY <1>1, StoreMoves
  <2>3. k = att[p].rkey
    BY <2>1, <2>2
  <2>4. QED
    BY <1>1, <2>2, <2>3 DEF SavesInv, Unnoted
<1>2. SavesInv /\ [PubNext]_allVars => SavesInv'
  BY SavesInvStep
<1>3. QED
  BY <1>1, <1>2, SavesInvInit, PTL DEF PubSpec, AnnouncesUnnoted

-----------------------------------------------------------------------------
(* The posts there was nothing of to publish. *)

(* What becomes of a pass's verdict. *)
LEMMA VerdictsMove ==
  ASSUME TypeOK, [Next]_vars, NEW t \in Tick
  PROVE  \/ /\ verdict'[t] = verdict[t]
            /\ pc[t] = "report" => pc'[t] = "report" /\ job'[t] = job[t]
         \/ verdict'[t] = NoVerdict
         \/ \E v \in PublishAttempt : Answer(t, v)
<1>1. CASE Writer \/ Advance \/ UNCHANGED vars
  BY <1>1 DEF Writer, Schedule, Cancel, CancelForDraft, TakeOver, Advance, vars, passVars
<1>2. ASSUME NEW u \in Tick, u # t, Fire(u) \/ Pass(u) \/ Die(u)
      PROVE  UNCHANGED <<pc[t], job[t], verdict[t]>>
  BY <1>2
    DEF TypeOK, Fire, Pass, Die, ReleaseStale, ReadDue, Claim, Contended, ClaimErrs, Publish,
        Land, Answer, Report, GoTo
<1>3. CASE Report(t) \/ Die(t)
  BY <1>3 DEF TypeOK, Report, Die
<1>4. CASE \/ Fire(t) \/ ReleaseStale(t) \/ ReadDue(t) \/ Claim(t) \/ Contended(t)
           \/ ClaimErrs(t) \/ Land(t)
  BY <1>4
    DEF TypeOK, Fire, ReleaseStale, ReadDue, Claim, Contended, ClaimErrs, Land, GoTo
<1>5. QED
  BY <1>1, <1>2, <1>3, <1>4 DEF Next, Pass, Publish

(* A pass that says there was nothing to publish saw no record under the    *)
(* key of its row, and there is still none if the row was not moved.        *)
GoneReported ==
  \A t \in Tick : verdict[t].reason = "draft_gone" =>
    /\ pc[t] = "report" /\ verdict[t].kind = "fail"
    /\ job[t].id \notin torn => repo[job[t].rkey] = NoRecord

LEMMA GoneReportedStep ==
  ASSUME NoForm, AloneInv, GoneReported, [PubNext]_allVars
  PROVE  GoneReported'
<1> SUFFICES ASSUME NEW t \in Tick, verdict'[t].reason = "draft_gone"
             PROVE  /\ pc'[t] = "report" /\ verdict'[t].kind = "fail"
                    /\ job'[t].id \notin torn' => repo'[job'[t].rkey] = NoRecord
  BY DEF GoneReported
<1>0. /\ BaseInv /\ BaseInv' /\ PubInv /\ TypeOK /\ KeyInv /\ [Next]_vars /\ torn \subseteq torn'
      /\ t \in Proc /\ AtWork /\ AtWork'
  BY BaseStep, RowsMove DEF AloneInv, ReleasedInv, BaseInv, KeyInv, Proc
<1>1. verdict'[t] # NoVerdict
  BY ReasonAssumption, NullAssumption DEF NoVerdict
<1>2. CASE /\ verdict'[t] = verdict[t]
           /\ pc[t] = "report" => pc'[t] = "report" /\ job'[t] = job[t]
  <2>1. /\ pc[t] = "report" /\ verdict[t].kind = "fail"
        /\ job[t].id \notin torn => repo[job[t].rkey] = NoRecord
    BY <1>2 DEF GoneReported
  <2>2. ASSUME job[t].id \notin torn PROVE repo'[job[t].rkey] = NoRecord
    <3>1. InFlight(t) /\ att[t] = NoAtt
      BY <1>0, <2>1 DEF InFlight, AtWork, PassAtWork
    <3>2. job[t].rkey \in Rkey
      BY <1>0, <3>1 DEF TypeOK, ClaimedPost, Rkey
    <3>3. ASSUME NEW q \in Proc, Writes(q) PROVE repo'[job[t].rkey] = repo[job[t].rkey]
      <4>1. att[q] # NoAtt /\ q # t
        BY <1>0, <3>1, <3>3, WriteLeaves
      <4>2. att[q].rkey # job[t].rkey
        BY <2>2, <3>1, <4>1, Alone
      <4>3. QED
        BY <1>0, <3>2, <3>3, <4>2, WriteLeaves
    <3>4. QED
      BY <2>1, <2>2, <3>3, StoreMoves
  <2>3. QED
    BY <1>0, <1>2, <2>1, <2>2
<1>3. ASSUME NEW v \in PublishAttempt, Answer(t, v)
      PROVE  /\ pc'[t] = "report" /\ verdict'[t].kind = "fail"
             /\ repo'[job'[t].rkey] = NoRecord
  <2>1. /\ pc[t] \in {"publish", "landed"} /\ pc'[t] = "report" /\ job' = job
        /\ att[t] # NoAtt /\ att[t].rkey = job[t].rkey /\ att'[t] = NoAtt
    BY <1>0, <1>3 DEF Answer, TypeOK, AtWork, PassAtWork
  <2>2. att'[t] # att[t]
    BY <2>1
  <2>3. Ends(t)
    <3>1. Moves(t)
      BY <1>0, <2>2, AttMoves DEF Only
    <3>2. QED
      BY <2>1, <3>1 DEF Moves, Goes, Begun, TakesOver, Loads, Forms, Claims
  <2>4. ~Die(t)
    BY <1>0, <2>1 DEF Die, GoTo, TypeOK
  <2>5. PICK w \in PublishAttempt :
          /\ Answer(t, w)
          /\ w.reason = "draft_gone" =>
               w.kind = "fail" /\ repo[att[t].rkey] = NoRecord /\ UNCHANGED repo
    BY <2>3, <2>4 DEF Ends
  <2>6. verdict'[t] = w
    BY <1>0, <2>5 DEF Answer, TypeOK
  <2>7. QED
    BY <2>1, <2>5, <2>6
<1>4. QED
  BY <1>0, <1>1, <1>2, <1>3, VerdictsMove

(* What becomes of a row's error and status. *)
LEMMA ErrorsMove ==
  ASSUME KeyInv, [Next]_vars, NEW id \in RowId, Exists(rows', id)
  PROVE  \/ /\ Exists(rows, id) /\ rows'[id].lastError = rows[id].lastError
            /\ rows'[id].status = rows[id].status
         \/ rows'[id].lastError = NoReason
         \/ \E t \in Tick : Report(t) /\ job[t].id = id /\ rows' = Settled(t)
<1>0. TypeOK /\ rows \in Table
  BY DEF KeyInv, TypeOK
<1>1. CASE rows' = rows
  BY <1>1 DEF Exists
<1>2. CASE \E ids \in SUBSET RowId : rows' = DeleteRows(rows, ids)
  BY <1>0, <1>2, DeleteRowsRows
<1>3. ASSUME NEW t \in Tick, ReleaseStale(t), rows' # rows
      PROVE  /\ Exists(rows, id) /\ rows'[id].lastError = rows[id].lastError
             /\ rows'[id].status = rows[id].status
  <2>1. rows'[id] = IF Stale(rows, id, passNow[t] - StaleAge)
                    THEN [rows[id] EXCEPT !.claimedAt = NoTime] ELSE rows[id]
    BY <1>3 DEF ReleaseStale, ReleaseStaleClaims
  <2>2. CASE Stale(rows, id, passNow[t] - StaleAge)
    <3>1. rows[id] \in Row /\ Exists(rows, id)
      BY <1>0, <2>2, RowsAreRows DEF Stale, Pending
    <3>2. QED
      BY <2>1, <2>2, <3>1 DEF Row
  <2>3. QED
    BY <2>1, <2>2 DEF Exists
<1>4. ASSUME NEW t \in Tick, Claim(t) \/ ClaimErrs(t), rows' # rows
      PROVE  /\ Exists(rows, id) /\ rows'[id].lastError = rows[id].lastError
             /\ rows'[id].status = rows[id].status
  <2> DEFINE i == Head(queue[t]).id
  <2>1. i \in RowId /\ passNow[t] \in Nat
    BY <1>0, <1>4, QueueHead DEF Claim, ClaimErrs, DuePost, TypeOK
  <2>2. Claimable(rows, i) /\ TakeLease(i, passNow[t])
    BY <1>4 DEF Claim, ClaimErrs
  <2> HIDE DEF i
  <2>3. PICK k : rows' = ClaimDuePost(rows, i, passNow[t], k)
    BY <2>2 DEF TakeLease
  <2>4. rows[i] \in Row /\ Exists(rows, i)
    BY <1>0, <2>1, <2>2, RowsAreRows DEF Claimable, Pending
  <2>5. rows'[i] = [rows[i] EXCEPT !.claimedAt = passNow[t], !.attempts = @ + 1,
                                  !.rkey = Coalesce(@, k)]
    BY <1>0, <2>1, <2>3, <2>4 DEF ClaimDuePost, Table, Row
  <2>6. \A j \in RowId : j # i => rows'[j] = rows[j]
    BY <1>0, <2>3 DEF ClaimDuePost, Table
  <2>7. QED
    BY <2>4, <2>5, <2>6 DEF Row, Exists
<1>5. ASSUME NEW t \in Tick, Report(t), rows' # rows
      PROVE  \/ rows'[id] = rows[id]
             \/ job[t].id = id /\ rows' = Settled(t)
  BY <1>0, <1>5, SettledRows DEF Report
<1>6. ASSUME NEW d \in Draft, NEW dueAt \in 1..MaxDue, NEW announce \in Announce,
             Schedule(d, dueAt, announce)
      PROVE  rows'[id] = rows[id] \/ rows'[id].lastError = NoReason
  <2>1. PICK i \in RowId : rows' = UpsertSchedule(rows, i, d, dueAt, announce)
    BY <1>6 DEF Schedule
  <2>2. CASE PendingOf(rows, d) # {}
    <3>1. rows'[id] = IF id \in PendingOf(rows, d)
                      THEN [NewRow(d, dueAt, announce) EXCEPT !.rkey = rows[id].rkey]
                      ELSE rows[id]
      BY <2>1, <2>2 DEF UpsertSchedule
    <3>2. QED
      BY <3>1 DEF NewRow
  <2>3. CASE PendingOf(rows, d) = {}
    BY <1>0, <2>1, <2>3 DEF UpsertSchedule, NewRow, Table
  <2>4. QED
    BY <2>2, <2>3
<1>7. CASE Writer
  <2>1. \/ \E ids \in SUBSET RowId : rows' = DeleteRows(rows, ids)
        \/ \E d \in Draft, dueAt \in 1..MaxDue, announce \in Announce :
             Schedule(d, dueAt, announce)
    BY <1>0, <1>7, WriterDeletes DEF Writer
  <2>2. QED
    BY <1>2, <1>6, <2>1 DEF Exists
<1>8. ASSUME NEW t \in Tick, Land(t), rows' # rows
      PROVE  \E ids \in SUBSET RowId : rows' = DeleteRows(rows, ids)
  BY <1>8 DEF Land, DeleteSchedulesForDraft, RowsOf
<1>9. CASE \/ Advance \/ UNCHANGED vars
           \/ \E t \in Tick : \/ Fire(t) \/ ReadDue(t) \/ Contended(t) \/ Die(t)
                              \/ \E v \in PublishAttempt : Answer(t, v)
  BY <1>1, <1>9 DEF Advance, vars, Fire, ReadDue, Contended, Die, Answer
<1>10. QED
  BY <1>1, <1>2, <1>3, <1>4, <1>5, <1>7, <1>8, <1>9 DEF Next, Pass, Publish, Exists

(* A row that failed for want of a draft to publish: there is no record     *)
(* under its key, and nobody is at work on it.                              *)
GoneFailed ==
  \A id \in RowId :
    Exists(rows, id) /\ rows[id].lastError = "draft_gone" /\ id \notin torn =>
      /\ rows[id].status = "failed"
      /\ reserved[id] # NoKey /\ repo[reserved[id]] = NoRecord
      /\ \A t \in Tick : InFlight(t) => job[t].id # id

GoneInv == AloneInv /\ GoneReported /\ GoneFailed

(* A failed row's key stays unwritten: nobody publishes under it. *)
LEMMA GoneStays ==
  ASSUME NoForm, GoneInv, [PubNext]_allVars, NEW id \in RowId, Exists(rows, id),
         rows[id].lastError = "draft_gone", id \notin torn
  PROVE  /\ rows[id].status = "failed" /\ reserved[id] # NoKey
         /\ repo'[reserved[id]] = NoRecord
         /\ \A t \in Tick : InFlight(t)' => job'[t].id # id
<1>0. /\ BaseInv /\ KeyInv /\ TypeOK /\ [Next]_vars /\ ReleasedKeys /\ AtWork
  BY BaseStep DEF GoneInv, AloneInv, ReleasedInv, BaseInv, KeyInv
<1>1. /\ rows[id].status = "failed" /\ reserved[id] # NoKey /\ repo[reserved[id]] = NoRecord
      /\ \A t \in Tick : InFlight(t) => job[t].id # id
  BY DEF GoneInv, GoneFailed
<1>2. reserved[id] \in Key /\ rows[id].rkey = reserved[id]
  BY <1>0, <1>1 DEF TypeOK, KeyInv, OneKeyPerRow
<1>3. ASSUME NEW q \in Proc, att[q] # NoAtt, att[q].rkey = reserved[id] PROVE FALSE
  <2>1. CASE q \in Request
    BY <1>0, <1>2, <1>3, <2>1 DEF ReleasedKeys, Released, NobodysRow, NoForm
  <2>2. CASE q \in Tick
    <3>1. InFlight(q) /\ job[q].rkey = reserved[id] /\ job[q].id \in RowId
      BY <1>0, <1>3, <2>2 DEF AtWork, PassAtWork, InFlight, TypeOK, ClaimedPost
    <3>2. job[q].id = id
      BY <1>0, <1>1, <2>2, <3>1 DEF KeyInv, OneKeyPerRow
    <3>3. QED
      BY <1>1, <2>2, <3>1, <3>2
  <2>3. QED
    BY <2>1, <2>2 DEF Proc
<1>4. repo'[reserved[id]] = NoRecord
  <2>1. reserved[id] \in Rkey
    BY <1>2 DEF Rkey
  <2>2. QED
    BY <1>0, <1>1, <1>3, <2>1, StoreMoves, WriteLeaves
<1>5. ASSUME NEW t \in Tick, InFlight(t)', job'[t].id = id PROVE FALSE
  <2>1. CASE Claim(t)
    BY <1>0, <1>1, <1>5, <2>1, ClaimedJob DEF Claimable, Pending
  <2>2. QED
    BY <1>0, <1>1, <1>5, <2>1, JobsMove
<1>6. QED
  BY <1>1, <1>4, <1>5

LEMMA GoneFailedStep ==
  ASSUME NoForm, GoneInv, [PubNext]_allVars
  PROVE  GoneFailed'
<1> SUFFICES ASSUME NEW id \in RowId, Exists(rows', id), rows'[id].lastError = "draft_gone",
                    id \notin torn'
             PROVE  /\ rows'[id].status = "failed"
                    /\ reserved'[id] # NoKey /\ repo'[reserved'[id]] = NoRecord
                    /\ \A t \in Tick : InFlight(t)' => job'[t].id # id
  BY DEF GoneFailed, Exists
<1>0. /\ BaseInv /\ BaseInv' /\ KeyInv /\ KeyInv' /\ LeaseInv /\ TypeOK /\ [Next]_vars
      /\ AloneInv /\ AtWork /\ torn \subseteq torn'
  BY BaseStep, RowsMove DEF GoneInv, AloneInv, ReleasedInv, BaseInv, KeyInv, LeaseInv
<1>1. id \notin torn /\ "draft_gone" # NoReason
  BY <1>0, ReasonAssumption, NullAssumption
<1>2. CASE /\ Exists(rows, id) /\ rows'[id].lastError = rows[id].lastError
           /\ rows'[id].status = rows[id].status
  <2>1. /\ rows[id].status = "failed" /\ reserved[id] # NoKey
        /\ repo'[reserved[id]] = NoRecord
        /\ \A t \in Tick : InFlight(t)' => job'[t].id # id
    BY <1>1, <1>2, GoneStays
  <2>2. rows[id].rkey = reserved[id] /\ rows'[id].rkey = reserved'[id]
    BY <1>0, <1>2 DEF KeyInv, OneKeyPerRow, Exists
  <2>3. rows'[id].rkey = rows[id].rkey
    BY <1>0, <1>2, <2>1, <2>2, RowsMove DEF RowKept
  <2>4. QED
    BY <1>2, <2>1, <2>2, <2>3
<1>3. ASSUME NEW t \in Tick, Report(t), job[t].id = id, rows' = Settled(t)
      PROVE  /\ rows'[id].status = "failed"
             /\ reserved'[id] # NoKey /\ repo'[reserved'[id]] = NoRecord
             /\ \A u \in Tick : InFlight(u)' => job'[u].id # id
  <2>1. /\ pc[t] = "report" /\ InFlight(t) /\ reserved' = reserved /\ rows \in Table
        /\ att[t] = NoAtt /\ verdict[t].reason \in Reason \cup {NoReason}
        /\ reserved[id] = job[t].rkey /\ job[t].rkey \in Key
        /\ Exists(rows, id)
    BY <1>0, <1>3, SettledRows
      DEF Report, InFlight, AtWork, PassAtWork, TypeOK, PublishAttempt, KeyInv, OneKeyPerRow,
          ClaimedPost
  <2>2. ~Exists(DeletePublishedSchedule(rows, id), id)
    BY <2>1 DEF DeletePublishedSchedule, Exists, Table
  <2>3. \/ rows' = MarkFailed(rows, id, verdict[t].reason)
        \/ rows' = ReleaseForRetry(rows, id, verdict[t].reason) /\ verdict[t].kind = "retry"
    BY <1>3, <2>2 DEF Settled
  <2>4. /\ rows[id] \in Row
        /\ MarkFailed(rows, id, verdict[t].reason)[id] =
             [rows[id] EXCEPT !.status = "failed", !.claimedAt = NoTime,
                              !.lastError = verdict[t].reason]
        /\ ReleaseForRetry(rows, id, verdict[t].reason)[id] =
             [rows[id] EXCEPT !.claimedAt = NoTime, !.lastError = verdict[t].reason]
    BY <2>1, RowsAreRows DEF MarkFailed, ReleaseForRetry, Row, Table
  <2>5. verdict[t].reason = "draft_gone"
    BY <2>3, <2>4 DEF Row
  <2>6. verdict[t].kind = "fail" /\ repo[job[t].rkey] = NoRecord
    BY <1>1, <1>3, <2>5 DEF GoneInv, GoneReported
  <2>7. rows'[id].status = "failed"
    BY <2>3, <2>4, <2>6 DEF Row
  <2>8. repo'[job[t].rkey] = NoRecord
    <3>1. ASSUME NEW q \in Proc, Writes(q) PROVE repo'[job[t].rkey] = repo[job[t].rkey]
      <4>1. att[q] # NoAtt /\ q # t
        BY <1>0, <2>1, <3>1, WriteLeaves
      <4>2. att[q].rkey # job[t].rkey
        BY <1>0, <1>1, <1>3, <2>1, <4>1, Alone
      <4>3. job[t].rkey \in Rkey
        BY <2>1 DEF Rkey
      <4>4. QED
        BY <1>0, <3>1, <4>2, <4>3, WriteLeaves
    <3>2. QED
      BY <2>6, <3>1, StoreMoves
  <2>9. ASSUME NEW u \in Tick, InFlight(u)', job'[u].id = id PROVE FALSE
    <3>1. CASE Claim(u)
      BY <1>0, <1>1, <1>3, <2>1, <2>9, <3>1, ClaimedJob, HeldIsHeld
    <3>2. CASE InFlight(u) /\ job'[u] = job[u]
      <4>1. u = t
        BY <1>0, <1>1, <1>3, <2>1, <2>9, <3>2 DEF LeaseInv, LeaseExclusive
      <4>2. ~InFlight(t)'
        BY <1>0, <1>3, GoToType, QueueHead DEF Report, InFlight
      <4>3. QED
        BY <2>9, <4>1, <4>2
    <3>3. QED
      BY <1>0, <2>9, <3>1, <3>2, JobsMove
  <2>10. QED
    BY <2>1, <2>7, <2>8, <2>9, NullAssumption
<1>4. QED
  BY <1>0, <1>1, <1>2, <1>3, ErrorsMove

(* "Its reserved key says whether it did": no row of a post that is live is *)
(* failed with "there was nothing to publish", but one the writer moved     *)
(* while a pass held it, as long as no editor publishes.                    *)
THEOREM DraftGoneIsTrueHolds ==
  ASSUME NoForm
  PROVE  PubSpec => []DraftGoneIsTrue
<1>1. GoneInv => DraftGoneIsTrue
  BY DEF GoneInv, GoneFailed, DraftGoneIsTrue
<1>2. GoneInv /\ [PubNext]_allVars => GoneInv'
  BY AloneInvStep, GoneReportedStep, GoneFailedStep DEF GoneInv
<1>3. PubInit => GoneInv
  <2> SUFFICES ASSUME PubInit PROVE GoneInv
    OBVIOUS
  <2>1. /\ \A t \in Tick : verdict[t] = NoVerdict
        /\ \A id \in RowId : ~Exists(rows, id)
    BY DEF PubInit, Init, Exists
  <2>2. NoVerdict.reason # "draft_gone"
    BY ReasonAssumption, NullAssumption DEF NoVerdict
  <2>3. QED
    BY <2>1, <2>2, AloneInvInit DEF GoneInv, GoneReported, GoneFailed
<1>4. QED
  BY <1>1, <1>2, <1>3, PTL DEF PubSpec

-----------------------------------------------------------------------------
(* What the writer sees: a draft goes live once. *)

(* The passes alone publish. *)
PassesPublish == Ops \cap {"publishNow", "publishForm"} = {}

(* A draft is never scheduled under a second row. *)
OneRow(rowOf) == \A id \in RowId : Exists(rows, id) => id = rowOf[rows[id].draft]

(* A request has no key, a pass works on its draft's row, and a draft's     *)
(* records are under the key reserved for that row.                         *)
NoRequestKey ==
  \A r \in Request : att[r] # NoAtt => att[r].rkey = NoKey /\ att[r].at \notin {"inflight", "load"}
OneJob(rowOf) == \A t \in Tick : att[t] # NoAtt => job[t].id = rowOf[att[t].draft]
OneKey(rowOf) ==
  \A k \in Rkey : repo[k] # NoRecord => k = reserved[rowOf[repo[k].draft]]

OnceInv(rowOf) ==
  /\ WordsInv /\ NoRequestKey /\ OneJob(rowOf) /\ OneKey(rowOf)

(* A row's key, once reserved, is the row's for good. *)
LEMMA ReservedStays ==
  ASSUME KeyInv, [Next]_vars, NEW id \in RowId, reserved[id] # NoKey
  PROVE  reserved'[id] = reserved[id]
<1>0. TypeOK
  BY DEF KeyInv
<1>1. ASSUME NEW t \in Tick, Claim(t) \/ ClaimErrs(t) PROVE reserved'[id] = reserved[id]
  <2> DEFINE i == Head(queue[t]).id
  <2>1. i \in RowId /\ passNow[t] \in Nat
    BY <1>0, <1>1, QueueHead DEF Claim, ClaimErrs, DuePost, TypeOK
  <2>2. reserved' = reserved \/ (Claimable(rows, i) /\ TakeLease(i, passNow[t]))
    BY <1>1 DEF Claim, ClaimErrs
  <2> HIDE DEF i
  <2>3. CASE Claimable(rows, i) /\ TakeLease(i, passNow[t])
    <3>1. PICK k \in Key : /\ rows[i].rkey # NoKey => k = rows[i].rkey
                           /\ reserved' = [reserved EXCEPT ![i] = k]
      BY <1>0, <2>1, <2>3, TakeLeaseRows
    <3>2. rows[i].rkey = reserved[i]
      BY <2>1, <2>3 DEF KeyInv, OneKeyPerRow, Claimable, Pending
    <3>3. QED
      BY <1>0, <3>1, <3>2 DEF TypeOK
  <2>4. QED
    BY <2>2, <2>3
<1>2. CASE Writer
  BY <1>2 DEF Writer, Schedule, Cancel, CancelForDraft, TakeOver, histVars
<1>3. QED
  BY <1>1, <1>2
    DEF Next, Advance, vars, histVars, Fire, Pass, ReleaseStale, ReadDue, Contended, Publish,
        Land, Answer, Report, Die

LEMMA NoRequestKeyStep ==
  ASSUME PassesPublish, PubInv, NoRequestKey, [PubNext]_allVars
  PROVE  NoRequestKey'
<1> SUFFICES ASSUME NEW r \in Request, att'[r] # NoAtt
             PROVE  att'[r].rkey = NoKey /\ att'[r].at \notin {"inflight", "load"}
  BY DEF NoRequestKey
<1>1. att'[r] = att[r] \/ Moves(r)
  BY AttMoves DEF Only, Proc
<1>2. CASE att'[r] = att[r]
  BY <1>2 DEF NoRequestKey
<1>3. CASE Goes(r)
  BY <1>3 DEF NoRequestKey, Goes, RequestPlaces
<1>4. CASE Begun(r) \/ TakesOver(r) \/ Forms(r)
  BY <1>4 DEF Begun, TakesOver, Forms, PassesPublish
<1>5. CASE Loads(r)
  BY <1>5 DEF Loads, NoRequestKey
<1>6. r \notin Tick
  BY ProcAssumption
<1>7. QED
  BY <1>1, <1>2, <1>3, <1>4, <1>5, <1>6 DEF Moves, Ends, Claims

(* A pass begins on the row of its draft, and goes on with it. *)
LEMMA OneJobStep ==
  ASSUME BaseInv, NEW rowOf, OneRow(rowOf)', OneJob(rowOf), [PubNext]_allVars
  PROVE  OneJob(rowOf)'
<1> SUFFICES ASSUME NEW t \in Tick, att'[t] # NoAtt
             PROVE  job'[t].id = rowOf[att'[t].draft]
  BY DEF OneJob
<1>0. /\ BaseInv' /\ KeyInv /\ TypeOK /\ [Next]_vars /\ t \in Proc /\ t \notin Request
      /\ AtWork /\ AtWork'
  BY BaseStep, ProcAssumption DEF Proc, BaseInv, KeyInv
<1>1. InFlight(t)'
  BY <1>0 DEF AtWork, PassAtWork, InFlight
<1>2. CASE Claim(t)
  <2>1. job'[t].id \in RowId /\ Exists(rows', job'[t].id) /\ ~InFlight(t)
    BY <1>0, <1>2, ClaimedJob
  <2>2. job'[t].id = rowOf[rows'[job'[t].id].draft]
    BY <2>1 DEF OneRow, Exists
  <2> DEFINE post == Head(queue[t])
  <2>3. Known(post) /\ post \in DuePost
    <3>1. queue[t] \in Seq(DuePost) /\ queue[t] # <<>>
      BY <1>0, <1>2 DEF Claim, TypeOK
    <3>2. 1 \in 1..Len(queue[t]) /\ post = queue[t][1] /\ post \in DuePost
      BY <3>1
    <3>3. QED
      BY <3>2 DEF BaseInv, QueueKnown
  <2>4. KnownNext(post)
    BY <1>0, <2>3, KnownStays
  <2>5. job'[t].id = post.id /\ job'[t].draft = post.draft
    BY <1>0, <1>2 DEF Claim, TypeOK
  <2>6. att'[t].draft = job'[t].draft
    BY <1>0 DEF AtWork, PassAtWork
  <2>7. QED
    BY <2>1, <2>2, <2>4, <2>5, <2>6 DEF KnownNext
<1>3. CASE InFlight(t) /\ job'[t] = job[t] /\ ~Claim(t)
  <2>1. att'[t] = att[t] \/ Goes(t)
    <3>1. att'[t] = att[t] \/ Moves(t)
      BY <1>0, AttMoves DEF Only, BaseInv
    <3>2. QED
      BY <1>0, <1>3, <3>1 DEF Moves, Ends, Begun, TakesOver, Loads, Forms, Claims
  <2>2. QED
    BY <1>3, <2>1 DEF Goes, OneJob
<1>4. QED
  BY <1>0, <1>1, <1>2, <1>3, JobsMove

(* Whoever writes a record is a pass, under the key of its draft's row. *)
LEMMA WriterIsPass ==
  ASSUME BaseInv, NoRequestKey, NEW rowOf \in [Draft -> RowId], OneJob(rowOf),
         NEW p \in Proc, Writes(p)
  PROVE  /\ att[p].rkey = reserved[rowOf[att[p].draft]] /\ att[p].draft \in Draft
         /\ reserved[rowOf[att[p].draft]] # NoKey
<1>0. att[p] # NoAtt /\ att[p] \in Attempt /\ att[p].rkey \in Rkey /\ NoKey \notin Rkey
  BY WriteLeaves, NullAssumption, KeyAssumption DEF Rkey
<1>1. p \in Tick
  BY <1>0 DEF NoRequestKey, Proc
<1>2. InFlight(p) /\ att[p].rkey = job[p].rkey
  BY <1>0, <1>1 DEF BaseInv, AtWork, PassAtWork, InFlight
<1>3. att[p].rkey = reserved[rowOf[att[p].draft]]
  BY <1>0, <1>1, <1>2 DEF OneJob, BaseInv, LeaseInv, KeyInv, OneKeyPerRow
<1>4. QED
  BY <1>0, <1>3 DEF Attempt

LEMMA OneKeyStep ==
  ASSUME PassesPublish, NEW rowOf \in [Draft -> RowId], OnceInv(rowOf), [PubNext]_allVars
  PROVE  OneKey(rowOf)'
<1> SUFFICES ASSUME NEW k \in Rkey, repo'[k] # NoRecord
             PROVE  k = reserved'[rowOf[repo'[k].draft]]
  BY DEF OneKey
<1>0. /\ BaseInv /\ BaseInv' /\ KeyInv /\ [Next]_vars /\ Owners /\ NoRequestKey /\ OneJob(rowOf)
      /\ repo \in [Rkey -> Record \cup {NoRecord}] /\ NoKey \notin Rkey
  BY BaseStep, NullAssumption, KeyAssumption
    DEF OnceInv, WordsInv, BaseInv, PubInv, StoresOK, Rkey
<1>1. CASE repo[k] # NoRecord
  <2>1. repo'[k].draft = repo[k].draft /\ repo[k].draft \in Draft
    BY <1>0, <1>1, RecordsStay DEF Record
  <2>2. k = reserved[rowOf[repo[k].draft]] /\ rowOf[repo[k].draft] \in RowId
    BY <1>1, <2>1 DEF OnceInv, OneKey
  <2>3. reserved'[rowOf[repo[k].draft]] = reserved[rowOf[repo[k].draft]]
    BY <1>0, <2>2, ReservedStays
  <2>4. QED
    BY <2>1, <2>2, <2>3
<1>2. CASE repo[k] = NoRecord
  <2>1. PICK p \in Proc : Writes(p)
    BY <1>2, StoreMoves
  <2>2. k = att[p].rkey /\ ~Notes(p)
    BY <1>0, <1>2, <2>1, WriteLeaves
  <2>3. repo'[k].draft = att[p].draft
    BY <1>0, <2>1, <2>2, WriteLeaves DEF Writes
  <2>4. /\ k = reserved[rowOf[att[p].draft]] /\ rowOf[att[p].draft] \in RowId
        /\ reserved[rowOf[att[p].draft]] # NoKey
    BY <1>0, <2>1, <2>2, WriterIsPass
  <2>5. reserved'[rowOf[att[p].draft]] = reserved[rowOf[att[p].draft]]
    BY <1>0, <2>4, ReservedStays
  <2>6. QED
    BY <2>3, <2>4, <2>5
<1>3. QED
  BY <1>1, <1>2

LEMMA OnceInvStep ==
  ASSUME PassesPublish, NEW rowOf \in [Draft -> RowId], OnceInv(rowOf), OneRow(rowOf)',
         [PubNext]_allVars
  PROVE  OnceInv(rowOf)'
<1>1. WordsInv' /\ NoRequestKey'
  BY WordsInvStep, NoRequestKeyStep DEF OnceInv, WordsInv, BaseInv
<1>2. OneJob(rowOf)'
  BY OneJobStep DEF OnceInv, WordsInv
<1>3. OneKey(rowOf)'
  BY OneKeyStep
<1>4. QED
  BY <1>1, <1>2, <1>3 DEF OnceInv

(* Where each draft is live. *)
LiveOf == [d \in Draft |-> {<<k, repo[k].ver>> : k \in RecordsOf(d)}]

(* A draft that is live is live under one key. *)
LEMMA LiveAt ==
  ASSUME NEW rowOf, OneKey(rowOf), NEW k \in Rkey, repo[k] # NoRecord, repo[k].draft \in Draft
  PROVE  /\ RecordsOf(repo[k].draft) = {k}
         /\ LiveOf[repo[k].draft] = {<<k, repo[k].ver>>}
<1>1. RecordsOf(repo[k].draft) = {k}
  BY DEF RecordsOf, OneKey
<1>2. QED
  BY <1>1 DEF LiveOf

(* A write of a record, as the writer sees it. *)
LEMMA WriteIsSeen ==
  ASSUME NEW rowOf, OneKey(rowOf), OneKey(rowOf)', BaseInv, Owners, [PubNext]_allVars,
         NEW p \in Proc, Writes(p), NEW k, k = att[p].rkey, NEW d, d = repo'[k].draft
  PROVE  /\ k \in Rkey /\ d \in Draft /\ repo'[k].ver \in Version
         /\ LiveOf' = [LiveOf EXCEPT ![d] = {<<k, repo'[k].ver>>}]
         /\ \/ LiveOf[d] = {}
            \/ repo[k].ver \in Version /\ LiveOf[d] = {<<k, repo[k].ver>>}
<1>0. /\ k \in Rkey /\ repo \in [Rkey -> Record \cup {NoRecord}]
      /\ repo' \in [Rkey -> Record \cup {NoRecord}]
      /\ \A j \in Rkey \ {k} : repo'[j] = repo[j]
  BY BaseStep, WriteLeaves DEF BaseInv, PubInv, StoresOK
<1>1. repo'[k] # NoRecord
  <2>1. CASE repo[k] # NoRecord
    BY <1>0, <2>1, RecordsStay
  <2>2. CASE repo[k] = NoRecord
    <3>1. att[p].seen \in Record \/ Creates(p)
      BY <2>2, WriteLeaves, AttemptUnderWay
        DEF Writes, Replaces, Notes, At, Ready, Attempt, BaseInv
    <3>2. Creates(p)
      BY <2>2, <3>1, NullRecordAssumption, WriteLeaves DEF Writes, Replaces
    <3>3. NewRecord(p, FALSE) \in Record
      BY WriteLeaves, NewRecordType DEF BaseInv
    <3>4. repo'[k] = NewRecord(p, FALSE)
      BY <1>0, <3>2 DEF Creates, Put
    <3>5. QED
      BY <3>3, <3>4, NullRecordAssumption
  <2>3. QED
    BY <2>1, <2>2
<1>2. repo'[k] \in Record /\ d \in Draft /\ repo'[k].ver \in Version
  BY <1>0, <1>1 DEF Record
<1>3. repo[k] # NoRecord => repo[k] \in Record /\ repo[k].draft = d /\ repo[k].ver \in Version
  BY <1>0, RecordsStay DEF Record
<1>4. \A j \in Rkey : repo'[j] # NoRecord /\ repo'[j].draft = d => j = k
  BY <1>0, <1>1 DEF OneKey
<1>5. RecordsOf(d)' = {k}
  BY <1>0, <1>1, <1>4 DEF RecordsOf
<1>6. \A e \in Draft \ {d} : RecordsOf(e)' = RecordsOf(e) /\ k \notin RecordsOf(e)
  BY <1>0, <1>3 DEF RecordsOf
<1>7. LiveOf' = [LiveOf EXCEPT ![d] = {<<k, repo'[k].ver>>}]
  <2> DEFINE L == [e \in Draft |-> {<<j, repo'[j].ver>> : j \in RecordsOf(e)'}]
  <2>1. L[d] = {<<k, repo'[k].ver>>}
    BY <1>2, <1>5
  <2>2. ASSUME NEW e \in Draft \ {d} PROVE L[e] = LiveOf[e]
    <3>1. \A j \in RecordsOf(e) : repo'[j] = repo[j]
      BY <1>0, <1>6 DEF RecordsOf
    <3>2. {<<j, repo'[j].ver>> : j \in RecordsOf(e)'} = {<<j, repo[j].ver>> : j \in RecordsOf(e)}
      BY <1>6, <3>1
    <3>3. QED
      BY <3>2 DEF LiveOf
  <2>3. L = [LiveOf EXCEPT ![d] = {<<k, repo'[k].ver>>}]
    BY <1>2, <2>1, <2>2 DEF LiveOf
  <2>4. QED
    BY <2>3 DEF LiveOf
<1>8. CASE repo[k] # NoRecord
  <2>1. LiveOf[d] = {<<k, repo[k].ver>>}
    BY <1>0, <1>2, <1>3, <1>8, LiveAt
  <2>2. QED
    BY <1>0, <1>2, <1>3, <1>7, <1>8, <2>1
<1>9. CASE repo[k] = NoRecord
  <2>1. RecordsOf(d) = {}
    BY <1>0, <1>4, <1>9 DEF RecordsOf
  <2>2. QED
    BY <1>0, <1>2, <1>7, <2>1 DEF LiveOf
<1>10. QED
  BY <1>8, <1>9

(* Every step of publishing is a step the writer may see, or none. *)
LEMMA OnceNext ==
  ASSUME NEW rowOf, OneKey(rowOf), OneKey(rowOf)', WordsInv, [PubNext]_allVars
  PROVE  [Once!Next]_(Once!vars)
<1>0. /\ BaseInv /\ Owners /\ CleanLive
      /\ drafts \in [Draft -> Version \cup {Gone}] /\ drafts' \in [Draft -> Version \cup {Gone}]
  BY BaseStep DEF WordsInv, BaseInv, PubInv, StoresOK
<1>1. repo' = repo => LiveOf' = LiveOf
  BY DEF LiveOf, RecordsOf
<1>2. ASSUME NEW p \in Proc, Writes(p), UNCHANGED <<drafts, discarded>>
      PROVE  Once!Next
  <2>1. PICK k : k = att[p].rkey
    OBVIOUS
  <2>2. PICK d : d = repo'[k].draft
    OBVIOUS
  <2>3. /\ k \in Rkey /\ d \in Draft /\ repo'[k].ver \in Version
        /\ LiveOf' = [LiveOf EXCEPT ![d] = {<<k, repo'[k].ver>>}]
        /\ \/ LiveOf[d] = {}
           \/ repo[k].ver \in Version /\ LiveOf[d] = {<<k, repo[k].ver>>}
    BY <1>0, <1>2, <2>1, <2>2, WriteIsSeen
  <2>4. CASE LiveOf[d] = {}
    <3>1. \E j \in Rkey, v \in Version : LiveOf' = [LiveOf EXCEPT ![d] = {<<j, v>>}]
      BY <2>3
    <3>2. Once!GoLive(d)
      BY <1>2, <2>4, <3>1 DEF Once!GoLive, LiveOf
    <3>3. QED
      BY <2>3, <3>2 DEF Once!Next
  <2>5. CASE repo[k].ver \in Version /\ LiveOf[d] = {<<k, repo[k].ver>>}
    <3>1. \E j \in Rkey, v, w \in Version :
            LiveOf[d] = {<<j, v>>} /\ LiveOf' = [LiveOf EXCEPT ![d] = {<<j, w>>}]
      BY <2>3, <2>5
    <3>2. Once!Update(d)
      BY <1>2, <3>1 DEF Once!Update, LiveOf
    <3>3. QED
      BY <2>3, <3>2 DEF Once!Next
  <2>6. QED
    BY <2>3, <2>4, <2>5
<1>3. ASSUME NEW d \in Draft, Edit(d) PROVE Once!Next
  <2>1. LiveOf' = LiveOf
    BY <1>1, <1>3 DEF Edit
  <2>2. Once!Save(d)
    BY <1>3, <2>1 DEF Edit, Once!Save, LiveOf
  <2>3. QED
    BY <2>2 DEF Once!Next
<1>4. ASSUME NEW r \in Request, NEW d \in Draft, DeleteDraft(r, d) PROVE Once!Next
  <2>1. LiveOf' = LiveOf
    BY <1>1, <1>4 DEF DeleteDraft
  <2>2. Once!Discard(d)
    BY <1>4, <2>1 DEF DeleteDraft, Once!Discard, LiveOf
  <2>3. QED
    BY <2>2 DEF Once!Next
<1>5. ASSUME NEW p \in Proc, CleanDraft(p), ~UNCHANGED drafts PROVE Once!Next
  <2>1. LiveOf' = LiveOf /\ discarded' = discarded
    BY <1>1, <1>5 DEF CleanDraft
  <2>2. /\ att[p].rkey \in Rkey /\ att[p].draft \in Draft /\ att[p] # NoAtt
        /\ repo[att[p].rkey] # NoRecord
    BY <1>0, <1>5, AttemptUnderWay
      DEF CleanDraft, At, Ready, Attempt, Rkey, BaseInv, CleanLive
  <2>3. repo[att[p].rkey].draft \in Draft
    BY <1>0, <2>2 DEF BaseInv, PubInv, StoresOK, Record
  <2>4. Holds(att[p].rkey, att[p].draft) /\ Holds(att[p].rkey, repo[att[p].rkey].draft)
    BY <2>2 DEF Holds
  <2>5. repo[att[p].rkey].draft = att[p].draft
    BY <1>0, <2>2, <2>3, <2>4 DEF Owners
  <2>6. LiveOf[att[p].draft] # {}
    BY <2>2, <2>5 DEF LiveOf, RecordsOf
  <2>7. Once!Complete(att[p].draft)
    BY <1>5, <2>1, <2>6 DEF CleanDraft, Once!Complete, LiveOf
  <2>8. QED
    BY <2>2, <2>7 DEF Once!Next
<1>6. CASE UNCHANGED <<drafts, discarded>> /\ repo' = repo
  BY <1>1, <1>6 DEF Once!vars, LiveOf
<1>7. ASSUME NEW p \in Proc, CleanDraft(p) PROVE discarded' = discarded /\ repo' = repo
  BY <1>7 DEF CleanDraft
<1>8. QED
  BY <1>2, <1>3, <1>4, <1>5, <1>6, <1>7, StoreMoves

(* "A retry can't publish twice": while the passes publish and each draft   *)
(* has one row, a draft goes live once, under one key, is brought up to     *)
(* date but never taken down, and is cleared away only when it is live or   *)
(* when the writer threw it away.                                           *)
THEOREM PublishesOnceHolds ==
  ASSUME PassesPublish, NEW CONSTANT rowOf \in [Draft -> RowId]
  PROVE  PubSpec /\ []OneRow(rowOf) => PublishesOnce
<1>1. PubInit => OnceInv(rowOf)
  <2> SUFFICES ASSUME PubInit PROVE OnceInv(rowOf)
    OBVIOUS
  <2>1. (\A p \in Proc : att[p] = NoAtt) /\ (\A k \in Rkey : repo[k] = NoRecord)
    BY DEF PubInit
  <2>2. QED
    BY <2>1, WordsInvInit DEF OnceInv, NoRequestKey, OneJob, OneKey, Proc
<1>2. PubInit => Once!Init
  <2> SUFFICES ASSUME PubInit PROVE Once!Init
    OBVIOUS
  <2>1. \A d \in Draft : RecordsOf(d) = {}
    BY DEF PubInit, RecordsOf
  <2>2. LiveOf = [d \in Draft |-> {}]
    BY <2>1 DEF LiveOf
  <2>3. QED
    BY <2>2 DEF PubInit, Once!Init, LiveOf
<1>3. OnceInv(rowOf) /\ OneRow(rowOf)' /\ [PubNext]_allVars => OnceInv(rowOf)'
  BY OnceInvStep
<1>4. OnceInv(rowOf) /\ OnceInv(rowOf)' /\ [PubNext]_allVars => [Once!Next]_(Once!vars)
  BY OnceNext DEF OnceInv
<1>5. QED
  BY <1>1, <1>2, <1>3, <1>4, PTL DEF PubSpec, PublishesOnce, Once!Spec
=============================================================================
