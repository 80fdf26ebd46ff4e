----------------------------- MODULE PostPictures -----------------------------
(***************************************************************************)
(* A post's pictures: uploaded while it is written, or brought over with   *)
(* an import; listed with the draft; copied to the writer's repo, left     *)
(* where they are, or left out, when it is published; kept or let go by    *)
(* its edits.  With them the two other pictures a record names, the cover  *)
(* and the share card.                                                     *)
(*                                                                         *)
(* External: the data server, which refuses a record naming a blob it does *)
(* not hold, and in time lets go of every blob that no record names.       *)
(***************************************************************************)
EXTENDS Integers, FiniteSets, FiniteSetsExt

CONSTANTS
  LastPic,     \* bound: pictures are 1..LastPic, in body order
  PicCap,      \* MAX_INLINE_IMAGES
  ImageBudget, \* IMAGE_SUBREQUEST_BUDGET
  CardBudget,  \* SHARE_CARD_SUBREQUESTS
  HopCap,      \* MAX_REDIRECT_HOPS
  MaxTouched,  \* bound: what the writer does to the post
  OwnCover, NoPicture, NoRecordYet, NoPub

ASSUME PicturesAssumption ==
  /\ {LastPic, PicCap, ImageBudget} \subseteq Nat \ {0}
  /\ {CardBudget, HopCap, MaxTouched} \subseteq Nat

Pic == 1..LastPic
Headline == {"first", "second"}

VARIABLES
  blobs,    \* the pictures the repo holds
  tethered, \* those of them a Bluesky thread names
  brought,  \* the draft came through an import
  desk,     \* the editor: the post, and the blobs its form will list
  autosaved,\* the drafts row
  live,     \* the document record
  pub,      \* the publish or edit under way
  outcome,  \* what the writer was told of the last one
  touched,  \* bound: counts the writer's doings
  past      \* history: pictures a record was over the cap without

picVars == <<blobs, tethered, brought, desk, autosaved, live, pub, outcome, touched, past>>

(* Where each picture of a body is: elsewhere on the web, or behind our     *)
(* proxy, that is, in the writer's repo.                                    *)
PicBody == [Pic -> {"absent", "remote", "proxied"}]
Desk == [body : PicBody, listed : SUBSET Pic, title : Headline]
DocRecord == [body : PicBody, refs : SUBSET Pic, cover : Pic \cup {NoPicture, OwnCover},
              card : Headline \cup {NoPicture}, title : Headline]

ASSUME NoRecordAssumption == NoRecordYet \notin DocRecord

(* way: the form, an edit by it, or a stored draft.  todo: pictures to copy. *)
(* mine: blobs it has uploaded, too young to be let go.  known: it is known *)
(* for an import.  kept, dropped: the pictures left where they were, and    *)
(* left out.                                                                *)
Job == [way : {"form", "edit", "stored"}, at : {"copy", "write"}, desk : Desk, asked : PicBody,
        todo : SUBSET Pic, mine : SUBSET Pic, reserved : BOOLEAN, known : BOOLEAN, cover : {"new", "none", "remove"},
        card : Headline \cup {NoPicture}, budget : Nat, spent : Nat, kept : 0..LastPic, dropped : 0..LastPic]

(* What the writer is told of a publish, beside what was asked for and what *)
(* went out.                                                                *)
Outcome == [known : BOOLEAN, kept : 0..LastPic, dropped : 0..LastPic,
            asked : PicBody, went : PicBody]

In(body, where) == {p \in Pic : body[p] = where}
NoBody == [p \in Pic |-> "absent"]

(* A draft of one's own, of a feed (its pictures elsewhere), of a thread    *)
(* (its pictures in the repo already, and listed).                          *)
PicInit ==
  /\ brought \in {"no", "feed", "thread"}
  /\ desk = [title |-> "first", listed |-> IF brought = "thread" THEN Pic ELSE {},
             body |-> [p \in Pic |-> CASE brought = "no" -> "absent" [] brought = "feed" -> "remote"
                                       [] OTHER -> "proxied"]]
  /\ autosaved = desk
  /\ blobs = In(desk.body, "proxied") /\ tethered = blobs
  /\ live = NoRecordYet /\ pub = NoPub /\ outcome = NoPub /\ touched = 0 /\ past = {}

-----------------------------------------------------------------------------
(* The editor.                                                              *)

Touch == pub = NoPub /\ touched < MaxTouched /\ touched' = touched + 1

(* uploadFile: a picture whose upload fails, or whose answer is lost, stays *)
(* an empty block.                                                          *)
UploadPicture(p) ==
  /\ Touch /\ desk.body[p] = "absent"
  /\ blobs' = blobs \cup {p}
  /\ \/ desk' = [desk EXCEPT !.body[p] = "proxied", !.listed = @ \cup {p}]
     \/ UNCHANGED desk
  /\ UNCHANGED <<tethered, brought, autosaved, live, pub, outcome, past>>

DeletePicture(p) ==
  /\ Touch /\ desk.body[p] # "absent"
  /\ desk' = [desk EXCEPT !.body[p] = "absent"]
  /\ UNCHANGED <<blobs, tethered, brought, autosaved, live, pub, outcome, past>>

Retitle ==
  /\ Touch /\ desk' = [desk EXCEPT !.title = "second"]
  /\ UNCHANGED <<blobs, tethered, brought, autosaved, live, pub, outcome, past>>

Autosave ==
  /\ pub = NoPub /\ live = NoRecordYet /\ autosaved # desk /\ autosaved' = desk
  /\ UNCHANGED <<blobs, tethered, brought, desk, live, pub, outcome, touched, past>>

(* Slip: the editor's list of blobs starts empty. *)
ResumedAnew == desk' = [autosaved EXCEPT !.listed = {}]

(* adopt *)
ResumedWith == desk' = autosaved

(* The page is opened again: on the draft, or on the published post, whose  *)
(* pictures the record lists and the editor does not.                       *)
ReopenEditor ==
  /\ Touch
  /\ IF live = NoRecordYet THEN ResumedWith
     ELSE desk' = [body |-> live.body, listed |-> {}, title |-> live.title]
  /\ UNCHANGED <<blobs, tethered, brought, autosaved, live, pub, outcome, past>>

-----------------------------------------------------------------------------
(* The data server.                                                         *)

Named == IF live = NoRecordYet THEN {} ELSE live.refs \cup ({live.cover} \cap Pic)

LetGo(p) ==
  /\ p \in blobs \ (Named \cup tethered)
  /\ pub # NoPub => p \notin pub.mine
  /\ blobs' = blobs \ {p}
  /\ UNCHANGED <<tethered, brought, desk, autosaved, live, pub, outcome, touched, past>>

DeleteThread ==
  /\ tethered # {} /\ tethered' = {}
  /\ UNCHANGED <<blobs, brought, desk, autosaved, live, pub, outcome, touched, past>>

-----------------------------------------------------------------------------
(* Publishing.                                                              *)

FirstOf(s, n) == {p \in s : Cardinality({q \in s : q <= p}) <= n}

(* Slip: the blobs of the form, whatever the body came to use.              *)
ListedRefs(body, sources) == FirstOf(sources, PicCap)

(* inlineImagesForBody *)
RefsOf(body, sources) == FirstOf(sources \cap In(body, "proxied"), PicCap)

(* Slip: the card the record has stays, whatever the title.                 *)
CardStays(card) == live.card

(* An edit's card is one drawn and uploaded now, or the record's own when   *)
(* the editor drew that one again (keptShareCard): it shows the title.      *)
CardFor(card) == card

Start(way, post) ==
  [way |-> way, at |-> "write", desk |-> post, asked |-> post.body, todo |-> {}, mine |-> {},
   reserved |-> FALSE, known |-> FALSE, cover |-> "none", card |-> NoPicture, budget |-> 0, spent |-> 0, kept |-> 0,
   dropped |-> 0]

(* selectImportItemByDraft, best effort: unread, the draft is one's own.    *)
PressForm ==
  /\ pub = NoPub /\ live = NoRecordYet
  /\ \E card \in {desk.title, NoPicture}, cover \in {"new", "none"}, reserved \in BOOLEAN,
        known \in {brought # "no", FALSE} :
       pub' = [Start("form", desk) EXCEPT
                 !.at = IF known THEN "copy" ELSE "write", !.todo = In(desk.body, "remote"),
                 !.known = known, !.reserved = reserved, !.cover = cover, !.card = card, !.budget = ImageBudget]
  /\ UNCHANGED <<blobs, tethered, brought, desk, autosaved, live, outcome, touched, past>>

PressEdit ==
  /\ pub = NoPub /\ live # NoRecordYet
  /\ \E card \in {desk.title, NoPicture}, cover \in {"new", "none", "remove"} :
       pub' = [Start("edit", desk) EXCEPT !.cover = cover, !.card = CardFor(card)]
  /\ UNCHANGED <<blobs, tethered, brought, desk, autosaved, live, outcome, touched, past>>

(* publishStoredDraft: "publish now" lends it what a cover and a card would *)
(* have cost; the cron has a reserved key and nothing to lend.              *)
PublishStored ==
  /\ pub = NoPub /\ live = NoRecordYet
  /\ \E lent \in {0, ImageBudget + CardBudget} :
       pub' = [Start("stored", autosaved) EXCEPT !.reserved = lent = 0, !.budget = lent]
  /\ UNCHANGED <<blobs, tethered, brought, desk, autosaved, live, outcome, touched, past>>

(* Slip: nothing is put aside for the upload.                               *)
FitsFetch(j) == j.spent + 1 <= j.budget

(* A fetch goes out while the upload after it still fits, and a reference.  *)
Fits(j) == j.spent + 2 <= j.budget
Slots(j) == PicCap - Cardinality(RefsOf(pub.desk.body, pub.desk.listed))

(* rehostBodyImages, one picture: some hops, then the upload; it stays      *)
(* where it is if it cannot be had, or stored.                              *)
CopyPicture ==
  LET p    == Min(pub.todo)
      some == [pub EXCEPT !.todo = @ \ {p}]
      Miss(n) == pub' = [some EXCEPT !.spent = @ + n, !.kept = @ + 1]
      room == Slots(pub) > 0
  IN
  /\ pub # NoPub /\ pub.at = "copy" /\ pub.todo # {}
  /\ IF ~Fits(pub) \/ ~room
     THEN /\ pub' = [pub EXCEPT !.todo = {}, !.kept = @ + Cardinality(pub.todo)]
          /\ UNCHANGED blobs
     ELSE \E hops \in 1..HopCap + 1 :
            LET before == [pub EXCEPT !.spent = @ + hops - 1] IN
            /\ Fits(before)
            /\ \/ Miss(hops) /\ UNCHANGED blobs
               \/ Miss(hops + 1) /\ UNCHANGED blobs
               \/ /\ blobs' = blobs \cup {p}
                  /\ pub' = [some EXCEPT !.spent = @ + hops + 1, !.mine = @ \cup {p},
                                         !.desk.body[p] = "proxied", !.desk.listed = @ \cup {p}]
  /\ UNCHANGED <<tethered, brought, desk, autosaved, live, outcome, touched, past>>

CopiesDone ==
  /\ pub # NoPub /\ pub.at = "copy" /\ pub.todo = {}
  /\ pub' = [pub EXCEPT !.at = "write"]
  /\ UNCHANGED <<blobs, tethered, brought, desk, autosaved, live, outcome, touched, past>>

(* firstInlineImage, for an import without a cover of its own.              *)
Borrowed(j, refs) == IF j.known /\ refs # {} THEN Min(refs) ELSE NoPicture

(* Slip: an edit lists what its own form uploaded.                          *)
FormSources(j) == j.desk.listed

SourcesOf(j) == j.desk.listed \cup (IF j.way = "edit" THEN live.refs ELSE {})

CoverOf(j, refs) ==
  CASE j.cover = "new"                       -> OwnCover
    [] j.cover = "none" /\ j.way = "form"    -> Borrowed(j, refs)
    [] j.cover = "none" /\ j.way = "edit"    -> live.cover
    [] OTHER                                 -> NoPicture

(* buildDocumentRecord, updateDocumentRecord *)
RecordOf(j) ==
  LET refs == RefsOf(j.desk.body, SourcesOf(j)) IN
  [body |-> j.desk.body, refs |-> refs, cover |-> CoverOf(j, refs), card |-> j.card, title |-> j.desk.title]

NamedBy(r) == r.refs \cup ({r.cover} \cap Pic)

(* The page is left for the post, or the dashboard, which says what became  *)
(* of its pictures.                                                         *)
WriteDocument ==
  LET record == RecordOf(pub) IN
  /\ pub # NoPub /\ pub.at = "write" /\ NamedBy(record) \subseteq blobs
  /\ live' = record /\ pub' = NoPub
  /\ desk' = [body |-> record.body, listed |-> {}, title |-> record.title]
  /\ outcome' = [known |-> pub.known, kept |-> pub.kept, dropped |-> pub.dropped, asked |-> pub.asked,
                 went |-> record.body]
  /\ LET shown == In(record.body, "proxied") IN
       past' = IF Cardinality(shown) > PicCap THEN past \cup (shown \ record.refs) ELSE past
  /\ UNCHANGED <<blobs, tethered, brought, autosaved, touched>>

(* Slip: a retry past a missing picture is not charged.                     *)
FreeRetry(j) == j.budget > 0
Cost(j) == IF j.reserved THEN 3 ELSE 1
Retries(j) == j.spent + Cost(j) <= j.budget

(* BlobNotFound: without the picture it names, and once more, while that    *)
(* can be paid for; an edit is refused, and so is one refused for good.     *)
BlobMissing ==
  LET missing == NamedBy(RecordOf(pub)) \ blobs IN
  /\ pub # NoPub /\ pub.at = "write"
  /\ \E p \in missing :
       pub' = IF pub.way # "edit" /\ p \in In(pub.desk.body, "proxied") /\ Retries(pub)
              THEN [pub EXCEPT !.desk.body[p] = "absent", !.spent = @ + Cost(pub), !.dropped = @ + 1]
              ELSE NoPub
  /\ UNCHANGED <<blobs, tethered, brought, desk, autosaved, live, outcome, touched, past>>

PicNext ==
  \/ \E p \in Pic : UploadPicture(p) \/ DeletePicture(p) \/ LetGo(p)
  \/ Retitle \/ Autosave \/ ReopenEditor \/ DeleteThread
  \/ PressForm \/ PressEdit \/ PublishStored
  \/ CopyPicture \/ CopiesDone \/ WriteDocument \/ BlobMissing

PicSpec == PicInit /\ [][PicNext]_picVars

-----------------------------------------------------------------------------
(* Every part has its type; and copies and retries together stay within the *)
(* calls a publish may make.                                                *)
PicTypeOK ==
  /\ {blobs, tethered} \subseteq SUBSET Pic /\ brought \in {"no", "feed", "thread"}
  /\ {desk, autosaved} \subseteq Desk
  /\ live \in DocRecord \cup {NoRecordYet}
  /\ pub \in Job \cup {NoPub} /\ outcome \in Outcome \cup {NoPub}
  /\ pub # NoPub => pub.spent \in 0..pub.budget
  /\ touched \in 0..MaxTouched /\ past \subseteq Pic

(* Every picture a live post shows from the writer's repo is named by its   *)
(* record, up to the cap, and held: through resumed drafts, edits, copies   *)
(* and pictures that were gone by the time.  So no edit loses one it keeps. *)
PicturesServed ==
  live # NoRecordYet =>
    /\ NamedBy(live) \subseteq blobs
    /\ live.refs \subseteq In(live.body, "proxied")
    /\ In(live.body, "proxied") \ live.refs \subseteq past

(* The card a post's previews show is of the title it has.                  *)
CardIsTitle == live # NoRecordYet => live.card \in {live.title, NoPicture}

(* What the writer is told was left out is what was left out; and of what   *)
(* is known for an import, what was left where it was.                      *)
LossesSaid ==
  outcome # NoPub =>
    /\ outcome.dropped = Cardinality({p \in Pic : outcome.asked[p] # "absent" /\ outcome.went[p] = "absent"})
    /\ outcome.known => outcome.kept = Cardinality(In(outcome.went, "remote"))

(* A published post keeps its pictures, its card is its own, and what went   *)
(* missing on the way (rehostBodyImages, withoutInlineImage) is told.        *)
PicturesLast == PicturesServed /\ CardIsTitle /\ LossesSaid
=============================================================================
