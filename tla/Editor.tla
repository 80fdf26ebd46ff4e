------------------------------- MODULE Editor -------------------------------
(***************************************************************************)
(* The editor page and the drafts it saves: tabs that autosave, schedule   *)
(* and publish, the drafts handler behind them, and the network between.   *)
(*                                                                         *)
(* A page runs one event at a time; what it awaits is under way meanwhile. *)
(* A save is one request at a time per page (savingRef) and its steps are  *)
(* the server's awaits.  Words are numbered by the keystroke that made     *)
(* them, so that "newer" means something; a document is those words and    *)
(* the pictures among them.                                                *)
(***************************************************************************)
EXTENDS Integers, FiniteSets

CONSTANTS
  Tab,       \* browser tabs
  DraftId,   \* the ids the drafts handler mints (random UUIDs)
  Image,     \* pictures that may be uploaded
  DraftCap,  \* MAX_DRAFTS_PER_USER
  MaxEdits,  \* bound: keystrokes
  MaxLost,   \* bound: requests and answers the network loses
  MaxOpened, \* bound: pages opened
  Pages,     \* what a tab is opened on in this instance, of PageKinds
  NoDraft, NoRow, NoSave, NoForm

PageKinds == {"new", "draft", "edit"}

ASSUME EditorAssumption ==
  /\ DraftCap \in Nat /\ MaxEdits \in Nat /\ MaxLost \in Nat /\ MaxOpened \in Nat
  /\ Pages \subseteq PageKinds /\ NoDraft \notin DraftId
  /\ IsFiniteSet(Tab) /\ Tab # {}

VARIABLES
  drafts,  \* the drafts table of one writer
  minted,  \* the ids it has handed out
  tab,     \* each tab's page
  opened,  \* pages opened so far
  typed,   \* keystrokes so far
  lost     \* network losses so far

edVars == <<drafts, minted, tab, opened, typed, lost>>

Doc == [words: 0..MaxEdits, pics: SUBSET Image]
Blank == [words |-> 0, pics |-> {}]

(* refs: the blob references stored beside the body.  by: history, the tab  *)
(* that wrote the row last.                                                 *)
Row == [doc: Doc, refs: SUBSET Image, by: Tab]

(* A save under way.  id: the row it updates, or NoDraft to create one.     *)
Save == [step: {"sent", "counted", "answered"}, id: DraftId \cup {NoDraft},
         doc: Doc, refs: SUBSET Image, force: BOOLEAN,
         status: {"none", "ok", "not_found", "limit", "error"},
         made: DraftId \cup {NoDraft}]

Form == [kind: {"publish", "schedule"}, id: DraftId \cup {NoDraft}, doc: Doc,
         refs: SUBSET Image]

(* goal: what the page is waiting for a save in order to do.  asked: the    *)
(* words on screen when the writer pressed the button.  tracked: whether    *)
(* saveInFlightRef is the save under way.  early, cut, own: history: words  *)
(* typed before the editor was ready; an answer to a save was lost; the     *)
(* rows this page created.                                                  *)
Page == [at: {"closed", "loading", "open", "posting", "landed", "refused"},
         editing: BOOLEAN, id: DraftId \cup {NoDraft}, doc: Doc, store: SUBSET Image,
         dirty: BOOLEAN, timer: BOOLEAN, tracked: BOOLEAN,
         goal: {"none", "wait_publish", "flush", "wait_schedule", "force"},
         asked: 0..MaxEdits, shown: {"fine", "error", "limit"},
         form: Form \cup {NoForm}, save: Save \cup {NoSave},
         early: BOOLEAN, cut: BOOLEAN, own: SUBSET DraftId]

ASSUME EditorNullsAssumption == NoRow \notin Row /\ NoSave \notin Save /\ NoForm \notin Form

(* Compose's first render. *)
Mounted(editing, id, doc, store) ==
  [at |-> "loading", editing |-> editing, id |-> id, doc |-> doc, store |-> store,
   dirty |-> FALSE, timer |-> FALSE, tracked |-> FALSE, goal |-> "none",
   asked |-> 0, shown |-> "fine",
   form |-> NoForm, save |-> NoSave, early |-> FALSE, cut |-> FALSE,
   own |-> {}]

Closed == [Mounted(FALSE, NoDraft, Blank, {}) EXCEPT !.at = "closed"]

EdInit ==
  /\ drafts = [d \in DraftId |-> NoRow]
  /\ minted = {}
  /\ tab = [t \in Tab |-> Closed]
  /\ opened = 0
  /\ typed = 0
  /\ lost = 0

Rows == {d \in DraftId : drafts[d] # NoRow}
Publishing(p) ==
  p.goal \in {"wait_publish", "flush"} \/ (p.form # NoForm /\ p.form.kind = "publish")
Saving(p) == p.save # NoSave
Live(t) == tab[t].at \in {"open", "posting", "landed"}

Becomes(t, p) == tab' = [tab EXCEPT ![t] = p]
Lose == lost < MaxLost /\ lost' = lost + 1

-----------------------------------------------------------------------------
(* The page's saves.                                                        *)

Sent(p, id, force) ==
  [step |-> "sent", id |-> id, doc |-> p.doc, refs |-> p.store, force |-> force,
   status |-> "none", made |-> NoDraft]

(* runSave's refusals: nothing is sent. *)
NothingToSave(p, force) ==
  \/ p.editing
  \/ Saving(p)
  \/ Publishing(p) /\ ~force
  \/ ~p.dirty /\ ~force
  \/ p.id = NoDraft /\ p.doc = Blank

(* saveDraft: a refused run replaces saveInFlightRef too, and clears it.    *)
SaveDraft(p, force) ==
  IF NothingToSave(p, force)
  THEN [p EXCEPT !.tracked = FALSE]
  ELSE [p EXCEPT !.save = Sent(p, p.id, force), !.dirty = FALSE,
                 !.shown = "fine", !.tracked = TRUE]

Submit(p, kind) ==
  [p EXCEPT !.at = "posting", !.goal = "none", !.timer = @ /\ kind = "schedule",
            !.form = [kind |-> kind, id |-> p.id, doc |-> p.doc, refs |-> p.store]]

Stay(p) == [p EXCEPT !.goal = "none", !.asked = 0]

(* handleSubmit's flush, and the submit after it. *)
Flush(p) ==
  LET q == IF p.dirty THEN SaveDraft([p EXCEPT !.goal = "flush"], TRUE) ELSE p
  IN  IF p.dirty /\ q.save # p.save THEN q ELSE Submit(q, "publish")

(* Slip: the schedule form goes out whether or not the save did. *)
ForcedUnchecked(p) ==
  LET q == SaveDraft([p EXCEPT !.goal = "force"], TRUE)
  IN  IF q.save # p.save THEN q
      ELSE IF p.id # NoDraft THEN Submit(q, "schedule") ELSE Stay(q)

(* prepareForSchedule's forced save; a refusal schedules nothing. *)
Forced(p) ==
  LET q == SaveDraft([p EXCEPT !.goal = "force"], TRUE)
  IN  IF q.save # p.save THEN q ELSE Stay(q)

(* What awaited the save goes on when it has settled. *)
Continue(p, saved) ==
  CASE p.goal = "wait_publish" -> Flush(p)
    [] p.goal = "flush" -> Submit(p, "publish")
    [] p.goal = "wait_schedule" -> Forced(p)
    [] p.goal = "force" -> IF saved THEN Submit(p, "schedule") ELSE Stay(p)
    [] OTHER -> p

(* Slip: edits made during the save wait for the next keystroke. *)
SettleIdle(p, saved, shown) ==
  LET q == [p EXCEPT !.save = NoSave, !.tracked = FALSE, !.shown = shown,
                     !.dirty = @ \/ ~saved]
  IN  Continue(q, saved)

(* Slip: a save that failed leaves the page clean. *)
SettleClean(p, saved, shown) ==
  LET q == [p EXCEPT !.save = NoSave, !.tracked = FALSE, !.shown = shown,
                     !.timer = @ \/ (saved /\ p.dirty)]
  IN  Continue(q, saved)

(* runSave's end: a failure leaves the page dirty, a success picks up the   *)
(* edits that came meanwhile.                                               *)
Settle(p, saved, shown) ==
  LET q == [p EXCEPT !.save = NoSave, !.tracked = FALSE, !.shown = shown,
                     !.dirty = @ \/ ~saved, !.timer = @ \/ (saved /\ p.dirty)]
  IN  Continue(q, saved)

(* Slip: a draft deleted elsewhere is recreated during a publish as well. *)
RecreatesAlways(p) == p.save.status = "not_found" /\ p.id # NoDraft

Recreates(p) ==
  /\ p.save.status = "not_found"
  /\ p.id # NoDraft
  /\ p.save.force \/ ~Publishing(p)

(* The answer reaches the page. *)
Answered(t) ==
  LET p == tab[t] IN
  /\ Live(t) /\ Saving(p) /\ p.save.step = "answered"
  /\ Becomes(t,
       IF Recreates(p)
       THEN [p EXCEPT !.id = NoDraft,
                      !.save = [@ EXCEPT !.step = "sent", !.id = NoDraft,
                                         !.status = "none"]]
       ELSE IF p.save.status = "ok"
       THEN Settle([p EXCEPT !.id = IF @ = NoDraft THEN p.save.made ELSE @], TRUE, "fine")
       ELSE Settle(p, FALSE, IF p.save.status = "limit" THEN "limit" ELSE "error"))
  /\ UNCHANGED <<drafts, minted, opened, typed, lost>>

-----------------------------------------------------------------------------
(* The drafts handler.                                                      *)

Answer(t, status, made) ==
  Becomes(t, [tab[t] EXCEPT !.save = [@ EXCEPT !.step = "answered", !.status = status,
                                               !.made = made]])

(* updateDraft: the references are left alone when the save carries none. *)
Updated(row, s, t) ==
  [row EXCEPT !.doc = s.doc, !.refs = IF s.refs = {} THEN @ ELSE s.refs, !.by = t]

UpdateDraft(t) ==
  LET s == tab[t].save IN
  /\ Saving(tab[t]) /\ s.step = "sent" /\ s.id # NoDraft
  /\ IF drafts[s.id] = NoRow
     THEN Answer(t, "not_found", NoDraft) /\ UNCHANGED drafts
     ELSE /\ drafts' = [drafts EXCEPT ![s.id] = Updated(@, s, t)]
          /\ Answer(t, "ok", s.id)
  /\ UNCHANGED <<minted, opened, typed, lost>>

(* Slip: the cap is not looked at. *)
UnderAnyCap == TRUE

UnderCap == Cardinality(Rows) < DraftCap

CountDrafts(t) ==
  LET s == tab[t].save IN
  /\ Saving(tab[t]) /\ s.step = "sent" /\ s.id = NoDraft
  /\ IF UnderCap
     THEN Becomes(t, [tab[t] EXCEPT !.save = [@ EXCEPT !.step = "counted"]])
     ELSE Answer(t, "limit", NoDraft)
  /\ UNCHANGED <<drafts, minted, opened, typed, lost>>

InsertDraft(t) ==
  LET s == tab[t].save IN
  /\ Saving(tab[t]) /\ s.step = "counted"
  /\ \E d \in DraftId \ minted :
       /\ minted' = minted \cup {d}
       /\ drafts' = [drafts EXCEPT ![d] = [doc |-> s.doc, refs |-> s.refs, by |-> t]]
       /\ tab' = [tab EXCEPT ![t].save.step = "answered", ![t].save.status = "ok",
                             ![t].save.made = d, ![t].own = @ \cup {d}]
  /\ UNCHANGED <<opened, typed, lost>>

(* The network loses a request before the server acts on it, or the answer; *)
(* an answer that cannot be read is lost too.                               *)
LoseSave(t) ==
  /\ Saving(tab[t]) /\ tab[t].save.status \in {"none", "ok"} /\ Lose
  /\ tab' = [tab EXCEPT ![t].save.step = "answered", ![t].save.status = "error",
                        ![t].cut = @ \/ tab[t].save.status = "ok"]
  /\ UNCHANGED <<drafts, minted, opened, typed>>

(* A page that is gone: its request runs on (keepalive) or is dropped.      *)
Forgotten(t) ==
  /\ ~Live(t) /\ Saving(tab[t])
  /\ IF tab[t].save.step = "answered" THEN UNCHANGED lost ELSE Lose
  /\ tab' = [tab EXCEPT ![t].save = NoSave]
  /\ UNCHANGED <<drafts, minted, opened, typed>>

(* The writer deletes a draft from the posts page. *)
DeleteDraft(d) ==
  /\ drafts[d] # NoRow
  /\ drafts' = [drafts EXCEPT ![d] = NoRow]
  /\ UNCHANGED <<minted, tab, opened, typed, lost>>

-----------------------------------------------------------------------------
(* The writer at a page.                                                    *)

(* Slip: the stored references are not taken on. *)
ResumedBare(d) == Mounted(FALSE, d, drafts[d].doc, {})

Resumed(d) == Mounted(FALSE, d, drafts[d].doc, drafts[d].refs)

(* getWriteContext: a draft that is gone, or that cannot be read, opens a   *)
(* fresh page.                                                              *)
Fresh(t) == Becomes(t, Mounted(FALSE, NoDraft, Blank, {}))

Loaded(t, d) ==
  IF d \in Rows
  THEN (Becomes(t, Resumed(d)) /\ UNCHANGED lost) \/ (Fresh(t) /\ Lose)
  ELSE Fresh(t) /\ UNCHANGED lost

Open(t) ==
  /\ tab[t].at = "closed" /\ ~Saving(tab[t]) /\ opened < MaxOpened
  /\ opened' = opened + 1
  /\ \/ "new" \in Pages /\ Loaded(t, NoDraft)
     \/ "draft" \in Pages /\ \E d \in minted : Loaded(t, d)
     \/ "edit" \in Pages /\ Becomes(t, Mounted(TRUE, NoDraft, Blank, {})) /\ UNCHANGED lost
  /\ UNCHANGED <<drafts, minted, typed>>

EditorReady(t) ==
  /\ tab[t].at = "loading"
  /\ tab' = [tab EXCEPT ![t].at = "open"]
  /\ UNCHANGED <<drafts, minted, opened, typed, lost>>

(* handleDraftChange: a change is ignored until the editor is ready, and    *)
(* once publishing has begun.                                               *)
Noticed(p) ==
  IF p.at = "loading" THEN [p EXCEPT !.early = TRUE]
  ELSE IF Publishing(p) THEN p
  ELSE [p EXCEPT !.dirty = TRUE, !.timer = @ \/ ~p.editing]

Type(t) ==
  /\ tab[t].at \in {"loading", "open"} /\ typed < MaxEdits
  /\ typed' = typed + 1
  /\ Becomes(t, Noticed([tab[t] EXCEPT !.doc.words = typed + 1]))
  /\ UNCHANGED <<drafts, minted, opened, lost>>

(* uploadFile: the store remembers the blob before the block shows it. *)
InsertImage(t, i) ==
  /\ tab[t].at = "open" /\ typed < MaxEdits
  /\ typed' = typed + 1
  /\ Becomes(t, Noticed([tab[t] EXCEPT !.store = @ \cup {i}, !.doc.words = typed + 1,
                                       !.doc.pics = @ \cup {i}]))
  /\ UNCHANGED <<drafts, minted, opened, lost>>

TimerFires(t) ==
  /\ Live(t) /\ tab[t].timer
  /\ Becomes(t, SaveDraft([tab[t] EXCEPT !.timer = FALSE], FALSE))
  /\ UNCHANGED <<drafts, minted, opened, typed, lost>>

Blur(t) ==
  LET p == tab[t] IN
  /\ p.at = "open" /\ ~p.editing /\ p.dirty
  /\ Becomes(t, SaveDraft([p EXCEPT !.timer = FALSE], FALSE))
  /\ UNCHANGED <<drafts, minted, opened, typed, lost>>

(* handleSubmit. *)
Publish(t) ==
  LET p == [tab[t] EXCEPT !.timer = FALSE, !.asked = tab[t].doc.words] IN
  /\ p.at = "open" /\ p.goal = "none"
  /\ Becomes(t, IF p.editing \/ (~p.tracked /\ ~p.dirty) THEN Submit(p, "publish")
                ELSE IF p.tracked THEN [p EXCEPT !.goal = "wait_publish"]
                ELSE Flush(p))
  /\ UNCHANGED <<drafts, minted, opened, typed, lost>>

(* handleSchedule, through prepareForSchedule. *)
Schedule(t) ==
  LET p == [tab[t] EXCEPT !.timer = FALSE, !.asked = tab[t].doc.words] IN
  /\ p.at = "open" /\ p.goal = "none" /\ ~p.editing
  /\ Becomes(t, IF p.tracked THEN [p EXCEPT !.goal = "wait_schedule"] ELSE Forced(p))
  /\ UNCHANGED <<drafts, minted, opened, typed, lost>>

(* The tab is left, or goes where a form's answer sends it. *)
Leave(t) ==
  /\ tab[t].at \in {"loading", "open", "landed"}
  /\ tab' = [tab EXCEPT ![t] = [Closed EXCEPT !.save = tab[t].save]]
  /\ UNCHANGED <<drafts, minted, opened, typed, lost>>

-----------------------------------------------------------------------------
(* The forms' answers.                                                      *)

PublishLands(t) ==
  LET f == tab[t].form IN
  /\ tab[t].at = "posting" /\ f.kind = "publish"
  /\ drafts' = [d \in DraftId |-> IF d = f.id THEN NoRow ELSE drafts[d]]
  /\ tab' = [tab EXCEPT ![t].at = "landed"]
  /\ UNCHANGED <<minted, opened, typed, lost>>

(* scheduleDraft saved a due date; or one of the forms was refused. *)
FormAnswered(t) ==
  /\ tab[t].at = "posting"
  /\ \/ tab[t].form.kind = "schedule" /\ tab' = [tab EXCEPT ![t].at = "landed"]
     \/ tab' = [tab EXCEPT ![t].at = "refused"]
  /\ UNCHANGED <<drafts, minted, opened, typed, lost>>

(* backToDraft, or back to the edited post.  (The page comes back after the *)
(* last request of the old one is through.)                                 *)
ComeBack(t) ==
  LET p == tab[t] IN
  /\ p.at = "refused" /\ ~Saving(p)
  /\ IF p.editing
     THEN Becomes(t, Mounted(TRUE, NoDraft, Blank, {})) /\ UNCHANGED lost
     ELSE Loaded(t, p.form.id)
  /\ UNCHANGED <<drafts, minted, opened, typed>>

EdNext ==
  \/ \E t \in Tab :
       \/ Open(t) \/ EditorReady(t) \/ Type(t) \/ (\E i \in Image : InsertImage(t, i))
       \/ TimerFires(t) \/ Blur(t) \/ Publish(t) \/ Schedule(t) \/ Leave(t)
       \/ Answered(t) \/ UpdateDraft(t) \/ CountDrafts(t) \/ InsertDraft(t)
       \/ LoseSave(t) \/ Forgotten(t)
       \/ PublishLands(t) \/ FormAnswered(t) \/ ComeBack(t)
  \/ \E d \in DraftId : DeleteDraft(d)

EdSpec == EdInit /\ [][EdNext]_edVars

(* The browser's timers and the server make progress; nothing is assumed of *)
(* the writer.                                                              *)
EdFairness ==
  \A t \in Tab : /\ WF_edVars(TimerFires(t)) /\ WF_edVars(Answered(t))
                 /\ WF_edVars(UpdateDraft(t)) /\ WF_edVars(CountDrafts(t))
                 /\ WF_edVars(InsertDraft(t))

EdFairSpec == EdSpec /\ EdFairness

-----------------------------------------------------------------------------
EdTypeOK ==
  /\ drafts \in [DraftId -> Row \cup {NoRow}]
  /\ minted \subseteq DraftId
  /\ tab \in [Tab -> Page]
  /\ opened \in 0..MaxOpened
  /\ typed \in 0..MaxEdits
  /\ lost \in 0..MaxLost

(* A page that would be left without a warning has lost nothing: a clean    *)
(* composition's words are stored, unless another tab has written the row   *)
(* since or it was deleted; a clean edit has not been touched.  The words   *)
(* of a save under way, and those typed before the editor was ready, are    *)
(* not covered by the code's warning.                                       *)
CleanIsStored ==
  \A t \in Tab :
    LET p == tab[t] IN
    (p.at = "open" /\ ~p.dirty /\ ~Saving(p) /\ ~p.early /\ ~Publishing(p)) =>
      IF p.id = NoDraft THEN p.doc = Blank
      ELSE LET row == drafts[p.id] IN
           row # NoRow /\ row.by = t => row.doc.words >= p.doc.words

(* What the writer pressed the button on is stored when the form goes out:  *)
(* always for a schedule, which publishes what is stored; for a publish     *)
(* when the flush went through (a refusal hands the stored row back).       *)
PressedIsStored ==
  \A t \in Tab :
    LET p == tab[t] IN
    /\ p.at = "posting" /\ ~p.editing /\ ~p.early
    /\ p.form.kind = "schedule" \/ ~p.dirty
    /\ p.form.doc # Blank
    => /\ p.form.id # NoDraft
       /\ drafts[p.form.id] # NoRow /\ drafts[p.form.id].by = t
          => drafts[p.form.id].doc.words >= p.asked

(* What the page takes to be stored is stored.                              *)
WordsStored == CleanIsStored /\ PressedIsStored

(* A publish that named its draft completes it: nothing the tab saved       *)
(* before, during or after brings it back (a save whose answer was lost     *)
(* may have left a row the page never heard of).                            *)
CompletedStaysGone ==
  \A t \in Tab :
    LET p == tab[t] IN
    p.at = "landed" /\ p.form.kind = "publish" /\ p.form.id # NoDraft /\ ~p.cut =>
      /\ Rows \cap p.own = {}
      /\ Saving(p) => p.save.id # NoDraft

(* Every picture in a stored or published body is referenced beside it, or  *)
(* the writer's server would drop it.                                       *)
PicturesKept ==
  /\ \A d \in Rows : drafts[d].doc.pics \subseteq drafts[d].refs
  /\ \A t \in Tab : tab[t].at = "landed" => tab[t].form.doc.pics \subseteq tab[t].form.refs

(* The cap is counted and then inserted under: racing tabs may pass it, by  *)
(* no more than one each.                                                   *)
CapSlack == Cardinality(Rows) <= DraftCap + Cardinality(Tab) - 1

(* Edits are saved in the end, or the page says that they are not (as long  *)
(* as the bounded supply of ids lasts).                                     *)
EditsGetSaved ==
  \A t \in Tab :
    (tab[t].at = "open" /\ tab[t].dirty /\ ~tab[t].editing) ~>
      (tab[t].at # "open" \/ ~tab[t].dirty \/ tab[t].shown # "fine" \/ minted = DraftId)

(* Violated: a publish never leaves the draft it was written in behind.     *)
NoOrphan ==
  \A t \in Tab :
    tab[t].at = "landed" /\ tab[t].form.kind = "publish" /\ ~Saving(tab[t]) =>
      Rows \cap tab[t].own = {}
=============================================================================
