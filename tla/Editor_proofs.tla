---------------------------- MODULE Editor_proofs ----------------------------
(***************************************************************************)
(* Proofs about the editor page and its drafts, for any number of tabs,    *)
(* drafts, pictures, keystrokes and losses: what the page takes to be      *)
(* stored is stored, a published draft stays gone, every picture is        *)
(* referenced, and racing tabs pass the cap by no more than one each.      *)
(***************************************************************************)
EXTENDS Editor, FiniteSetTheorems, TLAPS

-----------------------------------------------------------------------------
(* What a page is like in itself.                                           *)

OutPage(p) == p.at \in {"posting", "landed", "refused"}

(* A form is there once it has been posted; what a page waits for is a save *)
(* under way; an edit of a post saves nothing; and a page that waits for    *)
(* nothing has lost track of its save, or has a timer running beside it,    *)
(* only when there is more to save.                                         *)
Shaped(p) ==
  /\ p.at = "loading" => ~Saving(p) /\ ~p.dirty /\ ~p.timer
  /\ OutPage(p) <=> p.form # NoForm
  /\ p.goal # "none" => p.at = "open" /\ Saving(p)
  /\ p.tracked => p.at = "refused" \/ (Saving(p) /\ p.at # "closed")
  /\ p.editing => ~Saving(p) /\ p.id = NoDraft
  /\ p.at = "open" /\ p.goal = "none" /\ Saving(p) /\ (~p.tracked \/ p.timer) => p.dirty
  /\ OutPage(p) /\ p.form.kind = "publish" /\ p.form.id # NoDraft => p.id = p.form.id

(* A save of a page that is there is of the draft the page has, and forced  *)
(* only as long as the page waits for it.                                   *)
StepShaped(s) ==
  /\ s.step = "answered" <=> s.status # "none"
  /\ s.step = "counted" => s.id = NoDraft
  /\ s.status = "ok" => s.made # NoDraft /\ (s.id # NoDraft => s.made = s.id)
  /\ s.status = "not_found" => s.id # NoDraft
SaveShaped(p) ==
  Saving(p) =>
    /\ StepShaped(p.save)
    /\ p.at # "closed" => p.save.id = p.id /\ (p.save.force => p.goal \in {"flush", "force"})

(* Every picture of what the page holds and sends is remembered beside it.  *)
PicturesHeld(p) ==
  /\ p.doc.pics \subseteq p.store
  /\ Saving(p) => p.save.doc.pics \subseteq p.save.refs
  /\ p.form # NoForm => p.form.doc.pics \subseteq p.form.refs

(* A form whose words are stored if they ever are. *)
Pressed(p) == p.at = "posting" /\ ~p.editing /\ (p.form.kind = "schedule" \/ ~p.dirty)

(* A save carries the words on screen unless there is more to save, and     *)
(* those the button was pressed on once the page waits for it.              *)
WordsCarried(p) ==
  ~p.early =>
    /\ p.goal # "none" \/ p.at = "posting" => p.asked <= p.doc.words
    /\ p.at = "open" /\ Saving(p) /\ ~p.dirty /\ ~Publishing(p) => p.save.doc.words >= p.doc.words
    /\ p.goal = "wait_publish" /\ ~p.dirty => p.save.doc.words >= p.asked
    /\ p.goal \in {"flush", "force"} => p.save.doc.words >= p.asked
    /\ Pressed(p) /\ Saving(p) => p.save.doc.words >= p.asked

PageWell(p) == p \in Page /\ Shaped(p) /\ SaveShaped(p) /\ PicturesHeld(p) /\ WordsCarried(p)

-----------------------------------------------------------------------------
(* What the table has of it.                                                *)

(* The drafts a page may name have been minted. *)
IdsOf(p) ==
  {p.id} \cup p.own \cup (IF Saving(p) THEN {p.save.id, p.save.made} ELSE {})
         \cup (IF p.form # NoForm THEN {p.form.id} ELSE {})

(* A row this tab wrote last holds words no older than these. *)
Stores(d, t, n) == drafts[d] # NoRow /\ drafts[d].by = t => drafts[d].doc.words >= n

(* A page with nothing to save has it all stored. *)
AtRest(p) == p.at \in {"loading", "open"} /\ ~p.early /\ ~p.dirty /\ ~Saving(p)
RestStored(p, t) ==
  AtRest(p) => IF p.id = NoDraft THEN p.doc = Blank ELSE Stores(p.id, t, p.doc.words)

(* A save answered well is stored, and one answered "not found" is gone.    *)
AnswerTrue(p, t) ==
  Saving(p) => /\ p.save.status = "ok" => Stores(p.save.made, t, p.save.doc.words)
               /\ p.save.status = "not_found" => drafts[p.save.id] = NoRow

FormStored(p, t) ==
  Pressed(p) /\ ~p.early /\ p.form.doc # Blank => p.form.id # NoDraft /\ Stores(p.form.id, t, p.asked)

(* The rows the page made and does not have any more are gone. *)
KnownRow(p) ==
  IF p.id # NoDraft THEN {p.id}
  ELSE IF Saving(p) /\ p.save.status = "ok" THEN {p.save.made} ELSE {}
OwnKnown(p) == p.at \notin {"closed", "refused"} /\ ~p.cut => Rows \cap p.own \subseteq KnownRow(p)

Completed(p) ==
  p.at = "landed" /\ p.form.kind = "publish" /\ p.form.id # NoDraft => drafts[p.form.id] = NoRow

PageTrue(p, t) ==
  /\ p.doc.words <= typed /\ (Saving(p) => p.save.doc.words <= typed)
  /\ IdsOf(p) \subseteq minted \cup {NoDraft}
  /\ RestStored(p, t) /\ AnswerTrue(p, t) /\ FormStored(p, t) /\ OwnKnown(p) /\ Completed(p)

EditorInv ==
  /\ EdTypeOK
  /\ Rows \subseteq minted
  /\ \A d \in Rows : drafts[d].doc.pics \subseteq drafts[d].refs /\ drafts[d].doc.words <= typed
  /\ \A t \in Tab : PageWell(tab[t]) /\ PageTrue(tab[t], t)

(* The drafts a tab has counted and not yet inserted. *)
Counting == {t \in Tab : Saving(tab[t]) /\ tab[t].save.step = "counted"}
CapInv == IsFiniteSet(Rows) /\ Cardinality(Rows) + Cardinality(Counting) <= DraftCap + Cardinality(Tab) - 1

-----------------------------------------------------------------------------
(* The assumptions on the constants. *)
LEMMA EdBounds ==
  /\ DraftCap \in Nat /\ MaxEdits \in Nat /\ MaxLost \in Nat /\ MaxOpened \in Nat
  /\ NoDraft \notin DraftId /\ NoRow \notin Row /\ NoSave \notin Save /\ NoForm \notin Form
  /\ IsFiniteSet(Tab) /\ Tab # {} /\ Blank \in Doc
BY EditorAssumption, EditorNullsAssumption DEF Blank, Doc

LEMMA PageFields ==
  ASSUME NEW p \in Page
  PROVE  /\ p.doc \in Doc /\ p.doc.words \in 0..MaxEdits /\ p.doc.pics \in SUBSET Image
         /\ p.store \in SUBSET Image /\ p.asked \in 0..MaxEdits
         /\ p.id \in DraftId \cup {NoDraft} /\ p.own \in SUBSET DraftId
         /\ p.at \in {"closed", "loading", "open", "posting", "landed", "refused"}
         /\ p.editing \in BOOLEAN /\ p.dirty \in BOOLEAN /\ p.timer \in BOOLEAN /\ p.tracked \in BOOLEAN
         /\ p.early \in BOOLEAN /\ p.cut \in BOOLEAN
         /\ p.goal \in {"none", "wait_publish", "flush", "wait_schedule", "force"}
         /\ p.shown \in {"fine", "error", "limit"}
         /\ p.form \in Form \cup {NoForm} /\ p.save \in Save \cup {NoSave}
BY DEF Page, Doc

LEMMA SaveFields ==
  ASSUME NEW p \in Page, Saving(p)
  PROVE  /\ p.save \in Save /\ p.save.doc \in Doc /\ p.save.doc.words \in 0..MaxEdits
         /\ p.save.doc.pics \in SUBSET Image /\ p.save.refs \in SUBSET Image
         /\ p.save.id \in DraftId \cup {NoDraft} /\ p.save.made \in DraftId \cup {NoDraft}
         /\ p.save.step \in {"sent", "counted", "answered"} /\ p.save.force \in BOOLEAN
         /\ p.save.status \in {"none", "ok", "not_found", "limit", "error"}
BY DEF Page, Save, Doc, Saving

LEMMA FormFields ==
  ASSUME NEW p \in Page, p.form # NoForm
  PROVE  /\ p.form \in Form /\ p.form.kind \in {"publish", "schedule"} /\ p.form.doc \in Doc
         /\ p.form.id \in DraftId \cup {NoDraft}
BY DEF Page, Form

LEMMA MountedPage ==
  ASSUME NEW editing \in BOOLEAN, NEW id \in DraftId \cup {NoDraft}, NEW doc \in Doc, NEW store \in SUBSET Image
  PROVE  LET p == Mounted(editing, id, doc, store) IN
         /\ p \in Page /\ p.at = "loading" /\ (p.editing <=> editing) /\ p.id = id /\ p.doc = doc
         /\ p.store = store /\ ~p.dirty /\ ~p.timer /\ ~p.tracked /\ p.goal = "none" /\ p.form = NoForm
         /\ p.save = NoSave /\ ~p.early /\ ~p.cut /\ p.own = {}
<1>1. 0 \in 0..MaxEdits
  BY EdBounds
<1> QED BY <1>1 DEF Mounted, Page

LEMMA ClosedPage ==
  /\ Closed \in Page /\ Closed.at = "closed" /\ Closed.id = NoDraft /\ Closed.doc = Blank
  /\ Closed.goal = "none" /\ Closed.form = NoForm /\ Closed.save = NoSave /\ Closed.own = {}
  /\ ~Closed.dirty /\ ~Closed.timer /\ ~Closed.tracked /\ ~Closed.editing
<1> DEFINE m == Mounted(FALSE, NoDraft, Blank, {})
<1>1. /\ m \in Page /\ m.at = "loading" /\ m.id = NoDraft /\ m.doc = Blank
      /\ ~m.dirty /\ ~m.timer /\ ~m.tracked /\ ~m.editing /\ m.goal = "none" /\ m.form = NoForm
      /\ m.save = NoSave /\ m.own = {}
  BY EdBounds DEF Mounted, Page
<1>2. Closed = [m EXCEPT !.at = "closed"]
  BY DEF Closed
<1> HIDE DEF m
<1> QED BY <1>1, <1>2 DEF Page

LEMMA HoldsLess ==
  ASSUME EdTypeOK, NEW d \in DraftId, NEW t \in Tab, NEW n \in Nat, NEW m \in Nat, n <= m, Stores(d, t, m)
  PROVE  Stores(d, t, n)
<1>1. drafts[d] # NoRow => drafts[d].doc.words \in Nat
  BY EdBounds DEF EdTypeOK, Row, Doc
<1> QED BY <1>1 DEF Stores

-----------------------------------------------------------------------------
(* One tab moves; the others stand.                                         *)
LEMMA Stands ==
  ASSUME NEW p \in Page, NEW t \in Tab, typed \in Nat, typed' \in Nat, typed <= typed',
         UNCHANGED <<drafts, minted>>, PageTrue(p, t)
  PROVE  PageTrue(p, t)'
<1>1. p.doc.words \in Nat /\ (Saving(p) => p.save.doc.words \in Nat)
  BY PageFields, SaveFields, EdBounds
<1> QED BY <1>1 DEF PageTrue, RestStored, AnswerTrue, FormStored, OwnKnown, Completed, Stores, Rows

LEMMA PageMoves ==
  ASSUME EditorInv, NEW t \in Tab, NEW q \in Page, tab' = [tab EXCEPT ![t] = q],
         UNCHANGED <<drafts, minted>>, typed' \in 0..MaxEdits, typed <= typed',
         opened' \in 0..MaxOpened, lost' \in 0..MaxLost, PageWell(q), PageTrue(q, t)'
  PROVE  EditorInv'
<1>1. EdTypeOK /\ EdTypeOK'
  BY DEF EditorInv, EdTypeOK
<1>2. tab'[t] = q /\ \A u \in Tab : u # t => tab'[u] = tab[u]
  BY <1>1 DEF EdTypeOK
<1>3. typed \in Nat /\ typed' \in Nat
  BY <1>1, EdBounds DEF EdTypeOK
<1>4. ASSUME NEW u \in Tab PROVE PageWell(tab[u])' /\ PageTrue(tab[u], u)'
  <2>1. CASE u = t
    BY <1>2, <2>1 DEF PageTrue, RestStored, AnswerTrue, FormStored, OwnKnown, Completed, Stores
  <2>2. CASE u # t
    <3>1. PICK p \in Page : p = tab[u]
      BY <1>1 DEF EdTypeOK
    <3>2. PageWell(p) /\ PageTrue(p, u)
      BY <3>1 DEF EditorInv
    <3>3. PageTrue(p, u)'
      BY <1>3, <3>2, Stands
    <3>4. tab'[u] = p
      BY <1>2, <2>2, <3>1
    <3> QED BY <3>2, <3>3, <3>4
  <2> QED BY <2>1, <2>2
<1>5. \A d \in Rows : drafts[d].doc.words \in Nat
  BY <1>1, EdBounds DEF EdTypeOK, Rows, Row, Doc
<1> QED BY <1>1, <1>3, <1>4, <1>5 DEF EditorInv, Rows

-----------------------------------------------------------------------------
(* A page being worked on: what holds of it whatever it waits for, and what *)
(* depends on that.                                                         *)
HeldPage(p, t) ==
  /\ p \in Page /\ p.at \in {"open", "posting", "landed"}
  /\ OutPage(p) <=> p.form # NoForm
  /\ p.tracked => Saving(p)
  /\ p.editing => ~Saving(p) /\ p.id = NoDraft
  /\ OutPage(p) /\ p.form.kind = "publish" /\ p.form.id # NoDraft => p.id = p.form.id
  /\ Saving(p) => StepShaped(p.save) /\ p.save.id = p.id /\ p.save.doc.words <= typed
  /\ PicturesHeld(p) /\ p.doc.words <= typed
  /\ IdsOf(p) \subseteq minted \cup {NoDraft}
  /\ AnswerTrue(p, t) /\ OwnKnown(p) /\ Completed(p)

Waits(p, t) ==
  /\ p.goal # "none" => p.at = "open" /\ Saving(p)
  /\ p.at = "open" /\ p.goal = "none" /\ Saving(p) /\ (~p.tracked \/ p.timer) => p.dirty
  /\ Saving(p) /\ p.save.force => p.goal \in {"flush", "force"}
  /\ WordsCarried(p) /\ RestStored(p, t) /\ FormStored(p, t)

LEMMA HeldAndWaiting ==
  ASSUME NEW p \in Page, NEW t \in Tab, p.at \in {"open", "posting", "landed"}
  PROVE  PageWell(p) /\ PageTrue(p, t) <=> HeldPage(p, t) /\ Waits(p, t)
BY DEF PageWell, PageTrue, HeldPage, Waits, Shaped, SaveShaped

LEMMA SaveDraftHeld ==
  ASSUME NEW p \in Page, NEW t \in Tab, NEW force \in BOOLEAN, HeldPage(p, t)
  PROVE  LET q == SaveDraft(p, force) IN
         /\ HeldPage(q, t) /\ q \in Page
         /\ q.at = p.at /\ q.form = p.form /\ q.goal = p.goal /\ q.asked = p.asked /\ q.doc = p.doc
         /\ q.id = p.id /\ q.store = p.store /\ q.early = p.early /\ q.editing = p.editing
         /\ q.timer = p.timer
         /\ NothingToSave(p, force) => q.save = p.save /\ q.dirty = p.dirty /\ ~q.tracked
         /\ ~NothingToSave(p, force) =>
              /\ Saving(q) /\ ~Saving(p) /\ ~q.dirty /\ q.tracked /\ ~p.editing
              /\ q.save.doc = p.doc /\ q.save.force = force
<1>0. p.doc \in Doc /\ p.store \in SUBSET Image /\ p.id \in DraftId \cup {NoDraft}
  BY PageFields
<1>q. PICK q : q = SaveDraft(p, force)
  OBVIOUS
<1>s. PICK s : s = Sent(p, p.id, force)
  OBVIOUS
<1>1. CASE NothingToSave(p, force)
  <2>1. q = [p EXCEPT !.tracked = FALSE]
    BY <1>1, <1>q DEF SaveDraft
  <2>2. q \in Page
    BY <2>1 DEF Page
  <2>3. /\ q.at = p.at /\ q.form = p.form /\ q.goal = p.goal /\ q.asked = p.asked
        /\ q.doc = p.doc /\ q.id = p.id /\ q.store = p.store /\ q.own = p.own /\ q.save = p.save
    BY <2>1 DEF Page
  <2>4. /\ q.early = p.early /\ q.editing = p.editing /\ q.timer = p.timer /\ q.cut = p.cut
        /\ q.dirty = p.dirty /\ ~q.tracked
    BY <2>1 DEF Page
  <2>5. HeldPage(q, t)
    BY <2>2, <2>3, <2>4
       DEF HeldPage, OutPage, Saving, PicturesHeld, IdsOf, AnswerTrue, OwnKnown, KnownRow, Completed
  <2> QED BY <1>1, <1>q, <2>2, <2>3, <2>4, <2>5
<1>2. CASE ~NothingToSave(p, force)
  <2>1. q = [p EXCEPT !.save = s, !.dirty = FALSE, !.shown = "fine", !.tracked = TRUE]
    BY <1>2, <1>q, <1>s DEF SaveDraft
  <2>2. /\ s \in Save /\ s.step = "sent" /\ s.id = p.id /\ s.doc = p.doc /\ s.refs = p.store
        /\ s.force = force /\ s.status = "none" /\ s.made = NoDraft
    BY <1>0, <1>s DEF Sent, Save
  <2>3. q \in Page
    BY <2>1, <2>2 DEF Page
  <2>4. /\ q.at = p.at /\ q.form = p.form /\ q.goal = p.goal /\ q.asked = p.asked
        /\ q.doc = p.doc /\ q.id = p.id /\ q.store = p.store /\ q.own = p.own /\ q.save = s
    BY <2>1 DEF Page
  <2>5. /\ q.early = p.early /\ q.editing = p.editing /\ q.timer = p.timer /\ q.cut = p.cut
        /\ ~q.dirty /\ q.tracked
    BY <2>1 DEF Page
  <2>6. Saving(q) /\ ~Saving(p) /\ ~p.editing
    BY <1>2, <2>2, <2>4, EdBounds DEF NothingToSave, Saving
  <2>7. HeldPage(q, t)
    <3>1. IdsOf(q) \subseteq IdsOf(p) \cup {NoDraft} /\ PicturesHeld(q)
      BY <2>2, <2>4, <2>6 DEF IdsOf, HeldPage, PicturesHeld
    <3>2. AnswerTrue(q, t) /\ OwnKnown(q) /\ Completed(q)
      BY <2>2, <2>4, <2>5, <2>6 DEF HeldPage, AnswerTrue, OwnKnown, KnownRow, Completed
    <3> QED BY <2>2, <2>3, <2>4, <2>5, <2>6, <3>1, <3>2 DEF HeldPage, OutPage, StepShaped
  <2> QED BY <1>2, <1>q, <2>2, <2>3, <2>4, <2>5, <2>6, <2>7
<1> QED BY <1>1, <1>2

(* A form goes out. *)
LEMMA SubmitIsWell ==
  ASSUME NEW p \in Page, NEW t \in Tab, NEW kind \in {"publish", "schedule"}, HeldPage(p, t), p.at = "open",
         Saving(p) => ~p.save.force,
         ~p.early => p.asked <= p.doc.words,
         ~p.early /\ ~p.editing /\ (kind = "schedule" \/ ~p.dirty) =>
           /\ p.doc # Blank => p.id # NoDraft /\ Stores(p.id, t, p.asked)
           /\ Saving(p) => p.save.doc.words >= p.asked
  PROVE  LET q == Submit(p, kind) IN q \in Page /\ PageWell(q) /\ PageTrue(q, t)
<1>q. PICK q : q = Submit(p, kind)
  OBVIOUS
<1>f. PICK f : f = [kind |-> kind, id |-> p.id, doc |-> p.doc, refs |-> p.store]
  OBVIOUS
<1>1. q = [p EXCEPT !.at = "posting", !.goal = "none", !.timer = @ /\ kind = "schedule", !.form = f]
  BY <1>q, <1>f DEF Submit
<1>2. f \in Form /\ f.kind = kind /\ f.id = p.id /\ f.doc = p.doc /\ f.refs = p.store /\ f # NoForm
  <2>1. f \in Form
    BY <1>f, PageFields DEF Form
  <2> QED BY <1>f, <2>1, EdBounds
<1>3. q \in Page
  BY <1>1, <1>2 DEF Page
<1>4. /\ q.at = "posting" /\ q.form = f /\ q.goal = "none" /\ q.asked = p.asked
      /\ q.doc = p.doc /\ q.id = p.id /\ q.store = p.store /\ q.own = p.own /\ q.save = p.save
  BY <1>1 DEF Page
<1>5. /\ q.early = p.early /\ q.editing = p.editing /\ q.cut = p.cut
      /\ q.dirty = p.dirty /\ q.tracked = p.tracked
  BY <1>1 DEF Page
<1>6. HeldPage(q, t)
  <2>1. PicturesHeld(q)
    BY <1>2, <1>4 DEF HeldPage, PicturesHeld, Saving
  <2>2. IdsOf(q) \subseteq IdsOf(p)
    BY <1>2, <1>4 DEF IdsOf, Saving
  <2>3. AnswerTrue(q, t) /\ OwnKnown(q) /\ Completed(q)
    BY <1>2, <1>4, <1>5 DEF HeldPage, AnswerTrue, OwnKnown, KnownRow, Completed, Saving
  <2> QED BY <1>2, <1>3, <1>4, <1>5, <2>1, <2>2, <2>3 DEF HeldPage, OutPage, Saving
<1>7. Waits(q, t)
  <2>1. WordsCarried(q)
    BY <1>2, <1>4, <1>5 DEF WordsCarried, Pressed, Saving
  <2>2. FormStored(q, t)
    BY <1>2, <1>4, <1>5 DEF FormStored, Pressed
  <2> QED BY <1>4, <1>5, <2>1, <2>2 DEF Waits, Saving, RestStored, AtRest
<1> QED BY <1>q, <1>3, <1>4, <1>6, <1>7, HeldAndWaiting

Goaling(p, goal, asked) == [p EXCEPT !.goal = goal, !.asked = asked]

LEMMA GoalHeld ==
  ASSUME NEW p \in Page, NEW t \in Tab, HeldPage(p, t),
         NEW goal \in {"none", "wait_publish", "flush", "wait_schedule", "force"}, NEW asked \in 0..MaxEdits
  PROVE  LET q == Goaling(p, goal, asked) IN
         /\ q \in Page /\ HeldPage(q, t)
         /\ q.at = p.at /\ q.form = p.form /\ q.goal = goal /\ q.asked = asked /\ q.doc = p.doc
         /\ q.id = p.id /\ q.store = p.store /\ q.own = p.own /\ q.save = p.save
         /\ q.early = p.early /\ q.editing = p.editing /\ q.dirty = p.dirty /\ q.tracked = p.tracked
         /\ q.timer = p.timer
<1>g. PICK q : q = Goaling(p, goal, asked)
  OBVIOUS
<1>q. q = [p EXCEPT !.goal = goal, !.asked = asked]
  BY <1>g DEF Goaling
<1>1. q \in Page
  BY <1>q DEF Page
<1>2. /\ q.at = p.at /\ q.form = p.form /\ q.goal = goal /\ q.asked = asked /\ q.doc = p.doc
      /\ q.id = p.id /\ q.store = p.store /\ q.own = p.own /\ q.save = p.save
  BY <1>q DEF Page
<1>3. /\ q.early = p.early /\ q.editing = p.editing /\ q.dirty = p.dirty /\ q.tracked = p.tracked
      /\ q.cut = p.cut /\ q.timer = p.timer
  BY <1>q DEF Page
<1>4. HeldPage(q, t)
  BY <1>1, <1>2, <1>3
     DEF HeldPage, OutPage, Saving, PicturesHeld, IdsOf, AnswerTrue, OwnKnown, KnownRow, Completed
<1> QED BY <1>g, <1>1, <1>2, <1>3, <1>4

(* The page waits for nothing any more. *)
LEMMA StayIsWell ==
  ASSUME NEW p \in Page, NEW t \in Tab, HeldPage(p, t), p.at = "open",
         Saving(p) => ~p.save.force /\ p.dirty, RestStored(p, t)
  PROVE  LET q == Stay(p) IN q \in Page /\ PageWell(q) /\ PageTrue(q, t)
<1>q. PICK q : q = Goaling(p, "none", 0)
  OBVIOUS
<1>0. 0 \in 0..MaxEdits
  BY EdBounds
<1>1. /\ q \in Page /\ HeldPage(q, t)
      /\ q.at = p.at /\ q.form = p.form /\ q.goal = "none" /\ q.asked = 0 /\ q.doc = p.doc
      /\ q.id = p.id /\ q.store = p.store /\ q.own = p.own /\ q.save = p.save
      /\ q.early = p.early /\ q.editing = p.editing /\ q.dirty = p.dirty /\ q.tracked = p.tracked
  BY <1>q, <1>0, GoalHeld
<1>2. WordsCarried(q)
  BY <1>1 DEF WordsCarried, Pressed, Saving
<1>3. RestStored(q, t) /\ FormStored(q, t)
  BY <1>1 DEF RestStored, AtRest, FormStored, Pressed, Saving
<1>4. Waits(q, t)
  BY <1>1, <1>2, <1>3 DEF Waits, Saving
<1> QED BY <1>q, <1>1, <1>4, HeldAndWaiting DEF Stay, Goaling

(* A page that saves because the writer waits for it.                       *)
LEMMA ForcedSave ==
  ASSUME NEW p \in Page, NEW t \in Tab, HeldPage(p, t), p.at = "open", ~p.early => p.asked <= p.doc.words,
         NEW goal \in {"flush", "force"}, ~NothingToSave([p EXCEPT !.goal = goal], TRUE)
  PROVE  LET q == SaveDraft([p EXCEPT !.goal = goal], TRUE) IN
         q \in Page /\ PageWell(q) /\ PageTrue(q, t) /\ q.save # p.save
<1>r. PICK r : r = [p EXCEPT !.goal = goal]
  OBVIOUS
<1>0. r = Goaling(p, goal, p.asked) /\ p.asked \in 0..MaxEdits
  BY <1>r, PageFields DEF Page, Goaling
<1>1. /\ r \in Page /\ HeldPage(r, t) /\ r.at = "open" /\ r.goal = goal /\ r.asked = p.asked /\ r.doc = p.doc
      /\ r.save = p.save /\ r.early = p.early /\ r.form = p.form
  BY <1>0, GoalHeld
<1>q. PICK q : q = SaveDraft(r, TRUE)
  OBVIOUS
<1>2. /\ q \in Page /\ HeldPage(q, t) /\ q.at = "open" /\ q.goal = goal /\ q.asked = p.asked /\ q.doc = p.doc
      /\ q.early = p.early /\ q.form = p.form /\ Saving(q) /\ ~Saving(p) /\ q.save.doc = p.doc
  BY <1>r, <1>q, <1>1, SaveDraftHeld DEF Saving
<1>3. WordsCarried(q)
  <2>1. p.doc.words \in Nat
    BY PageFields, EdBounds
  <2> QED BY <1>2, <2>1 DEF WordsCarried, Pressed, Publishing
<1>4. RestStored(q, t) /\ FormStored(q, t)
  BY <1>2 DEF RestStored, AtRest, FormStored, Pressed
<1>5. Waits(q, t)
  BY <1>2, <1>3, <1>4 DEF Waits
<1> QED BY <1>r, <1>q, <1>2, <1>5, HeldAndWaiting DEF Saving

LEMMA FlushIsWell ==
  ASSUME NEW p \in Page, NEW t \in Tab, HeldPage(p, t), p.at = "open", ~p.editing,
         Saving(p) => ~p.save.force /\ p.dirty,
         ~p.early => p.asked <= p.doc.words,
         ~p.early /\ ~p.dirty /\ p.doc # Blank => p.id # NoDraft /\ Stores(p.id, t, p.asked)
  PROVE  LET q == Flush(p) IN q \in Page /\ PageWell(q) /\ PageTrue(q, t)
<1>1. CASE ~p.dirty
  <2>1. Flush(p) = Submit(p, "publish")
    BY <1>1 DEF Flush
  <2> QED BY <1>1, <2>1, SubmitIsWell
<1>2. CASE p.dirty
  <2>r. PICK r : r = [p EXCEPT !.goal = "flush"]
    OBVIOUS
  <2>q. PICK q : q = SaveDraft(r, TRUE)
    OBVIOUS
  <2>0. Flush(p) = IF q.save # p.save THEN q ELSE Submit(q, "publish")
    BY <1>2, <2>r, <2>q DEF Flush
  <2>1. CASE NothingToSave(r, TRUE)
    <3>0. r = Goaling(p, "flush", p.asked) /\ p.asked \in 0..MaxEdits
      BY <2>r, PageFields DEF Page, Goaling
    <3>1. /\ r \in Page /\ HeldPage(r, t) /\ r.at = "open" /\ r.asked = p.asked /\ r.doc = p.doc
          /\ r.save = p.save /\ r.early = p.early /\ r.dirty = p.dirty
      BY <3>0, GoalHeld
    <3>2. /\ q \in Page /\ HeldPage(q, t) /\ q.at = "open" /\ q.asked = p.asked /\ q.doc = p.doc
          /\ q.save = p.save /\ q.early = p.early /\ q.dirty
      BY <1>2, <2>q, <2>1, <3>1, SaveDraftHeld
    <3> QED BY <2>0, <3>2, SubmitIsWell DEF Saving
  <2>2. CASE ~NothingToSave(r, TRUE)
    <3>1. q \in Page /\ PageWell(q) /\ PageTrue(q, t) /\ q.save # p.save
      BY <2>2, <2>r, <2>q, ForcedSave
    <3> QED BY <2>0, <3>1
  <2> QED BY <2>1, <2>2
<1> QED BY <1>1, <1>2

LEMMA ForcedIsWell ==
  ASSUME NEW p \in Page, NEW t \in Tab, HeldPage(p, t), p.at = "open", ~p.editing,
         Saving(p) => ~p.save.force /\ p.dirty,
         ~p.early => p.asked <= p.doc.words
  PROVE  LET q == Forced(p) IN q \in Page /\ PageWell(q) /\ PageTrue(q, t)
<1>r. PICK r : r = [p EXCEPT !.goal = "force"]
  OBVIOUS
<1>q. PICK q : q = SaveDraft(r, TRUE)
  OBVIOUS
<1>0. Forced(p) = IF q.save # p.save THEN q ELSE Stay(q)
  BY <1>r, <1>q DEF Forced
<1>1. CASE NothingToSave(r, TRUE)
  <2>0. r = Goaling(p, "force", p.asked) /\ p.asked \in 0..MaxEdits
    BY <1>r, PageFields DEF Page, Goaling
  <2>1. /\ r \in Page /\ HeldPage(r, t) /\ r.at = "open" /\ r.asked = p.asked /\ r.doc = p.doc /\ r.id = p.id
        /\ r.save = p.save /\ r.early = p.early /\ r.dirty = p.dirty /\ r.editing = p.editing
    BY <2>0, GoalHeld
  <2>2. /\ q \in Page /\ HeldPage(q, t) /\ q.at = "open" /\ q.doc = p.doc /\ q.id = p.id
        /\ q.save = p.save /\ q.dirty = p.dirty
    BY <1>q, <1>1, <2>1, SaveDraftHeld
  <2>3. Saving(p) \/ (p.id = NoDraft /\ p.doc = Blank)
    BY <1>1, <2>1 DEF NothingToSave, Saving
  <2>4. RestStored(q, t)
    BY <2>2, <2>3 DEF RestStored, AtRest, Saving
  <2> QED BY <1>0, <2>2, <2>4, StayIsWell DEF Saving
<1>2. CASE ~NothingToSave(r, TRUE)
  <2>1. q \in Page /\ PageWell(q) /\ PageTrue(q, t) /\ q.save # p.save
    BY <1>2, <1>r, <1>q, ForcedSave
  <2> QED BY <1>0, <2>1
<1> QED BY <1>1, <1>2

(* What awaited a save goes on when it has settled. *)
LEMMA ContinueIsWell ==
  ASSUME NEW p \in Page, NEW t \in Tab, NEW saved \in BOOLEAN, HeldPage(p, t), ~Saving(p), ~p.editing,
         p.goal # "none" => p.at = "open",
         saved \/ p.dirty,
         ~p.early /\ p.goal # "none" => p.asked <= p.doc.words,
         ~p.early /\ saved /\ p.goal \in {"flush", "force"} => p.id # NoDraft /\ Stores(p.id, t, p.asked),
         ~p.early /\ ~p.dirty /\ p.goal = "wait_publish" => p.id # NoDraft /\ Stores(p.id, t, p.asked),
         p.goal = "none" => WordsCarried(p) /\ RestStored(p, t) /\ FormStored(p, t)
  PROVE  LET q == Continue(p, saved) IN q \in Page /\ PageWell(q) /\ PageTrue(q, t)
<1>0. p.goal \in {"none", "wait_publish", "flush", "wait_schedule", "force"}
  BY PageFields
<1>1. CASE p.goal = "none"
  <2>1. Continue(p, saved) = p
    BY <1>1 DEF Continue
  <2>2. Waits(p, t)
    BY <1>1 DEF Waits
  <2>3. p.at \in {"open", "posting", "landed"}
    BY DEF HeldPage
  <2> QED BY <2>1, <2>2, <2>3, HeldAndWaiting
<1>2. CASE p.goal = "wait_publish"
  <2>1. Continue(p, saved) = Flush(p)
    BY <1>2 DEF Continue
  <2> QED BY <1>2, <2>1, FlushIsWell
<1>3. CASE p.goal = "flush"
  <2>1. Continue(p, saved) = Submit(p, "publish")
    BY <1>3 DEF Continue
  <2> QED BY <1>3, <2>1, SubmitIsWell
<1>4. CASE p.goal = "wait_schedule"
  <2>1. Continue(p, saved) = Forced(p)
    BY <1>4 DEF Continue
  <2> QED BY <1>4, <2>1, ForcedIsWell
<1>5. CASE p.goal = "force" /\ saved
  <2>1. Continue(p, saved) = Submit(p, "schedule")
    BY <1>5 DEF Continue
  <2> QED BY <1>5, <2>1, SubmitIsWell
<1>6. CASE p.goal = "force" /\ ~saved
  <2>1. Continue(p, saved) = Stay(p)
    BY <1>6 DEF Continue
  <2>2. RestStored(p, t)
    BY <1>6 DEF RestStored, AtRest
  <2> QED BY <1>6, <2>1, <2>2, StayIsWell
<1> QED BY <1>0, <1>1, <1>2, <1>3, <1>4, <1>5, <1>6

LEMMA SettledPage ==
  ASSUME NEW r \in Page, NEW saved \in BOOLEAN, NEW shown \in {"fine", "error", "limit"}
  PROVE  [r EXCEPT !.save = NoSave, !.tracked = FALSE, !.shown = shown,
                   !.dirty = @ \/ ~saved, !.timer = @ \/ (saved /\ r.dirty)] \in Page
<1>1. PICK dirty \in BOOLEAN, timer \in BOOLEAN :
        dirty = (r.dirty \/ ~saved) /\ timer = (r.timer \/ (saved /\ r.dirty))
  OBVIOUS
<1>2. [r EXCEPT !.save = NoSave, !.tracked = FALSE, !.shown = shown, !.dirty = dirty, !.timer = timer] \in Page
  BY DEF Page
<1> QED BY <1>1, <1>2

(* A save has settled: the page takes the row made for it, and goes on.     *)
LEMMA SettleIsWell ==
  ASSUME NEW p \in Page, NEW t \in Tab, NEW saved \in BOOLEAN, NEW shown \in {"fine", "error", "limit"},
         EdTypeOK, PageWell(p), PageTrue(p, t), p.at \in {"open", "posting", "landed"}, Saving(p),
         NEW id \in DraftId \cup {NoDraft},
         saved => p.save.status = "ok" /\ id = (IF p.id = NoDraft THEN p.save.made ELSE p.id),
         ~saved => p.save.status # "ok" /\ id = p.id,
         NEW r \in Page, r = [p EXCEPT !.id = id]
  PROVE  LET q == Settle(r, saved, shown) IN q \in Page /\ PageWell(q) /\ PageTrue(q, t)
<1>q. PICK q : q = [r EXCEPT !.save = NoSave, !.tracked = FALSE, !.shown = shown,
                             !.dirty = @ \/ ~saved, !.timer = @ \/ (saved /\ r.dirty)]
  OBVIOUS
<1>0. Settle(r, saved, shown) = Continue(q, saved)
  BY <1>q DEF Settle
<1>1. q \in Page
  BY <1>q, SettledPage
<1>2. /\ q.at = p.at /\ q.form = p.form /\ q.goal = p.goal /\ q.asked = p.asked /\ q.doc = p.doc
      /\ q.id = id /\ q.store = p.store /\ q.own = p.own /\ q.save = NoSave
  BY <1>q DEF Page
<1>3. r.dirty = p.dirty /\ r.early = p.early /\ r.editing = p.editing /\ r.cut = p.cut
  BY DEF Page
<1>4. /\ q.early = p.early /\ q.editing = p.editing /\ q.cut = p.cut /\ ~q.tracked
      /\ q.dirty = (p.dirty \/ ~saved)
  BY <1>3, <1>q DEF Page
<1>5. HeldPage(p, t) /\ Waits(p, t)
  BY HeldAndWaiting
<1>6. ~p.editing /\ ~q.editing /\ ~Saving(q)
  BY <1>2, <1>4, <1>5 DEF HeldPage, Saving
<1>7. saved => id = p.save.made /\ id # NoDraft /\ Stores(id, t, p.save.doc.words)
  BY <1>5 DEF HeldPage, StepShaped, AnswerTrue
<1>8. p.id # NoDraft => id = p.id
  OBVIOUS
<1>9. HeldPage(q, t)
  <2>1. PicturesHeld(q) /\ AnswerTrue(q, t) /\ Completed(q)
    BY <1>2, <1>5, <1>6 DEF HeldPage, PicturesHeld, AnswerTrue, Completed
  <2>2. OwnKnown(q)
    BY <1>2, <1>4, <1>5, <1>6, <1>7, <1>8 DEF HeldPage, OwnKnown, KnownRow
  <2>3. IdsOf(q) \subseteq IdsOf(p)
    BY <1>2, <1>6, <1>7 DEF IdsOf
  <2> QED BY <1>1, <1>2, <1>4, <1>5, <1>6, <1>8, <2>1, <2>2, <2>3 DEF HeldPage, OutPage
<1>10. p.doc.words \in Nat /\ p.asked \in Nat /\ p.save.doc.words \in Nat
  BY PageFields, SaveFields, EdBounds
<1>11. ASSUME NEW n \in Nat, saved, n <= p.save.doc.words
       PROVE  Stores(id, t, n)
  <2>1. id \in DraftId
    BY <1>7, <1>11
  <2> QED BY <2>1, <1>7, <1>10, <1>11, HoldsLess
<1>12. /\ p.goal # "none" => p.at = "open"
       /\ ~p.early /\ p.goal # "none" => p.asked <= p.doc.words
       /\ ~p.early /\ p.goal \in {"flush", "force"} => p.asked <= p.save.doc.words
       /\ ~p.early /\ ~p.dirty /\ p.goal = "wait_publish" => p.asked <= p.save.doc.words
  BY <1>5, <1>10 DEF Waits, WordsCarried
<1>13. ASSUME p.goal = "none"
       PROVE  WordsCarried(q) /\ RestStored(q, t) /\ FormStored(q, t)
  <2>1. WordsCarried(q)
    BY <1>2, <1>4, <1>5, <1>6, <1>13 DEF Waits, WordsCarried, Pressed
  <2>2. ASSUME AtRest(q)
        PROVE  id # NoDraft /\ Stores(id, t, p.doc.words)
    <3>1. saved /\ p.at = "open" /\ ~p.early /\ ~p.dirty
      BY <1>2, <1>4, <2>2 DEF AtRest, HeldPage
    <3>2. ~Publishing(p)
      BY <1>5, <1>13, <3>1 DEF HeldPage, OutPage, Publishing
    <3>3. p.doc.words <= p.save.doc.words
      BY <1>5, <1>10, <3>1, <3>2 DEF Waits, WordsCarried
    <3> QED BY <1>7, <1>10, <1>11, <3>1, <3>3
  <2>3. RestStored(q, t)
    BY <1>2, <2>2 DEF RestStored
  <2>4. FormStored(q, t)
    BY <1>2, <1>4, <1>5 DEF Waits, FormStored, Pressed
  <2> QED BY <2>1, <2>3, <2>4
<1>14. ~p.early /\ saved /\ p.goal \in {"flush", "force"} => id # NoDraft /\ Stores(id, t, p.asked)
  BY <1>7, <1>10, <1>11, <1>12
<1>15. ~p.early /\ ~q.dirty /\ p.goal = "wait_publish" => id # NoDraft /\ Stores(id, t, p.asked)
  BY <1>4, <1>7, <1>10, <1>11, <1>12
<1>16. saved \/ q.dirty
  BY <1>4
<1> QED BY <1>0, <1>1, <1>2, <1>4, <1>6, <1>9, <1>12, <1>13, <1>14, <1>15, <1>16, ContinueIsWell

(* The row is gone: the save starts again as a new draft's. *)
LEMMA RecreateIsWell ==
  ASSUME NEW p \in Page, NEW t \in Tab, EdTypeOK, PageWell(p), PageTrue(p, t),
         p.at \in {"open", "posting", "landed"}, Saving(p), Recreates(p)
  PROVE  LET q == [p EXCEPT !.id = NoDraft, !.save = [@ EXCEPT !.step = "sent", !.id = NoDraft,
                                                              !.status = "none"]]
         IN  q \in Page /\ PageWell(q) /\ PageTrue(q, t)
<1>s. PICK s : s = [p.save EXCEPT !.step = "sent", !.id = NoDraft, !.status = "none"]
  OBVIOUS
<1>q. PICK q : q = [p EXCEPT !.id = NoDraft, !.save = s]
  OBVIOUS
<1>0. p.save \in Save
  BY SaveFields
<1>1. /\ s \in Save /\ s.step = "sent" /\ s.id = NoDraft /\ s.status = "none" /\ s.doc = p.save.doc
      /\ s.refs = p.save.refs /\ s.force = p.save.force /\ s.made = p.save.made /\ s # NoSave
  <2>1. s \in Save
    BY <1>0, <1>s DEF Save
  <2> QED BY <1>0, <1>s, <2>1, EdBounds DEF Save
<1>2. q \in Page
  BY <1>1, <1>q DEF Page
<1>3. /\ q.at = p.at /\ q.form = p.form /\ q.goal = p.goal /\ q.asked = p.asked /\ q.doc = p.doc
      /\ q.id = NoDraft /\ q.store = p.store /\ q.own = p.own /\ q.save = s
  BY <1>q DEF Page
<1>4. /\ q.early = p.early /\ q.editing = p.editing /\ q.dirty = p.dirty /\ q.tracked = p.tracked
      /\ q.cut = p.cut /\ q.timer = p.timer
  BY <1>q DEF Page
<1>5. HeldPage(p, t) /\ Waits(p, t) /\ Saving(q)
  BY <1>1, <1>3, HeldAndWaiting DEF Saving
<1>6. p.id # NoDraft /\ p.save.id = p.id /\ drafts[p.id] = NoRow
  BY <1>5 DEF HeldPage, AnswerTrue, Recreates
<1>7. ~(OutPage(p) /\ p.form.kind = "publish")
  BY <1>5 DEF HeldPage, Waits, OutPage, Recreates, Publishing
<1>8. HeldPage(q, t)
  <2>1. PicturesHeld(q) /\ AnswerTrue(q, t) /\ Completed(q)
    BY <1>1, <1>3, <1>5 DEF HeldPage, PicturesHeld, AnswerTrue, Completed
  <2>2. OwnKnown(q)
    BY <1>1, <1>3, <1>4, <1>5, <1>6 DEF HeldPage, OwnKnown, KnownRow, Rows
  <2>3. IdsOf(q) \subseteq IdsOf(p) \cup {NoDraft}
    BY <1>1, <1>3, <1>5 DEF IdsOf
  <2>4. q.tracked => Saving(q)
    BY <1>5
  <2> QED BY <1>1, <1>2, <1>3, <1>4, <1>5, <1>7, <2>1, <2>2, <2>3, <2>4 DEF HeldPage, OutPage, StepShaped
<1>9. Waits(q, t)
  <2>1. WordsCarried(q)
    BY <1>1, <1>3, <1>4, <1>5 DEF Waits, WordsCarried, Pressed, Publishing
  <2>2. RestStored(q, t) /\ FormStored(q, t)
    BY <1>3, <1>4, <1>5 DEF Waits, RestStored, AtRest, FormStored, Pressed
  <2> QED BY <1>1, <1>3, <1>4, <1>5, <2>1, <2>2 DEF Waits
<1> QED BY <1>q, <1>s, <1>2, <1>3, <1>8, <1>9, HeldAndWaiting

-----------------------------------------------------------------------------
(* The steps that only move a page.                                         *)
LEMMA InvParts ==
  ASSUME EditorInv, NEW t \in Tab
  PROVE  /\ EdTypeOK /\ tab[t] \in Page /\ PageWell(tab[t]) /\ PageTrue(tab[t], t)
         /\ typed \in 0..MaxEdits /\ opened \in 0..MaxOpened /\ lost \in 0..MaxLost
         /\ typed \in Nat /\ opened \in Nat /\ lost \in Nat
BY EdBounds DEF EditorInv, EdTypeOK

LEMMA PageMovesOnly ==
  ASSUME EditorInv, NEW t \in Tab, NEW q \in Page, tab' = [tab EXCEPT ![t] = q],
         UNCHANGED <<drafts, minted, typed>>,
         opened' \in 0..MaxOpened, lost' \in 0..MaxLost, PageWell(q), PageTrue(q, t)
  PROVE  EditorInv'
<1>1. typed \in 0..MaxEdits /\ typed \in Nat
  BY InvParts
<1>2. PageTrue(q, t)'
  BY <1>1, Stands
<1>3. typed' \in 0..MaxEdits /\ typed <= typed' /\ UNCHANGED <<drafts, minted>>
  BY <1>1
<1> QED BY <1>2, <1>3, PageMoves

LEMMA AnsweredKeeps ==
  ASSUME EditorInv, NEW t \in Tab, Answered(t)
  PROVE  EditorInv'
<1>p. PICK p \in Page : p = tab[t]
  BY InvParts
<1>1. /\ EdTypeOK /\ PageWell(p) /\ PageTrue(p, t) /\ p.at \in {"open", "posting", "landed"}
      /\ Saving(p) /\ p.save.step = "answered"
      /\ UNCHANGED <<drafts, minted, opened, typed, lost>>
      /\ opened' \in 0..MaxOpened /\ lost' \in 0..MaxLost
  BY <1>p, InvParts DEF Answered, Live
<1>2. CASE Recreates(p)
  <2>q. PICK q : q = [p EXCEPT !.id = NoDraft, !.save = [@ EXCEPT !.step = "sent", !.id = NoDraft,
                                                                   !.status = "none"]]
    OBVIOUS
  <2>1. tab' = [tab EXCEPT ![t] = q]
    BY <1>p, <1>2, <2>q DEF Answered, Becomes
  <2>2. q \in Page /\ PageWell(q) /\ PageTrue(q, t)
    BY <1>1, <1>2, <2>q, RecreateIsWell
  <2> QED BY <1>1, <2>1, <2>2, PageMovesOnly
<1>3. CASE ~Recreates(p) /\ p.save.status = "ok"
  <2>i. PICK id : id = IF p.id = NoDraft THEN p.save.made ELSE p.id
    OBVIOUS
  <2>r. PICK r : r = [p EXCEPT !.id = id]
    OBVIOUS
  <2>q. PICK q : q = Settle(r, TRUE, "fine")
    OBVIOUS
  <2>1. r = [p EXCEPT !.id = IF @ = NoDraft THEN p.save.made ELSE @]
    BY <2>i, <2>r DEF Page
  <2>2. tab' = [tab EXCEPT ![t] = q]
    BY <1>p, <1>3, <2>q, <2>1 DEF Answered, Becomes
  <2>3. id \in DraftId \cup {NoDraft}
    BY <1>1, <2>i, PageFields, SaveFields
  <2>4. r \in Page
    BY <2>r, <2>3 DEF Page
  <2>5. q \in Page /\ PageWell(q) /\ PageTrue(q, t)
    BY <1>1, <1>3, <2>i, <2>r, <2>q, <2>3, <2>4, SettleIsWell
  <2> QED BY <1>1, <2>2, <2>5, PageMovesOnly
<1>4. CASE ~Recreates(p) /\ p.save.status # "ok"
  <2>s. PICK shown \in {"error", "limit"} : shown = IF p.save.status = "limit" THEN "limit" ELSE "error"
    OBVIOUS
  <2>q. PICK q : q = Settle(p, FALSE, shown)
    OBVIOUS
  <2>1. tab' = [tab EXCEPT ![t] = q]
    BY <1>p, <1>4, <2>s, <2>q DEF Answered, Becomes
  <2>2. p = [p EXCEPT !.id = p.id] /\ p.id \in DraftId \cup {NoDraft}
    BY DEF Page
  <2>3. q \in Page /\ PageWell(q) /\ PageTrue(q, t)
    BY <1>1, <1>4, <2>q, <2>2, SettleIsWell
  <2> QED BY <1>1, <2>1, <2>3, PageMovesOnly
<1> QED BY <1>2, <1>3, <1>4

(* A timer that has fired, and the save it starts. *)
LEMMA SaveDraftIsWell ==
  ASSUME NEW p \in Page, NEW t \in Tab, HeldPage(p, t), Waits(p, t), ~p.timer,
         p.at = "open" /\ p.goal = "none" /\ Saving(p) => p.dirty
  PROVE  LET q == SaveDraft(p, FALSE) IN q \in Page /\ PageWell(q) /\ PageTrue(q, t)
<1>q. PICK q : q = SaveDraft(p, FALSE)
  OBVIOUS
<1>1. /\ HeldPage(q, t) /\ q \in Page
      /\ q.at = p.at /\ q.form = p.form /\ q.goal = p.goal /\ q.asked = p.asked /\ q.doc = p.doc
      /\ q.id = p.id /\ q.store = p.store /\ q.early = p.early /\ q.editing = p.editing
      /\ q.timer = p.timer
  BY <1>q, SaveDraftHeld
<1>2. q.at \in {"open", "posting", "landed"}
  BY <1>1 DEF HeldPage
<1>3. CASE NothingToSave(p, FALSE)
  <2>1. q.save = p.save /\ q.dirty = p.dirty /\ ~q.tracked
    BY <1>3, <1>q, SaveDraftHeld
  <2>2. WordsCarried(q)
    BY <1>1, <2>1 DEF Waits, WordsCarried, Pressed, Saving, Publishing
  <2>3. RestStored(q, t) /\ FormStored(q, t)
    BY <1>1, <2>1 DEF Waits, RestStored, AtRest, FormStored, Pressed, Saving
  <2>4. Waits(q, t)
    BY <1>1, <2>1, <2>2, <2>3 DEF Waits, Saving
  <2> QED BY <1>1, <1>2, <1>q, <2>4, HeldAndWaiting
<1>4. CASE ~NothingToSave(p, FALSE)
  <2>1. /\ Saving(q) /\ ~Saving(p) /\ ~q.dirty /\ q.tracked /\ ~p.editing
        /\ q.save.doc = p.doc /\ q.save.force = FALSE
    BY <1>4, <1>q, SaveDraftHeld
  <2>2. ~Publishing(p) /\ p.goal = "none"
    BY <1>4, <2>1 DEF NothingToSave, Waits
  <2>3. p.doc.words \in Nat
    BY PageFields, EdBounds
  <2>4. WordsCarried(q)
    BY <1>1, <2>1, <2>2, <2>3 DEF Waits, WordsCarried, Pressed
  <2>5. RestStored(q, t)
    BY <2>1 DEF RestStored, AtRest
  <2>6. FormStored(q, t)
    <3>1. Pressed(q) => Pressed(p)
      BY <1>1, <2>2, FormFields DEF Pressed, HeldPage, OutPage, Publishing
    <3> QED BY <1>1, <3>1 DEF Waits, FormStored
  <2>8. Waits(q, t)
    BY <1>1, <2>1, <2>2, <2>4, <2>5, <2>6 DEF Waits
  <2> QED BY <1>1, <1>2, <1>q, <2>8, HeldAndWaiting
<1> QED BY <1>3, <1>4

LEMMA TimerOff ==
  ASSUME NEW p \in Page, NEW t \in Tab, PageWell(p), PageTrue(p, t), p.at \in {"open", "posting", "landed"}
  PROVE  LET r == [p EXCEPT !.timer = FALSE] IN
         /\ r \in Page /\ HeldPage(r, t) /\ Waits(r, t) /\ ~r.timer
         /\ r.at = p.at /\ r.goal = p.goal /\ r.save = p.save /\ r.dirty = p.dirty
<1>r. PICK r : r = [p EXCEPT !.timer = FALSE]
  OBVIOUS
<1>1. r \in Page
  BY <1>r DEF Page
<1>2. /\ r.at = p.at /\ r.form = p.form /\ r.goal = p.goal /\ r.asked = p.asked /\ r.doc = p.doc
      /\ r.id = p.id /\ r.store = p.store /\ r.own = p.own /\ r.save = p.save
  BY <1>r DEF Page
<1>3. /\ r.early = p.early /\ r.editing = p.editing /\ r.cut = p.cut /\ r.dirty = p.dirty
      /\ r.tracked = p.tracked /\ ~r.timer
  BY <1>r DEF Page
<1>4. HeldPage(p, t) /\ Waits(p, t)
  BY HeldAndWaiting
<1>5. HeldPage(r, t)
  BY <1>1, <1>2, <1>3, <1>4
     DEF HeldPage, OutPage, Saving, PicturesHeld, IdsOf, AnswerTrue, OwnKnown, KnownRow, Completed
<1>6. Waits(r, t)
  <2>1. WordsCarried(r)
    BY <1>2, <1>3, <1>4 DEF Waits, WordsCarried, Pressed, Saving, Publishing
  <2>2. RestStored(r, t) /\ FormStored(r, t)
    BY <1>2, <1>3, <1>4 DEF Waits, RestStored, AtRest, FormStored, Pressed, Saving
  <2> QED BY <1>2, <1>3, <1>4, <2>1, <2>2 DEF Waits, Saving
<1> QED BY <1>r, <1>1, <1>2, <1>3, <1>5, <1>6

LEMMA TimerFiresKeeps ==
  ASSUME EditorInv, NEW t \in Tab, TimerFires(t)
  PROVE  EditorInv'
<1>p. PICK p \in Page : p = tab[t]
  BY InvParts
<1>1. /\ PageWell(p) /\ PageTrue(p, t) /\ p.at \in {"open", "posting", "landed"} /\ p.timer
      /\ UNCHANGED <<drafts, minted, typed>> /\ opened' \in 0..MaxOpened /\ lost' \in 0..MaxLost
  BY <1>p, InvParts DEF TimerFires, Live
<1>r. PICK r : r = [p EXCEPT !.timer = FALSE]
  OBVIOUS
<1>q. PICK q : q = SaveDraft(r, FALSE)
  OBVIOUS
<1>2. tab' = [tab EXCEPT ![t] = q]
  BY <1>p, <1>r, <1>q DEF TimerFires, Becomes
<1>3. /\ r \in Page /\ HeldPage(r, t) /\ Waits(r, t) /\ ~r.timer
      /\ r.at = p.at /\ r.goal = p.goal /\ r.save = p.save /\ r.dirty = p.dirty
  BY <1>1, <1>r, TimerOff
<1>4. r.at = "open" /\ r.goal = "none" /\ Saving(r) => r.dirty
  BY <1>1, <1>3 DEF PageWell, Shaped, Saving
<1>5. q \in Page /\ PageWell(q) /\ PageTrue(q, t)
  BY <1>q, <1>3, <1>4, SaveDraftIsWell
<1> QED BY <1>1, <1>2, <1>5, PageMovesOnly

LEMMA BlurKeeps ==
  ASSUME EditorInv, NEW t \in Tab, Blur(t)
  PROVE  EditorInv'
<1>p. PICK p \in Page : p = tab[t]
  BY InvParts
<1>1. /\ PageWell(p) /\ PageTrue(p, t) /\ p.at \in {"open", "posting", "landed"} /\ p.dirty
      /\ UNCHANGED <<drafts, minted, typed>> /\ opened' \in 0..MaxOpened /\ lost' \in 0..MaxLost
  BY <1>p, InvParts DEF Blur
<1>r. PICK r : r = [p EXCEPT !.timer = FALSE]
  OBVIOUS
<1>q. PICK q : q = SaveDraft(r, FALSE)
  OBVIOUS
<1>2. tab' = [tab EXCEPT ![t] = q]
  BY <1>p, <1>r, <1>q DEF Blur, Becomes
<1>3. /\ r \in Page /\ HeldPage(r, t) /\ Waits(r, t) /\ ~r.timer /\ r.dirty = p.dirty
  BY <1>1, <1>r, TimerOff
<1>4. q \in Page /\ PageWell(q) /\ PageTrue(q, t)
  BY <1>q, <1>1, <1>3, SaveDraftIsWell
<1> QED BY <1>1, <1>2, <1>4, PageMovesOnly

(* The writer presses a button: what is on screen is what was asked for. *)
LEMMA Pressing ==
  ASSUME NEW p \in Page, NEW t \in Tab, PageWell(p), PageTrue(p, t), p.at = "open", p.goal = "none"
  PROVE  LET r == [p EXCEPT !.timer = FALSE, !.asked = p.doc.words] IN
         /\ r \in Page /\ HeldPage(r, t) /\ r.at = "open" /\ r.goal = "none" /\ ~r.timer
         /\ r.editing = p.editing /\ r.dirty = p.dirty /\ r.tracked = p.tracked /\ r.early = p.early
         /\ r.doc = p.doc /\ r.asked = r.doc.words /\ r.id = p.id /\ r.save = p.save /\ r.form = NoForm
         /\ r.asked \in Nat
         /\ Saving(r) => ~r.save.force /\ ~r.editing /\ (~r.tracked => r.dirty)
         /\ ~r.early /\ Saving(r) /\ ~r.dirty => r.save.doc.words >= r.asked
         /\ ~r.early /\ ~r.dirty /\ ~Saving(r) =>
              IF r.id = NoDraft THEN r.doc = Blank ELSE Stores(r.id, t, r.asked)
<1>r. PICK r : r = [p EXCEPT !.timer = FALSE, !.asked = p.doc.words]
  OBVIOUS
<1>0. p.doc.words \in 0..MaxEdits /\ p.doc.words \in Nat
  BY PageFields, EdBounds
<1>1. r \in Page
  BY <1>0, <1>r DEF Page
<1>2. /\ r.at = p.at /\ r.form = p.form /\ r.goal = p.goal /\ r.asked = p.doc.words /\ r.doc = p.doc
      /\ r.id = p.id /\ r.store = p.store /\ r.own = p.own /\ r.save = p.save
  BY <1>r DEF Page
<1>3. /\ r.early = p.early /\ r.editing = p.editing /\ r.cut = p.cut /\ r.dirty = p.dirty
      /\ r.tracked = p.tracked /\ ~r.timer
  BY <1>r DEF Page
<1>4. HeldPage(p, t) /\ Waits(p, t)
  BY HeldAndWaiting
<1>5. HeldPage(r, t)
  BY <1>1, <1>2, <1>3, <1>4
     DEF HeldPage, OutPage, Saving, PicturesHeld, IdsOf, AnswerTrue, OwnKnown, KnownRow, Completed
<1>6. p.form = NoForm /\ ~Publishing(p)
  BY <1>4 DEF HeldPage, OutPage, Publishing
<1>7. /\ Saving(p) => ~p.save.force /\ ~p.editing /\ (~p.tracked => p.dirty)
      /\ ~p.early /\ Saving(p) /\ ~p.dirty => p.save.doc.words >= p.doc.words
      /\ ~p.early /\ ~p.dirty /\ ~Saving(p) =>
           IF p.id = NoDraft THEN p.doc = Blank ELSE Stores(p.id, t, p.doc.words)
  <2>1. Saving(p) => ~p.save.force /\ ~p.editing /\ (~p.tracked => p.dirty)
    BY <1>4 DEF HeldPage, Waits
  <2>2. ~p.early /\ Saving(p) /\ ~p.dirty => p.save.doc.words >= p.doc.words
    BY <1>4, <1>6 DEF Waits, WordsCarried
  <2>3. ~p.early /\ ~p.dirty /\ ~Saving(p) =>
           IF p.id = NoDraft THEN p.doc = Blank ELSE Stores(p.id, t, p.doc.words)
    BY <1>4 DEF Waits, RestStored, AtRest
  <2> QED BY <2>1, <2>2, <2>3
<1>8. Saving(r) <=> Saving(p)
  BY <1>2 DEF Saving
<1> QED BY <1>r, <1>0, <1>1, <1>2, <1>3, <1>5, <1>6, <1>7, <1>8

LEMMA PublishKeeps ==
  ASSUME EditorInv, NEW t \in Tab, Publish(t)
  PROVE  EditorInv'
<1>p. PICK p \in Page : p = tab[t]
  BY InvParts
<1>r. PICK r : r = [p EXCEPT !.timer = FALSE, !.asked = p.doc.words]
  OBVIOUS
<1>0. r.at = p.at /\ r.goal = p.goal
  BY <1>r DEF Page
<1>1. /\ PageWell(p) /\ PageTrue(p, t) /\ p.at = "open" /\ p.goal = "none"
      /\ UNCHANGED <<drafts, minted, typed>> /\ opened' \in 0..MaxOpened /\ lost' \in 0..MaxLost
      /\ tab' = [tab EXCEPT ![t] = IF r.editing \/ (~r.tracked /\ ~r.dirty) THEN Submit(r, "publish")
                                   ELSE IF r.tracked THEN [r EXCEPT !.goal = "wait_publish"]
                                   ELSE Flush(r)]
  BY <1>p, <1>r, <1>0, InvParts DEF Publish, Becomes
<1>2. /\ r \in Page /\ HeldPage(r, t) /\ r.at = "open" /\ r.goal = "none" /\ ~r.timer
      /\ r.editing = p.editing /\ r.dirty = p.dirty /\ r.tracked = p.tracked /\ r.early = p.early
      /\ r.doc = p.doc /\ r.asked = r.doc.words /\ r.id = p.id /\ r.save = p.save /\ r.form = NoForm
      /\ r.asked \in Nat
      /\ Saving(r) => ~r.save.force /\ ~r.editing /\ (~r.tracked => r.dirty)
      /\ ~r.early /\ Saving(r) /\ ~r.dirty => r.save.doc.words >= r.asked
      /\ ~r.early /\ ~r.dirty /\ ~Saving(r) =>
           IF r.id = NoDraft THEN r.doc = Blank ELSE Stores(r.id, t, r.asked)
  BY <1>1, <1>r, Pressing
<1>3. CASE r.editing \/ (~r.tracked /\ ~r.dirty)
  <2>1. ~Saving(r)
    BY <1>2, <1>3
  <2>q. PICK q : q = Submit(r, "publish")
    OBVIOUS
  <2>2. q \in Page /\ PageWell(q) /\ PageTrue(q, t)
    BY <1>2, <2>1, <2>q, SubmitIsWell
  <2>3. tab' = [tab EXCEPT ![t] = q]
    BY <1>1, <1>3, <2>q
  <2> QED BY <1>1, <2>2, <2>3, PageMovesOnly
<1>4. CASE ~r.editing /\ r.tracked
  <2>q. PICK q : q = Goaling(r, "wait_publish", r.asked)
    OBVIOUS
  <2>1. /\ q \in Page /\ HeldPage(q, t) /\ q.at = "open" /\ q.form = NoForm /\ q.goal = "wait_publish"
        /\ q.asked = r.asked /\ q.doc = r.doc /\ q.save = r.save /\ q.early = r.early /\ q.dirty = r.dirty
    BY <1>2, <2>q, PageFields, GoalHeld
  <2>2. Saving(r)
    BY <1>2, <1>4 DEF HeldPage
  <2>3. Waits(q, t)
    <3>1. WordsCarried(q)
      BY <1>2, <2>1, <2>2 DEF WordsCarried, Pressed, Publishing, Saving
    <3> QED BY <1>2, <2>1, <2>2, <3>1 DEF Waits, Saving, RestStored, AtRest, FormStored, Pressed
  <2>4. q = [r EXCEPT !.goal = "wait_publish"]
    BY <1>2, <2>q DEF Goaling, Page
  <2>5. tab' = [tab EXCEPT ![t] = q]
    BY <1>1, <1>4, <2>4
  <2>6. PageWell(q) /\ PageTrue(q, t)
    BY <2>1, <2>3, HeldAndWaiting
  <2> QED BY <1>1, <2>1, <2>5, <2>6, PageMovesOnly
<1>5. CASE ~r.editing /\ ~r.tracked /\ r.dirty
  <2>q. PICK q : q = Flush(r)
    OBVIOUS
  <2>1. q \in Page /\ PageWell(q) /\ PageTrue(q, t)
    BY <1>2, <1>5, <2>q, FlushIsWell
  <2>2. tab' = [tab EXCEPT ![t] = q]
    BY <1>1, <1>5, <2>q
  <2> QED BY <1>1, <2>1, <2>2, PageMovesOnly
<1> QED BY <1>3, <1>4, <1>5

LEMMA ScheduleKeeps ==
  ASSUME EditorInv, NEW t \in Tab, Schedule(t)
  PROVE  EditorInv'
<1>p. PICK p \in Page : p = tab[t]
  BY InvParts
<1>r. PICK r : r = [p EXCEPT !.timer = FALSE, !.asked = p.doc.words]
  OBVIOUS
<1>0. r.at = p.at /\ r.goal = p.goal /\ r.editing = p.editing
  BY <1>r DEF Page
<1>1. /\ PageWell(p) /\ PageTrue(p, t) /\ p.at = "open" /\ p.goal = "none" /\ ~p.editing
      /\ UNCHANGED <<drafts, minted, typed>> /\ opened' \in 0..MaxOpened /\ lost' \in 0..MaxLost
      /\ tab' = [tab EXCEPT ![t] = IF r.tracked THEN [r EXCEPT !.goal = "wait_schedule"] ELSE Forced(r)]
  BY <1>p, <1>r, <1>0, InvParts DEF Schedule, Becomes
<1>2. /\ r \in Page /\ HeldPage(r, t) /\ r.at = "open" /\ r.goal = "none" /\ ~r.timer
      /\ r.editing = p.editing /\ r.dirty = p.dirty /\ r.tracked = p.tracked /\ r.early = p.early
      /\ r.doc = p.doc /\ r.asked = r.doc.words /\ r.id = p.id /\ r.save = p.save /\ r.form = NoForm
      /\ r.asked \in Nat
      /\ Saving(r) => ~r.save.force /\ ~r.editing /\ (~r.tracked => r.dirty)
      /\ ~r.early /\ Saving(r) /\ ~r.dirty => r.save.doc.words >= r.asked
  BY <1>1, <1>r, Pressing
<1>3. CASE r.tracked
  <2>q. PICK q : q = Goaling(r, "wait_schedule", r.asked)
    OBVIOUS
  <2>1. /\ q \in Page /\ HeldPage(q, t) /\ q.at = "open" /\ q.form = NoForm /\ q.goal = "wait_schedule"
        /\ q.asked = r.asked /\ q.doc = r.doc /\ q.save = r.save /\ q.early = r.early /\ q.dirty = r.dirty
    BY <1>2, <2>q, PageFields, GoalHeld
  <2>2. Saving(r)
    BY <1>2, <1>3 DEF HeldPage
  <2>3. Waits(q, t)
    <3>1. WordsCarried(q)
      BY <1>2, <2>1, <2>2 DEF WordsCarried, Pressed, Publishing, Saving
    <3> QED BY <1>2, <2>1, <2>2, <3>1 DEF Waits, Saving, RestStored, AtRest, FormStored, Pressed
  <2>4. q = [r EXCEPT !.goal = "wait_schedule"]
    BY <1>2, <2>q DEF Goaling, Page
  <2>5. tab' = [tab EXCEPT ![t] = q]
    BY <1>1, <1>3, <2>4
  <2>6. PageWell(q) /\ PageTrue(q, t)
    BY <2>1, <2>3, HeldAndWaiting
  <2> QED BY <1>1, <2>1, <2>5, <2>6, PageMovesOnly
<1>4. CASE ~r.tracked
  <2>q. PICK q : q = Forced(r)
    OBVIOUS
  <2>1. ~r.editing
    BY <1>1, <1>2
  <2>2. q \in Page /\ PageWell(q) /\ PageTrue(q, t)
    BY <1>2, <1>4, <2>1, <2>q, ForcedIsWell
  <2>3. tab' = [tab EXCEPT ![t] = q]
    BY <1>1, <1>4, <2>q
  <2> QED BY <1>1, <2>2, <2>3, PageMovesOnly
<1> QED BY <1>3, <1>4

LEMMA EditorReadyKeeps ==
  ASSUME EditorInv, NEW t \in Tab, EditorReady(t)
  PROVE  EditorInv'
<1>p. PICK p \in Page : p = tab[t]
  BY InvParts
<1>q. PICK q : q = [p EXCEPT !.at = "open"]
  OBVIOUS
<1>1. /\ PageWell(p) /\ PageTrue(p, t) /\ p.at = "loading"
      /\ UNCHANGED <<drafts, minted, typed>> /\ opened' \in 0..MaxOpened /\ lost' \in 0..MaxLost
  BY <1>p, InvParts DEF EditorReady
<1>2. tab' = [tab EXCEPT ![t] = q]
  BY <1>p, <1>q DEF EditorReady
<1>3. q \in Page
  BY <1>q DEF Page
<1>4. /\ q.at = "open" /\ q.form = p.form /\ q.goal = p.goal /\ q.asked = p.asked /\ q.doc = p.doc
      /\ q.id = p.id /\ q.store = p.store /\ q.own = p.own /\ q.save = p.save
  BY <1>q DEF Page
<1>5. /\ q.early = p.early /\ q.editing = p.editing /\ q.cut = p.cut /\ q.dirty = p.dirty
      /\ q.tracked = p.tracked /\ q.timer = p.timer
  BY <1>q DEF Page
<1>6. /\ ~Saving(q) /\ p.goal = "none" /\ p.form = NoForm /\ ~p.tracked /\ PicturesHeld(p)
      /\ p.editing => p.id = NoDraft
  BY <1>1, <1>4 DEF PageWell, Shaped, OutPage, Saving
<1>7. PageWell(q)
  <2>1. Shaped(q)
    BY <1>4, <1>5, <1>6 DEF Shaped, OutPage
  <2>2. SaveShaped(q) /\ PicturesHeld(q) /\ WordsCarried(q)
    BY <1>4, <1>5, <1>6 DEF SaveShaped, PicturesHeld, WordsCarried, Pressed
  <2> QED BY <1>3, <2>1, <2>2 DEF PageWell
<1>8. PageTrue(q, t)
  BY <1>1, <1>4, <1>5, <1>6
     DEF PageTrue, IdsOf, RestStored, AtRest, AnswerTrue, FormStored, Pressed, OwnKnown, KnownRow, Completed, Saving
<1> QED BY <1>1, <1>2, <1>3, <1>7, <1>8, PageMovesOnly

(* A keystroke: it is noticed, or comes before the editor is ready, or after *)
(* publishing has begun.                                                    *)
Keyed(p, doc, store) == [p EXCEPT !.doc = doc, !.store = store]

LEMMA KeyKeeps ==
  ASSUME EditorInv, NEW t \in Tab, tab[t].at \in {"loading", "open"}, typed < MaxEdits, typed' = typed + 1,
         NEW doc \in Doc, doc.words = typed + 1, NEW store \in SUBSET Image, doc.pics \subseteq store,
         Becomes(t, Noticed(Keyed(tab[t], doc, store))),
         UNCHANGED <<drafts, minted, opened, lost>>
  PROVE  EditorInv'
<1>p. PICK p \in Page : p = tab[t]
  BY InvParts
<1>1. /\ PageWell(p) /\ PageTrue(p, t) /\ p.at \in {"loading", "open"} /\ UNCHANGED <<drafts, minted>>
      /\ opened' \in 0..MaxOpened /\ lost' \in 0..MaxLost /\ typed' \in 0..MaxEdits /\ typed \in Nat
  BY <1>p, InvParts, EdBounds
<1>k. PICK r : r = Keyed(p, doc, store)
  OBVIOUS
<1>r. r \in Page /\ r = [p EXCEPT !.doc = doc, !.store = store]
  BY <1>k DEF Page, Keyed
<1>q. PICK q : q = Noticed(r)
  OBVIOUS
<1>2. tab' = [tab EXCEPT ![t] = q]
  BY <1>p, <1>k, <1>q DEF Becomes
<1>3. /\ r.at = p.at /\ r.form = p.form /\ r.goal = p.goal /\ r.asked = p.asked /\ r.doc = doc
      /\ r.id = p.id /\ r.store = store /\ r.own = p.own /\ r.save = p.save
  BY <1>r DEF Page
<1>4. /\ r.early = p.early /\ r.editing = p.editing /\ r.cut = p.cut /\ r.dirty = p.dirty
      /\ r.tracked = p.tracked /\ r.timer = p.timer
  BY <1>r DEF Page
<1>5. /\ q \in Page /\ q.at = p.at /\ q.form = p.form /\ q.goal = p.goal /\ q.asked = p.asked /\ q.doc = doc
      /\ q.id = p.id /\ q.store = store /\ q.own = p.own /\ q.save = p.save
      /\ q.editing = p.editing /\ q.cut = p.cut /\ q.tracked = p.tracked
      /\ \/ p.at = "loading" /\ q.early /\ q.dirty = p.dirty /\ q.timer = p.timer
         \/ p.at = "open" /\ Publishing(p) /\ q.early = p.early /\ q.dirty = p.dirty /\ q.timer = p.timer
         \/ p.at = "open" /\ q.early = p.early /\ q.dirty
  <2>0. Publishing(r) <=> Publishing(p)
    BY <1>3 DEF Publishing
  <2>1. CASE p.at = "loading"
    <3>1. q = [r EXCEPT !.early = TRUE]
      BY <1>q, <1>3, <2>1 DEF Noticed
    <3>2. q \in Page /\ q.early
      BY <1>r, <3>1 DEF Page
    <3>3. /\ q.at = r.at /\ q.form = r.form /\ q.goal = r.goal /\ q.asked = r.asked /\ q.doc = r.doc
          /\ q.id = r.id /\ q.store = r.store /\ q.own = r.own /\ q.save = r.save
      BY <1>r, <3>1 DEF Page
    <3>4. /\ q.editing = r.editing /\ q.cut = r.cut /\ q.tracked = r.tracked /\ q.dirty = r.dirty /\ q.timer = r.timer
      BY <1>r, <3>1 DEF Page
    <3> QED BY <1>3, <1>4, <2>1, <3>2, <3>3, <3>4
  <2>2. CASE p.at # "loading" /\ Publishing(p)
    <3>1. q = r
      BY <1>q, <1>3, <2>0, <2>2 DEF Noticed
    <3> QED BY <1>1, <1>r, <1>3, <1>4, <2>2, <3>1
  <2>3. CASE p.at # "loading" /\ ~Publishing(p)
    <3>b. PICK timer \in BOOLEAN : timer = (r.timer \/ ~r.editing)
      OBVIOUS
    <3>0. q = [r EXCEPT !.dirty = TRUE, !.timer = @ \/ ~r.editing]
      BY <1>q, <1>3, <2>0, <2>3 DEF Noticed
    <3>1. q = [r EXCEPT !.dirty = TRUE, !.timer = timer]
      BY <1>r, <3>0, <3>b DEF Page
    <3>2. q \in Page /\ q.dirty
      BY <1>r, <3>1 DEF Page
    <3>3. /\ q.at = r.at /\ q.form = r.form /\ q.goal = r.goal /\ q.asked = r.asked /\ q.doc = r.doc
          /\ q.id = r.id /\ q.store = r.store /\ q.own = r.own /\ q.save = r.save
      BY <1>r, <3>1 DEF Page
    <3>4. /\ q.editing = r.editing /\ q.cut = r.cut /\ q.tracked = r.tracked /\ q.early = r.early
      BY <1>r, <3>1 DEF Page
    <3> QED BY <1>1, <1>3, <1>4, <2>3, <3>2, <3>3, <3>4
  <2> QED BY <2>1, <2>2, <2>3
<1>6. Saving(q) <=> Saving(p)
  BY <1>5 DEF Saving
<1>7. /\ p.form = NoForm /\ q.form = NoForm /\ (p.at = "loading" => p.goal = "none" /\ ~Saving(p))
      /\ p.goal # "none" => Saving(p)
      /\ p.at = "open" /\ Publishing(p) => p.goal \in {"wait_publish", "flush"}
  BY <1>1, <1>5 DEF PageWell, Shaped, OutPage, Publishing
<1>8. p.doc.words \in Nat /\ p.asked \in Nat /\ doc.words \in Nat /\ p.doc.words <= typed
      /\ (Saving(p) => p.save.doc.words \in Nat /\ p.save.doc.words <= typed)
  BY <1>1, PageFields, SaveFields, EdBounds DEF PageTrue
<1>9. PageWell(q)
  <2>1. Shaped(q)
    BY <1>1, <1>5, <1>6, <1>7 DEF PageWell, Shaped, OutPage
  <2>2. SaveShaped(q) /\ PicturesHeld(q)
    BY <1>1, <1>5, <1>6, <1>7 DEF PageWell, SaveShaped, PicturesHeld
  <2>3. WordsCarried(q)
    <3>1. WordsCarried(p)
      BY <1>1 DEF PageWell
    <3>2. CASE q.early
      BY <3>2 DEF WordsCarried
    <3>3. CASE ~q.early
      <4>1. ~p.early /\ p.at = "open" /\ (q.dirty \/ (q.dirty = p.dirty /\ Publishing(p)))
        BY <1>5, <3>3
      <4>2. p.goal # "none" => p.asked <= doc.words
        <5>1. p.goal # "none" => p.asked <= p.doc.words
          BY <3>1, <4>1 DEF WordsCarried
        <5> QED BY <1>1, <1>8, <5>1
      <4>3. Publishing(p) <=> Publishing(q)
        BY <1>5 DEF Publishing
      <4> QED BY <1>5, <1>6, <3>1, <4>1, <4>2, <4>3 DEF WordsCarried, Pressed
    <3> QED BY <3>2, <3>3
  <2> QED BY <1>5, <2>1, <2>2, <2>3 DEF PageWell
<1>10. PageTrue(q, t)'
  <2>1. IdsOf(q) \subseteq minted \cup {NoDraft}
    BY <1>1, <1>5, <1>6, <1>7 DEF PageTrue, IdsOf
  <2>2. ~AtRest(q) /\ ~Pressed(q)
    <3>1. p.at = "open" /\ Publishing(p) => Saving(p)
      BY <1>7
    <3> QED BY <1>1, <1>5, <1>6, <3>1 DEF AtRest, Pressed
  <2>3. AnswerTrue(q, t) /\ OwnKnown(q) /\ Completed(q)
    BY <1>1, <1>5, <1>6 DEF PageTrue, AnswerTrue, OwnKnown, KnownRow, Completed
  <2>4. AnswerTrue(q, t)' /\ OwnKnown(q)' /\ Completed(q)'
    BY <1>1, <2>3 DEF AnswerTrue, OwnKnown, Completed, Stores, Rows
  <2>5. doc.words <= typed' /\ (Saving(q) => q.save.doc.words <= typed')
    BY <1>1, <1>5, <1>6, <1>8
  <2> QED BY <1>1, <1>5, <2>1, <2>2, <2>4, <2>5 DEF PageTrue, RestStored, FormStored
<1>11. typed <= typed'
  BY <1>1
<1> QED BY <1>1, <1>2, <1>5, <1>9, <1>10, <1>11, PageMoves

LEMMA TypeKeeps ==
  ASSUME EditorInv, NEW t \in Tab, Type(t)
  PROVE  EditorInv'
<1>p. PICK p \in Page : p = tab[t]
  BY InvParts
<1>1. /\ p.doc.pics \subseteq p.store /\ p.doc \in Doc /\ p.store \in SUBSET Image /\ typed < MaxEdits /\ typed \in Nat
  BY <1>p, InvParts, PageFields DEF Type, PageWell, PicturesHeld
<1>d. PICK doc : doc = [p.doc EXCEPT !.words = typed + 1]
  OBVIOUS
<1>2. doc \in Doc /\ doc.words = typed + 1 /\ doc.pics = p.doc.pics
  BY <1>1, <1>d, EdBounds DEF Doc
<1>3. Keyed(p, doc, p.store) = [tab[t] EXCEPT !.doc.words = typed + 1]
  BY <1>p, <1>d DEF Page, Keyed
<1>4. Becomes(t, Noticed(Keyed(tab[t], doc, p.store)))
  BY <1>p, <1>3 DEF Type
<1>5. /\ tab[t].at \in {"loading", "open"} /\ typed < MaxEdits /\ typed' = typed + 1
      /\ UNCHANGED <<drafts, minted, opened, lost>> /\ doc.pics \subseteq p.store
  BY <1>1, <1>2 DEF Type
<1> QED BY <1>1, <1>2, <1>4, <1>5, KeyKeeps

LEMMA InsertImageKeeps ==
  ASSUME EditorInv, NEW t \in Tab, NEW i \in Image, InsertImage(t, i)
  PROVE  EditorInv'
<1>p. PICK p \in Page : p = tab[t]
  BY InvParts
<1>1. /\ p.doc.pics \subseteq p.store /\ p.doc \in Doc /\ p.store \in SUBSET Image /\ typed < MaxEdits /\ typed \in Nat
  BY <1>p, InvParts, PageFields DEF InsertImage, PageWell, PicturesHeld
<1>d. PICK doc : doc = [p.doc EXCEPT !.words = typed + 1, !.pics = @ \cup {i}]
  OBVIOUS
<1>s. PICK store : store = p.store \cup {i}
  OBVIOUS
<1>w. typed + 1 \in 0..MaxEdits /\ p.doc.pics \cup {i} \in SUBSET Image
  BY <1>1, EdBounds, PageFields
<1>c. doc = [p.doc EXCEPT !.words = typed + 1, !.pics = p.doc.pics \cup {i}]
  BY <1>1, <1>d DEF Doc
<1>2. doc \in Doc /\ doc.words = typed + 1 /\ doc.pics = p.doc.pics \cup {i}
  BY <1>1, <1>w, <1>c DEF Doc
<1>3. Keyed(p, doc, store) = [p EXCEPT !.store = @ \cup {i}, !.doc.words = typed + 1, !.doc.pics = @ \cup {i}]
  BY <1>1, <1>d, <1>s DEF Page, Doc, Keyed
<1>4. store \in SUBSET Image /\ doc.pics \subseteq store
  BY <1>1, <1>2, <1>s
<1>5. Becomes(t, Noticed(Keyed(tab[t], doc, store)))
  BY <1>p, <1>3 DEF InsertImage
<1>6. /\ tab[t].at \in {"loading", "open"} /\ typed < MaxEdits /\ typed' = typed + 1
      /\ UNCHANGED <<drafts, minted, opened, lost>>
  BY DEF InsertImage
<1> QED BY <1>2, <1>4, <1>5, <1>6, KeyKeeps

(* A step of the save itself, the page standing as it was. *)
Resave(p, s) == [p EXCEPT !.save = s]

LEMMA ResaveIsWell ==
  ASSUME NEW p \in Page, PageWell(p), Saving(p), NEW s \in Save,
         s.id = p.save.id, s.doc = p.save.doc, s.refs = p.save.refs, s.force = p.save.force, StepShaped(s)
  PROVE  LET q == Resave(p, s) IN
         /\ q \in Page /\ PageWell(q) /\ Saving(q) /\ q.save = s
         /\ q.at = p.at /\ q.form = p.form /\ q.goal = p.goal /\ q.asked = p.asked /\ q.doc = p.doc
         /\ q.id = p.id /\ q.own = p.own
         /\ q.early = p.early /\ q.editing = p.editing /\ q.cut = p.cut /\ q.dirty = p.dirty
<1>g. PICK q : q = Resave(p, s)
  OBVIOUS
<1>q. q = [p EXCEPT !.save = s]
  BY <1>g DEF Resave
<1>1. q \in Page
  BY <1>q DEF Page
<1>2. /\ q.at = p.at /\ q.form = p.form /\ q.goal = p.goal /\ q.asked = p.asked /\ q.doc = p.doc
      /\ q.id = p.id /\ q.store = p.store /\ q.own = p.own /\ q.save = s
  BY <1>q DEF Page
<1>3. /\ q.early = p.early /\ q.editing = p.editing /\ q.cut = p.cut /\ q.dirty = p.dirty
      /\ q.tracked = p.tracked /\ q.timer = p.timer
  BY <1>q DEF Page
<1>4. Saving(q)
  BY <1>2, EdBounds DEF Saving
<1>5. Shaped(q)
  BY <1>2, <1>3, <1>4 DEF PageWell, Shaped, OutPage
<1>6. SaveShaped(q) /\ PicturesHeld(q)
  BY <1>2, <1>4 DEF PageWell, SaveShaped, PicturesHeld
<1>7. WordsCarried(q)
  BY <1>2, <1>3, <1>4 DEF PageWell, WordsCarried, Pressed, Publishing
<1> QED BY <1>g, <1>1, <1>2, <1>3, <1>4, <1>5, <1>6, <1>7 DEF PageWell

Replied(s, status, made) == [s EXCEPT !.step = "answered", !.status = status, !.made = made]

LEMMA ReplyFields ==
  ASSUME NEW s \in Save, NEW status \in {"ok", "not_found", "limit", "error"}, NEW made \in DraftId \cup {NoDraft}
  PROVE  LET r == Replied(s, status, made) IN
         /\ r \in Save /\ r.step = "answered" /\ r.status = status /\ r.made = made
         /\ r.id = s.id /\ r.doc = s.doc /\ r.refs = s.refs /\ r.force = s.force
BY DEF Save, Replied

LEMMA CountDraftsKeeps ==
  ASSUME EditorInv, NEW t \in Tab, CountDrafts(t)
  PROVE  EditorInv'
<1>p. PICK p \in Page : p = tab[t]
  BY InvParts
<1>1. /\ PageWell(p) /\ PageTrue(p, t) /\ Saving(p) /\ p.save.step = "sent" /\ p.save.id = NoDraft
      /\ UNCHANGED <<drafts, minted, typed>> /\ opened' \in 0..MaxOpened /\ lost' \in 0..MaxLost
      /\ p.save \in Save /\ StepShaped(p.save)
  BY <1>p, InvParts, SaveFields DEF CountDrafts, PageWell, SaveShaped
<1>2. PICK s \in {[p.save EXCEPT !.step = "counted"], Replied(p.save, "limit", NoDraft)} :
        tab' = [tab EXCEPT ![t] = Resave(p, s)]
  BY <1>p DEF CountDrafts, Becomes, Answer, Resave, Replied, Page
<1>3. /\ s \in Save /\ s.id = p.save.id /\ s.doc = p.save.doc /\ s.refs = p.save.refs /\ s.force = p.save.force
      /\ StepShaped(s) /\ s.status # "ok" /\ s.status # "not_found" /\ s.made \in {p.save.made, NoDraft}
  <2>1. CASE s = [p.save EXCEPT !.step = "counted"]
    BY <1>1, <2>1 DEF Save, StepShaped
  <2>2. CASE s = Replied(p.save, "limit", NoDraft)
    BY <1>1, <2>2, ReplyFields DEF StepShaped
  <2> QED BY <1>2, <2>1, <2>2
<1>4. p.save.status = "none"
  BY <1>1 DEF StepShaped
<1>q. PICK q : q = Resave(p, s)
  OBVIOUS
<1>5. /\ q \in Page /\ PageWell(q) /\ Saving(q) /\ q.save = s
      /\ q.at = p.at /\ q.form = p.form /\ q.goal = p.goal /\ q.asked = p.asked /\ q.doc = p.doc
      /\ q.id = p.id /\ q.own = p.own
      /\ q.early = p.early /\ q.editing = p.editing /\ q.cut = p.cut /\ q.dirty = p.dirty
  BY <1>1, <1>3, <1>q, ResaveIsWell
<1>6. PageTrue(q, t)
  <2>1. IdsOf(q) \subseteq IdsOf(p) \cup {NoDraft}
    BY <1>1, <1>3, <1>5 DEF IdsOf
  <2>2. RestStored(q, t) /\ AnswerTrue(q, t) /\ FormStored(q, t)
    BY <1>1, <1>3, <1>5 DEF PageTrue, RestStored, AtRest, AnswerTrue, FormStored, Pressed
  <2>3. OwnKnown(q) /\ Completed(q)
    BY <1>1, <1>3, <1>4, <1>5 DEF PageTrue, OwnKnown, KnownRow, Completed
  <2> QED BY <1>1, <1>3, <1>5, <2>1, <2>2, <2>3 DEF PageTrue
<1> QED BY <1>1, <1>2, <1>q, <1>5, <1>6, PageMovesOnly

LEMMA LoseSaveKeeps ==
  ASSUME EditorInv, NEW t \in Tab, LoseSave(t)
  PROVE  EditorInv'
<1>p. PICK p \in Page : p = tab[t]
  BY InvParts
<1>1. /\ PageWell(p) /\ PageTrue(p, t) /\ Saving(p) /\ p.save.status \in {"none", "ok"}
      /\ UNCHANGED <<drafts, minted, typed>> /\ opened' \in 0..MaxOpened /\ lost' \in 0..MaxLost
      /\ p.save \in Save /\ StepShaped(p.save) /\ p.cut \in BOOLEAN
  BY <1>p, InvParts, SaveFields, PageFields, EdBounds DEF LoseSave, Lose, PageWell, SaveShaped
<1>s. PICK s : s = Replied(p.save, "error", p.save.made)
  OBVIOUS
<1>c. PICK cut \in BOOLEAN : cut = (p.cut \/ p.save.status = "ok")
  BY <1>1
<1>r. PICK r : r = Resave(p, s)
  OBVIOUS
<1>q. PICK q : q = [r EXCEPT !.cut = cut]
  OBVIOUS
<1>2. tab' = [tab EXCEPT ![t] = q]
  BY <1>p, <1>1, <1>s, <1>c, <1>r, <1>q, InvParts DEF LoseSave, Resave, Replied, Page, Save, EdTypeOK
<1>3. /\ s \in Save /\ s.id = p.save.id /\ s.doc = p.save.doc /\ s.refs = p.save.refs /\ s.force = p.save.force
      /\ s.made = p.save.made /\ StepShaped(s) /\ s.status = "error"
  <2>1. p.save.made \in DraftId \cup {NoDraft}
    BY <1>1, SaveFields
  <2> QED BY <1>1, <1>s, <2>1, ReplyFields DEF StepShaped
<1>5. /\ r \in Page /\ PageWell(r) /\ Saving(r) /\ r.save = s
      /\ r.at = p.at /\ r.form = p.form /\ r.goal = p.goal /\ r.asked = p.asked /\ r.doc = p.doc
      /\ r.id = p.id /\ r.own = p.own
      /\ r.early = p.early /\ r.editing = p.editing /\ r.dirty = p.dirty
  BY <1>1, <1>3, <1>r, ResaveIsWell
<1>6. q \in Page
  BY <1>5, <1>q DEF Page
<1>7. /\ q.at = r.at /\ q.form = r.form /\ q.goal = r.goal /\ q.asked = r.asked /\ q.doc = r.doc
      /\ q.id = r.id /\ q.store = r.store /\ q.own = r.own /\ q.save = r.save
  BY <1>5, <1>q DEF Page
<1>8. /\ q.early = r.early /\ q.editing = r.editing /\ q.dirty = r.dirty /\ q.cut = cut
      /\ q.tracked = r.tracked /\ q.timer = r.timer
  BY <1>5, <1>q DEF Page
<1>9. PageWell(q)
  <2>1. Shaped(q)
    BY <1>5, <1>7, <1>8 DEF PageWell, Shaped, OutPage, Saving
  <2>2. SaveShaped(q) /\ PicturesHeld(q)
    BY <1>5, <1>7 DEF PageWell, SaveShaped, PicturesHeld, Saving
  <2>3. WordsCarried(q)
    BY <1>5, <1>7, <1>8 DEF PageWell, WordsCarried, Pressed, Publishing, Saving
  <2> QED BY <1>6, <2>1, <2>2, <2>3 DEF PageWell
<1>10. Saving(q) /\ q.save = s
  BY <1>5, <1>7 DEF Saving
<1>11. PageTrue(q, t)
  <2>1. IdsOf(q) \subseteq IdsOf(p)
    BY <1>1, <1>3, <1>5, <1>7, <1>10 DEF IdsOf
  <2>2. RestStored(q, t) /\ AnswerTrue(q, t) /\ Completed(q)
    BY <1>1, <1>3, <1>5, <1>7, <1>8, <1>10 DEF PageTrue, RestStored, AtRest, AnswerTrue, Completed
  <2>3. FormStored(q, t)
    BY <1>1, <1>5, <1>7, <1>8 DEF PageTrue, FormStored, Pressed
  <2>4. OwnKnown(q)
    BY <1>1, <1>3, <1>c, <1>5, <1>7, <1>8, <1>10 DEF PageTrue, OwnKnown, KnownRow
  <2> QED BY <1>1, <1>3, <1>5, <1>7, <1>10, <2>1, <2>2, <2>3, <2>4 DEF PageTrue
<1> QED BY <1>1, <1>2, <1>6, <1>9, <1>11, PageMovesOnly

(* A page that is left, or not there any more. *)
LEMMA GonePage ==
  ASSUME NEW p \in Page, NEW t \in Tab, p.at = "closed", p.form = NoForm, p.goal = "none", p.id = NoDraft,
         p.own = {}, p.doc = Blank, ~p.tracked, ~p.editing, typed \in Nat,
         Saving(p) => /\ StepShaped(p.save) /\ p.save.doc.pics \subseteq p.save.refs /\ p.save.doc.words <= typed
                      /\ {p.save.id, p.save.made} \subseteq minted \cup {NoDraft},
         AnswerTrue(p, t)
  PROVE  PageWell(p) /\ PageTrue(p, t)
<1>1. p.doc.words = 0 /\ p.doc.pics = {}
  BY DEF Blank
<1>2. Shaped(p) /\ SaveShaped(p) /\ PicturesHeld(p)
  BY <1>1 DEF Shaped, OutPage, SaveShaped, PicturesHeld
<1>3. WordsCarried(p)
  BY DEF WordsCarried, Pressed
<1>4. IdsOf(p) \subseteq minted \cup {NoDraft}
  BY DEF IdsOf
<1>5. RestStored(p, t) /\ FormStored(p, t) /\ OwnKnown(p) /\ Completed(p)
  BY DEF RestStored, AtRest, FormStored, Pressed, OwnKnown, Completed
<1> QED BY <1>1, <1>2, <1>3, <1>4, <1>5 DEF PageWell, PageTrue

LEMMA LeaveKeeps ==
  ASSUME EditorInv, NEW t \in Tab, Leave(t)
  PROVE  EditorInv'
<1>p. PICK p \in Page : p = tab[t]
  BY InvParts
<1>1. /\ PageWell(p) /\ PageTrue(p, t) /\ p.at # "closed" /\ typed \in Nat
      /\ UNCHANGED <<drafts, minted, typed>> /\ opened' \in 0..MaxOpened /\ lost' \in 0..MaxLost
      /\ p.save \in Save \cup {NoSave}
  BY <1>p, InvParts, PageFields DEF Leave
<1>c. PICK c \in Page : c = Closed
  BY ClosedPage
<1>q. PICK q : q = [c EXCEPT !.save = p.save]
  OBVIOUS
<1>2. tab' = [tab EXCEPT ![t] = q]
  BY <1>p, <1>c, <1>q DEF Leave
<1>3. q \in Page
  BY <1>1, <1>q DEF Page
<1>4. /\ q.at = "closed" /\ q.form = NoForm /\ q.goal = "none" /\ q.doc = Blank
      /\ q.id = NoDraft /\ q.own = {} /\ q.save = p.save
  BY <1>c, <1>q, ClosedPage DEF Page
<1>5. ~q.tracked /\ ~q.editing
  BY <1>c, <1>q, ClosedPage DEF Page
<1>6. Saving(q) <=> Saving(p)
  BY <1>4 DEF Saving
<1>7. Saving(q) => /\ StepShaped(q.save) /\ q.save.doc.pics \subseteq q.save.refs /\ q.save.doc.words <= typed
                   /\ {q.save.id, q.save.made} \subseteq minted \cup {NoDraft}
  BY <1>1, <1>4, <1>6 DEF PageWell, SaveShaped, PicturesHeld, PageTrue, IdsOf
<1>8. AnswerTrue(q, t)
  BY <1>1, <1>4, <1>6 DEF PageTrue, AnswerTrue
<1>9. PageWell(q) /\ PageTrue(q, t)
  BY <1>1, <1>3, <1>4, <1>5, <1>7, <1>8, GonePage
<1> QED BY <1>1, <1>2, <1>3, <1>9, PageMovesOnly

LEMMA ForgottenKeeps ==
  ASSUME EditorInv, NEW t \in Tab, Forgotten(t)
  PROVE  EditorInv'
<1>p. PICK p \in Page : p = tab[t]
  BY InvParts
<1>1. /\ PageWell(p) /\ PageTrue(p, t) /\ Saving(p) /\ p.at \notin {"open", "posting", "landed"}
      /\ UNCHANGED <<drafts, minted, typed>> /\ opened' \in 0..MaxOpened /\ lost' \in 0..MaxLost
  BY <1>p, InvParts, EdBounds DEF Forgotten, Live, Lose
<1>q. PICK q : q = Resave(p, NoSave)
  OBVIOUS
<1>2. tab' = [tab EXCEPT ![t] = q]
  BY <1>p, <1>q DEF Forgotten, Resave
<1>3. q = [p EXCEPT !.save = NoSave]
  BY <1>q DEF Resave
<1>4. q \in Page
  BY <1>3 DEF Page
<1>5. /\ q.at = p.at /\ q.form = p.form /\ q.goal = p.goal /\ q.asked = p.asked /\ q.doc = p.doc
      /\ q.id = p.id /\ q.store = p.store /\ q.own = p.own /\ q.save = NoSave
  BY <1>3 DEF Page
<1>6. /\ q.early = p.early /\ q.editing = p.editing /\ q.cut = p.cut /\ q.dirty = p.dirty
      /\ q.tracked = p.tracked /\ q.timer = p.timer
  BY <1>3 DEF Page
<1>7. p.at \in {"closed", "refused"} /\ p.goal = "none" /\ ~Saving(q)
  <2>1. p.at \in {"closed", "refused"}
    BY <1>1, PageFields DEF PageWell, Shaped
  <2> QED BY <1>1, <1>5, <2>1 DEF PageWell, Shaped, Saving
<1>8. PageWell(q)
  <2>1. Shaped(q)
    <3>1. /\ OutPage(p) <=> p.form # NoForm
          /\ p.tracked => p.at = "refused"
          /\ p.editing => p.id = NoDraft
          /\ OutPage(p) /\ p.form.kind = "publish" /\ p.form.id # NoDraft => p.id = p.form.id
      BY <1>1, <1>7 DEF PageWell, Shaped
    <3> QED BY <1>5, <1>6, <1>7, <3>1 DEF Shaped, OutPage
  <2>2. SaveShaped(q) /\ PicturesHeld(q)
    BY <1>1, <1>5, <1>7 DEF PageWell, SaveShaped, PicturesHeld
  <2>3. WordsCarried(q)
    BY <1>5, <1>7 DEF WordsCarried, Pressed
  <2> QED BY <1>4, <2>1, <2>2, <2>3 DEF PageWell
<1>9. PageTrue(q, t)
  <2>1. IdsOf(q) \subseteq IdsOf(p)
    BY <1>5, <1>7 DEF IdsOf
  <2> QED BY <1>1, <1>5, <1>6, <1>7, <2>1
         DEF PageTrue, RestStored, AtRest, AnswerTrue, FormStored, Pressed, OwnKnown, Completed
<1> QED BY <1>1, <1>2, <1>4, <1>8, <1>9, PageMovesOnly

LEMMA FormAnsweredKeeps ==
  ASSUME EditorInv, NEW t \in Tab, FormAnswered(t)
  PROVE  EditorInv'
<1>p. PICK p \in Page : p = tab[t]
  BY InvParts
<1>1. /\ PageWell(p) /\ PageTrue(p, t) /\ p.at = "posting"
      /\ UNCHANGED <<drafts, minted, typed>> /\ opened' \in 0..MaxOpened /\ lost' \in 0..MaxLost
  BY <1>p, InvParts DEF FormAnswered
<1>2. PICK at \in {"landed", "refused"} :
        /\ tab' = [tab EXCEPT ![t].at = at]
        /\ at = "landed" => p.form.kind = "schedule"
  BY <1>p DEF FormAnswered
<1>q. PICK q : q = [p EXCEPT !.at = at]
  OBVIOUS
<1>3. tab' = [tab EXCEPT ![t] = q]
  BY <1>p, <1>2, <1>q
<1>4. q \in Page
  BY <1>q DEF Page
<1>5. /\ q.at = at /\ q.form = p.form /\ q.goal = p.goal /\ q.asked = p.asked /\ q.doc = p.doc
      /\ q.id = p.id /\ q.store = p.store /\ q.own = p.own /\ q.save = p.save
  BY <1>q DEF Page
<1>6. /\ q.early = p.early /\ q.editing = p.editing /\ q.cut = p.cut /\ q.dirty = p.dirty
      /\ q.tracked = p.tracked /\ q.timer = p.timer
  BY <1>q DEF Page
<1>7. (Saving(q) <=> Saving(p)) /\ p.goal = "none"
  BY <1>1, <1>5 DEF PageWell, Shaped, Saving
<1>8. PageWell(q)
  <2>1. Shaped(q)
    BY <1>1, <1>2, <1>5, <1>6, <1>7 DEF PageWell, Shaped, OutPage
  <2>2. SaveShaped(q) /\ PicturesHeld(q)
    BY <1>1, <1>5, <1>7 DEF PageWell, SaveShaped, PicturesHeld
  <2>3. WordsCarried(q)
    BY <1>2, <1>5, <1>7 DEF WordsCarried, Pressed
  <2> QED BY <1>4, <2>1, <2>2, <2>3 DEF PageWell
<1>9. PageTrue(q, t)
  <2>1. IdsOf(q) \subseteq IdsOf(p)
    BY <1>5, <1>7 DEF IdsOf
  <2>2. Completed(q) /\ FormStored(q, t) /\ RestStored(q, t)
    BY <1>2, <1>5 DEF Completed, FormStored, Pressed, RestStored, AtRest
  <2> QED BY <1>1, <1>5, <1>6, <1>7, <2>1, <2>2 DEF PageTrue, AnswerTrue, OwnKnown, KnownRow
<1> QED BY <1>1, <1>3, <1>4, <1>8, <1>9, PageMovesOnly

(* A page opened on a row, or a fresh one. *)
LEMMA MountedKeeps ==
  ASSUME EditorInv, NEW t \in Tab, NEW editing \in BOOLEAN, NEW id \in DraftId \cup {NoDraft}, NEW doc \in Doc,
         NEW store \in SUBSET Image, Becomes(t, Mounted(editing, id, doc, store)),
         UNCHANGED <<drafts, minted, typed>>, opened' \in 0..MaxOpened, lost' \in 0..MaxLost,
         editing => id = NoDraft,
         IF id = NoDraft THEN doc = Blank ELSE id \in Rows /\ doc = drafts[id].doc /\ store = drafts[id].refs
  PROVE  EditorInv'
<1>q. PICK q : q = Mounted(editing, id, doc, store)
  OBVIOUS
<1>1. /\ q \in Page /\ q.at = "loading" /\ (q.editing <=> editing) /\ q.id = id /\ q.doc = doc
      /\ q.store = store /\ ~q.dirty /\ ~q.timer /\ ~q.tracked /\ q.goal = "none" /\ q.form = NoForm
      /\ q.save = NoSave /\ ~q.early /\ ~q.cut /\ q.own = {}
  BY <1>q, MountedPage
<1>2. tab' = [tab EXCEPT ![t] = q]
  BY <1>q DEF Becomes
<1>3. ~Saving(q)
  BY <1>1 DEF Saving
<1>4. typed \in Nat
  BY InvParts
<1>5. doc.pics \subseteq store /\ doc.words <= typed /\ id \in minted \cup {NoDraft}
  <2>1. CASE id = NoDraft
    BY <1>4, <2>1 DEF Blank
  <2>2. CASE id # NoDraft
    BY <2>2 DEF EditorInv
  <2> QED BY <2>1, <2>2
<1>6. id # NoDraft => drafts[id].doc.words \in Nat
  BY InvParts, EdBounds DEF EdTypeOK, Row, Doc, Rows
<1>7. PageWell(q)
  BY <1>1, <1>3, <1>5 DEF PageWell, Shaped, OutPage, SaveShaped, PicturesHeld, WordsCarried, Pressed
<1>8. PageTrue(q, t)
  <2>1. RestStored(q, t)
    BY <1>1, <1>6 DEF RestStored, Stores
  <2> QED BY <1>1, <1>3, <1>5, <2>1
         DEF PageTrue, IdsOf, AnswerTrue, FormStored, Pressed, OwnKnown, Completed
<1> QED BY <1>1, <1>2, <1>7, <1>8, PageMovesOnly

LEMMA FreshKeeps ==
  ASSUME EditorInv, NEW t \in Tab, NEW editing \in BOOLEAN, Becomes(t, Mounted(editing, NoDraft, Blank, {})),
         UNCHANGED <<drafts, minted, typed>>, opened' \in 0..MaxOpened, lost' \in 0..MaxLost
  PROVE  EditorInv'
<1>1. PICK doc \in Doc : doc = Blank
  BY EdBounds
<1>2. PICK store \in SUBSET Image : store = {}
  OBVIOUS
<1>3. PICK id \in DraftId \cup {NoDraft} : id = NoDraft
  OBVIOUS
<1>4. Becomes(t, Mounted(editing, id, doc, store))
  BY <1>1, <1>2, <1>3
<1> QED BY <1>1, <1>3, <1>4, MountedKeeps

LEMMA LoadedKeeps ==
  ASSUME EditorInv, NEW t \in Tab, NEW d \in DraftId \cup {NoDraft}, Loaded(t, d),
         UNCHANGED <<drafts, minted, typed>>, opened' \in 0..MaxOpened
  PROVE  EditorInv'
<1>0. lost' \in 0..MaxLost
  BY InvParts, EdBounds DEF Loaded, Lose
<1>1. CASE Fresh(t)
  BY <1>0, <1>1, FreshKeeps DEF Fresh
<1>2. CASE d \in Rows /\ Becomes(t, Resumed(d))
  <2>1. d \in DraftId /\ drafts[d] \in Row /\ d # NoDraft
    BY <1>2, InvParts, EdBounds DEF EdTypeOK, Rows
  <2>2. drafts[d].doc \in Doc /\ drafts[d].refs \in SUBSET Image
    BY <2>1 DEF Row
  <2> QED BY <1>0, <1>2, <2>1, <2>2, MountedKeeps DEF Resumed
<1> QED BY <1>1, <1>2 DEF Loaded

LEMMA OpenKeeps ==
  ASSUME EditorInv, NEW t \in Tab, Open(t)
  PROVE  EditorInv'
<1>1. opened' \in 0..MaxOpened /\ UNCHANGED <<drafts, minted, typed>>
  BY InvParts, EdBounds DEF Open
<1>2. ASSUME NEW d \in DraftId \cup {NoDraft}, Loaded(t, d) PROVE EditorInv'
  BY <1>1, <1>2, LoadedKeeps
<1>3. minted \subseteq DraftId
  BY InvParts DEF EdTypeOK
<1>4. CASE Becomes(t, Mounted(TRUE, NoDraft, Blank, {})) /\ UNCHANGED lost
  BY <1>1, <1>4, FreshKeeps, InvParts
<1> QED BY <1>2, <1>3, <1>4 DEF Open

LEMMA ComeBackKeeps ==
  ASSUME EditorInv, NEW t \in Tab, ComeBack(t)
  PROVE  EditorInv'
<1>p. PICK p \in Page : p = tab[t]
  BY InvParts
<1>1. UNCHANGED <<drafts, minted, typed>> /\ opened' \in 0..MaxOpened /\ p.at = "refused" /\ PageWell(p)
  BY <1>p, InvParts DEF ComeBack
<1>2. CASE Becomes(t, Mounted(TRUE, NoDraft, Blank, {})) /\ UNCHANGED lost
  BY <1>1, <1>2, FreshKeeps, InvParts
<1>3. CASE Loaded(t, p.form.id)
  <2>1. p.form.id \in DraftId \cup {NoDraft}
    BY <1>1, FormFields DEF PageWell, Shaped, OutPage
  <2> QED BY <1>1, <1>3, <2>1, LoadedKeeps
<1> QED BY <1>p, <1>2, <1>3 DEF ComeBack

-----------------------------------------------------------------------------
(* The steps that write or remove a row.                                    *)

(* What a page knows of a row stands when the row is as it was, or gone, or  *)
(* another tab has written it since.                                        *)
Stood(d, t) ==
  \/ drafts'[d] = drafts[d]
  \/ drafts'[d] = NoRow
  \/ drafts[d] # NoRow /\ drafts'[d] # NoRow /\ drafts'[d].by # t

LEMMA RowsMove ==
  ASSUME NEW p \in Page, NEW t \in Tab, PageWell(p), PageTrue(p, t), minted \subseteq minted', UNCHANGED typed,
         \A d \in IdsOf(p) \ {NoDraft} : Stood(d, t)
  PROVE  PageTrue(p, t)'
<1>1. ASSUME NEW d \in IdsOf(p) \ {NoDraft}
      PROVE  drafts[d] = NoRow => drafts'[d] = NoRow
  BY <1>1 DEF Stood
<1>2. ASSUME NEW d \in IdsOf(p) \ {NoDraft}, NEW n, Stores(d, t, n)
      PROVE  Stores(d, t, n)'
  BY <1>2 DEF Stood, Stores
<1>3. /\ p.id \in IdsOf(p) /\ p.own \subseteq IdsOf(p)
      /\ Saving(p) => p.save.id \in IdsOf(p) /\ p.save.made \in IdsOf(p)
      /\ p.form # NoForm => p.form.id \in IdsOf(p)
  BY DEF IdsOf
<1>4. RestStored(p, t)'
  <2>1. CASE ~AtRest(p) \/ p.id = NoDraft
    BY <2>1 DEF PageTrue, RestStored
  <2>2. CASE AtRest(p) /\ p.id # NoDraft
    <3>1. Stores(p.id, t, p.doc.words)
      BY <2>2 DEF PageTrue, RestStored
    <3>2. Stores(p.id, t, p.doc.words)'
      BY <1>2, <1>3, <2>2, <3>1
    <3> QED BY <2>2, <3>2 DEF RestStored
  <2> QED BY <2>1, <2>2
<1>5. AnswerTrue(p, t)'
  <2>1. CASE Saving(p) /\ p.save.status = "ok"
    <3>1. Stores(p.save.made, t, p.save.doc.words) /\ p.save.made # NoDraft
      BY <2>1 DEF PageTrue, AnswerTrue, PageWell, SaveShaped, StepShaped
    <3>2. Stores(p.save.made, t, p.save.doc.words)'
      BY <1>2, <1>3, <2>1, <3>1
    <3> QED BY <2>1, <3>2 DEF AnswerTrue
  <2>2. CASE Saving(p) /\ p.save.status = "not_found"
    <3>1. drafts[p.save.id] = NoRow /\ p.save.id # NoDraft
      BY <2>2 DEF PageTrue, AnswerTrue, PageWell, SaveShaped, StepShaped
    <3>2. drafts'[p.save.id] = NoRow
      BY <1>1, <1>3, <2>2, <3>1
    <3> QED BY <2>2, <3>2 DEF AnswerTrue
  <2>3. CASE ~Saving(p) \/ p.save.status \notin {"ok", "not_found"}
    BY <2>3 DEF AnswerTrue
  <2> QED BY <2>1, <2>2, <2>3
<1>6. FormStored(p, t)'
  <2>1. CASE ~(Pressed(p) /\ ~p.early /\ p.form.doc # Blank)
    BY <2>1 DEF FormStored
  <2>2. CASE Pressed(p) /\ ~p.early /\ p.form.doc # Blank
    <3>1. Stores(p.form.id, t, p.asked) /\ p.form.id # NoDraft /\ p.form # NoForm
      BY <2>2 DEF PageTrue, FormStored, Pressed, PageWell, Shaped, OutPage
    <3>2. Stores(p.form.id, t, p.asked)'
      BY <1>2, <1>3, <3>1
    <3> QED BY <3>1, <3>2 DEF FormStored
  <2> QED BY <2>1, <2>2
<1>7. OwnKnown(p)'
  <2>1. Rows' \cap p.own \subseteq Rows \cap p.own
    <3>1. NoDraft \notin Rows'
      BY EdBounds DEF Rows
    <3> QED BY <1>1, <1>3, <3>1 DEF Rows
  <2> QED BY <2>1 DEF PageTrue, OwnKnown
<1>8. Completed(p)'
  <2>1. CASE ~(p.at = "landed" /\ p.form.kind = "publish" /\ p.form.id # NoDraft)
    BY <2>1 DEF Completed
  <2>2. CASE p.at = "landed" /\ p.form.kind = "publish" /\ p.form.id # NoDraft
    <3>1. drafts[p.form.id] = NoRow /\ p.form # NoForm
      BY <2>2 DEF PageTrue, Completed, PageWell, Shaped, OutPage
    <3>2. drafts'[p.form.id] = NoRow
      BY <1>1, <1>3, <2>2, <3>1
    <3> QED BY <3>2 DEF Completed
  <2> QED BY <2>1, <2>2
<1> QED BY <1>4, <1>5, <1>6, <1>7, <1>8 DEF PageTrue

LEMMA RowsAndPageMove ==
  ASSUME EditorInv, NEW t \in Tab, NEW q \in Page, tab' = [tab EXCEPT ![t] = q],
         UNCHANGED <<opened, typed, lost>>, minted \subseteq minted', minted' \subseteq DraftId,
         drafts' \in [DraftId -> Row \cup {NoRow}], Rows' \subseteq minted',
         \A d \in Rows' : drafts'[d].doc.pics \subseteq drafts'[d].refs /\ drafts'[d].doc.words <= typed,
         \A u \in Tab \ {t} : \A d \in minted : Stood(d, u),
         PageWell(q), PageTrue(q, t)'
  PROVE  EditorInv'
<1>1. EdTypeOK /\ EdTypeOK'
  BY DEF EditorInv, EdTypeOK
<1>2. tab'[t] = q /\ \A u \in Tab : u # t => tab'[u] = tab[u]
  BY <1>1 DEF EdTypeOK
<1>4. ASSUME NEW u \in Tab PROVE PageWell(tab[u])' /\ PageTrue(tab[u], u)'
  <2>1. CASE u = t
    BY <1>2, <2>1 DEF PageTrue, RestStored, AnswerTrue, FormStored, OwnKnown, Completed, Stores
  <2>2. CASE u # t
    <3>1. PICK p \in Page : p = tab[u]
      BY <1>1 DEF EdTypeOK
    <3>2. PageWell(p) /\ PageTrue(p, u)
      BY <3>1 DEF EditorInv
    <3>3. \A d \in IdsOf(p) \ {NoDraft} : Stood(d, u)
      BY <2>2, <3>2 DEF PageTrue
    <3>4. PageTrue(p, u)'
      BY <3>2, <3>3, RowsMove
    <3>5. tab'[u] = p
      BY <1>2, <2>2, <3>1
    <3> QED BY <3>2, <3>4, <3>5
  <2> QED BY <2>1, <2>2
<1> QED BY <1>1, <1>4 DEF EditorInv

LEMMA RowFields ==
  ASSUME EditorInv, NEW d \in DraftId, drafts[d] # NoRow
  PROVE  /\ drafts[d] \in Row /\ drafts[d].doc.pics \subseteq drafts[d].refs /\ drafts[d].doc.words <= typed
         /\ d \in Rows /\ d \in minted
BY DEF EditorInv, EdTypeOK, Rows

LEMMA DeleteDraftKeeps ==
  ASSUME EditorInv, NEW d \in DraftId, DeleteDraft(d)
  PROVE  EditorInv'
<1>1. PICK t \in Tab : TRUE
  BY EdBounds
<1>q. PICK q \in Page : q = tab[t]
  BY InvParts
<1>2. /\ drafts \in [DraftId -> Row \cup {NoRow}] /\ tab \in [Tab -> Page] /\ minted \subseteq DraftId
      /\ PageWell(q) /\ PageTrue(q, t)
  BY <1>q, InvParts DEF EdTypeOK
<1>3. /\ tab' = [tab EXCEPT ![t] = q] /\ UNCHANGED <<opened, typed, lost, minted>>
      /\ drafts' \in [DraftId -> Row \cup {NoRow}]
  BY <1>q, <1>2 DEF DeleteDraft
<1>4. \A e \in DraftId : drafts'[e] = drafts[e] \/ drafts'[e] = NoRow
  BY <1>2 DEF DeleteDraft
<1>5. Rows' \subseteq Rows /\ \A e \in Rows' : drafts'[e] = drafts[e]
  BY <1>4 DEF Rows
<1>6. \A u \in Tab : \A e \in minted : Stood(e, u)
  BY <1>2, <1>4 DEF Stood
<1>7. PageTrue(q, t)'
  <2>1. \A e \in IdsOf(q) \ {NoDraft} : Stood(e, t)
    BY <1>2, <1>6 DEF PageTrue
  <2> QED BY <1>2, <1>3, <2>1, RowsMove
<1>8. Rows \subseteq minted /\ \A e \in Rows : drafts[e].doc.pics \subseteq drafts[e].refs /\ drafts[e].doc.words <= typed
  BY DEF EditorInv
<1> QED BY <1>2, <1>3, <1>5, <1>6, <1>7, <1>8, RowsAndPageMove

LEMMA PublishLandsKeeps ==
  ASSUME EditorInv, NEW t \in Tab, PublishLands(t)
  PROVE  EditorInv'
<1>p. PICK p \in Page : p = tab[t]
  BY InvParts
<1>0. /\ drafts \in [DraftId -> Row \cup {NoRow}] /\ minted \subseteq DraftId /\ PageWell(p) /\ PageTrue(p, t)
      /\ p.at = "posting" /\ p.form.kind = "publish"
  BY <1>p, InvParts DEF EdTypeOK, PublishLands
<1>q. PICK q : q = [p EXCEPT !.at = "landed"]
  OBVIOUS
<1>1. /\ tab' = [tab EXCEPT ![t] = q] /\ UNCHANGED <<opened, typed, lost, minted>>
      /\ drafts' = [d \in DraftId |-> IF d = p.form.id THEN NoRow ELSE drafts[d]]
  BY <1>p, <1>q DEF PublishLands
<1>2. /\ drafts' \in [DraftId -> Row \cup {NoRow}]
      /\ \A e \in DraftId : drafts'[e] = drafts[e] \/ drafts'[e] = NoRow
  BY <1>0, <1>1
<1>3. Rows' \subseteq Rows /\ \A e \in Rows' : drafts'[e] = drafts[e]
  BY <1>2 DEF Rows
<1>4. \A u \in Tab : \A e \in minted : Stood(e, u)
  BY <1>0, <1>2 DEF Stood
<1>5. q \in Page
  BY <1>q DEF Page
<1>6. /\ q.at = "landed" /\ q.form = p.form /\ q.goal = p.goal /\ q.asked = p.asked /\ q.doc = p.doc
      /\ q.id = p.id /\ q.store = p.store /\ q.own = p.own /\ q.save = p.save
  BY <1>q DEF Page
<1>7. /\ q.early = p.early /\ q.editing = p.editing /\ q.cut = p.cut /\ q.dirty = p.dirty
      /\ q.tracked = p.tracked /\ q.timer = p.timer
  BY <1>q DEF Page
<1>8. (Saving(q) <=> Saving(p)) /\ p.goal = "none" /\ p.form # NoForm
  BY <1>0, <1>6 DEF PageWell, Shaped, Saving, OutPage
<1>9. PageWell(q)
  <2>1. Shaped(q)
    BY <1>0, <1>6, <1>7, <1>8 DEF PageWell, Shaped, OutPage
  <2>2. SaveShaped(q) /\ PicturesHeld(q)
    BY <1>0, <1>6, <1>8 DEF PageWell, SaveShaped, PicturesHeld
  <2>3. WordsCarried(q)
    BY <1>6, <1>8 DEF WordsCarried, Pressed
  <2> QED BY <1>5, <2>1, <2>2, <2>3 DEF PageWell
<1>10. PageTrue(q, t)'
  <2>1. \A e \in IdsOf(p) \ {NoDraft} : Stood(e, t)
    BY <1>0, <1>4 DEF PageTrue
  <2>2. PageTrue(p, t)'
    BY <1>0, <1>1, <2>1, RowsMove
  <2>3. IdsOf(q) = IdsOf(p)
    BY <1>6, <1>8 DEF IdsOf
  <2>4. Completed(q)'
    <3>1. p.form.id \in DraftId \cup {NoDraft}
      BY <1>8, FormFields
    <3> QED BY <1>1, <1>6, <3>1 DEF Completed
  <2>5. RestStored(q, t)' /\ FormStored(q, t)'
    BY <1>6 DEF RestStored, AtRest, FormStored, Pressed
  <2>6. AnswerTrue(q, t)' /\ OwnKnown(q)'
    BY <1>0, <1>6, <1>7, <1>8, <2>2 DEF PageTrue, AnswerTrue, OwnKnown, KnownRow
  <2> QED BY <1>6, <1>8, <2>2, <2>3, <2>4, <2>5, <2>6 DEF PageTrue
<1>11. Rows \subseteq minted /\ \A e \in Rows : drafts[e].doc.pics \subseteq drafts[e].refs /\ drafts[e].doc.words <= typed
  BY DEF EditorInv
<1> QED BY <1>0, <1>1, <1>2, <1>3, <1>4, <1>5, <1>9, <1>10, <1>11, RowsAndPageMove

LEMMA UpdateDraftKeeps ==
  ASSUME EditorInv, NEW t \in Tab, UpdateDraft(t)
  PROVE  EditorInv'
<1>p. PICK p \in Page : p = tab[t]
  BY InvParts
<1>s. PICK s : s = p.save
  OBVIOUS
<1>0. /\ drafts \in [DraftId -> Row \cup {NoRow}] /\ minted \subseteq DraftId /\ PageWell(p) /\ PageTrue(p, t)
      /\ Saving(p) /\ s.step = "sent" /\ s.id # NoDraft /\ UNCHANGED <<minted, opened, typed, lost>>
      /\ opened' \in 0..MaxOpened /\ lost' \in 0..MaxLost
  BY <1>p, <1>s, InvParts DEF EdTypeOK, UpdateDraft
<1>1. /\ s \in Save /\ s.id \in DraftId /\ s.id \in minted /\ StepShaped(s) /\ s.doc \in Doc /\ s.refs \in SUBSET Image
      /\ s.doc.pics \subseteq s.refs /\ s.doc.words <= typed /\ s.status = "none"
      /\ (p.at # "closed" => s.id = p.id)
  BY <1>0, <1>s, SaveFields DEF PageWell, SaveShaped, StepShaped, PicturesHeld, PageTrue, IdsOf
<1>2. CASE drafts[s.id] = NoRow
  <2>r. PICK r : r = Replied(s, "not_found", NoDraft)
    OBVIOUS
  <2>q. PICK q : q = Resave(p, r)
    OBVIOUS
  <2>1. tab' = [tab EXCEPT ![t] = q] /\ UNCHANGED drafts
    BY <1>p, <1>s, <1>2, <2>r, <2>q DEF UpdateDraft, Answer, Becomes, Resave, Replied, Page
  <2>2. /\ r \in Save /\ r.step = "answered" /\ r.status = "not_found" /\ r.made = NoDraft
        /\ r.id = s.id /\ r.doc = s.doc /\ r.refs = s.refs /\ r.force = s.force
    <3>1. s \in Save /\ NoDraft \in DraftId \cup {NoDraft} /\ s.id \in DraftId \cup {NoDraft}
      BY <1>1
    <3> QED BY <2>r, <3>1 DEF Replied, Save
  <2>3. StepShaped(r)
    BY <1>0, <2>2 DEF StepShaped
  <2>4. /\ q \in Page /\ PageWell(q) /\ Saving(q) /\ q.save = r
        /\ q.at = p.at /\ q.form = p.form /\ q.goal = p.goal /\ q.asked = p.asked /\ q.doc = p.doc
        /\ q.id = p.id /\ q.own = p.own
        /\ q.early = p.early /\ q.editing = p.editing /\ q.cut = p.cut /\ q.dirty = p.dirty
    BY <1>0, <1>1, <1>s, <2>2, <2>3, <2>q, ResaveIsWell
  <2>5. PageTrue(q, t)
    <3>1. IdsOf(q) \subseteq IdsOf(p) \cup {NoDraft}
      BY <1>0, <1>s, <2>2, <2>4 DEF IdsOf
    <3>2. RestStored(q, t) /\ AnswerTrue(q, t) /\ FormStored(q, t)
      BY <1>0, <1>2, <2>2, <2>4 DEF PageTrue, RestStored, AtRest, AnswerTrue, FormStored, Pressed
    <3>3. OwnKnown(q) /\ Completed(q)
      BY <1>0, <1>1, <1>s, <2>2, <2>4 DEF PageTrue, OwnKnown, KnownRow, Completed
    <3> QED BY <1>0, <1>1, <2>2, <2>4, <3>1, <3>2, <3>3 DEF PageTrue
  <2> QED BY <1>0, <2>1, <2>4, <2>5, PageMovesOnly
<1>3. CASE drafts[s.id] # NoRow
  <2>r. PICK r : r = Replied(s, "ok", s.id)
    OBVIOUS
  <2>q. PICK q : q = Resave(p, r)
    OBVIOUS
  <2>w. PICK w : w = Updated(drafts[s.id], s, t)
    OBVIOUS
  <2>1. tab' = [tab EXCEPT ![t] = q] /\ drafts' = [drafts EXCEPT ![s.id] = w]
    BY <1>p, <1>s, <1>3, <2>r, <2>q, <2>w DEF UpdateDraft, Answer, Becomes, Resave, Replied, Page
  <2>2. /\ r \in Save /\ r.step = "answered" /\ r.status = "ok" /\ r.made = s.id
        /\ r.id = s.id /\ r.doc = s.doc /\ r.refs = s.refs /\ r.force = s.force
    <3>1. s \in Save /\ NoDraft \in DraftId \cup {NoDraft} /\ s.id \in DraftId \cup {NoDraft}
      BY <1>1
    <3> QED BY <2>r, <3>1 DEF Replied, Save
  <2>3. StepShaped(r)
    BY <1>0, <2>2 DEF StepShaped
  <2>4. /\ q \in Page /\ PageWell(q) /\ Saving(q) /\ q.save = r
        /\ q.at = p.at /\ q.form = p.form /\ q.goal = p.goal /\ q.asked = p.asked /\ q.doc = p.doc
        /\ q.id = p.id /\ q.own = p.own
        /\ q.early = p.early /\ q.editing = p.editing /\ q.cut = p.cut /\ q.dirty = p.dirty
    BY <1>0, <1>1, <1>s, <2>2, <2>3, <2>q, ResaveIsWell
  <2>5. w \in Row /\ w.doc = s.doc /\ w.by = t /\ w.doc.pics \subseteq w.refs /\ w # NoRow
    <3>1. PICK row \in Row : row = drafts[s.id] /\ row.refs \in SUBSET Image
      BY <1>1, <1>3, RowFields DEF Row
    <3>2. PICK refs \in SUBSET Image : refs = IF s.refs = {} THEN row.refs ELSE s.refs
      BY <1>1, <3>1
    <3>3. w = [row EXCEPT !.doc = s.doc, !.refs = refs, !.by = t]
      BY <2>w, <3>1, <3>2 DEF Updated, Row
    <3>4. w \in Row /\ w.doc = s.doc /\ w.by = t /\ w.refs = refs
      BY <1>1, <3>3 DEF Row
    <3> QED BY <1>1, <3>2, <3>4, EdBounds
  <2>6. /\ drafts' \in [DraftId -> Row \cup {NoRow}] /\ drafts'[s.id] = w
        /\ \A e \in DraftId : e # s.id => drafts'[e] = drafts[e]
    BY <1>0, <1>1, <2>1, <2>5
  <2>7. Rows' = Rows
    BY <1>1, <1>3, <2>5, <2>6 DEF Rows
  <2>8. \A u \in Tab \ {t} : \A e \in minted : Stood(e, u)
    BY <1>0, <1>3, <2>5, <2>6 DEF Stood
  <2>9. \A e \in Rows' : drafts'[e].doc.pics \subseteq drafts'[e].refs /\ drafts'[e].doc.words <= typed
    BY <1>1, <2>5, <2>6, <2>7 DEF EditorInv, Rows
  <2>10. PageTrue(q, t)'
    <3>0. s.doc.words \in Nat /\ p.asked \in Nat
      BY <1>1, PageFields, EdBounds DEF Doc
    <3>1. IdsOf(q) \subseteq IdsOf(p)
      BY <1>0, <1>s, <2>2, <2>4 DEF IdsOf
    <3>2. RestStored(q, t)'
      BY <2>4 DEF RestStored, AtRest
    <3>3. AnswerTrue(q, t)'
      BY <2>2, <2>4, <2>5, <2>6, <3>0 DEF AnswerTrue, Stores
    <3>4. FormStored(q, t)'
      <4>1. ASSUME Pressed(q), ~q.early, q.form.doc # Blank
            PROVE  q.form.id # NoDraft /\ Stores(q.form.id, t, q.asked)'
        <5>1. p.form.id # NoDraft /\ Stores(p.form.id, t, p.asked) /\ Pressed(p)
          BY <1>0, <2>4, <4>1 DEF PageTrue, FormStored, Pressed
        <5>2. s.doc.words >= p.asked
          BY <1>0, <1>s, <2>4, <4>1, <5>1 DEF PageWell, WordsCarried
        <5>3. p.form.id \in DraftId
          BY <1>0, <5>1, FormFields DEF PageWell, Shaped, OutPage, Pressed
        <5> QED BY <2>4, <2>5, <2>6, <5>1, <5>2, <5>3 DEF Stores
      <4> QED BY <4>1 DEF FormStored
    <3>5. OwnKnown(q)'
      BY <1>0, <1>1, <1>s, <2>2, <2>4, <2>7 DEF PageTrue, OwnKnown, KnownRow
    <3>6. Completed(q)'
      <4>1. ASSUME q.at = "landed", q.form.kind = "publish", q.form.id # NoDraft
            PROVE  drafts'[q.form.id] = NoRow
        <5>1. drafts[p.form.id] = NoRow
          BY <1>0, <2>4, <4>1 DEF PageTrue, Completed
        <5>2. p.form.id \in DraftId
          BY <1>0, <2>4, <4>1, FormFields DEF PageWell, Shaped, OutPage
        <5> QED BY <1>3, <2>4, <2>6, <5>1, <5>2
      <4> QED BY <4>1 DEF Completed
    <3> QED BY <1>0, <1>1, <2>2, <2>4, <3>1, <3>2, <3>3, <3>4, <3>5, <3>6 DEF PageTrue
  <2>11. Rows' \subseteq minted' /\ minted \subseteq minted' /\ minted' \subseteq DraftId
    BY <1>0, <2>7 DEF EditorInv
  <2> QED BY <1>0, <2>1, <2>4, <2>6, <2>8, <2>9, <2>10, <2>11, RowsAndPageMove
<1> QED BY <1>2, <1>3

LEMMA InsertDraftKeeps ==
  ASSUME EditorInv, NEW t \in Tab, InsertDraft(t)
  PROVE  EditorInv'
<1>p. PICK p \in Page : p = tab[t]
  BY InvParts
<1>s. PICK s : s = p.save
  OBVIOUS
<1>0. /\ drafts \in [DraftId -> Row \cup {NoRow}] /\ minted \subseteq DraftId /\ PageWell(p) /\ PageTrue(p, t)
      /\ Saving(p) /\ s.step = "counted" /\ UNCHANGED <<opened, typed, lost>>
      /\ opened' \in 0..MaxOpened /\ lost' \in 0..MaxLost /\ tab \in [Tab -> Page]
  BY <1>p, <1>s, InvParts DEF EdTypeOK, InsertDraft
<1>1. /\ s \in Save /\ StepShaped(s) /\ s.doc \in Doc /\ s.refs \in SUBSET Image /\ s.id = NoDraft
      /\ s.doc.pics \subseteq s.refs /\ s.doc.words <= typed /\ s.status = "none"
      /\ (p.at # "closed" => p.id = NoDraft) /\ p.own \subseteq minted
  <2>1. NoDraft \notin p.own
    BY PageFields, EdBounds
  <2> QED BY <1>0, <1>s, <2>1, SaveFields DEF PageWell, SaveShaped, StepShaped, PicturesHeld, PageTrue, IdsOf
<1>w. PICK w : w = [doc |-> s.doc, refs |-> s.refs, by |-> t]
  OBVIOUS
<1>2. PICK d \in DraftId \ minted :
        /\ minted' = minted \cup {d}
        /\ drafts' = [drafts EXCEPT ![d] = w]
        /\ tab' = [tab EXCEPT ![t].save.step = "answered", ![t].save.status = "ok",
                              ![t].save.made = d, ![t].own = @ \cup {d}]
  BY <1>p, <1>s, <1>w DEF InsertDraft
<1>r. PICK r : r = Replied(s, "ok", d)
  OBVIOUS
<1>o. PICK own : own = p.own \cup {d}
  OBVIOUS
<1>x. PICK x : x = Resave(p, r)
  OBVIOUS
<1>q. PICK q : q = [x EXCEPT !.own = own]
  OBVIOUS
<1>3. tab' = [tab EXCEPT ![t] = q]
  BY <1>p, <1>0, <1>1, <1>s, <1>2, <1>r, <1>o, <1>x, <1>q DEF Resave, Replied, Page, Save
<1>4. /\ r \in Save /\ r.step = "answered" /\ r.status = "ok" /\ r.made = d
      /\ r.id = s.id /\ r.doc = s.doc /\ r.refs = s.refs /\ r.force = s.force
  <2>1. s \in Save /\ d \in DraftId \cup {NoDraft}
    BY <1>1, <1>2
  <2> QED BY <1>r, <2>1 DEF Replied, Save
<1>5. StepShaped(r)
  BY <1>1, <1>4, EdBounds DEF StepShaped
<1>6. /\ x \in Page /\ PageWell(x) /\ Saving(x) /\ x.save = r
      /\ x.at = p.at /\ x.form = p.form /\ x.goal = p.goal /\ x.asked = p.asked /\ x.doc = p.doc
      /\ x.id = p.id /\ x.own = p.own
      /\ x.early = p.early /\ x.editing = p.editing /\ x.cut = p.cut /\ x.dirty = p.dirty
  BY <1>0, <1>1, <1>s, <1>4, <1>5, <1>x, ResaveIsWell
<1>7. q \in Page
  <2>1. own \in SUBSET DraftId
    BY <1>o, PageFields
  <2> QED BY <1>6, <1>q, <2>1 DEF Page
<1>8. /\ q.at = x.at /\ q.form = x.form /\ q.goal = x.goal /\ q.asked = x.asked /\ q.doc = x.doc
      /\ q.id = x.id /\ q.store = x.store /\ q.own = own /\ q.save = x.save
  BY <1>6, <1>q DEF Page
<1>9. /\ q.early = x.early /\ q.editing = x.editing /\ q.dirty = x.dirty /\ q.cut = x.cut
      /\ q.tracked = x.tracked /\ q.timer = x.timer
  BY <1>6, <1>q DEF Page
<1>10. PageWell(q) /\ Saving(q)
  <2>1. Shaped(q)
    BY <1>6, <1>8, <1>9 DEF PageWell, Shaped, OutPage, Saving
  <2>2. SaveShaped(q) /\ PicturesHeld(q) /\ Saving(q)
    BY <1>6, <1>8 DEF PageWell, SaveShaped, PicturesHeld, Saving
  <2>3. WordsCarried(q)
    BY <1>6, <1>8, <1>9 DEF PageWell, WordsCarried, Pressed, Publishing, Saving
  <2> QED BY <1>7, <2>1, <2>2, <2>3 DEF PageWell
<1>11. /\ w \in Row /\ w # NoRow /\ w.doc = s.doc /\ w.refs = s.refs /\ w.by = t
       /\ drafts' \in [DraftId -> Row \cup {NoRow}] /\ drafts'[d] = w
       /\ \A e \in DraftId : e # d => drafts'[e] = drafts[e]
  <2>1. w \in Row
    BY <1>1, <1>w DEF Row
  <2> QED BY <1>0, <1>w, <1>2, <2>1, EdBounds
<1>12. Rows' = Rows \cup {d} /\ Rows \subseteq minted /\ d \notin Rows
  <2>1. Rows \subseteq minted
    BY DEF EditorInv
  <2> QED BY <1>2, <1>11, <2>1 DEF Rows
<1>13. \A u \in Tab : \A e \in minted : Stood(e, u)
  BY <1>0, <1>2, <1>11 DEF Stood
<1>14. \A e \in Rows' : drafts'[e].doc.pics \subseteq drafts'[e].refs /\ drafts'[e].doc.words <= typed
  BY <1>1, <1>2, <1>11, <1>12 DEF EditorInv, Rows
<1>15. PageTrue(q, t)'
  <2>1. \A e \in IdsOf(p) \ {NoDraft} : Stood(e, t)
    BY <1>0, <1>13 DEF PageTrue
  <2>2. PageTrue(p, t)'
    BY <1>0, <1>2, <2>1, RowsMove
  <2>3. IdsOf(q) \subseteq IdsOf(p) \cup {d}
    BY <1>0, <1>s, <1>o, <1>4, <1>6, <1>8, <1>10 DEF IdsOf
  <2>4. RestStored(q, t)'
    BY <1>10 DEF RestStored, AtRest
  <2>5. AnswerTrue(q, t)'
    <3>1. s.doc.words \in Nat
      BY <1>1, EdBounds DEF Doc
    <3> QED BY <1>4, <1>6, <1>8, <1>11, <3>1 DEF AnswerTrue, Stores
  <2>6. FormStored(q, t)' /\ Completed(q)'
    BY <1>6, <1>8, <1>9, <2>2 DEF PageTrue, FormStored, Pressed, Completed
  <2>7. OwnKnown(q)'
    <3>1. ASSUME q.at \notin {"closed", "refused"}, ~q.cut
          PROVE  Rows' \cap q.own \subseteq KnownRow(q)
      <4>1. Rows \cap p.own \subseteq KnownRow(p) /\ KnownRow(p) = {}
        BY <1>0, <1>1, <1>s, <1>6, <1>8, <1>9, <3>1 DEF PageTrue, OwnKnown, KnownRow
      <4>2. KnownRow(q) = {d}
        BY <1>1, <1>4, <1>6, <1>8, <1>10, <3>1 DEF KnownRow
      <4> QED BY <1>8, <1>o, <1>12, <4>1, <4>2
    <3>2. KnownRow(q)' = KnownRow(q)
      BY DEF KnownRow, Saving
    <3> QED BY <3>1, <3>2 DEF OwnKnown
  <2> QED BY <1>1, <1>2, <1>4, <1>6, <1>8, <1>10, <1>0, <2>2, <2>3, <2>4, <2>5, <2>6, <2>7 DEF PageTrue
<1>16. Rows' \subseteq minted' /\ minted \subseteq minted' /\ minted' \subseteq DraftId
  BY <1>0, <1>2, <1>12
<1> QED BY <1>0, <1>3, <1>7, <1>10, <1>11, <1>13, <1>14, <1>15, <1>16, RowsAndPageMove

-----------------------------------------------------------------------------
LEMMA EditorInitInv == EdInit => EditorInv
<1> SUFFICES ASSUME EdInit PROVE EditorInv
  OBVIOUS
<1>1. /\ drafts = [d \in DraftId |-> NoRow] /\ minted = {} /\ opened = 0 /\ typed = 0 /\ lost = 0
      /\ tab = [t \in Tab |-> Closed]
  BY DEF EdInit
<1>2. EdTypeOK
  <2>1. tab \in [Tab -> Page]
    BY <1>1, ClosedPage
  <2> QED BY <1>1, <2>1, EdBounds DEF EdTypeOK
<1>3. Rows = {}
  BY <1>1 DEF Rows
<1>4. ASSUME NEW t \in Tab PROVE PageWell(tab[t]) /\ PageTrue(tab[t], t)
  <2>1. PICK c \in Page : c = Closed
    BY ClosedPage
  <2>2. tab[t] = c
    BY <1>1, <2>1
  <2>3. ~Saving(c)
    BY <2>1, ClosedPage DEF Saving
  <2>4. AnswerTrue(c, t)
    BY <2>3 DEF AnswerTrue
  <2>5. PageWell(c) /\ PageTrue(c, t)
    BY <1>1, <2>1, <2>3, <2>4, ClosedPage, GonePage
  <2> QED BY <2>2, <2>5
<1> QED BY <1>2, <1>3, <1>4 DEF EditorInv

LEMMA EditorNextInv == EditorInv /\ [EdNext]_edVars => EditorInv'
<1> SUFFICES ASSUME EditorInv, [EdNext]_edVars PROVE EditorInv'
  OBVIOUS
<1>1. CASE UNCHANGED edVars
  <2>1. PICK t \in Tab : TRUE
    BY EdBounds
  <2>2. PICK q \in Page : q = tab[t]
    BY InvParts
  <2>3. /\ PageWell(q) /\ PageTrue(q, t) /\ tab \in [Tab -> Page]
        /\ opened' \in 0..MaxOpened /\ lost' \in 0..MaxLost /\ UNCHANGED <<drafts, minted, typed>>
    BY <1>1, <2>2, InvParts DEF edVars, EdTypeOK
  <2>4. tab' = [tab EXCEPT ![t] = q]
    BY <1>1, <2>2, <2>3 DEF edVars
  <2> QED BY <2>3, <2>4, PageMovesOnly
<1>2. ASSUME NEW t \in Tab,
             \/ Open(t) \/ EditorReady(t) \/ Type(t) \/ (\E i \in Image : InsertImage(t, i))
             \/ TimerFires(t) \/ Blur(t) \/ Publish(t) \/ Schedule(t) \/ Leave(t)
             \/ Answered(t) \/ UpdateDraft(t) \/ CountDrafts(t) \/ InsertDraft(t)
             \/ LoseSave(t) \/ Forgotten(t)
             \/ PublishLands(t) \/ FormAnswered(t) \/ ComeBack(t)
      PROVE  EditorInv'
  BY <1>2, OpenKeeps, EditorReadyKeeps, TypeKeeps, InsertImageKeeps, TimerFiresKeeps, BlurKeeps, PublishKeeps,
     ScheduleKeeps, LeaveKeeps, AnsweredKeeps, UpdateDraftKeeps, CountDraftsKeeps, InsertDraftKeeps,
     LoseSaveKeeps, ForgottenKeeps, PublishLandsKeeps, FormAnsweredKeeps, ComeBackKeeps
<1>3. ASSUME NEW d \in DraftId, DeleteDraft(d) PROVE EditorInv'
  BY <1>3, DeleteDraftKeeps
<1> QED BY <1>1, <1>2, <1>3 DEF EdNext

(* What the invariant says of the four properties. *)
LEMMA EditorInvSays == EditorInv => EdTypeOK /\ PicturesKept /\ WordsStored /\ CompletedStaysGone
<1> SUFFICES ASSUME EditorInv PROVE EdTypeOK /\ PicturesKept /\ WordsStored /\ CompletedStaysGone
  OBVIOUS
<1>1. EdTypeOK
  BY DEF EditorInv
<1>2. PicturesKept
  <2>1. ASSUME NEW t \in Tab, tab[t].at = "landed" PROVE tab[t].form.doc.pics \subseteq tab[t].form.refs
    BY <2>1, InvParts DEF PageWell, Shaped, OutPage, PicturesHeld
  <2> QED BY <2>1 DEF PicturesKept, EditorInv
<1>3. ASSUME NEW t \in Tab, NEW p \in Page, p = tab[t], p.at = "open", ~p.dirty, ~Saving(p), ~p.early
      PROVE  IF p.id = NoDraft THEN p.doc = Blank
             ELSE drafts[p.id] # NoRow /\ drafts[p.id].by = t => drafts[p.id].doc.words >= p.doc.words
  BY <1>3, InvParts DEF PageTrue, RestStored, AtRest, Stores
<1>4. CleanIsStored
  BY <1>3, InvParts DEF CleanIsStored
<1>5. ASSUME NEW t \in Tab, NEW p \in Page, p = tab[t], p.at = "posting", ~p.editing, ~p.early,
             p.form.kind = "schedule" \/ ~p.dirty, p.form.doc # Blank
      PROVE  /\ p.form.id # NoDraft
             /\ drafts[p.form.id] # NoRow /\ drafts[p.form.id].by = t => drafts[p.form.id].doc.words >= p.asked
  BY <1>5, InvParts DEF PageTrue, FormStored, Pressed, Stores
<1>6. PressedIsStored
  BY <1>5, InvParts DEF PressedIsStored
<1>7. CompletedStaysGone
  <2>1. ASSUME NEW t \in Tab, NEW p \in Page, p = tab[t], p.at = "landed", p.form.kind = "publish",
               p.form.id # NoDraft, ~p.cut
        PROVE  Rows \cap p.own = {} /\ (Saving(p) => p.save.id # NoDraft)
    <3>1. /\ PageWell(p) /\ PageTrue(p, t) /\ drafts[p.form.id] = NoRow /\ p.id = p.form.id
      BY <2>1, InvParts DEF PageTrue, Completed, PageWell, Shaped, OutPage
    <3>2. Rows \cap p.own \subseteq {p.id}
      BY <2>1, <3>1 DEF PageTrue, OwnKnown, KnownRow
    <3>3. p.id \notin Rows
      BY <3>1 DEF Rows
    <3>4. Saving(p) => p.save.id = p.id
      BY <2>1, <3>1 DEF PageWell, SaveShaped
    <3> QED BY <2>1, <3>1, <3>2, <3>3, <3>4
  <2> QED BY <2>1, InvParts DEF CompletedStaysGone
<1> QED BY <1>1, <1>2, <1>4, <1>6, <1>7 DEF WordsStored

LEMMA EditorInvHolds == EdSpec => []EditorInv
BY EditorInitInv, EditorNextInv, PTL DEF EdSpec

(* Every row, page, save and form has its type. *)
THEOREM EdTypeHolds == EdSpec => []EdTypeOK
BY EditorInvHolds, EditorInvSays, PTL

(* A stored or published body has every picture referenced beside it, or    *)
(* the writer's server would drop it.                                       *)
THEOREM PicturesKeptHolds == EdSpec => []PicturesKept
BY EditorInvHolds, EditorInvSays, PTL

(* A page that would be left without a warning has its words stored, and a  *)
(* form goes out with those the button was pressed on.                      *)
THEOREM WordsStoredHolds == EdSpec => []WordsStored
BY EditorInvHolds, EditorInvSays, PTL

(* No save of the tab, before, during or after, brings a published draft    *)
(* back.                                                                    *)
THEOREM CompletedStaysGoneHolds == EdSpec => []CompletedStaysGone
BY EditorInvHolds, EditorInvSays, PTL

-----------------------------------------------------------------------------
(* The cap.                                                                 *)
InCount(p) == Saving(p) /\ p.save.step = "counted"

LEMMA SaveDraftCounts ==
  ASSUME NEW p \in Page, NEW force \in BOOLEAN
  PROVE  LET q == SaveDraft(p, force) IN q \in Page /\ (InCount(q) => InCount(p))
<1>q. PICK q : q = SaveDraft(p, force)
  OBVIOUS
<1>s. PICK s : s = Sent(p, p.id, force)
  OBVIOUS
<1>1. CASE NothingToSave(p, force)
  <2>1. q = [p EXCEPT !.tracked = FALSE]
    BY <1>1, <1>q DEF SaveDraft
  <2>2. q \in Page /\ q.save = p.save
    BY <2>1 DEF Page
  <2> QED BY <1>q, <2>2 DEF InCount, Saving
<1>2. CASE ~NothingToSave(p, force)
  <2>1. q = [p EXCEPT !.save = s, !.dirty = FALSE, !.shown = "fine", !.tracked = TRUE]
    BY <1>2, <1>q, <1>s DEF SaveDraft
  <2>2. s \in Save /\ s.step = "sent"
    BY <1>s, PageFields DEF Sent, Save
  <2>3. q \in Page /\ q.save = s
    BY <2>1, <2>2 DEF Page
  <2> QED BY <1>q, <2>2, <2>3 DEF InCount
<1> QED BY <1>1, <1>2

LEMMA SubmitCounts ==
  ASSUME NEW p \in Page, NEW kind \in {"publish", "schedule"}
  PROVE  InCount(Submit(p, kind)) => InCount(p)
BY DEF Submit, Page, InCount, Saving

LEMMA StayCounts ==
  ASSUME NEW p \in Page
  PROVE  InCount(Stay(p)) => InCount(p)
BY DEF Stay, Page, InCount, Saving

LEMMA GoalPage ==
  ASSUME NEW p \in Page, NEW goal \in {"flush", "force"}
  PROVE  LET r == [p EXCEPT !.goal = goal] IN r \in Page /\ (InCount(r) => InCount(p))
<1>r. PICK r : r = [p EXCEPT !.goal = goal]
  OBVIOUS
<1>1. r \in Page /\ r.save = p.save
  BY <1>r DEF Page
<1> QED BY <1>r, <1>1 DEF InCount, Saving

LEMMA FlushCounts ==
  ASSUME NEW p \in Page
  PROVE  InCount(Flush(p)) => InCount(p)
<1>r. PICK r : r = [p EXCEPT !.goal = "flush"]
  OBVIOUS
<1>q. PICK q : q = IF p.dirty THEN SaveDraft(r, TRUE) ELSE p
  OBVIOUS
<1>1. r \in Page /\ (InCount(r) => InCount(p))
  BY <1>r, GoalPage
<1>2. q \in Page /\ (InCount(q) => InCount(p))
  BY <1>q, <1>1, SaveDraftCounts
<1>3. Flush(p) = IF p.dirty /\ q.save # p.save THEN q ELSE Submit(q, "publish")
  BY <1>r, <1>q DEF Flush
<1> QED BY <1>2, <1>3, SubmitCounts

LEMMA ForcedCounts ==
  ASSUME NEW p \in Page
  PROVE  InCount(Forced(p)) => InCount(p)
<1>r. PICK r : r = [p EXCEPT !.goal = "force"]
  OBVIOUS
<1>q. PICK q : q = SaveDraft(r, TRUE)
  OBVIOUS
<1>1. r \in Page /\ (InCount(r) => InCount(p))
  BY <1>r, GoalPage
<1>2. q \in Page /\ (InCount(q) => InCount(p))
  BY <1>q, <1>1, SaveDraftCounts
<1>3. Forced(p) = IF q.save # p.save THEN q ELSE Stay(q)
  BY <1>r, <1>q DEF Forced
<1> QED BY <1>2, <1>3, StayCounts

LEMMA SettleCounts ==
  ASSUME NEW p \in Page, NEW saved \in BOOLEAN, NEW shown \in {"fine", "error", "limit"}
  PROVE  ~InCount(Settle(p, saved, shown))
<1>q. PICK q : q = [p EXCEPT !.save = NoSave, !.tracked = FALSE, !.shown = shown,
                             !.dirty = @ \/ ~saved, !.timer = @ \/ (saved /\ p.dirty)]
  OBVIOUS
<1>1. q \in Page
  BY <1>q, SettledPage
<1>2. ~InCount(q)
  BY <1>q DEF Page, InCount, Saving
<1>3. Settle(p, saved, shown) = Continue(q, saved)
  BY <1>q DEF Settle
<1>4. Continue(q, saved) \in {q, Flush(q), Submit(q, "publish"), Forced(q), Submit(q, "schedule"), Stay(q)}
  BY DEF Continue
<1> QED BY <1>1, <1>2, <1>3, <1>4, FlushCounts, SubmitCounts, ForcedCounts, StayCounts

LEMMA NoticedCounts ==
  ASSUME NEW p \in Page, NEW r, r.save = p.save, r \in Page
  PROVE  InCount(Noticed(r)) => InCount(p)
BY DEF Noticed, Page, InCount, Saving

LEMMA MountedCounts ==
  ASSUME NEW editing, NEW id, NEW doc, NEW store
  PROVE  ~InCount(Mounted(editing, id, doc, store))
BY DEF Mounted, InCount, Saving

LEMMA CountingSet == Counting = {t \in Tab : InCount(tab[t])}
BY DEF Counting, InCount

LEMMA CapShrinks ==
  ASSUME CapInv, Rows' \subseteq Rows, Counting' \subseteq Counting
  PROVE  CapInv'
<1>1. IsFiniteSet(Rows) /\ IsFiniteSet(Counting) /\ IsFiniteSet(Rows') /\ IsFiniteSet(Counting')
  BY EdBounds, FS_Subset DEF CapInv, Counting
<1>2. Cardinality(Rows') <= Cardinality(Rows) /\ Cardinality(Counting') <= Cardinality(Counting)
  BY <1>1, FS_Subset
<1>3. /\ Cardinality(Rows) \in Nat /\ Cardinality(Counting) \in Nat
      /\ Cardinality(Rows') \in Nat /\ Cardinality(Counting') \in Nat /\ Cardinality(Tab) \in Nat
  BY <1>1, EdBounds, FS_CardinalityType
<1> QED BY <1>1, <1>2, <1>3, EdBounds DEF CapInv

LEMMA CapPageMoves ==
  ASSUME CapInv, EdTypeOK, NEW t \in Tab, NEW q, tab' = [tab EXCEPT ![t] = q], InCount(q) => InCount(tab[t]),
         Rows' \subseteq Rows
  PROVE  CapInv'
<1>1. \A u \in Tab : tab'[u] = IF u = t THEN q ELSE tab[u]
  BY DEF EdTypeOK
<1>2. Counting' \subseteq Counting
  BY <1>1, CountingSet DEF Counting, InCount
<1> QED BY <1>2, CapShrinks

(* A tab counts only under the cap. *)
LEMMA CountDraftsCap ==
  ASSUME EditorInv, CapInv, NEW t \in Tab, CountDrafts(t)
  PROVE  CapInv'
<1>p. PICK p \in Page : p = tab[t]
  BY InvParts
<1>0. EdTypeOK /\ Rows' = Rows /\ p.save \in Save
  BY <1>p, InvParts, SaveFields DEF CountDrafts, Rows
<1>1. CASE Cardinality(Rows) < DraftCap
  <2>1. IsFiniteSet(Rows) /\ IsFiniteSet(Counting') /\ Counting' \subseteq Tab
    BY EdBounds, FS_Subset DEF CapInv, Counting
  <2>2. Cardinality(Counting') <= Cardinality(Tab) /\ Cardinality(Tab) \in Nat /\ Cardinality(Rows) \in Nat
        /\ Cardinality(Counting') \in Nat
    BY <2>1, EdBounds, FS_Subset, FS_CardinalityType
  <2> QED BY <1>0, <1>1, <2>1, <2>2, EdBounds DEF CapInv
<1>2. CASE ~(Cardinality(Rows) < DraftCap)
  <2>r. PICK r : r = Replied(p.save, "limit", NoDraft)
    OBVIOUS
  <2>q. PICK q : q = Resave(p, r)
    OBVIOUS
  <2>1. tab' = [tab EXCEPT ![t] = q]
    BY <1>p, <1>2, <2>r, <2>q DEF CountDrafts, UnderCap, Answer, Becomes, Resave, Replied, Page
  <2>2. r.step = "answered"
    BY <1>0, <2>r DEF Replied, Save
  <2>3. ~InCount(q)
    BY <2>q, <2>2 DEF Resave, Page, InCount
  <2> QED BY <1>0, <2>1, <2>3, CapPageMoves
<1> QED BY <1>1, <1>2

(* The row it inserts is the one it counted for. *)
LEMMA InsertDraftCap ==
  ASSUME EditorInv, CapInv, NEW t \in Tab, InsertDraft(t)
  PROVE  CapInv'
<1>1. PICK d \in DraftId \ minted : \A e \in DraftId : e # d => drafts'[e] = drafts[e]
  BY InvParts DEF InsertDraft, EdTypeOK
<1>2. Rows' \subseteq Rows \cup {d} /\ d \notin Rows
  BY <1>1 DEF Rows, EditorInv
<1>3. tab \in [Tab -> Page] /\ tab[t].save \in Save
  BY InvParts, SaveFields DEF EdTypeOK, InsertDraft
<1>4. (\A u \in Tab : u # t => tab'[u] = tab[u]) /\ tab'[t].save.step = "answered"
  BY <1>3 DEF InsertDraft, Page, Save
<1>5. t \in Counting /\ Counting' \subseteq Counting \ {t}
  BY <1>4, CountingSet DEF Counting, InCount, InsertDraft
<1>6. /\ IsFiniteSet(Rows) /\ IsFiniteSet(Counting) /\ IsFiniteSet(Rows \cup {d}) /\ IsFiniteSet(Counting \ {t})
      /\ Cardinality(Rows \cup {d}) = Cardinality(Rows) + 1
      /\ Cardinality(Counting \ {t}) = Cardinality(Counting) - 1
  BY <1>2, <1>5, EdBounds, FS_Subset, FS_AddElement, FS_RemoveElement DEF CapInv, Counting
<1>7. /\ IsFiniteSet(Rows') /\ IsFiniteSet(Counting')
      /\ Cardinality(Rows') <= Cardinality(Rows) + 1 /\ Cardinality(Counting') <= Cardinality(Counting) - 1
  BY <1>2, <1>5, <1>6, FS_Subset
<1>8. /\ Cardinality(Rows) \in Nat /\ Cardinality(Counting) \in Nat
      /\ Cardinality(Rows') \in Nat /\ Cardinality(Counting') \in Nat /\ Cardinality(Tab) \in Nat
  BY <1>6, <1>7, EdBounds, FS_CardinalityType
<1> QED BY <1>6, <1>7, <1>8, EdBounds DEF CapInv

LEMMA CapOthers ==
  ASSUME EditorInv, CapInv, NEW t \in Tab,
         \/ Open(t) \/ EditorReady(t) \/ Type(t) \/ (\E i \in Image : InsertImage(t, i))
         \/ TimerFires(t) \/ Blur(t) \/ Publish(t) \/ Schedule(t) \/ Leave(t)
         \/ Answered(t) \/ UpdateDraft(t) \/ LoseSave(t) \/ Forgotten(t)
         \/ PublishLands(t) \/ FormAnswered(t) \/ ComeBack(t)
  PROVE  CapInv'
<1>p. PICK p \in Page : p = tab[t]
  BY InvParts
<1>0. EdTypeOK /\ drafts \in [DraftId -> Row \cup {NoRow}] /\ tab \in [Tab -> Page]
  BY InvParts DEF EdTypeOK
<1>1. ASSUME NEW q, tab' = [tab EXCEPT ![t] = q], InCount(q) => InCount(p), UNCHANGED drafts
      PROVE  CapInv'
  <2>1. Rows' = Rows
    BY <1>1 DEF Rows
  <2> QED BY <1>p, <1>0, <1>1, <2>1, CapPageMoves
<1>2. ASSUME NEW editing, NEW id, NEW doc, NEW store, Becomes(t, Mounted(editing, id, doc, store)), UNCHANGED drafts
      PROVE  CapInv'
  BY <1>1, <1>2, MountedCounts DEF Becomes
<1>3. ASSUME NEW d, Loaded(t, d), UNCHANGED drafts PROVE CapInv'
  BY <1>2, <1>3 DEF Loaded, Fresh, Resumed
<1>4. CASE Open(t)
  BY <1>2, <1>3, <1>4 DEF Open
<1>5. CASE ComeBack(t)
  BY <1>2, <1>3, <1>5 DEF ComeBack
<1>6. CASE EditorReady(t)
  <2>1. ~InCount([p EXCEPT !.at = "open"]) \/ InCount(p)
    BY DEF Page, InCount, Saving
  <2> QED BY <1>p, <1>1, <1>6, <2>1 DEF EditorReady
<1>7. ASSUME NEW r, r.save = p.save, r \in Page, Becomes(t, Noticed(r)), UNCHANGED drafts PROVE CapInv'
  BY <1>1, <1>7, NoticedCounts DEF Becomes
<1>8. CASE Type(t)
  <2>r. PICK r : r = [p EXCEPT !.doc.words = typed + 1]
    OBVIOUS
  <2>0. typed \in Nat /\ typed < MaxEdits /\ MaxEdits \in Nat /\ p.doc \in Doc
    BY <1>8, InvParts, EdBounds, PageFields DEF Type
  <2>d. PICK doc : doc = [p.doc EXCEPT !.words = typed + 1]
    OBVIOUS
  <2>1. doc \in Doc
    BY <2>0, <2>d DEF Doc
  <2>2. r = [p EXCEPT !.doc = doc]
    BY <2>r, <2>d DEF Page
  <2>3. r \in Page /\ r.save = p.save
    BY <2>1, <2>2 DEF Page
  <2> QED BY <1>p, <1>7, <1>8, <2>r, <2>3 DEF Type
<1>9. ASSUME NEW i \in Image, InsertImage(t, i) PROVE CapInv'
  <2>r. PICK r : r = [p EXCEPT !.store = @ \cup {i}, !.doc.words = typed + 1, !.doc.pics = @ \cup {i}]
    OBVIOUS
  <2>0. typed + 1 \in 0..MaxEdits /\ p.doc \in Doc /\ p.doc.pics \cup {i} \in SUBSET Image
        /\ p.store \cup {i} \in SUBSET Image
    <3>1. typed \in Nat /\ typed < MaxEdits /\ MaxEdits \in Nat
      BY <1>9, InvParts, EdBounds DEF InsertImage
    <3> QED BY <3>1, PageFields
  <2>d. PICK doc : doc = [p.doc EXCEPT !.words = typed + 1, !.pics = p.doc.pics \cup {i}]
    OBVIOUS
  <2>1. doc \in Doc
    BY <2>0, <2>d DEF Doc
  <2>2. r = [p EXCEPT !.store = p.store \cup {i}, !.doc = doc]
    BY <2>r, <2>0, <2>d DEF Page, Doc
  <2>3. r \in Page /\ r.save = p.save
    BY <2>0, <2>1, <2>2 DEF Page
  <2> QED BY <1>p, <1>7, <1>9, <2>r, <2>3 DEF InsertImage
<1>10. ASSUME NEW r \in Page, r.save = p.save, Becomes(t, SaveDraft(r, FALSE)), UNCHANGED drafts PROVE CapInv'
  <2>1. InCount(SaveDraft(r, FALSE)) => InCount(r)
    BY SaveDraftCounts
  <2>2. InCount(r) => InCount(p)
    BY <1>10 DEF InCount, Saving
  <2> QED BY <1>1, <1>10, <2>1, <2>2 DEF Becomes
<1>11. CASE TimerFires(t) \/ Blur(t)
  <2>1. [p EXCEPT !.timer = FALSE] \in Page /\ [p EXCEPT !.timer = FALSE].save = p.save
    BY DEF Page
  <2> QED BY <1>p, <1>10, <1>11, <2>1 DEF TimerFires, Blur
<1>r. PICK r : r = [p EXCEPT !.timer = FALSE, !.asked = p.doc.words]
  OBVIOUS
<1>12. r \in Page /\ (InCount(r) => InCount(p))
  <2>1. r \in Page /\ r.save = p.save
    BY <1>r, PageFields DEF Page
  <2> QED BY <2>1 DEF InCount, Saving
<1>13. ASSUME NEW goal PROVE InCount([r EXCEPT !.goal = goal]) => InCount(r)
  BY <1>12 DEF Page, InCount, Saving
<1>14. CASE Publish(t)
  <2>1. Becomes(t, IF r.editing \/ (~r.tracked /\ ~r.dirty) THEN Submit(r, "publish")
                   ELSE IF r.tracked THEN [r EXCEPT !.goal = "wait_publish"] ELSE Flush(r))
        /\ UNCHANGED drafts
    BY <1>p, <1>r, <1>14 DEF Publish
  <2>q. PICK q : q = IF r.editing \/ (~r.tracked /\ ~r.dirty) THEN Submit(r, "publish")
                     ELSE IF r.tracked THEN [r EXCEPT !.goal = "wait_publish"] ELSE Flush(r)
    OBVIOUS
  <2>2. q \in {Submit(r, "publish"), [r EXCEPT !.goal = "wait_publish"], Flush(r)}
    BY <2>q
  <2>3. InCount(q) => InCount(p)
    BY <1>12, <1>13, <2>2, SubmitCounts, FlushCounts
  <2> QED BY <1>1, <2>1, <2>q, <2>3 DEF Becomes
<1>15. CASE Schedule(t)
  <2>1. Becomes(t, IF r.tracked THEN [r EXCEPT !.goal = "wait_schedule"] ELSE Forced(r)) /\ UNCHANGED drafts
    BY <1>p, <1>r, <1>15 DEF Schedule
  <2>q. PICK q : q = IF r.tracked THEN [r EXCEPT !.goal = "wait_schedule"] ELSE Forced(r)
    OBVIOUS
  <2>2. q \in {[r EXCEPT !.goal = "wait_schedule"], Forced(r)}
    BY <2>q
  <2>3. InCount(q) => InCount(p)
    BY <1>12, <1>13, <2>2, ForcedCounts
  <2> QED BY <1>1, <2>1, <2>q, <2>3 DEF Becomes
<1>16. CASE Leave(t)
  <2>1. InCount([Closed EXCEPT !.save = p.save]) => InCount(p)
    <3>1. PICK c \in Page : c = Closed
      BY ClosedPage
    <3> QED BY <3>1 DEF Page, InCount, Saving
  <2> QED BY <1>p, <1>1, <1>16, <2>1 DEF Leave
<1>17. CASE Answered(t)
  <2>0. Saving(p) /\ p.save \in Save /\ UNCHANGED drafts
    BY <1>p, <1>17, SaveFields DEF Answered
  <2>1. CASE Recreates(p)
    <3>s. PICK s : s = [p.save EXCEPT !.step = "sent", !.id = NoDraft, !.status = "none"]
      OBVIOUS
    <3>1. s.step = "sent"
      BY <2>0, <3>s DEF Save
    <3>2. ~InCount([p EXCEPT !.id = NoDraft, !.save = s])
      BY <3>1 DEF Page, InCount
    <3> QED BY <1>p, <1>1, <1>17, <2>0, <2>1, <3>s, <3>2 DEF Answered, Becomes
  <2>2. CASE ~Recreates(p) /\ p.save.status = "ok"
    <3>r. PICK x : x = [p EXCEPT !.id = IF @ = NoDraft THEN p.save.made ELSE @]
      OBVIOUS
    <3>i. PICK id \in DraftId \cup {NoDraft} : id = IF p.id = NoDraft THEN p.save.made ELSE p.id
      BY <2>0, PageFields, SaveFields
    <3>1. x = [p EXCEPT !.id = id]
      BY <3>r, <3>i DEF Page
    <3>2. x \in Page
      BY <3>1 DEF Page
    <3>3. ~InCount(Settle(x, TRUE, "fine"))
      BY <3>2, SettleCounts
    <3> QED BY <1>p, <1>1, <1>17, <2>0, <2>2, <3>r, <3>3 DEF Answered, Becomes
  <2>3. CASE ~Recreates(p) /\ p.save.status # "ok"
    <3>s. PICK shown \in {"error", "limit"} : shown = IF p.save.status = "limit" THEN "limit" ELSE "error"
      OBVIOUS
    <3>1. ~InCount(Settle(p, FALSE, shown))
      BY SettleCounts
    <3> QED BY <1>p, <1>1, <1>17, <2>0, <2>3, <3>s, <3>1 DEF Answered, Becomes
  <2> QED BY <2>1, <2>2, <2>3
<1>18. CASE UpdateDraft(t)
  <2>0. Saving(p) /\ p.save \in Save
    BY <1>p, <1>18, SaveFields DEF UpdateDraft
  <2>1. PICK status \in {"not_found", "ok"}, made \in {NoDraft, p.save.id} :
          tab' = [tab EXCEPT ![t] = [p EXCEPT !.save = [@ EXCEPT !.step = "answered", !.status = status,
                                                                  !.made = made]]]
    BY <1>p, <1>18 DEF UpdateDraft, Answer, Becomes
  <2>q. PICK q : q = [p EXCEPT !.save = [@ EXCEPT !.step = "answered", !.status = status, !.made = made]]
    OBVIOUS
  <2>2. q.save.step = "answered"
    BY <2>0, <2>q DEF Page, Save
  <2>3. Rows' \subseteq Rows
    BY <1>0, <1>p, <1>18 DEF UpdateDraft, Rows
  <2>4. ~InCount(q)
    BY <2>2 DEF InCount
  <2> QED BY <1>0, <2>1, <2>q, <2>3, <2>4, CapPageMoves
<1>19. CASE LoseSave(t)
  <2>0. Saving(p) /\ p.save \in Save /\ UNCHANGED drafts
    BY <1>p, <1>19, SaveFields DEF LoseSave
  <2>c. PICK cut : cut = (p.cut \/ p.save.status = "ok")
    OBVIOUS
  <2>1. tab' = [tab EXCEPT ![t] = [p EXCEPT !.save = [@ EXCEPT !.step = "answered", !.status = "error"],
                                             !.cut = cut]]
    BY <1>p, <1>0, <1>19, <2>0, <2>c DEF LoseSave, Page, Save
  <2>q. PICK q : q = [p EXCEPT !.save = [@ EXCEPT !.step = "answered", !.status = "error"], !.cut = cut]
    OBVIOUS
  <2>2. q.save.step = "answered"
    BY <2>0, <2>q DEF Page, Save
  <2> QED BY <1>1, <2>0, <2>1, <2>q, <2>2 DEF InCount
<1>20. CASE Forgotten(t)
  <2>1. ~InCount([p EXCEPT !.save = NoSave])
    BY DEF Page, InCount, Saving
  <2> QED BY <1>p, <1>1, <1>20, <2>1 DEF Forgotten
<1>21. ASSUME NEW at PROVE InCount([p EXCEPT !.at = at]) => InCount(p)
  BY DEF Page, InCount, Saving
<1>22. CASE PublishLands(t)
  <2>1. tab' = [tab EXCEPT ![t] = [p EXCEPT !.at = "landed"]] /\ Rows' \subseteq Rows
    BY <1>p, <1>0, <1>22 DEF PublishLands, Rows
  <2> QED BY <1>p, <1>0, <1>21, <2>1, CapPageMoves
<1>23. CASE FormAnswered(t)
  BY <1>p, <1>1, <1>21, <1>23 DEF FormAnswered
<1> QED BY <1>4, <1>5, <1>6, <1>8, <1>9, <1>11, <1>14, <1>15, <1>16, <1>17, <1>18, <1>19, <1>20, <1>22, <1>23

LEMMA CapNextInv == EditorInv /\ CapInv /\ [EdNext]_edVars => CapInv'
<1> SUFFICES ASSUME EditorInv, CapInv, [EdNext]_edVars PROVE CapInv'
  OBVIOUS
<1>1. CASE UNCHANGED edVars
  BY <1>1, CapShrinks DEF edVars, Rows, Counting
<1>2. ASSUME NEW d \in DraftId, DeleteDraft(d) PROVE CapInv'
  <2>1. drafts \in [DraftId -> Row \cup {NoRow}]
    BY DEF EditorInv, EdTypeOK
  <2>2. Rows' \subseteq Rows /\ Counting' = Counting
    BY <1>2, <2>1 DEF DeleteDraft, Rows, Counting
  <2> QED BY <2>2, CapShrinks
<1> QED BY <1>1, <1>2, CapOthers, CountDraftsCap, InsertDraftCap DEF EdNext

LEMMA CapInitInv == EdInit => CapInv
<1> SUFFICES ASSUME EdInit PROVE CapInv
  OBVIOUS
<1>1. Rows = {}
  BY DEF EdInit, Rows
<1>2. Counting = {}
  <2>1. ~Saving(Closed)
    BY ClosedPage DEF Saving
  <2> QED BY <2>1 DEF EdInit, Counting
<1>3. Cardinality(Tab) \in Nat /\ Cardinality(Tab) # 0
  BY EdBounds, FS_CardinalityType, FS_EmptySet
<1> QED BY <1>1, <1>2, <1>3, EdBounds, FS_EmptySet DEF CapInv

LEMMA CapSays == EditorInv /\ CapInv => CapSlack
<1> SUFFICES ASSUME EditorInv, CapInv PROVE CapSlack
  OBVIOUS
<1>1. IsFiniteSet(Rows) /\ IsFiniteSet(Counting)
  BY EdBounds, FS_Subset DEF CapInv, Counting
<1>2. Cardinality(Rows) \in Nat /\ Cardinality(Counting) \in Nat /\ Cardinality(Tab) \in Nat
  BY <1>1, EdBounds, FS_CardinalityType
<1> QED BY <1>2, EdBounds DEF CapInv, CapSlack

(* The cap is passed by no more than one draft for every tab but one.       *)
THEOREM CapSlackHolds == EdSpec => []CapSlack
  BY CapSays, EditorInitInv, EditorNextInv, CapInitInv, CapNextInv, PTL DEF EdSpec
=============================================================================
