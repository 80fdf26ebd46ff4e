---------------------------- MODULE Surfaces_proofs ----------------------------
(***************************************************************************)
(* Proofs about parts that MCSurfaces runs one at a time: a post's         *)
(* pictures outlive its saves, whichever of them were copied and however   *)
(* often a publish was tried; and what the stats page, the overview, the   *)
(* archive, a former handle's link, a reader's form and the settings show  *)
(* is so, for any number of pieces, accounts, ranges, pages and requests.  *)
(* The last section carries these results, and those about the editor and  *)
(* the writer's numbers, to the composition the run checks.                *)
(***************************************************************************)
EXTENDS MCSurfaces, StatsNumbers_proofs, Editor_proofs

-----------------------------------------------------------------------------
(* What is ranked.                                                          *)

(* Of things that are ranked, one of the lowest rank and one of the highest.*)
LEMMA LowestRank ==
  ASSUME NEW D, NEW r \in [D -> Nat], NEW S \in SUBSET D, S # {}
  PROVE  \E p \in S : \A q \in S : r[p] <= r[q]
<1>1. PICK ns : ns = {r[p] : p \in S}
  OBVIOUS
<1>2. ns \subseteq Nat /\ ns # {}
  BY <1>1
<1>3. PICK n \in ns : \A m \in ns : ~ (<<m, n>> \in OpToRel(<, Nat))
  BY <1>2, NatLessThanWellFounded, WFMin
<1>4. \A m \in ns : ~(m < n)
  BY <1>2, <1>3 DEF OpToRel
<1>5. PICK p \in S : n = r[p]
  BY <1>1
<1>6. \A q \in S : r[q] \in ns /\ r[q] \in Nat
  BY <1>1
<1>7. \A q \in S : r[p] <= r[q]
  BY <1>2, <1>4, <1>5, <1>6
<1> QED BY <1>7

LEMMA HighestRank ==
  ASSUME NEW D, NEW N \in Nat, NEW r \in [D -> 0..N], NEW S \in SUBSET D, S # {}
  PROVE  \E p \in S : \A q \in S : r[q] <= r[p]
<1>1. PICK s : s = [p \in D |-> N - r[p]]
  OBVIOUS
<1>2. s \in [D -> Nat] /\ \A p \in D : r[p] \in 0..N /\ s[p] = N - r[p]
  BY <1>1
<1>3. PICK p \in S : \A q \in S : s[p] <= s[q]
  BY <1>2, LowestRank
<1>4. \A q \in S : r[q] <= r[p]
  BY <1>2, <1>3
<1> QED BY <1>4

(* The ones with fewer than n above them: n of them, above all others; or   *)
(* fewer, and there are no others.                                          *)
Uppermost(r, S, n) == {p \in S : Cardinality({q \in S : r[q] > r[p]}) < n}
LEMMA TopRanked ==
  ASSUME NEW D, IsFiniteSet(D), NEW N \in Nat, NEW r \in [D -> 0..N], NEW S \in SUBSET D, NEW n \in Nat \ {0},
         \A p, q \in S : r[p] = r[q] => p = q,
         NEW rows, rows = Uppermost(r, S, n)
  PROVE  /\ \A p \in S \ rows, q \in rows : r[p] < r[q]
         /\ Cardinality(rows) = n \/ rows = S
<1>0. \A T \in SUBSET D : IsFiniteSet(T) /\ Cardinality(T) \in Nat
  BY FS_Subset, FS_CardinalityType
<1>1. PICK above : above = [p \in D |-> {q \in S : r[q] > r[p]}]
  OBVIOUS
<1>2. \A p \in D : above[p] = {q \in S : r[q] > r[p]} /\ above[p] \in SUBSET D /\ r[p] \in 0..N
  BY <1>1
<1>3. \A p \in D : IsFiniteSet(above[p]) /\ Cardinality(above[p]) \in Nat
  BY <1>2, <1>0
<1>4. rows = {p \in S : Cardinality(above[p]) < n}
  BY <1>2 DEF Uppermost
<1>5. rows \in SUBSET D /\ IsFiniteSet(rows) /\ Cardinality(rows) \in Nat
  BY <1>4, <1>0
<1>7. ASSUME NEW p \in S \ rows, NEW q \in rows PROVE r[p] < r[q]
  <2>1. p \in D /\ q \in D /\ r[p] \in 0..N /\ r[q] \in 0..N
    BY <1>2, <1>4
  <2>2. ASSUME r[q] <= r[p] PROVE FALSE
    <3>1. above[p] \subseteq above[q]
      BY <1>2, <1>0, <2>1, <2>2
    <3>2. Cardinality(above[p]) <= Cardinality(above[q])
      BY <1>3, <2>1, <3>1, FS_Subset
    <3> QED BY <1>3, <1>4, <1>7, <2>1, <3>2
  <2> QED BY <1>0, <2>1, <2>2
<1>8. ASSUME rows # S PROVE Cardinality(rows) <= n
  <2>1. CASE rows = {}
    <3>1. Cardinality(rows) = 0
      BY <2>1, FS_EmptySet
    <3> QED BY <3>1
  <2>2. CASE rows # {}
    <3>1. r \in [D -> Nat]
      BY <1>0
    <3>2. PICK m \in rows : \A q \in rows : r[m] <= r[q]
      BY <1>5, <2>2, <3>1, LowestRank
    <3>3. rows \ {m} \subseteq above[m]
      BY <1>2, <1>4, <1>5, <3>2
    <3>4. Cardinality(rows \ {m}) <= Cardinality(above[m])
      BY <1>3, <1>5, <3>3, FS_Subset
    <3>5. Cardinality(rows \ {m}) = Cardinality(rows) - 1
      BY <1>5, FS_RemoveElement
    <3>6. Cardinality(above[m]) < n
      BY <1>4
    <3> QED BY <1>3, <1>5, <3>4, <3>5, <3>6
  <2> QED BY <2>1, <2>2
<1>9. ASSUME rows # S PROVE Cardinality(rows) >= n
  <2>1. S \ rows # {} /\ S \ rows \in SUBSET D
    BY <1>4, <1>9
  <2>2. PICK h \in S \ rows : \A q \in S \ rows : r[q] <= r[h]
    BY <2>1, HighestRank
  <2>3. above[h] \subseteq rows
    BY <1>2, <1>0, <2>2
  <2>4. Cardinality(above[h]) <= Cardinality(rows)
    BY <1>5, <2>3, FS_Subset
  <2>5. h \in D /\ ~(Cardinality(above[h]) < n)
    BY <1>4, <2>2
  <2> QED BY <1>3, <1>5, <2>4, <2>5
<1>10. rows # S => Cardinality(rows) = n
  BY <1>5, <1>8, <1>9
<1> QED BY <1>7, <1>10

-----------------------------------------------------------------------------
(* A post's pictures.                                                       *)

(* The pictures a body shows from the repo are listed where they were       *)
(* uploaded, or by the record, or were over the cap of one.                 *)
LiveRefs == IF live = NoRecordYet THEN {} ELSE live.refs
Carried(post, also) == In(post.body, "proxied") \subseteq post.listed \cup also \cup past

(* A publish: pictures still to copy are elsewhere; what went missing since *)
(* it was asked for is counted, and what stayed where it was, for an import.*)
Missing(j) == {p \in Pic : j.asked[p] # "absent" /\ j.desk.body[p] = "absent"}
JobTrue(j) ==
  /\ j.way = "edit" <=> live # NoRecordYet
  /\ j.card \in {j.desk.title, NoPicture}
  /\ Carried(j.desk, LiveRefs)
  /\ j.todo \subseteq In(j.desk.body, "remote")
  /\ j.at = "copy" => j.known
  /\ \A p \in Pic : j.asked[p] = "absent" => j.desk.body[p] = "absent"
  /\ j.dropped = Cardinality(Missing(j))
  /\ j.known => j.kept + Cardinality(j.todo) = Cardinality(In(j.desk.body, "remote"))
  /\ j.known /\ j.at = "write" => j.todo = {}
  /\ ~j.known => j.kept = 0

PicInv ==
  /\ PicTypeOK /\ PicturesLast
  /\ Carried(desk, LiveRefs) /\ Carried(autosaved, {})
  /\ pub # NoPub => JobTrue(pub)

LEMMA LeastPicture ==
  ASSUME NEW S \in SUBSET Pic, S # {}
  PROVE  Min(S) \in S
<1>1. S \subseteq Nat
  BY DEF Pic
<1>2. PICK k \in S : \A j \in S : ~ (<<j, k>> \in OpToRel(<, Nat))
  BY <1>1, NatLessThanWellFounded, WFMin
<1>3. \A j \in S : ~(j < k)
  BY <1>1, <1>2 DEF OpToRel
<1>4. \A j \in S : k <= j
  BY <1>1, <1>3
<1> QED BY <1>4 DEF Min

LEMMA PictureBounds ==
  /\ {LastPic, PicCap, ImageBudget} \subseteq Nat \ {0} /\ {CardBudget, HopCap, MaxTouched} \subseteq Nat
  /\ \A S \in SUBSET Pic : IsFiniteSet(S) /\ Cardinality(S) \in 0..LastPic
<1>1. IsFiniteSet(Pic) /\ Cardinality(Pic) = LastPic
  BY PicturesAssumption, FS_Interval DEF Pic
<1>2. ASSUME NEW S \in SUBSET Pic PROVE IsFiniteSet(S) /\ Cardinality(S) \in 0..LastPic
  BY <1>1, FS_Subset, FS_CardinalityType
<1> QED BY <1>2, PicturesAssumption

(* As many pictures as the cap allows are all listed.                       *)
LEMMA FirstOfAll ==
  ASSUME NEW S \in SUBSET Pic, NEW n \in Nat, Cardinality(S) <= n
  PROVE  FirstOf(S, n) = S
<1>1. ASSUME NEW p \in S PROVE Cardinality({q \in S : q <= p}) <= n
  <2>1. PICK T \in SUBSET S : T = {q \in S : q <= p}
    OBVIOUS
  <2>2. Cardinality(T) <= Cardinality(S) /\ Cardinality(T) \in Nat /\ Cardinality(S) \in Nat
    BY FS_Subset, PictureBounds
  <2> QED BY <2>1, <2>2
<1> QED BY <1>1 DEF FirstOf

(* What is written of a publish: only pictures its body shows from the repo *)
(* are listed, and all of them up to the cap.                               *)
LEMMA RecordTrue ==
  ASSUME PicInv, pub # NoPub
  PROVE  LET r == RecordOf(pub) IN
         /\ r \in DocRecord /\ r.body = pub.desk.body /\ r.title = pub.desk.title
         /\ r.card \in {r.title, NoPicture}
         /\ r.refs \subseteq In(r.body, "proxied")
         /\ Cardinality(In(r.body, "proxied")) <= PicCap => In(r.body, "proxied") \subseteq r.refs \cup past
<1>1. PICK j \in Job : j = pub
  BY DEF PicInv, PicTypeOK
<1>2. JobTrue(j)
  BY <1>1 DEF PicInv
<1>3. j.desk \in Desk /\ j.desk.body \in PicBody /\ j.desk.listed \subseteq Pic /\ j.desk.title \in Headline
      /\ j.card \in Headline \cup {NoPicture}
  BY <1>1 DEF Job, Desk
<1>4. live # NoRecordYet => live \in DocRecord /\ live.refs \subseteq Pic
                            /\ live.cover \in Pic \cup {NoPicture, OwnCover}
  BY DEF PicInv, PicTypeOK, DocRecord
<1>5. PICK shown \in SUBSET Pic : shown = In(j.desk.body, "proxied")
  BY DEF In
<1>6. PICK sources \in SUBSET Pic : sources = SourcesOf(j)
  BY <1>2, <1>3, <1>4 DEF SourcesOf, JobTrue
<1>7. PICK refs \in SUBSET Pic : refs = RefsOf(j.desk.body, sources)
  BY <1>6 DEF RefsOf, FirstOf
<1>8. refs \subseteq shown
  BY <1>5, <1>7 DEF RefsOf, FirstOf
<1>9. ASSUME Cardinality(shown) <= PicCap PROVE shown \subseteq refs \cup past
  <2>1. shown \ past \subseteq sources
    BY <1>2, <1>5, <1>6 DEF JobTrue, Carried, LiveRefs, SourcesOf
  <2>2. PICK S \in SUBSET shown : S = sources \cap shown
    OBVIOUS
  <2>3. Cardinality(S) <= PicCap
    <3>1. Cardinality(S) <= Cardinality(shown) /\ Cardinality(S) \in Nat /\ Cardinality(shown) \in Nat
      BY FS_Subset, PictureBounds
    <3> QED BY <1>9, <3>1, PictureBounds
  <2>4. refs = S
    BY <1>5, <1>7, <2>2, <2>3, FirstOfAll, PictureBounds DEF RefsOf
  <2> QED BY <2>1, <2>2, <2>4
<1>10. CoverOf(j, refs) \in Pic \cup {NoPicture, OwnCover}
  <2>1. Borrowed(j, refs) \in Pic \cup {NoPicture}
    BY LeastPicture DEF Borrowed
  <2>2. j.way = "edit" => live.cover \in Pic \cup {NoPicture, OwnCover}
    BY <1>2, <1>4 DEF JobTrue
  <2>3. j.cover \in {"new", "none", "remove"}
    BY <1>1 DEF Job
  <2> QED BY <2>1, <2>2, <2>3 DEF CoverOf
<1>11. PICK cover \in Pic \cup {NoPicture, OwnCover} : cover = CoverOf(j, refs)
  BY <1>10
<1>12. PICK r : r = [body |-> j.desk.body, refs |-> refs, cover |-> cover, card |-> j.card, title |-> j.desk.title]
  OBVIOUS
<1>13. RecordOf(pub) = r
  BY <1>1, <1>6, <1>7, <1>11, <1>12 DEF RecordOf
<1>14. r \in DocRecord /\ r.body = j.desk.body /\ r.title = j.desk.title /\ r.card = j.card /\ r.refs = refs
  BY <1>3, <1>12 DEF DocRecord
<1>15. j.card \in {j.desk.title, NoPicture}
  BY <1>2 DEF JobTrue
<1> QED BY <1>1, <1>5, <1>8, <1>9, <1>13, <1>14, <1>15

(* A step of the editor.                                                    *)
LEMMA DeskStep ==
  ASSUME PicInv, UNCHANGED <<brought, live, pub, outcome, past>>, pub = NoPub,
         blobs \subseteq blobs', blobs' \subseteq Pic, tethered' \subseteq tethered,
         desk' \in Desk, autosaved' \in Desk, touched' \in 0..MaxTouched,
         Carried(desk, LiveRefs)', Carried(autosaved, {})'
  PROVE  PicInv'
<1>1. PicTypeOK'
  BY DEF PicInv, PicTypeOK
<1>2. PicturesLast'
  BY DEF PicInv, PicturesLast, PicturesServed, CardIsTitle, LossesSaid, NamedBy, In
<1> QED BY <1>1, <1>2 DEF PicInv

(* A step of a publish, from one state of it to the next.                   *)
LEMMA JobStep ==
  ASSUME PicInv, UNCHANGED <<tethered, brought, desk, autosaved, live, outcome, touched, past>>,
         blobs \subseteq blobs', blobs' \subseteq Pic, NEW q, pub' = q,
         q # NoPub => q \in Job /\ q.spent \in 0..q.budget /\ JobTrue(q)
  PROVE  PicInv'
<1>1. PicTypeOK'
  BY DEF PicInv, PicTypeOK
<1>2. PicturesLast'
  BY DEF PicInv, PicturesLast, PicturesServed, CardIsTitle, LossesSaid, NamedBy, In
<1>3. LiveRefs' = LiveRefs
  BY DEF LiveRefs
<1>4. Carried(desk, LiveRefs)' /\ Carried(autosaved, {})'
  BY <1>3 DEF PicInv, Carried, In
<1>5. ASSUME q # NoPub PROVE JobTrue(pub)'
  BY <1>3, <1>5 DEF JobTrue, Carried, Missing, In
<1> QED BY <1>1, <1>2, <1>4, <1>5 DEF PicInv


LEMMA EditorKeepsPictures ==
  ASSUME PicInv,
         \/ \E p \in Pic : UploadPicture(p) \/ DeletePicture(p)
         \/ Retitle \/ Autosave \/ ReopenEditor \/ DeleteThread
  PROVE  PicInv'
<1>0. /\ desk \in Desk /\ desk.body \in PicBody /\ desk.listed \subseteq Pic /\ desk.title \in Headline
      /\ autosaved \in Desk /\ blobs \subseteq Pic /\ tethered \subseteq Pic /\ touched \in 0..MaxTouched
      /\ Carried(desk, LiveRefs) /\ Carried(autosaved, {})
  BY DEF PicInv, PicTypeOK, Desk
<1>1. PICK d \in Desk : d = desk
  BY <1>0
<1>2. Touch => touched' \in 0..MaxTouched
  BY <1>0, PictureBounds DEF Touch
<1>3. ASSUME UNCHANGED <<live, past>> PROVE LiveRefs' = LiveRefs
  BY <1>3 DEF LiveRefs
<1>4. ASSUME NEW p \in Pic, UploadPicture(p) PROVE PicInv'
  <2>0. UNCHANGED <<tethered, brought, autosaved, live, pub, outcome, past>> /\ pub = NoPub
        /\ blobs' = blobs \cup {p} /\ touched' \in 0..MaxTouched
    BY <1>2, <1>4 DEF UploadPicture, Touch
  <2>1. PICK body : body = [d.body EXCEPT ![p] = "proxied"]
    OBVIOUS
  <2>2. body \in PicBody /\ In(body, "proxied") = In(d.body, "proxied") \cup {p}
    BY <1>0, <1>1, <2>1 DEF PicBody, In
  <2>3. PICK e : e = [d EXCEPT !.body = body, !.listed = @ \cup {p}]
    OBVIOUS
  <2>4. e \in Desk /\ e.body = body /\ e.listed = d.listed \cup {p}
    BY <1>0, <1>1, <2>2, <2>3 DEF Desk
  <2>5. desk' = e \/ desk' = desk
    BY <1>1, <1>4, <2>1, <2>3 DEF UploadPicture
  <2>6. Carried(e, LiveRefs)
    BY <1>0, <1>1, <2>2, <2>4 DEF Carried
  <2>7. Carried(desk, LiveRefs)' /\ Carried(autosaved, {})'
    BY <1>0, <1>3, <2>0, <2>5, <2>6 DEF Carried, In
  <2> QED BY <1>0, <2>0, <2>4, <2>5, <2>7, DeskStep
<1>5. ASSUME NEW p \in Pic, DeletePicture(p) PROVE PicInv'
  <2>0. UNCHANGED <<blobs, tethered, brought, autosaved, live, pub, outcome, past>> /\ pub = NoPub
        /\ touched' \in 0..MaxTouched
    BY <1>2, <1>5 DEF DeletePicture, Touch
  <2>1. PICK body : body = [d.body EXCEPT ![p] = "absent"]
    OBVIOUS
  <2>2. body \in PicBody /\ In(body, "proxied") \subseteq In(d.body, "proxied")
    BY <1>0, <1>1, <2>1 DEF PicBody, In
  <2>3. PICK e : e = [d EXCEPT !.body = body]
    OBVIOUS
  <2>4. e \in Desk /\ e.body = body /\ e.listed = d.listed
    BY <1>0, <1>1, <2>2, <2>3 DEF Desk
  <2>5. desk' = e
    BY <1>1, <1>5, <2>1, <2>3 DEF DeletePicture
  <2>6. Carried(e, LiveRefs)
    BY <1>0, <1>1, <2>2, <2>4 DEF Carried
  <2>7. Carried(desk, LiveRefs)' /\ Carried(autosaved, {})'
    BY <1>0, <1>3, <2>0, <2>5, <2>6 DEF Carried, In
  <2> QED BY <1>0, <2>0, <2>4, <2>5, <2>7, DeskStep
<1>6. ASSUME Retitle PROVE PicInv'
  <2>0. UNCHANGED <<blobs, tethered, brought, autosaved, live, pub, outcome, past>> /\ pub = NoPub
        /\ touched' \in 0..MaxTouched
    BY <1>2, <1>6 DEF Retitle, Touch
  <2>1. PICK e : e = [d EXCEPT !.title = "second"]
    OBVIOUS
  <2>2. e \in Desk /\ e.body = d.body /\ e.listed = d.listed /\ desk' = e
    BY <1>1, <1>6, <2>1 DEF Desk, Headline, Retitle
  <2>3. Carried(desk, LiveRefs)' /\ Carried(autosaved, {})'
    BY <1>0, <1>1, <1>3, <2>0, <2>2 DEF Carried, In
  <2> QED BY <1>0, <2>0, <2>2, <2>3, DeskStep
<1>7. ASSUME Autosave PROVE PicInv'
  <2>0. UNCHANGED <<blobs, tethered, brought, desk, live, pub, outcome, past, touched>> /\ pub = NoPub
        /\ live = NoRecordYet /\ autosaved' = desk
    BY <1>7 DEF Autosave
  <2>1. Carried(desk, LiveRefs)' /\ Carried(autosaved, {})'
    BY <1>0, <1>3, <2>0 DEF Carried, In, LiveRefs
  <2> QED BY <1>0, <2>0, <2>1, DeskStep
<1>8. ASSUME ReopenEditor PROVE PicInv'
  <2>0. UNCHANGED <<blobs, tethered, brought, autosaved, live, pub, outcome, past>> /\ pub = NoPub
        /\ touched' \in 0..MaxTouched
    BY <1>2, <1>8 DEF ReopenEditor, Touch
  <2>1. CASE live = NoRecordYet
    <3>1. desk' = autosaved
      BY <1>8, <2>1 DEF ReopenEditor, ResumedWith
    <3>2. Carried(desk, LiveRefs)' /\ Carried(autosaved, {})'
      BY <1>0, <1>3, <2>0, <3>1 DEF Carried, In
    <3> QED BY <1>0, <2>0, <3>1, <3>2, DeskStep
  <2>2. CASE live # NoRecordYet
    <3>1. live \in DocRecord /\ In(live.body, "proxied") \ live.refs \subseteq past
      BY <2>2 DEF PicInv, PicTypeOK, PicturesLast, PicturesServed
    <3>2. PICK e : e = [body |-> live.body, listed |-> {}, title |-> live.title]
      OBVIOUS
    <3>3. e \in Desk /\ e.body = live.body /\ e.listed = {}
      BY <3>1, <3>2 DEF Desk, DocRecord
    <3>4. desk' = e
      BY <1>8, <2>2, <3>2 DEF ReopenEditor
    <3>5. Carried(e, LiveRefs)
      BY <2>2, <3>1, <3>3 DEF Carried, LiveRefs
    <3>6. Carried(desk, LiveRefs)' /\ Carried(autosaved, {})'
      BY <1>0, <1>3, <2>0, <3>4, <3>5 DEF Carried, In
    <3> QED BY <1>0, <2>0, <3>3, <3>4, <3>6, DeskStep
  <2> QED BY <2>1, <2>2
<1>9. ASSUME DeleteThread PROVE PicInv'
  <2>1. PicTypeOK'
    BY <1>9 DEF DeleteThread, PicInv, PicTypeOK
  <2>2. PicturesLast'
    BY <1>9 DEF DeleteThread, PicInv, PicturesLast, PicturesServed, CardIsTitle, LossesSaid, NamedBy, In
  <2>3. LiveRefs' = LiveRefs /\ UNCHANGED <<desk, autosaved, past, pub, live>>
    BY <1>9 DEF DeleteThread, LiveRefs
  <2>4. Carried(desk, LiveRefs)' /\ Carried(autosaved, {})'
    BY <1>0, <2>3 DEF Carried, In
  <2>5. pub # NoPub => JobTrue(pub)'
    BY <2>3 DEF PicInv, JobTrue, Carried, Missing, In
  <2> QED BY <2>1, <2>2, <2>3, <2>4, <2>5 DEF PicInv
<1> QED BY <1>4, <1>5, <1>6, <1>7, <1>8, <1>9

(* The data server lets go only of what the record does not name.           *)
LEMMA ServerKeepsPictures ==
  ASSUME PicInv, NEW p \in Pic, LetGo(p)
  PROVE  PicInv'
<1>0. UNCHANGED <<tethered, brought, desk, autosaved, live, pub, outcome, touched, past>>
      /\ blobs' = blobs \ {p} /\ p \notin Named
  BY DEF LetGo
<1>1. PicTypeOK'
  BY <1>0 DEF PicInv, PicTypeOK
<1>2. live # NoRecordYet => NamedBy(live) \subseteq blobs'
  BY <1>0 DEF Named, NamedBy, PicInv, PicturesLast, PicturesServed
<1>3. PicturesLast'
  BY <1>0, <1>2 DEF PicInv, PicturesLast, PicturesServed, CardIsTitle, LossesSaid, NamedBy, In
<1>4. LiveRefs' = LiveRefs
  BY <1>0 DEF LiveRefs
<1>5. Carried(desk, LiveRefs)' /\ Carried(autosaved, {})'
  BY <1>0, <1>4 DEF PicInv, Carried, In
<1>6. pub # NoPub => JobTrue(pub)'
  BY <1>0, <1>4 DEF PicInv, JobTrue, Carried, Missing, In
<1> QED BY <1>0, <1>1, <1>3, <1>5, <1>6 DEF PicInv

(* A publish begins.                                                        *)
LEMMA StartIsJob ==
  ASSUME NEW post \in Desk, NEW way \in {"form", "edit", "stored"}
  PROVE  /\ Start(way, post) \in Job
         /\ LET s == Start(way, post) IN
            /\ s.way = way /\ s.at = "write" /\ s.desk = post /\ s.asked = post.body /\ s.todo = {}
            /\ ~s.known /\ s.card = NoPicture /\ s.spent = 0 /\ s.kept = 0 /\ s.dropped = 0
<1>1. post.body \in PicBody
  BY DEF Desk
<1>2. PICK s : s = Start(way, post)
  OBVIOUS
<1>3. s \in Job
  BY <1>1, <1>2, PictureBounds DEF Start, Job
<1>4. /\ s.way = way /\ s.at = "write" /\ s.desk = post /\ s.asked = post.body /\ s.todo = {}
      /\ ~s.known /\ s.card = NoPicture /\ s.spent = 0 /\ s.kept = 0 /\ s.dropped = 0
  BY <1>2 DEF Start
<1> QED BY <1>2, <1>3, <1>4

LEMMA StartTrue ==
  ASSUME PicInv, NEW post \in Desk, Carried(post, LiveRefs), NEW q \in Job,
         q.way = "edit" <=> live # NoRecordYet, q.at = IF q.known THEN "copy" ELSE "write",
         q.desk = post, q.asked = post.body, q.todo \subseteq In(post.body, "remote"),
         q.known => q.todo = In(post.body, "remote"), q.card \in {post.title, NoPicture},
         q.spent = 0, q.kept = 0, q.dropped = 0
  PROVE  q.spent \in 0..q.budget /\ JobTrue(q)
<1>1. q.spent \in 0..q.budget /\ q.todo \in SUBSET Pic /\ q.known \in BOOLEAN
  BY DEF Job
<1>2. Missing(q) = {}
  BY DEF Missing
<1>3. Cardinality(Missing(q)) = 0 /\ Cardinality(q.todo) \in Nat
  BY <1>1, <1>2, FS_EmptySet, PictureBounds
<1>4. JobTrue(q)
  BY <1>1, <1>3 DEF JobTrue
<1> QED BY <1>1, <1>4

LEMMA PressKeepsPictures ==
  ASSUME PicInv, PressForm \/ PressEdit \/ PublishStored
  PROVE  PicInv'
<1>0. /\ desk \in Desk /\ desk.title \in Headline /\ autosaved \in Desk /\ blobs \subseteq Pic
      /\ Carried(desk, LiveRefs) /\ Carried(autosaved, LiveRefs)
  BY DEF PicInv, PicTypeOK, Desk, Carried
<1>1. UNCHANGED <<blobs, tethered, brought, desk, autosaved, live, outcome, touched, past>>
  BY DEF PressForm, PressEdit, PublishStored
<1>2. PICK d \in Desk, a \in Desk : d = desk /\ a = autosaved
  BY <1>0
<1>3. ASSUME PressForm PROVE PicInv'
  <2>0. PICK card \in {desk.title, NoPicture}, cover \in {"new", "none"}, reserved \in BOOLEAN,
             told \in {brought # "no", FALSE} :
          pub' = [Start("form", desk) EXCEPT
                    !.at = IF told THEN "copy" ELSE "write", !.todo = In(desk.body, "remote"),
                    !.known = told, !.reserved = reserved, !.cover = cover, !.card = card,
                    !.budget = ImageBudget]
    BY <1>3, Zenon DEF PressForm
  <2>1. /\ card \in {d.title, NoPicture} /\ told \in BOOLEAN
        /\ pub' = [Start("form", d) EXCEPT
                    !.at = IF told THEN "copy" ELSE "write", !.todo = In(d.body, "remote"),
                    !.known = told, !.reserved = reserved, !.cover = cover, !.card = card,
                    !.budget = ImageBudget]
    BY <1>2, <2>0
  <2>2. PICK todo \in SUBSET Pic : todo = In(d.body, "remote")
    BY DEF In
  <2>3. PICK s \in Job : s = Start("form", d)
    BY StartIsJob
  <2>4. /\ s.way = "form" /\ s.at = "write" /\ s.desk = d /\ s.asked = d.body /\ s.spent = 0
        /\ s.kept = 0 /\ s.dropped = 0
    BY <2>3, StartIsJob
  <2>5. PICK at \in {"copy", "write"} : at = IF told THEN "copy" ELSE "write"
    OBVIOUS
  <2>6. PICK q : q = [s EXCEPT !.at = at, !.todo = todo, !.known = told, !.reserved = reserved,
                               !.cover = cover, !.card = card, !.budget = ImageBudget]
    OBVIOUS
  <2>7. pub' = q
    BY <2>1, <2>2, <2>3, <2>5, <2>6
  <2>8. q \in Job
    BY <1>0, <1>2, <2>6, PictureBounds DEF Job
  <2>9. /\ q.way = "form" /\ q.at = at /\ q.desk = d /\ q.asked = d.body /\ q.spent = 0
        /\ q.kept = 0 /\ q.dropped = 0 /\ q.todo = todo /\ q.known = told /\ q.card = card
    BY <2>4, <2>6 DEF Job
  <2>10. q.spent \in 0..q.budget /\ JobTrue(q)
    <3>1. live = NoRecordYet /\ Carried(d, LiveRefs)
      BY <1>0, <1>2, <1>3 DEF PressForm
    <3>2. q.at = IF q.known THEN "copy" ELSE "write"
      BY <2>5, <2>9
    <3>3. q.todo = In(d.body, "remote")
      BY <2>2, <2>9
    <3>4. q.card \in {d.title, NoPicture} /\ (q.way = "edit" <=> live # NoRecordYet)
      BY <2>1, <2>9, <3>1
    <3> QED BY <2>8, <2>9, <3>1, <3>2, <3>3, <3>4, StartTrue
  <2> QED BY <1>0, <1>1, <2>7, <2>8, <2>10, JobStep
<1>4. ASSUME PressEdit PROVE PicInv'
  <2>1. PICK card \in {d.title, NoPicture}, cover \in {"new", "none", "remove"} :
          pub' = [Start("edit", d) EXCEPT !.cover = cover, !.card = card]
    BY <1>2, <1>4 DEF PressEdit, CardFor
  <2>2. PICK s \in Job : s = Start("edit", d)
    BY StartIsJob
  <2>3. /\ s.way = "edit" /\ s.at = "write" /\ s.desk = d /\ s.asked = d.body /\ s.spent = 0
        /\ s.kept = 0 /\ s.dropped = 0 /\ s.todo = {} /\ ~s.known
    BY <2>2, StartIsJob
  <2>4. PICK q : q = [s EXCEPT !.cover = cover, !.card = card]
    OBVIOUS
  <2>5. pub' = q
    BY <2>1, <2>2, <2>4
  <2>6. q \in Job
    BY <1>0, <1>2, <2>4 DEF Job
  <2>7. /\ q.way = "edit" /\ q.at = "write" /\ q.desk = d /\ q.asked = d.body /\ q.spent = 0
        /\ q.kept = 0 /\ q.dropped = 0 /\ q.todo = {} /\ ~q.known /\ q.card = card
    BY <2>3, <2>4 DEF Job
  <2>8. q.spent \in 0..q.budget /\ JobTrue(q)
    BY <1>0, <1>2, <1>4, <2>6, <2>7, StartTrue DEF PressEdit
  <2> QED BY <1>0, <1>1, <2>5, <2>6, <2>8, JobStep
<1>5. ASSUME PublishStored PROVE PicInv'
  <2>1. PICK lent \in {0, ImageBudget + CardBudget} :
          pub' = [Start("stored", a) EXCEPT !.reserved = lent = 0, !.budget = lent]
    BY <1>2, <1>5 DEF PublishStored
  <2>2. lent \in Nat
    BY PictureBounds
  <2>3. PICK none \in BOOLEAN : none = (lent = 0)
    OBVIOUS
  <2>4. PICK s \in Job : s = Start("stored", a)
    BY StartIsJob
  <2>5. /\ s.way = "stored" /\ s.at = "write" /\ s.desk = a /\ s.asked = a.body /\ s.spent = 0
        /\ s.kept = 0 /\ s.dropped = 0 /\ s.todo = {} /\ ~s.known /\ s.card = NoPicture
    BY <2>4, StartIsJob
  <2>6. PICK q : q = [s EXCEPT !.reserved = none, !.budget = lent]
    OBVIOUS
  <2>7. pub' = q
    BY <2>1, <2>3, <2>4, <2>6
  <2>8. q \in Job
    BY <2>2, <2>6 DEF Job
  <2>9. /\ q.way = "stored" /\ q.at = "write" /\ q.desk = a /\ q.asked = a.body /\ q.spent = 0
        /\ q.kept = 0 /\ q.dropped = 0 /\ q.todo = {} /\ ~q.known /\ q.card = NoPicture
    BY <2>5, <2>6 DEF Job
  <2>10. q.spent \in 0..q.budget /\ JobTrue(q)
    BY <1>0, <1>2, <1>5, <2>8, <2>9, StartTrue DEF PublishStored
  <2> QED BY <1>0, <1>1, <2>7, <2>8, <2>10, JobStep
<1> QED BY <1>3, <1>4, <1>5


(* A picture is copied, or stays where it is.                               *)
LEMMA CopyKeepsPictures ==
  ASSUME PicInv, CopyPicture
  PROVE  PicInv'
<1>0. UNCHANGED <<tethered, brought, desk, autosaved, live, outcome, touched, past>> /\ blobs \subseteq Pic
  BY DEF CopyPicture, PicInv, PicTypeOK
<1>1. PICK j \in Job : j = pub
  BY DEF CopyPicture, PicInv, PicTypeOK
<1>2. JobTrue(j) /\ j.spent \in 0..j.budget /\ j.at = "copy" /\ j.todo # {}
  BY <1>1 DEF CopyPicture, PicInv, PicTypeOK
<1>3. /\ j.desk \in Desk /\ j.desk.body \in PicBody /\ j.desk.listed \subseteq Pic /\ j.todo \subseteq Pic
      /\ j.budget \in Nat /\ j.spent \in Nat /\ j.known \in BOOLEAN /\ j.kept \in 0..LastPic /\ j.mine \subseteq Pic
  BY <1>1 DEF Job, Desk
<1>4. PICK p \in Pic : p = Min(j.todo)
  BY <1>2, <1>3, LeastPicture
<1>5. p \in j.todo
  BY <1>2, <1>3, <1>4, LeastPicture
<1>6. j.known /\ j.kept + Cardinality(j.todo) = Cardinality(In(j.desk.body, "remote"))
      /\ j.dropped = Cardinality(Missing(j))
  BY <1>2 DEF JobTrue
<1>7. PICK rest \in SUBSET Pic : rest = j.todo \ {p}
  BY <1>3
<1>8. PICK distant \in SUBSET Pic : distant = In(j.desk.body, "remote")
  BY DEF In
<1>9. /\ Cardinality(j.todo) \in 0..LastPic /\ Cardinality(rest) \in 0..LastPic
      /\ Cardinality(rest) = Cardinality(j.todo) - 1
      /\ Cardinality(distant) \in 0..LastPic /\ IsFiniteSet(distant) /\ LastPic \in Nat
  BY <1>3, <1>5, <1>7, FS_RemoveElement, PictureBounds
(* It is given up, with all that are left.                                  *)
<1>10. CASE ~Fits(j) \/ ~(Slots(j) > 0)
  <2>1. PICK n : n = j.kept + Cardinality(j.todo)
    OBVIOUS
  <2>2. n \in 0..LastPic /\ n = Cardinality(distant)
    BY <1>6, <1>8, <1>9, <2>1
  <2>3. PICK q : q = [j EXCEPT !.todo = {}, !.kept = n]
    OBVIOUS
  <2>4. pub' = q /\ blobs' = blobs
    BY <1>1, <1>10, <2>1, <2>3 DEF CopyPicture
  <2>5. q \in Job
    BY <2>2, <2>3 DEF Job
  <2>6. /\ q.way = j.way /\ q.card = j.card /\ q.desk = j.desk /\ q.at = j.at /\ q.known = j.known
        /\ q.asked = j.asked /\ q.dropped = j.dropped /\ q.todo = {} /\ q.kept = n
        /\ q.spent = j.spent /\ q.budget = j.budget
    BY <2>3 DEF Job
  <2>7. Cardinality(q.todo) = 0
    BY <2>6, FS_EmptySet
  <2>8. JobTrue(q)
    BY <1>2, <1>6, <1>8, <1>9, <2>2, <2>6, <2>7 DEF JobTrue, Missing
  <2> QED BY <1>0, <1>2, <2>4, <2>5, <2>6, <2>8, JobStep
(* It is fetched, over some hops.                                           *)
<1>11. CASE Fits(j) /\ Slots(j) > 0
  <2> DEFINE some == [j EXCEPT !.todo = @ \ {p}]
  <2>1. PICK hops \in 1..HopCap + 1 :
          /\ Fits([j EXCEPT !.spent = @ + hops - 1])
          /\ \/ pub' = [some EXCEPT !.spent = @ + hops, !.kept = @ + 1] /\ blobs' = blobs
             \/ pub' = [some EXCEPT !.spent = @ + (hops + 1), !.kept = @ + 1] /\ blobs' = blobs
             \/ /\ blobs' = blobs \cup {p}
                /\ pub' = [some EXCEPT !.spent = @ + hops + 1, !.mine = @ \cup {p},
                                       !.desk.body[p] = "proxied", !.desk.listed = @ \cup {p}]
    BY <1>1, <1>4, <1>11 DEF CopyPicture
  <2>2. hops \in Nat /\ hops >= 1
    BY PictureBounds
  <2>3. j.spent + hops + 1 <= j.budget
    <3>1. PICK b : b = [j EXCEPT !.spent = @ + hops - 1]
      OBVIOUS
    <3>2. b.spent = j.spent + hops - 1 /\ b.budget = j.budget
      BY <3>1 DEF Job
    <3>3. b.spent + 2 <= b.budget
      BY <2>1, <3>1 DEF Fits
    <3> QED BY <1>3, <2>2, <3>2, <3>3
  <2>4. PICK s : s = some
    OBVIOUS
  <2>5. s \in Job /\ s.todo = rest /\ s.kept = j.kept /\ s.spent = j.spent /\ s.desk = j.desk /\ s.mine = j.mine
        /\ s.way = j.way /\ s.card = j.card /\ s.at = j.at /\ s.known = j.known
        /\ s.asked = j.asked /\ s.dropped = j.dropped /\ s.budget = j.budget
    BY <1>3, <1>7, <2>4 DEF Job
  <2> HIDE DEF some
  <2>6. ASSUME NEW m \in {hops, hops + 1}, pub' = [s EXCEPT !.spent = @ + m, !.kept = @ + 1], blobs' = blobs
        PROVE  PicInv'
    <3>1. m \in Nat /\ j.spent + m <= j.budget
      BY <1>3, <2>2, <2>3
    <3>2. j.kept + 1 \in 0..LastPic
      BY <1>3, <1>6, <1>8, <1>9
    <3>3. PICK n \in Nat, kept \in 0..LastPic : n = s.spent + m /\ kept = s.kept + 1
      BY <1>3, <2>5, <3>1, <3>2
    <3>4. PICK q : q = [s EXCEPT !.spent = n, !.kept = kept]
      OBVIOUS
    <3>5. pub' = q
      BY <2>6, <3>4, <3>3
    <3>6. q \in Job
      BY <2>5, <3>4 DEF Job
    <3>7. /\ q.way = j.way /\ q.card = j.card /\ q.desk = j.desk /\ q.at = j.at /\ q.known = j.known
          /\ q.asked = j.asked /\ q.dropped = j.dropped /\ q.todo = rest /\ q.kept = j.kept + 1
          /\ q.spent = j.spent + m /\ q.budget = j.budget
      BY <2>5, <3>4, <3>3 DEF Job
    <3>8. JobTrue(q)
      <4>1. q.kept + Cardinality(q.todo) = Cardinality(distant)
        BY <1>3, <1>6, <1>8, <1>9, <3>7
      <4>2. q.todo \subseteq distant
        BY <1>2, <1>7, <1>8, <3>7 DEF JobTrue
      <4> QED BY <1>2, <1>6, <1>8, <3>7, <4>1, <4>2 DEF JobTrue, Missing
    <3>9. q.spent \in 0..q.budget
      BY <1>3, <3>1, <3>7
    <3> QED BY <1>0, <2>6, <3>6, <3>8, <3>9, <3>5, JobStep
  <2>7. ASSUME blobs' = blobs \cup {p},
               pub' = [s EXCEPT !.spent = @ + hops + 1, !.mine = @ \cup {p},
                                !.desk.body[p] = "proxied", !.desk.listed = @ \cup {p}]
        PROVE  PicInv'
    <3>1. PICK d \in Desk : d = j.desk
      BY <1>3
    <3>2. PICK body : body = [d.body EXCEPT ![p] = "proxied"]
      OBVIOUS
    <3>3. body \in PicBody /\ body[p] = "proxied" /\ \A o \in Pic : o # p => body[o] = d.body[o]
      BY <1>3, <3>1, <3>2 DEF PicBody
    <3>4. PICK e : e = [d EXCEPT !.body = body, !.listed = @ \cup {p}]
      OBVIOUS
    <3>5. e \in Desk /\ e.body = body /\ e.listed = d.listed \cup {p} /\ e.title = d.title
      BY <1>3, <3>1, <3>3, <3>4 DEF Desk
    <3>6. PICK n \in Nat : n = j.spent + hops + 1
      BY <1>3, <2>2
    <3>7. PICK mine \in SUBSET Pic : mine = j.mine \cup {p}
      BY <1>3
    <3>8. PICK q : q = [s EXCEPT !.spent = n, !.mine = mine, !.desk = e]
      OBVIOUS
    <3>9. pub' = q
      BY <2>5, <2>7, <3>1, <3>2, <3>4, <3>6, <3>7, <3>8 DEF Job, Desk
    <3>10. q \in Job
      BY <2>5, <3>5, <3>8 DEF Job
    <3>11. /\ q.way = j.way /\ q.card = j.card /\ q.desk = e /\ q.at = j.at /\ q.known = j.known
           /\ q.asked = j.asked /\ q.dropped = j.dropped /\ q.todo = rest /\ q.kept = j.kept
           /\ q.spent = n /\ q.budget = j.budget
      BY <2>5, <3>8 DEF Job
    <3>12. j.desk.body[p] = "remote"
      BY <1>2, <1>5 DEF JobTrue, In
    <3>13. In(body, "remote") = distant \ {p} /\ In(body, "proxied") = In(d.body, "proxied") \cup {p}
      BY <1>8, <3>1, <3>3, <3>12 DEF In
    <3>14. Missing(q) = Missing(j)
      BY <3>1, <3>3, <3>5, <3>11, <3>12 DEF Missing
    <3>15. Cardinality(In(body, "remote")) = Cardinality(distant) - 1
      <4>1. p \in distant
        BY <1>8, <3>12 DEF In
      <4> QED BY <1>9, <3>13, <4>1, FS_RemoveElement
    <3>16. JobTrue(q)
      <4>1. Carried(q.desk, LiveRefs)
        BY <1>2, <3>1, <3>5, <3>11, <3>13 DEF JobTrue, Carried
      <4>2. q.todo \subseteq In(q.desk.body, "remote")
        BY <1>2, <1>7, <1>8, <3>5, <3>11, <3>13 DEF JobTrue
      <4>3. q.kept + Cardinality(q.todo) = Cardinality(In(q.desk.body, "remote"))
        BY <1>3, <1>6, <1>8, <1>9, <3>5, <3>11, <3>15
      <4>4. \A o \in Pic : q.asked[o] = "absent" => q.desk.body[o] = "absent"
        BY <1>2, <3>1, <3>3, <3>5, <3>11, <3>12 DEF JobTrue
      <4>5. q.dropped = Cardinality(Missing(q))
        BY <1>6, <3>11, <3>14
      <4> QED BY <1>2, <1>6, <3>1, <3>5, <3>11, <4>1, <4>2, <4>3, <4>4, <4>5 DEF JobTrue
    <3>17. q.spent \in 0..q.budget
      BY <1>3, <2>2, <2>3, <3>6, <3>11
    <3>18. blobs \subseteq blobs' /\ blobs' \subseteq Pic
      BY <1>0, <2>7
    <3> QED BY <1>0, <3>9, <3>10, <3>16, <3>17, <3>18, JobStep
  <2> QED BY <2>1, <2>4, <2>6, <2>7
<1> QED BY <1>10, <1>11

LEMMA CopiesDoneKeepsPictures ==
  ASSUME PicInv, CopiesDone
  PROVE  PicInv'
<1>0. UNCHANGED <<blobs, tethered, brought, desk, autosaved, live, outcome, touched, past>> /\ blobs \subseteq Pic
  BY DEF CopiesDone, PicInv, PicTypeOK
<1>1. PICK j \in Job : j = pub
  BY DEF CopiesDone, PicInv, PicTypeOK
<1>2. JobTrue(j) /\ j.spent \in 0..j.budget /\ j.at = "copy" /\ j.todo = {}
  BY <1>1 DEF CopiesDone, PicInv, PicTypeOK
<1>3. PICK q : q = [j EXCEPT !.at = "write"]
  OBVIOUS
<1>4. q \in Job /\ pub' = q
  BY <1>1, <1>3 DEF Job, CopiesDone
<1>5. /\ q.way = j.way /\ q.card = j.card /\ q.desk = j.desk /\ q.at = "write" /\ q.known = j.known
      /\ q.asked = j.asked /\ q.dropped = j.dropped /\ q.todo = {} /\ q.kept = j.kept
      /\ q.spent = j.spent /\ q.budget = j.budget
  BY <1>2, <1>3 DEF Job
<1>6. JobTrue(q)
  BY <1>2, <1>5 DEF JobTrue, Missing
<1> QED BY <1>0, <1>2, <1>4, <1>5, <1>6, JobStep


(* The record is written, and the writer told what became of its pictures.  *)
LEMMA WriteKeepsPictures ==
  ASSUME PicInv, WriteDocument
  PROVE  PicInv'
<1>1. PICK j \in Job : j = pub
  BY DEF WriteDocument, PicInv, PicTypeOK
<1>2. JobTrue(j) /\ j.at = "write" /\ pub # NoPub
  BY <1>1 DEF WriteDocument, PicInv
<1>3. PICK r \in DocRecord : r = RecordOf(pub)
  BY <1>2, RecordTrue
<1>4. /\ r.body = j.desk.body /\ r.title = j.desk.title /\ r.card \in {r.title, NoPicture}
      /\ r.refs \subseteq In(r.body, "proxied")
      /\ Cardinality(In(r.body, "proxied")) <= PicCap => In(r.body, "proxied") \subseteq r.refs \cup past
  BY <1>1, <1>2, <1>3, RecordTrue
<1>5. /\ live' = r /\ pub' = NoPub /\ NamedBy(r) \subseteq blobs
      /\ UNCHANGED <<blobs, tethered, brought, autosaved, touched>>
      /\ desk' = [body |-> r.body, listed |-> {}, title |-> r.title]
      /\ outcome' = [known |-> j.known, kept |-> j.kept, dropped |-> j.dropped, asked |-> j.asked, went |-> r.body]
  BY <1>1, <1>3 DEF WriteDocument
<1>6. PICK shown \in SUBSET Pic : shown = In(r.body, "proxied")
  BY DEF In
<1>7. past' = IF Cardinality(shown) > PicCap THEN past \cup (shown \ r.refs) ELSE past
  BY <1>3, <1>6 DEF WriteDocument
<1>8. past \subseteq past' /\ past' \subseteq Pic /\ shown \subseteq r.refs \cup past'
  <2>1. Cardinality(shown) \in Nat /\ PicCap \in Nat
    BY PictureBounds
  <2> QED BY <1>4, <1>6, <1>7, <2>1 DEF PicInv, PicTypeOK
<1>9. r.body \in PicBody /\ r.title \in Headline
  BY DEF DocRecord
<1>10. PICK d : d = [body |-> r.body, listed |-> {}, title |-> r.title]
  OBVIOUS
<1>11. d \in Desk /\ d.body = r.body /\ d.listed = {} /\ desk' = d
  BY <1>5, <1>9, <1>10 DEF Desk
<1>12. PICK o : o = [known |-> j.known, kept |-> j.kept, dropped |-> j.dropped, asked |-> j.asked, went |-> r.body]
  OBVIOUS
<1>13. o \in Outcome /\ outcome' = o
  BY <1>5, <1>9, <1>12 DEF Outcome, Job
<1>14. PicTypeOK'
  BY <1>5, <1>8, <1>11, <1>13 DEF PicInv, PicTypeOK
<1>15. LossesSaid'
  <2>1. o.dropped = j.dropped /\ o.kept = j.kept /\ o.asked = j.asked /\ o.went = j.desk.body /\ o.known = j.known
    BY <1>4, <1>12
  <2>2. o.dropped = Cardinality({p \in Pic : o.asked[p] # "absent" /\ o.went[p] = "absent"})
    BY <1>2, <2>1 DEF JobTrue, Missing
  <2>3. ASSUME o.known PROVE o.kept = Cardinality(In(o.went, "remote"))
    <3>1. Cardinality(j.todo) = 0 /\ j.kept \in Nat
      BY <1>2, <2>1, <2>3, FS_EmptySet, PictureBounds DEF JobTrue, Job
    <3> QED BY <1>2, <2>1, <2>3, <3>1 DEF JobTrue
  <2> QED BY <1>13, <2>2, <2>3 DEF LossesSaid, In
<1>16. PicturesServed' /\ CardIsTitle'
  <2>1. NamedBy(live') \subseteq blobs'
    BY <1>5
  <2> QED BY <1>4, <1>5, <1>6, <1>8, <2>1 DEF PicturesServed, CardIsTitle, NamedBy, In
<1>17. Carried(desk, LiveRefs)'
  <2>1. In(d.body, "proxied") \subseteq r.refs \cup past'
    BY <1>6, <1>8, <1>11
  <2>2. LiveRefs' = IF r = NoRecordYet THEN {} ELSE r.refs
    BY <1>5 DEF LiveRefs
  <2> QED BY <1>5, <1>11, <2>1, <2>2, NoRecordAssumption DEF Carried, In
<1>18. Carried(autosaved, {})'
  BY <1>5, <1>8 DEF PicInv, Carried, In
<1> QED BY <1>5, <1>14, <1>15, <1>16, <1>17, <1>18 DEF PicInv, PicturesLast

(* A picture the record names is gone: left out, or the publish refused.    *)
LEMMA MissingKeepsPictures ==
  ASSUME PicInv, BlobMissing
  PROVE  PicInv'
<1>0. UNCHANGED <<blobs, tethered, brought, desk, autosaved, live, outcome, touched, past>> /\ blobs \subseteq Pic
  BY DEF BlobMissing, PicInv, PicTypeOK
<1>1. PICK j \in Job : j = pub
  BY DEF BlobMissing, PicInv, PicTypeOK
<1>2. JobTrue(j) /\ j.spent \in 0..j.budget /\ j.at = "write"
  BY <1>1 DEF BlobMissing, PicInv, PicTypeOK
<1>3. /\ j.desk \in Desk /\ j.desk.body \in PicBody /\ j.budget \in Nat /\ j.spent \in Nat /\ j.asked \in PicBody
      /\ j.dropped \in 0..LastPic /\ j.reserved \in BOOLEAN
  BY <1>1 DEF Job, Desk
<1>4. PICK p : pub' = IF pub.way # "edit" /\ p \in In(pub.desk.body, "proxied") /\ Retries(pub)
                      THEN [pub EXCEPT !.desk.body[p] = "absent", !.spent = @ + Cost(pub), !.dropped = @ + 1]
                      ELSE NoPub
  BY DEF BlobMissing
<1>5. CASE ~(j.way # "edit" /\ p \in In(j.desk.body, "proxied") /\ Retries(j))
  BY <1>0, <1>1, <1>4, <1>5, JobStep
<1>6. CASE j.way # "edit" /\ p \in In(j.desk.body, "proxied") /\ Retries(j)
  <2>1. PICK cost \in Nat : cost = Cost(j)
    BY DEF Cost
  <2>2. p \in Pic /\ j.desk.body[p] = "proxied" /\ j.spent + cost <= j.budget
    BY <1>6, <2>1 DEF In, Retries
  <2>3. PICK d \in Desk : d = j.desk
    BY <1>3
  <2>4. PICK body : body = [d.body EXCEPT ![p] = "absent"]
    OBVIOUS
  <2>5. body \in PicBody /\ body[p] = "absent" /\ \A o \in Pic : o # p => body[o] = d.body[o]
    BY <1>3, <2>2, <2>3, <2>4 DEF PicBody
  <2>6. PICK e : e = [d EXCEPT !.body = body]
    OBVIOUS
  <2>7. e \in Desk /\ e.body = body /\ e.listed = d.listed /\ e.title = d.title
    BY <2>5, <2>6 DEF Desk
  <2>8. PICK amiss \in SUBSET Pic : amiss = Missing(j)
    BY DEF Missing
  <2>9. PICK more \in SUBSET Pic : more = amiss \cup {p}
    BY <2>2
  <2>10. p \notin amiss /\ j.asked[p] # "absent"
    BY <1>2, <2>2, <2>8 DEF Missing, JobTrue
  <2>11. Cardinality(more) = j.dropped + 1 /\ j.dropped + 1 \in 0..LastPic
    <3>1. Cardinality(amiss) = j.dropped /\ Cardinality(more) \in 0..LastPic
      BY <1>2, <2>8, PictureBounds DEF JobTrue
    <3>2. Cardinality(more) = Cardinality(amiss) + 1
      BY <2>9, <2>10, FS_AddElement, PictureBounds
    <3> QED BY <3>1, <3>2
  <2>12. PICK n \in Nat, dropped \in 0..LastPic : n = j.spent + cost /\ dropped = j.dropped + 1
    BY <1>3, <2>11
  <2>13. PICK q : q = [j EXCEPT !.desk = e, !.spent = n, !.dropped = dropped]
    OBVIOUS
  <2>14. pub' = q
    BY <1>1, <1>4, <1>6, <2>1, <2>3, <2>4, <2>6, <2>12, <2>13 DEF Job, Desk
  <2>15. q \in Job
    BY <2>7, <2>13 DEF Job
  <2>16. /\ q.way = j.way /\ q.card = j.card /\ q.desk = e /\ q.at = j.at /\ q.known = j.known
         /\ q.asked = j.asked /\ q.dropped = dropped /\ q.todo = j.todo /\ q.kept = j.kept
         /\ q.spent = n /\ q.budget = j.budget
    BY <2>13 DEF Job
  <2>17. In(body, "remote") = In(d.body, "remote") /\ In(body, "proxied") \subseteq In(d.body, "proxied")
    BY <2>2, <2>3, <2>5 DEF In
  <2>18. Missing(q) = more
    BY <2>3, <2>5, <2>7, <2>8, <2>9, <2>10, <2>16 DEF Missing
  <2>19. JobTrue(q)
    <3>1. Carried(q.desk, LiveRefs)
      BY <1>2, <2>3, <2>7, <2>16, <2>17 DEF JobTrue, Carried
    <3>2. \A o \in Pic : q.asked[o] = "absent" => q.desk.body[o] = "absent"
      BY <1>2, <2>3, <2>5, <2>7, <2>10, <2>16 DEF JobTrue
    <3>3. q.dropped = Cardinality(Missing(q))
      BY <2>11, <2>12, <2>16, <2>18
    <3> QED BY <1>2, <2>3, <2>7, <2>16, <2>17, <3>1, <3>2, <3>3 DEF JobTrue
  <2>20. q.spent \in 0..q.budget
    BY <1>3, <2>2, <2>12, <2>16
  <2> QED BY <1>0, <2>14, <2>15, <2>19, <2>20, JobStep
<1> QED BY <1>5, <1>6

LEMMA PicInitInv == PicInit => PicInv
<1> SUFFICES ASSUME PicInit PROVE PicInv
  OBVIOUS
<1>1. PICK body \in PicBody : body = [p \in Pic |-> CASE brought = "no" -> "absent" [] brought = "feed" -> "remote"
                                                 [] OTHER -> "proxied"]
  BY DEF PicBody
<1>2. desk = [title |-> "first", listed |-> IF brought = "thread" THEN Pic ELSE {}, body |-> body]
      /\ brought \in {"no", "feed", "thread"}
  BY <1>1 DEF PicInit
<1>3. desk \in Desk /\ desk.body = body /\ desk.listed = IF brought = "thread" THEN Pic ELSE {}
  BY <1>2 DEF Desk, Headline
<1>4. \A p \in Pic : body[p] = "proxied" => p \in desk.listed
  <2>1. brought # "thread" => \A p \in Pic : body[p] # "proxied"
    BY <1>1, <1>2
  <2> QED BY <1>3, <2>1
<1>5. In(desk.body, "proxied") \subseteq desk.listed /\ In(desk.body, "proxied") \subseteq Pic
  BY <1>3, <1>4 DEF In
<1>6. PicTypeOK
  BY <1>2, <1>3, <1>5, PictureBounds DEF PicInit, PicTypeOK
<1>7. PicturesLast
  BY DEF PicInit, PicturesLast, PicturesServed, CardIsTitle, LossesSaid
<1>8. Carried(desk, LiveRefs) /\ Carried(autosaved, {})
  BY <1>5 DEF PicInit, Carried, LiveRefs
<1> QED BY <1>6, <1>7, <1>8 DEF PicInv, PicInit

LEMMA PicNextInv == PicInv /\ [PicNext]_picVars => PicInv'
<1> SUFFICES ASSUME PicInv, [PicNext]_picVars PROVE PicInv'
  OBVIOUS
<1>1. CASE UNCHANGED picVars
  <2>1. UNCHANGED <<blobs, tethered, brought, desk, autosaved, live, pub, outcome, touched, past>>
    BY <1>1 DEF picVars
  <2>2. LiveRefs' = LiveRefs
    BY <2>1 DEF LiveRefs
  <2>3. PicTypeOK' /\ PicturesLast'
    BY <2>1 DEF PicInv, PicTypeOK, PicturesLast, PicturesServed, CardIsTitle, LossesSaid, NamedBy, In
  <2>4. Carried(desk, LiveRefs)' /\ Carried(autosaved, {})'
    BY <2>1, <2>2 DEF PicInv, Carried, In
  <2>5. pub # NoPub => JobTrue(pub)'
    BY <2>1, <2>2 DEF PicInv, JobTrue, Carried, Missing, In
  <2> QED BY <2>1, <2>3, <2>4, <2>5 DEF PicInv
<1>2. CASE PicNext
  BY <1>2, EditorKeepsPictures, ServerKeepsPictures, PressKeepsPictures, CopyKeepsPictures,
     CopiesDoneKeepsPictures, WriteKeepsPictures, MissingKeepsPictures DEF PicNext
<1> QED BY <1>1, <1>2

(* The pictures of a published post: every one it shows from the repo is    *)
(* held and listed up to the cap, its card is of its title, and what was    *)
(* left out or where it was is told (inlineImagesForBody, rehostBodyImages, *)
(* withoutInlineImage): for any number of pictures, caps and budgets.       *)
THEOREM PicturesLastHolds == PicSpec => []PicturesLast
<1>1. PicInv => PicturesLast
  BY DEF PicInv
<1> QED BY PicInitInv, PicNextInv, <1>1, PTL DEF PicSpec

(* Bodies, uploads, publishes and the repo's blobs keep their types.        *)
THEOREM PicTypeHolds == PicSpec => []PicTypeOK
<1>1. PicInv => PicTypeOK
  BY DEF PicInv
<1> QED BY PicInitInv, PicNextInv, <1>1, PTL DEF PicSpec

-----------------------------------------------------------------------------
(* The stats page.                                                          *)

(* What a request has so far is of its own range, whichever cache it came   *)
(* from; what it computed it counted over its own days, or failed to; and a *)
(* section is unavailable only where a call it asks was lost.               *)
InquiryTrue(q) ==
  /\ q.days = Failed => q.lost = Section
  /\ \A s \in Section : q.results[s] # NoSection =>
       LET result == q.results[s] IN
       /\ result.of = s /\ result.in = q.range
       /\ result.status = "unavailable" => s \in q.lost
       /\ result.fresh => q.days # Awaited /\ result.read \in {Failed, q.days}

EdgeTrue ==
  \A s \in Section, range \in StatRange :
    LET stocked == edge[<<s, range>>] IN
    stocked # NoSection =>
      stocked.result.of = s /\ stocked.result.in = range /\ stocked.result.status = "ok"

(* The request the page waits for is under way, and of the range picked.    *)
PageSound ==
  /\ ~page.effect /\ page.awaits # NoRequest =>
       Underway(page.awaits) /\ requests[page.awaits].range = page.picked
  /\ RangeIsPicked

InquiriesTrue == \A r \in Request : Underway(r) => InquiryTrue(requests[r])

StatInv == StatTypeOK /\ InquiriesTrue /\ EdgeTrue /\ PageSound

LEMMA StatInvEnough == StatInv => NumbersAreTheirs
<1> SUFFICES ASSUME StatInv PROVE FailsAlone
  BY DEF StatInv, PageSound, NumbersAreTheirs
<1> SUFFICES ASSUME NEW r \in Request, Underway(r)
             PROVE  LET done == requests[r].results IN
                    /\ \A s \in Section : done[s] # NoSection /\ done[s].status = "unavailable" => s \in requests[r].lost
                    /\ \A s, t \in Section :
                         {done[s], done[t]} \cap {NoSection} = {} =>
                           (done[s].fresh /\ done[t].fresh /\ Failed \notin {done[s].read, done[t].read} =>
                              done[s].read = done[t].read)
  BY DEF FailsAlone
<1>1. InquiryTrue(requests[r])
  BY DEF StatInv, InquiriesTrue
<1> QED BY <1>1 DEF InquiryTrue

LEMMA StatInitInv == StatInit => StatInv
<1> SUFFICES ASSUME StatInit PROVE StatInv
  OBVIOUS
<1>1. Nothing \in [Section -> Result \cup {NoSection}]
  BY DEF Nothing
<1>2. PICK range \in StatRange :
        page = [picked |-> range, effect |-> TRUE, awaits |-> NoRequest,
                state |-> "loading", range |-> range, sections |-> Nothing]
  BY DEF StatInit
<1>3. page \in StatsView /\ page.effect /\ page.state = "loading"
  BY <1>1, <1>2 DEF StatsView
<1>4. StatTypeOK
  BY <1>3, StatsPageAssumption DEF StatInit, StatTypeOK, Moment
<1>5. InquiriesTrue
  BY DEF StatInit, InquiriesTrue, Underway
<1>6. EdgeTrue
  BY DEF StatInit, EdgeTrue
<1>7. PageSound
  BY <1>3 DEF PageSound, RangeIsPicked
<1> QED BY <1>4, <1>5, <1>6, <1>7 DEF StatInv

LEMMA InquiryIs ==
  ASSUME StatInv, NEW r \in Request, Underway(r)
  PROVE  requests[r] \in Inquiry /\ InquiryTrue(requests[r])
BY DEF StatInv, StatTypeOK, Underway, InquiriesTrue

(* A request that goes on, of the range it is of.                           *)
LEMMA RequestGoesOn ==
  ASSUME StatInv, NEW r \in Request, Underway(r), NEW q \in Inquiry, InquiryTrue(q),
         q.range = requests[r].range, requests' = [requests EXCEPT ![r] = q],
         UNCHANGED <<moment, page>>, unread' \in 0..MaxUnread,
         edge' \in [Section \X StatRange -> Kept \cup {NoSection}], EdgeTrue'
  PROVE  StatInv'
<1>1. StatTypeOK'
  BY DEF StatInv, StatTypeOK
<1>2. q # NoRequest /\ q # Over
  BY StatsNullsAssumption
<1>3. requests'[r] = q /\ \A p \in Request : p # r => requests'[p] = requests[p]
  BY DEF StatInv, StatTypeOK
<1>4. InquiriesTrue'
  <2> SUFFICES ASSUME NEW p \in Request, requests'[p] \notin {NoRequest, Over}
               PROVE  InquiryTrue(requests[p])'
    BY DEF InquiriesTrue, Underway
  <2>1. CASE p = r
    BY <2>1, <1>3 DEF InquiryTrue
  <2>2. CASE p # r
    <3>1. requests'[p] = requests[p] /\ Underway(p)
      BY <2>2, <1>3 DEF Underway
    <3>2. InquiryTrue(requests[p])
      BY <3>1 DEF StatInv, InquiriesTrue
    <3> QED BY <3>1, <3>2 DEF InquiryTrue
  <2> QED BY <2>1, <2>2
<1>5. PageSound'
  <2>1. RangeIsPicked'
    BY DEF StatInv, PageSound, RangeIsPicked
  <2>2. ASSUME ~page.effect, page.awaits # NoRequest
        PROVE  requests'[page.awaits] \notin {NoRequest, Over} /\ requests'[page.awaits].range = page.picked
    <3>1. page.awaits \in Request /\ Underway(page.awaits) /\ requests[page.awaits].range = page.picked
      BY <2>2 DEF StatInv, PageSound, StatTypeOK, StatsView
    <3> QED BY <3>1, <1>2, <1>3 DEF Underway
  <2> QED BY <2>1, <2>2 DEF PageSound, Underway
<1> QED BY <1>1, <1>4, <1>5 DEF StatInv

LEMMA FailBounded == StatInv /\ Fail => unread' \in 0..MaxUnread
BY StatsPageAssumption DEF Fail, StatInv, StatTypeOK

LEMMA MatchKeeps ==
  ASSUME StatInv, NEW r \in Request, NEW section \in Section, Match(r, section)
  PROVE  StatInv'
<1>1. Underway(r) /\ requests[r].results[section] = NoSection /\ UNCHANGED <<moment, edge, page, unread>>
  BY DEF Match
<1>2. PICK q : q = requests[r]
  OBVIOUS
<1>3. q \in Inquiry /\ InquiryTrue(q)
  BY <1>1, <1>2, InquiryIs
<1>4. PICK hit \in Kept \cup {NoSection} : hit = edge[<<section, q.range>>]
  BY <1>3 DEF StatInv, StatTypeOK, Inquiry
<1>5. EdgeTrue' /\ edge' \in [Section \X StatRange -> Kept \cup {NoSection}] /\ unread' \in 0..MaxUnread
  BY <1>1 DEF StatInv, StatTypeOK, EdgeTrue
<1>6. CASE hit # NoSection /\ moment < hit.until
  <2>1. hit.result \in Result /\ hit.result.of = section /\ hit.result.in = q.range /\ hit.result.status = "ok"
    BY <1>3, <1>4, <1>6 DEF Kept, StatInv, EdgeTrue, Inquiry
  <2>2. PICK res : res = [hit.result EXCEPT !.fresh = FALSE]
    OBVIOUS
  <2>3. res \in Result /\ res.of = section /\ res.in = q.range /\ res.status = "ok" /\ res.fresh = FALSE
    BY <2>1, <2>2 DEF Result
  <2>4. PICK results : results = [q.results EXCEPT ![section] = res]
    OBVIOUS
  <2>5. results \in [Section -> Result \cup {NoSection}] /\ results[section] = res
        /\ \A s \in Section : s # section => results[s] = q.results[s]
    BY <1>3, <2>3, <2>4 DEF Inquiry
  <2>6. PICK p : p = [q EXCEPT !.results = results]
    OBVIOUS
  <2>7. p \in Inquiry /\ p.results = results /\ p.range = q.range /\ p.days = q.days /\ p.lost = q.lost
    BY <1>3, <2>5, <2>6 DEF Inquiry
  <2>8. requests' = [requests EXCEPT ![r] = p]
    BY <1>2, <1>4, <1>6, <2>2, <2>4, <2>6 DEF Match, StatsCacheKey, Done
  <2>9. InquiryTrue(p)
    BY <1>3, <2>3, <2>5, <2>7 DEF InquiryTrue
  <2> QED BY <1>1, <1>2, <1>5, <2>7, <2>8, <2>9, RequestGoesOn
<1>7. CASE ~(hit # NoSection /\ moment < hit.until)
  <2>1. PICK p : p = [q EXCEPT !.missed = @ \cup {section}]
    OBVIOUS
  <2>2. p \in Inquiry /\ p.results = q.results /\ p.range = q.range /\ p.days = q.days /\ p.lost = q.lost
    BY <1>3, <2>1 DEF Inquiry
  <2>3. requests' = [requests EXCEPT ![r] = p]
    BY <1>2, <1>4, <1>7, <2>1 DEF Match, StatsCacheKey
  <2>4. InquiryTrue(p)
    BY <1>3, <2>2 DEF InquiryTrue
  <2> QED BY <1>1, <1>2, <1>5, <2>2, <2>3, <2>4, RequestGoesOn
<1> QED BY <1>6, <1>7

LEMMA DaysAnswerKeeps ==
  ASSUME StatInv, NEW r \in Request, DaysAnswer(r)
  PROVE  StatInv'
<1>1. Underway(r) /\ UNCHANGED <<moment, edge, page>>
  BY DEF DaysAnswer
<1>2. PICK q : q = requests[r]
  OBVIOUS
<1>3. q \in Inquiry /\ InquiryTrue(q) /\ q.days = Awaited
  BY <1>1, <1>2, InquiryIs DEF DaysAnswer
<1>4. EdgeTrue' /\ edge' \in [Section \X StatRange -> Kept \cup {NoSection}]
  BY <1>1 DEF StatInv, StatTypeOK, EdgeTrue
<1>5. CASE requests' = [requests EXCEPT ![r].days = moment] /\ UNCHANGED unread
  <2>1. PICK p : p = [q EXCEPT !.days = moment]
    OBVIOUS
  <2>2. p \in Inquiry /\ p.results = q.results /\ p.range = q.range /\ p.days = moment /\ p.lost = q.lost
    BY <1>3, <2>1 DEF Inquiry, StatInv, StatTypeOK
  <2>3. requests' = [requests EXCEPT ![r] = p]
    BY <1>2, <1>5, <2>1
  <2>4. moment # Failed /\ unread' \in 0..MaxUnread
    BY <1>5, StatsNullsAssumption DEF StatInv, StatTypeOK
  <2>5. InquiryTrue(p)
    BY <1>3, <2>2, <2>4 DEF InquiryTrue
  <2> QED BY <1>1, <1>2, <1>4, <2>2, <2>3, <2>4, <2>5, RequestGoesOn
<1>6. CASE Fail /\ requests' = [requests EXCEPT ![r].days = Failed, ![r].lost = Section]
  <2>1. PICK p : p = [q EXCEPT !.days = Failed, !.lost = Section]
    OBVIOUS
  <2>2. p \in Inquiry /\ p.results = q.results /\ p.range = q.range /\ p.days = Failed /\ p.lost = Section
    BY <1>3, <2>1 DEF Inquiry
  <2>3. requests' = [requests EXCEPT ![r] = p]
    BY <1>2, <1>6, <2>1
  <2>4. unread' \in 0..MaxUnread
    BY <1>6, FailBounded
  <2>5. InquiryTrue(p)
    BY <1>3, <2>2 DEF InquiryTrue
  <2> QED BY <1>1, <1>2, <1>4, <2>2, <2>3, <2>4, <2>5, RequestGoesOn
<1> QED BY <1>5, <1>6 DEF DaysAnswer

(* A section computed: its result is of its own range and days, and only a  *)
(* healthy one goes to the edge, under its own key.                         *)
LEMMA ResultTaken ==
  ASSUME StatInv, NEW r \in Request, NEW section \in Section, Underway(r), NEW res \in Result,
         NEW amiss \in SUBSET Section,
         requests[r].lost \subseteq amiss, requests[r].days # Awaited, requests[r].days = Failed => amiss = Section,
         res.of = section, res.in = requests[r].range, res.status = "unavailable" => section \in amiss,
         res.read \in {Failed, requests[r].days},
         NEW results, results = [requests[r].results EXCEPT ![section] = res],
         NEW p, p = [requests[r] EXCEPT !.results = results, !.lost = amiss],
         requests' = [requests EXCEPT ![r] = p],
         UNCHANGED <<moment, page>>, unread' \in 0..MaxUnread,
         NEW stocked, stocked = [result |-> res, until |-> moment + KeptFor],
         edge' = IF res.status = "ok" THEN [edge EXCEPT ![<<section, res.in>>] = stocked] ELSE edge
  PROVE  StatInv'
<1>2. PICK q : q = requests[r]
  OBVIOUS
<1>3. q \in Inquiry /\ InquiryTrue(q)
  BY <1>2, InquiryIs
<1>4. results \in [Section -> Result \cup {NoSection}] /\ results[section] = res
      /\ \A s \in Section : s # section => results[s] = q.results[s]
  BY <1>2, <1>3 DEF Inquiry
<1>5. p \in Inquiry /\ p.results = results /\ p.range = q.range /\ p.days = q.days /\ p.lost = amiss
  BY <1>2, <1>3, <1>4 DEF Inquiry
<1>6. InquiryTrue(p)
  BY <1>2, <1>3, <1>4, <1>5 DEF InquiryTrue
<1>7. stocked \in Kept /\ stocked.result = res
  <2>1. moment + KeptFor \in 1..LastMoment + KeptFor
    BY StatsPageAssumption DEF StatInv, StatTypeOK, Moment
  <2> QED BY <2>1 DEF Kept
<1>8. res.in \in StatRange
  BY DEF Result
<1>9. edge' \in [Section \X StatRange -> Kept \cup {NoSection}]
  BY <1>7, <1>8 DEF StatInv, StatTypeOK
<1>10. EdgeTrue'
  <2> SUFFICES ASSUME NEW s \in Section, NEW range \in StatRange, edge'[<<s, range>>] # NoSection
               PROVE  /\ edge'[<<s, range>>].result.of = s /\ edge'[<<s, range>>].result.in = range
                      /\ edge'[<<s, range>>].result.status = "ok"
    BY DEF EdgeTrue
  <2>1. CASE edge'[<<s, range>>] = edge[<<s, range>>]
    BY <2>1 DEF StatInv, EdgeTrue
  <2>2. CASE edge'[<<s, range>>] # edge[<<s, range>>]
    <3>1. res.status = "ok" /\ <<s, range>> = <<section, res.in>> /\ edge'[<<s, range>>] = stocked
      BY <2>2, <1>8 DEF StatInv, StatTypeOK
    <3> QED BY <3>1, <1>7
  <2> QED BY <2>1, <2>2
<1> QED BY <1>2, <1>5, <1>6, <1>9, <1>10, RequestGoesOn

LEMMA ComputeKeeps ==
  ASSUME StatInv, NEW r \in Request, NEW section \in Section, Compute(r, section)
  PROVE  StatInv'
<1>1. Underway(r) /\ requests[r].days # Awaited /\ UNCHANGED <<moment, page>>
  BY DEF Compute
<1>2. PICK q : q = requests[r]
  OBVIOUS
<1>3. q \in Inquiry /\ InquiryTrue(q)
  BY <1>1, <1>2, InquiryIs
<1>4. q.days = Failed => q.lost = Section
  BY <1>3 DEF InquiryTrue
<1>5. PICK lacking : lacking = [of |-> section, in |-> q.range, status |-> "unavailable", read |-> Failed, fresh |-> TRUE]
  OBVIOUS
<1>6. lacking \in Result /\ lacking.of = section /\ lacking.in = q.range /\ lacking.status = "unavailable" /\ lacking.read = Failed
  BY <1>3, <1>5 DEF Result, Inquiry
<1>7. CASE q.days # Failed /\ \E status \in {"ok", "thin"} :
             LET res == [of |-> section, in |-> q.range, status |-> status, read |-> q.days, fresh |-> TRUE] IN
             /\ requests' = [requests EXCEPT ![r].results[section] = res]
             /\ edge' = IF res.status = "ok"
                        THEN [edge EXCEPT ![<<section, q.range>>] = [result |-> res, until |-> moment + KeptFor]]
                        ELSE edge
             /\ UNCHANGED unread
  <2>0. PICK status \in {"ok", "thin"} :
             LET res == [of |-> section, in |-> q.range, status |-> status, read |-> q.days, fresh |-> TRUE] IN
             /\ requests' = [requests EXCEPT ![r].results[section] = res]
             /\ edge' = IF res.status = "ok"
                        THEN [edge EXCEPT ![<<section, q.range>>] = [result |-> res, until |-> moment + KeptFor]]
                        ELSE edge
             /\ UNCHANGED unread
    BY <1>7
  <2>1. PICK res :
             /\ res = [of |-> section, in |-> q.range, status |-> status, read |-> q.days, fresh |-> TRUE]
             /\ requests' = [requests EXCEPT ![r].results[section] = res]
             /\ edge' = IF res.status = "ok"
                        THEN [edge EXCEPT ![<<section, q.range>>] = [result |-> res, until |-> moment + KeptFor]]
                        ELSE edge
             /\ UNCHANGED unread
    BY <2>0
  <2>2. q.days \in Moment /\ unread' \in 0..MaxUnread
    BY <1>1, <1>2, <1>3, <1>7, <2>1 DEF Inquiry, StatInv, StatTypeOK
  <2>3. res \in Result /\ res.of = section /\ res.in = q.range /\ res.status # "unavailable" /\ res.read = q.days
    BY <1>3, <2>1, <2>2 DEF Result, Inquiry
  <2>4. PICK results : results = [q.results EXCEPT ![section] = res]
    OBVIOUS
  <2>5. PICK amiss : amiss = q.lost /\ amiss \in SUBSET Section
    BY <1>3 DEF Inquiry
  <2>6. PICK p : p = [q EXCEPT !.results = results, !.lost = amiss]
    OBVIOUS
  <2>7. p = [q EXCEPT !.results = results]
    BY <1>3, <2>5, <2>6 DEF Inquiry
  <2>8. requests' = [requests EXCEPT ![r] = p]
    BY <1>2, <2>1, <2>4, <2>7
  <2>9. PICK stocked : stocked = [result |-> res, until |-> moment + KeptFor]
    OBVIOUS
  <2>10. edge' = IF res.status = "ok" THEN [edge EXCEPT ![<<section, res.in>>] = stocked] ELSE edge
    BY <2>1, <2>3, <2>9
  <2>11. results = [requests[r].results EXCEPT ![section] = res] /\ p = [requests[r] EXCEPT !.results = results, !.lost = amiss]
    BY <1>2, <2>4, <2>6
  <2>12. /\ requests[r].lost \subseteq amiss /\ (requests[r].days = Failed => amiss = Section)
         /\ res.in = requests[r].range /\ res.read \in {Failed, requests[r].days}
    BY <1>2, <1>7, <2>3, <2>5
  <2> QED BY <1>1, <2>2, <2>3, <2>5, <2>8, <2>9, <2>10, <2>11, <2>12, ResultTaken
<1>8. CASE /\ q.days = Failed /\ requests' = [requests EXCEPT ![r].results[section] = lacking]
           /\ edge' = edge /\ UNCHANGED unread
  <2>1. unread' \in 0..MaxUnread
    BY <1>8 DEF StatInv, StatTypeOK
  <2>2. PICK results : results = [q.results EXCEPT ![section] = lacking]
    OBVIOUS
  <2>3. PICK amiss : amiss = q.lost /\ amiss \in SUBSET Section
    BY <1>3 DEF Inquiry
  <2>4. PICK p : p = [q EXCEPT !.results = results, !.lost = amiss]
    OBVIOUS
  <2>5. p = [q EXCEPT !.results = results]
    BY <1>3, <2>3, <2>4 DEF Inquiry
  <2>6. requests' = [requests EXCEPT ![r] = p]
    BY <1>2, <1>8, <2>2, <2>5
  <2>7. PICK stocked : stocked = [result |-> lacking, until |-> moment + KeptFor]
    OBVIOUS
  <2>8. edge' = IF lacking.status = "ok" THEN [edge EXCEPT ![<<section, lacking.in>>] = stocked] ELSE edge
    BY <1>6, <1>8
  <2>9. results = [requests[r].results EXCEPT ![section] = lacking] /\ p = [requests[r] EXCEPT !.results = results, !.lost = amiss]
    BY <1>2, <2>2, <2>4
  <2>10. /\ requests[r].lost \subseteq amiss /\ (requests[r].days = Failed => amiss = Section)
         /\ lacking.in = requests[r].range /\ lacking.read \in {Failed, requests[r].days} /\ section \in amiss
    BY <1>2, <1>4, <1>6, <1>8, <2>3
  <2> QED BY <1>1, <1>6, <2>1, <2>3, <2>6, <2>7, <2>8, <2>9, <2>10, ResultTaken
<1>9. CASE /\ Fail /\ edge' = edge
           /\ requests' = [requests EXCEPT ![r].results[section] = lacking, ![r].lost = @ \cup {section}]
  <2>1. unread' \in 0..MaxUnread
    BY <1>9, FailBounded
  <2>2. PICK results : results = [q.results EXCEPT ![section] = lacking]
    OBVIOUS
  <2>11. q.lost \subseteq Section
    BY <1>3 DEF Inquiry
  <2>3. PICK amiss \in SUBSET Section : amiss = q.lost \cup {section}
    BY <2>11
  <2>4. PICK p : p = [q EXCEPT !.results = results, !.lost = amiss]
    OBVIOUS
  <2>6. requests' = [requests EXCEPT ![r] = p]
    BY <1>2, <1>9, <2>2, <2>3, <2>4
  <2>7. PICK stocked : stocked = [result |-> lacking, until |-> moment + KeptFor]
    OBVIOUS
  <2>8. edge' = IF lacking.status = "ok" THEN [edge EXCEPT ![<<section, lacking.in>>] = stocked] ELSE edge
    BY <1>6, <1>9
  <2>9. results = [requests[r].results EXCEPT ![section] = lacking] /\ p = [requests[r] EXCEPT !.results = results, !.lost = amiss]
    BY <1>2, <2>2, <2>4
  <2>10. /\ requests[r].lost \subseteq amiss /\ (requests[r].days = Failed => amiss = Section)
         /\ lacking.in = requests[r].range /\ lacking.read \in {Failed, requests[r].days} /\ section \in amiss
    BY <1>2, <1>3, <1>4, <1>6, <2>3 DEF Inquiry
  <2> QED BY <1>1, <1>6, <2>1, <2>3, <2>6, <2>7, <2>8, <2>9, <2>10, ResultTaken
<1>10. lacking.status = "unavailable"
  BY <1>6
<1> QED BY <1>2, <1>5, <1>7, <1>8, <1>9, <1>10 DEF Compute, Done, Keepable, StatsCacheKey, DaysOf

(* A request that ends, answered or lost.                                   *)
LEMMA RequestEnds ==
  ASSUME StatInv, NEW r \in Request, requests' = [requests EXCEPT ![r] = Over],
         UNCHANGED <<moment, edge>>, unread' \in 0..MaxUnread,
         page' \in StatsView, RangeIsPicked',
         page' = page \/ page'.awaits = NoRequest,
         page' = page => page.awaits # r
  PROVE  StatInv'
<1>1. requests'[r] = Over /\ \A p \in Request : p # r => requests'[p] = requests[p]
  BY DEF StatInv, StatTypeOK
<1>2. StatTypeOK'
  BY DEF StatInv, StatTypeOK
<1>3. InquiriesTrue'
  <2> SUFFICES ASSUME NEW p \in Request, requests'[p] \notin {NoRequest, Over}
               PROVE  InquiryTrue(requests[p])'
    BY DEF InquiriesTrue, Underway
  <2>1. requests'[p] = requests[p] /\ Underway(p)
    BY <1>1 DEF Underway
  <2>2. InquiryTrue(requests[p])
    BY <2>1 DEF StatInv, InquiriesTrue
  <2> QED BY <2>1, <2>2 DEF InquiryTrue
<1>4. EdgeTrue'
  BY DEF StatInv, EdgeTrue
<1>5. ASSUME ~page'.effect, page'.awaits # NoRequest
      PROVE  requests'[page'.awaits] \notin {NoRequest, Over} /\ requests'[page'.awaits].range = page'.picked
  <2>1. page' = page /\ page.awaits \in Request /\ page.awaits # r
    BY <1>5 DEF StatInv, StatTypeOK, StatsView
  <2> QED BY <1>1, <1>5, <2>1 DEF StatInv, PageSound, Underway
<1> QED BY <1>2, <1>3, <1>4, <1>5 DEF StatInv, PageSound, Underway

LEMMA RespondKeeps ==
  ASSUME StatInv, NEW r \in Request, Respond(r)
  PROVE  StatInv'
<1>1. Underway(r) /\ requests' = [requests EXCEPT ![r] = Over] /\ UNCHANGED <<moment, edge, unread>>
  BY DEF Respond
<1>2. PICK q : q = requests[r]
  OBVIOUS
<1>3. q \in Inquiry /\ InquiryTrue(q) /\ \A s \in Section : q.results[s] # NoSection
  BY <1>1, <1>2, InquiryIs DEF Respond
<1>4. unread' \in 0..MaxUnread /\ page \in StatsView
  BY <1>1 DEF StatInv, StatTypeOK
<1>5. CASE page.awaits = r
  <2>1. page' = [page EXCEPT !.awaits = NoRequest, !.state = "ready", !.range = q.range, !.sections = q.results]
    BY <1>2, <1>5 DEF Respond, Counts
  <2>2. /\ page' \in StatsView /\ page'.awaits = NoRequest /\ page'.range = q.range /\ page'.sections = q.results
        /\ page'.effect = page.effect /\ page'.picked = page.picked
    BY <1>3, <1>4, <2>1 DEF StatsView, Inquiry
  <2>3. ~page.effect => q.range = page.picked
    BY <1>2, <1>5, StatsNullsAssumption DEF StatInv, PageSound
  <2>4. \A s \in Section : q.results[s].in = q.range /\ q.results[s].of = s
    BY <1>3 DEF InquiryTrue
  <2>5. RangeIsPicked'
    BY <2>2, <2>3, <2>4 DEF RangeIsPicked
  <2>6. page' # page
    BY <1>5, <2>2, StatsNullsAssumption
  <2> QED BY <1>1, <1>4, <2>2, <2>5, <2>6, RequestEnds
<1>6. CASE page.awaits # r
  <2>1. page' = page
    BY <1>6 DEF Respond, Counts
  <2>2. RangeIsPicked'
    BY <2>1 DEF StatInv, PageSound, RangeIsPicked
  <2> QED BY <1>1, <1>4, <1>6, <2>1, <2>2, RequestEnds
<1> QED BY <1>5, <1>6

LEMMA LostKeeps ==
  ASSUME StatInv, NEW r \in Request, Lost(r)
  PROVE  StatInv'
<1>1. requests' = [requests EXCEPT ![r] = Over] /\ UNCHANGED <<moment, edge>> /\ unread' \in 0..MaxUnread
  BY FailBounded DEF Lost
<1>2. page \in StatsView
  BY DEF StatInv, StatTypeOK
<1>3. CASE page.awaits = r
  <2>1. page' = [page EXCEPT !.awaits = NoRequest, !.state = "failed"]
    BY <1>3 DEF Lost, Counts
  <2>2. page' \in StatsView /\ page'.awaits = NoRequest /\ page'.state = "failed"
    BY <1>2, <2>1 DEF StatsView
  <2>3. RangeIsPicked'
    BY <2>2 DEF RangeIsPicked
  <2>4. page' # page
    BY <1>3, <2>2, StatsNullsAssumption
  <2> QED BY <1>1, <2>2, <2>3, <2>4, RequestEnds
<1>4. CASE page.awaits # r
  <2>1. page' = page
    BY <1>4 DEF Lost, Counts
  <2>2. RangeIsPicked'
    BY <2>1 DEF StatInv, PageSound, RangeIsPicked
  <2> QED BY <1>1, <1>2, <1>4, <2>1, <2>2, RequestEnds
<1> QED BY <1>3, <1>4

LEMMA EffectKeeps ==
  ASSUME StatInv, NEW r \in Request, Effect(r)
  PROVE  StatInv'
<1>1. UNCHANGED <<moment, edge, unread>> /\ page \in StatsView /\ requests[r] = NoRequest
  BY DEF Effect, StatInv, StatTypeOK
<1>2. Nothing \in [Section -> Result \cup {NoSection}] /\ \A s \in Section : Nothing[s] = NoSection
  BY DEF Nothing
<1>3. PICK v : v = [page EXCEPT !.effect = FALSE, !.awaits = r, !.state = "loading", !.sections = Nothing]
  OBVIOUS
<1>4. v \in StatsView /\ v.awaits = r /\ v.state = "loading" /\ v.picked = page.picked
  BY <1>1, <1>2, <1>3 DEF StatsView
<1>5. PICK q : q = [range |-> page.picked, days |-> Awaited, missed |-> {}, results |-> Nothing, lost |-> {}]
  OBVIOUS
<1>6. q \in Inquiry /\ q.range = page.picked /\ q.days = Awaited /\ q.results = Nothing
  BY <1>1, <1>2, <1>5 DEF Inquiry, StatsView
<1>7. page' = v /\ requests' = [requests EXCEPT ![r] = q]
  BY <1>3, <1>5 DEF Effect
<1>8. requests'[r] = q /\ \A p \in Request : p # r => requests'[p] = requests[p]
  BY <1>7 DEF StatInv, StatTypeOK
<1>9. StatTypeOK'
  BY <1>1, <1>4, <1>6, <1>7 DEF StatInv, StatTypeOK
<1>10. InquiriesTrue'
  <2> SUFFICES ASSUME NEW p \in Request, requests'[p] \notin {NoRequest, Over}
               PROVE  InquiryTrue(requests[p])'
    BY DEF InquiriesTrue, Underway
  <2>1. CASE p = r
    BY <1>2, <1>6, <1>8, <2>1, StatsNullsAssumption DEF InquiryTrue
  <2>2. CASE p # r
    <3>1. requests'[p] = requests[p] /\ Underway(p)
      BY <1>8, <2>2 DEF Underway
    <3>2. InquiryTrue(requests[p])
      BY <3>1 DEF StatInv, InquiriesTrue
    <3> QED BY <3>1, <3>2 DEF InquiryTrue
  <2> QED BY <2>1, <2>2
<1>11. EdgeTrue'
  BY <1>1 DEF StatInv, EdgeTrue
<1>12. PageSound'
  <2>1. RangeIsPicked'
    BY <1>4, <1>7 DEF RangeIsPicked
  <2>2. requests'[r] \notin {NoRequest, Over} /\ requests'[r].range = v.picked
    BY <1>4, <1>6, <1>8, StatsNullsAssumption
  <2> QED BY <1>4, <1>7, <2>1, <2>2 DEF PageSound, Underway
<1> QED BY <1>9, <1>10, <1>11, <1>12 DEF StatInv

(* The writer and the clock.                                                *)
LEMMA VisitKeeps ==
  ASSUME StatInv, Pass \/ Reload \/ \E range \in StatRange : Pick(range)
  PROVE  StatInv'
<1>1. UNCHANGED <<edge, requests, unread>> /\ page \in StatsView
  BY DEF Pass, Reload, Pick, StatInv, StatTypeOK
<1>2. InquiriesTrue'
  BY <1>1 DEF StatInv, InquiriesTrue, InquiryTrue, Underway
<1>3. EdgeTrue'
  BY <1>1 DEF StatInv, EdgeTrue
<1>4. CASE Pass
  <2>1. moment' \in Moment /\ UNCHANGED page
    BY <1>4, StatsPageAssumption DEF Pass, StatInv, StatTypeOK, Moment
  <2> QED BY <1>1, <1>2, <1>3, <2>1 DEF StatInv, StatTypeOK, PageSound, RangeIsPicked, Underway
<1>5. CASE Reload
  <2>1. Nothing \in [Section -> Result \cup {NoSection}]
    BY DEF Nothing
  <2>2. page' = [page EXCEPT !.effect = TRUE, !.awaits = NoRequest, !.state = "loading", !.sections = Nothing]
        /\ UNCHANGED moment
    BY <1>5 DEF Reload
  <2>3. page' \in StatsView /\ page'.effect /\ page'.state = "loading"
    BY <1>1, <2>1, <2>2 DEF StatsView
  <2> QED BY <1>1, <1>2, <1>3, <2>2, <2>3 DEF StatInv, StatTypeOK, PageSound, RangeIsPicked
<1>6. CASE \E range \in StatRange : Pick(range)
  <2>1. PICK range \in StatRange : Pick(range)
    BY <1>6
  <2>2. page' = [page EXCEPT !.picked = range, !.effect = TRUE] /\ UNCHANGED moment
    BY <2>1 DEF Pick
  <2>3. page' \in StatsView /\ page'.effect /\ page'.state = page.state /\ page'.range = page.range /\ page'.sections = page.sections
    BY <1>1, <2>2 DEF StatsView
  <2>4. RangeIsPicked'
    BY <2>3 DEF StatInv, PageSound, RangeIsPicked
  <2> QED BY <1>1, <1>2, <1>3, <2>2, <2>3, <2>4 DEF StatInv, StatTypeOK, PageSound
<1> QED BY <1>4, <1>5, <1>6

LEMMA StatNextInv == StatInv /\ [StatNext]_statVars => StatInv'
<1> SUFFICES ASSUME StatInv, [StatNext]_statVars PROVE StatInv'
  OBVIOUS
<1>1. CASE UNCHANGED statVars
  BY <1>1 DEF statVars, StatInv, StatTypeOK, InquiriesTrue, InquiryTrue, EdgeTrue, PageSound, RangeIsPicked, Underway
<1>2. CASE StatNext
  BY <1>2, VisitKeeps, EffectKeeps, DaysAnswerKeeps, RespondKeeps, LostKeeps, MatchKeeps, ComputeKeeps DEF StatNext
<1> QED BY <1>1, <1>2

(* Numbers are of the range whose name stands over them, and one call's     *)
(* failure takes no other section and no later request (useStatsMetrics,    *)
(* the section cache of api.stats): for any ranges, requests under way at   *)
(* once, and times.                                                         *)
THEOREM NumbersAreTheirsHolds == StatSpec => []NumbersAreTheirs
<1> QED BY StatInitInv, StatNextInv, StatInvEnough, PTL DEF StatSpec

-----------------------------------------------------------------------------
(* The dashboard.                                                           *)

LEMMA PieceBounds ==
  /\ IsFiniteSet(Piece) /\ Cardinality(Piece) = LastPiece
  /\ \A S \in SUBSET Piece : IsFiniteSet(S) /\ Cardinality(S) \in Nat /\ Cardinality(S) <= LastPiece
<1>1. IsFiniteSet(Piece) /\ Cardinality(Piece) = LastPiece
  BY ManagerAssumption, FS_Interval DEF Piece
<1>2. ASSUME NEW S \in SUBSET Piece
      PROVE  IsFiniteSet(S) /\ Cardinality(S) \in Nat /\ Cardinality(S) <= LastPiece
  BY <1>1, FS_Subset, FS_CardinalityType
<1> QED BY <1>1, <1>2


(* Pieces go out one after another, once each, and their keys say in which  *)
(* order.                                                                   *)
Ranked == {p \in Piece : works[p].rank # 0}
RanksTrue ==
  /\ \A p \in Piece : /\ works[p].at = "out" => works[p].rank # 0
                      /\ works[p].at \in {"none", "draft", "queued", "failed"} => works[p].rank = 0
                      /\ works[p].rank <= Cardinality(Ranked)
  /\ \A p, q \in Piece : works[p].rank = works[q].rank /\ works[p].rank # 0 => p = q

(* Where a piece is, as the lists of a page have it.                        *)
PieceListed(p, lists, cursor) ==
  LET at == works[p].at IN
  /\ lists.drafts # Unread => (at \in {"draft", "queued", "failed"} <=> p \in lists.drafts)
  /\ lists.queue # Unread => /\ at = "queued" <=> p \in lists.queue.pending
                             /\ at = "failed" <=> p \in lists.queue.failed
  /\ lists.repo # Unread =>
       /\ p \in lists.repo.rows => at = "out"
       /\ at = "out" /\ p \notin lists.repo.rows =>
            \/ cursor # 0 /\ works[p].rank >= cursor
            \/ lists.repo.next # 0 /\ works[p].rank < lists.repo.next
ListsTrue(lists, cursor) ==
  /\ lists.repo # Unread /\ lists.repo.next # 0 => lists.repo.rows # {}
  /\ \A p \in Piece \ stirred : PieceListed(p, lists, cursor)

(* An outcome is of a piece that went out, and says what was heard of its   *)
(* announcement.                                                            *)
HeardOf(news, told) == news.announced \/ told = "already announced"
Rightly(news, told) ==
  news.published # 0 =>
    /\ works[news.published].rank # 0
    /\ news.published \in known => HeardOf(news, told)

(* An outcome that is yet to be read: ahead, or behind the page.            *)
Coming(p) ==
  \/ load # NoScreen /\ load.url.outcome.published = p
  \/ screen # NoScreen /\ ~screen.landing /\ screen.url.outcome.published = p
Behind(p) == behind # NoUrl /\ behind.outcome.published = p
EventsTrue ==
  \A p \in Piece : /\ captured[p] <= IF works[p].rank # 0 THEN 1 ELSE 0
                   /\ Coming(p) \/ Behind(p) => captured[p] = 0
                   /\ ~(Coming(p) /\ Behind(p))

LoadTrue ==
  load # NoScreen =>
    /\ screen = NoScreen /\ load.kept \in OneShot
    /\ ListsTrue(load.lists, load.url.cursor)
    /\ load.url.outcome # NoOneShot => load.consumed = NoOneShot
    /\ Rightly(load.url.outcome, load.url.told) /\ Rightly(load.kept, load.url.told)

ScreenTrue ==
  screen # NoScreen =>
    /\ ListsTrue(screen.lists, screen.url.cursor)
    /\ \A p \in Piece \ stirred : p \in screen.gone => works[p].card = "gone"
    /\ IF screen.landing THEN screen.consumed = screen.url.outcome
       ELSE screen.url.outcome # NoOneShot => screen.consumed = NoOneShot
    /\ Rightly(screen.url.outcome, screen.url.told) /\ Rightly(screen.kept, screen.url.told)

ManInv ==
  /\ ManTypeOK /\ RanksTrue /\ EventsTrue /\ LoadTrue /\ ScreenTrue
  /\ behind # NoUrl => Rightly(behind.outcome, behind.told)
  /\ \A p \in known : works[p].rank # 0


LEMMA WorkFacts ==
  ASSUME ManTypeOK
  PROVE  /\ LastPiece \in Nat /\ ListedAPage \in Nat \ {0} /\ ~(0 \in Piece)
         /\ \A p \in Piece : /\ works[p] \in Work /\ works[p].rank \in 0..LastPiece
                             /\ works[p].rank \in Nat /\ p \in 0..LastPiece
<1>1. LastPiece \in Nat /\ ListedAPage \in Nat \ {0}
  BY ManagerAssumption
<1>2. \A p \in Piece : works[p] \in Work /\ works[p].rank \in 0..LastPiece
  BY DEF ManTypeOK, Work
<1> QED BY <1>1, <1>2 DEF Piece

(* A page of records: what is out and not on it is older than its oldest,   *)
(* and there is a next page; or it was no older than the cursor.            *)
LEMMA ListingTrue ==
  ASSUME ManTypeOK, RanksTrue, NEW cursor \in 0..LastPiece, NEW list, list = Listing(cursor)
  PROVE  /\ list \in RepoList
         /\ list.next # 0 => list.rows # {}
         /\ \A p \in Piece :
              /\ p \in list.rows => works[p].at = "out"
              /\ works[p].at = "out" /\ p \notin list.rows =>
                   \/ cursor # 0 /\ works[p].rank >= cursor
                   \/ list.next # 0 /\ works[p].rank < list.next
<1>1. PICK r : r = [p \in Piece |-> works[p].rank]
  OBVIOUS
<1>2. r \in [Piece -> 0..LastPiece] /\ \A p \in Piece : r[p] = works[p].rank
  BY <1>1, WorkFacts
<1>3. PICK beyond : beyond = {p \in Out : cursor = 0 \/ works[p].rank < cursor}
  OBVIOUS
<1>4. beyond \in SUBSET Piece /\ \A p \in beyond : works[p].at = "out" /\ r[p] # 0
  BY <1>2, <1>3 DEF Out, RanksTrue
<1>5. PICK rows : rows = {p \in beyond : Cardinality({q \in beyond : works[q].rank > works[p].rank}) < ListedAPage}
  OBVIOUS
<1>6. rows = Uppermost(r, beyond, ListedAPage)
  <2>1. ASSUME NEW p \in beyond PROVE {q \in beyond : works[q].rank > works[p].rank} = {q \in beyond : r[q] > r[p]}
    BY <1>2, <1>4
  <2> QED BY <1>5, <2>1 DEF Uppermost
<1>7. rows \in SUBSET beyond /\ rows \in SUBSET Piece
  BY <1>4, <1>5
<1>8. \A p, q \in beyond : r[p] = r[q] => p = q
  BY <1>2, <1>4 DEF RanksTrue
<1>9. ListedAPage \in Nat \ {0}
  BY WorkFacts
<1>10. /\ \A p \in beyond \ rows, q \in rows : r[p] < r[q]
       /\ Cardinality(rows) = ListedAPage \/ rows = beyond
  BY <1>2, <1>4, <1>6, <1>8, <1>9, TopRanked, PieceBounds, WorkFacts
<1>11. list = [rows |-> rows, noted |-> {p \in rows : works[p].card # "none"},
               next |-> IF Cardinality(rows) = ListedAPage
                        THEN works[CHOOSE p \in rows : \A q \in rows : works[p].rank <= works[q].rank].rank
                        ELSE 0]
  BY <1>3, <1>5 DEF Listing
<1>12. PICK next : next = list.next
  OBVIOUS
<1>13. Cardinality({}) = 0
  BY FS_EmptySet
<1>16. /\ list.rows = rows
       /\ list = [rows |-> rows, noted |-> {p \in rows : works[p].card # "none"}, next |-> next]
  BY <1>11, <1>12
<1>14. CASE Cardinality(rows) = ListedAPage
  <2>1. rows # {}
    BY <1>9, <1>13, <1>14
  <2>2. r \in [Piece -> Nat]
    BY <1>2
  <2>3. \E p \in rows : \A q \in rows : r[p] <= r[q]
    BY <1>7, <2>1, <2>2, LowestRank
  <2>4. \E p \in rows : \A q \in rows : works[p].rank <= works[q].rank
    BY <1>2, <1>7, <2>3
  <2>5. PICK m \in rows : m = CHOOSE p \in rows : \A q \in rows : works[p].rank <= works[q].rank
    BY <2>4
  <2>6. next = works[m].rank
    <3>1. list.next = works[CHOOSE p \in rows : \A q \in rows : works[p].rank <= works[q].rank].rank
      BY <1>11, <1>14
    <3> QED BY <1>12, <1>16, <2>5, <3>1
  <2>7. next = r[m] /\ m \in Piece /\ next \in 0..LastPiece /\ next # 0
    BY <1>2, <1>4, <1>7, <2>6
  <2>8. list \in RepoList
    BY <1>7, <1>12, <1>16, <2>7 DEF RepoList
  <2>9. ASSUME NEW p \in Piece, works[p].at = "out", p \notin rows
        PROVE  (cursor # 0 /\ works[p].rank >= cursor) \/ works[p].rank < next
    <3>1. CASE p \in beyond
      BY <1>2, <1>10, <2>7, <3>1, <2>9
    <3>2. CASE p \notin beyond
      <4>1. cursor # 0 /\ ~(works[p].rank < cursor)
        BY <1>3, <2>9, <3>2 DEF Out
      <4>2. works[p].rank \in Nat /\ cursor \in Nat
        BY WorkFacts
      <4> QED BY <4>1, <4>2
    <3> QED BY <3>1, <3>2
  <2> QED BY <1>4, <1>7, <1>12, <1>16, <2>1, <2>7, <2>8, <2>9
<1>15. CASE Cardinality(rows) # ListedAPage
  <2>1. rows = beyond /\ next = 0
    BY <1>10, <1>11, <1>12, <1>16, <1>15
  <2>2. list \in RepoList
    <3>1. 0 \in 0..LastPiece
      BY WorkFacts
    <3> QED BY <1>7, <1>12, <1>16, <2>1, <3>1 DEF RepoList
  <2>3. ASSUME NEW p \in Piece, works[p].at = "out", p \notin rows
        PROVE  cursor # 0 /\ works[p].rank >= cursor
    <3>1. cursor # 0 /\ ~(works[p].rank < cursor)
      BY <1>3, <2>1, <2>3 DEF Out
    <3>2. works[p].rank \in Nat /\ cursor \in Nat
      BY WorkFacts
    <3> QED BY <3>1, <3>2
  <2> QED BY <1>4, <1>7, <1>12, <1>16, <2>1, <2>2, <2>3
<1> QED BY <1>14, <1>15


(* A piece that keeps its key, or has none yet.                             *)
LEMMA RanksStand ==
  ASSUME ManTypeOK, RanksTrue, NEW p \in Piece, NEW work \in Work,
         works' = [works EXCEPT ![p] = work], work.rank = works[p].rank,
         work.at = "out" => work.rank # 0,
         work.at \in {"none", "draft", "queued", "failed"} => work.rank = 0
  PROVE  /\ works' \in [Piece -> Work] /\ RanksTrue'
         /\ \A q \in Piece : works'[q].rank = works[q].rank
<1>1. works' \in [Piece -> Work]
  BY DEF ManTypeOK
<1>2. \A q \in Piece : works'[q] = IF q = p THEN work ELSE works[q]
  BY DEF ManTypeOK
<1>3. \A q \in Piece : works'[q].rank = works[q].rank
  BY <1>2
<1>4. Ranked' = Ranked
  BY <1>3 DEF Ranked
<1>5. \A q \in Piece : /\ works'[q].at = "out" => works'[q].rank # 0
                       /\ works'[q].at \in {"none", "draft", "queued", "failed"} => works'[q].rank = 0
                       /\ works'[q].rank <= Cardinality(Ranked')
  BY <1>2, <1>3, <1>4 DEF RanksTrue
<1>6. \A q, s \in Piece : works'[q].rank = works'[s].rank /\ works'[q].rank # 0 => q = s
  BY <1>3 DEF RanksTrue
<1> QED BY <1>1, <1>3, <1>5, <1>6 DEF RanksTrue

(* A piece that goes out, with a key after all others.                      *)
LEMMA NextRankTrue ==
  ASSUME ManTypeOK, RanksTrue, NEW p \in Piece, works[p].rank = 0
  PROVE  /\ NextRank \in 1..LastPiece /\ NextRank <= Cardinality(Ranked) + 1
         /\ \A q \in Piece : works[q].rank < NextRank
<1>1. PICK r : r = [q \in Piece |-> works[q].rank]
  OBVIOUS
<1>2. r \in [Piece -> 0..LastPiece] /\ \A q \in Piece : r[q] = works[q].rank
  BY <1>1, WorkFacts
<1>3. PICK top \in Piece : \A q \in Piece : r[q] <= r[top]
  BY HighestRank, <1>2, WorkFacts
<1>4. PICK ranks : ranks = {works[q].rank : q \in Piece}
  OBVIOUS
<1>5. works[top].rank \in ranks /\ \A n \in ranks : n <= works[top].rank
  BY <1>2, <1>3, <1>4
<1>6. PICK max \in ranks : max = Max(ranks) /\ \A n \in ranks : n <= max
  <2>1. works[top].rank \in Nat /\ \A n \in ranks : n \in Nat
    BY <1>4, WorkFacts
  <2>2. \E x \in ranks : \A y \in ranks : x >= y
    BY <1>5, <2>1
  <2>3. PICK max \in ranks : max = Max(ranks) /\ \A y \in ranks : max >= y
    BY <2>2 DEF Max
  <2> QED BY <2>1, <2>3
<1>7. PICK m \in Piece : max = works[m].rank
  BY <1>4
<1>8. max \in Nat /\ max <= Cardinality(Ranked)
  BY <1>7, WorkFacts DEF RanksTrue
<1>9. Ranked \in SUBSET Piece /\ p \notin Ranked
  BY DEF Ranked
<1>10. Cardinality(Ranked) + 1 <= LastPiece /\ Cardinality(Ranked) \in Nat
  <2>1. IsFiniteSet(Ranked) /\ Ranked \cup {p} \in SUBSET Piece /\ Cardinality(Ranked) \in Nat
    BY <1>9, PieceBounds
  <2>2. Cardinality(Ranked \cup {p}) = Cardinality(Ranked) + 1
    BY <1>9, <2>1, FS_AddElement
  <2>3. Cardinality(Ranked \cup {p}) <= LastPiece
    BY <2>1, PieceBounds
  <2> QED BY <2>1, <2>2, <2>3
<1>11. NextRank = max + 1
  BY <1>4, <1>6 DEF NextRank
<1>12. \A q \in Piece : works[q].rank \in Nat /\ works[q].rank <= max
  BY <1>4, <1>6, WorkFacts
<1> QED BY <1>8, <1>10, <1>11, <1>12, WorkFacts

LEMMA RanksGrow ==
  ASSUME ManTypeOK, RanksTrue, NEW p \in Piece, works[p].rank = 0, NEW card \in {"none", "up", "gone"},
         NEW work, work = GoesOut(p, card), works' = [works EXCEPT ![p] = work]
  PROVE  /\ work \in Work /\ works' \in [Piece -> Work] /\ RanksTrue' /\ works'[p].rank # 0
         /\ \A q \in Piece : works[q].rank # 0 => works'[q].rank # 0
<1>1. PICK next : next = NextRank
  OBVIOUS
<1>2. /\ next \in 1..LastPiece /\ next <= Cardinality(Ranked) + 1 /\ next \in Nat /\ next # 0
      /\ \A q \in Piece : works[q].rank < next
  BY <1>1, NextRankTrue, WorkFacts
<1>3. work = [at |-> "out", card |-> card, rank |-> next]
  BY <1>1 DEF GoesOut
<1>4. work \in Work /\ work.at = "out" /\ work.rank = next
  BY <1>2, <1>3, WorkFacts DEF Work
<1>5. works' \in [Piece -> Work]
  BY <1>4 DEF ManTypeOK
<1>6. \A q \in Piece : works'[q] = IF q = p THEN work ELSE works[q]
  BY DEF ManTypeOK
<1>7. \A q \in Piece : works'[q].rank = IF q = p THEN next ELSE works[q].rank
  BY <1>4, <1>6
<1>8. Ranked' = Ranked \cup {p} /\ p \notin Ranked /\ Ranked \in SUBSET Piece
  BY <1>2, <1>7 DEF Ranked
<1>9. Cardinality(Ranked') = Cardinality(Ranked) + 1 /\ Cardinality(Ranked) \in Nat
  BY <1>8, PieceBounds, FS_AddElement
<1>10. ASSUME NEW q \in Piece
       PROVE  /\ works'[q].at = "out" => works'[q].rank # 0
              /\ works'[q].at \in {"none", "draft", "queued", "failed"} => works'[q].rank = 0
              /\ works'[q].rank <= Cardinality(Ranked')
  <2>1. CASE q = p
    BY <1>2, <1>4, <1>6, <1>9, <2>1
  <2>2. CASE q # p
    <3>1. works'[q] = works[q] /\ works[q].rank <= Cardinality(Ranked) /\ works[q].rank \in Nat
      BY <1>6, <2>2, WorkFacts DEF RanksTrue
    <3> QED BY <1>9, <3>1 DEF RanksTrue
  <2> QED BY <2>1, <2>2
<1>11. \A q, s \in Piece : works'[q].rank = works'[s].rank /\ works'[q].rank # 0 => q = s
  <2>1. \A q \in Piece : works[q].rank \in Nat /\ works[q].rank # next
    BY <1>2, WorkFacts
  <2> QED BY <1>7, <2>1 DEF RanksTrue
<1>12. RanksTrue'
  BY <1>10, <1>11 DEF RanksTrue
<1> QED BY <1>2, <1>4, <1>5, <1>7, <1>12


NullsApart ==
  /\ NoScreen \notin Load /\ NoScreen \notin Screen /\ NoUrl \notin Link
  /\ Unread \notin RepoList /\ Unread \notin Queue /\ Unread \notin SUBSET Piece

LEMMA ManNulls == NullsApart
BY ManagerNullsAssumption DEF NullsApart

LEMMA OneShotFacts ==
  /\ NoOneShot \in OneShot /\ NoOneShot.published = 0
  /\ FirstPage \in Link /\ FirstPage.outcome = NoOneShot /\ FirstPage.cursor = 0
  /\ \A o \in OneShot : o.published \in 0..LastPiece
                        /\ (o.published # 0 => o.published \in Piece /\ o # NoOneShot)
<1>1. LastPiece \in Nat /\ 0 \in 0..LastPiece
  BY ManagerAssumption
<1>2. NoOneShot \in OneShot /\ NoOneShot.published = 0
  BY <1>1 DEF NoOneShot, OneShot
<1>3. FirstPage \in Link /\ FirstPage.outcome = NoOneShot /\ FirstPage.cursor = 0
  BY <1>1, <1>2 DEF FirstPage, Link
<1>4. ASSUME NEW o \in OneShot
      PROVE  o.published \in 0..LastPiece /\ (o.published # 0 => o.published \in Piece /\ o # NoOneShot)
  BY <1>1, <1>2 DEF OneShot, Piece
<1> QED BY <1>2, <1>3, <1>4

(* A page begins to load: nothing is read yet, so all that matters is which *)
(* outcomes it and the one behind it bring.                                 *)
LEMMA BeginKeeps ==
  ASSUME ManInv, NEW url \in Link, NEW kept \in OneShot, NEW consumed \in OneShot,
         Begins(url, kept, consumed), UNCHANGED <<captured, elsewhere, flaked>>, SendForm,
         works' \in [Piece -> Work], RanksTrue',
         known' \subseteq Piece, \A q \in known' : works'[q].rank # 0,
         behind' \in Link \cup {NoUrl}, behind' # NoUrl => Rightly(behind.outcome, behind.told)',
         Rightly(url.outcome, url.told)', Rightly(kept, url.told)',
         url.outcome # NoOneShot => consumed = NoOneShot,
         \A q \in Piece : /\ works[q].rank # 0 => works'[q].rank # 0
                          /\ url.outcome.published = q \/ Behind(q)' => captured[q] = 0
                          /\ ~(url.outcome.published = q /\ Behind(q)')
  PROVE  ManInv'
<1>1. /\ load' = [url |-> url, waits |-> {"repo", "drafts", "queue"}, lists |-> NothingRead,
                  kept |-> kept, consumed |-> consumed]
      /\ screen' = NoScreen /\ stirred' = {}
  BY DEF Begins
<1>2. PICK l : l = load'
  OBVIOUS
<1>3. /\ l.url = url /\ l.waits = {"repo", "drafts", "queue"} /\ l.lists = NothingRead
      /\ l.kept = kept /\ l.consumed = consumed
  BY <1>1, <1>2
<1>4. NothingRead \in Lists /\ NothingRead.repo = Unread /\ NothingRead.drafts = Unread /\ NothingRead.queue = Unread
  BY DEF NothingRead, Lists
<1>5. l \in Load
  BY <1>1, <1>2, <1>4 DEF Load
<1>6. l # NoScreen
  BY <1>5, ManNulls DEF NullsApart
<1>7. posts' \in 0..MaxPosts
  BY ManagerAssumption DEF SendForm, ManInv, ManTypeOK
<1>8. ManTypeOK'
  BY <1>1, <1>2, <1>5, <1>7 DEF ManInv, ManTypeOK
<1>9. \A q \in Piece : Coming(q)' => url.outcome.published = q
  BY <1>1, <1>2, <1>3 DEF Coming
<1>10. \A q \in Piece : captured[q] <= IF works'[q].rank # 0 THEN 1 ELSE 0
  <2>1. \A q \in Piece : captured[q] <= (IF works[q].rank # 0 THEN 1 ELSE 0) /\ captured[q] \in Nat
    BY DEF ManInv, EventsTrue, ManTypeOK
  <2> QED BY <2>1
<1>11. EventsTrue'
  BY <1>9, <1>10 DEF EventsTrue
<1>12. ListsTrue(l.lists, l.url.cursor)'
  BY <1>3, <1>4 DEF ListsTrue, PieceListed
<1>13. LoadTrue'
  BY <1>1, <1>2, <1>3, <1>12 DEF LoadTrue
<1>14. ScreenTrue'
  BY <1>1 DEF ScreenTrue
<1> QED BY <1>8, <1>11, <1>13, <1>14 DEF ManInv

(* What an outcome says is still so when no key is taken back, and no piece *)
(* it is of becomes known.                                                  *)
LEMMA RightlyStands ==
  ASSUME NEW news \in OneShot, NEW told, Rightly(news, told),
         \A q \in Piece : works[q].rank # 0 => works'[q].rank # 0,
         news.published \in known' => news.published \in known
  PROVE  Rightly(news, told)'
BY OneShotFacts DEF Rightly

(* A form is posted from a page whose URL may still hold an outcome: that   *)
(* is behind the answer then, whose own is of another piece.                *)
LEMMA DepartKeeps ==
  ASSUME ManInv, screen # NoScreen, ~screen.landing, NEW url \in Link, Depart(url), SendForm,
         UNCHANGED <<captured, elsewhere, flaked>>,
         works' \in [Piece -> Work], RanksTrue', known' \subseteq Piece,
         \A q \in Piece : works[q].rank # 0 => works'[q].rank # 0,
         known' \subseteq known \cup {url.outcome.published},
         url.outcome.published # 0 =>
           /\ works[url.outcome.published].rank = 0 /\ works'[url.outcome.published].rank # 0
           /\ url.outcome.published \in known' => HeardOf(url.outcome, url.told)
  PROVE  ManInv'
<1>0. 0 \notin Piece
  BY WorkFacts DEF ManInv
<1>1. PICK s \in Screen : s = screen
  BY DEF ManInv, ManTypeOK
<1>2. /\ s.url \in Link /\ s.url.outcome \in OneShot /\ s.kept \in OneShot /\ url.outcome \in OneShot
      /\ Rightly(s.url.outcome, s.url.told) /\ Rightly(s.kept, s.url.told) /\ ~s.landing
  <2>1. s.url \in Link /\ s.kept \in OneShot
    BY DEF Screen
  <2>2. s.url.outcome \in OneShot /\ url.outcome \in OneShot
    BY <2>1 DEF Link
  <2>3. Rightly(s.url.outcome, s.url.told) /\ Rightly(s.kept, s.url.told)
    BY <1>1 DEF ManInv, ScreenTrue
  <2> QED BY <1>1, <2>1, <2>2, <2>3
<1>3. Begins(url, url.outcome, NoOneShot) /\ behind' = s.url
  BY <1>1 DEF Depart, Visit
<1>4. PICK p : p = url.outcome.published
  OBVIOUS
<1>5. p # 0 => p \in Piece /\ works[p].rank = 0 /\ works'[p].rank # 0
  BY <1>2, <1>4, OneShotFacts
<1>6. p # 0 => s.url.outcome.published # p /\ ~Behind(p) /\ ~Coming(p) /\ captured[p] = 0
  <2>1. SUFFICES ASSUME p # 0 PROVE s.url.outcome.published # p /\ captured[p] = 0
    BY <1>1, <1>2, <1>5 DEF ManInv, Behind, Coming, Rightly, LoadTrue
  <2>2. s.url.outcome.published # p
    BY <1>2, <1>5, <2>1 DEF Rightly
  <2>3. captured[p] \in Nat /\ captured[p] <= 0
    BY <1>5, <2>1 DEF ManInv, EventsTrue, ManTypeOK
  <2>4. captured[p] = 0
    BY <2>3
  <2> QED BY <2>2, <2>4
<1>7. \A q \in known' : works'[q].rank # 0
  <2>1. ASSUME NEW q \in known' PROVE works'[q].rank # 0
    <3>1. q \in Piece /\ (q \in known \/ q = p)
      BY <1>4
    <3>2. q # 0
      BY <1>0, <3>1
    <3> QED BY <1>5, <3>1, <3>2 DEF ManInv
  <2> QED BY <2>1
<1>8. \A o \in OneShot : (o.published # 0 => o.published # p) => (o.published \in known' => o.published \in known)
  <2>1. 0 \notin known'
    BY <1>0
  <2> QED BY <1>4, <2>1
<1>9. Rightly(s.url.outcome, s.url.told)'
  <2>1. s.url.outcome.published \in known' => s.url.outcome.published \in known
    BY <1>2, <1>6, <1>8
  <2> QED BY <1>2, <2>1, RightlyStands
<1>10. behind' \in Link \cup {NoUrl} /\ (behind' # NoUrl => Rightly(behind.outcome, behind.told)')
  BY <1>2, <1>3, <1>9
<1>11. Rightly(url.outcome, url.told)'
  BY <1>4, <1>5 DEF Rightly
<1>12. \A q \in Piece : Behind(q)' => s.url.outcome.published = q /\ Coming(q)
  BY <1>1, <1>2, <1>3 DEF Behind, Coming
<1>13. ASSUME NEW q \in Piece
       PROVE  /\ url.outcome.published = q \/ Behind(q)' => captured[q] = 0
              /\ ~(url.outcome.published = q /\ Behind(q)')
  <2>1. q # 0
    BY <1>0
  <2>2. Behind(q)' => captured[q] = 0
    BY <1>12 DEF ManInv, EventsTrue
  <2> QED BY <1>4, <1>6, <1>12, <2>1, <2>2
<1> QED BY <1>2, <1>3, <1>7, <1>10, <1>11, <1>13, BeginKeeps, OneShotFacts DEF ManInv


PressedOn == /\ screen # NoScreen /\ ~screen.landing /\ SendForm
            /\ UNCHANGED <<captured, elsewhere, flaked>>

LEMMA RefuseKeeps ==
  ASSUME ManInv, PressedOn, NEW url \in Link, url.outcome.published = 0, Refuse(url)
  PROVE  ManInv'
<1>1. UNCHANGED <<works, known>> /\ Depart(url)
  BY DEF Refuse
<1>2. works' \in [Piece -> Work] /\ RanksTrue' /\ known' \subseteq Piece
  BY <1>1 DEF ManInv, ManTypeOK, RanksTrue, Ranked
<1>3. \A q \in Piece : works[q].rank # 0 => works'[q].rank # 0
  BY <1>1
<1> QED BY <1>1, <1>2, <1>3, DepartKeeps DEF PressedOn

LEMMA TouchKeeps ==
  ASSUME ManInv, PressedOn, NEW p \in Piece, NEW work \in Work, NEW url \in Link,
         url.outcome.published = 0, Fulfil(p, work, url), work.rank = works[p].rank,
         work.at = "out" => work.rank # 0,
         work.at \in {"none", "draft", "queued", "failed"} => work.rank = 0
  PROVE  ManInv'
<1>1. works' = [works EXCEPT ![p] = work] /\ Depart(url)
  BY DEF Fulfil
<1>2. known' = known
  <2>1. url.outcome.published # p
    BY WorkFacts DEF ManInv
  <2> QED BY <2>1 DEF Fulfil
<1>3. works' \in [Piece -> Work] /\ RanksTrue' /\ \A q \in Piece : works'[q].rank = works[q].rank
  BY <1>1, RanksStand DEF ManInv
<1>4. known' \subseteq Piece
  BY <1>2 DEF ManInv, ManTypeOK
<1> QED BY <1>1, <1>2, <1>3, <1>4, DepartKeeps DEF PressedOn

LEMMA OutKeeps ==
  ASSUME ManInv, PressedOn, NEW p \in Piece, NEW card \in {"none", "up", "gone"}, NEW url \in Link,
         url.outcome.published = p, works[p].rank = 0,
         NEW work, work = GoesOut(p, card), Fulfil(p, work, url)
  PROVE  ManInv'
<1>1. works' = [works EXCEPT ![p] = work] /\ Depart(url)
  BY DEF Fulfil
<1>2. /\ works' \in [Piece -> Work] /\ RanksTrue' /\ works'[p].rank # 0
      /\ \A q \in Piece : works[q].rank # 0 => works'[q].rank # 0
  BY <1>1, RanksGrow DEF ManInv
<1>3. known \subseteq Piece /\ p \notin known
  BY DEF ManInv, ManTypeOK
<1>4. known' = IF HeardOf(url.outcome, url.told) THEN known \cup {p} ELSE known
  BY DEF Fulfil, HeardOf
<1>5. known' \subseteq Piece /\ known' \subseteq known \cup {url.outcome.published}
  BY <1>3, <1>4
<1>6. p \in known' => HeardOf(url.outcome, url.told)
  BY <1>3, <1>4
<1> QED BY <1>1, <1>2, <1>5, <1>6, DepartKeeps DEF PressedOn

LEMMA TellsFacts ==
  \A told \in {"none", "deleted", "cancelled", "already announced", "refused"},
     pane \in {"published", "drafts", "scheduled"} :
    Tells(told, pane) \in Link /\ Tells(told, pane).outcome.published = 0
<1>1. FirstPage \in Link /\ FirstPage.outcome.published = 0
  BY OneShotFacts
<1> QED BY <1>1 DEF Tells, Link

LEMMA AnswerFacts ==
  ASSUME NEW p \in Piece, NEW out, out = [FirstPage EXCEPT !.outcome.published = p]
  PROVE  /\ out \in Link /\ out.outcome.published = p
         /\ [out EXCEPT !.outcome.announced = TRUE] \in Link
         /\ [out EXCEPT !.outcome.announced = TRUE].outcome.published = p
         /\ \A told \in {"already announced", "refused"} :
              [out EXCEPT !.told = told] \in Link /\ [out EXCEPT !.told = told].outcome.published = p
<1>1. FirstPage \in Link /\ FirstPage.outcome = NoOneShot /\ NoOneShot \in OneShot
  BY OneShotFacts
<1>2. PICK o : o = [NoOneShot EXCEPT !.published = p]
  OBVIOUS
<1>3. p \in 0..LastPiece
  BY ManagerAssumption DEF Piece
<1>4. o \in OneShot /\ o.published = p
  BY <1>1, <1>2, <1>3 DEF OneShot
<1>5. out = [FirstPage EXCEPT !.outcome = o]
  BY <1>1, <1>2
<1>6. out \in Link /\ out.outcome = o
  BY <1>1, <1>4, <1>5 DEF Link
<1>7. PICK a : a = [o EXCEPT !.announced = TRUE]
  OBVIOUS
<1>8. a \in OneShot /\ a.published = p
  BY <1>4, <1>7 DEF OneShot
<1>9. [out EXCEPT !.outcome.announced = TRUE] = [out EXCEPT !.outcome = a]
  BY <1>6, <1>7
<1>10. [out EXCEPT !.outcome = a] \in Link /\ [out EXCEPT !.outcome = a].outcome = a
  BY <1>6, <1>8 DEF Link
<1>11. \A told \in {"already announced", "refused"} :
         [out EXCEPT !.told = told] \in Link /\ [out EXCEPT !.told = told].outcome = o
  BY <1>6 DEF Link
<1> QED BY <1>4, <1>6, <1>8, <1>9, <1>10, <1>11

LEMMA PublishedKeeps ==
  ASSUME ManInv, PressedOn, NEW p \in Piece, works[p].rank = 0, Published(p)
  PROVE  ManInv'
<1>1. PICK out : out = [FirstPage EXCEPT !.outcome.published = p]
  OBVIOUS
<1>2. PICK card \in {"none", "up", "gone"} : card = works[p].card
  BY WorkFacts DEF ManInv, Work
<1>3. /\ out \in Link /\ out.outcome.published = p
      /\ \A told \in {"already announced", "refused"} :
           [out EXCEPT !.told = told] \in Link /\ [out EXCEPT !.told = told].outcome.published = p
  BY <1>1, AnswerFacts
<1>4. PICK loud : loud = [out EXCEPT !.outcome.announced = TRUE]
  OBVIOUS
<1>5. loud \in Link /\ loud.outcome.published = p
  BY <1>1, <1>4, AnswerFacts
<1>6. PICK again : again = [out EXCEPT !.told = "already announced"]
  OBVIOUS
<1>7. PICK refused : refused = [out EXCEPT !.told = "refused"]
  OBVIOUS
<1>8. again \in Link /\ again.outcome.published = p /\ refused \in Link /\ refused.outcome.published = p
  BY <1>3, <1>6, <1>7
<1>9. \/ Fulfil(p, GoesOut(p, card), out) \/ Fulfil(p, GoesOut(p, "up"), loud)
      \/ Fulfil(p, GoesOut(p, card), again) \/ Fulfil(p, GoesOut(p, "none"), refused)
  BY <1>1, <1>2, <1>4, <1>6, <1>7, Zenon DEF Published
<1>10. PICK kept, up, none : kept = GoesOut(p, card) /\ up = GoesOut(p, "up") /\ none = GoesOut(p, "none")
  OBVIOUS
<1>11. CASE Fulfil(p, kept, out)
  BY <1>3, <1>10, <1>11, OutKeeps
<1>12. CASE Fulfil(p, up, loud)
  BY <1>5, <1>10, <1>12, OutKeeps
<1>13. CASE Fulfil(p, kept, again)
  BY <1>8, <1>10, <1>13, OutKeeps
<1>14. CASE Fulfil(p, none, refused)
  BY <1>8, <1>10, <1>14, OutKeeps
<1> QED BY <1>9, <1>10, <1>11, <1>12, <1>13, <1>14


LEMMA RowFormKeeps ==
  ASSUME ManInv, PressedOn, NEW p \in Piece,
         Announce(p) \/ DeletePost(p) \/ PublishNow(p) \/ CancelQueued(p) \/ Edited(p)
  PROVE  ManInv'
<1>0. PICK w \in Work : w = works[p]
  BY WorkFacts DEF ManInv
<1>1. /\ w.at = "out" => w.rank # 0
      /\ w.at \in {"none", "draft", "queued", "failed"} => w.rank = 0
  BY <1>0 DEF ManInv, RanksTrue
<1>2. \A told \in {"deleted", "cancelled", "refused"}, pane \in {"published", "drafts", "scheduled"} :
        Tells(told, pane) \in Link /\ Tells(told, pane).outcome.published = 0
  BY TellsFacts
<1>3. ASSUME NEW told \in {"deleted", "cancelled", "refused"}, NEW pane \in {"published", "drafts", "scheduled"},
             Refuse(Tells(told, pane))
      PROVE  ManInv'
  <2>1. PICK url \in Link : url = Tells(told, pane) /\ url.outcome.published = 0
    BY <1>2
  <2> QED BY <1>3, <2>1, RefuseKeeps
<1>4. FirstPage \in Link /\ FirstPage.outcome = NoOneShot /\ NoOneShot \in OneShot /\ NoOneShot.published = 0
  BY OneShotFacts
<1>5. ASSUME Announce(p) PROVE ManInv'
  <2>1. CASE w.at = "out"
    <3>1. PICK work : work = [w EXCEPT !.card = "up"]
      OBVIOUS
    <3>2. work \in Work /\ work.at = w.at /\ work.rank = w.rank
      BY <3>1 DEF Work
    <3>3. PICK o : o = [NoOneShot EXCEPT !.announced = TRUE]
      OBVIOUS
    <3>4. o \in OneShot /\ o.published = 0
      BY <1>4, <3>3 DEF OneShot
    <3>5. PICK url : url = [FirstPage EXCEPT !.outcome.announced = TRUE]
      OBVIOUS
    <3>6. url = [FirstPage EXCEPT !.outcome = o]
      BY <1>4, <3>3, <3>5
    <3>7. url \in Link /\ url.outcome.published = 0
      BY <1>4, <3>4, <3>6 DEF Link
    <3>8. Fulfil(p, work, url)
      BY <1>0, <1>5, <2>1, <3>1, <3>5 DEF Announce
    <3> QED BY <1>0, <1>1, <3>2, <3>7, <3>8, TouchKeeps
  <2>2. CASE w.at # "out"
    BY <1>0, <1>3, <1>5, <2>2 DEF Announce
  <2> QED BY <2>1, <2>2
<1>6. ASSUME DeletePost(p) PROVE ManInv'
  <2>1. PICK work : work = IF w.at = "out" THEN [w EXCEPT !.at = "removed"] ELSE w
    OBVIOUS
  <2>2. work \in Work /\ work.rank = w.rank /\ work.at = IF w.at = "out" THEN "removed" ELSE w.at
    BY <2>1 DEF Work
  <2>3. PICK url \in Link : url = Tells("deleted", "published") /\ url.outcome.published = 0
    BY <1>2
  <2>4. Fulfil(p, work, url)
    BY <1>0, <1>6, <2>1, <2>3 DEF DeletePost
  <2> QED BY <1>0, <1>1, <2>2, <2>3, <2>4, TouchKeeps
<1>7. ASSUME PublishNow(p) PROVE ManInv'
  <2>1. CASE w.at \in {"draft", "queued", "failed"}
    BY <1>0, <1>1, <1>7, <2>1, PublishedKeeps DEF PublishNow
  <2>2. CASE w.at \notin {"draft", "queued", "failed"}
    BY <1>0, <1>3, <1>7, <2>2 DEF PublishNow
  <2> QED BY <2>1, <2>2
<1>8. ASSUME CancelQueued(p) PROVE ManInv'
  <2>1. CASE w.at \in {"queued", "failed"}
    <3>1. PICK work : work = [w EXCEPT !.at = "draft"]
      OBVIOUS
    <3>2. work \in Work /\ work.rank = w.rank /\ work.at = "draft"
      BY <3>1 DEF Work
    <3>3. PICK url \in Link : url = Tells("cancelled", "scheduled") /\ url.outcome.published = 0
      BY <1>2
    <3>4. Fulfil(p, work, url)
      BY <1>0, <1>8, <2>1, <3>1, <3>3 DEF CancelQueued
    <3> QED BY <1>0, <1>1, <2>1, <3>2, <3>3, <3>4, TouchKeeps
  <2>2. CASE w.at \notin {"queued", "failed"}
    BY <1>0, <1>3, <1>8, <2>2 DEF CancelQueued
  <2> QED BY <2>1, <2>2
<1>9. ASSUME Edited(p) PROVE ManInv'
  <2>1. CASE w.at = "draft"
    <3>1. PICK work : work = [w EXCEPT !.at = "queued"]
      OBVIOUS
    <3>2. work \in Work /\ work.rank = w.rank /\ work.at = "queued"
      BY <3>1 DEF Work
    <3>3. PICK o : o = [NoOneShot EXCEPT !.scheduled = TRUE]
      OBVIOUS
    <3>4. o \in OneShot /\ o.published = 0
      BY <1>4, <3>3 DEF OneShot
    <3>5. PICK url : url = [FirstPage EXCEPT !.outcome.scheduled = TRUE, !.tab = "scheduled"]
      OBVIOUS
    <3>6. url = [FirstPage EXCEPT !.outcome = o, !.tab = "scheduled"]
      BY <1>4, <3>3, <3>5
    <3>7. url \in Link /\ url.outcome.published = 0
      BY <1>4, <3>4, <3>6 DEF Link
    <3>8. Published(p) \/ Fulfil(p, work, url)
      BY <1>0, <1>9, <2>1, <3>1, <3>5 DEF Edited
    <3>9. CASE Published(p)
      BY <1>0, <1>1, <2>1, <3>9, PublishedKeeps
    <3>10. CASE Fulfil(p, work, url)
      BY <1>0, <1>1, <2>1, <3>2, <3>7, <3>10, TouchKeeps
    <3> QED BY <3>8, <3>9, <3>10
  <2>2. CASE w.at # "draft"
    BY <1>0, <1>3, <1>9, <2>2 DEF Edited
  <2> QED BY <2>1, <2>2
<1> QED BY <1>5, <1>6, <1>7, <1>8, <1>9

LEMMA BehindStands ==
  ASSUME ManInv, UNCHANGED behind, \A q \in Piece : works[q].rank # 0 => works'[q].rank # 0,
         known' \subseteq known
  PROVE  behind' \in Link \cup {NoUrl} /\ (behind' # NoUrl => Rightly(behind.outcome, behind.told)')
<1>1. SUFFICES ASSUME behind # NoUrl PROVE Rightly(behind.outcome, behind.told)'
  BY DEF ManInv, ManTypeOK
<1>2. PICK b \in Link : b = behind
  BY <1>1 DEF ManInv, ManTypeOK
<1>3. b.outcome \in OneShot /\ Rightly(b.outcome, b.told)
  BY <1>1, <1>2 DEF Link, ManInv
<1>4. Rightly(b.outcome, b.told)'
  BY <1>3, RightlyStands
<1> QED BY <1>2, <1>4

(* Deleting a draft reloads the page as it stands.                          *)
LEMMA DeleteDraftRowKeeps ==
  ASSUME ManInv, PressedOn, NEW p \in Piece, DeleteDraftRow(p)
  PROVE  ManInv'
<1>1. PICK w \in Work : w = works[p]
  BY WorkFacts DEF ManInv
<1>2. PICK work : work = IF w.at \in {"draft", "queued", "failed"} THEN [w EXCEPT !.at = "removed"] ELSE w
  OBVIOUS
<1>3. /\ work \in Work /\ work.rank = w.rank
      /\ work.at = IF w.at \in {"draft", "queued", "failed"} THEN "removed" ELSE w.at
  BY <1>2 DEF Work
<1>4. works' = [works EXCEPT ![p] = work] /\ UNCHANGED <<behind, known>>
  <2>1. works' = IF w.at \in {"draft", "queued", "failed"} THEN [works EXCEPT ![p].at = "removed"] ELSE works
    BY <1>1 DEF DeleteDraftRow
  <2>2. works = [works EXCEPT ![p] = w]
    BY <1>1 DEF ManInv, ManTypeOK
  <2>3. [works EXCEPT ![p].at = "removed"] = [works EXCEPT ![p] = [w EXCEPT !.at = "removed"]]
    BY <1>1
  <2>4. UNCHANGED <<behind, known>>
    BY DEF DeleteDraftRow
  <2> QED BY <1>2, <2>1, <2>2, <2>3, <2>4
<1>5. /\ w.at = "out" => w.rank # 0
      /\ w.at \in {"none", "draft", "queued", "failed"} => w.rank = 0
  BY <1>1 DEF ManInv, RanksTrue
<1>6. /\ work.at = "out" => work.rank # 0
      /\ work.at \in {"none", "draft", "queued", "failed"} => work.rank = 0
  BY <1>3, <1>5
<1>7. works' \in [Piece -> Work] /\ RanksTrue' /\ \A q \in Piece : works'[q].rank = works[q].rank
  BY <1>1, <1>3, <1>4, <1>6, RanksStand DEF ManInv
<1>8. PICK s \in Screen : s = screen
  BY DEF ManInv, ManTypeOK, PressedOn
<1>9. PICK url \in Link, kept \in OneShot, consumed \in OneShot :
        url = s.url /\ kept = s.kept /\ consumed = s.consumed
  BY DEF Screen
<1>10. url.outcome \in OneShot
  BY DEF Link
<1>11. /\ Begins(url, kept, consumed) /\ UNCHANGED <<captured, elsewhere, flaked>> /\ SendForm
       /\ ~s.landing /\ screen # NoScreen
  BY <1>8, <1>9 DEF DeleteDraftRow, PressedOn
<1>12. /\ Rightly(url.outcome, url.told) /\ Rightly(kept, url.told)
       /\ url.outcome # NoOneShot => consumed = NoOneShot
  BY <1>8, <1>9, <1>11 DEF ManInv, ScreenTrue
<1>13. Rightly(url.outcome, url.told)' /\ Rightly(kept, url.told)'
  BY <1>4, <1>7, <1>10, <1>12, RightlyStands
<1>14. known' \subseteq Piece /\ \A q \in known' : works'[q].rank # 0
  BY <1>4, <1>7 DEF ManInv, ManTypeOK
<1>15. behind' \in Link \cup {NoUrl} /\ (behind' # NoUrl => Rightly(behind.outcome, behind.told)')
  BY <1>4, <1>7, BehindStands
<1>16. ASSUME NEW q \in Piece
       PROVE  /\ url.outcome.published = q \/ Behind(q)' => captured[q] = 0
              /\ ~(url.outcome.published = q /\ Behind(q)')
  <2>1. Behind(q)' <=> Behind(q)
    BY <1>4 DEF Behind
  <2>2. url.outcome.published = q => Coming(q)
    BY <1>8, <1>9, <1>11 DEF Coming
  <2> QED BY <2>1, <2>2 DEF ManInv, EventsTrue
<1> QED BY <1>7, <1>11, <1>12, <1>13, <1>14, <1>15, <1>16, BeginKeeps

LEMMA PressRowKeeps == ASSUME ManInv, NEW p \in Piece, PressRow(p) PROVE ManInv'
<1>1. PressedOn
  BY DEF PressRow, PressedOn
<1>2. \/ Announce(p) \/ DeletePost(p) \/ PublishNow(p) \/ CancelQueued(p) \/ Edited(p)
      \/ DeleteDraftRow(p)
  BY DEF PressRow, OnPublishedRow, OnQueueRow, OnDraftRow
<1> QED BY <1>1, <1>2, RowFormKeeps, DeleteDraftRowKeeps


LEMMA OpenPageKeeps == ASSUME ManInv, OpenPage PROVE ManInv'
<1>1. load = NoScreen /\ SendForm /\ UNCHANGED <<works, captured, known, elsewhere, flaked>>
  BY DEF OpenPage
<1>2. /\ works' \in [Piece -> Work] /\ RanksTrue' /\ known' \subseteq Piece
      /\ \A q \in known' : works'[q].rank # 0
      /\ \A q \in Piece : works[q].rank # 0 => works'[q].rank # 0
  BY <1>1 DEF ManInv, ManTypeOK, RanksTrue, Ranked
<1>3. FirstPage \in Link /\ FirstPage.outcome = NoOneShot /\ NoOneShot \in OneShot /\ NoOneShot.published = 0
  BY OneShotFacts
<1>4. 0 \notin Piece
  BY WorkFacts DEF ManInv
<1>5. ASSUME NEW url \in Link, Rightly(url.outcome, url.told),
             \A q \in Piece : url.outcome.published = q => captured[q] = 0 /\ ~Behind(q)',
             \A q \in Piece : Behind(q)' => captured[q] = 0,
             behind' \in Link \cup {NoUrl}, behind' # NoUrl => Rightly(behind.outcome, behind.told)',
             Visit(url)
      PROVE  ManInv'
  <2>1. url.outcome \in OneShot
    BY DEF Link
  <2>2. Rightly(url.outcome, url.told)'
    BY <1>1, <1>5, <2>1 DEF Rightly
  <2>3. Begins(url, url.outcome, NoOneShot)
    BY <1>5 DEF Visit
  <2> QED BY <1>1, <1>2, <1>3, <1>5, <2>1, <2>2, <2>3, BeginKeeps
<1>6. UNCHANGED behind => behind' \in Link \cup {NoUrl} /\ (behind' # NoUrl => Rightly(behind.outcome, behind.told)')
  BY <1>1, <1>2, BehindStands
<1>7. UNCHANGED behind => \A q \in Piece : (Behind(q)' <=> Behind(q)) /\ (Behind(q) => captured[q] = 0)
  BY DEF Behind, ManInv, EventsTrue
<1>8. CASE screen = NoScreen /\ Visit(FirstPage) /\ UNCHANGED behind
  <2>1. Rightly(FirstPage.outcome, FirstPage.told)
    BY <1>3 DEF Rightly
  <2>2. \A q \in Piece : FirstPage.outcome.published # q
    BY <1>3, <1>4
  <2> QED BY <1>3, <1>5, <1>6, <1>7, <1>8, <2>1, <2>2
<1>9. ASSUME screen # NoScreen, ~screen.landing
      PROVE  \E s \in Screen : /\ s = screen /\ s.url \in Link /\ s.url.outcome \in OneShot
                               /\ s.kept \in OneShot /\ s.consumed \in OneShot /\ s.lists \in Lists
                               /\ Rightly(s.url.outcome, s.url.told) /\ Rightly(s.kept, s.url.told)
                               /\ s.url.outcome # NoOneShot => s.consumed = NoOneShot
                               /\ \A q \in Piece : s.url.outcome.published = q => Coming(q)
  <2>1. PICK s \in Screen : s = screen
    BY <1>9 DEF ManInv, ManTypeOK
  <2>2. s.url \in Link /\ s.kept \in OneShot /\ s.consumed \in OneShot /\ s.lists \in Lists
    BY DEF Screen
  <2>3. s.url.outcome \in OneShot
    BY <2>2 DEF Link
  <2>4. /\ Rightly(s.url.outcome, s.url.told) /\ Rightly(s.kept, s.url.told)
        /\ s.url.outcome # NoOneShot => s.consumed = NoOneShot
    BY <1>9, <2>1 DEF ManInv, ScreenTrue
  <2>5. \A q \in Piece : s.url.outcome.published = q => Coming(q)
    BY <1>9, <2>1 DEF Coming
  <2> QED BY <2>1, <2>2, <2>3, <2>4, <2>5
<1>10. CASE screen # NoScreen /\ ~screen.landing /\ Visit(screen.url) /\ UNCHANGED behind
  <2>1. PICK s \in Screen : /\ s = screen /\ s.url \in Link /\ Rightly(s.url.outcome, s.url.told)
                            /\ \A q \in Piece : s.url.outcome.published = q => Coming(q)
    BY <1>9, <1>10
  <2>2. \A q \in Piece : s.url.outcome.published = q => captured[q] = 0 /\ ~Behind(q)
    BY <2>1 DEF ManInv, EventsTrue
  <2> QED BY <1>5, <1>6, <1>7, <1>10, <2>1, <2>2
<1>11. CASE behind # NoUrl /\ Visit(behind) /\ behind' = NoUrl
  <2>1. PICK b \in Link : b = behind
    BY <1>11 DEF ManInv, ManTypeOK
  <2>2. Rightly(b.outcome, b.told) /\ \A q \in Piece : b.outcome.published = q => captured[q] = 0
    BY <1>11, <2>1 DEF ManInv, EventsTrue, Behind
  <2>3. \A q \in Piece : ~Behind(q)'
    BY <1>11 DEF Behind
  <2> QED BY <1>5, <1>11, <2>1, <2>2, <2>3
<1>12. CASE /\ screen # NoScreen /\ ~screen.landing
            /\ screen.lists.repo # Unread /\ screen.lists.repo.next # 0 /\ ~Unconsumed(screen)
            /\ Begins([screen.url EXCEPT !.cursor = screen.lists.repo.next], screen.kept,
                      screen.consumed)
            /\ behind' = screen.url
  <2>1. PICK s \in Screen : /\ s = screen /\ s.url \in Link /\ s.url.outcome \in OneShot
                            /\ s.kept \in OneShot /\ s.consumed \in OneShot /\ s.lists \in Lists
                            /\ Rightly(s.url.outcome, s.url.told) /\ Rightly(s.kept, s.url.told)
                            /\ s.url.outcome # NoOneShot => s.consumed = NoOneShot
    BY <1>9, <1>12
  <2>2. s.lists.repo \in RepoList /\ s.lists.repo.next \in 0..LastPiece
    BY <1>12, <2>1 DEF Lists, RepoList
  <2>3. s.url.outcome = NoOneShot
    BY <1>12, <2>1 DEF Unconsumed
  <2>4. PICK url : url = [s.url EXCEPT !.cursor = s.lists.repo.next]
    OBVIOUS
  <2>5. url \in Link /\ url.outcome = s.url.outcome /\ url.told = s.url.told
    BY <2>1, <2>2, <2>4 DEF Link
  <2>6. PICK kept \in OneShot, consumed \in OneShot : kept = s.kept /\ consumed = s.consumed
    BY <2>1
  <2>7. Begins(url, kept, consumed) /\ behind' = s.url
    BY <1>12, <2>1, <2>4, <2>6
  <2>8. Rightly(url.outcome, url.told)' /\ Rightly(kept, url.told)' /\ Rightly(s.url.outcome, s.url.told)'
    BY <1>1, <2>1, <2>5, <2>6 DEF Rightly
  <2>9. \A q \in Piece : url.outcome.published # q /\ ~Behind(q)'
    BY <1>3, <1>4, <2>3, <2>5, <2>7 DEF Behind
  <2>10. behind' \in Link \cup {NoUrl} /\ (behind' # NoUrl => Rightly(behind.outcome, behind.told)')
    BY <2>1, <2>7, <2>8
  <2> QED BY <1>1, <1>2, <2>3, <2>5, <2>7, <2>8, <2>9, <2>10, BeginKeeps
<1> QED BY <1>8, <1>10, <1>11, <1>12 DEF OpenPage

(* Elsewhere: a piece the page no longer speaks for.                        *)
LEMMA BefallsKeeps ==
  ASSUME ManInv, NEW p \in Piece, NEW work, Befalls(p, work),
         elsewhere < MaxElsewhere, elsewhere' = elsewhere + 1,
         UNCHANGED <<load, screen, behind, captured, flaked, posts>>,
         works' \in [Piece -> Work], RanksTrue',
         \A q \in Piece : works[q].rank # 0 => works'[q].rank # 0
  PROVE  ManInv'
<1>1. /\ works' = [works EXCEPT ![p] = work] /\ stirred' = stirred \cup {p} /\ known' = known \ {p}
  BY DEF Befalls
<1>2. \A q \in Piece \ stirred' : works'[q] = works[q] /\ q \in Piece \ stirred
  BY <1>1 DEF ManInv, ManTypeOK
<1>3. known' \subseteq known
  BY <1>1
<1>4. behind' # NoUrl => Rightly(behind.outcome, behind.told)'
  BY <1>3, BehindStands
<1>5. ManTypeOK'
  <2>1. elsewhere' \in 0..MaxElsewhere
    BY ManagerAssumption DEF ManInv, ManTypeOK
  <2> QED BY <1>1, <2>1 DEF ManInv, ManTypeOK
<1>6. EventsTrue'
  <2>1. \A q \in Piece : (Coming(q)' <=> Coming(q)) /\ (Behind(q)' <=> Behind(q))
    BY DEF Coming, Behind
  <2>2. \A q \in Piece : captured[q] <= IF works'[q].rank # 0 THEN 1 ELSE 0
    <3>1. \A q \in Piece : captured[q] <= (IF works[q].rank # 0 THEN 1 ELSE 0) /\ captured[q] \in Nat
      BY DEF ManInv, EventsTrue, ManTypeOK
    <3> QED BY <3>1
  <2> QED BY <2>1, <2>2 DEF ManInv, EventsTrue
<1>7. ASSUME NEW lists, NEW cursor, ListsTrue(lists, cursor) PROVE ListsTrue(lists, cursor)'
  BY <1>2, <1>7 DEF ListsTrue, PieceListed
<1>8. ASSUME NEW news \in OneShot, NEW told, Rightly(news, told) PROVE Rightly(news, told)'
  BY <1>3, <1>8, RightlyStands
<1>9. LoadTrue'
  <2>1. SUFFICES ASSUME load # NoScreen PROVE LoadTrue'
    BY DEF LoadTrue
  <2>2. PICK l \in Load : l = load
    BY <2>1 DEF ManInv, ManTypeOK
  <2>3. l.url \in Link /\ l.url.outcome \in OneShot /\ l.kept \in OneShot
    BY <2>1, <2>2 DEF Load, Link, ManInv, LoadTrue
  <2>4. ListsTrue(l.lists, l.url.cursor) /\ Rightly(l.url.outcome, l.url.told) /\ Rightly(l.kept, l.url.told)
    BY <2>1, <2>2 DEF ManInv, LoadTrue
  <2>5. ListsTrue(l.lists, l.url.cursor)' /\ Rightly(l.url.outcome, l.url.told)' /\ Rightly(l.kept, l.url.told)'
    BY <1>7, <1>8, <2>3, <2>4
  <2> QED BY <2>1, <2>2, <2>5 DEF ManInv, LoadTrue
<1>10. ScreenTrue'
  <2>1. SUFFICES ASSUME screen # NoScreen PROVE ScreenTrue'
    BY DEF ScreenTrue
  <2>2. PICK s \in Screen : s = screen
    BY <2>1 DEF ManInv, ManTypeOK
  <2>3. s.url \in Link /\ s.url.outcome \in OneShot /\ s.kept \in OneShot
    BY <2>2 DEF Screen, Link
  <2>4. ListsTrue(s.lists, s.url.cursor) /\ Rightly(s.url.outcome, s.url.told) /\ Rightly(s.kept, s.url.told)
    BY <2>1, <2>2 DEF ManInv, ScreenTrue
  <2>5. ListsTrue(s.lists, s.url.cursor)' /\ Rightly(s.url.outcome, s.url.told)' /\ Rightly(s.kept, s.url.told)'
    BY <1>7, <1>8, <2>3, <2>4
  <2>6. \A q \in Piece \ stirred' : q \in s.gone => works'[q].card = "gone"
    BY <1>2, <2>1, <2>2 DEF ManInv, ScreenTrue
  <2> QED BY <2>1, <2>2, <2>5, <2>6 DEF ManInv, ScreenTrue
<1>11. \A q \in known' : works'[q].rank # 0
  BY <1>3 DEF ManInv, ManTypeOK
<1> QED BY <1>4, <1>5, <1>6, <1>9, <1>10, <1>11 DEF ManInv

LEMMA ElsewhereKeeps == ASSUME ManInv, NEW p \in Piece, Elsewhere(p) PROVE ManInv'
<1>1. PICK w \in Work : w = works[p]
  BY WorkFacts DEF ManInv
<1>2. /\ elsewhere < MaxElsewhere /\ elsewhere' = elsewhere + 1
      /\ UNCHANGED <<load, screen, behind, captured, flaked, posts>>
  BY DEF Elsewhere
<1>3. /\ w.at = "out" => w.rank # 0
      /\ w.at \in {"none", "draft", "queued", "failed"} => w.rank = 0
  BY <1>1 DEF ManInv, RanksTrue
<1>4. ASSUME NEW work \in Work, Befalls(p, work), work.rank = w.rank,
             work.at = "out" => w.at = "out", 
             work.at \in {"none", "draft", "queued", "failed"} => w.at \in {"none", "draft", "queued", "failed"}
      PROVE  ManInv'
  <2>1. works' = [works EXCEPT ![p] = work]
    BY <1>4 DEF Befalls
  <2>2. works' \in [Piece -> Work] /\ RanksTrue' /\ \A q \in Piece : works'[q].rank = works[q].rank
    BY <1>1, <1>3, <1>4, <2>1, RanksStand DEF ManInv
  <2> QED BY <1>2, <1>4, <2>2, BefallsKeeps
<1>5. ASSUME NEW at \in {"none", "draft", "queued", "failed", "out", "removed"},
             NEW card \in {"none", "up", "gone"}, NEW work, work = [w EXCEPT !.at = at, !.card = card]
      PROVE  work \in Work /\ work.rank = w.rank /\ work.at = at
  BY <1>5 DEF Work
<1>6. ASSUME NEW at \in {"none", "draft", "queued", "failed", "out", "removed"}, NEW work, work = [w EXCEPT !.at = at]
      PROVE  work \in Work /\ work.rank = w.rank /\ work.at = at
  BY <1>6 DEF Work
<1>7. ASSUME NEW card \in {"none", "up", "gone"}, NEW work, work = [w EXCEPT !.card = card]
      PROVE  work \in Work /\ work.rank = w.rank /\ work.at = w.at
  BY <1>7 DEF Work
<1>8. CASE w.at = "none" /\ Befalls(p, [w EXCEPT !.at = "draft"])
  <2>1. PICK work : work = [w EXCEPT !.at = "draft"]
    OBVIOUS
  <2> QED BY <1>4, <1>6, <1>8, <2>1
<1>9. CASE w.at = "draft" /\ \E to \in {"queued", "removed"} : Befalls(p, [w EXCEPT !.at = to])
  <2>1. PICK to \in {"queued", "removed"} : Befalls(p, [w EXCEPT !.at = to])
    BY <1>9
  <2>2. PICK work : work = [w EXCEPT !.at = to]
    OBVIOUS
  <2> QED BY <1>4, <1>6, <1>9, <2>1, <2>2
<1>10. CASE w.at = "queued" /\ \E card \in {"none", "up"} : Befalls(p, [w EXCEPT !.at = "failed", !.card = card])
  <2>1. PICK card \in {"none", "up"} : Befalls(p, [w EXCEPT !.at = "failed", !.card = card])
    BY <1>10
  <2>2. PICK work : work = [w EXCEPT !.at = "failed", !.card = card]
    OBVIOUS
  <2>3. work \in Work /\ work.rank = w.rank /\ work.at = "failed"
    BY <1>5, <2>2
  <2>4. Befalls(p, work)
    BY <2>1, <2>2
  <2> QED BY <1>4, <1>10, <2>3, <2>4
<1>11. CASE w.at \in {"draft", "queued"} /\ \E card \in {"none", "up"} : Befalls(p, GoesOut(p, card))
  <2>1. PICK card \in {"none", "up"} : Befalls(p, GoesOut(p, card))
    BY <1>11
  <2>2. PICK work : work = GoesOut(p, card)
    OBVIOUS
  <2>3. works' = [works EXCEPT ![p] = work] /\ works[p].rank = 0
    BY <1>1, <1>3, <1>11, <2>1, <2>2 DEF Befalls
  <2>4. /\ works' \in [Piece -> Work] /\ RanksTrue'
        /\ \A q \in Piece : works[q].rank # 0 => works'[q].rank # 0
    BY <2>2, <2>3, RanksGrow DEF ManInv
  <2> QED BY <1>2, <2>1, <2>2, <2>4, BefallsKeeps
<1>12. CASE w.at = "out" /\ \E card \in {"up", "gone"} : Befalls(p, [w EXCEPT !.card = card])
  <2>1. PICK card \in {"up", "gone"} : Befalls(p, [w EXCEPT !.card = card])
    BY <1>12
  <2>2. PICK work : work = [w EXCEPT !.card = card]
    OBVIOUS
  <2> QED BY <1>4, <1>7, <1>12, <2>1, <2>2
<1>13. CASE w.at = "out" /\ Befalls(p, [w EXCEPT !.at = "removed"])
  <2>1. PICK work : work = [w EXCEPT !.at = "removed"]
    OBVIOUS
  <2> QED BY <1>4, <1>6, <1>13, <2>1
<1> QED BY <1>1, <1>8, <1>9, <1>10, <1>11, <1>12, <1>13 DEF Elsewhere


(* What a page's lists say is not disturbed by what happens on the page.    *)
LEMMA SaidStands ==
  ASSUME UNCHANGED <<works, stirred, known>>
  PROVE  /\ \A lists, cursor : ListsTrue(lists, cursor) <=> ListsTrue(lists, cursor)'
         /\ \A news, told : Rightly(news, told) <=> Rightly(news, told)'
<1>1. ASSUME NEW lists, NEW cursor PROVE ListsTrue(lists, cursor) <=> ListsTrue(lists, cursor)'
  BY DEF ListsTrue, PieceListed
<1>2. ASSUME NEW news, NEW told PROVE Rightly(news, told) <=> Rightly(news, told)'
  BY DEF Rightly
<1> QED BY <1>1, <1>2

LEMMA FlakedTyped ==
  ASSUME ManTypeOK, NEW flakes \in BOOLEAN, flakes => flaked < MaxFlaked,
         flaked' = IF flakes THEN flaked + 1 ELSE flaked
  PROVE  flaked' \in 0..MaxFlaked
<1>1. flaked \in 0..MaxFlaked /\ MaxFlaked \in Nat
  BY ManagerAssumption DEF ManTypeOK
<1>2. CASE flakes
  BY <1>1, <1>2
<1>3. CASE ~flakes
  BY <1>1, <1>3
<1> QED BY <1>2, <1>3

(* What a read returns is so.                                               *)
LEMMA LookupIsTrue ==
  ASSUME ManInv, NEW l \in Load, l = load, load # NoScreen
  PROVE  /\ \A from \in {"repo", "drafts", "queue"} : Lookup(from) # Unread
         /\ Lookup("repo") \in RepoList /\ Lookup("drafts") \in SUBSET Piece /\ Lookup("queue") \in Queue
         /\ Lookup("repo").next # 0 => Lookup("repo").rows # {}
         /\ \A p \in Piece :
              /\ works[p].at \in {"draft", "queued", "failed"} <=> p \in Lookup("drafts")
              /\ works[p].at = "queued" <=> p \in Lookup("queue").pending
              /\ works[p].at = "failed" <=> p \in Lookup("queue").failed
              /\ p \in Lookup("repo").rows => works[p].at = "out"
              /\ works[p].at = "out" /\ p \notin Lookup("repo").rows =>
                   \/ l.url.cursor # 0 /\ works[p].rank >= l.url.cursor
                   \/ Lookup("repo").next # 0 /\ works[p].rank < Lookup("repo").next
<1>1. PICK cursor \in 0..LastPiece : cursor = l.url.cursor
  BY DEF Load, Link
<1>2. PICK list : list = Lookup("repo")
  OBVIOUS
<1>3. list = Listing(cursor)
  BY <1>1, <1>2 DEF Lookup
<1>4. /\ list \in RepoList
      /\ list.next # 0 => list.rows # {}
      /\ \A p \in Piece :
           /\ p \in list.rows => works[p].at = "out"
           /\ works[p].at = "out" /\ p \notin list.rows =>
                \/ cursor # 0 /\ works[p].rank >= cursor
                \/ list.next # 0 /\ works[p].rank < list.next
  BY <1>3, ListingTrue DEF ManInv
<1>5. Lookup("drafts") = {p \in Piece : works[p].at \in {"draft", "queued", "failed"}}
  BY DEF Lookup, At
<1>6. Lookup("queue") = [pending |-> At("queued"), failed |-> At("failed")]
  BY DEF Lookup
<1>7. At("queued") \in SUBSET Piece /\ At("failed") \in SUBSET Piece
  BY DEF At
<1>8. Lookup("queue") \in Queue /\ Lookup("queue").pending = At("queued") /\ Lookup("queue").failed = At("failed")
  BY <1>6, <1>7 DEF Queue
<1>9. Lookup("drafts") \in SUBSET Piece
  BY <1>5
<1>10. \A p \in Piece : /\ works[p].at \in {"draft", "queued", "failed"} <=> p \in Lookup("drafts")
                        /\ works[p].at = "queued" <=> p \in Lookup("queue").pending
                        /\ works[p].at = "failed" <=> p \in Lookup("queue").failed
  BY <1>5, <1>8 DEF At
<1>11. list # Unread /\ Lookup("drafts") # Unread /\ Lookup("queue") # Unread
  BY <1>4, <1>8, <1>9, ManNulls DEF NullsApart
<1>12. \A from \in {"repo", "drafts", "queue"} : Lookup(from) # Unread
  BY <1>2, <1>11
<1> QED BY <1>1, <1>2, <1>4, <1>8, <1>9, <1>10, <1>12

LEMMA ReadListKeeps ==
  ASSUME ManInv, NEW from \in {"repo", "drafts", "queue"}, ReadList(from) PROVE ManInv'
<1>1. load # NoScreen /\ UNCHANGED <<works, screen, behind, stirred, captured, known, elsewhere, posts>>
  BY DEF ReadList
<1>2. PICK l \in Load : l = load
  BY <1>1 DEF ManInv, ManTypeOK
<1>3. PICK flakes \in BOOLEAN :
        /\ flakes => flaked < MaxFlaked
        /\ flaked' = IF flakes THEN flaked + 1 ELSE flaked
        /\ load' = [load EXCEPT !.waits = @ \ {from},
                                !.lists[from] = IF flakes THEN Flakes(from) ELSE Lookup(from)]
  BY DEF ReadList
<1>4. PICK v : v = IF flakes THEN Unread ELSE Lookup(from)
  OBVIOUS
<1>5. PICK lists : lists = [l.lists EXCEPT ![from] = v]
  OBVIOUS
<1>6. PICK waits : waits = l.waits \ {from}
  OBVIOUS
<1>7. PICK m : m = [l EXCEPT !.waits = waits, !.lists = lists]
  OBVIOUS
<1>8. load' = m
  BY <1>2, <1>3, <1>4, <1>5, <1>6, <1>7 DEF Flakes
<1>9. l.lists \in Lists /\ waits \in SUBSET {"repo", "drafts", "queue"}
  BY <1>6 DEF Load
<1>10. ListsTrue(l.lists, l.url.cursor) /\ screen = NoScreen
  BY <1>1, <1>2 DEF ManInv, LoadTrue
<1>11. lists \in Lists /\ ListsTrue(lists, l.url.cursor)
  <2>1. CASE from = "repo"
    <3>1. lists = [l.lists EXCEPT !.repo = v]
      BY <1>5, <2>1
    <3>2. v = Unread \/ v = Lookup("repo")
      BY <1>4, <2>1
    <3>3. v \in RepoList \cup {Unread}
      BY <1>1, <1>2, <3>2, LookupIsTrue
    <3>4. lists \in Lists /\ lists.repo = v /\ lists.drafts = l.lists.drafts /\ lists.queue = l.lists.queue
      BY <1>9, <3>1, <3>3 DEF Lists
    <3>5. v # Unread => /\ v.next # 0 => v.rows # {}
                        /\ \A p \in Piece :
                             /\ p \in v.rows => works[p].at = "out"
                             /\ works[p].at = "out" /\ p \notin v.rows =>
                                  \/ l.url.cursor # 0 /\ works[p].rank >= l.url.cursor
                                  \/ v.next # 0 /\ works[p].rank < v.next
      BY <1>1, <1>2, <3>2, LookupIsTrue
    <3> QED BY <1>10, <3>4, <3>5 DEF ListsTrue, PieceListed
  <2>2. CASE from = "drafts"
    <3>1. lists = [l.lists EXCEPT !.drafts = v]
      BY <1>5, <2>2
    <3>2. v = Unread \/ v = Lookup("drafts")
      BY <1>4, <2>2
    <3>3. v \in (SUBSET Piece) \cup {Unread}
      BY <1>1, <1>2, <3>2, LookupIsTrue
    <3>4. lists \in Lists /\ lists.repo = l.lists.repo /\ lists.drafts = v /\ lists.queue = l.lists.queue
      BY <1>9, <3>1, <3>3 DEF Lists
    <3>5. v # Unread => \A p \in Piece : works[p].at \in {"draft", "queued", "failed"} <=> p \in v
      BY <1>1, <1>2, <3>2, LookupIsTrue
    <3> QED BY <1>10, <3>4, <3>5 DEF ListsTrue, PieceListed
  <2>3. CASE from = "queue"
    <3>1. lists = [l.lists EXCEPT !.queue = v]
      BY <1>5, <2>3
    <3>2. v = Unread \/ v = Lookup("queue")
      BY <1>4, <2>3
    <3>3. v \in Queue \cup {Unread}
      BY <1>1, <1>2, <3>2, LookupIsTrue
    <3>4. lists \in Lists /\ lists.repo = l.lists.repo /\ lists.drafts = l.lists.drafts /\ lists.queue = v
      BY <1>9, <3>1, <3>3 DEF Lists
    <3>5. v # Unread => \A p \in Piece : /\ works[p].at = "queued" <=> p \in v.pending
                                         /\ works[p].at = "failed" <=> p \in v.failed
      BY <1>1, <1>2, <3>2, LookupIsTrue
    <3> QED BY <1>10, <3>4, <3>5 DEF ListsTrue, PieceListed
  <2> QED BY <2>1, <2>2, <2>3
<1>12. m \in Load /\ m.url = l.url /\ m.kept = l.kept /\ m.consumed = l.consumed /\ m.lists = lists
  BY <1>7, <1>9, <1>11 DEF Load
<1>13. ManTypeOK'
  <2>1. flaked' \in 0..MaxFlaked
    BY <1>3, FlakedTyped DEF ManInv
  <2> QED BY <1>1, <1>8, <1>12, <2>1 DEF ManInv, ManTypeOK
<1>14. load' # NoScreen /\ ListsTrue(m.lists, m.url.cursor)'
  BY <1>1, <1>8, <1>11, <1>12, SaidStands, ManNulls DEF NullsApart
<1>15. LoadTrue'
  <2>1. /\ l.kept \in OneShot
        /\ l.url.outcome # NoOneShot => l.consumed = NoOneShot
        /\ Rightly(l.url.outcome, l.url.told) /\ Rightly(l.kept, l.url.told)
    BY <1>1, <1>2 DEF ManInv, LoadTrue
  <2>2. Rightly(l.url.outcome, l.url.told)' /\ Rightly(l.kept, l.url.told)'
    BY <1>1, <2>1, SaidStands
  <2>3. Rightly(m.url.outcome, m.url.told)' /\ Rightly(m.kept, m.url.told)'
    BY <1>12, <2>2
  <2>4. screen' = NoScreen /\ m.kept \in OneShot /\ (m.url.outcome # NoOneShot => m.consumed = NoOneShot)
    BY <1>1, <1>10, <1>12, <2>1
  <2>5. ListsTrue(load.lists, load.url.cursor)'
    BY <1>8, <1>14
  <2>6. Rightly(load.url.outcome, load.url.told)' /\ Rightly(load.kept, load.url.told)'
    BY <1>8, <2>3
  <2> QED BY <1>8, <2>4, <2>5, <2>6 DEF LoadTrue
<1>16. EventsTrue'
  <2>1. \A q \in Piece : (Coming(q)' <=> Coming(q)) /\ (Behind(q)' <=> Behind(q))
    BY <1>1, <1>2, <1>8, <1>12, <1>14 DEF Coming, Behind
  <2> QED BY <1>1, <2>1 DEF ManInv, EventsTrue
<1>17. RanksTrue' /\ ScreenTrue'
  BY <1>1, <1>10 DEF ManInv, RanksTrue, Ranked, ScreenTrue
<1> QED BY <1>1, <1>13, <1>15, <1>16, <1>17 DEF ManInv, Rightly


LEMMA ShowKeeps == ASSUME ManInv, Show PROVE ManInv'
<1>1. load # NoScreen /\ UNCHANGED <<works, behind, stirred, captured, known, elsewhere, posts>>
  BY DEF Show
<1>2. PICK l \in Load : l = load
  BY <1>1 DEF ManInv, ManTypeOK
<1>3. PICK asked \in BOOLEAN :
        /\ ~asked => flaked < MaxFlaked
        /\ flaked' = IF asked THEN flaked ELSE flaked + 1
        /\ screen' = [url |-> load.url, lists |-> load.lists, kept |-> load.kept,
                      consumed |-> load.consumed, landing |-> FALSE,
                      gone |-> IF asked /\ load.lists.repo # Unread
                               THEN {p \in load.lists.repo.noted : works[p].card = "gone"} ELSE {}]
  BY DEF Show
<1>4. PICK gone : gone = IF asked /\ l.lists.repo # Unread
                         THEN {p \in l.lists.repo.noted : works[p].card = "gone"} ELSE {}
  OBVIOUS
<1>5. PICK s : s = [url |-> l.url, lists |-> l.lists, kept |-> l.kept, consumed |-> l.consumed,
                    landing |-> FALSE, gone |-> gone]
  OBVIOUS
<1>6. screen' = s /\ load' = NoScreen
  BY <1>2, <1>3, <1>4, <1>5 DEF Show
<1>7. /\ l.kept \in OneShot /\ ListsTrue(l.lists, l.url.cursor)
      /\ l.url.outcome # NoOneShot => l.consumed = NoOneShot
      /\ Rightly(l.url.outcome, l.url.told) /\ Rightly(l.kept, l.url.told)
  BY <1>1, <1>2 DEF ManInv, LoadTrue
<1>8. gone \in SUBSET Piece /\ \A p \in gone : works[p].card = "gone"
  <2>1. l.lists.repo # Unread => l.lists.repo.noted \in SUBSET Piece
    BY DEF Load, Lists, RepoList
  <2> QED BY <1>4, <2>1
<1>9. /\ s \in Screen /\ s.url = l.url /\ s.lists = l.lists /\ s.kept = l.kept
      /\ s.consumed = l.consumed /\ s.landing = FALSE /\ s.gone = gone
  BY <1>5, <1>7, <1>8 DEF Load, Screen
<1>10. s # NoScreen
  BY <1>9, ManNulls DEF NullsApart
<1>11. flaked' \in 0..MaxFlaked
  <2>1. PICK flakes \in BOOLEAN : flakes <=> ~asked
    OBVIOUS
  <2>2. (flakes => flaked < MaxFlaked) /\ flaked' = IF flakes THEN flaked + 1 ELSE flaked
    BY <1>3, <2>1
  <2> QED BY <2>2, FlakedTyped DEF ManInv
<1>12. ManTypeOK'
  BY <1>1, <1>6, <1>9, <1>11 DEF ManInv, ManTypeOK
<1>13. LoadTrue' /\ RanksTrue'
  BY <1>1, <1>6 DEF LoadTrue, ManInv, RanksTrue, Ranked
<1>14. EventsTrue'
  <2>1. \A q \in Piece : (Coming(q)' => Coming(q)) /\ (Behind(q)' <=> Behind(q))
    BY <1>1, <1>2, <1>6, <1>9 DEF Coming, Behind
  <2> QED BY <1>1, <2>1 DEF ManInv, EventsTrue
<1>15. ScreenTrue'
  <2>1. ListsTrue(s.lists, s.url.cursor)' /\ Rightly(s.url.outcome, s.url.told)' /\ Rightly(s.kept, s.url.told)'
    BY <1>1, <1>7, <1>9, SaidStands
  <2>2. ListsTrue(screen.lists, screen.url.cursor)'
    BY <1>6, <2>1
  <2>3. Rightly(screen.url.outcome, screen.url.told)' /\ Rightly(screen.kept, screen.url.told)'
    BY <1>6, <2>1
  <2>4. ~s.landing /\ (s.url.outcome # NoOneShot => s.consumed = NoOneShot)
    BY <1>7, <1>9
  <2>5. \A p \in Piece \ stirred' : p \in s.gone => works'[p].card = "gone"
    BY <1>1, <1>8, <1>9
  <2> QED BY <1>6, <2>2, <2>3, <2>4, <2>5 DEF ScreenTrue
<1> QED BY <1>1, <1>12, <1>13, <1>14, <1>15 DEF ManInv, Rightly

(* The page shown, in use: its lists stay, and so do all outcomes but the   *)
(* one it reads.                                                            *)
LEMMA ShownStands ==
  ASSUME ManInv, screen # NoScreen, NEW s \in Screen, s = screen, NEW t \in Screen, screen' = t,
         UNCHANGED <<works, load, stirred, known, elsewhere, flaked>>,
         posts' \in 0..MaxPosts, captured' \in [Piece -> Nat],
         behind' \in Link \cup {NoUrl}, behind' # NoUrl => Rightly(behind.outcome, behind.told)',
         t.lists = s.lists, t.gone = s.gone, t.url.cursor = s.url.cursor,
         IF t.landing THEN t.consumed = t.url.outcome ELSE t.url.outcome # NoOneShot => t.consumed = NoOneShot,
         Rightly(t.url.outcome, t.url.told), Rightly(t.kept, t.url.told),
         EventsTrue'
  PROVE  ManInv'
<1>1. t # NoScreen /\ load = NoScreen
  BY ManNulls DEF ManInv, LoadTrue, NullsApart
<1>2. ManTypeOK'
  BY DEF ManInv, ManTypeOK
<1>3. LoadTrue' /\ RanksTrue'
  BY <1>1 DEF LoadTrue, ManInv, RanksTrue, Ranked
<1>4. ListsTrue(t.lists, t.url.cursor)' /\ Rightly(t.url.outcome, t.url.told)' /\ Rightly(t.kept, t.url.told)'
  BY SaidStands DEF ManInv, ScreenTrue
<1>5. ListsTrue(screen.lists, screen.url.cursor)'
  BY <1>4
<1>6. Rightly(screen.url.outcome, screen.url.told)' /\ Rightly(screen.kept, screen.url.told)'
  BY <1>4
<1>7. \A p \in Piece \ stirred' : p \in t.gone => works'[p].card = "gone"
  BY DEF ManInv, ScreenTrue
<1>8. ScreenTrue'
  BY <1>5, <1>6, <1>7 DEF ScreenTrue
<1> QED BY <1>2, <1>3, <1>8 DEF ManInv

LEMMA ScreenFacts ==
  ASSUME ManInv, screen # NoScreen
  PROVE  \E s \in Screen :
           /\ s = screen /\ s.url \in Link /\ s.url.outcome \in OneShot /\ load = NoScreen
           /\ Rightly(s.url.outcome, s.url.told) /\ Rightly(s.kept, s.url.told)
           /\ IF s.landing THEN s.consumed = s.url.outcome
              ELSE s.url.outcome # NoOneShot => s.consumed = NoOneShot
<1>1. PICK s \in Screen : s = screen
  BY DEF ManInv, ManTypeOK
<1>2. s.url \in Link /\ s.url.outcome \in OneShot
  BY DEF Screen, Link
<1>3. load = NoScreen
  BY DEF ManInv, LoadTrue
<1> QED BY <1>1, <1>2, <1>3 DEF ManInv, ScreenTrue

(* An outcome is read once: its event was not captured yet, and from now on *)
(* it is spent.                                                             *)
LEMMA ReadOutcomeKeeps == ASSUME ManInv, ReadOutcome PROVE ManInv'
<1>1. /\ screen # NoScreen /\ Unconsumed(screen)
      /\ UNCHANGED <<works, load, behind, stirred, known, elsewhere, flaked, posts>>
  BY DEF ReadOutcome
<1>2. PICK s \in Screen : /\ s = screen /\ s.url \in Link /\ s.url.outcome \in OneShot /\ load = NoScreen
                          /\ Rightly(s.url.outcome, s.url.told)
                          /\ s.landing => s.consumed = s.url.outcome
  BY <1>1, ScreenFacts
<1>3. PICK news \in OneShot : news = s.url.outcome
  BY <1>2
<1>4. PICK t : t = [s EXCEPT !.consumed = news, !.kept = news, !.landing = TRUE]
  OBVIOUS
<1>5. /\ screen' = t
      /\ captured' = [p \in Piece |-> IF p = news.published /\ captured[p] <= LastPiece
                                      THEN captured[p] + 1 ELSE captured[p]]
  BY <1>2, <1>3, <1>4 DEF ReadOutcome
<1>6. /\ t \in Screen /\ t.url = s.url /\ t.lists = s.lists /\ t.gone = s.gone
      /\ t.consumed = news /\ t.kept = news /\ t.landing
  BY <1>3, <1>4 DEF Screen
<1>7. s.consumed # s.url.outcome /\ ~s.landing
  BY <1>1, <1>2 DEF Unconsumed
<1>8. captured \in [Piece -> Nat] /\ captured' \in [Piece -> Nat]
  <2>1. captured \in [Piece -> Nat]
    BY DEF ManInv, ManTypeOK
  <2> QED BY <1>5, <2>1
<1>9. behind' \in Link \cup {NoUrl} /\ (behind' # NoUrl => Rightly(behind.outcome, behind.told)') /\ posts' \in 0..MaxPosts
  BY <1>1, BehindStands DEF ManInv, ManTypeOK
<1>10. EventsTrue'
  <2>1. ASSUME NEW q \in Piece PROVE ~Coming(q)' /\ (Behind(q)' <=> Behind(q))
    BY <1>1, <1>2, <1>5, <1>6 DEF Coming, Behind
  <2>2. ASSUME NEW q \in Piece
        PROVE  /\ captured'[q] <= IF works[q].rank # 0 THEN 1 ELSE 0
               /\ Behind(q) => captured'[q] = 0
    <3>1. captured[q] \in Nat /\ captured[q] <= IF works[q].rank # 0 THEN 1 ELSE 0
      BY <1>8 DEF ManInv, EventsTrue
    <3>2. CASE q # news.published
      BY <1>5, <3>1, <3>2 DEF ManInv, EventsTrue
    <3>3. CASE q = news.published
      <4>1. Coming(q)
        BY <1>1, <1>2, <1>3, <1>7, <3>3 DEF Coming
      <4>2. captured[q] = 0 /\ ~Behind(q)
        BY <4>1 DEF ManInv, EventsTrue
      <4>3. works[q].rank # 0
        <5>1. q # 0
          BY WorkFacts DEF ManInv
        <5> QED BY <1>2, <1>3, <3>3, <5>1 DEF Rightly
      <4>4. captured'[q] = 1
        <5>1. 0 <= LastPiece
          BY ManagerAssumption
        <5> QED BY <1>5, <3>3, <4>2, <5>1
      <4> QED BY <4>2, <4>3, <4>4
    <3> QED BY <3>2, <3>3
  <2> QED BY <1>1, <2>1, <2>2 DEF EventsTrue
<1>11. Rightly(t.url.outcome, t.url.told) /\ Rightly(t.kept, t.url.told)
  BY <1>2, <1>3, <1>6
<1> QED BY <1>1, <1>2, <1>3, <1>5, <1>6, <1>8, <1>9, <1>10, <1>11, ShownStands

LEMMA StripLandsKeeps == ASSUME ManInv, StripLands PROVE ManInv'
<1>1. /\ screen # NoScreen /\ screen.landing /\ behind' = behind
      /\ UNCHANGED <<works, load, stirred, captured, known, elsewhere, flaked, posts>>
  BY DEF StripLands, Replaces
<1>2. PICK s \in Screen : /\ s = screen /\ s.url \in Link /\ load = NoScreen
                          /\ Rightly(s.kept, s.url.told)
  BY <1>1, ScreenFacts
<1>3. PICK url : url = [s.url EXCEPT !.outcome = NoOneShot]
  OBVIOUS
<1>4. /\ url \in Link /\ url.outcome = NoOneShot /\ url.told = s.url.told /\ url.cursor = s.url.cursor
      /\ NoOneShot.published = 0
  BY <1>2, <1>3, OneShotFacts DEF Link
<1>5. PICK t : t = [s EXCEPT !.url = url, !.landing = FALSE]
  OBVIOUS
<1>6. screen' = t
  BY <1>2, <1>3, <1>5 DEF StripLands, Stripped
<1>7. /\ t \in Screen /\ t.url = url /\ t.lists = s.lists /\ t.gone = s.gone
      /\ t.kept = s.kept /\ t.landing = FALSE
  BY <1>4, <1>5 DEF Screen
<1>8. behind' \in Link \cup {NoUrl} /\ (behind' # NoUrl => Rightly(behind.outcome, behind.told)')
  BY <1>1, BehindStands
<1>9. EventsTrue'
  <2>1. ASSUME NEW q \in Piece PROVE ~Coming(q)' /\ (Behind(q)' <=> Behind(q))
    <3>1. q # 0
      BY WorkFacts DEF ManInv
    <3> QED BY <1>1, <1>2, <1>4, <1>6, <1>7, <3>1 DEF Coming, Behind
  <2> QED BY <1>1, <2>1 DEF ManInv, EventsTrue
<1>10. Rightly(t.url.outcome, t.url.told) /\ Rightly(t.kept, t.url.told)
  BY <1>2, <1>4, <1>7 DEF Rightly
<1>11. posts' \in 0..MaxPosts /\ captured' \in [Piece -> Nat]
  BY <1>1 DEF ManInv, ManTypeOK
<1>12. ~t.landing /\ t.url.outcome = NoOneShot /\ t.url.cursor = s.url.cursor
  BY <1>4, <1>7
<1> QED BY <1>1, <1>2, <1>6, <1>7, <1>8, <1>9, <1>10, <1>11, <1>12, ShownStands

LEMMA TurnTabKeeps ==
  ASSUME ManInv, NEW pane \in {"published", "drafts", "scheduled"}, TurnTab(pane) PROVE ManInv'
<1>1. /\ screen # NoScreen /\ ~screen.landing /\ SendForm
      /\ UNCHANGED <<works, load, behind, stirred, captured, known, elsewhere, flaked>>
  BY DEF TurnTab
<1>2. PICK s \in Screen : /\ s = screen /\ s.url \in Link /\ load = NoScreen
                          /\ Rightly(s.url.outcome, s.url.told) /\ Rightly(s.kept, s.url.told)
                          /\ ~s.landing => (s.url.outcome # NoOneShot => s.consumed = NoOneShot)
  BY <1>1, ScreenFacts
<1>3. PICK url : url = [s.url EXCEPT !.tab = pane]
  OBVIOUS
<1>4. url \in Link /\ url.outcome = s.url.outcome /\ url.told = s.url.told /\ url.cursor = s.url.cursor
  BY <1>2, <1>3 DEF Link
<1>5. PICK t : t = [s EXCEPT !.url = url]
  OBVIOUS
<1>6. screen' = t
  BY <1>2, <1>3, <1>5 DEF TurnTab
<1>7. /\ t \in Screen /\ t.url = url /\ t.lists = s.lists /\ t.gone = s.gone
      /\ t.kept = s.kept /\ t.consumed = s.consumed /\ t.landing = s.landing
  BY <1>4, <1>5 DEF Screen
<1>8. behind' \in Link \cup {NoUrl} /\ (behind' # NoUrl => Rightly(behind.outcome, behind.told)')
  BY <1>1, BehindStands
<1>9. EventsTrue'
  <2>1. ASSUME NEW q \in Piece PROVE (Coming(q)' => Coming(q)) /\ (Behind(q)' <=> Behind(q))
    BY <1>1, <1>2, <1>4, <1>6, <1>7 DEF Coming, Behind
  <2> QED BY <1>1, <2>1 DEF ManInv, EventsTrue
<1>10. Rightly(t.url.outcome, t.url.told) /\ Rightly(t.kept, t.url.told)
  BY <1>2, <1>4, <1>7
<1>11. posts' \in 0..MaxPosts /\ captured' \in [Piece -> Nat]
  BY <1>1, ManagerAssumption DEF ManInv, ManTypeOK, SendForm
<1>12. ~t.landing /\ (t.url.outcome # NoOneShot => t.consumed = NoOneShot) /\ t.url.cursor = s.url.cursor
  BY <1>1, <1>2, <1>4, <1>7
<1> QED BY <1>1, <1>2, <1>6, <1>7, <1>8, <1>9, <1>10, <1>11, <1>12, ShownStands


LEMMA ManInitInv == ManInit => ManInv
<1> SUFFICES ASSUME ManInit PROVE ManInv
  OBVIOUS
<1>1. LastPiece \in Nat /\ {MaxElsewhere, MaxFlaked, MaxPosts} \subseteq Nat
  BY ManagerAssumption
<1>2. ManTypeOK
  BY <1>1 DEF ManInit, ManTypeOK, Work
<1>3. RanksTrue
  <2>1. Ranked = {} /\ \A p \in Piece : works[p].rank = 0 /\ works[p].at = "none"
    BY DEF ManInit, Ranked
  <2>2. Cardinality(Ranked) = 0
    BY <2>1, FS_EmptySet
  <2> QED BY <2>1, <2>2 DEF RanksTrue
<1>4. EventsTrue /\ LoadTrue /\ ScreenTrue /\ behind = NoUrl
  BY DEF ManInit, EventsTrue, LoadTrue, ScreenTrue, Coming, Behind
<1> QED BY <1>2, <1>3, <1>4 DEF ManInit, ManInv

LEMMA ManNextInv == ManInv /\ [ManNext]_manVars => ManInv'
<1> SUFFICES ASSUME ManInv, [ManNext]_manVars PROVE ManInv'
  OBVIOUS
<1>1. CASE UNCHANGED manVars
  <2>1. UNCHANGED <<works, load, screen, behind, stirred, captured, known, elsewhere, flaked, posts>>
    BY <1>1 DEF manVars
  <2>2. ManTypeOK' /\ RanksTrue'
    BY <2>1 DEF ManInv, ManTypeOK, RanksTrue, Ranked
  <2>3. EventsTrue'
    BY <2>1 DEF ManInv, EventsTrue, Coming, Behind
  <2>4. LoadTrue'
    BY <2>1 DEF ManInv, LoadTrue, ListsTrue, PieceListed, Rightly
  <2>5. ScreenTrue'
    BY <2>1 DEF ManInv, ScreenTrue, ListsTrue, PieceListed, Rightly
  <2> QED BY <2>1, <2>2, <2>3, <2>4, <2>5 DEF ManInv, Rightly
<1>2. CASE ManNext
  BY <1>2, ReadListKeeps, ShowKeeps, ReadOutcomeKeeps, StripLandsKeeps, OpenPageKeeps, TurnTabKeeps,
     ElsewhereKeeps, PressRowKeeps DEF ManNext
<1> QED BY <1>1, <1>2

LEMMA ManInvEnough == ManInv => ManagerIsTrue
<1> SUFFICES ASSUME ManInv PROVE ManagerIsTrue
  OBVIOUS
<1>1. ASSUME screen # NoScreen, NEW p \in Piece \ stirred
      PROVE  LET at == works[p].at IN
             /\ (at \in {"draft", "queued", "failed"}) = (OnPage.drafts # Unread /\ p \in OnPage.drafts)
                  \/ OnPage.drafts = Unread
             /\ OnPage.queue # Unread => /\ (at = "queued") = (p \in OnPage.queue.pending)
                                        /\ (at = "failed") = (p \in OnPage.queue.failed)
             /\ OnPage.repo # Unread =>
                  /\ p \in OnPage.repo.rows => at = "out"
                  /\ at = "out" /\ p \notin OnPage.repo.rows =>
                       \/ screen.url.cursor # 0 /\ works[p].rank >= screen.url.cursor
                       \/ OnPage.repo.next # 0 /\ works[p].rank < OnPage.repo.next
             /\ at \in {"queued", "failed"} => OnStrip
             /\ FirstRun /\ screen.url.cursor = 0 => at \in {"none", "removed"}
             /\ p \in screen.gone => works[p].card = "gone"
  <2>1. PICK s \in Screen : s = screen
    BY <1>1 DEF ManInv, ManTypeOK
  <2>2. ListsTrue(s.lists, s.url.cursor) /\ (p \in s.gone => works[p].card = "gone")
    BY <1>1, <2>1 DEF ManInv, ScreenTrue
  <2>3. PICK lists \in Lists : lists = s.lists
    BY DEF Screen
  <2>4. OnPage = lists
    BY <2>1, <2>3 DEF OnPage
  <2>5. PICK at \in {"none", "draft", "queued", "failed", "out", "removed"} : at = works[p].at
    BY WorkFacts DEF ManInv, Work
  <2>6. lists.drafts # Unread => (at \in {"draft", "queued", "failed"} <=> p \in lists.drafts)
    BY <2>2, <2>3, <2>5 DEF ListsTrue, PieceListed
  <2>7. lists.queue # Unread => /\ at = "queued" <=> p \in lists.queue.pending
                                /\ at = "failed" <=> p \in lists.queue.failed
    BY <2>2, <2>3, <2>5 DEF ListsTrue, PieceListed
  <2>8. lists.repo # Unread =>
          /\ p \in lists.repo.rows => at = "out"
          /\ at = "out" /\ p \notin lists.repo.rows =>
               \/ s.url.cursor # 0 /\ works[p].rank >= s.url.cursor
               \/ lists.repo.next # 0 /\ works[p].rank < lists.repo.next
    BY <2>2, <2>3, <2>5 DEF ListsTrue, PieceListed
  <2>9. at \in {"queued", "failed"} => OnStrip
    BY <2>4, <2>7 DEF OnStrip, QueueRows
  <2>10. lists.repo # Unread /\ lists.repo.rows = {} => lists.repo.next = 0
    BY <2>2, <2>3 DEF ListsTrue
  <2>11. ASSUME FirstRun, s.url.cursor = 0 PROVE at \in {"none", "removed"}
    <3>1. lists.repo # Unread /\ lists.repo.rows = {} /\ lists.drafts = {}
      BY <2>4, <2>11 DEF FirstRun
    <3>2. lists.drafts # Unread
      BY <3>1, ManNulls DEF NullsApart
    <3>3. at \notin {"draft", "queued", "failed"}
      BY <2>6, <3>1, <3>2
    <3>4. at # "out"
      BY <2>8, <2>10, <2>11, <3>1
    <3> QED BY <2>5, <3>3, <3>4
  <2>12. (at \in {"draft", "queued", "failed"}) = (lists.drafts # Unread /\ p \in lists.drafts) \/ lists.drafts = Unread
    BY <2>6
  <2>13. lists.queue # Unread => /\ (at = "queued") = (p \in lists.queue.pending)
                                 /\ (at = "failed") = (p \in lists.queue.failed)
    BY <2>7
  <2> QED BY <2>1, <2>2, <2>4, <2>5, <2>8, <2>9, <2>11, <2>12, <2>13
<1>2. SeenWhereItIs
  BY <1>1 DEF SeenWhereItIs
<1>3. \A p \in Piece : captured[p] <= (IF works[p].rank # 0 THEN 1 ELSE 0)
  BY DEF ManInv, EventsTrue
<1>4. screen # NoScreen /\ Offers => screen.kept.published \notin known
  BY DEF ManInv, ScreenTrue, Offers, Rightly, HeardOf
<1> QED BY <1>2, <1>3, <1>4 DEF ManagerIsTrue, OutcomeOnce

(* Of every piece nothing happened to since the page began to load, the     *)
(* dashboard says where it is or that it could not look; an outcome is acted *)
(* on once, and what was announced is not offered for announcing            *)
(* (getDashboard, mapDashboardRows, useOutcomeParams): for any number of    *)
(* pieces, size of page, forms, reloads and failed reads.                   *)
THEOREM ManagerIsTrueHolds == ManSpec => []ManagerIsTrue
<1> QED BY ManInitInv, ManNextInv, ManInvEnough, PTL DEF ManSpec

-----------------------------------------------------------------------------
(* The overview.                                                            *)

(* Lists as they were read, of the pieces nobody touched since: the drafts  *)
(* are all of them; the records too, unless there may be more; and where    *)
(* nothing was touched they are the latest.                                 *)
DraftsTrue(list, since) == list # NoList => list \ since = WorksIn("draft") \ since
RecordsTrue(list, since) ==
  list # NoList =>
    /\ ~list.more => WorksIn("out") \ since \subseteq list.rows
    /\ list.more => list.rows # {}
    /\ since = {} => list.rows = Foremost(WorksIn("out"), OverviewPage)

HomeInv ==
  /\ HomeTypeOK
  /\ overview # NoHome =>
       /\ visits > 0 /\ DraftsTrue(overview.drafts, overview.changed)
       /\ RecordsTrue(overview.records, overview.changed)
  /\ home # NoHome =>
       /\ DraftsTrue(home.drafts, home.changed) /\ RecordsTrue(home.records, home.changed)
       /\ home.stats.status # "loading" => home.visit \notin asking

LEMMA HomeBounds ==
  /\ LastWork \in Nat \ {0} /\ OverviewPage \in Nat \ {0} /\ Shortlist \in Nat \ {0}
  /\ MaxWorked \in Nat /\ MaxHalts \in Nat /\ MaxVisits \in Nat
  /\ \A S \in SUBSET Opus : IsFiniteSet(S) /\ Cardinality(S) \in Nat
<1>1. IsFiniteSet(Opus)
  BY HomeAssumption, FS_Interval DEF Opus
<1>2. ASSUME NEW S \in SUBSET Opus PROVE IsFiniteSet(S) /\ Cardinality(S) \in Nat
  BY <1>1, FS_Subset, FS_CardinalityType
<1> QED BY <1>2, HomeAssumption

(* Later first is a strict order of the pieces.                             *)
LEMMA BeforeOrders ==
  ASSUME HomeTypeOK, NEW p \in Opus, NEW q \in Opus, NEW r \in Opus
  PROVE  /\ Before(p, q) /\ Before(q, r) => Before(p, r)
         /\ ~Before(p, p) /\ (p # q => Before(p, q) \/ Before(q, p))
<1>1. opus[p].when \in Nat /\ opus[q].when \in Nat /\ opus[r].when \in Nat
  BY HomeBounds DEF HomeTypeOK, OpusState
<1>2. p \in Nat /\ q \in Nat /\ r \in Nat
  BY DEF Opus
<1> QED BY <1>1, <1>2 DEF Before

Ahead(p, ps) == {q \in ps : Before(q, p)}

LEMMA AheadIsLess ==
  ASSUME HomeTypeOK, NEW ps \in SUBSET Opus, NEW p \in Opus, NEW q \in ps, Before(q, p)
  PROVE  Cardinality(Ahead(q, ps)) < Cardinality(Ahead(p, ps))
<1>1. PICK A : A = Ahead(p, ps)
  OBVIOUS
<1>2. PICK B : B = Ahead(q, ps)
  OBVIOUS
<1>3. B \subseteq A /\ q \in A /\ q \notin B /\ A \in SUBSET Opus
  BY <1>1, <1>2, BeforeOrders DEF Ahead
<1>4. IsFiniteSet(A)
  BY <1>3, HomeBounds
<1>5. Cardinality(B) <= Cardinality(A) /\ (Cardinality(A) = Cardinality(B) => A = B)
  BY <1>3, <1>4, FS_Subset
<1>6. Cardinality(A) \in Nat /\ Cardinality(B) \in Nat
  BY <1>3, HomeBounds
<1> QED BY <1>1, <1>2, <1>3, <1>5, <1>6

(* Of pieces, the one with the fewest ahead of it.                          *)
LEMMA FewestAhead ==
  ASSUME HomeTypeOK, NEW ps \in SUBSET Opus, NEW qs \in SUBSET ps, qs # {}
  PROVE  \E p \in qs : \A q \in qs : ~Before(q, p)
<1>1. \A p \in Opus : Cardinality(Ahead(p, ps)) \in Nat
  BY HomeBounds DEF Ahead
<1>2. PICK ns : ns = {Cardinality(Ahead(p, ps)) : p \in qs}
  OBVIOUS
<1>3. ns \subseteq Nat /\ ns # {}
  BY <1>1, <1>2
<1>4. PICK n \in ns : \A m \in ns : ~ (<<m, n>> \in OpToRel(<, Nat))
  BY <1>3, NatLessThanWellFounded, WFMin
<1>5. \A m \in ns : ~(m < n)
  BY <1>3, <1>4 DEF OpToRel
<1>6. PICK p \in qs : n = Cardinality(Ahead(p, ps))
  BY <1>2
<1>7. ASSUME NEW q \in qs, Before(q, p) PROVE FALSE
  <2>1. Cardinality(Ahead(q, ps)) < n
    BY <1>6, <1>7, AheadIsLess
  <2> QED BY <1>2, <1>5, <2>1
<1> QED BY <1>7

(* And the one with the most.                                               *)
LEMMA MostAhead ==
  ASSUME HomeTypeOK, NEW ps \in SUBSET Opus, NEW n \in Nat, Foremost(ps, n) # {}
  PROVE  \E p \in Foremost(ps, n) : \A q \in Foremost(ps, n) : ~Before(p, q)
<1>1. \A p \in Opus : Cardinality(Ahead(p, ps)) \in Nat
  BY HomeBounds DEF Ahead
<1>2. PICK F : F = Foremost(ps, n)
  OBVIOUS
<1>3. F \subseteq ps /\ \A p \in F : Cardinality(Ahead(p, ps)) < n
  BY <1>2 DEF Foremost, Ahead
<1>4. PICK ns : ns = {n - Cardinality(Ahead(p, ps)) : p \in F}
  OBVIOUS
<1>5. ns \subseteq Nat /\ ns # {}
  BY <1>1, <1>2, <1>3, <1>4
<1>6. PICK k \in ns : \A m \in ns : ~ (<<m, k>> \in OpToRel(<, Nat))
  BY <1>5, NatLessThanWellFounded, WFMin
<1>7. \A m \in ns : ~(m < k)
  BY <1>5, <1>6 DEF OpToRel
<1>8. PICK p \in F : k = n - Cardinality(Ahead(p, ps))
  BY <1>4
<1>9. ASSUME NEW q \in F, Before(p, q) PROVE FALSE
  <2>1. Cardinality(Ahead(p, ps)) < Cardinality(Ahead(q, ps))
    BY <1>3, <1>9, AheadIsLess
  <2>2. n - Cardinality(Ahead(q, ps)) < k
    BY <1>1, <1>3, <1>8, <2>1
  <2>3. n - Cardinality(Ahead(q, ps)) \in ns
    BY <1>4
  <2> QED BY <1>7, <2>2, <2>3
<1> QED BY <1>2, <1>8, <1>9

(* Whatever is ahead of one of the foremost is one of them.                 *)
LEMMA ForemostAhead ==
  ASSUME HomeTypeOK, NEW ps \in SUBSET Opus, NEW n \in Nat, NEW p \in Foremost(ps, n),
         NEW q \in ps, Before(q, p)
  PROVE  q \in Foremost(ps, n)
<1>1. p \in ps /\ Cardinality(Ahead(p, ps)) < n
  BY DEF Foremost, Ahead
<1>2. Cardinality(Ahead(q, ps)) < Cardinality(Ahead(p, ps))
  BY <1>1, AheadIsLess
<1>3. Cardinality(Ahead(p, ps)) \in Nat /\ Cardinality(Ahead(q, ps)) \in Nat
  BY HomeBounds DEF Ahead
<1> QED BY <1>1, <1>2, <1>3 DEF Foremost, Ahead

(* A page that is not full is everything.                                   *)
LEMMA ForemostIsAll ==
  ASSUME HomeTypeOK, NEW ps \in SUBSET Opus, NEW n \in Nat, Cardinality(Foremost(ps, n)) # n
  PROVE  Foremost(ps, n) = ps
<1>1. PICK F : F = Foremost(ps, n)
  OBVIOUS
<1>2. F \subseteq ps /\ (\A p \in F : Cardinality(Ahead(p, ps)) < n) /\ \A p \in ps \ F : ~(Cardinality(Ahead(p, ps)) < n)
  BY <1>1 DEF Foremost, Ahead
<1>3. IsFiniteSet(F) /\ Cardinality(F) \in Nat
  BY <1>2, HomeBounds
<1>4. \A p \in Opus : Ahead(p, ps) \in SUBSET Opus
  BY DEF Ahead
<1>5. ASSUME F # ps PROVE FALSE
  <2>1. ps \ F \in SUBSET ps /\ ps \ F # {}
    BY <1>2, <1>5
  <2>2. PICK p \in ps \ F : \A q \in ps \ F : ~Before(q, p)
    BY <2>1, FewestAhead
  <2>3. PICK A : A = Ahead(p, ps)
    OBVIOUS
  <2>4. A \subseteq F /\ Cardinality(A) \in Nat /\ n <= Cardinality(A)
    BY <1>2, <1>4, <2>2, <2>3, HomeBounds DEF Ahead
  <2>5. n <= Cardinality(F)
    BY <1>3, <2>4, FS_Subset
  <2>6. Cardinality(F) <= n
    <3>1. CASE F = {}
      BY <3>1, FS_EmptySet
    <3>2. CASE F # {}
      <4>1. PICK f \in F : \A q \in F : ~Before(f, q)
        BY <1>1, <3>2, MostAhead
      <4>2. PICK B : B = Ahead(f, ps)
        OBVIOUS
      <4>3. f \in Opus /\ B \in SUBSET Opus /\ Cardinality(B) < n
        BY <1>2, <1>4, <4>1, <4>2
      <4>4. \A q \in F : q = f \/ Before(q, f)
        BY <1>2, <4>1, BeforeOrders
      <4>5. F \subseteq B \cup {f}
        BY <1>2, <4>2, <4>4 DEF Ahead
      <4>6. IsFiniteSet(B) /\ Cardinality(B) \in Nat
        BY <4>3, HomeBounds
      <4>7. IsFiniteSet(B \cup {f}) /\ Cardinality(B \cup {f}) <= Cardinality(B) + 1
        <5>1. f \in B => B \cup {f} = B
          OBVIOUS
        <5>2. f \notin B => Cardinality(B \cup {f}) = Cardinality(B) + 1 /\ IsFiniteSet(B \cup {f})
          BY <4>6, FS_AddElement
        <5> QED BY <4>6, <5>1, <5>2
      <4>8. Cardinality(F) <= Cardinality(B \cup {f}) /\ Cardinality(B \cup {f}) \in Nat
        BY <4>5, <4>7, FS_Subset, FS_CardinalityType
      <4> QED BY <1>3, <4>3, <4>6, <4>7, <4>8
    <3> QED BY <3>1, <3>2
  <2> QED BY <1>1, <1>3, <2>5, <2>6
<1> QED BY <1>1, <1>5

(* The first of a page's is the first of all.                               *)
LEMMA FirstOfForemost ==
  ASSUME HomeTypeOK, NEW ps \in SUBSET Opus, NEW n \in Nat \ {0}
  PROVE  Foremost(Foremost(ps, n), 1) = Foremost(ps, 1)
<1>1. PICK F : F = Foremost(ps, n)
  OBVIOUS
<1>2. F \subseteq ps
  BY <1>1 DEF Foremost
<1>3. ASSUME NEW p \in Opus PROVE (Cardinality(Ahead(p, ps)) < 1 <=> Ahead(p, ps) = {})
                                  /\ (Cardinality(Ahead(p, F)) < 1 <=> Ahead(p, F) = {})
                                  /\ (Ahead(p, ps) = {} => Cardinality(Ahead(p, ps)) = 0)
  <2>1. PICK A : A = Ahead(p, ps)
    OBVIOUS
  <2>2. PICK B : B = Ahead(p, F)
    OBVIOUS
  <2>3. A \in SUBSET Opus /\ B \in SUBSET Opus
    BY <1>2, <2>1, <2>2 DEF Ahead
  <2>4. IsFiniteSet(A) /\ Cardinality(A) \in Nat /\ IsFiniteSet(B) /\ Cardinality(B) \in Nat
    BY <2>3, HomeBounds
  <2>5. (Cardinality(A) = 0 <=> A = {}) /\ (Cardinality(B) = 0 <=> B = {})
    BY <2>4, FS_EmptySet
  <2> QED BY <2>1, <2>2, <2>4, <2>5
<1>4. ASSUME NEW p \in Opus
      PROVE  p \in Foremost(F, 1) <=> p \in Foremost(ps, 1)
  <2>1. p \in Foremost(F, 1) <=> p \in F /\ Ahead(p, F) = {}
    BY <1>2, <1>3 DEF Foremost, Ahead
  <2>2. p \in Foremost(ps, 1) <=> p \in ps /\ Ahead(p, ps) = {}
    BY <1>3 DEF Foremost, Ahead
  <2>3. ASSUME p \in ps, Ahead(p, ps) = {} PROVE p \in F /\ Ahead(p, F) = {}
    <3>1. Cardinality(Ahead(p, ps)) = 0
      BY <1>3, <2>3
    <3>2. p \in F
      BY <1>1, <2>3, <3>1 DEF Foremost, Ahead
    <3> QED BY <1>2, <2>3, <3>2 DEF Ahead
  <2>4. ASSUME p \in F, Ahead(p, F) = {}, NEW q \in ps, Before(q, p) PROVE FALSE
    <3>1. q \in F
      BY <1>1, <2>4, ForemostAhead
    <3> QED BY <2>4, <3>1 DEF Ahead
  <2>5. p \in F /\ Ahead(p, F) = {} => p \in ps /\ Ahead(p, ps) = {}
    BY <1>2, <2>4 DEF Ahead
  <2> QED BY <2>1, <2>2, <2>3, <2>5
<1>5. Foremost(F, 1) \subseteq Opus /\ Foremost(ps, 1) \subseteq Opus
  BY <1>2 DEF Foremost
<1> QED BY <1>1, <1>4, <1>5

LEMMA HomeInvEnough == HomeInv => OverviewIsTrue
<1> SUFFICES ASSUME HomeInv, home # NoHome PROVE OverviewIsTrue
  BY DEF OverviewIsTrue
<1>1. home \in Home /\ HomeTypeOK
  BY DEF HomeInv, HomeTypeOK
<1>2. home.drafts \in (SUBSET Opus) \cup {NoList} /\ home.records \in Records \cup {NoList}
  BY <1>1 DEF Home
<1>3. DraftsTrue(home.drafts, home.changed) /\ RecordsTrue(home.records, home.changed)
  BY DEF HomeInv
<1>4. ASSUME NEW place \in {"draft", "out"} PROVE WorksIn(place) \in SUBSET Opus
  BY DEF WorksIn
<1>5. Welcome => WorksIn("draft") \ home.changed = {} /\ WorksIn("out") \ home.changed = {}
  <2> SUFFICES ASSUME Welcome PROVE WorksIn("draft") \ home.changed = {} /\ WorksIn("out") \ home.changed = {}
    OBVIOUS
  <2>1. home.records # NoList /\ home.drafts # NoList
    BY NoCountAssumption DEF Welcome, PostCount, DraftCount
  <2>2. Cardinality(home.records.rows) = 0 /\ Cardinality(home.drafts) = 0
    BY <2>1 DEF Welcome, PostCount, DraftCount
  <2>3. home.records.rows \in SUBSET Opus /\ home.drafts \in SUBSET Opus
    BY <1>2, <2>1 DEF Records
  <2>4. home.records.rows = {} /\ home.drafts = {}
    BY <2>2, <2>3, HomeBounds, FS_EmptySet
  <2>5. ~home.records.more
    BY <1>3, <2>1, <2>4 DEF RecordsTrue
  <2> QED BY <1>3, <2>1, <2>4, <2>5 DEF DraftsTrue, RecordsTrue
<1>6. PostCount # NoCount /\ ~home.records.more => WorksIn("out") \ home.changed \subseteq home.records.rows
  BY <1>3 DEF PostCount, RecordsTrue
<1>7. ASSUME home.drafts # NoList, ~AllDraftsLink
      PROVE  WorksIn("draft") \ home.changed \subseteq Listed
  <2>1. PICK ds \in SUBSET Opus : ds = home.drafts
    BY <1>2, <1>7
  <2>2. Cardinality(ds) \in Nat /\ Cardinality(ds) <= Shortlist /\ IsFiniteSet(ds)
    BY <1>7, <2>1, HomeBounds DEF AllDraftsLink
  <2>3. ASSUME NEW p \in ds PROVE p \in Foremost(ds, Shortlist)
    <3>1. PICK A : A = {q \in ds : Before(q, p)}
      OBVIOUS
    <3>2. A \subseteq ds \ {p}
      BY <1>1, <2>3, <3>1, BeforeOrders
    <3>3. ds \ {p} \in SUBSET Opus /\ Cardinality(ds \ {p}) = Cardinality(ds) - 1
      BY <2>2, <2>3, FS_RemoveElement
    <3>4. IsFiniteSet(ds \ {p})
      BY <3>3, HomeBounds
    <3>5. Cardinality(A) <= Cardinality(ds \ {p})
      BY <3>2, <3>4, FS_Subset
    <3>6. Cardinality(A) \in Nat
      BY <3>2, HomeBounds
    <3>7. Cardinality(A) < Shortlist
      BY <2>2, <3>3, <3>5, <3>6, HomeBounds
    <3> QED BY <2>3, <3>1, <3>7 DEF Foremost
  <2>4. ds \subseteq Listed
    BY <1>7, <2>1, <2>3 DEF Listed
  <2> QED BY <1>3, <1>7, <2>1, <2>4 DEF DraftsTrue
<1>8. ASSUME home.drafts # NoList, home.changed = {}
      PROVE  Resumes = Foremost(WorksIn("draft"), 1)
  <2>1. home.drafts = WorksIn("draft")
    BY <1>3, <1>8 DEF DraftsTrue
  <2>2. Foremost({}, 1) = {}
    BY DEF Foremost
  <2> QED BY <1>8, <2>1, <2>2 DEF Resumes
<1>9. ASSUME home.records # NoList, home.changed = {}
      PROVE  Latest = Foremost(WorksIn("out"), 1)
  <2>1. home.records.rows = Foremost(WorksIn("out"), OverviewPage)
    BY <1>3, <1>9 DEF RecordsTrue
  <2>2. Foremost(Foremost(WorksIn("out"), OverviewPage), 1) = Foremost(WorksIn("out"), 1)
    BY <1>1, <1>4, HomeBounds, FirstOfForemost
  <2> QED BY <1>9, <2>1, <2>2 DEF Latest
<1>10. home.stats.status # "loading" => home.visit \notin asking
  BY DEF HomeInv
<1> QED BY <1>5, <1>6, <1>7, <1>8, <1>9, <1>10 DEF OverviewIsTrue

LEMMA HomeInitInv == HomeInit => HomeInv
<1> SUFFICES ASSUME HomeInit PROVE HomeInv
  OBVIOUS
<1>1. opus \in [Opus -> OpusState]
  BY HomeBounds DEF HomeInit, OpusState
<1>2. counted \in [Opus -> Nat] \cup {NoCount}
  BY DEF HomeInit, NoViews
<1> QED BY <1>1, <1>2, HomeBounds DEF HomeInit, HomeInv, HomeTypeOK

(* What a writer does touches one piece, and says so.                       *)
LEMMA WorksKeeps ==
  ASSUME HomeInv, NEW p \in Opus, Works(p)
  PROVE  HomeInv'
<1>1. UNCHANGED <<signedIn, counted, asking, halts, visits>> /\ worked' \in 0..MaxWorked
  BY HomeBounds DEF Works, HomeInv, HomeTypeOK
<1>2. PICK to \in {"none", "draft", "out"} : opus' = [opus EXCEPT ![p] = [at |-> to, when |-> worked']]
  BY DEF Works
<1>3. opus' \in [Opus -> OpusState]
  BY <1>1, <1>2 DEF OpusState, HomeInv, HomeTypeOK
<1>4. \A q \in Opus : q # p => opus'[q] = opus[q]
  BY <1>2 DEF HomeInv, HomeTypeOK
<1>5. ASSUME NEW since \in SUBSET Opus, NEW list, DraftsTrue(list, since),
             list = NoList \/ list \in SUBSET Opus
      PROVE  list # NoList => list \ (since \cup {p}) = WorksIn("draft")' \ (since \cup {p})
  BY <1>4, <1>5 DEF DraftsTrue, WorksIn
<1>6. ASSUME NEW since \in SUBSET Opus, NEW list, RecordsTrue(list, since), list # NoList
      PROVE  (~list.more => WorksIn("out")' \ (since \cup {p}) \subseteq list.rows)
             /\ (list.more => list.rows # {}) /\ since \cup {p} # {}
  BY <1>4, <1>6 DEF RecordsTrue, WorksIn
<1>7. overview' \in Overview \cup {NoHome} /\
      (overview' # NoHome =>
         visits' > 0 /\ DraftsTrue(overview.drafts, overview.changed)' /\ RecordsTrue(overview.records, overview.changed)')
  <2>1. CASE overview = NoHome
    BY <2>1 DEF Works
  <2>2. CASE overview # NoHome
    <3>1. overview \in Overview
      BY <2>2 DEF HomeInv, HomeTypeOK
    <3>2. PICK c \in SUBSET Opus : c = overview.changed
      BY <3>1 DEF Overview
    <3>3. PICK d \in (SUBSET Opus) \cup {NoList} : d = overview.drafts
      BY <3>1 DEF Overview
    <3>4. PICK l \in Records \cup {NoList} : l = overview.records
      BY <3>1 DEF Overview
    <3>5. PICK o : o = [overview EXCEPT !.changed = @ \cup {p}]
      OBVIOUS
    <3>6. o \in Overview /\ o.changed = c \cup {p} /\ o.drafts = d /\ o.records = l
      BY <3>1, <3>2, <3>3, <3>4, <3>5 DEF Overview
    <3>7. overview' = o
      BY <2>2, <3>5 DEF Works
    <3>8. visits > 0 /\ DraftsTrue(d, c) /\ RecordsTrue(l, c)
      BY <2>2, <3>2, <3>3, <3>4 DEF HomeInv
    <3>9. (d # NoList => d \ (c \cup {p}) = WorksIn("draft")' \ (c \cup {p}))
          /\ (l # NoList => (~l.more => WorksIn("out")' \ (c \cup {p}) \subseteq l.rows)
                            /\ (l.more => l.rows # {}) /\ c \cup {p} # {})
      BY <1>5, <1>6, <3>8
    <3> QED BY <1>1, <3>6, <3>7, <3>8, <3>9 DEF DraftsTrue, RecordsTrue
  <2> QED BY <2>1, <2>2
<1>8. home' \in Home \cup {NoHome} /\
      (home' # NoHome =>
         /\ DraftsTrue(home.drafts, home.changed)' /\ RecordsTrue(home.records, home.changed)'
         /\ home'.stats.status # "loading" => home'.visit \notin asking')
  <2>1. CASE home = NoHome
    BY <2>1 DEF Works
  <2>2. CASE home # NoHome
    <3>1. home \in Home
      BY <2>2 DEF HomeInv, HomeTypeOK
    <3>2. PICK c \in SUBSET Opus : c = home.changed
      BY <3>1 DEF Home
    <3>3. PICK d \in (SUBSET Opus) \cup {NoList} : d = home.drafts
      BY <3>1 DEF Home
    <3>4. PICK l \in Records \cup {NoList} : l = home.records
      BY <3>1 DEF Home
    <3>5. PICK o : o = [home EXCEPT !.changed = @ \cup {p}]
      OBVIOUS
    <3>6. o \in Home /\ o.changed = c \cup {p} /\ o.drafts = d /\ o.records = l /\ o.stats = home.stats /\ o.visit = home.visit
      BY <3>1, <3>2, <3>3, <3>4, <3>5 DEF Home
    <3>7. home' = o
      BY <2>2, <3>5 DEF Works
    <3>8. DraftsTrue(d, c) /\ RecordsTrue(l, c) /\ (home.stats.status # "loading" => home.visit \notin asking)
      BY <2>2, <3>2, <3>3, <3>4 DEF HomeInv
    <3>9. (d # NoList => d \ (c \cup {p}) = WorksIn("draft")' \ (c \cup {p}))
          /\ (l # NoList => (~l.more => WorksIn("out")' \ (c \cup {p}) \subseteq l.rows)
                            /\ (l.more => l.rows # {}) /\ c \cup {p} # {})
      BY <1>5, <1>6, <3>8
    <3> QED BY <1>1, <3>6, <3>7, <3>8, <3>9 DEF DraftsTrue, RecordsTrue
  <2> QED BY <2>1, <2>2
<1>9. HomeTypeOK'
  BY <1>1, <1>3, <1>7, <1>8 DEF HomeInv, HomeTypeOK
<1> QED BY <1>7, <1>8, <1>9 DEF HomeInv

LEMMA HaltBounded ==
  ASSUME HomeInv, NEW fails \in BOOLEAN, MayHalt(fails) PROVE halts' \in 0..MaxHalts
<1>1. (fails => halts < MaxHalts) /\ halts' = IF fails THEN halts + 1 ELSE halts
  BY DEF MayHalt
<1> QED BY <1>1, HomeBounds DEF HomeInv, HomeTypeOK

(* The first page of records is all of them, or full.                       *)
LEMMA FirstRecordsTrue ==
  ASSUME HomeInv
  PROVE  FirstRecords \in Records /\ \A since \in SUBSET Opus : RecordsTrue(FirstRecords, since)
<1>1. PICK W : W = WorksIn("out")
  OBVIOUS
<1>2. PICK rows : rows = Foremost(W, OverviewPage)
  OBVIOUS
<1>3. W \in SUBSET Opus /\ rows \in SUBSET Opus /\ HomeTypeOK
  BY <1>1, <1>2 DEF WorksIn, Foremost, HomeInv
<1>4. PICK more \in BOOLEAN : more = (Cardinality(rows) = OverviewPage)
  OBVIOUS
<1>5. FirstRecords = [rows |-> rows, more |-> more]
  BY <1>1, <1>2, <1>4 DEF FirstRecords
<1>6. FirstRecords \in Records /\ FirstRecords.rows = rows /\ FirstRecords.more = more
  BY <1>3, <1>5 DEF Records
<1>7. ~more => rows = W
  BY <1>2, <1>3, <1>4, HomeBounds, ForemostIsAll
<1>8. more => rows # {}
  BY <1>4, HomeBounds, FS_EmptySet
<1> QED BY <1>1, <1>2, <1>6, <1>7, <1>8 DEF RecordsTrue

LEMMA ReadForKeeps ==
  ASSUME HomeInv, NEW from \in {"drafts", "records"}, ReadFor(from)
  PROVE  HomeInv'
<1>1. overview # NoHome /\ overview \in Overview /\ UNCHANGED <<signedIn, opus, counted, home, asking, worked, visits>>
  BY DEF ReadFor, HomeInv, HomeTypeOK
<1>2. PICK fails \in BOOLEAN :
       /\ MayHalt(fails)
       /\ overview' = [overview EXCEPT !.waits = @ \ {from},
                        ![from] = IF fails THEN UnreadList(from)
                                  ELSE IF from = "drafts" THEN WorksIn("draft") ELSE FirstRecords]
  BY DEF ReadFor
<1>3. halts' \in 0..MaxHalts
  BY <1>2, HaltBounded
<1>4. WorksIn("draft") \in SUBSET Opus /\ WorksIn("draft")' = WorksIn("draft") /\ WorksIn("out")' = WorksIn("out")
  BY <1>1 DEF WorksIn
<1>5. PICK c \in SUBSET Opus : c = overview.changed
  BY <1>1 DEF Overview
<1>6. DraftsTrue(overview.drafts, c) /\ RecordsTrue(overview.records, c) /\ visits > 0
  BY <1>1, <1>5 DEF HomeInv
<1>7. \A d : DraftsTrue(d, c)' <=> DraftsTrue(d, c)
  BY <1>4 DEF DraftsTrue
<1>8. Foremost(WorksIn("out"), OverviewPage)' = Foremost(WorksIn("out"), OverviewPage)
  BY <1>1, <1>4 DEF Foremost, Before
<1>9. \A l : (l # NoList =>
               /\ ~l.more => WorksIn("out")' \ c \subseteq l.rows
               /\ l.more => l.rows # {}
               /\ c = {} => l.rows = Foremost(WorksIn("out"), OverviewPage)') <=> RecordsTrue(l, c)
  BY <1>4, <1>8 DEF RecordsTrue
<1>10. overview' \in Overview /\ overview'.changed = c /\ DraftsTrue(overview'.drafts, c) /\ RecordsTrue(overview'.records, c)
  <2>1. CASE from = "drafts"
    <3>1. PICK d : d = IF fails THEN NoList ELSE WorksIn("draft")
      OBVIOUS
    <3>2. d \in (SUBSET Opus) \cup {NoList} /\ DraftsTrue(d, c)
      BY <1>4, <3>1 DEF DraftsTrue
    <3>3. overview' = [overview EXCEPT !.waits = @ \ {from}, !.drafts = d]
      BY <1>2, <2>1, <3>1 DEF UnreadList
    <3>4. overview' \in Overview /\ overview'.changed = c /\ overview'.drafts = d /\ overview'.records = overview.records
      BY <1>1, <1>5, <3>2, <3>3 DEF Overview
    <3> QED BY <1>6, <3>2, <3>4
  <2>2. CASE from = "records"
    <3>1. PICK l : l = IF fails THEN NoList ELSE FirstRecords
      OBVIOUS
    <3>2. l \in Records \cup {NoList}
      BY <3>1, FirstRecordsTrue
    <3>3. RecordsTrue(l, c)
      BY <3>1, FirstRecordsTrue DEF RecordsTrue
    <3>4. overview' = [overview EXCEPT !.waits = @ \ {from}, !.records = l]
      BY <1>2, <2>2, <3>1 DEF UnreadList
    <3>5. overview' \in Overview /\ overview'.changed = c /\ overview'.drafts = overview.drafts /\ overview'.records = l
      BY <1>1, <1>5, <3>2, <3>4 DEF Overview
    <3> QED BY <1>6, <3>3, <3>5
  <2> QED BY <2>1, <2>2
<1>11. HomeTypeOK'
  BY <1>1, <1>3, <1>10 DEF HomeInv, HomeTypeOK
<1>12. DraftsTrue(overview.drafts, overview.changed)' /\ RecordsTrue(overview.records, overview.changed)'
  BY <1>4, <1>8, <1>10 DEF DraftsTrue, RecordsTrue
<1>13. home' # NoHome =>
       /\ DraftsTrue(home.drafts, home.changed)' /\ RecordsTrue(home.records, home.changed)'
       /\ home'.stats.status # "loading" => home'.visit \notin asking'
  BY <1>1, <1>4, <1>8 DEF HomeInv, DraftsTrue, RecordsTrue
<1> QED BY <1>1, <1>6, <1>11, <1>12, <1>13 DEF HomeInv

(* A step that touches no piece, and whose page is as the lists say.        *)
LEMMA HomeStands ==
  ASSUME HomeInv, UNCHANGED <<signedIn, opus, worked>>,
         counted' \in [Opus -> Nat] \cup {NoCount}, asking' \subseteq 1..MaxVisits, halts' \in 0..MaxHalts,
         visits' \in 0..MaxVisits,
         overview' \in Overview \cup {NoHome}, home' \in Home \cup {NoHome},
         overview' # NoHome =>
           /\ visits' > 0 /\ DraftsTrue(overview'.drafts, overview'.changed)
           /\ RecordsTrue(overview'.records, overview'.changed),
         home' # NoHome =>
           /\ DraftsTrue(home'.drafts, home'.changed) /\ RecordsTrue(home'.records, home'.changed)
           /\ home'.stats.status # "loading" => home'.visit \notin asking'
  PROVE  HomeInv'
<1>1. WorksIn("draft")' = WorksIn("draft") /\ WorksIn("out")' = WorksIn("out")
  BY DEF WorksIn
<1>2. Foremost(WorksIn("out"), OverviewPage)' = Foremost(WorksIn("out"), OverviewPage)
  BY <1>1 DEF Foremost, Before
<1>3. HomeTypeOK'
  BY DEF HomeInv, HomeTypeOK
<1>4. overview' # NoHome =>
        DraftsTrue(overview.drafts, overview.changed)' /\ RecordsTrue(overview.records, overview.changed)'
  BY <1>1, <1>2 DEF DraftsTrue, RecordsTrue
<1>5. home' # NoHome => DraftsTrue(home.drafts, home.changed)' /\ RecordsTrue(home.records, home.changed)'
  BY <1>1, <1>2 DEF DraftsTrue, RecordsTrue
<1> QED BY <1>3, <1>4, <1>5 DEF HomeInv

LEMMA VisitedKeeps ==
  ASSUME HomeInv, OpenHome \/ LeaveHome \/ (\E p \in Opus : IsRead(p))
  PROVE  HomeInv'
<1>1. CASE OpenHome
  <2>1. UNCHANGED <<signedIn, opus, counted, asking, worked, halts>> /\ home' = NoHome
    BY <1>1 DEF OpenHome
  <2>2. visits' \in 0..MaxVisits /\ visits' > 0
    BY <1>1, HomeBounds DEF OpenHome, HomeInv, HomeTypeOK
  <2>3. PICK o : o = [waits |-> {"drafts", "records"}, drafts |-> NoList, records |-> NoList, changed |-> {}]
    OBVIOUS
  <2>4. o \in Overview /\ DraftsTrue(o.drafts, o.changed) /\ RecordsTrue(o.records, o.changed)
    BY <2>3 DEF Overview, DraftsTrue, RecordsTrue
  <2>5. overview' = o \/ overview' = NoHome
    BY <1>1, <2>3 DEF OpenHome
  <2>6. /\ counted' \in [Opus -> Nat] \cup {NoCount} /\ asking' \subseteq 1..MaxVisits /\ halts' \in 0..MaxHalts
    BY <2>1 DEF HomeInv, HomeTypeOK
  <2> QED BY <2>1, <2>2, <2>4, <2>5, <2>6, HomeStands
<1>2. CASE LeaveHome
  <2>1. UNCHANGED <<signedIn, opus, counted, overview, asking, worked, halts, visits>> /\ home' = NoHome
    BY <1>2 DEF LeaveHome
  <2> QED BY <2>1, HomeStands DEF HomeInv, HomeTypeOK
<1>3. CASE \E p \in Opus : IsRead(p)
  <2>1. PICK p \in Opus : IsRead(p)
    BY <1>3
  <2>2. UNCHANGED <<signedIn, opus, overview, home, asking, halts, visits>> /\ worked' \in 0..MaxWorked
    BY <2>1, HomeBounds DEF IsRead, HomeInv, HomeTypeOK
  <2>3. counted \in [Opus -> Nat] /\ counted' = [counted EXCEPT ![p] = @ + 1]
    BY <2>1 DEF IsRead, HomeInv, HomeTypeOK
  <2>4. PICK n \in Nat : n = counted[p] + 1
    BY <2>3
  <2>5. counted' \in [Opus -> Nat]
    BY <2>3, <2>4
  <2>6. WorksIn("draft")' = WorksIn("draft") /\ WorksIn("out")' = WorksIn("out")
    BY <2>2 DEF WorksIn
  <2>7. Foremost(WorksIn("out"), OverviewPage)' = Foremost(WorksIn("out"), OverviewPage)
    BY <2>2, <2>6 DEF Foremost, Before
  <2>8. HomeTypeOK'
    BY <2>2, <2>5 DEF HomeInv, HomeTypeOK
  <2> QED BY <2>2, <2>6, <2>7, <2>8 DEF HomeInv, DraftsTrue, RecordsTrue
<1> QED BY <1>1, <1>2, <1>3

LEMMA ShowHomeKeeps == HomeInv /\ ShowHome => HomeInv'
<1> SUFFICES ASSUME HomeInv, ShowHome PROVE HomeInv'
  OBVIOUS
<1>1. overview # NoHome /\ overview \in Overview /\ UNCHANGED <<signedIn, opus, counted, worked, visits>>
  BY DEF ShowHome, HomeInv, HomeTypeOK
<1>2. overview' = NoHome /\ asking' = asking \cup {visits}
  BY DEF ShowHome
<1>3. PICK fails \in BOOLEAN :
       /\ MayHalt(fails)
       /\ home' = [visit |-> visits, drafts |-> overview.drafts, records |-> overview.records,
                   stats |-> [status |-> "loading", views |-> NoViews], counts |-> ~fails,
                   changed |-> overview.changed]
  BY DEF ShowHome
<1>4. halts' \in 0..MaxHalts
  BY <1>3, HaltBounded
<1>5. visits \in 1..MaxVisits
  BY <1>1, HomeBounds DEF HomeInv, HomeTypeOK
<1>6. PICK b \in BOOLEAN : b = ~fails
  OBVIOUS
<1>7. PICK stats : stats = [status |-> "loading", views |-> NoViews]
  OBVIOUS
<1>8. stats \in HomeStats /\ stats.status = "loading"
  BY <1>7 DEF HomeStats, NoViews
<1>9. home' = [visit |-> visits, drafts |-> overview.drafts, records |-> overview.records,
               stats |-> stats, counts |-> b, changed |-> overview.changed]
  BY <1>3, <1>6, <1>7
<1>10. /\ home' \in Home /\ home'.drafts = overview.drafts /\ home'.records = overview.records
       /\ home'.changed = overview.changed /\ home'.stats.status = "loading"
  BY <1>1, <1>5, <1>8, <1>9 DEF Home, Overview
<1>11. DraftsTrue(overview.drafts, overview.changed) /\ RecordsTrue(overview.records, overview.changed)
  BY <1>1 DEF HomeInv
<1>12. counted' \in [Opus -> Nat] \cup {NoCount} /\ asking' \subseteq 1..MaxVisits /\ visits' \in 0..MaxVisits
  BY <1>1, <1>2, <1>5 DEF HomeInv, HomeTypeOK
<1>13. DraftsTrue(home'.drafts, home'.changed) /\ RecordsTrue(home'.records, home'.changed)
  BY <1>10, <1>11
<1> QED BY <1>1, <1>2, <1>4, <1>10, <1>12, <1>13, HomeStands

LEMMA StatsAnswerKeeps ==
  ASSUME HomeInv, NEW v \in asking, StatsAnswer(v)
  PROVE  HomeInv'
<1>1. UNCHANGED <<signedIn, opus, counted, overview, worked, visits>> /\ asking' = asking \ {v}
  BY DEF StatsAnswer
<1>2. PICK fails \in BOOLEAN, status \in {"unavailable", "off", "ready"} :
       /\ MayHalt(fails) /\ (status = "ready" => counted # NoCount)
       /\ home' = IF StillThere(v)
                  THEN [home EXCEPT !.stats = [status |-> status,
                          views |-> IF status = "ready" THEN counted ELSE NoViews]]
                  ELSE home
  <2>1. PICK fails \in BOOLEAN :
       /\ MayHalt(fails)
       /\ LET status == IF fails THEN "unavailable"
                        ELSE IF counted = NoCount THEN "off" ELSE "ready"
          IN  home' = IF StillThere(v)
                      THEN [home EXCEPT !.stats = [status |-> status,
                              views |-> IF status = "ready" THEN counted ELSE NoViews]]
                      ELSE home
    BY DEF StatsAnswer
  <2>2. PICK status : status = IF fails THEN "unavailable" ELSE IF counted = NoCount THEN "off" ELSE "ready"
    OBVIOUS
  <2>3. status \in {"unavailable", "off", "ready"} /\ (status = "ready" => counted # NoCount)
    BY <2>2
  <2> QED BY <2>1, <2>2, <2>3
<1>3. halts' \in 0..MaxHalts
  BY <1>2, HaltBounded
<1>4. counted' \in [Opus -> Nat] \cup {NoCount} /\ asking' \subseteq 1..MaxVisits /\ visits' \in 0..MaxVisits
      /\ overview' \in Overview \cup {NoHome}
  BY <1>1 DEF HomeInv, HomeTypeOK
<1>5. overview' # NoHome =>
        /\ visits' > 0 /\ DraftsTrue(overview'.drafts, overview'.changed)
        /\ RecordsTrue(overview'.records, overview'.changed)
  BY <1>1 DEF HomeInv
<1>6. CASE StillThere(v)
  <2>1. home \in Home /\ home # NoHome /\ home.visit = v
    BY <1>6 DEF StillThere, HomeInv, HomeTypeOK
  <2>2. PICK views \in [Opus -> Nat] : views = IF status = "ready" THEN counted ELSE NoViews
    BY <1>2 DEF HomeInv, HomeTypeOK, NoViews
  <2>3. PICK stats \in HomeStats : stats = [status |-> status, views |-> views]
    BY DEF HomeStats
  <2>4. home' = [home EXCEPT !.stats = stats]
    BY <1>2, <1>6, <2>2, <2>3
  <2>5. /\ home' \in Home /\ home'.visit = v /\ home'.drafts = home.drafts /\ home'.records = home.records
        /\ home'.changed = home.changed
    BY <2>1, <2>4 DEF Home
  <2>6. DraftsTrue(home'.drafts, home'.changed) /\ RecordsTrue(home'.records, home'.changed)
    BY <2>1, <2>5 DEF HomeInv
  <2> QED BY <1>1, <1>3, <1>4, <1>5, <2>5, <2>6, HomeStands
<1>7. CASE ~StillThere(v)
  <2>1. home' = home
    BY <1>2, <1>7
  <2>2. home' \in Home \cup {NoHome} /\
        (home' # NoHome =>
           /\ DraftsTrue(home'.drafts, home'.changed) /\ RecordsTrue(home'.records, home'.changed)
           /\ home'.stats.status # "loading" => home'.visit \notin asking')
    BY <1>1, <2>1 DEF HomeInv, HomeTypeOK
  <2> QED BY <1>1, <1>3, <1>4, <1>5, <2>2, HomeStands
<1> QED BY <1>6, <1>7

LEMMA HomeNextInv == HomeInv /\ [HomeNext]_homeVars => HomeInv'
<1> SUFFICES ASSUME HomeInv, [HomeNext]_homeVars PROVE HomeInv'
  OBVIOUS
<1>1. CASE UNCHANGED homeVars
  <2>1. UNCHANGED <<signedIn, opus, counted, overview, home, asking, worked, halts, visits>>
    BY <1>1 DEF homeVars
  <2> QED BY <2>1, HomeStands DEF HomeInv, HomeTypeOK
<1>2. CASE HomeNext
  BY <1>2, VisitedKeeps, ShowHomeKeeps, WorksKeeps, ReadForKeeps, StatsAnswerKeeps DEF HomeNext
<1> QED BY <1>1, <1>2

(* What the overview says of the pieces nobody touched since it was loaded  *)
(* is so, and its numbers are of its own visit (getOverview, home.tsx): for  *)
(* any number of pieces, whatever a page or a shortlist holds, and any      *)
(* visits.                                                                  *)
THEOREM OverviewIsTrueHolds == HomeSpec => []OverviewIsTrue
<1> QED BY HomeInitInv, HomeNextInv, HomeInvEnough, PTL DEF HomeSpec

-----------------------------------------------------------------------------
(* Links to a former handle.                                                *)

(* Whoever a handle resolves to, is cached for, or is in the history with,  *)
(* has held it.                                                             *)
HeldBy(to) == \A h \in Handle : to[h] # Nobody => <<h, to[h]>> \in held

(* What is about to be noted was seen to resolve.                           *)
NotingTrue ==
  \A a \in Account : noting[a] # NoErrand /\ noting[a].at = "write" => <<noting[a].of, a>> \in held

(* An account found in the history held the handle that is looked up; its   *)
(* current one is another; and one that is noted was seen to resolve.       *)
LookupTrue ==
  /\ lookup # NoErrand /\ lookup.at \in {"document", "verify", "note"} =>
       <<lookup.of, lookup.did>> \in held
  /\ lookup # NoErrand /\ lookup.at \in {"verify", "note"} =>
       lookup.current \in Handle /\ lookup.current # lookup.of
  /\ lookup # NoErrand /\ lookup.at = "note" => <<lookup.current, lookup.did>> \in held

HandleInv ==
  /\ HandleTypeOK /\ HeldBy(holder) /\ HeldBy(resolved) /\ HeldBy(formerly)
  /\ NotingTrue /\ LookupTrue /\ LinksLeadHome

LEMMA HandleInitInv == HandleInit => HandleInv
<1> SUFFICES ASSUME HandleInit PROVE HandleInv
  OBVIOUS
<1>1. claim \in [Account -> Handle \cup {NoHandle}]
  BY DEF HandleInit
<1>2. held \subseteq Handle \X Account /\ HeldBy(holder)
  BY DEF HandleInit, HeldBy
<1>3. HandleTypeOK
  BY <1>1, <1>2, FormerHandlesAssumption DEF HandleInit, HandleTypeOK
<1>4. HeldBy(resolved) /\ HeldBy(formerly)
  BY DEF HandleInit, HeldBy
<1> QED BY <1>2, <1>3, <1>4 DEF HandleInit, HandleInv, NotingTrue, LookupTrue, LinksLeadHome

(* A resolution, and what the edge then keeps, is of a holder of the handle.*)
LEMMA ResolutionHeld ==
  ASSUME HandleInv, NEW h \in Handle, NEW fails \in BOOLEAN, Resolves(h, fails)
  PROVE  LET did == Resolution(h, fails)  kept == KeptAtEdge(h, fails) IN
         /\ did \in Account \cup {Nobody}
         /\ did # Nobody => <<h, did>> \in held
         /\ kept \in [Handle -> Account \cup {Nobody}] /\ HeldBy(kept)
         /\ unheard' \in 0..MaxUnheard
<1>1. PICK did : did = Resolution(h, fails)
  OBVIOUS
<1>2. did \in Account \cup {Nobody} /\ (did # Nobody => <<h, did>> \in held)
  BY <1>1 DEF HandleInv, HandleTypeOK, HeldBy, Resolution, ResolvesTo
<1>3. PICK kept : kept = [resolved EXCEPT ![h] = did]
  OBVIOUS
<1>4. kept \in [Handle -> Account \cup {Nobody}] /\ HeldBy(kept)
  BY <1>2, <1>3 DEF HandleInv, HandleTypeOK, HeldBy
<1>5. unheard' \in 0..MaxUnheard
  <2>1. (fails => unheard < MaxUnheard) /\ unheard' = IF fails THEN unheard + 1 ELSE unheard
    BY DEF Resolves, MayGoUnheard
  <2> QED BY <2>1, FormerHandlesAssumption DEF HandleInv, HandleTypeOK
<1>6. kept = KeptAtEdge(h, fails)
  BY <1>1, <1>3 DEF KeptAtEdge
<1> QED BY <1>1, <1>2, <1>4, <1>5, <1>6

LEMMA UnheardBounded ==
  ASSUME HandleInv, NEW fails \in BOOLEAN, MayGoUnheard(fails) PROVE unheard' \in 0..MaxUnheard
<1>1. (fails => unheard < MaxUnheard) /\ unheard' = IF fails THEN unheard + 1 ELSE unheard
  BY DEF MayGoUnheard
<1> QED BY <1>1, FormerHandlesAssumption DEF HandleInv, HandleTypeOK

(* The network's own changes only add to who has held what.                 *)
LEMMA NetworkKeeps ==
  ASSUME HandleInv,
         \/ \E a \in Account, h \in Handle : TakesHandle(a, h) \/ Claims(a, h)
         \/ \E h \in Handle : Forgets(h) \/ Follow(h)
  PROVE  HandleInv'
<1>1. CASE \E a \in Account, h \in Handle : TakesHandle(a, h)
  <2>1. PICK a \in Account, h \in Handle : TakesHandle(a, h)
    BY <1>1
  <2>2. held' = held \cup {<<h, a>>} /\ renames' \in 0..MaxRenames /\ reply' = NoReply
    BY <2>1, FormerHandlesAssumption DEF HandleInv, HandleTypeOK, TakesHandle, Renames
  <2>3. UNCHANGED <<resolved, formerly, noting, lookup, lookups, noted, unheard>>
    BY <2>1 DEF TakesHandle
  <2>4. holder' = [g \in Handle |-> IF g = h THEN a ELSE IF holder[g] = a THEN Nobody ELSE holder[g]]
    BY <2>1 DEF TakesHandle
  <2>5. claim' = [claim EXCEPT ![a] = h]
    BY <2>1 DEF TakesHandle
  <2>6. HandleTypeOK'
    BY <2>2, <2>3, <2>4, <2>5 DEF HandleInv, HandleTypeOK
  <2>7. HeldBy(holder)'
    BY <2>2, <2>4 DEF HandleInv, HeldBy
  <2>8. HeldBy(resolved)' /\ HeldBy(formerly)' /\ NotingTrue' /\ LookupTrue'
    BY <2>2, <2>3 DEF HandleInv, HeldBy, NotingTrue, LookupTrue
  <2> QED BY <2>2, <2>6, <2>7, <2>8 DEF HandleInv, LinksLeadHome
<1>2. CASE \E a \in Account, h \in Handle : Claims(a, h)
  <2>1. PICK a \in Account, h \in Handle : Claims(a, h)
    BY <1>2
  <2>2. renames' \in 0..MaxRenames /\ reply' = NoReply
    BY <2>1, FormerHandlesAssumption DEF HandleInv, HandleTypeOK, Claims, Renames
  <2>3. UNCHANGED <<holder, resolved, formerly, noting, lookup, held, lookups, noted, unheard>>
    BY <2>1 DEF Claims
  <2>4. claim' = [claim EXCEPT ![a] = h]
    BY <2>1 DEF Claims
  <2>5. HandleTypeOK'
    BY <2>2, <2>3, <2>4 DEF HandleInv, HandleTypeOK
  <2> QED BY <2>2, <2>3, <2>5 DEF HandleInv, LinksLeadHome, HeldBy, NotingTrue, LookupTrue
<1>3. CASE \E h \in Handle : Forgets(h)
  <2>1. PICK h \in Handle : Forgets(h)
    BY <1>3
  <2>2. UNCHANGED <<holder, claim, formerly, noting, lookup, reply, held, renames, lookups, noted, unheard>>
    BY <2>1 DEF Forgets
  <2>3. resolved' = [resolved EXCEPT ![h] = Nobody]
    BY <2>1 DEF Forgets
  <2>4. HandleTypeOK' /\ HeldBy(resolved)'
    BY <2>2, <2>3 DEF HandleInv, HandleTypeOK, HeldBy
  <2> QED BY <2>2, <2>4 DEF HandleInv, LinksLeadHome, HeldBy, NotingTrue, LookupTrue
<1>4. CASE \E h \in Handle : Follow(h)
  <2>1. PICK h \in Handle : Follow(h)
    BY <1>4
  <2>2. UNCHANGED <<holder, claim, resolved, formerly, noting, held, renames, noted, unheard>>
    BY <2>1 DEF Follow
  <2>3. lookup' = [of |-> h, at |-> "resolve", did |-> Nobody, current |-> NoHandle]
    BY <2>1 DEF Follow
  <2>4. lookup' \in LinkLookup /\ lookup'.at = "resolve" /\ reply' = NoReply /\ lookups' \in 0..MaxLookups
    BY <2>1, <2>3, FormerHandlesAssumption DEF Follow, LinkLookup, HandleInv, HandleTypeOK
  <2>5. HandleTypeOK'
    BY <2>2, <2>4 DEF HandleInv, HandleTypeOK
  <2>6. LookupTrue'
    BY <2>4 DEF LookupTrue
  <2> QED BY <2>2, <2>4, <2>5, <2>6 DEF HandleInv, LinksLeadHome, HeldBy, NotingTrue
<1> QED BY <1>1, <1>2, <1>3, <1>4

(* A publish notes the handle of its writer's document where it resolves    *)
(* to the writer.                                                           *)
LEMMA NotingKeeps ==
  ASSUME HandleInv, NEW a \in Account,
         Publishes(a) \/ ReadKnown(a) \/ Verify(a) \/ NoteHandle(a)
  PROVE  HandleInv'
<1>a. noting \in [Account -> Errand \cup {NoErrand}] /\ claim[a] \in Handle \cup {NoHandle}
  BY DEF HandleInv, HandleTypeOK
<1>1. CASE Publishes(a)
  <2>1. UNCHANGED <<holder, claim, resolved, formerly, lookup, reply, held, renames, lookups, unheard>>
    BY <1>1 DEF Publishes
  <2>2. noted' \in 0..MaxNoted /\ claim[a] \in Handle
    BY <1>1, <1>a, FormerHandlesAssumption DEF Publishes, HandleInv, HandleTypeOK
  <2>3. PICK e : e = [of |-> claim[a], at |-> "known"]
    OBVIOUS
  <2>4. e \in Errand /\ e.at = "known" /\ noting' = [noting EXCEPT ![a] = e]
    BY <1>1, <2>2, <2>3 DEF Publishes, Errand
  <2>5. HandleTypeOK'
    BY <1>a, <2>1, <2>2, <2>4 DEF HandleInv, HandleTypeOK
  <2>6. NotingTrue'
    BY <1>a, <2>1, <2>4 DEF HandleInv, NotingTrue
  <2> QED BY <2>1, <2>5, <2>6 DEF HandleInv, LinksLeadHome, HeldBy, LookupTrue
<1>2. CASE ReadKnown(a)
  <2>1. UNCHANGED <<holder, claim, resolved, formerly, lookup, reply, held, renames, lookups, noted, unheard>>
    BY <1>2 DEF ReadKnown
  <2>2. noting[a] \in Errand
    BY <1>2, <1>a DEF ReadKnown
  <2>3. PICK e : e = [noting[a] EXCEPT !.at = "verify"]
    OBVIOUS
  <2>4. e \in Errand /\ e.at = "verify"
    BY <2>2, <2>3 DEF Errand
  <2>5. PICK f : f = IF formerly[noting[a].of] = a THEN NoErrand ELSE e
    OBVIOUS
  <2>6. noting' = [noting EXCEPT ![a] = f]
    BY <1>2, <2>3, <2>5 DEF ReadKnown
  <2>7. f \in Errand \cup {NoErrand} /\ (f # NoErrand => f.at = "verify")
    BY <2>4, <2>5
  <2>8. HandleTypeOK'
    BY <1>a, <2>1, <2>6, <2>7 DEF HandleInv, HandleTypeOK
  <2>9. NotingTrue'
    BY <1>a, <2>1, <2>6, <2>7 DEF HandleInv, NotingTrue
  <2> QED BY <2>1, <2>8, <2>9 DEF HandleInv, LinksLeadHome, HeldBy, LookupTrue
<1>3. CASE Verify(a)
  <2>1. UNCHANGED <<holder, claim, formerly, lookup, reply, held, renames, lookups, noted>>
    BY <1>3 DEF Verify
  <2>2. noting[a] \in Errand
    BY <1>3, <1>a DEF Verify
  <2>3. PICK h \in Handle : h = noting[a].of
    BY <2>2 DEF Errand
  <2>4. PICK fails \in BOOLEAN :
          /\ Resolves(h, fails) /\ resolved' = KeptAtEdge(h, fails)
          /\ noting' = [noting EXCEPT ![a] = IF IsTheirs(a, Resolution(h, fails))
                                             THEN [@ EXCEPT !.at = "write"] ELSE NoErrand]
    BY <1>3, <2>3 DEF Verify
  <2>5. PICK did \in Account \cup {Nobody} : did = Resolution(h, fails) /\ (did # Nobody => <<h, did>> \in held)
    BY <2>4, ResolutionHeld
  <2>6. resolved' \in [Handle -> Account \cup {Nobody}] /\ unheard' \in 0..MaxUnheard
    BY <2>4, ResolutionHeld
  <2>7. HeldBy(resolved)'
    BY <2>1, <2>4, ResolutionHeld DEF HeldBy
  <2>8. PICK e : e = [noting[a] EXCEPT !.at = "write"]
    OBVIOUS
  <2>9. e \in Errand /\ e.of = h
    BY <2>2, <2>3, <2>8 DEF Errand
  <2>10. PICK f : f = IF did = a THEN e ELSE NoErrand
    OBVIOUS
  <2>11. noting' = [noting EXCEPT ![a] = f]
    BY <2>4, <2>5, <2>8, <2>10 DEF IsTheirs
  <2>12. f \in Errand \cup {NoErrand} /\ (f # NoErrand => <<f.of, a>> \in held)
    BY <2>5, <2>9, <2>10, HandleNullsAssumption
  <2>13. HandleTypeOK'
    BY <1>a, <2>1, <2>6, <2>11, <2>12 DEF HandleInv, HandleTypeOK
  <2>14. NotingTrue'
    BY <1>a, <2>1, <2>11, <2>12 DEF HandleInv, NotingTrue
  <2> QED BY <2>1, <2>7, <2>13, <2>14 DEF HandleInv, LinksLeadHome, HeldBy, LookupTrue
<1>4. CASE NoteHandle(a)
  <2>1. UNCHANGED <<holder, claim, resolved, lookup, reply, held, renames, lookups, noted>>
    BY <1>4 DEF NoteHandle
  <2>2. noting[a] \in Errand /\ noting[a].at = "write" /\ noting[a] # NoErrand
    BY <1>4, <1>a DEF NoteHandle
  <2>3. PICK h \in Handle : h = noting[a].of
    BY <2>2 DEF Errand
  <2>4. <<h, a>> \in held
    BY <2>2, <2>3 DEF HandleInv, NotingTrue
  <2>5. PICK fails \in BOOLEAN :
          MayGoUnheard(fails) /\ formerly' = IF fails THEN formerly ELSE [formerly EXCEPT ![h] = a]
    BY <1>4, <2>3 DEF NoteHandle
  <2>6. unheard' \in 0..MaxUnheard
    BY <2>5, UnheardBounded
  <2>7. noting' = [noting EXCEPT ![a] = NoErrand]
    BY <1>4 DEF NoteHandle
  <2>8. HandleTypeOK' /\ HeldBy(formerly)'
    BY <1>a, <2>1, <2>4, <2>5, <2>6, <2>7 DEF HandleInv, HandleTypeOK, HeldBy
  <2>9. NotingTrue'
    BY <1>a, <2>1, <2>7 DEF HandleInv, NotingTrue
  <2> QED BY <2>1, <2>8, <2>9 DEF HandleInv, LinksLeadHome, HeldBy, LookupTrue
<1> QED BY <1>1, <1>2, <1>3, <1>4

(* Where a link leads.                                                      *)
LEMMA LeadsKeeps ==
  ASSUME HandleInv, NEW says \in {"page", "moved for good", "by DID", "not found"},
         NEW did \in Account \cup {Nobody}, NEW current \in Handle \cup {NoHandle},
         lookup # NoErrand, Leads(says, did, current),
         UNCHANGED <<holder, claim, noting, held, renames, lookups, noted>>,
         resolved' \in [Handle -> Account \cup {Nobody}], HeldBy(resolved)',
         formerly' \in [Handle -> Account \cup {Nobody}], HeldBy(formerly)',
         unheard' \in 0..MaxUnheard,
         says # "not found" => <<lookup.of, did>> \in held,
         says = "moved for good" => current # lookup.of /\ <<current, did>> \in held
  PROVE  HandleInv'
<1>1. lookup \in LinkLookup /\ lookup.of \in Handle
  BY DEF HandleInv, HandleTypeOK, LinkLookup
<1>2. reply' = [of |-> lookup.of, says |-> says, did |-> did, current |-> current] /\ lookup' = NoErrand
  BY DEF Leads
<1>3. reply' \in Reply /\ reply'.of = lookup.of /\ reply'.says = says /\ reply'.did = did /\ reply'.current = current
  BY <1>1, <1>2 DEF Reply
<1>4. HandleTypeOK'
  BY <1>2, <1>3 DEF HandleInv, HandleTypeOK
<1>5. LinksLeadHome'
  BY <1>3 DEF LinksLeadHome
<1>6. HeldBy(holder)' /\ NotingTrue' /\ LookupTrue'
  BY <1>2 DEF HandleInv, HeldBy, NotingTrue, LookupTrue
<1> QED BY <1>4, <1>5, <1>6 DEF HandleInv

(* A lookup that goes on.                                                   *)
LEMMA GoesOnKeeps ==
  ASSUME HandleInv, lookup # NoErrand, NEW l \in LinkLookup, lookup' = l, l.of = lookup.of,
         UNCHANGED <<holder, claim, formerly, noting, held, renames, lookups, noted, reply>>,
         resolved' \in [Handle -> Account \cup {Nobody}], HeldBy(resolved)',
         unheard' \in 0..MaxUnheard,
         l.at \in {"document", "verify", "note"} => <<l.of, l.did>> \in held,
         l.at \in {"verify", "note"} => l.current \in Handle /\ l.current # l.of,
         l.at = "note" => <<l.current, l.did>> \in held
  PROVE  HandleInv'
<1>1. HandleTypeOK'
  BY DEF HandleInv, HandleTypeOK
<1>2. LookupTrue'
  BY DEF LookupTrue
<1> QED BY <1>1, <1>2 DEF HandleInv, HeldBy, NotingTrue, LinksLeadHome

LEMMA ResolveLinkKeeps == HandleInv /\ ResolveLink => HandleInv'
<1> SUFFICES ASSUME HandleInv, ResolveLink PROVE HandleInv'
  OBVIOUS
<1>1. lookup # NoErrand /\ lookup \in LinkLookup /\ lookup.at = "resolve"
  BY DEF ResolveLink, HandleInv, HandleTypeOK
<1>2. PICK h \in Handle : h = lookup.of
  BY <1>1 DEF LinkLookup
<1>3. UNCHANGED <<holder, claim, formerly, noting, held, renames, lookups, noted>>
  BY DEF ResolveLink
<1>4. PICK fails \in BOOLEAN :
        /\ Resolves(h, fails) /\ resolved' = KeptAtEdge(h, fails)
        /\ IF Resolution(h, fails) # Nobody THEN Leads("page", Resolution(h, fails), NoHandle)
           ELSE lookup' = [lookup EXCEPT !.at = "row"] /\ UNCHANGED reply
  BY <1>2 DEF ResolveLink
<1>5. PICK did \in Account \cup {Nobody} : did = Resolution(h, fails) /\ (did # Nobody => <<h, did>> \in held)
  BY <1>4, ResolutionHeld
<1>6. resolved' \in [Handle -> Account \cup {Nobody}] /\ unheard' \in 0..MaxUnheard
  BY <1>4, ResolutionHeld
<1>7. HeldBy(resolved)'
  BY <1>3, <1>4, ResolutionHeld DEF HeldBy
<1>8. formerly' \in [Handle -> Account \cup {Nobody}] /\ HeldBy(formerly)'
  BY <1>3 DEF HandleInv, HandleTypeOK, HeldBy
<1>9. CASE did # Nobody
  <2>1. Leads("page", did, NoHandle)
    BY <1>4, <1>5, <1>9
  <2> QED BY <1>1, <1>2, <1>3, <1>5, <1>6, <1>7, <1>8, <1>9, <2>1, LeadsKeeps
<1>10. CASE did = Nobody
  <2>1. PICK l : l = [lookup EXCEPT !.at = "row"]
    OBVIOUS
  <2>2. l \in LinkLookup /\ l.of = lookup.of /\ l.at = "row"
    BY <1>1, <2>1 DEF LinkLookup
  <2>3. lookup' = l /\ UNCHANGED reply
    BY <1>4, <1>5, <1>10, <2>1
  <2> QED BY <1>1, <1>3, <1>6, <1>7, <2>2, <2>3, GoesOnKeeps
<1> QED BY <1>9, <1>10

LEMMA FindRowKeeps == HandleInv /\ FindRow => HandleInv'
<1> SUFFICES ASSUME HandleInv, FindRow PROVE HandleInv'
  OBVIOUS
<1>1. lookup # NoErrand /\ lookup \in LinkLookup /\ lookup.of \in Handle
  BY DEF FindRow, HandleInv, HandleTypeOK, LinkLookup
<1>2. UNCHANGED <<holder, claim, resolved, formerly, noting, held, renames, lookups, noted>>
  BY DEF FindRow
<1>3. PICK did \in Account \cup {Nobody} : did = formerly[lookup.of] /\ (did # Nobody => <<lookup.of, did>> \in held)
  BY <1>1 DEF HandleInv, HandleTypeOK, HeldBy
<1>4. PICK l : l = [lookup EXCEPT !.at = "document", !.did = did]
  OBVIOUS
<1>5. PICK fails \in BOOLEAN :
       /\ MayGoUnheard(fails)
       /\ IF fails \/ did = Nobody THEN Leads("not found", Nobody, NoHandle)
          ELSE lookup' = l /\ UNCHANGED reply
  BY <1>3, <1>4 DEF FindRow
<1>6. unheard' \in 0..MaxUnheard
  BY <1>5, UnheardBounded
<1>7. /\ resolved' \in [Handle -> Account \cup {Nobody}] /\ HeldBy(resolved)'
      /\ formerly' \in [Handle -> Account \cup {Nobody}] /\ HeldBy(formerly)'
  BY <1>2 DEF HandleInv, HandleTypeOK, HeldBy
<1>8. CASE fails \/ did = Nobody
  <2>1. Leads("not found", Nobody, NoHandle)
    BY <1>5, <1>8
  <2> QED BY <1>1, <1>2, <1>6, <1>7, <2>1, LeadsKeeps
<1>9. CASE ~fails /\ did # Nobody
  <2>1. lookup' = l /\ UNCHANGED reply
    BY <1>5, <1>9
  <2>2. l \in LinkLookup /\ l.of = lookup.of /\ l.at = "document" /\ l.did = did
    BY <1>1, <1>3, <1>4 DEF LinkLookup
  <2> QED BY <1>1, <1>2, <1>3, <1>6, <1>7, <1>9, <2>1, <2>2, GoesOnKeeps
<1> QED BY <1>8, <1>9

LEMMA ReadDocumentKeeps == HandleInv /\ ReadDocument => HandleInv'
<1> SUFFICES ASSUME HandleInv, ReadDocument PROVE HandleInv'
  OBVIOUS
<1>1. lookup # NoErrand /\ lookup \in LinkLookup /\ lookup.of \in Handle /\ lookup.at = "document"
  BY DEF ReadDocument, HandleInv, HandleTypeOK, LinkLookup
<1>2. UNCHANGED <<holder, claim, resolved, formerly, noting, held, renames, lookups, noted>>
  BY DEF ReadDocument
<1>3. <<lookup.of, lookup.did>> \in held /\ lookup.did \in Account
  BY <1>1 DEF HandleInv, LookupTrue, HandleTypeOK
<1>4. PICK current \in Handle \cup {NoHandle} : current = claim[lookup.did]
  BY <1>3 DEF HandleInv, HandleTypeOK
<1>5. PICK l : l = [lookup EXCEPT !.at = "verify", !.current = current]
  OBVIOUS
<1>6. PICK fails \in BOOLEAN :
       /\ MayGoUnheard(fails)
       /\ IF fails \/ current = lookup.of THEN Leads("not found", Nobody, NoHandle)
          ELSE IF current = NoHandle THEN Leads("by DID", lookup.did, NoHandle)
          ELSE lookup' = l /\ UNCHANGED reply
  BY <1>4, <1>5 DEF ReadDocument, StillClaims
<1>7. unheard' \in 0..MaxUnheard
  BY <1>6, UnheardBounded
<1>8. /\ resolved' \in [Handle -> Account \cup {Nobody}] /\ HeldBy(resolved)'
      /\ formerly' \in [Handle -> Account \cup {Nobody}] /\ HeldBy(formerly)'
  BY <1>2 DEF HandleInv, HandleTypeOK, HeldBy
<1>9. CASE fails \/ current = lookup.of
  <2>1. Leads("not found", Nobody, NoHandle)
    BY <1>6, <1>9
  <2> QED BY <1>1, <1>2, <1>7, <1>8, <2>1, LeadsKeeps
<1>10. CASE ~(fails \/ current = lookup.of) /\ current = NoHandle
  <2>1. PICK did \in Account : did = lookup.did
    BY <1>3
  <2>2. Leads("by DID", did, NoHandle)
    BY <1>6, <1>10, <2>1
  <2> QED BY <1>1, <1>2, <1>3, <1>7, <1>8, <2>1, <2>2, LeadsKeeps
<1>11. CASE ~(fails \/ current = lookup.of) /\ current # NoHandle
  <2>1. lookup' = l /\ UNCHANGED reply
    BY <1>6, <1>11
  <2>2. l \in LinkLookup /\ l.of = lookup.of /\ l.at = "verify" /\ l.did = lookup.did /\ l.current = current
    BY <1>1, <1>5 DEF LinkLookup
  <2> QED BY <1>1, <1>2, <1>3, <1>4, <1>7, <1>8, <1>11, <2>1, <2>2, GoesOnKeeps
<1> QED BY <1>9, <1>10, <1>11

LEMMA VerifyCurrentKeeps == HandleInv /\ VerifyCurrent => HandleInv'
<1> SUFFICES ASSUME HandleInv, VerifyCurrent PROVE HandleInv'
  OBVIOUS
<1>1. lookup # NoErrand /\ lookup \in LinkLookup /\ lookup.at = "verify"
  BY DEF VerifyCurrent, HandleInv, HandleTypeOK, LinkLookup
<1>2. <<lookup.of, lookup.did>> \in held /\ lookup.did \in Account
  BY <1>1 DEF HandleInv, LookupTrue, HandleTypeOK
<1>3. PICK h \in Handle : h = lookup.current /\ h # lookup.of
  BY <1>1 DEF HandleInv, LookupTrue
<1>4. UNCHANGED <<holder, claim, formerly, noting, held, renames, lookups, noted>>
  BY DEF VerifyCurrent
<1>5. PICK l : l = [lookup EXCEPT !.at = "note"]
  OBVIOUS
<1>6. PICK fails \in BOOLEAN :
        /\ Resolves(h, fails) /\ resolved' = KeptAtEdge(h, fails)
        /\ IF Resolution(h, fails) = lookup.did THEN lookup' = l /\ UNCHANGED reply
           ELSE Leads("by DID", lookup.did, NoHandle)
  BY <1>3, <1>5 DEF VerifyCurrent, ResolvesBack
<1>7. PICK did \in Account \cup {Nobody} : did = Resolution(h, fails) /\ (did # Nobody => <<h, did>> \in held)
  BY <1>6, ResolutionHeld
<1>8. resolved' \in [Handle -> Account \cup {Nobody}] /\ unheard' \in 0..MaxUnheard
  BY <1>6, ResolutionHeld
<1>9. HeldBy(resolved)'
  BY <1>4, <1>6, ResolutionHeld DEF HeldBy
<1>10. formerly' \in [Handle -> Account \cup {Nobody}] /\ HeldBy(formerly)'
  BY <1>4 DEF HandleInv, HandleTypeOK, HeldBy
<1>11. CASE did = lookup.did
  <2>1. lookup' = l /\ UNCHANGED reply
    BY <1>6, <1>7, <1>11
  <2>2. l \in LinkLookup /\ l.of = lookup.of /\ l.at = "note" /\ l.did = lookup.did /\ l.current = h
    BY <1>1, <1>3, <1>5 DEF LinkLookup
  <2>3. did # Nobody
    BY <1>2, <1>11, HandleNullsAssumption
  <2> QED BY <1>1, <1>2, <1>3, <1>4, <1>7, <1>8, <1>9, <1>11, <2>1, <2>2, <2>3, GoesOnKeeps
<1>12. CASE did # lookup.did
  <2>1. PICK d \in Account : d = lookup.did
    BY <1>2
  <2>2. Leads("by DID", d, NoHandle)
    BY <1>6, <1>7, <1>12, <2>1
  <2> QED BY <1>1, <1>2, <1>4, <1>8, <1>9, <1>10, <2>1, <2>2, LeadsKeeps
<1> QED BY <1>11, <1>12

LEMMA RedirectKeeps == HandleInv /\ RedirectForGood => HandleInv'
<1> SUFFICES ASSUME HandleInv, RedirectForGood PROVE HandleInv'
  OBVIOUS
<1>1. lookup # NoErrand /\ lookup \in LinkLookup /\ lookup.at = "note"
  BY DEF RedirectForGood, HandleInv, HandleTypeOK, LinkLookup
<1>2. PICK did \in Account : did = lookup.did /\ <<lookup.of, did>> \in held
  BY <1>1 DEF HandleInv, LookupTrue, HandleTypeOK
<1>3. PICK h \in Handle : h = lookup.current /\ h # lookup.of /\ <<h, did>> \in held
  BY <1>1, <1>2 DEF HandleInv, LookupTrue
<1>4. UNCHANGED <<holder, claim, resolved, noting, held, renames, lookups, noted>>
  BY DEF RedirectForGood
<1>5. PICK fails \in BOOLEAN :
        MayGoUnheard(fails) /\ formerly' = IF fails THEN formerly ELSE [formerly EXCEPT ![h] = did]
  BY <1>2, <1>3 DEF RedirectForGood
<1>6. unheard' \in 0..MaxUnheard
  BY <1>5, UnheardBounded
<1>7. formerly' \in [Handle -> Account \cup {Nobody}] /\ HeldBy(formerly)'
  BY <1>3, <1>4, <1>5 DEF HandleInv, HandleTypeOK, HeldBy
<1>8. resolved' \in [Handle -> Account \cup {Nobody}] /\ HeldBy(resolved)'
  BY <1>4 DEF HandleInv, HandleTypeOK, HeldBy
<1>9. Leads("moved for good", did, h)
  BY <1>2, <1>3 DEF RedirectForGood
<1> QED BY <1>1, <1>2, <1>3, <1>4, <1>6, <1>7, <1>8, <1>9, LeadsKeeps

LEMMA HandleNextInv == HandleInv /\ [HandleNext]_handleVars => HandleInv'
<1> SUFFICES ASSUME HandleInv, [HandleNext]_handleVars PROVE HandleInv'
  OBVIOUS
<1>1. CASE UNCHANGED handleVars
  BY <1>1 DEF handleVars, HandleInv, HandleTypeOK, HeldBy, NotingTrue, LookupTrue, LinksLeadHome
<1>2. CASE HandleNext
  BY <1>2, NetworkKeeps, NotingKeeps, ResolveLinkKeeps, FindRowKeeps, ReadDocumentKeeps,
     VerifyCurrentKeeps, RedirectKeeps DEF HandleNext
<1> QED BY <1>1, <1>2

(* A link to a handle leads only to an account that has held it, and for    *)
(* good only under another handle that account has held (resolveIdent,      *)
(* formerHandleTarget, recordWriterHandle): for any number of accounts and  *)
(* handles, of changes of them, and of links followed.                      *)
THEOREM LinksLeadHomeHolds == HandleSpec => []LinksLeadHome
<1>1. HandleInv => LinksLeadHome
  BY DEF HandleInv
<1> QED BY HandleInitInv, HandleNextInv, <1>1, PTL DEF HandleSpec

-----------------------------------------------------------------------------
(* The reader forms.                                                        *)

(* The form on a page: without script it never sends and holds no token; a  *)
(* submit about to be posted has left nothing yet.                          *)
FormTrue ==
  stranger # NoStranger =>
    /\ pages > 0 /\ stranger.token <= minting
    /\ ~stranger.js => stranger.token = 0
    /\ stranger.shows = "sending" /\ entry = NoEntry => sentForms > 0 /\ sentForms \notin entries

(* An entry under way: the page that sent it still waits, or is gone, and   *)
(* another has sent nothing and has a token of its own; what it was told is *)
(* so.                                                                      *)
EntryTrue ==
  entry # NoEntry =>
    /\ sentForms > 0 /\ entry.token <= minting /\ (entry.native => entry.token = 0)
    /\ entry.from # 0 =>
         /\ stranger # NoStranger
         /\ stranger.shows = IF entry.native THEN "idle" ELSE "sending"
    /\ entry.from = 0 /\ stranger # NoStranger =>
         stranger.shows = "idle" /\ (stranger.token # 0 => stranger.token # entry.token)
    /\ entry.says = "request" => ~entry.sound
    /\ entry.says = "ok" => entries # {} /\ (formKind = "report" => sentForms \in entries)
    /\ entry.says # "ok" => sentForms \notin entries

LedgerTrue ==
  entries \subseteq 1..sentForms /\ (first = 0 <=> entries = {}) /\ spent \subseteq 1..minting

FormsInv == FormsTypeOK /\ FormTrue /\ EntryTrue /\ LedgerTrue /\ FormsAreTrue

LEMMA FormBounds ==
  MaxTokens \in Nat /\ MaxPages \in Nat /\ MaxSent \in Nat /\ MaxMishaps \in Nat
BY ReaderFormsAssumption

LEMMA FormsInitInv == FormsInit => FormsInv
BY FormBounds DEF FormsInit, FormsInv, FormsTypeOK, FormTrue, EntryTrue, LedgerTrue, FormsAreTrue

LEMMA MissBounded ==
  ASSUME FormsInv, NEW fails \in BOOLEAN, MayMiss(fails) PROVE mishaps' \in 0..MaxMishaps
<1>1. (fails => mishaps < MaxMishaps) /\ mishaps' = IF fails THEN mishaps + 1 ELSE mishaps
  BY DEF MayMiss
<1> QED BY <1>1, FormBounds DEF FormsInv, FormsTypeOK

(* A page opened, or left.                                                  *)
LEMMA PagesKeepForms ==
  ASSUME FormsInv, OpenForm \/ LeaveForm
  PROVE  FormsInv'
<1>1. CASE OpenForm
  <2>1. UNCHANGED <<formKind, sitekey, secret, entry, minting, spent, entries, first, sentForms, mishaps>>
        /\ stranger = NoStranger
    BY <1>1 DEF OpenForm
  <2>2. pages' \in 0..MaxPages /\ pages' > 0
    BY <1>1, FormBounds DEF OpenForm, FormsInv, FormsTypeOK
  <2>3. PICK js \in BOOLEAN :
          stranger' = [js |-> js, shows |-> "idle", challenge |-> "none", solved |-> FALSE, token |-> 0]
    BY <1>1 DEF OpenForm
  <2>4. stranger' \in Stranger /\ stranger'.shows = "idle" /\ stranger'.token = 0
    BY <2>3, FormBounds DEF Stranger
  <2>5. FormsTypeOK'
    BY <2>1, <2>2, <2>4 DEF FormsInv, FormsTypeOK
  <2>6. FormTrue' /\ EntryTrue' /\ LedgerTrue' /\ FormsAreTrue'
    BY <2>1, <2>2, <2>4 DEF FormsInv, FormsTypeOK, FormTrue, EntryTrue, LedgerTrue, FormsAreTrue
  <2> QED BY <2>5, <2>6 DEF FormsInv
<1>2. CASE LeaveForm
  <2>1. UNCHANGED <<formKind, sitekey, secret, minting, spent, entries, first, pages, sentForms, mishaps>>
        /\ stranger' = NoStranger
    BY <1>2 DEF LeaveForm
  <2>2. CASE entry = NoEntry
    <3>1. entry' = NoEntry
      BY <1>2, <2>2 DEF LeaveForm
    <3> QED BY <2>1, <2>2, <3>1 DEF FormsInv, FormsTypeOK, FormTrue, EntryTrue, LedgerTrue, FormsAreTrue
  <2>3. CASE entry # NoEntry
    <3>1. entry' = [entry EXCEPT !.from = 0] /\ entry \in Entry
      BY <1>2, <2>3 DEF LeaveForm, FormsInv, FormsTypeOK
    <3>2. /\ entry' \in Entry /\ entry'.from = 0 /\ entry'.token = entry.token /\ entry'.native = entry.native
          /\ entry'.says = entry.says /\ entry'.sound = entry.sound
      BY <3>1, FormBounds DEF Entry
    <3> QED BY <2>1, <2>3, <3>2 DEF FormsInv, FormsTypeOK, FormTrue, EntryTrue, LedgerTrue, FormsAreTrue
  <2> QED BY <2>2, <2>3
<1> QED BY <1>1, <1>2

(* The challenge: a token given is none that an entry has or that is spent. *)
LEMMA WidgetKeeps ==
  ASSUME FormsInv, StartChallenge \/ RenderWidget \/ Solve
  PROVE  FormsInv'
<1>1. UNCHANGED <<formKind, sitekey, secret, entry, spent, entries, first, pages, sentForms, mishaps>>
  BY DEF StartChallenge, RenderWidget, Solve, WidgetOnly
<1>2. stranger # NoStranger /\ stranger \in Stranger /\ stranger.js
  BY DEF StartChallenge, RenderWidget, Solve, FormShown, ScriptRuns, FormsInv, FormsTypeOK
<1>3. /\ stranger' \in Stranger /\ stranger'.shows = stranger.shows /\ stranger'.js
      /\ minting' \in 0..MaxTokens /\ minting' >= minting
      /\ \/ stranger'.token = stranger.token
         \/ stranger'.token = minting + 1 /\ minting' = minting + 1
  <2>1. CASE StartChallenge \/ RenderWidget
    <3>1. PICK c \in {"asked", "rendered"} : stranger' = [stranger EXCEPT !.challenge = c]
      BY <2>1 DEF StartChallenge, RenderWidget
    <3>2. minting' = minting /\ minting \in 0..MaxTokens
      BY <2>1 DEF StartChallenge, RenderWidget, FormsInv, FormsTypeOK
    <3>3. stranger' \in Stranger /\ stranger'.shows = stranger.shows /\ stranger'.js /\ stranger'.token = stranger.token
      BY <1>2, <3>1 DEF Stranger
    <3> QED BY <3>2, <3>3
  <2>2. CASE Solve
    <3>1. PICK n \in 0..MaxTokens : n = minting + 1
      BY <2>2, FormBounds DEF Solve, FormsInv, FormsTypeOK
    <3>2. minting' = n /\ stranger' = [stranger EXCEPT !.token = n, !.solved = TRUE]
      BY <2>2, <3>1 DEF Solve
    <3>3. stranger' \in Stranger /\ stranger'.shows = stranger.shows /\ stranger'.js /\ stranger'.token = n
      BY <1>2, <3>2 DEF Stranger
    <3> QED BY <3>1, <3>2, <3>3 DEF FormsInv, FormsTypeOK
  <2> QED BY <2>1, <2>2
<1>4. FormsTypeOK'
  BY <1>1, <1>3 DEF FormsInv, FormsTypeOK
<1>a. stranger' # NoStranger /\ stranger.token \in 0..MaxTokens /\ (entry # NoEntry => entry.token \in 0..MaxTokens)
  BY <1>2, <1>3, FormNullsAssumption DEF Stranger, Entry, FormsInv, FormsTypeOK
<1>b. minting \in Nat /\ minting' \in Nat
  BY <1>3 DEF FormsInv, FormsTypeOK
<1>c. stranger.token <= minting /\ (entry # NoEntry => entry.token <= minting) /\ spent \subseteq 1..minting
  BY <1>2 DEF FormsInv, FormTrue, EntryTrue, LedgerTrue
<1>5. FormTrue'
  BY <1>1, <1>2, <1>3, <1>a, <1>b, <1>c DEF FormsInv, FormTrue
<1>6. EntryTrue'
  BY <1>1, <1>2, <1>3, <1>a, <1>b, <1>c DEF FormsInv, EntryTrue
<1>7. LedgerTrue'
  <2>1. \A n \in 1..minting : n \in 1..minting'
    BY <1>3, <1>b
  <2> QED BY <1>1, <1>c, <2>1 DEF FormsInv, LedgerTrue
<1>8. FormsAreTrue'
  <2>1. minting + 1 \notin spent
    BY <1>b, <1>c
  <2> QED BY <1>1, <1>2, <1>3, <2>1 DEF FormsInv, FormsAreTrue
<1> QED BY <1>4, <1>5, <1>6, <1>7, <1>8 DEF FormsInv

(* A submit, and its posting.                                               *)
LEMMA SubmitKeeps ==
  ASSUME FormsInv, SubmitForm \/ PostForm \/ SubmitNatively
  PROVE  FormsInv'
<1>1. /\ UNCHANGED <<formKind, sitekey, secret, minting, spent, entries, first, pages>>
      /\ entry = NoEntry /\ stranger # NoStranger /\ stranger \in Stranger
  BY DEF SubmitForm, PostForm, SubmitNatively, FormShown, ScriptRuns, FormsInv, FormsTypeOK
<1>2. stranger.token \in 0..MaxTokens /\ stranger.token <= minting /\ pages > 0 /\ pages \in 0..MaxPages
  BY <1>1 DEF Stranger, FormsInv, FormsTypeOK, FormTrue
<1>3. ASSUME NEW n \in 0..MaxSent, sentForms < MaxSent, n = sentForms + 1
      PROVE  n > 0 /\ n \notin entries /\ entries \subseteq 1..n
  BY <1>3, FormBounds DEF FormsInv, FormsTypeOK, LedgerTrue
<1>4. CASE SubmitForm
  <2>1. PICK n \in 0..MaxSent : n = sentForms + 1 /\ sentForms < MaxSent
    BY <1>4, FormBounds DEF SubmitForm, FormsInv, FormsTypeOK
  <2>2. PICK c \in {"none", "asked", "rendered"} :
          c = IF sitekey /\ stranger.challenge = "none" THEN "asked" ELSE stranger.challenge
    BY <1>1 DEF Stranger
  <2>3. sentForms' = n /\ stranger' = [stranger EXCEPT !.shows = "sending", !.challenge = c] /\ UNCHANGED <<entry, mishaps>>
    BY <1>4, <2>1, <2>2 DEF SubmitForm
  <2>4. stranger' \in Stranger /\ stranger'.shows = "sending" /\ stranger'.token = stranger.token /\ stranger'.js = stranger.js
    BY <1>1, <2>3 DEF Stranger
  <2>5. FormsTypeOK'
    BY <1>1, <2>3, <2>4 DEF FormsInv, FormsTypeOK
  <2>6. FormTrue' /\ EntryTrue' /\ LedgerTrue'
    BY <1>1, <1>2, <1>3, <2>1, <2>3, <2>4 DEF FormsInv, FormTrue, EntryTrue, LedgerTrue
  <2>7. FormsAreTrue'
    BY <1>1, <2>3, <2>4 DEF FormsInv, FormsAreTrue
  <2> QED BY <2>5, <2>6, <2>7 DEF FormsInv
<1>5. CASE PostForm
  <2>1. UNCHANGED <<stranger, sentForms>> /\ stranger.shows = "sending"
    BY <1>5 DEF PostForm
  <2>2. PICK late \in BOOLEAN : MayMiss(late)
    BY <1>5 DEF PostForm
  <2>3. mishaps' \in 0..MaxMishaps
    BY <2>2, MissBounded
  <2>4. PICK valid \in BOOLEAN :
          entry' = [from |-> pages, native |-> FALSE, token |-> stranger.token, valid |-> valid,
                    says |-> "request", sound |-> FALSE]
    BY <1>5 DEF PostForm, Posts
  <2>5. /\ entry' \in Entry /\ entry'.from = pages /\ entry'.native = FALSE /\ entry'.token = stranger.token
        /\ entry'.says = "request" /\ entry'.sound = FALSE
    BY <1>2, <2>4 DEF Entry
  <2>6. sentForms > 0 /\ sentForms \notin entries
    BY <1>1, <2>1 DEF FormsInv, FormTrue
  <2>7. FormsTypeOK'
    BY <1>1, <2>1, <2>3, <2>5 DEF FormsInv, FormsTypeOK
  <2>8. FormTrue' /\ LedgerTrue' /\ FormsAreTrue'
    BY <1>1, <2>1, <2>5, <2>6 DEF FormsInv, FormTrue, LedgerTrue, FormsAreTrue
  <2>9. EntryTrue'
    BY <1>1, <1>2, <2>1, <2>5, <2>6 DEF EntryTrue
  <2> QED BY <2>7, <2>8, <2>9 DEF FormsInv
<1>6. CASE SubmitNatively
  <2>1. PICK n \in 0..MaxSent : n = sentForms + 1 /\ sentForms < MaxSent
    BY <1>6, FormBounds DEF SubmitNatively, FormsInv, FormsTypeOK
  <2>2. sentForms' = n /\ UNCHANGED <<stranger, mishaps>> /\ stranger.shows = "idle"
    BY <1>6, <2>1 DEF SubmitNatively
  <2>3. PICK valid \in BOOLEAN :
          entry' = [from |-> pages, native |-> TRUE, token |-> 0, valid |-> valid,
                    says |-> "request", sound |-> FALSE]
    BY <1>6 DEF SubmitNatively, Posts
  <2>4. /\ entry' \in Entry /\ entry'.from = pages /\ entry'.native = TRUE /\ entry'.token = 0
        /\ entry'.says = "request" /\ entry'.sound = FALSE
    BY <1>2, <2>3, FormBounds DEF Entry
  <2>5. FormsTypeOK'
    BY <1>1, <2>2, <2>4 DEF FormsInv, FormsTypeOK
  <2>6. minting \in Nat
    BY DEF FormsInv, FormsTypeOK
  <2>7. FormTrue' /\ LedgerTrue' /\ FormsAreTrue'
    BY <1>1, <1>3, <2>1, <2>2, <2>4 DEF FormsInv, FormTrue, LedgerTrue, FormsAreTrue
  <2>8. EntryTrue'
    BY <1>1, <1>2, <1>3, <2>1, <2>2, <2>4, <2>6 DEF EntryTrue
  <2> QED BY <2>5, <2>7, <2>8 DEF FormsInv
<1> QED BY <1>4, <1>5, <1>6

(* The endpoint: what it says of an entry is what it did with it.           *)
LEMMA HandledKeeps ==
  ASSUME FormsInv, entry # NoEntry, entry.says = "request",
         UNCHANGED <<formKind, sitekey, secret, stranger, minting, pages, sentForms>>,
         mishaps' \in 0..MaxMishaps, NEW wrote \in BOOLEAN,
         NEW says \in {"ok", "refused", "broken"}, says = "ok" <=> wrote,
         spent \subseteq spent', spent' \subseteq spent \cup {entry.token}, spent' = spent \/ entry.token # 0,
         entries' = IF wrote THEN Inserted(sentForms) ELSE entries,
         first' = IF wrote /\ first = 0 THEN sentForms ELSE first,
         entry' = [entry EXCEPT !.sound = wrote, !.says = says]
  PROVE  FormsInv'
<1>1. entry \in Entry
  BY DEF FormsInv, FormsTypeOK
<1>2. /\ entry' \in Entry /\ entry'.sound = wrote /\ entry'.says = says /\ entry'.from = entry.from
      /\ entry'.token = entry.token /\ entry'.native = entry.native
  BY <1>1 DEF Entry
<1>3. sentForms \in 1..MaxSent /\ entry.token \in 0..MaxTokens /\ minting \in Nat /\ entry.token <= minting /\ MaxTokens \in Nat
  BY <1>1, FormBounds DEF FormsInv, FormsTypeOK, EntryTrue, Entry
<1>4. sentForms \notin entries
  BY DEF FormsInv, EntryTrue
<1>5. /\ entries' \subseteq entries \cup {sentForms} /\ entries \subseteq entries'
      /\ ~wrote => entries' = entries
      /\ wrote => entries' # {} /\ (formKind = "report" => sentForms \in entries')
  BY DEF Inserted
<1>6. entries \subseteq 1..MaxSent /\ entries \subseteq 1..sentForms
  BY DEF FormsInv, FormsTypeOK, LedgerTrue
<1>7. entries' \subseteq 1..MaxSent /\ entries' \subseteq 1..sentForms
  BY <1>3, <1>5, <1>6
<1>8. spent' \subseteq Token /\ spent' \subseteq 1..minting
  <2>1. spent \subseteq Token /\ spent \subseteq 1..minting
    BY DEF FormsInv, FormsTypeOK, LedgerTrue
  <2>2. entry.token # 0 => entry.token \in Token /\ entry.token \in 1..minting
    BY <1>3 DEF Token
  <2> QED BY <2>1, <2>2
<1>9. first' \in 0..MaxSent
  BY <1>3 DEF FormsInv, FormsTypeOK
<1>10. FormsTypeOK'
  BY <1>2, <1>7, <1>8, <1>9 DEF FormsInv, FormsTypeOK
<1>11. entry' # NoEntry
  BY <1>2, FormNullsAssumption
<1>12. FormTrue'
  BY <1>11 DEF FormsInv, FormTrue
<1>13. EntryTrue'
  BY <1>2, <1>4, <1>5 DEF FormsInv, EntryTrue
<1>14. LedgerTrue'
  <2>1. first' = 0 <=> entries' = {}
    BY <1>3, <1>5 DEF FormsInv, LedgerTrue
  <2> QED BY <1>7, <1>8, <2>1 DEF LedgerTrue
<1>15. formKind # "report" => entries' \subseteq {first'}
  <2> SUFFICES ASSUME formKind # "report" PROVE entries' \subseteq {first'}
    OBVIOUS
  <2>1. entries \subseteq {first} /\ (first = 0 <=> entries = {})
    BY DEF FormsInv, FormsAreTrue, LedgerTrue
  <2>2. CASE wrote /\ entries = {}
    BY <2>1, <2>2 DEF Inserted
  <2>3. CASE ~wrote \/ entries # {}
    BY <2>1, <2>3 DEF Inserted
  <2> QED BY <2>2, <2>3
<1>16. ASSUME stranger # NoStranger
       PROVE  /\ stranger.shows \in {"done", "saved page"} => entries' # {}
              /\ formKind = "report" /\ stranger.shows = "done" => sentForms \in entries'
              /\ stranger.shows = "nothing saved" => sentForms \notin entries'
              /\ stranger.shows \in {"idle", "error"} /\ stranger.token # 0 => stranger.token \notin spent'
  <2>1. stranger.shows \in {"idle", "sending"}
    BY <1>16, <1>1 DEF FormsInv, EntryTrue, Entry
  <2>2. stranger.shows = "idle" /\ stranger.token # 0 /\ entry.token # 0 => stranger.token # entry.token
    BY <1>16 DEF FormsInv, EntryTrue
  <2>3. stranger.shows = "idle" /\ stranger.token # 0 => stranger.token \notin spent
    BY <1>16 DEF FormsInv, FormsAreTrue
  <2> QED BY <2>1, <2>2, <2>3
<1>17. FormsAreTrue'
  BY <1>2, <1>15, <1>16 DEF FormsAreTrue
<1> QED BY <1>10, <1>12, <1>13, <1>14, <1>17 DEF FormsInv

LEMMA HandleEntryKeeps == FormsInv /\ HandleEntry => FormsInv'
<1> SUFFICES ASSUME FormsInv, HandleEntry PROVE FormsInv'
  OBVIOUS
<1>1. entry # NoEntry /\ entry.says = "request" /\ entry \in Entry
      /\ UNCHANGED <<formKind, sitekey, secret, stranger, minting, pages, sentForms>>
  BY DEF HandleEntry, FormsInv, FormsTypeOK
<1>2. PICK checkFails \in BOOLEAN, writeFails \in BOOLEAN :
       LET asks  == entry.valid /\ ChecksToken
           human == entry.valid /\ IsHuman(checkFails)
           wrote == human /\ ~Throws(writeFails)
       IN  /\ checkFails => asks
           /\ writeFails => human
           /\ MayMiss(checkFails \/ writeFails)
           /\ spent' \in IF checkFails THEN {spent, spent \cup {entry.token}}
                         ELSE {IF asks THEN spent \cup {entry.token} ELSE spent}
           /\ entries' = IF wrote THEN Inserted(sentForms) ELSE entries
           /\ first' = IF wrote /\ first = 0 THEN sentForms ELSE first
           /\ entry' = [entry EXCEPT !.sound = human /\ ~writeFails,
                          !.says = IF wrote THEN "ok" ELSE IF human THEN "broken" ELSE "refused"]
  BY DEF HandleEntry
<1>3. PICK asks \in BOOLEAN : asks = (entry.valid /\ ChecksToken)
  BY <1>1 DEF Entry
<1>4. PICK human \in BOOLEAN : human = (entry.valid /\ IsHuman(checkFails))
  BY <1>1 DEF Entry
<1>5. PICK wrote \in BOOLEAN : wrote = (human /\ ~writeFails)
  OBVIOUS
<1>6. PICK says \in {"ok", "refused", "broken"} :
        says = IF wrote THEN "ok" ELSE IF human THEN "broken" ELSE "refused"
  OBVIOUS
<1>7. PICK fails \in BOOLEAN : fails = (checkFails \/ writeFails)
  OBVIOUS
<1>8. MayMiss(fails)
  BY <1>2, <1>7
<1>9. mishaps' \in 0..MaxMishaps
  BY <1>8, MissBounded
<1>10. asks => entry.token # 0
  BY <1>3 DEF ChecksToken
<1>11. (checkFails => asks) /\ spent' \in IF checkFails THEN {spent, spent \cup {entry.token}}
                         ELSE {IF asks THEN spent \cup {entry.token} ELSE spent}
  BY <1>2, <1>3
<1>12. /\ entries' = IF wrote THEN Inserted(sentForms) ELSE entries
       /\ first' = IF wrote /\ first = 0 THEN sentForms ELSE first
  BY <1>2, <1>4, <1>5 DEF Throws
<1>13. entry' = [entry EXCEPT !.sound = wrote, !.says = says]
  BY <1>2, <1>4, <1>5, <1>6 DEF Throws
<1>14. spent \subseteq spent' /\ spent' \subseteq spent \cup {entry.token} /\ (spent' = spent \/ entry.token # 0)
  BY <1>10, <1>11
<1>15. says = "ok" <=> wrote
  BY <1>6
<1> QED BY <1>1, <1>9, <1>12, <1>13, <1>14, <1>15, HandledKeeps

LEMMA LoseRequestKeeps == FormsInv /\ LoseRequest => FormsInv'
<1> SUFFICES ASSUME FormsInv, LoseRequest PROVE FormsInv'
  OBVIOUS
<1>1. entry # NoEntry /\ entry.says = "request" /\ entry \in Entry
      /\ UNCHANGED <<formKind, sitekey, secret, stranger, minting, spent, entries, first, pages, sentForms>>
  BY DEF LoseRequest, FormsInv, FormsTypeOK
<1>2. mishaps' \in 0..MaxMishaps
  BY MissBounded DEF LoseRequest
<1>3. entry' = [entry EXCEPT !.says = "broken"]
  BY DEF LoseRequest
<1>4. /\ entry' \in Entry /\ entry'.sound = entry.sound /\ entry'.says = "broken" /\ entry'.from = entry.from
      /\ entry'.token = entry.token /\ entry'.native = entry.native
  BY <1>1, <1>3 DEF Entry
<1>5. entry' # NoEntry
  BY <1>4, FormNullsAssumption
<1>6. FormsTypeOK'
  BY <1>1, <1>2, <1>4 DEF FormsInv, FormsTypeOK
<1>7. ~entry.sound
  BY <1>1 DEF FormsInv, EntryTrue
<1>8. EntryTrue'
  BY <1>1, <1>4 DEF FormsInv, EntryTrue
<1>9. FormTrue' /\ LedgerTrue'
  BY <1>1, <1>5 DEF FormsInv, FormTrue, LedgerTrue
<1>10. FormsAreTrue'
  BY <1>1, <1>4, <1>7 DEF FormsInv, FormsAreTrue
<1> QED BY <1>6, <1>8, <1>9, <1>10 DEF FormsInv

LEMMA AnswerFormKeeps == FormsInv /\ AnswerForm => FormsInv'
<1> SUFFICES ASSUME FormsInv, AnswerForm PROVE FormsInv'
  OBVIOUS
<1>1. entry # NoEntry /\ entry.says # "request" /\ entry \in Entry /\ entry' = NoEntry
      /\ UNCHANGED <<formKind, sitekey, secret, minting, spent, entries, first, pages, sentForms>>
  BY DEF AnswerForm, FormsInv, FormsTypeOK
<1>2. PICK amiss \in BOOLEAN :
       /\ MayMiss(amiss)
       /\ stranger' =
            IF entry.from = 0 THEN stranger
            ELSE IF entry.native
              THEN IF amiss \/ entry.says = "broken" THEN NoStranger
                   ELSE [stranger EXCEPT !.shows = SeeOther(entry.says)]
            ELSE IF ~amiss /\ Accepted(entry.says) THEN [stranger EXCEPT !.shows = "done"]
            ELSE [stranger EXCEPT !.shows = "error", !.token = Rearmed(stranger)]
  BY DEF AnswerForm
<1>3. mishaps' \in 0..MaxMishaps
  BY <1>2, MissBounded
<1>4. EntryTrue' /\ LedgerTrue' /\ entries' = entries
  BY <1>1 DEF FormsInv, EntryTrue, LedgerTrue
<1>5. (formKind # "report" => entries \subseteq {first})
  BY DEF FormsInv, FormsAreTrue
<1>a. minting \in Nat /\ 0 <= minting
  BY FormBounds DEF FormsInv, FormsTypeOK
<1>6. ASSUME stranger' = NoStranger PROVE FormsInv'
  BY <1>1, <1>3, <1>4, <1>5, <1>6 DEF FormsInv, FormsTypeOK, FormTrue, FormsAreTrue
<1>7. CASE entry.from = 0
  <2>1. stranger' = stranger
    BY <1>2, <1>7
  <2>2. stranger # NoStranger => stranger.shows = "idle"
    BY <1>1, <1>7 DEF FormsInv, EntryTrue
  <2>3. FormTrue' /\ FormsAreTrue' /\ FormsTypeOK'
    BY <1>1, <1>3, <1>5, <2>1, <2>2 DEF FormsInv, FormsTypeOK, FormTrue, FormsAreTrue
  <2> QED BY <1>4, <2>3 DEF FormsInv
<1>8. ASSUME entry.from # 0, NEW shows \in {"done", "error", "saved page", "nothing saved"}, NEW token \in 0..MaxTokens,
             stranger' = [stranger EXCEPT !.shows = shows, !.token = token], token \in {0, stranger.token},
             shows = "error" => token = 0,
             shows \in {"done", "saved page"} => entry.says = "ok",
             shows = "nothing saved" => entry.says # "ok"
      PROVE  FormsInv'
  <2>1. stranger # NoStranger /\ stranger \in Stranger
    BY <1>1, <1>8 DEF FormsInv, FormsTypeOK, EntryTrue
  <2>2. stranger' \in Stranger /\ stranger'.shows = shows /\ stranger'.token = token /\ stranger'.js = stranger.js
    BY <1>8, <2>1 DEF Stranger
  <2>3. FormsTypeOK'
    BY <1>1, <1>3, <2>2 DEF FormsInv, FormsTypeOK
  <2>4. stranger.token <= minting /\ pages > 0 /\ (~stranger.js => stranger.token = 0)
    BY <2>1 DEF FormsInv, FormTrue
  <2>8. token <= minting
    <3>1. CASE token = 0
      BY <1>a, <3>1
    <3>2. CASE token = stranger.token
      BY <2>4, <3>2
    <3> QED BY <1>8, <3>1, <3>2
  <2>9. ~stranger.js => token = 0
    BY <1>8, <2>4
  <2>6. FormTrue'
    BY <1>1, <1>8, <2>2, <2>4, <2>8, <2>9 DEF FormTrue
  <2>7. FormsAreTrue'
    BY <1>1, <1>5, <1>8, <2>2 DEF FormsInv, EntryTrue, FormsAreTrue
  <2> QED BY <1>4, <2>3, <2>6, <2>7 DEF FormsInv
<1>9. CASE entry.from # 0 /\ entry.native /\ ~(amiss \/ entry.says = "broken")
  <2>1. stranger # NoStranger /\ stranger \in Stranger
    BY <1>1, <1>9 DEF FormsInv, FormsTypeOK, EntryTrue
  <2>2. PICK shows \in {"saved page", "nothing saved"} : shows = IF entry.says = "ok" THEN "saved page" ELSE "nothing saved"
    OBVIOUS
  <2>3. PICK token \in 0..MaxTokens : token = stranger.token
    BY <2>1 DEF Stranger
  <2>4. stranger' = [stranger EXCEPT !.shows = shows]
    BY <1>2, <1>9, <2>2 DEF SeeOther
  <2>5. stranger' = [stranger EXCEPT !.shows = shows, !.token = token]
    BY <2>1, <2>3, <2>4 DEF Stranger
  <2> QED BY <1>8, <1>9, <2>2, <2>3, <2>5
<1>10. CASE entry.from # 0 /\ entry.native /\ (amiss \/ entry.says = "broken")
  BY <1>2, <1>6, <1>10
<1>11. CASE entry.from # 0 /\ ~entry.native /\ ~amiss /\ entry.says = "ok"
  <2>1. stranger # NoStranger /\ stranger \in Stranger
    BY <1>1, <1>11 DEF FormsInv, FormsTypeOK, EntryTrue
  <2>2. PICK token \in 0..MaxTokens : token = stranger.token
    BY <2>1 DEF Stranger
  <2>3. stranger' = [stranger EXCEPT !.shows = "done"]
    BY <1>2, <1>11 DEF Accepted
  <2>4. stranger' = [stranger EXCEPT !.shows = "done", !.token = token]
    BY <2>1, <2>2, <2>3 DEF Stranger
  <2> QED BY <1>8, <1>11, <2>2, <2>4
<1>12. CASE entry.from # 0 /\ ~entry.native /\ ~(~amiss /\ entry.says = "ok")
  <2>1. stranger' = [stranger EXCEPT !.shows = "error", !.token = 0]
    BY <1>2, <1>12 DEF Accepted, Rearmed
  <2>2. 0 \in 0..MaxTokens
    BY FormBounds
  <2> QED BY <1>8, <1>12, <2>1, <2>2
<1>13. entry.native \in BOOLEAN
  BY <1>1 DEF Entry
<1> QED BY <1>7, <1>9, <1>10, <1>11, <1>12, <1>13

LEMMA FormsNextInv == FormsInv /\ [FormsNext]_formVars => FormsInv'
<1> SUFFICES ASSUME FormsInv, [FormsNext]_formVars PROVE FormsInv'
  OBVIOUS
<1>1. CASE UNCHANGED formVars
  <2>1. UNCHANGED <<stranger, entry, entries, first, minting, spent, pages, sentForms>>
    BY <1>1 DEF formVars
  <2>2. FormsTypeOK'
    BY <1>1 DEF formVars, FormsInv, FormsTypeOK
  <2>3. FormTrue' /\ LedgerTrue'
    BY <2>1 DEF FormsInv, FormTrue, LedgerTrue
  <2>4. EntryTrue'
    BY <1>1 DEF formVars, FormsInv, EntryTrue
  <2>5. FormsAreTrue'
    BY <1>1 DEF formVars, FormsInv, FormsAreTrue
  <2> QED BY <2>2, <2>3, <2>4, <2>5 DEF FormsInv
<1>2. CASE FormsNext
  BY <1>2, PagesKeepForms, WidgetKeeps, SubmitKeeps, HandleEntryKeeps, LoseRequestKeeps, AnswerFormKeeps DEF FormsNext
<1> QED BY <1>1, <1>2

(* Who is told that an entry was taken left it, who is told nothing was     *)
(* saved left nothing, no spent token is sent again, and an address is held *)
(* once, with its first consent (TurnstileWidget, verifyTurnstileToken,     *)
(* onConflictDoNothing): for any number of pages, submits and tokens.       *)
THEOREM FormsAreTrueHolds == FormsSpec => []FormsAreTrue
<1>1. FormsInv => FormsAreTrue
  BY DEF FormsInv
<1> QED BY FormsInitInv, FormsNextInv, <1>1, PTL DEF FormsSpec

-----------------------------------------------------------------------------
(* The settings page.                                                       *)

(* The colours of a record as the page draws them.                          *)
DrawnOver(was, s) ==
  IF was.colours # NoColours /\ (\A t \in Swatch : was.colours[t] # Garbled) THEN was.colours[s] ELSE 0

(* A page's fields are those of the record it was opened on, but for what   *)
(* the writer meant to change.                                              *)
FieldsTrue ==
  LET was == settings.was  meant == settings.meant IN
  ~settings.unreadable =>
    /\ was = NoMasthead => settings.existing = NoIcon
    /\ was # NoMasthead =>
         /\ settings.name = Or(meant.name, was.name) /\ settings.about = Or(meant.about, was.about)
         /\ settings.existing = Pictured(was.icon)
         /\ \A s \in Swatch : settings.hex[s] = Or(meant.hex[s], DrawnOver(was, s))

(* Its icon, unless something went wrong with one: at most one is being     *)
(* prepared, and it is what the input holds; when none is, the input and    *)
(* the removal say what was meant.                                          *)
IconTrue ==
  ~settings.unsure =>
    /\ settings.picks # {} => settings.busy /\ \E p \in settings.picks : settings.picks = {p} /\ settings.input = p.pic
    /\ settings.picks = {} =>
         LET icon == settings.meant.icon IN
         /\ icon = Untouched => settings.input = NoIcon /\ ~settings.removed
         /\ icon = NoIcon => settings.input = NoIcon /\ settings.removed
         /\ icon \notin {Untouched, NoIcon} => settings.input = icon /\ icon \in Made

SetInv ==
  /\ SetTypeOK /\ SettingsAreTrue
  /\ settings # NoSettings => FieldsTrue /\ IconTrue

LEMMA SetBounds ==
  /\ MaxTouches \in Nat /\ MaxOutside \in Nat /\ MaxBalks \in Nat
  /\ 0 \in Made /\ 1 \in Made /\ NoIcon \notin Made /\ Garbled \notin Made /\ Untouched \notin Made
  /\ NoIcon # Garbled /\ NoIcon # Untouched /\ Garbled # Untouched
<1>1. MaxTouches \in Nat /\ MaxOutside \in Nat /\ MaxBalks \in Nat
  BY SettingsPageAssumption
<1>2. NoIcon \notin Made /\ Garbled \notin Made /\ Untouched \notin Made
  BY SettingsNullsAssumption
<1> QED BY <1>1, <1>2, SettingsNullsAssumption DEF Made

LEMMA DraftedIsMasthead == Drafted \subseteq Masthead
<1> SUFFICES ASSUME NEW d \in Drafted PROVE d \in Masthead
  OBVIOUS
<1>1. /\ d.name \in {0, 1} /\ d.about \in {0, 1} /\ d.icon \in {NoIcon, Garbled, 1}
      /\ d.colours \in {NoColours, [s \in Swatch |-> 1]}
                       \cup {[c \in Swatch |-> IF c = s THEN Garbled ELSE 1] : s \in Swatch}
  BY DEF Drafted
<1>2. d = [name |-> d.name, about |-> d.about, icon |-> d.icon, colours |-> d.colours]
  BY DEF Drafted
<1>3. d.colours \in Colours
  BY <1>1, SetBounds DEF Colours
<1>4. d.icon \in Icon
  BY <1>1, SetBounds DEF Icon
<1> QED BY <1>1, <1>2, <1>3, <1>4, SetBounds DEF Masthead

LEMMA SetInitInv == SetInit => SetInv
BY DraftedIsMasthead, SetBounds DEF SetInit, SetInv, SetTypeOK, SettingsAreTrue, ProfileAsMeant, ColoursAsShown

LEMMA BalkBounded ==
  ASSUME SetInv, NEW fails \in BOOLEAN, MayBalk(fails) PROVE balks' \in 0..MaxBalks
<1>1. (fails => balks < MaxBalks) /\ balks' = IF fails THEN balks + 1 ELSE balks
  BY DEF MayBalk
<1> QED BY <1>1, SetBounds DEF SetInv, SetTypeOK

LEMMA OutsideKeeps == SetInv /\ WrittenOutside => SetInv'
<1> SUFFICES ASSUME SetInv, WrittenOutside PROVE SetInv'
  OBVIOUS
<1>1. UNCHANGED <<settings, landing, touches, balks>> /\ outside' \in 0..MaxOutside
  BY SetBounds DEF WrittenOutside, SetInv, SetTypeOK
<1>2. masthead' \in Masthead \cup {NoMasthead}
  <2>1. CASE masthead = NoMasthead
    BY <2>1, DraftedIsMasthead DEF WrittenOutside
  <2>2. CASE masthead # NoMasthead
    <3>1. masthead \in Masthead
      BY <2>2 DEF SetInv, SetTypeOK
    <3>2. PICK field \in {"name", "about", "icon", "colours"}, d \in Drafted :
            masthead' = [masthead EXCEPT ![field] = d[field]]
      <4>1. DOMAIN masthead = {"name", "about", "icon", "colours"}
        BY <3>1 DEF Masthead
      <4>2. PICK field \in DOMAIN masthead : \E value \in {d[field] : d \in Drafted} \ {masthead[field]} :
              masthead' = [masthead EXCEPT ![field] = value]
        BY <2>2 DEF WrittenOutside
      <4> QED BY <4>1, <4>2
    <3>3. d \in Masthead
      BY DraftedIsMasthead
    <3>4. CASE field = "name"
      BY <3>1, <3>2, <3>3, <3>4 DEF Masthead
    <3>5. CASE field = "about"
      BY <3>1, <3>2, <3>3, <3>5 DEF Masthead
    <3>6. CASE field = "icon"
      BY <3>1, <3>2, <3>3, <3>6 DEF Masthead
    <3>7. CASE field = "colours"
      BY <3>1, <3>2, <3>3, <3>7 DEF Masthead
    <3> QED BY <3>4, <3>5, <3>6, <3>7
  <2> QED BY <2>1, <2>2
<1>3. SetTypeOK'
  BY <1>1, <1>2 DEF SetInv, SetTypeOK
<1>4. SettingsAreTrue'
  BY <1>1 DEF SetInv, SettingsAreTrue, ProfileAsMeant, ColoursAsShown
<1> QED BY <1>1, <1>3, <1>4 DEF SetInv, FieldsTrue, IconTrue

(* A page in use: touched by its writer, nothing is saved.                  *)
LEMMA PageStands ==
  ASSUME SetInv, UNCHANGED <<masthead, outside>>, landing' = landing \/ landing' = NoLanding,
         touches' \in 0..MaxTouches, balks' \in 0..MaxBalks,
         settings' \in Settings \cup {NoSettings},
         settings' # NoSettings => FieldsTrue' /\ IconTrue'
  PROVE  SetInv'
<1>1. SetTypeOK'
  BY DEF SetInv, SetTypeOK
<1>2. SettingsAreTrue'
  BY DEF SetInv, SettingsAreTrue, ProfileAsMeant, ColoursAsShown
<1> QED BY <1>1, <1>2 DEF SetInv

LEMMA OpenSettingsKeeps == SetInv /\ OpenSettings => SetInv'
<1> SUFFICES ASSUME SetInv, OpenSettings PROVE SetInv'
  OBVIOUS
<1>1. UNCHANGED <<masthead, touches, outside>> /\ landing' = NoLanding /\ touches' \in 0..MaxTouches
  BY DEF OpenSettings, SetInv, SetTypeOK
<1>2. PICK fails \in BOOLEAN :
       /\ MayBalk(fails)
       /\ settings' = IF fails \/ masthead = NoMasthead THEN BlankForm(fails)
            ELSE [BlankForm(FALSE) EXCEPT
                   !.name = masthead.name, !.about = masthead.about,
                   !.existing = Pictured(masthead.icon), !.preview = Pictured(masthead.icon),
                   !.hex = InitialHex(Parsed(masthead.colours))]
  BY DEF OpenSettings
<1>3. balks' \in 0..MaxBalks
  BY <1>2, BalkBounded
<1>4. Unmeant \in Meant /\ Unmeant.name = Untouched /\ Unmeant.about = Untouched /\ Unmeant.icon = Untouched
      /\ \A s \in Swatch : Unmeant.hex[s] = Untouched
  BY DEF Unmeant, Meant
<1>5. Defaults \in [Swatch -> Made] /\ \A s \in Swatch : Defaults[s] = 0
  BY SetBounds DEF Defaults
<1>6. ASSUME NEW b \in BOOLEAN
      PROVE  LET f == BlankForm(b) IN
             /\ f \in Settings /\ f.was = masthead /\ f.unreadable = b /\ f.existing = NoIcon /\ f.picks = {}
             /\ f.input = NoIcon /\ f.removed = FALSE /\ f.meant = Unmeant /\ f.hex = Defaults
             /\ f.name = 0 /\ f.about = 0 /\ f.unsure = FALSE
  <2>1. masthead \in Masthead \cup {NoMasthead} /\ NoIcon \in Icon
    BY DEF SetInv, SetTypeOK, Icon
  <2> QED BY <1>4, <1>5, <2>1, SetBounds DEF BlankForm, Settings
<1>7. CASE fails \/ masthead = NoMasthead
  <2>1. settings' = BlankForm(fails)
    BY <1>2, <1>7
  <2>2. PICK f \in Settings : /\ settings' = f /\ f.was = masthead /\ f.unreadable = fails /\ f.existing = NoIcon
                              /\ f.picks = {} /\ f.input = NoIcon /\ f.removed = FALSE /\ f.meant = Unmeant
    BY <1>6, <2>1
  <2>3. FieldsTrue'
    BY <1>7, <2>2 DEF FieldsTrue
  <2>4. IconTrue'
    BY <1>4, <2>2, SetBounds DEF IconTrue
  <2> QED BY <1>1, <1>3, <2>2, <2>3, <2>4, PageStands
<1>8. CASE ~fails /\ masthead # NoMasthead
  <2>1. masthead \in Masthead
    BY <1>8 DEF SetInv, SetTypeOK
  <2>2. masthead.name \in Made /\ masthead.about \in Made /\ masthead.icon \in Icon /\ masthead.colours \in Colours
    BY <2>1 DEF Masthead
  <2>3. PICK icon \in Icon : icon = Pictured(masthead.icon)
    BY <2>2 DEF Pictured, Icon
  <2>4. PICK hex : hex = InitialHex(Parsed(masthead.colours))
    OBVIOUS
  <2>5. hex \in [Swatch -> Made] /\ \A s \in Swatch : hex[s] = DrawnOver(masthead, s)
    <3>1. PICK colours \in Colours : colours = masthead.colours
      BY <2>2
    <3>2. CASE colours # NoColours /\ \A s \in Swatch : colours[s] # Garbled
      <4>1. hex = colours
        BY <2>4, <3>1, <3>2 DEF InitialHex, Parsed
      <4>2. colours \in [Swatch -> Made]
        BY <3>2 DEF Colours
      <4> QED BY <3>1, <3>2, <4>1, <4>2 DEF DrawnOver
    <3>3. CASE ~(colours # NoColours /\ \A s \in Swatch : colours[s] # Garbled)
      <4>1. hex = Defaults
        BY <2>4, <3>1, <3>3 DEF InitialHex, Parsed
      <4> QED BY <1>5, <3>1, <3>3, <4>1 DEF DrawnOver
    <3> QED BY <3>2, <3>3
  <2>6. PICK f \in Settings : /\ f = BlankForm(FALSE) /\ f.was = masthead /\ f.unreadable = FALSE
                              /\ f.picks = {} /\ f.input = NoIcon /\ f.removed = FALSE /\ f.meant = Unmeant
    BY <1>6
  <2>7. PICK g : g = [f EXCEPT !.name = masthead.name, !.about = masthead.about, !.existing = icon,
                               !.preview = icon, !.hex = hex]
    OBVIOUS
  <2>8. settings' = g
    BY <1>2, <1>8, <2>3, <2>4, <2>6, <2>7
  <2>9. /\ g \in Settings /\ g.was = masthead /\ g.unreadable = FALSE /\ g.name = masthead.name
        /\ g.about = masthead.about /\ g.existing = icon /\ g.hex = hex
        /\ g.picks = {} /\ g.input = NoIcon /\ g.removed = FALSE /\ g.meant = Unmeant
    BY <2>2, <2>5, <2>6, <2>7 DEF Settings
  <2>10. FieldsTrue'
    BY <1>4, <1>8, <2>3, <2>5, <2>8, <2>9 DEF FieldsTrue, Or
  <2>11. IconTrue'
    BY <1>4, <2>8, <2>9, SetBounds DEF IconTrue
  <2> QED BY <1>1, <1>3, <2>8, <2>9, <2>10, <2>11, PageStands
<1> QED BY <1>7, <1>8

LEMMA TouchesBounded ==
  ASSUME SetInv, TouchesPage
  PROVE  /\ touches' \in 0..MaxTouches /\ settings # NoSettings /\ settings \in Settings
         /\ New \in Made \ {0} /\ New # NoIcon /\ New # Untouched
<1>1. touches \in 0..MaxTouches /\ settings # NoSettings /\ touches < MaxTouches /\ touches' = touches + 1
  BY DEF TouchesPage, SetInv, SetTypeOK
<1>2. touches' \in 0..MaxTouches /\ New \in Made \ {0}
  BY <1>1, SetBounds DEF New, Made
<1> QED BY <1>1, <1>2, SetBounds DEF SetInv, SetTypeOK

LEMMA EditTextKeeps == SetInv /\ EditText => SetInv'
<1> SUFFICES ASSUME SetInv, EditText PROVE SetInv'
  OBVIOUS
<1>1. UNCHANGED <<masthead, landing, outside, balks>> /\ TouchesPage
  BY DEF EditText, RecordKept
<1>2. settings \in Settings /\ touches' \in 0..MaxTouches /\ settings # NoSettings
  BY <1>1, TouchesBounded
<1>3. PICK text \in Made :
       \/ settings' = [settings EXCEPT !.name = text, !.meant.name = text]
       \/ settings' = [settings EXCEPT !.about = text, !.meant.about = text]
  BY <1>1, TouchesBounded, SetBounds DEF EditText
<1>4. FieldsTrue /\ IconTrue /\ balks' \in 0..MaxBalks /\ settings.meant \in Meant /\ text # Untouched
  BY <1>1, <1>2, SetBounds DEF SetInv, SetTypeOK, Settings
<1>5. CASE settings' = [settings EXCEPT !.name = text, !.meant.name = text]
  <2>1. PICK m : m = [settings.meant EXCEPT !.name = text]
    OBVIOUS
  <2>2. m \in Meant /\ m.name = text /\ m.about = settings.meant.about /\ m.icon = settings.meant.icon /\ m.hex = settings.meant.hex
    BY <1>4, <2>1 DEF Meant
  <2>3. PICK g : g = [settings EXCEPT !.name = text, !.meant = m]
    OBVIOUS
  <2>4. settings' = g
    BY <1>5, <2>1, <2>3
  <2>5. /\ g \in Settings /\ g.name = text /\ g.meant = m /\ g.was = settings.was /\ g.unreadable = settings.unreadable
        /\ g.about = settings.about /\ g.existing = settings.existing /\ g.hex = settings.hex
        /\ g.picks = settings.picks /\ g.input = settings.input /\ g.removed = settings.removed
        /\ g.unsure = settings.unsure /\ g.busy = settings.busy
    BY <1>2, <2>2, <2>3 DEF Settings
  <2>6. FieldsTrue'
    BY <1>4, <2>2, <2>4, <2>5 DEF FieldsTrue, Or
  <2>7. IconTrue'
    BY <1>4, <2>2, <2>4, <2>5 DEF IconTrue
  <2> QED BY <1>1, <1>2, <1>4, <2>4, <2>5, <2>6, <2>7, PageStands
<1>6. CASE settings' = [settings EXCEPT !.about = text, !.meant.about = text]
  <2>1. PICK m : m = [settings.meant EXCEPT !.about = text]
    OBVIOUS
  <2>2. m \in Meant /\ m.about = text /\ m.name = settings.meant.name /\ m.icon = settings.meant.icon /\ m.hex = settings.meant.hex
    BY <1>4, <2>1 DEF Meant
  <2>3. PICK g : g = [settings EXCEPT !.about = text, !.meant = m]
    OBVIOUS
  <2>4. settings' = g
    BY <1>6, <2>1, <2>3
  <2>5. /\ g \in Settings /\ g.about = text /\ g.meant = m /\ g.was = settings.was /\ g.unreadable = settings.unreadable
        /\ g.name = settings.name /\ g.existing = settings.existing /\ g.hex = settings.hex
        /\ g.picks = settings.picks /\ g.input = settings.input /\ g.removed = settings.removed
        /\ g.unsure = settings.unsure /\ g.busy = settings.busy
    BY <1>2, <2>2, <2>3 DEF Settings
  <2>6. FieldsTrue'
    BY <1>4, <2>2, <2>4, <2>5 DEF FieldsTrue, Or
  <2>7. IconTrue'
    BY <1>4, <2>2, <2>4, <2>5 DEF IconTrue
  <2> QED BY <1>1, <1>2, <1>4, <2>4, <2>5, <2>6, <2>7, PageStands
<1> QED BY <1>3, <1>5, <1>6

LEMMA EditColoursKeeps == SetInv /\ EditColours => SetInv'
<1> SUFFICES ASSUME SetInv, EditColours PROVE SetInv'
  OBVIOUS
<1>1. UNCHANGED <<masthead, landing, outside, balks>> /\ TouchesPage
  BY DEF EditColours, RecordKept
<1>2. settings \in Settings /\ touches' \in 0..MaxTouches /\ settings # NoSettings
  BY <1>1, TouchesBounded
<1>3. PICK new \in Made : new = New /\ new # Untouched
  BY <1>1, TouchesBounded
<1>4. PICK which \in Pickers \cup StarterPalettes :
       settings' = [settings EXCEPT !.hex = [s \in Swatch |-> IF s \in which THEN New ELSE settings.hex[s]],
                      !.meant.hex = [s \in Swatch |-> IF s \in which THEN New ELSE settings.meant.hex[s]]]
  <2>1. PICK which \in Pickers \cup StarterPalettes :
         LET fill(hex) == [s \in Swatch |-> IF s \in which THEN New ELSE hex[s]]
         IN  settings' = [settings EXCEPT !.hex = fill(@), !.meant.hex = fill(@)]
    BY DEF EditColours
  <2> QED BY <2>1
<1>5. FieldsTrue /\ IconTrue /\ balks' \in 0..MaxBalks /\ settings.meant \in Meant
  BY <1>1, <1>2 DEF SetInv, SetTypeOK, Settings
<1>6. PICK hex : hex = [s \in Swatch |-> IF s \in which THEN new ELSE settings.hex[s]]
  OBVIOUS
<1>7. PICK mhex : mhex = [s \in Swatch |-> IF s \in which THEN new ELSE settings.meant.hex[s]]
  OBVIOUS
<1>8. hex \in [Swatch -> Made] /\ mhex \in [Swatch -> Made \cup {Untouched}]
  BY <1>2, <1>5, <1>6, <1>7 DEF Settings, Meant
<1>9. PICK m : m = [settings.meant EXCEPT !.hex = mhex]
  OBVIOUS
<1>10. m \in Meant /\ m.hex = mhex /\ m.name = settings.meant.name /\ m.about = settings.meant.about /\ m.icon = settings.meant.icon
  BY <1>5, <1>8, <1>9 DEF Meant
<1>11. PICK g : g = [settings EXCEPT !.hex = hex, !.meant = m]
  OBVIOUS
<1>12. settings' = g
  BY <1>3, <1>4, <1>6, <1>7, <1>9, <1>11
<1>13. /\ g \in Settings /\ g.hex = hex /\ g.meant = m /\ g.was = settings.was /\ g.unreadable = settings.unreadable
       /\ g.name = settings.name /\ g.about = settings.about /\ g.existing = settings.existing
       /\ g.picks = settings.picks /\ g.input = settings.input /\ g.removed = settings.removed
       /\ g.unsure = settings.unsure /\ g.busy = settings.busy
  BY <1>2, <1>8, <1>10, <1>11 DEF Settings
<1>14. ASSUME NEW was, NEW s \in Swatch, settings.hex[s] = Or(settings.meant.hex[s], DrawnOver(was, s))
       PROVE  hex[s] = Or(mhex[s], DrawnOver(was, s))
  BY <1>3, <1>6, <1>7, <1>14 DEF Or
<1>15. FieldsTrue'
  BY <1>5, <1>10, <1>12, <1>13, <1>14 DEF FieldsTrue
<1>16. IconTrue'
  BY <1>5, <1>10, <1>12, <1>13 DEF IconTrue
<1> QED BY <1>1, <1>2, <1>5, <1>12, <1>13, <1>15, <1>16, PageStands

(* An icon: the page's other fields are as they were.                       *)
LEMMA IconStands ==
  ASSUME SetInv, settings # NoSettings, UNCHANGED <<masthead, landing, outside>>,
         touches' \in 0..MaxTouches, balks' \in 0..MaxBalks,
         NEW g \in Settings, settings' = g,
         g.was = settings.was, g.unreadable = settings.unreadable, g.name = settings.name,
         g.about = settings.about, g.existing = settings.existing, g.hex = settings.hex,
         g.meant.name = settings.meant.name, g.meant.about = settings.meant.about, g.meant.hex = settings.meant.hex,
         ~g.unsure =>
           /\ g.picks # {} => g.busy /\ \E p \in g.picks : g.picks = {p} /\ g.input = p.pic
           /\ g.picks = {} =>
                /\ g.meant.icon = Untouched => g.input = NoIcon /\ ~g.removed
                /\ g.meant.icon = NoIcon => g.input = NoIcon /\ g.removed
                /\ g.meant.icon \notin {Untouched, NoIcon} => g.input = g.meant.icon /\ g.meant.icon \in Made
  PROVE  SetInv'
<1>1. FieldsTrue'
  BY DEF SetInv, FieldsTrue
<1>2. IconTrue'
  BY DEF IconTrue
<1> QED BY <1>1, <1>2, PageStands

LEMMA PickIconKeeps == SetInv /\ PickIcon => SetInv'
<1> SUFFICES ASSUME SetInv, PickIcon PROVE SetInv'
  OBVIOUS
<1>1. UNCHANGED <<masthead, landing, outside, balks>> /\ TouchesPage
  BY DEF PickIcon, RecordKept
<1>2. settings \in Settings /\ touches' \in 0..MaxTouches /\ settings # NoSettings
  BY <1>1, TouchesBounded
<1>3. PICK new \in Made \ {0} : new = New
  BY <1>1, TouchesBounded
<1>4. PICK same \in BOOLEAN :
       settings' = [settings EXCEPT !.input = new, !.busy = TRUE,
                      !.picks = @ \cup {[pic |-> new, same |-> same]},
                      !.unsure = @ \/ settings.picks # {}]
  BY <1>3 DEF PickIcon
<1>5. PICK p : p = [pic |-> new, same |-> same]
  OBVIOUS
<1>a. p \in IconPick /\ p.pic = new
  BY <1>5 DEF IconPick
<1>6. PICK picks : picks = settings.picks \cup {p}
  OBVIOUS
<1>7. PICK unsure \in BOOLEAN : unsure = (settings.unsure \/ settings.picks # {})
  OBVIOUS
<1>8. PICK g : g = [settings EXCEPT !.input = new, !.busy = TRUE, !.picks = picks, !.unsure = unsure]
  OBVIOUS
<1>9. settings' = g
  BY <1>4, <1>5, <1>6, <1>7, <1>8
<1>10. new \in Icon /\ picks \in SUBSET IconPick
  BY <1>2, <1>6, <1>a DEF Icon, Settings
<1>11. /\ g \in Settings /\ g.was = settings.was /\ g.unreadable = settings.unreadable /\ g.name = settings.name
       /\ g.about = settings.about /\ g.existing = settings.existing /\ g.hex = settings.hex
       /\ g.meant = settings.meant /\ g.picks = picks /\ g.input = new /\ g.busy = TRUE /\ g.unsure = unsure
  BY <1>2, <1>8, <1>10 DEF Settings
<1>12. ~unsure => picks = {p}
  BY <1>6, <1>7
<1>13. ~g.unsure => /\ g.picks # {} => g.busy /\ \E q \in g.picks : g.picks = {q} /\ g.input = q.pic
                    /\ g.picks # {}
  BY <1>a, <1>11, <1>12
<1>14. balks' \in 0..MaxBalks
  BY <1>1 DEF SetInv, SetTypeOK
<1> QED BY <1>1, <1>2, <1>9, <1>11, <1>13, <1>14, IconStands

LEMMA PickNothingKeeps == SetInv /\ PickNothing => SetInv'
<1> SUFFICES ASSUME SetInv, PickNothing PROVE SetInv'
  OBVIOUS
<1>1. UNCHANGED <<masthead, landing, outside, balks>> /\ TouchesPage
  BY DEF PickNothing, RecordKept
<1>2. settings \in Settings /\ touches' \in 0..MaxTouches /\ settings # NoSettings
  BY <1>1, TouchesBounded
<1>3. PICK g : g = [settings EXCEPT !.input = NoIcon, !.unsure = TRUE]
  OBVIOUS
<1>4. settings' = g
  BY <1>3 DEF PickNothing
<1>5. NoIcon \in Icon
  BY DEF Icon
<1>6. /\ g \in Settings /\ g.was = settings.was /\ g.unreadable = settings.unreadable /\ g.name = settings.name
      /\ g.about = settings.about /\ g.existing = settings.existing /\ g.hex = settings.hex
      /\ g.meant = settings.meant /\ g.unsure = TRUE
  BY <1>2, <1>3, <1>5 DEF Settings
<1>7. balks' \in 0..MaxBalks
  BY <1>1 DEF SetInv, SetTypeOK
<1> QED BY <1>1, <1>2, <1>4, <1>6, <1>7, IconStands

LEMMA RemoveIconKeeps == SetInv /\ RemoveIcon => SetInv'
<1> SUFFICES ASSUME SetInv, RemoveIcon PROVE SetInv'
  OBVIOUS
<1>1. UNCHANGED <<masthead, landing, outside, balks>> /\ TouchesPage
  BY DEF RemoveIcon, RecordKept
<1>2. settings \in Settings /\ touches' \in 0..MaxTouches /\ settings # NoSettings
  BY <1>1, TouchesBounded
<1>3. PICK m : m = [settings.meant EXCEPT !.icon = NoIcon]
  OBVIOUS
<1>4. NoIcon \in Icon /\ NoIcon # Untouched
  BY SetBounds DEF Icon
<1>5. m \in Meant /\ m.icon = NoIcon /\ m.name = settings.meant.name /\ m.about = settings.meant.about /\ m.hex = settings.meant.hex
  BY <1>2, <1>3, <1>4 DEF Meant, Settings
<1>6. PICK unsure \in BOOLEAN : unsure = (settings.unsure \/ settings.picks # {})
  OBVIOUS
<1>7. PICK g : g = [settings EXCEPT !.input = NoIcon, !.preview = NoIcon, !.removed = TRUE, !.meant = m, !.unsure = unsure]
  OBVIOUS
<1>8. settings' = g
  BY <1>3, <1>6, <1>7 DEF RemoveIcon
<1>9. /\ g \in Settings /\ g.was = settings.was /\ g.unreadable = settings.unreadable /\ g.name = settings.name
      /\ g.about = settings.about /\ g.existing = settings.existing /\ g.hex = settings.hex
      /\ g.meant = m /\ g.picks = settings.picks /\ g.input = NoIcon /\ g.removed = TRUE /\ g.unsure = unsure
  BY <1>2, <1>4, <1>5, <1>7 DEF Settings
<1>10. ~g.unsure => g.picks = {} /\ g.meant.icon = NoIcon /\ g.input = NoIcon /\ g.removed
  BY <1>5, <1>6, <1>9
<1>11. balks' \in 0..MaxBalks
  BY <1>1 DEF SetInv, SetTypeOK
<1> QED BY <1>1, <1>2, <1>4, <1>5, <1>8, <1>9, <1>10, <1>11, IconStands

LEMMA SquaredKeeps ==
  ASSUME SetInv, settings # NoSettings, NEW p \in settings.picks, Squared(p)
  PROVE  SetInv'
<1>1. UNCHANGED <<masthead, landing, outside, touches>> /\ settings \in Settings
  BY DEF Squared, RecordKept, SetInv, SetTypeOK
<1>2. p \in IconPick /\ p.pic \in Made \ {0} /\ settings.meant \in Meant /\ settings.input \in Icon /\ settings.preview \in Icon
  BY <1>1 DEF Settings, IconPick
<1>3. p.pic \in Icon /\ NoIcon \in Icon /\ p.pic # NoIcon /\ p.pic # Untouched
  BY <1>2, SetBounds DEF Icon
<1>4. PICK fails \in BOOLEAN :
       /\ MayBalk(fails)
       /\ settings' = [settings EXCEPT !.picks = @ \ {p}, !.busy = FALSE,
            !.input = IF fails THEN NoIcon ELSE IF p.same THEN @ ELSE p.pic,
            !.preview = IF fails THEN @ ELSE p.pic,
            !.removed = @ /\ fails,
            !.meant.icon = IF fails THEN @ ELSE p.pic,
            !.unsure = @ \/ fails]
  BY DEF Squared
<1>5. balks' \in 0..MaxBalks
  BY <1>4, BalkBounded
<1>6. PICK icon : icon = IF fails THEN settings.meant.icon ELSE p.pic
  OBVIOUS
<1>7. PICK m : m = [settings.meant EXCEPT !.icon = icon]
  OBVIOUS
<1>8. m \in Meant /\ m.icon = icon /\ m.name = settings.meant.name /\ m.about = settings.meant.about /\ m.hex = settings.meant.hex
  BY <1>2, <1>3, <1>6, <1>7 DEF Meant
<1>9. PICK picks : picks = settings.picks \ {p}
  OBVIOUS
<1>10. PICK input \in Icon : input = IF fails THEN NoIcon ELSE IF p.same THEN settings.input ELSE p.pic
  BY <1>2, <1>3
<1>11. PICK preview \in Icon : preview = IF fails THEN settings.preview ELSE p.pic
  BY <1>2, <1>3
<1>12. PICK removed \in BOOLEAN : removed = (settings.removed /\ fails)
  OBVIOUS
<1>13. PICK unsure \in BOOLEAN : unsure = (settings.unsure \/ fails)
  OBVIOUS
<1>14. PICK g : g = [settings EXCEPT !.picks = picks, !.busy = FALSE, !.input = input, !.preview = preview,
                       !.removed = removed, !.meant = m, !.unsure = unsure]
  OBVIOUS
<1>15. settings' = g
  BY <1>4, <1>6, <1>7, <1>9, <1>10, <1>11, <1>12, <1>13, <1>14
<1>16. picks \in SUBSET IconPick
  BY <1>1, <1>9 DEF Settings
<1>17. /\ g \in Settings /\ g.was = settings.was /\ g.unreadable = settings.unreadable /\ g.name = settings.name
       /\ g.about = settings.about /\ g.existing = settings.existing /\ g.hex = settings.hex
       /\ g.meant = m /\ g.picks = picks /\ g.input = input /\ g.removed = removed /\ g.unsure = unsure
  BY <1>1, <1>8, <1>14, <1>16 DEF Settings
<1>18. ASSUME ~unsure PROVE picks = {} /\ icon = p.pic /\ input = p.pic
  <2>1. ~fails
    BY <1>13, <1>18
  <2>2. ~settings.unsure
    BY <1>13, <1>18
  <2>3. PICK q \in settings.picks : settings.picks = {q} /\ settings.input = q.pic
    BY <2>2 DEF SetInv, IconTrue
  <2>4. q = p
    BY <2>3
  <2> QED BY <1>6, <1>9, <1>10, <2>1, <2>3, <2>4
<1>19. ~g.unsure =>
           /\ g.picks = {}
           /\ g.meant.icon \notin {Untouched, NoIcon} /\ g.input = g.meant.icon /\ g.meant.icon \in Made
  BY <1>2, <1>3, <1>8, <1>17, <1>18
<1>20. touches' \in 0..MaxTouches
  BY <1>1 DEF SetInv, SetTypeOK
<1> QED BY <1>1, <1>5, <1>8, <1>15, <1>17, <1>19, <1>20, IconStands

(* A save that lands, of a page and over a record, as meant.                *)
LEMMA LandsAsMeant ==
  ASSUME SetInv, settings # NoSettings, NEW fails \in BOOLEAN,
         NEW kind \in {"profile", "theme", "reset"}, NEW now \in Masthead,
         Saves(kind, now, fails),
         NEW e, e = [kind |-> kind, page |-> settings, before |-> masthead, now |-> now],
         kind = "profile" /\ masthead = settings.was /\ masthead # NoMasthead =>
           /\ now.name = Or(settings.meant.name, masthead.name)
           /\ now.about = Or(settings.meant.about, masthead.about)
           /\ ~settings.unsure => Pictured(now.icon) = Or(settings.meant.icon, Pictured(masthead.icon)),
         kind = "profile" /\ masthead = settings.was /\ masthead = NoMasthead /\ ~settings.unsure =>
           now.icon = Or(settings.meant.icon, NoIcon),
         kind = "profile" => now.colours = IF masthead = NoMasthead THEN NoColours ELSE masthead.colours,
         kind # "profile" => now = [masthead EXCEPT !.colours = now.colours],
         kind = "reset" => now.colours = NoColours,
         kind = "theme" =>
           now.colours = [s \in Swatch |-> Or(settings.meant.hex[s], DrawnOver(settings.was, s))]
  PROVE  SetInv'
<1>1. MayBalk(fails) /\ masthead' = (IF fails THEN masthead ELSE now) /\ settings' = NoSettings
      /\ landing' = (IF fails THEN NoLanding ELSE e) /\ UNCHANGED <<touches, outside>>
  BY DEF Saves
<1>2. balks' \in 0..MaxBalks
  BY <1>1, BalkBounded
<1>3. settings \in Settings /\ masthead \in Masthead \cup {NoMasthead}
  BY DEF SetInv, SetTypeOK
<1>4. e.kind = kind /\ e.page = settings /\ e.before = masthead /\ e.now = now
  OBVIOUS
<1>5. SetTypeOK'
  BY <1>1, <1>2, <1>3, <1>4 DEF SetInv, SetTypeOK
<1>6. ProfileAsMeant'
  BY <1>1, <1>4 DEF ProfileAsMeant
<1>7. ColoursAsShown'
  BY <1>1, <1>4 DEF ColoursAsShown, DrawnOver
<1> QED BY <1>1, <1>5, <1>6, <1>7 DEF SetInv, SettingsAreTrue

LEMMA SaveProfileKeeps == SetInv /\ SaveProfile => SetInv'
<1> SUFFICES ASSUME SetInv, SaveProfile PROVE SetInv'
  OBVIOUS
<1>1. settings # NoSettings /\ settings \in Settings /\ ~settings.busy /\ ~settings.unreadable
  BY DEF SaveProfile, MaySave, SetInv, SetTypeOK
<1>2. PICK base \in Icon : base = IF masthead = NoMasthead THEN NoIcon ELSE masthead.icon
  BY DEF SetInv, SetTypeOK, Masthead, Icon
<1>3. PICK colours \in Colours : colours = IF masthead = NoMasthead THEN NoColours ELSE masthead.colours
  BY DEF SetInv, SetTypeOK, Masthead, Colours
<1>4. PICK icon \in Icon : icon = IconKept(base)
  BY <1>1, <1>2 DEF IconKept, Settings, Icon
<1>5. PICK now : now = [name |-> settings.name, about |-> settings.about, icon |-> icon, colours |-> colours]
  OBVIOUS
<1>6. now \in Masthead /\ now.name = settings.name /\ now.about = settings.about /\ now.icon = icon /\ now.colours = colours
  BY <1>1, <1>5 DEF Masthead, Settings
<1>7. PICK fails \in BOOLEAN : Saves("profile", now, fails)
  BY <1>2, <1>3, <1>4, <1>5 DEF SaveProfile, Profiled
<1>8. FieldsTrue /\ IconTrue
  BY <1>1 DEF SetInv
<1>9. ASSUME ~settings.unsure
      PROVE  /\ settings.meant.icon = Untouched => settings.input = NoIcon /\ ~settings.removed
             /\ settings.meant.icon = NoIcon => settings.input = NoIcon /\ settings.removed
             /\ settings.meant.icon \notin {Untouched, NoIcon} =>
                  settings.input = settings.meant.icon /\ settings.meant.icon \in Made
  BY <1>1, <1>8, <1>9 DEF IconTrue
<1>10. settings.meant.icon \in Icon \cup {Untouched}
  BY <1>1 DEF Settings, Meant
<1>11. ASSUME ~settings.unsure, masthead = settings.was, masthead # NoMasthead
       PROVE  Pictured(icon) = Or(settings.meant.icon, Pictured(masthead.icon))
  <2>1. settings.existing = Pictured(base) /\ base = masthead.icon
    BY <1>1, <1>2, <1>8, <1>11 DEF FieldsTrue
  <2>2. CASE settings.meant.icon = Untouched
    BY <1>4, <1>9, <1>11, <2>1, <2>2 DEF IconKept, Or
  <2>3. CASE settings.meant.icon = NoIcon
    BY <1>4, <1>9, <1>11, <2>1, <2>3, SetBounds DEF IconKept, Or, Pictured
  <2>4. CASE settings.meant.icon \notin {Untouched, NoIcon}
    BY <1>4, <1>9, <1>11, <2>1, <2>4, SetBounds DEF IconKept, Or, Pictured
  <2> QED BY <2>2, <2>3, <2>4
<1>12. ASSUME ~settings.unsure, masthead = settings.was, masthead = NoMasthead
       PROVE  icon = Or(settings.meant.icon, NoIcon)
  <2>1. settings.existing = NoIcon /\ base = NoIcon
    BY <1>1, <1>2, <1>8, <1>12 DEF FieldsTrue
  <2>2. CASE settings.meant.icon = Untouched
    BY <1>4, <1>9, <1>12, <2>1, <2>2 DEF IconKept, Or
  <2>3. CASE settings.meant.icon = NoIcon
    BY <1>4, <1>9, <1>12, <2>1, <2>3, SetBounds DEF IconKept, Or
  <2>4. CASE settings.meant.icon \notin {Untouched, NoIcon}
    BY <1>4, <1>9, <1>12, <2>1, <2>4, SetBounds DEF IconKept, Or
  <2> QED BY <2>2, <2>3, <2>4
<1>13. ASSUME masthead = settings.was, masthead # NoMasthead
       PROVE  settings.name = Or(settings.meant.name, masthead.name) /\ settings.about = Or(settings.meant.about, masthead.about)
  BY <1>1, <1>8, <1>13 DEF FieldsTrue
<1>14. PICK e : e = [kind |-> "profile", page |-> settings, before |-> masthead, now |-> now]
  OBVIOUS
<1> QED BY <1>1, <1>3, <1>6, <1>7, <1>11, <1>12, <1>13, <1>14, LandsAsMeant

LEMMA SaveThemeKeeps == SetInv /\ SaveTheme => SetInv'
<1> SUFFICES ASSUME SetInv, SaveTheme PROVE SetInv'
  OBVIOUS
<1>1. settings # NoSettings /\ settings \in Settings /\ ~settings.unreadable /\ settings.was # NoMasthead
  BY DEF SaveTheme, Exists, SetInv, SetTypeOK
<1>2. PICK reset \in BOOLEAN, fails \in BOOLEAN :
       IF masthead = NoMasthead \/ masthead.name = 0
       THEN settings' = NoSettings /\ UNCHANGED <<masthead, landing, touches, outside, balks>>
       ELSE Saves(IF reset THEN "reset" ELSE "theme",
                  [masthead EXCEPT !.colours = Themed(reset)], fails)
  BY DEF SaveTheme
<1>3. CASE masthead = NoMasthead \/ masthead.name = 0
  <2>1. settings' = NoSettings /\ UNCHANGED <<masthead, landing, touches, outside, balks>>
    BY <1>2, <1>3
  <2> QED BY <2>1, PageStands DEF SetInv, SetTypeOK
<1>4. CASE ~(masthead = NoMasthead \/ masthead.name = 0)
  <2>1. masthead \in Masthead
    BY <1>4 DEF SetInv, SetTypeOK
  <2>2. PICK kind \in {"theme", "reset"} : kind = IF reset THEN "reset" ELSE "theme"
    OBVIOUS
  <2>3. PICK colours : colours = IF reset THEN NoColours ELSE settings.hex
    OBVIOUS
  <2>4. colours \in Colours /\ settings.hex \in [Swatch -> Made]
    BY <1>1, <2>3 DEF Colours, Settings
  <2>5. PICK now : now = [masthead EXCEPT !.colours = colours]
    OBVIOUS
  <2>6. now \in Masthead /\ now.colours = colours
    BY <2>1, <2>4, <2>5 DEF Masthead
  <2>7. Saves(kind, now, fails)
    BY <1>2, <1>4, <2>2, <2>3, <2>5 DEF Themed
  <2>8. FieldsTrue
    BY <1>1 DEF SetInv
  <2>9. PICK shown : shown = [s \in Swatch |-> Or(settings.meant.hex[s], DrawnOver(settings.was, s))]
    OBVIOUS
  <2>10. \A s \in Swatch : settings.hex[s] = Or(settings.meant.hex[s], DrawnOver(settings.was, s))
    BY <1>1, <2>8 DEF FieldsTrue
  <2>11. settings.hex = shown
    BY <2>4, <2>9, <2>10
  <2>12. kind = "reset" => now.colours = NoColours
    BY <2>2, <2>3, <2>6
  <2>13. kind = "theme" => now.colours = [s \in Swatch |-> Or(settings.meant.hex[s], DrawnOver(settings.was, s))]
    BY <2>2, <2>3, <2>6, <2>9, <2>11
  <2>14. PICK e : e = [kind |-> kind, page |-> settings, before |-> masthead, now |-> now]
    OBVIOUS
  <2>15. now = [masthead EXCEPT !.colours = now.colours]
    BY <2>5, <2>6
  <2>16. kind # "profile"
    BY <2>2
  <2> QED BY <1>1, <2>2, <2>6, <2>7, <2>12, <2>13, <2>14, <2>15, <2>16, LandsAsMeant
<1> QED BY <1>3, <1>4

LEMMA SetNextInv == SetInv /\ [SetNext]_setVars => SetInv'
<1> SUFFICES ASSUME SetInv, [SetNext]_setVars PROVE SetInv'
  OBVIOUS
<1>1. CASE UNCHANGED setVars
  BY <1>1 DEF setVars, SetInv, SetTypeOK, SettingsAreTrue, ProfileAsMeant, ColoursAsShown, FieldsTrue, IconTrue
<1>2. CASE LeaveSettings
  <2>1. settings' = NoSettings /\ UNCHANGED <<masthead, landing, touches, outside, balks>>
    BY <1>2 DEF LeaveSettings
  <2> QED BY <2>1, PageStands DEF SetInv, SetTypeOK
<1>3. CASE SetNext /\ ~LeaveSettings
  BY <1>3, OutsideKeeps, OpenSettingsKeeps, EditTextKeeps, EditColoursKeeps, PickIconKeeps, PickNothingKeeps,
     RemoveIconKeeps, SquaredKeeps, SaveProfileKeeps, SaveThemeKeeps DEF SetNext
<1> QED BY <1>1, <1>2, <1>3

(* What a writer does in their settings is what their record becomes, and   *)
(* nothing else of it changes (settings.tsx, the publication saves): for    *)
(* any number of edits, picks, saves and swatches, and whatever another app *)
(* makes of the record.                                                     *)
THEOREM SettingsAreTrueHolds == SetSpec => []SettingsAreTrue
<1>1. SetInv => SettingsAreTrue
  BY DEF SetInv
<1> QED BY SetInitInv, SetNextInv, <1>1, PTL DEF SetSpec

-----------------------------------------------------------------------------
(* The archive.                                                             *)

LEMMA RkeyBounds ==
  /\ LastRkey \in Nat /\ Rkey = 1..LastRkey /\ Newest = 0 /\ Newest \notin Rkey /\ Newest \in Place
  /\ IsFiniteSet(Rkey) /\ Feed \notin 0..LastRkey /\ Feed # Newest /\ Feed \in Place
  /\ Place \ {Feed} = 0..LastRkey
  /\ ArchivePage \in Nat \ {0} /\ FeedItems \in Nat \ {0}
<1>1. LastRkey \in Nat /\ ArchivePage \in Nat \ {0} /\ FeedItems \in Nat \ {0}
  BY ArchiveAssumption
<1>2. IsFiniteSet(Rkey)
  BY <1>1, FS_Interval DEF Rkey
<1> QED BY <1>1, <1>2 DEF Rkey, Newest, Feed, Place

LEMMA TopIsRanked ==
  ASSUME NEW S \in SUBSET Rkey, NEW n \in Nat \ {0}, NEW keys, keys = TopOf(S, n)
  PROVE  /\ keys \in SUBSET S
         /\ \A k \in S \ keys, j \in keys : k < j
         /\ Cardinality(keys) = n \/ keys = S
<1>1. PICK r : r = [k \in Rkey |-> k]
  OBVIOUS
<1>2. r \in [Rkey -> 0..LastRkey] /\ \A k \in Rkey : r[k] = k
  BY <1>1, RkeyBounds
<1>3. keys = Uppermost(r, S, n)
  <2>1. ASSUME NEW k \in S PROVE {j \in S : j > k} = {j \in S : r[j] > r[k]}
    BY <1>2
  <2> QED BY <2>1 DEF TopOf, Uppermost
<1>4. \A p, q \in S : r[p] = r[q] => p = q
  BY <1>2
<1>5. (\A k \in S \ keys, j \in keys : r[k] < r[j]) /\ (Cardinality(keys) = n \/ keys = S)
  <2>1. IsFiniteSet(Rkey) /\ LastRkey \in Nat
    BY RkeyBounds
  <2> QED BY <1>2, <1>3, <1>4, <2>1, TopRanked
<1>6. keys \in SUBSET S
  BY DEF TopOf
<1> QED BY <1>2, <1>5, <1>6

LEMMA LeastOf ==
  ASSUME NEW S \in SUBSET Rkey, S # {}
  PROVE  Min(S) \in S /\ \A k \in S : Min(S) <= k
<1>1. PICK r : r = [k \in Rkey |-> k]
  OBVIOUS
<1>2. r \in [Rkey -> Nat] /\ \A k \in Rkey : r[k] = k
  BY <1>1, RkeyBounds
<1>3. \E p \in S : \A q \in S : r[p] <= r[q]
  BY <1>2, LowestRank
<1>4. \E p \in S : \A q \in S : p <= q
  BY <1>2, <1>3
<1> QED BY <1>4 DEF Min

(* A page of records: none is left out above its lowest, and if it is short *)
(* it is the last.                                                          *)
LEMMA PageOfRecords ==
  ASSUME ArchTypeOK, NEW cursor \in 0..LastRkey, NEW limit \in Nat \ {0},
         NEW leaf \in ListedPages(cursor, limit)
  PROVE  /\ leaf.keys \in SUBSET Rkey /\ leaf.keys \in SUBSET Past(cursor)
         /\ \A k \in Past(cursor) \ leaf.keys, j \in leaf.keys : k < j
         /\ leaf.keys = {} => Past(cursor) = {}
         /\ NextOf(leaf, limit) \in 0..LastRkey
         /\ NextOf(leaf, limit) = Newest => leaf.keys = Past(cursor)
         /\ NextOf(leaf, limit) # Newest =>
              NextOf(leaf, limit) \in leaf.keys /\ \A k \in leaf.keys : NextOf(leaf, limit) <= k
<1>1. PICK S : S = Past(cursor)
  OBVIOUS
<1>2. S \in SUBSET Rkey
  BY <1>1 DEF Past, ArchTypeOK
<1>3. PICK n \in Nat \ {0} : leaf = [keys |-> TopOf(S, n), limit |-> n]
  <2>1. leaf = [keys |-> TopOf(S, limit), limit |-> limit]
         \/ \E smaller \in 1..(limit - 1) : leaf = [keys |-> TopOf(S, smaller), limit |-> smaller]
    BY <1>1 DEF ListedPages
  <2>2. \A smaller \in 1..(limit - 1) : smaller \in Nat \ {0}
    OBVIOUS
  <2> QED BY <2>1, <2>2
<1>4. PICK keys : keys = leaf.keys
  OBVIOUS
<1>5. leaf.limit = n /\ keys = TopOf(S, n)
  BY <1>3, <1>4
<1>6. /\ keys \in SUBSET S /\ keys \in SUBSET Rkey
      /\ \A k \in S \ keys, j \in keys : k < j
      /\ Cardinality(keys) = n \/ keys = S
  BY <1>2, <1>5, TopIsRanked
<1>7. Cardinality({}) = 0
  BY FS_EmptySet
<1>8. keys = {} => S = {}
  BY <1>6, <1>7
<1>9. CASE keys # {} /\ Cardinality(keys) >= n
  <2>1. NextOf(leaf, limit) = Min(keys)
    BY <1>4, <1>5, <1>9 DEF NextOf
  <2>2. Min(keys) \in keys /\ \A k \in keys : Min(keys) <= k
    BY <1>6, <1>9, LeastOf
  <2>3. Min(keys) \in 0..LastRkey /\ Min(keys) # Newest
    <3>1. \A k \in Rkey : k \in 0..LastRkey /\ k # Newest
      BY RkeyBounds
    <3> QED BY <1>6, <2>2, <3>1
  <2> QED BY <1>1, <1>4, <1>6, <1>8, <2>1, <2>2, <2>3
<1>10. CASE ~(keys # {} /\ Cardinality(keys) >= n)
  <2>1. NextOf(leaf, limit) = Newest
    BY <1>4, <1>5, <1>10 DEF NextOf
  <2>2. keys = S
    BY <1>6, <1>8, <1>10
  <2>3. Newest \in 0..LastRkey
    BY RkeyBounds
  <2> QED BY <1>1, <1>4, <1>6, <1>8, <2>1, <2>2, <2>3
<1> QED BY <1>9, <1>10


(* A page of records is of its place: older than its cursor, no older than  *)
(* the next one's, and with all between that were there all along.          *)
ListPageTrue(leaf, place) ==
  /\ \A k \in leaf.rows : place = Newest \/ k < place
  /\ leaf.next # Newest => /\ \A k \in leaf.rows : k >= leaf.next
                           /\ place = Newest \/ leaf.next < place
  /\ leaf.excused = "none" /\ leaf.says # "too large" =>
       \A k \in leaf.through : (place = Newest \/ k < place) /\ k >= leaf.next => k \in leaf.rows
PagesTrue == \A p \in 0..LastRkey : stored[p] # NotStored => ListPageTrue(stored[p], p)

(* A reader has been shown what lies above where they are.                  *)
WalkTrue ==
  /\ walk.at # Newest => /\ \A k \in walk.seen : k >= walk.at
                         /\ \A k \in walk.through : k >= walk.at => k \in walk.seen
  /\ walk.at = Newest /\ ~walk.over => walk.seen = {}

(* What a request has learnt is still so of what was not touched since.     *)
FoundTrue(v) == v.found # NoIndex => v.search /\ v.found \cap taken.posts \cap v.untouched = {}
ListedTrue(v) ==
  v.listed # NotAsked /\ ~v.refused /\ ~v.unread =>
    /\ v.listed = {} => records \cap v.untouched = {}
    /\ \A k \in records \cap v.untouched : \A j \in v.listed : k >= j => k \in v.listed
VisitTrue ==
  visitor # NoVisitor =>
    /\ visitor.place # Feed /\ taken.author /\ ~visitor.blind => "hidden" \in visitor.waits \/ visitor.hidden
    /\ visitor.search => visitor.place = Newest
    /\ "index" \in visitor.waits => visitor.search
    /\ visitor.place # Feed /\ ~visitor.search => visitor.place = walk.at /\ ~walk.over
    /\ visitor.place = Feed => ~visitor.search
    /\ FoundTrue(visitor) /\ ListedTrue(visitor)

ArchInv == ArchTypeOK /\ PagesTrue /\ WalkTrue /\ VisitTrue /\ ArchiveIsTrue


ArrivedTrue == TakedownSaid /\ EmptyIsEmpty /\ TakenDownUnseen /\ FeedWhole

LEMMA ArchNulls ==
  /\ NoVisitor \notin Visitor /\ NotStored \notin Stored /\ NoAnswer \notin PageAnswer
  /\ NotAsked \notin Place /\ Undirected \notin {0, 1}
  /\ \A S \in SUBSET Rkey : S # NotAsked /\ S # NoIndex
BY ArchiveNullsAssumption

(* The reader turns to a page that is of where they are.                    *)
LEMMA TurnKeeps ==
  ASSUME ArchInv, ~walk.over, NEW leaf \in Stored, ListPageTrue(leaf, walk.at), Turns(leaf)
  PROVE  /\ walk' \in Walk /\ ~walk'.twice
         /\ walk'.at # Newest => /\ \A k \in walk'.seen : k >= walk'.at
                                 /\ \A k \in walk'.through : k >= walk'.at => k \in walk'.seen
         /\ walk'.at = Newest /\ ~walk'.over => walk'.seen = {}
         /\ walk'.over => walk'.through \subseteq walk'.seen
<1>1. PICK w \in Walk : w = walk
  BY DEF ArchInv, ArchTypeOK
<1>2. PICK seen : seen = w.seen \cup leaf.rows
  OBVIOUS
<1>3. PICK twice \in BOOLEAN : twice <=> (w.twice \/ w.seen \cap leaf.rows # {})
  OBVIOUS
<1>4. PICK through : through = IF leaf.excused = "none" /\ leaf.says # "too large"
                               THEN w.through \cap leaf.through ELSE {}
  OBVIOUS
<1>5. PICK over \in BOOLEAN : over <=> leaf.next = Newest
  OBVIOUS
<1>6. PICK v : v = [at |-> leaf.next, seen |-> seen, twice |-> twice, through |-> through, over |-> over]
  OBVIOUS
<1>7. walk' = v
  <2>1. w.twice \in BOOLEAN
    BY DEF Walk
  <2>2. twice = (w.twice \/ w.seen \cap leaf.rows # {})
    BY <1>3, <2>1
  <2>3. over = (leaf.next = Newest)
    BY <1>5
  <2> QED BY <1>1, <1>2, <1>4, <1>6, <2>2, <2>3 DEF Turns
<1>8. /\ w.at \in 0..LastRkey /\ w.seen \in SUBSET Rkey /\ w.through \in SUBSET Rkey
      /\ leaf.rows \in SUBSET Rkey /\ leaf.next \in 0..LastRkey
  BY DEF Walk, Stored
<1>9. v \in Walk /\ v.at = leaf.next /\ v.seen = seen /\ v.through = through
  BY <1>2, <1>4, <1>6, <1>8 DEF Walk
<1>10. (v.twice <=> twice) /\ (v.over <=> over)
  BY <1>6
<1>11. /\ ~w.twice /\ ~w.over
       /\ w.at # Newest => /\ \A k \in w.seen : k >= w.at
                           /\ \A k \in w.through : k >= w.at => k \in w.seen
       /\ w.at = Newest => w.seen = {}
  BY <1>1 DEF ArchInv, ArchiveIsTrue, WalkWhole, WalkTrue
<1>12. /\ \A k \in leaf.rows : w.at = Newest \/ k < w.at
       /\ leaf.next # Newest => /\ \A k \in leaf.rows : k >= leaf.next
                                /\ w.at = Newest \/ leaf.next < w.at
       /\ leaf.excused = "none" /\ leaf.says # "too large" =>
            \A k \in leaf.through : (w.at = Newest \/ k < w.at) /\ k >= leaf.next => k \in leaf.rows
  BY <1>1 DEF ListPageTrue
<1>13. Newest = 0 /\ LastRkey \in Nat /\ \A k \in Rkey : k \in Nat /\ k > 0
  BY RkeyBounds
<1>18. PICK at \in Nat, next \in Nat : at = w.at /\ next = leaf.next
  BY <1>8, <1>13
<1>19. ASSUME NEW k \in w.seen PROVE at # Newest /\ k >= at /\ k \in Nat
  BY <1>8, <1>11, <1>13, <1>18
<1>20. ASSUME NEW k \in leaf.rows
       PROVE  /\ at = Newest \/ k < at
              /\ next # Newest => k >= next
              /\ k \in Nat
  BY <1>8, <1>12, <1>13, <1>18
<1>21. next # Newest => at = Newest \/ next < at
  BY <1>12, <1>18
<1>14. ~twice
  <2>1. \A k \in w.seen : k \notin leaf.rows
    <3> SUFFICES ASSUME NEW k \in w.seen, k \in leaf.rows PROVE FALSE
      OBVIOUS
    <3> QED BY <1>19, <1>20
  <2> QED BY <1>3, <1>11, <2>1
<1>15. leaf.next # Newest => \A k \in seen : k >= leaf.next
  <2> SUFFICES ASSUME next # Newest, NEW k \in seen PROVE k >= next
    BY <1>18
  <2>1. CASE k \in w.seen
    BY <1>19, <1>21, <2>1
  <2>2. CASE k \in leaf.rows
    BY <1>20, <2>2
  <2> QED BY <1>2, <2>1, <2>2
<1>16. \A k \in through : k >= leaf.next => k \in seen
  <2>1. SUFFICES ASSUME NEW k \in through, k >= leaf.next PROVE k \in seen
    OBVIOUS
  <2>2. k \in w.through /\ leaf.excused = "none" /\ leaf.says # "too large" /\ k \in leaf.through
    BY <1>4
  <2>3. CASE w.at = Newest \/ k < w.at
    BY <1>2, <1>12, <2>1, <2>2, <2>3
  <2>4. CASE ~(w.at = Newest \/ k < w.at)
    <3>1. k \in Nat
      BY <1>8, <1>13, <2>2
    <3>2. w.at # Newest /\ k >= w.at
      BY <1>18, <2>4, <3>1
    <3> QED BY <1>2, <1>11, <2>2, <3>2
  <2> QED BY <2>3, <2>4
<1>17. over => through \subseteq seen
  <2>1. \A k \in through : k \in Rkey
    BY <1>4, <1>8
  <2>2. over => \A k \in through : k >= leaf.next
    BY <1>5, <1>13, <2>1
  <2> QED BY <1>16, <2>2
<1> QED BY <1>5, <1>7, <1>9, <1>10, <1>14, <1>15, <1>16, <1>17

LEMMA TurnedWalk ==
  ASSUME ArchInv, ~walk.over, NEW leaf \in Stored, ListPageTrue(leaf, walk.at), Turns(leaf)
  PROVE  walk' \in Walk /\ WalkTrue' /\ WalkWhole'
BY TurnKeeps DEF WalkTrue, WalkWhole

(* The writer, elsewhere: whatever is said of a record that was touched is  *)
(* no longer said.                                                          *)
LEMMA WriterDoesKeeps ==
  ASSUME ArchInv, NEW keys \in SUBSET Rkey, NEW author \in BOOLEAN, WriterDoes(keys, author),
         records' \subseteq Rkey, taken' \in [author : BOOLEAN, posts : SUBSET Rkey], repoAt' \in {0, 1},
         postIndex' \in [complete : BOOLEAN, rows : SUBSET Rkey],
         \A k \in Rkey \ keys : (k \in records' <=> k \in records) /\ (k \in taken'.posts <=> k \in taken.posts),
         taken'.author => taken.author \/ author
  PROVE  ArchInv'
<1>1. /\ changed < MaxChanged /\ changed' = changed + 1 /\ answer' = NoAnswer
      /\ UNCHANGED <<drawn, cachedAt, failed>>
  BY DEF WriterDoes
<1>2. changed' \in 0..MaxChanged
  BY <1>1, ArchiveAssumption DEF ArchInv, ArchTypeOK
<1>3. \A p \in Place : stored'[p] = IF stored[p] = NotStored THEN NotStored
                                    ELSE [stored[p] EXCEPT !.through = stored[p].through \ keys]
  BY DEF WriterDoes
<1>4. ASSUME NEW p \in Place, stored[p] # NotStored
      PROVE  \E s \in Stored, t \in Stored :
               /\ stored[p] = s /\ stored'[p] = t /\ t.says = s.says /\ t.rows = s.rows
               /\ t.next = s.next /\ t.excused = s.excused /\ t.through = s.through \ keys
  <2>1. PICK s \in Stored : s = stored[p]
    BY <1>4 DEF ArchInv, ArchTypeOK
  <2>2. PICK t : t = [s EXCEPT !.through = s.through \ keys]
    OBVIOUS
  <2>3. /\ t \in Stored /\ t.says = s.says /\ t.rows = s.rows
        /\ t.next = s.next /\ t.excused = s.excused /\ t.through = s.through \ keys
    BY <2>2 DEF Stored
  <2> QED BY <1>3, <1>4, <2>1, <2>2, <2>3
<1>5. stored' \in [Place -> Stored \cup {NotStored}]
  <2>1. stored' = [p \in Place |-> stored'[p]]
    BY DEF WriterDoes
  <2>2. \A p \in Place : stored'[p] \in Stored \cup {NotStored}
    BY <1>3, <1>4
  <2> QED BY <2>1, <2>2
<1>6. PICK w \in Walk : w = walk
  BY DEF ArchInv, ArchTypeOK
<1>7. PICK u : u = [w EXCEPT !.through = w.through \ keys]
  OBVIOUS
<1>8. /\ walk' = u /\ u \in Walk /\ u.at = w.at /\ u.seen = w.seen /\ u.through = w.through \ keys
  BY <1>6, <1>7 DEF Walk, WriterDoes
<1>9. (u.twice <=> w.twice) /\ (u.over <=> w.over)
  BY <1>7 DEF Walk
<1>10. WalkTrue' /\ WalkWhole'
  <2>1. /\ w.at # Newest => /\ \A k \in w.seen : k >= w.at
                            /\ \A k \in w.through : k >= w.at => k \in w.seen
        /\ w.at = Newest /\ ~w.over => w.seen = {}
        /\ ~w.twice
        /\ w.over => w.through \subseteq w.seen
    BY <1>6 DEF ArchInv, ArchiveIsTrue, WalkTrue, WalkWhole
  <2>2. /\ u.at # Newest => /\ \A k \in u.seen : k >= u.at
                            /\ \A k \in u.through : k >= u.at => k \in u.seen
        /\ u.at = Newest /\ ~u.over => u.seen = {}
        /\ ~u.twice
        /\ u.over => u.through \subseteq u.seen
    BY <1>8, <1>9, <2>1
  <2>3. WalkTrue'
    BY <1>8, <2>2 DEF WalkTrue
  <2>4. WalkWhole'
    BY <1>8, <2>2 DEF WalkWhole
  <2> QED BY <2>3, <2>4
<1>11. PagesTrue'
  <2>1. SUFFICES ASSUME NEW p \in 0..LastRkey, stored'[p] # NotStored PROVE ListPageTrue(stored'[p], p)
    BY DEF PagesTrue, ListPageTrue
  <2>2. p \in Place /\ stored[p] # NotStored
    BY <1>3, <2>1, RkeyBounds
  <2>3. PICK s \in Stored, t \in Stored :
               /\ stored[p] = s /\ stored'[p] = t /\ t.says = s.says /\ t.rows = s.rows
               /\ t.next = s.next /\ t.excused = s.excused /\ t.through = s.through \ keys
    BY <1>4, <2>2
  <2>4. ListPageTrue(s, p)
    BY <2>2, <2>3 DEF ArchInv, PagesTrue
  <2>5. ListPageTrue(t, p)
    BY <2>3, <2>4 DEF ListPageTrue
  <2> QED BY <2>3, <2>5
<1>12. KeptIsTrue'
  <2>1. Newest \in Place
    BY RkeyBounds
  <2>2. SUFFICES ASSUME stored'[Newest] # NotStored, stored'[Newest].says = "nothing yet",
                        stored'[Newest].next = Newest, stored'[Newest].excused # "unreachable"
                 PROVE  stored'[Newest].through = {}
    BY DEF KeptIsTrue
  <2>3. stored[Newest] # NotStored
    BY <1>3, <2>1, <2>2
  <2>4. PICK s \in Stored, t \in Stored :
               /\ stored[Newest] = s /\ stored'[Newest] = t /\ t.says = s.says /\ t.rows = s.rows
               /\ t.next = s.next /\ t.excused = s.excused /\ t.through = s.through \ keys
    BY <1>4, <2>1, <2>3
  <2>5. s.through = {}
    BY <2>2, <2>3, <2>4 DEF ArchInv, ArchiveIsTrue, KeptIsTrue
  <2> QED BY <2>4, <2>5
<1>15. ArrivedTrue'
  BY <1>1 DEF ArrivedTrue, TakedownSaid, EmptyIsEmpty, TakenDownUnseen, FeedWhole
<1>13. CASE visitor = NoVisitor
  <2>1. visitor' = NoVisitor
    BY <1>13 DEF WriterDoes
  <2>2. ArchTypeOK' /\ VisitTrue'
    BY <1>1, <1>2, <1>5, <1>8, <2>1 DEF ArchInv, ArchTypeOK, VisitTrue
  <2> QED BY <1>10, <1>11, <1>12, <1>15, <2>2 DEF ArchInv, ArchiveIsTrue, ArrivedTrue
<1>14. CASE visitor # NoVisitor
  <2>1. PICK v \in Visitor : v = visitor
    BY <1>14 DEF ArchInv, ArchTypeOK
  <2>2. PICK blind \in BOOLEAN : blind = (v.blind \/ author)
    BY DEF Visitor
  <2>3. PICK z : z = [v EXCEPT !.untouched = v.untouched \ keys, !.blind = blind]
    OBVIOUS
  <2>4. visitor' = z
    BY <1>14, <2>1, <2>2, <2>3 DEF WriterDoes
  <2>5. /\ z \in Visitor /\ z.place = v.place /\ z.search = v.search /\ z.waits = v.waits
        /\ z.hidden = v.hidden /\ z.found = v.found /\ z.listed = v.listed
        /\ z.refused = v.refused /\ z.unread = v.unread /\ z.untouched = v.untouched \ keys
    BY <2>3 DEF Visitor
  <2>6. v.untouched \in SUBSET Rkey /\ (z.blind <=> v.blind \/ author)
    BY <2>2, <2>3 DEF Visitor
  <2>7. z # NoVisitor
    BY <2>5, ArchNulls
  <2>8. ArchTypeOK'
    BY <1>1, <1>2, <1>5, <1>8, <2>4, <2>5 DEF ArchInv, ArchTypeOK
  <2>9. VisitTrue'
    <3>1. /\ v.place # Feed /\ taken.author /\ ~v.blind => "hidden" \in v.waits \/ v.hidden
          /\ v.search => v.place = Newest
          /\ "index" \in v.waits => v.search
          /\ v.place # Feed /\ ~v.search => v.place = w.at /\ ~w.over
          /\ v.place = Feed => ~v.search
          /\ FoundTrue(v) /\ ListedTrue(v)
      BY <1>6, <1>14, <2>1 DEF ArchInv, VisitTrue
    <3>2. z.place # Feed /\ taken'.author /\ ~z.blind => "hidden" \in z.waits \/ z.hidden
      BY <2>5, <2>6, <3>1
    <3>3. z.place # Feed /\ ~z.search => z.place = u.at /\ ~u.over
      BY <1>8, <1>9, <2>5, <3>1
    <3>4. FoundTrue(z)'
      BY <2>5, <2>6, <3>1 DEF FoundTrue
    <3>5. ListedTrue(z)'
      <4>1. records' \cap z.untouched = (records \cap v.untouched) \ keys
        BY <2>5, <2>6
      <4>2. z.listed # NotAsked /\ ~z.refused /\ ~z.unread => v.listed # NotAsked /\ ~v.refused /\ ~v.unread
        BY <2>5
      <4> QED BY <2>5, <3>1, <4>1, <4>2 DEF ListedTrue
    <3>6. (z.search => z.place = Newest) /\ (z.place = Feed => ~z.search) /\ ("index" \in z.waits => z.search)
      BY <2>5, <3>1
    <3>7. FoundTrue(visitor)' /\ ListedTrue(visitor)'
      BY <2>4, <3>4, <3>5
    <3> QED BY <1>8, <2>4, <3>2, <3>3, <3>6, <3>7 DEF VisitTrue
  <2> QED BY <1>10, <1>11, <1>12, <1>15, <2>8, <2>9 DEF ArchInv, ArchiveIsTrue, ArrivedTrue
<1> QED BY <1>13, <1>14

(* The loader's answer, and what it shows and keeps.                        *)
SaidTrue(r) ==
  /\ taken.author /\ ~r.blind /\ r.place # Feed => r.says = "taken down"
  /\ r.place = Newest /\ r.scope # "full" /\ r.excused = "none" =>
       /\ r.says = "nothing yet" /\ r.next = Newest => Titled \cap r.untouched = {}
       /\ r.says = "no match" => TopOf(records, 1) \cap (Titled \cap r.untouched) \cap drawn.titleSays = {}
  /\ ~r.blind /\ (r.scope = "full" \/ r.place = Feed) => r.rows \cap taken.posts \cap r.untouched = {}
  /\ r.place = Feed /\ r.says = "posts" /\ ~r.blind /\ r.excused = "none" =>
       \A k \in (Titled \cap r.untouched) \ taken.posts : k >= r.lowest => k \in r.rows

TurnsOver(r) == ~r.search /\ r.place # Feed /\ r.says \in {"posts", "nothing yet", "too large"}
RowsTrue(r) ==
  /\ \A k \in r.rows : r.place = Newest \/ k < r.place
  /\ r.next # Newest => /\ \A k \in r.rows : k >= r.next
                        /\ r.place = Newest \/ r.next < r.place
  /\ r.excused = "none" /\ r.says # "too large" =>
       \A k \in Titled \cap r.untouched : (r.place = Newest \/ k < r.place) /\ k >= r.next => k \in r.rows

LEMMA AnsweredTrue ==
  ASSUME NEW r \in PageAnswer, SaidTrue(r), answer' = r, UNCHANGED <<records, drawn, taken>>
  PROVE  ArrivedTrue'
<1>1. PICK titled : titled = Titled
  OBVIOUS
<1>2. Titled' = titled
  BY <1>1 DEF Titled
<1>3. PICK top : top = TopOf(records, 1)
  OBVIOUS
<1>4. TopOf(records, 1)' = top
  BY <1>3 DEF TopOf
<1>5. TakedownSaid'
  BY DEF SaidTrue, TakedownSaid
<1>6. EmptyIsEmpty'
  BY <1>1, <1>2, <1>3, <1>4 DEF SaidTrue, EmptyIsEmpty
<1>7. TakenDownUnseen'
  BY DEF SaidTrue, TakenDownUnseen
<1>8. FeedWhole'
  BY <1>1, <1>2 DEF SaidTrue, FeedWhole
<1> QED BY <1>5, <1>6, <1>7, <1>8 DEF ArrivedTrue

LEMMA ReplyKeeps ==
  ASSUME ArchInv, visitor # NoVisitor, NEW r \in PageAnswer, NEW keep \in BOOLEAN, Replies(r, keep),
         SaidTrue(r), r.place = visitor.place, r.search <=> visitor.search,
         TurnsOver(r) => RowsTrue(r),
         keep => /\ r.says \in {"posts", "nothing yet", "too large"}
                 /\ r.search \/ r.place = Feed \/ (r.scope # "full" /\ r.excused # "moved"),
         keep /\ r.place = Feed => r.says = "posts",
         cachedAt' \in {0, 1, Undirected}, failed' \in 0..MaxFailed
  PROVE  ArchInv'
<1>1. PICK leaf : leaf = [says |-> r.says, rows |-> r.rows, next |-> r.next,
                          excused |-> r.excused, through |-> Titled \cap r.untouched]
  OBVIOUS
<1>2. /\ leaf.says = r.says /\ leaf.rows = r.rows /\ leaf.next = r.next /\ leaf.excused = r.excused
      /\ leaf.through = Titled \cap r.untouched
  BY <1>1
<1>3. /\ r.rows \in SUBSET Rkey /\ r.next \in 0..LastRkey /\ r.excused \in Excuse
      /\ r.untouched \in SUBSET Rkey /\ r.place \in Place
  BY DEF PageAnswer
<1>4. r.says \in {"posts", "nothing yet", "too large"} => leaf \in Stored
  BY <1>1, <1>3 DEF Stored
<1>5. /\ visitor' = NoVisitor /\ answer' = r
      /\ UNCHANGED <<records, drawn, taken, repoAt, postIndex, changed>>
  BY DEF Replies
<1>6. stored' = IF keep /\ Key(r.place, r.search) # NotAsked
                THEN [stored EXCEPT ![Key(r.place, r.search)] = leaf] ELSE stored
  BY <1>1 DEF Replies
<1>7. IF TurnsOver(r) THEN Turns(leaf) ELSE UNCHANGED walk
  BY <1>1 DEF Replies, TurnsOver
<1>8. ArrivedTrue'
  BY <1>5, AnsweredTrue
<1>9. walk' \in Walk /\ WalkTrue' /\ WalkWhole'
  <2>1. CASE TurnsOver(r)
    <3>1. ListPageTrue(leaf, r.place)
      BY <1>2, <2>1 DEF ListPageTrue, RowsTrue
    <3>2. r.place = walk.at /\ ~walk.over
      BY <2>1 DEF TurnsOver, ArchInv, VisitTrue
    <3>3. leaf \in Stored /\ Turns(leaf)
      BY <1>4, <1>7, <2>1 DEF TurnsOver
    <3>4. ListPageTrue(leaf, walk.at)
      BY <3>1, <3>2
    <3> QED BY <3>2, <3>3, <3>4, TurnedWalk
  <2>2. CASE ~TurnsOver(r)
    <3>1. walk' = walk
      BY <1>7, <2>2
    <3> QED BY <3>1 DEF ArchInv, ArchTypeOK, ArchiveIsTrue, WalkTrue, WalkWhole
  <2> QED BY <2>1, <2>2
<1>10. CASE ~(keep /\ ~r.search)
  <2>1. stored' = stored
    BY <1>6, <1>10 DEF Key
  <2>2. ArchTypeOK'
    BY <1>5, <1>9, <2>1 DEF ArchInv, ArchTypeOK
  <2>3. PagesTrue'
    BY <2>1 DEF ArchInv, PagesTrue, ListPageTrue
  <2>4. KeptIsTrue'
    BY <2>1 DEF ArchInv, ArchiveIsTrue, KeptIsTrue
  <2>5. VisitTrue'
    BY <1>5 DEF VisitTrue
  <2> QED BY <1>8, <1>9, <2>2, <2>3, <2>4, <2>5 DEF ArchInv, ArchiveIsTrue, ArrivedTrue
<1>11. CASE keep /\ ~r.search
  <2>1. Key(r.place, r.search) = r.place /\ r.place # NotAsked
    BY <1>3, <1>11, ArchNulls DEF Key
  <2>2. stored' = [stored EXCEPT ![r.place] = leaf]
    BY <1>6, <1>11, <2>1
  <2>3. leaf \in Stored
    BY <1>4, <1>11
  <2>4. stored \in [Place -> Stored \cup {NotStored}]
    BY DEF ArchInv, ArchTypeOK
  <2>5. /\ stored' \in [Place -> Stored \cup {NotStored}]
        /\ \A p \in Place : stored'[p] = IF p = r.place THEN leaf ELSE stored[p]
    BY <2>2, <2>3, <2>4
  <2>6. ArchTypeOK'
    BY <1>5, <1>9, <2>5 DEF ArchInv, ArchTypeOK
  <2>7. PagesTrue'
    <3> SUFFICES ASSUME NEW p \in 0..LastRkey, stored'[p] # NotStored PROVE ListPageTrue(stored'[p], p)
      BY DEF PagesTrue, ListPageTrue
    <3>1. p \in Place /\ p # Feed
      BY RkeyBounds
    <3>2. CASE p = r.place
      <4>1. ListPageTrue(leaf, r.place)
        BY <1>2, <1>11, <3>1, <3>2 DEF ListPageTrue, RowsTrue, TurnsOver
      <4>2. stored'[p] = leaf
        BY <2>5, <3>1, <3>2
      <4> QED BY <3>2, <4>1, <4>2
    <3>3. CASE p # r.place
      <4>1. stored'[p] = stored[p]
        BY <2>5, <3>1, <3>3
      <4>2. ListPageTrue(stored[p], p)
        BY <4>1 DEF ArchInv, PagesTrue
      <4> QED BY <4>1, <4>2
    <3> QED BY <3>2, <3>3
  <2>8. KeptIsTrue'
    <3>1. Newest \in Place
      BY RkeyBounds
    <3>2. CASE r.place # Newest
      <4>1. stored'[Newest] = stored[Newest]
        BY <2>5, <3>1, <3>2
      <4> QED BY <4>1 DEF ArchInv, ArchiveIsTrue, KeptIsTrue
    <3>3. CASE r.place = Newest
      <4>1. stored'[Newest] = leaf
        BY <2>5, <3>1, <3>3
      <4>2. SUFFICES ASSUME leaf.says = "nothing yet", leaf.next = Newest, leaf.excused # "unreachable"
                     PROVE  leaf.through = {}
        BY <4>1 DEF KeptIsTrue
      <4>3. r.place # Feed
        BY <3>3, RkeyBounds
      <4>4. r.excused = "none" /\ r.scope # "full"
        BY <1>2, <1>3, <1>11, <4>2, <4>3 DEF Excuse
      <4> QED BY <1>2, <3>3, <4>2, <4>4 DEF SaidTrue
    <3> QED BY <3>2, <3>3
  <2>9. VisitTrue'
    BY <1>5 DEF VisitTrue
  <2> QED BY <1>8, <1>9, <2>6, <2>7, <2>8, <2>9 DEF ArchInv, ArchiveIsTrue, ArrivedTrue
<1> QED BY <1>10, <1>11

(* What every answer begins as.                                             *)
LEMMA BlankFacts ==
  ASSUME ArchInv, NEW v \in Visitor, v = visitor
  PROVE  /\ BlankPage \in PageAnswer /\ BlankPage.place = v.place /\ (BlankPage.search <=> v.search)
         /\ BlankPage.scope = "none" /\ BlankPage.says = "not found" /\ BlankPage.rows = {}
         /\ BlankPage.lowest = 0 /\ BlankPage.next = Newest /\ BlankPage.excused = "none"
         /\ BlankPage.untouched = v.untouched /\ (BlankPage.blind <=> v.blind)
<1>1. 0 \in 0..LastRkey /\ Newest \in 0..LastRkey
  BY RkeyBounds
<1>2. BlankPage = [place |-> v.place, search |-> v.search, scope |-> "none",
                   says |-> "not found", rows |-> {}, lowest |-> 0, next |-> Newest, excused |-> "none",
                   untouched |-> v.untouched, blind |-> v.blind]
  BY DEF BlankPage
<1>3. v.place \in Place /\ v.search \in BOOLEAN /\ v.untouched \in SUBSET Rkey /\ v.blind \in BOOLEAN
  BY DEF Visitor
<1>4. BlankPage \in PageAnswer
  BY <1>1, <1>2, <1>3 DEF PageAnswer, Excuse
<1>5. BlankPage.search = v.search /\ BlankPage.blind = v.blind
  BY <1>2
<1>6. (BlankPage.search <=> v.search) /\ (BlankPage.blind <=> v.blind)
  BY <1>5
<1> QED BY <1>2, <1>4, <1>6

(* What a page with these rows is like.                                     *)
Showing(q, v, rows) ==
  /\ q \in PageAnswer /\ q.place = v.place /\ (q.search <=> v.search)
  /\ q.next = Newest /\ q.excused = "none" /\ q.lowest = 0
  /\ q.untouched = v.untouched /\ (q.blind <=> v.blind)
  /\ q.scope # "full"
  /\ v.search => /\ q.rows = TitleHits(rows) /\ q.says \in {"no match", "posts"}
                 /\ q.says = "no match" => TitleHits(rows) = {}
  /\ ~v.search => /\ q.rows = rows /\ q.says \in {"nothing yet", "posts"}
                  /\ q.says = "nothing yet" => rows = {}

LEMMA ShowsFacts ==
  ASSUME ArchInv, NEW v \in Visitor, v = visitor, NEW rows \in SUBSET Rkey
  PROVE  Showing(Shows(rows), v, rows)
<1> SUFFICES ASSUME NEW q, q = Shows(rows) PROVE Showing(q, v, rows)
  OBVIOUS
<1>1. PICK b \in PageAnswer : b = BlankPage
  BY BlankFacts
<1>2. /\ b.place = v.place /\ (b.search <=> v.search) /\ b.next = Newest /\ b.excused = "none"
      /\ b.lowest = 0 /\ b.untouched = v.untouched /\ (b.blind <=> v.blind) /\ b.scope = "none"
  BY <1>1, BlankFacts
<1>3. CASE v.search
  <2>1. PICK hits : hits = TitleHits(rows)
    OBVIOUS
  <2>2. hits \in SUBSET Rkey
    BY <2>1 DEF TitleHits
  <2>3. PICK says \in {"no match", "posts"} : says = IF hits = {} THEN "no match" ELSE "posts"
    OBVIOUS
  <2>4. q = [b EXCEPT !.scope = "titles", !.rows = hits, !.says = says]
    BY <1>1, <1>3, <2>1, <2>3 DEF Shows
  <2>5. /\ q \in PageAnswer /\ q.place = b.place /\ q.next = b.next /\ q.excused = b.excused
        /\ q.lowest = b.lowest /\ q.untouched = b.untouched /\ q.scope = "titles"
        /\ q.rows = hits /\ q.says = says
    BY <2>2, <2>4 DEF PageAnswer
  <2>6. (q.search <=> b.search) /\ (q.blind <=> b.blind)
    BY <2>4 DEF PageAnswer
  <2> QED BY <1>2, <1>3, <2>1, <2>3, <2>5, <2>6 DEF Showing
<1>4. CASE ~v.search
  <2>1. PICK says \in {"nothing yet", "posts"} : says = IF rows = {} THEN "nothing yet" ELSE "posts"
    OBVIOUS
  <2>2. q = [b EXCEPT !.rows = rows, !.says = says]
    BY <1>1, <1>4, <2>1 DEF Shows
  <2>3. /\ q \in PageAnswer /\ q.place = b.place /\ q.next = b.next /\ q.excused = b.excused
        /\ q.lowest = b.lowest /\ q.untouched = b.untouched /\ q.scope = b.scope
        /\ q.rows = rows /\ q.says = says
    BY <2>2 DEF PageAnswer
  <2>4. (q.search <=> b.search) /\ (q.blind <=> b.blind)
    BY <2>2 DEF PageAnswer
  <2> QED BY <1>2, <1>4, <2>1, <2>3, <2>4 DEF Showing
<1> QED BY <1>3, <1>4

(* The loader goes on only for a writer who is not hidden.                  *)
LEMMA GoesOn ==
  ASSUME ArchInv, NEW v \in Visitor, v = visitor, visitor # NoVisitor, v.place # Feed, Settled = "go on"
  PROVE  taken.author => v.blind
<1>1. "hidden" \notin v.waits /\ ~v.hidden
  BY DEF Settled
<1> QED BY <1>1 DEF ArchInv, VisitTrue

LEMMA FailsTyped ==
  ASSUME ArchInv, NEW fails \in BOOLEAN, MayFail(fails)
  PROVE  failed' \in 0..MaxFailed
<1>1. failed \in 0..MaxFailed /\ MaxFailed \in Nat
  BY ArchiveAssumption DEF ArchInv, ArchTypeOK
<1> QED BY <1>1 DEF MayFail

LEMMA HereFacts ==
  ASSUME ArchInv, visitor # NoVisitor
  PROVE  \E v \in Visitor : v = visitor
BY DEF ArchInv, ArchTypeOK

LEMMA TurnedAwayKeeps == ASSUME ArchInv, TurnedAway PROVE ArchInv'
<1>1. PICK v \in Visitor : v = visitor
  BY HereFacts DEF TurnedAway
<1>2. PICK b \in PageAnswer : b = BlankPage
  BY <1>1, BlankFacts
<1>3. /\ b.place = v.place /\ (b.search <=> v.search) /\ b.scope = "none" /\ b.rows = {}
      /\ b.excused = "none" /\ b.next = Newest
  BY <1>1, <1>2, BlankFacts
<1>4. PICK says \in {"taken down", "not found"} : says = Settled
  BY DEF TurnedAway
<1>5. PICK q : q = [b EXCEPT !.says = says]
  OBVIOUS
<1>6. /\ q \in PageAnswer /\ q.place = b.place /\ q.scope = "none" /\ q.rows = {} /\ q.says = says
  BY <1>3, <1>5 DEF PageAnswer
<1>7. (q.search <=> b.search) /\ (q.blind <=> b.blind)
  BY <1>5 DEF PageAnswer
<1>8. Replies(q, FALSE) /\ visitor # NoVisitor /\ v.place # Feed
      /\ cachedAt' = cachedAt /\ failed' = failed
  BY <1>1, <1>2, <1>4, <1>5 DEF TurnedAway
<1>9. taken.author /\ ~q.blind => says = "taken down"
  <2>1. q.blind <=> v.blind
    BY <1>1, <1>2, <1>7, BlankFacts
  <2>2. says # "taken down" => "hidden" \notin v.waits /\ ~v.hidden
    BY <1>1, <1>4 DEF Settled
  <2> QED BY <1>1, <1>8, <2>1, <2>2 DEF ArchInv, VisitTrue
<1>10. SaidTrue(q)
  BY <1>3, <1>4, <1>6, <1>8, <1>9 DEF SaidTrue
<1>11. cachedAt' \in {0, 1, Undirected} /\ failed' \in 0..MaxFailed
  BY <1>8 DEF ArchInv, ArchTypeOK
<1>12. ~TurnsOver(q)
  BY <1>4, <1>6 DEF TurnsOver
<1>13. q.place = visitor.place /\ (q.search <=> visitor.search)
  BY <1>1, <1>3, <1>6, <1>7
<1> QED BY <1>6, <1>8, <1>10, <1>11, <1>12, <1>13, ReplyKeeps

LEMMA FromIndexKeeps == ASSUME ArchInv, FromIndex PROVE ArchInv'
<1>1. PICK v \in Visitor : v = visitor
  BY HereFacts DEF FromIndex
<1>2. PICK b \in PageAnswer : b = BlankPage
  BY <1>1, BlankFacts
<1>3. /\ b.place = v.place /\ (b.search <=> v.search) /\ b.excused = "none" /\ b.next = Newest
      /\ b.untouched = v.untouched /\ (b.blind <=> v.blind)
  BY <1>1, <1>2, BlankFacts
<1>4. /\ v.found # NoIndex /\ v.found \in SUBSET Rkey /\ v.search
      /\ v.found \cap taken.posts \cap v.untouched = {}
  BY <1>1 DEF FromIndex, Visitor, ArchInv, VisitTrue, FoundTrue
<1>5. PICK says \in {"no match", "posts"} : says = IF v.found = {} THEN "no match" ELSE "posts"
  OBVIOUS
<1>6. PICK q : q = [b EXCEPT !.scope = "full", !.rows = v.found, !.says = says]
  OBVIOUS
<1>7. /\ q \in PageAnswer /\ q.place = b.place /\ q.scope = "full" /\ q.rows = v.found /\ q.says = says
      /\ q.untouched = b.untouched
  BY <1>4, <1>6 DEF PageAnswer
<1>8. (q.search <=> b.search) /\ (q.blind <=> b.blind)
  BY <1>6 DEF PageAnswer
<1>9. Replies(q, FALSE) /\ visitor # NoVisitor /\ v.place # Feed /\ Settled = "go on"
      /\ cachedAt' = cachedAt /\ failed' = failed
  BY <1>1, <1>2, <1>5, <1>6 DEF FromIndex
<1>10. SaidTrue(q)
  <2>1. taken.author => v.blind
    BY <1>1, <1>9, GoesOn
  <2> QED BY <1>3, <1>4, <1>7, <1>8, <1>9, <2>1 DEF SaidTrue
<1>11. cachedAt' \in {0, 1, Undirected} /\ failed' \in 0..MaxFailed
  BY <1>9 DEF ArchInv, ArchTypeOK
<1>12. ~TurnsOver(q)
  BY <1>3, <1>4, <1>8 DEF TurnsOver
<1>13. q.place = visitor.place /\ (q.search <=> visitor.search)
  BY <1>1, <1>3, <1>7, <1>8
<1> QED BY <1>7, <1>9, <1>10, <1>11, <1>12, <1>13, ReplyKeeps

(* The newest record is on the first page, however it was shrunk.           *)
LEMMA NewestIsListed ==
  ASSUME ArchTypeOK, NEW limit \in Nat \ {0}, NEW leaf \in ListedPages(Newest, limit)
  PROVE  TopOf(records, 1) \subseteq leaf.keys
<1>1. Past(Newest) = records
  BY DEF Past
<1>2. Newest \in 0..LastRkey
  BY RkeyBounds
<1>3. /\ leaf.keys \in SUBSET Rkey /\ leaf.keys \subseteq records
      /\ \A k \in records \ leaf.keys, j \in leaf.keys : k < j
      /\ leaf.keys = {} => records = {}
  BY <1>1, <1>2, PageOfRecords
<1> SUFFICES ASSUME NEW k \in TopOf(records, 1), k \notin leaf.keys PROVE FALSE
  OBVIOUS
<1>4. PICK above : above = {j \in records : j > k}
  OBVIOUS
<1>5. k \in records /\ Cardinality(above) < 1
  BY <1>4 DEF TopOf
<1>6. PICK j \in leaf.keys : TRUE
  BY <1>3, <1>5
<1>7. j \in above
  <2>1. k < j /\ j \in Nat /\ k \in Nat
    BY <1>3, <1>5, RkeyBounds DEF ArchTypeOK, Rkey
  <2> QED BY <1>3, <1>4, <2>1
<1>8. IsFiniteSet(above)
  <2>1. above \subseteq Rkey
    BY <1>4 DEF ArchTypeOK
  <2> QED BY <2>1, RkeyBounds, FS_Subset
<1>9. Cardinality({j}) = 1 /\ Cardinality({j}) <= Cardinality(above)
  <2>1. Cardinality({j}) = 1
    BY FS_Singleton
  <2>2. {j} \subseteq above
    BY <1>7
  <2> QED BY <1>8, <2>1, <2>2, FS_Subset
<1>10. PICK n \in Nat : n = Cardinality(above)
  BY <1>8, FS_CardinalityType
<1>11. n < 1 /\ 1 <= n
  BY <1>5, <1>9, <1>10
<1> QED BY <1>10, <1>11

LEMMA FromListingKeeps == ASSUME ArchInv, FromListing PROVE ArchInv'
<1>1. PICK v \in Visitor : v = visitor
  BY HereFacts DEF FromListing
<1>2. visitor # NoVisitor /\ v.place # Feed /\ Settled = "go on"
  BY <1>1 DEF FromListing
<1>3. v.place \in 0..LastRkey
  BY <1>2, RkeyBounds DEF Visitor
<1>4. PICK leaf \in ListedPages(v.place, ArchivePage), unnamed \in BOOLEAN :
       /\ MayFail(unnamed) /\ cachedAt' = cachedAt
       /\ Replies([Shows(leaf.keys \ drawn.untitled) EXCEPT
                     !.next = IF v.search THEN Newest ELSE NextOf(leaf, ArchivePage)],
                  ~unnamed /\ ~v.search)
  BY <1>1 DEF FromListing
<1>5. PICK rows : rows = leaf.keys \ drawn.untitled
  OBVIOUS
<1>6. PICK n : n = NextOf(leaf, ArchivePage)
  OBVIOUS
<1>7. /\ leaf.keys \in SUBSET Rkey /\ leaf.keys \in SUBSET Past(v.place)
      /\ \A k \in Past(v.place) \ leaf.keys, j \in leaf.keys : k < j
      /\ leaf.keys = {} => Past(v.place) = {}
      /\ n \in 0..LastRkey
      /\ n = Newest => leaf.keys = Past(v.place)
      /\ n # Newest => n \in leaf.keys /\ \A k \in leaf.keys : n <= k
  BY <1>3, <1>6, PageOfRecords, RkeyBounds DEF ArchInv
<1>8. rows \in SUBSET Rkey
  BY <1>5, <1>7
<1>9. PICK s : s = Shows(rows)
  OBVIOUS
<1>10. /\ s \in PageAnswer /\ s.place = v.place /\ (s.search <=> v.search)
       /\ s.next = Newest /\ s.excused = "none" /\ s.untouched = v.untouched /\ (s.blind <=> v.blind)
       /\ s.scope # "full"
       /\ v.search => s.says \in {"no match", "posts"} /\ (s.says = "no match" => TitleHits(rows) = {})
       /\ ~v.search => /\ s.rows = rows /\ s.says \in {"nothing yet", "posts"}
                       /\ s.says = "nothing yet" => rows = {}
  <2>1. Showing(s, v, rows)
    BY <1>1, <1>8, <1>9, ShowsFacts
  <2> QED BY <2>1 DEF Showing
<1>11. PICK next \in 0..LastRkey : next = IF v.search THEN Newest ELSE n
  BY <1>7, RkeyBounds
<1>12. PICK r : r = [s EXCEPT !.next = next]
  OBVIOUS
<1>13. /\ r \in PageAnswer /\ r.place = s.place /\ r.next = next /\ r.excused = s.excused
       /\ r.untouched = s.untouched /\ r.scope = s.scope /\ r.rows = s.rows /\ r.says = s.says
  BY <1>10, <1>12 DEF PageAnswer
<1>14. (r.search <=> s.search) /\ (r.blind <=> s.blind)
  BY <1>10, <1>12 DEF PageAnswer
<1>15. PICK keep \in BOOLEAN : keep <=> ~unnamed /\ ~v.search
  OBVIOUS
<1>16. Replies(r, keep)
  <2>1. keep = (~unnamed /\ ~v.search)
    BY <1>15
  <2> QED BY <1>4, <1>5, <1>6, <1>9, <1>11, <1>12, <2>1
<1>17. SaidTrue(r)
  <2>1. taken.author => v.blind
    BY <1>1, <1>2, GoesOn
  <2>2. ASSUME r.place = Newest, r.says = "nothing yet", r.next = Newest PROVE Titled = {}
    <3>1. ~v.search /\ rows = {} /\ n = Newest
      BY <1>10, <1>11, <1>13, <2>2
    <3>2. leaf.keys = records
      BY <1>7, <1>10, <1>13, <2>2, <3>1 DEF Past
    <3> QED BY <1>5, <3>1, <3>2 DEF Titled
  <2>3. ASSUME r.place = Newest, r.says = "no match"
        PROVE  TopOf(records, 1) \cap Titled \cap drawn.titleSays = {}
    <3>1. v.search /\ TitleHits(rows) = {}
      BY <1>10, <1>13, <2>3
    <3>2. TopOf(records, 1) \subseteq leaf.keys
      BY <1>10, <1>13, <2>3, RkeyBounds, NewestIsListed DEF ArchInv
    <3> QED BY <1>5, <3>1, <3>2 DEF Titled, TitleHits
  <2> QED BY <1>2, <1>10, <1>13, <1>14, <2>1, <2>2, <2>3 DEF SaidTrue
<1>18. TurnsOver(r) => RowsTrue(r)
  <2> SUFFICES ASSUME ~v.search PROVE RowsTrue(r)
    BY <1>10, <1>13, <1>14 DEF TurnsOver
  <2>1. r.place = v.place /\ r.next = n /\ r.rows = rows
    BY <1>10, <1>11, <1>13
  <2>2. \A k \in rows : k \in leaf.keys /\ k \in Past(v.place) /\ k \in Nat
    BY <1>5, <1>7, RkeyBounds DEF Rkey
  <2>3. \A k \in rows : v.place = Newest \/ k < v.place
    BY <2>2 DEF Past
  <2>4. n # Newest => \A k \in rows : k >= n
    BY <1>7, <2>2
  <2>5. n # Newest => v.place = Newest \/ n < v.place
    BY <1>7 DEF Past
  <2>6. ASSUME NEW k \in Titled, v.place = Newest \/ k < v.place, k >= n PROVE k \in rows
    <3>1. k \in Past(v.place) /\ k \notin drawn.untitled /\ k \in Nat
      BY <2>6, RkeyBounds DEF Past, Titled, ArchInv, ArchTypeOK, Rkey
    <3>2. n = Newest => k \in leaf.keys
      BY <1>7, <3>1
    <3>3. n # Newest /\ k \notin leaf.keys => k < n
      BY <1>7, <3>1
    <3>4. n \in Nat
      BY <1>7
    <3>5. k \in leaf.keys
      BY <2>6, <3>1, <3>2, <3>3, <3>4
    <3> QED BY <1>5, <3>1, <3>5
  <2>7. \A k \in rows : r.place = Newest \/ k < r.place
    BY <2>1, <2>3
  <2>8. r.next # Newest => (\A k \in r.rows : k >= r.next) /\ (r.place = Newest \/ r.next < r.place)
    BY <2>1, <2>4, <2>5
  <2>9. \A k \in Titled \cap r.untouched : (r.place = Newest \/ k < r.place) /\ k >= r.next => k \in r.rows
    BY <2>1, <2>6
  <2> QED BY <2>1, <2>7, <2>8, <2>9 DEF RowsTrue
<1>19. cachedAt' \in {0, 1, Undirected} /\ failed' \in 0..MaxFailed
  BY <1>4, FailsTyped DEF ArchInv, ArchTypeOK
<1>20. r.place = visitor.place /\ (r.search <=> visitor.search)
  BY <1>1, <1>10, <1>13, <1>14
<1>21. keep => /\ r.says \in {"posts", "nothing yet", "too large"}
               /\ r.scope # "full" /\ r.excused # "moved"
  BY <1>10, <1>13, <1>15
<1>22. r.place # Feed
  BY <1>2, <1>10, <1>13
<1> QED BY <1>2, <1>13, <1>16, <1>17, <1>18, <1>19, <1>20, <1>21, <1>22, ReplyKeeps

(* An answer without rows.                                                  *)
LEMMA EmptyPageKeeps ==
  ASSUME ArchInv, visitor # NoVisitor, NEW v \in Visitor, v = visitor, v.place # Feed,
         Settled = "go on", NEW r \in PageAnswer, NEW keep \in BOOLEAN, Replies(r, keep),
         r.place = v.place, r.search <=> v.search, r.blind <=> v.blind, r.next = Newest,
         r.scope # "full", ~v.search => r.rows = {},
         \/ r.says \in {"too large", "unavailable"} /\ r.excused = "none"
         \/ r.says \in {"nothing yet", "posts", "no match"} /\ r.excused \in {"moved", "unreachable"},
         keep => ~v.search /\ r.says \in {"nothing yet", "posts", "too large"} /\ r.excused # "moved",
         cachedAt' \in {0, 1, Undirected}, failed' \in 0..MaxFailed
  PROVE  ArchInv'
<1>1. taken.author => v.blind
  BY GoesOn
<1>2. SaidTrue(r)
  BY <1>1 DEF SaidTrue
<1>3. TurnsOver(r) => RowsTrue(r)
  BY DEF TurnsOver, RowsTrue
<1> QED BY <1>2, <1>3, ReplyKeeps

LEMMA FromLargeListingKeeps == ASSUME ArchInv, FromLargeListing PROVE ArchInv'
<1>1. PICK v \in Visitor : v = visitor
  BY HereFacts DEF FromLargeListing
<1>2. /\ visitor # NoVisitor /\ v.place # Feed /\ Settled = "go on"
      /\ Replies([Shows({}) EXCEPT !.says = "too large"], ~v.search)
      /\ cachedAt' = cachedAt /\ failed' = failed
  BY <1>1 DEF FromLargeListing
<1>3. PICK s : s = Shows({})
  OBVIOUS
<1>4. /\ s \in PageAnswer /\ s.place = v.place /\ (s.search <=> v.search)
      /\ s.next = Newest /\ s.excused = "none" /\ (s.blind <=> v.blind)
      /\ s.scope # "full" /\ (~v.search => s.rows = {})
  <2>1. Showing(s, v, {})
    BY <1>1, <1>3, ShowsFacts
  <2> QED BY <2>1 DEF Showing
<1>5. PICK r : r = [s EXCEPT !.says = "too large"]
  OBVIOUS
<1>6. /\ r \in PageAnswer /\ r.place = s.place /\ r.next = s.next /\ r.excused = s.excused
      /\ r.scope = s.scope /\ r.rows = s.rows /\ r.says = "too large"
  BY <1>4, <1>5 DEF PageAnswer
<1>7. (r.search <=> s.search) /\ (r.blind <=> s.blind)
  BY <1>4, <1>5 DEF PageAnswer
<1>8. PICK keep \in BOOLEAN : keep <=> ~v.search
  OBVIOUS
<1>9. Replies(r, keep)
  <2>1. keep = ~v.search
    BY <1>8
  <2> QED BY <1>2, <1>3, <1>5, <2>1
<1>10. cachedAt' \in {0, 1, Undirected} /\ failed' \in 0..MaxFailed
  BY <1>2 DEF ArchInv, ArchTypeOK
<1> QED BY <1>1, <1>2, <1>4, <1>6, <1>7, <1>8, <1>9, <1>10, EmptyPageKeeps

LEMMA FromNoListingKeeps == ASSUME ArchInv, FromNoListing PROVE ArchInv'
<1>1. PICK v \in Visitor : v = visitor
  BY HereFacts DEF FromNoListing
<1>2. /\ visitor # NoVisitor /\ v.place # Feed /\ Settled = "go on"
      /\ Replies([Shows({}) EXCEPT !.says = "unavailable"], FALSE)
      /\ MayFail(TRUE) /\ cachedAt' = cachedAt
  BY <1>1 DEF FromNoListing, FailureSaid
<1>3. PICK s : s = Shows({})
  OBVIOUS
<1>4. /\ s \in PageAnswer /\ s.place = v.place /\ (s.search <=> v.search)
      /\ s.next = Newest /\ s.excused = "none" /\ (s.blind <=> v.blind)
      /\ s.scope # "full" /\ (~v.search => s.rows = {})
  <2>1. Showing(s, v, {})
    BY <1>1, <1>3, ShowsFacts
  <2> QED BY <2>1 DEF Showing
<1>5. PICK r : r = [s EXCEPT !.says = "unavailable"]
  OBVIOUS
<1>6. /\ r \in PageAnswer /\ r.place = s.place /\ r.next = s.next /\ r.excused = s.excused
      /\ r.scope = s.scope /\ r.rows = s.rows /\ r.says = "unavailable"
  BY <1>4, <1>5 DEF PageAnswer
<1>7. (r.search <=> s.search) /\ (r.blind <=> s.blind)
  BY <1>4, <1>5 DEF PageAnswer
<1>8. Replies(r, FALSE)
  BY <1>2, <1>3, <1>5
<1>9. cachedAt' \in {0, 1, Undirected} /\ failed' \in 0..MaxFailed
  BY <1>2, FailsTyped DEF ArchInv, ArchTypeOK
<1> QED BY <1>1, <1>2, <1>4, <1>6, <1>7, <1>8, <1>9, EmptyPageKeeps

LEMMA FromRefusalKeeps == ASSUME ArchInv, FromRefusal PROVE ArchInv'
<1>1. PICK v \in Visitor : v = visitor
  BY HereFacts DEF FromRefusal
<1>2. PICK fails \in BOOLEAN :
       /\ MayFail(fails)
       /\ cachedAt' = IF fails THEN cachedAt ELSE repoAt
       /\ Replies([Shows({}) EXCEPT !.excused = IF fails THEN "unreachable" ELSE "moved"],
                  KeptUnlessMoved(~fails) /\ ~v.search)
  BY <1>1 DEF FromRefusal
<1>3. PICK s : s = Shows({})
  OBVIOUS
<1>4. /\ s \in PageAnswer /\ s.place = v.place /\ (s.search <=> v.search)
      /\ s.next = Newest /\ (s.blind <=> v.blind) /\ s.says \in {"nothing yet", "posts", "no match"}
      /\ s.scope # "full" /\ (~v.search => s.rows = {} /\ s.says \in {"nothing yet", "posts"})
  <2>1. Showing(s, v, {})
    BY <1>1, <1>3, ShowsFacts
  <2> QED BY <2>1 DEF Showing
<1>5. PICK excused \in {"moved", "unreachable"} : excused = IF fails THEN "unreachable" ELSE "moved"
  OBVIOUS
<1>6. PICK r : r = [s EXCEPT !.excused = excused]
  OBVIOUS
<1>7. /\ r \in PageAnswer /\ r.place = s.place /\ r.next = s.next /\ r.excused = excused
      /\ r.scope = s.scope /\ r.rows = s.rows /\ r.says = s.says
  BY <1>4, <1>6 DEF PageAnswer, Excuse
<1>8. (r.search <=> s.search) /\ (r.blind <=> s.blind)
  BY <1>4, <1>6 DEF PageAnswer
<1>9. PICK keep \in BOOLEAN : keep <=> fails /\ ~v.search
  OBVIOUS
<1>10. Replies(r, keep)
  <2>1. keep = (KeptUnlessMoved(~fails) /\ ~v.search)
    BY <1>9 DEF KeptUnlessMoved
  <2> QED BY <1>2, <1>3, <1>5, <1>6, <2>1
<1>11. cachedAt' \in {0, 1, Undirected} /\ failed' \in 0..MaxFailed
  BY <1>2, FailsTyped DEF ArchInv, ArchTypeOK
<1>12. visitor # NoVisitor /\ v.place # Feed /\ Settled = "go on"
  BY <1>1 DEF FromRefusal
<1>13. keep => ~v.search /\ r.says \in {"nothing yet", "posts", "too large"} /\ r.excused # "moved"
  BY <1>4, <1>5, <1>7, <1>9
<1> QED BY <1>1, <1>4, <1>5, <1>7, <1>8, <1>10, <1>11, <1>12, <1>13, EmptyPageKeeps

-----------------------------------------------------------------------------
(* The feed.                                                                *)

LEMMA FeedNotFoundKeeps == ASSUME ArchInv, FeedNotFound PROVE ArchInv'
<1>1. PICK v \in Visitor : v = visitor
  BY HereFacts DEF FeedNotFound
<1>2. PICK b \in PageAnswer : b = BlankPage
  BY <1>1, BlankFacts
<1>3. /\ b.place = v.place /\ (b.search <=> v.search) /\ b.scope = "none" /\ b.rows = {}
      /\ b.excused = "none" /\ b.next = Newest /\ b.says = "not found"
  BY <1>1, <1>2, BlankFacts
<1>4. Replies(b, FALSE) /\ visitor # NoVisitor /\ v.place = Feed /\ cachedAt' = cachedAt /\ failed' = failed
  BY <1>1, <1>2 DEF FeedNotFound
<1>5. SaidTrue(b)
  BY <1>3, <1>4 DEF SaidTrue
<1>6. ~TurnsOver(b)
  BY <1>3 DEF TurnsOver
<1>7. cachedAt' \in {0, 1, Undirected} /\ failed' \in 0..MaxFailed
  BY <1>4 DEF ArchInv, ArchTypeOK
<1> QED BY <1>1, <1>3, <1>4, <1>5, <1>6, <1>7, ReplyKeeps

(* The request goes on; the reader and the cache are as they were.          *)
LEMMA GoesOnReading ==
  ASSUME ArchInv, NEW v \in Visitor, visitor' = v, answer' = NoAnswer,
         UNCHANGED <<records, drawn, taken, repoAt, postIndex, stored, walk, changed>>,
         cachedAt' \in {0, 1, Undirected}, failed' \in 0..MaxFailed,
         v.place # Feed /\ taken.author /\ ~v.blind => "hidden" \in v.waits \/ v.hidden,
         v.search => v.place = Newest,
         "index" \in v.waits => v.search,
         v.place # Feed /\ ~v.search => v.place = walk.at /\ ~walk.over,
         v.place = Feed => ~v.search,
         FoundTrue(v), ListedTrue(v)
  PROVE  ArchInv'
<1>1. ArchTypeOK'
  BY DEF ArchInv, ArchTypeOK
<1>2. PagesTrue'
  BY DEF ArchInv, PagesTrue, ListPageTrue
<1>3. WalkTrue' /\ WalkWhole'
  BY DEF ArchInv, ArchiveIsTrue, WalkTrue, WalkWhole
<1>4. ArrivedTrue'
  BY DEF ArrivedTrue, TakedownSaid, EmptyIsEmpty, TakenDownUnseen, FeedWhole
<1>5. KeptIsTrue'
  BY DEF ArchInv, ArchiveIsTrue, KeptIsTrue
<1>6. FoundTrue(v)'
  BY DEF FoundTrue
<1>7. ListedTrue(v)'
  BY DEF ListedTrue
<1>8. VisitTrue'
  <2>1. FoundTrue(visitor)' /\ ListedTrue(visitor)'
    BY <1>6, <1>7
  <2> QED BY <2>1 DEF VisitTrue
<1> QED BY <1>1, <1>2, <1>3, <1>4, <1>5, <1>8 DEF ArchInv, ArchiveIsTrue, ArrivedTrue

(* What the request was like before it.                                     *)
Going(v) ==
  /\ v.place # Feed /\ taken.author /\ ~v.blind => "hidden" \in v.waits \/ v.hidden
  /\ v.search => v.place = Newest
  /\ "index" \in v.waits => v.search
  /\ v.place # Feed /\ ~v.search => v.place = walk.at /\ ~walk.over
  /\ v.place = Feed => ~v.search
  /\ FoundTrue(v) /\ ListedTrue(v)
LEMMA GoingFacts ==
  ASSUME ArchInv, visitor # NoVisitor, NEW v \in Visitor, v = visitor
  PROVE  Going(v)
BY DEF Going, ArchInv, VisitTrue

LEMMA ListForFeedKeeps == ASSUME ArchInv, ListForFeed PROVE ArchInv'
<1>1. PICK v \in Visitor : v = visitor
  BY HereFacts DEF ListForFeed
<1>2. /\ visitor # NoVisitor /\ v.place = Feed /\ answer' = NoAnswer
      /\ UNCHANGED <<records, drawn, taken, repoAt, cachedAt, postIndex, stored, walk, changed>>
  BY <1>1 DEF ListForFeed
<1>3. Going(v)
  BY <1>1, <1>2, GoingFacts
<1>4. cachedAt' \in {0, 1, Undirected}
  BY <1>2 DEF ArchInv, ArchTypeOK
<1>5. ASSUME NEW leaf \in ListedPages(Newest, FeedItems), visitor' = [v EXCEPT !.listed = leaf.keys],
             failed' = failed
      PROVE  ArchInv'
  <2>1. PICK keys : keys = leaf.keys
    OBVIOUS
  <2>2. PICK z : z = [v EXCEPT !.listed = keys]
    OBVIOUS
  <2>3. /\ keys \in SUBSET Rkey
        /\ \A k \in records \ keys, j \in keys : k < j
        /\ keys = {} => records = {}
    <3>1. Newest \in 0..LastRkey /\ FeedItems \in Nat \ {0} /\ Past(Newest) = records
      BY RkeyBounds DEF Past
    <3> QED BY <2>1, <3>1, PageOfRecords DEF ArchInv
  <2>4. /\ z \in Visitor /\ z.place = v.place /\ z.waits = v.waits /\ z.found = v.found
        /\ z.listed = keys /\ z.untouched = v.untouched
    BY <2>2, <2>3 DEF Visitor
  <2>5. (z.search <=> v.search) /\ (z.blind <=> v.blind) /\ (z.hidden <=> v.hidden)
    BY <2>2 DEF Visitor
  <2>6. ListedTrue(z)
    <3>1. \A k \in records, j \in keys : k >= j => k \in keys
      <4>1. \A k \in records : k \in Nat
        BY RkeyBounds DEF ArchInv, ArchTypeOK, Rkey
      <4>2. \A k \in keys : k \in Nat
        BY <2>3, RkeyBounds DEF Rkey
      <4> QED BY <2>3, <4>1, <4>2
    <3> QED BY <2>3, <2>4, <3>1 DEF ListedTrue
  <2>7. FoundTrue(z)
    BY <1>3, <2>4, <2>5 DEF Going, FoundTrue
  <2>8. visitor' = z /\ failed' \in 0..MaxFailed
    BY <1>5, <2>1, <2>2 DEF ArchInv, ArchTypeOK
  <2>9. z.place = Feed /\ ~z.search /\ "index" \notin z.waits
    BY <1>2, <1>3, <2>4, <2>5 DEF Going
  <2> QED BY <1>2, <1>4, <2>4, <2>6, <2>7, <2>8, <2>9, GoesOnReading
<1>6. ASSUME NEW z \in Visitor, z.place = v.place, z.waits = v.waits, z.found = v.found,
             z.untouched = v.untouched, z.search <=> v.search, z.refused \/ z.unread,
             visitor' = z, failed' \in 0..MaxFailed
      PROVE  ArchInv'
  <2>1. ListedTrue(z)
    BY <1>6 DEF ListedTrue
  <2>2. FoundTrue(z)
    BY <1>3, <1>6 DEF Going, FoundTrue
  <2>3. z.place = Feed /\ ~z.search /\ "index" \notin z.waits
    BY <1>2, <1>3, <1>6 DEF Going
  <2> QED BY <1>2, <1>4, <1>6, <2>1, <2>2, <2>3, GoesOnReading
<1>7. CASE visitor' = [v EXCEPT !.listed = {}, !.refused = TRUE] /\ failed' = failed
  <2>1. PICK z : z = [v EXCEPT !.listed = {}, !.refused = TRUE]
    OBVIOUS
  <2>2. z \in Visitor /\ z.place = v.place /\ z.waits = v.waits /\ z.found = v.found /\ z.untouched = v.untouched
    BY <2>1 DEF Visitor
  <2>3. (z.search <=> v.search) /\ z.refused
    BY <2>1 DEF Visitor
  <2>4. visitor' = z /\ failed' \in 0..MaxFailed
    BY <1>7, <2>1 DEF ArchInv, ArchTypeOK
  <2> QED BY <1>6, <2>2, <2>3, <2>4
<1>8. CASE visitor' = [v EXCEPT !.listed = {}, !.unread = TRUE] /\ MayFail(TRUE)
  <2>1. PICK z : z = [v EXCEPT !.listed = {}, !.unread = TRUE]
    OBVIOUS
  <2>2. z \in Visitor /\ z.place = v.place /\ z.waits = v.waits /\ z.found = v.found /\ z.untouched = v.untouched
    BY <2>1 DEF Visitor
  <2>3. (z.search <=> v.search) /\ z.unread
    BY <2>1 DEF Visitor
  <2>4. visitor' = z /\ failed' \in 0..MaxFailed
    BY <1>8, <2>1, FailsTyped
  <2> QED BY <1>6, <2>2, <2>3, <2>4
<1> QED BY <1>1, <1>5, <1>7, <1>8 DEF ListForFeed

LEMMA AnswerFeedKeeps == ASSUME ArchInv, AnswerFeed PROVE ArchInv'
<1>1. PICK v \in Visitor : v = visitor
  BY HereFacts DEF AnswerFeed
<1>2. visitor # NoVisitor /\ v.place = Feed /\ v.listed # NotAsked /\ v.listed \in SUBSET Rkey
  BY <1>1 DEF AnswerFeed, Visitor
<1>3. Going(v)
  BY <1>1, <1>2, GoingFacts
<1>4. PICK b \in PageAnswer : b = BlankPage
  BY <1>1, BlankFacts
<1>5. /\ b.place = v.place /\ (b.search <=> v.search) /\ b.scope = "none" /\ b.rows = {}
      /\ b.excused = "none" /\ b.next = Newest /\ b.untouched = v.untouched /\ (b.blind <=> v.blind)
  BY <1>1, <1>4, BlankFacts
<1>6. PICK fails \in {"nothing", "takedowns", "directory", "publication"} :
       LET found == visitor.listed \ drawn.untitled
           blind   == [BlankPage EXCEPT !.blind = @ \/ fails = "takedowns"]
           hidden  == IF fails = "takedowns" THEN [author |-> FALSE, posts |-> {}] ELSE taken
           moved   == visitor.refused /\ visitor.pds # repoAt /\ fails # "directory"
       IN  /\ MayFail(fails # "nothing")
           /\ cachedAt' = IF moved /\ ~hidden.author THEN repoAt ELSE cachedAt
           /\ IF hidden.author THEN Replies([blind EXCEPT !.says = "taken down"], FALSE)
              ELSE IF moved \/ ListingFailed
              THEN Replies([blind EXCEPT !.says = "unavailable"], FALSE)
              ELSE Replies([blind EXCEPT !.rows = Visible(found, hidden.posts), !.says = "posts",
                              !.excused = IF visitor.refused THEN "unreachable" ELSE "none",
                              !.lowest = IF visitor.listed = {} THEN 0 ELSE Min(visitor.listed)],
                           fails # "publication")
  BY DEF AnswerFeed
<1>7. PICK hidden \in [author : BOOLEAN, posts : SUBSET Rkey] :
         /\ hidden = IF fails = "takedowns" THEN [author |-> FALSE, posts |-> {}] ELSE taken
         /\ fails # "takedowns" => hidden.posts = taken.posts
  <2>1. taken \in [author : BOOLEAN, posts : SUBSET Rkey]
    BY DEF ArchInv, ArchTypeOK
  <2>2. [author |-> FALSE, posts |-> {}] \in [author : BOOLEAN, posts : SUBSET Rkey]
    OBVIOUS
  <2> QED BY <2>1, <2>2
<1>8. PICK blind \in BOOLEAN : /\ blind = (b.blind \/ fails = "takedowns")
                               /\ blind <=> v.blind \/ fails = "takedowns"
  <2>1. b.blind \in BOOLEAN
    BY DEF PageAnswer
  <2>2. b.blind \/ fails = "takedowns" <=> v.blind \/ fails = "takedowns"
    BY <1>5
  <2> QED BY <2>1, <2>2
<1>9. PICK a : a = [b EXCEPT !.blind = blind]
  OBVIOUS
<1>10. /\ a \in PageAnswer /\ a.place = b.place /\ a.scope = b.scope /\ a.rows = b.rows
       /\ a.excused = b.excused /\ a.next = b.next /\ a.untouched = b.untouched
  BY <1>9 DEF PageAnswer
<1>11. (a.search <=> b.search) /\ (a.blind <=> blind)
  BY <1>9 DEF PageAnswer
<1>12. PICK moved \in BOOLEAN : moved = (visitor.refused /\ visitor.pds # repoAt /\ fails # "directory")
  BY <1>1 DEF Visitor
<1>13. /\ MayFail(fails # "nothing")
       /\ cachedAt' = IF moved /\ ~hidden.author THEN repoAt ELSE cachedAt
       /\ IF hidden.author THEN Replies([a EXCEPT !.says = "taken down"], FALSE)
          ELSE IF moved \/ v.unread
          THEN Replies([a EXCEPT !.says = "unavailable"], FALSE)
          ELSE Replies([a EXCEPT !.rows = (v.listed \ drawn.untitled) \ hidden.posts, !.says = "posts",
                          !.excused = IF v.refused THEN "unreachable" ELSE "none",
                          !.lowest = IF v.listed = {} THEN 0 ELSE Min(v.listed)],
                       fails # "publication")
  <2>1. [BlankPage EXCEPT !.blind = @ \/ fails = "takedowns"] = a
    BY <1>4, <1>8, <1>9
  <2> QED BY <1>1, <1>6, <1>7, <1>12, <2>1 DEF ListingFailed, Visible
<1>14. cachedAt' \in {0, 1, Undirected}
  BY <1>13 DEF ArchInv, ArchTypeOK
<1>15. failed' \in 0..MaxFailed
  <2>1. PICK amiss \in BOOLEAN : amiss = (fails # "nothing")
    OBVIOUS
  <2> QED BY <1>13, <2>1, FailsTyped
<1>16. ASSUME NEW says \in {"taken down", "unavailable"}, Replies([a EXCEPT !.says = says], FALSE)
       PROVE  ArchInv'
  <2>1. PICK r : r = [a EXCEPT !.says = says]
    OBVIOUS
  <2>2. /\ r \in PageAnswer /\ r.place = a.place /\ r.scope = a.scope /\ r.rows = a.rows
        /\ r.says = says
    BY <1>10, <2>1 DEF PageAnswer
  <2>3. r.search <=> a.search
    BY <1>10, <2>1 DEF PageAnswer
  <2>4. Feed # Newest
    BY RkeyBounds
  <2>5. SaidTrue(r)
    BY <1>2, <1>5, <1>10, <2>2, <2>4 DEF SaidTrue
  <2>6. ~TurnsOver(r)
    BY <2>2 DEF TurnsOver
  <2>7. r.place = visitor.place /\ (r.search <=> visitor.search)
    BY <1>1, <1>5, <1>10, <1>11, <2>2, <2>3
  <2>8. Replies(r, FALSE)
    BY <1>16, <2>1
  <2> QED BY <1>2, <1>14, <1>15, <2>2, <2>5, <2>6, <2>7, <2>8, ReplyKeeps
<1>17. ASSUME ~v.unread, Replies([a EXCEPT !.rows = (v.listed \ drawn.untitled) \ hidden.posts, !.says = "posts",
                          !.excused = IF v.refused THEN "unreachable" ELSE "none",
                          !.lowest = IF v.listed = {} THEN 0 ELSE Min(v.listed)],
                       fails # "publication")
       PROVE  ArchInv'
  <2>1. PICK rows \in SUBSET Rkey : rows = (v.listed \ drawn.untitled) \ hidden.posts
    BY <1>2
  <2>2. PICK excused \in Excuse : excused = IF v.refused THEN "unreachable" ELSE "none"
    BY DEF Excuse
  <2>3. PICK lowest \in 0..LastRkey : lowest = IF v.listed = {} THEN 0 ELSE Min(v.listed)
    <3>1. v.listed # {} => Min(v.listed) \in v.listed
      BY <1>2, LeastOf
    <3>2. \A k \in Rkey : k \in 0..LastRkey
      BY RkeyBounds
    <3>3. 0 \in 0..LastRkey
      BY RkeyBounds
    <3> QED BY <1>2, <3>1, <3>2, <3>3
  <2>4. PICK keep \in BOOLEAN : keep = (fails # "publication")
    OBVIOUS
  <2>5. PICK r : r = [a EXCEPT !.rows = rows, !.says = "posts", !.excused = excused, !.lowest = lowest]
    OBVIOUS
  <2>6. Replies(r, keep)
    BY <1>17, <2>1, <2>2, <2>3, <2>4, <2>5
  <2>7. /\ r \in PageAnswer /\ r.place = a.place /\ r.scope = a.scope /\ r.rows = rows
        /\ r.says = "posts" /\ r.excused = excused /\ r.lowest = lowest /\ r.untouched = a.untouched
    BY <1>10, <2>5 DEF PageAnswer
  <2>8. (r.search <=> a.search) /\ (r.blind <=> a.blind)
    BY <1>10, <2>5 DEF PageAnswer
  <2>9. Feed # Newest
    BY RkeyBounds
  <2>10. r.untouched = v.untouched /\ r.place = Feed /\ (r.blind <=> blind) /\ r.scope = "none"
    BY <1>2, <1>5, <1>10, <1>11, <2>7, <2>8
  <2>11. ~r.blind => hidden.posts = taken.posts
    BY <1>7, <1>8, <2>10
  <2>12. ~r.blind => r.rows \cap taken.posts \cap r.untouched = {}
    BY <2>1, <2>7, <2>11
  <2>13. ASSUME ~r.blind, r.excused = "none", NEW k \in Titled, k \in r.untouched, k \notin taken.posts, k >= r.lowest
         PROVE  k \in r.rows
    <3>1. ~v.refused
      BY <2>2, <2>7, <2>13
    <3>2. /\ v.listed = {} => records \cap v.untouched = {}
          /\ \A i \in records \cap v.untouched : \A j \in v.listed : i >= j => i \in v.listed
      BY <1>2, <1>3, <1>17, <3>1 DEF Going, ListedTrue
    <3>3. k \in records \cap v.untouched /\ k \notin drawn.untitled
      BY <2>10, <2>13 DEF Titled
    <3>4. v.listed # {} /\ lowest \in v.listed /\ k >= lowest
      BY <1>2, <2>3, <2>7, <2>13, <3>2, <3>3, LeastOf
    <3>5. k \in v.listed
      BY <3>2, <3>3, <3>4
    <3> QED BY <2>1, <2>7, <2>11, <2>13, <3>3, <3>5
  <2>14. SaidTrue(r)
    BY <2>7, <2>9, <2>10, <2>12, <2>13 DEF SaidTrue
  <2>15. ~TurnsOver(r)
    BY <2>10 DEF TurnsOver
  <2>16. r.place = visitor.place /\ (r.search <=> visitor.search)
    BY <1>1, <1>2, <1>5, <1>11, <2>8, <2>10
  <2> QED BY <1>2, <1>14, <1>15, <2>6, <2>7, <2>10, <2>14, <2>15, <2>16, ReplyKeeps
<1> QED BY <1>13, <1>16, <1>17

-----------------------------------------------------------------------------
(* What the loader reads, and who asks.                                     *)

LEMMA ReadHiddenKeeps == ASSUME ArchInv, ReadHidden PROVE ArchInv'
<1>1. PICK v \in Visitor : v = visitor
  BY HereFacts DEF ReadHidden
<1>2. PICK fails \in BOOLEAN :
       /\ MayFail(fails)
       /\ visitor' = [v EXCEPT !.waits = v.waits \ {"hidden"}, !.blind = v.blind \/ fails,
                               !.hidden = taken.author /\ ~fails]
  BY <1>1 DEF ReadHidden
<1>3. /\ answer' = NoAnswer /\ visitor # NoVisitor
      /\ UNCHANGED <<records, drawn, taken, repoAt, cachedAt, postIndex, stored, walk, changed>>
  BY DEF ReadHidden
<1>4. PICK blind \in BOOLEAN : blind = (v.blind \/ fails)
  BY DEF Visitor
<1>5. PICK hidden \in BOOLEAN : hidden = (taken.author /\ ~fails)
  OBVIOUS
<1>6. PICK z : z = [v EXCEPT !.waits = v.waits \ {"hidden"}, !.blind = blind, !.hidden = hidden]
  OBVIOUS
<1>7. /\ z \in Visitor /\ z.place = v.place /\ z.waits = v.waits \ {"hidden"} /\ z.found = v.found
      /\ z.listed = v.listed /\ z.untouched = v.untouched
  BY <1>6 DEF Visitor
<1>8. (z.search <=> v.search) /\ (z.refused <=> v.refused) /\ (z.unread <=> v.unread)
  BY <1>6 DEF Visitor
<1>9. (z.blind <=> blind) /\ (z.hidden <=> hidden)
  BY <1>6 DEF Visitor
<1>10. visitor' = z
  BY <1>2, <1>4, <1>5, <1>6
<1>11. Going(v)
  BY <1>1, <1>3, GoingFacts
<1>12. taken.author /\ ~z.blind => z.hidden
  <2>1. (blind <=> v.blind \/ fails) /\ (hidden <=> taken.author /\ ~fails)
    BY <1>4, <1>5
  <2> QED BY <1>9, <2>1
<1>13. FoundTrue(z) /\ ListedTrue(z)
  BY <1>7, <1>8, <1>11 DEF Going, FoundTrue, ListedTrue
<1>14. cachedAt' \in {0, 1, Undirected} /\ failed' \in 0..MaxFailed
  BY <1>2, <1>3, FailsTyped DEF ArchInv, ArchTypeOK
<1>15. /\ z.search => z.place = Newest
       /\ "index" \in z.waits => z.search
       /\ z.place # Feed /\ ~z.search => z.place = walk.at /\ ~walk.over
       /\ z.place = Feed => ~z.search
  BY <1>7, <1>8, <1>11 DEF Going
<1> QED BY <1>3, <1>7, <1>10, <1>12, <1>13, <1>14, <1>15, GoesOnReading

(* A reading that leaves what the takedown check found.                     *)
LEMMA ReadingKeeps ==
  ASSUME ArchInv, visitor # NoVisitor, NEW v \in Visitor, v = visitor, NEW z \in Visitor,
         visitor' = z, answer' = NoAnswer,
         UNCHANGED <<records, drawn, taken, repoAt, postIndex, stored, walk, changed>>,
         cachedAt' \in {0, 1, Undirected}, failed' \in 0..MaxFailed,
         z.place = v.place, z.listed = v.listed, z.untouched = v.untouched,
         z.search <=> v.search, z.refused <=> v.refused, z.unread <=> v.unread,
         z.blind <=> v.blind, z.hidden <=> v.hidden,
         "hidden" \in v.waits => "hidden" \in z.waits, z.waits \subseteq v.waits, FoundTrue(z)
  PROVE  ArchInv'
<1>1. Going(v)
  BY GoingFacts
<1>2. ListedTrue(z)
  BY <1>1 DEF Going, ListedTrue
<1>3. z.place # Feed /\ taken.author /\ ~z.blind => "hidden" \in z.waits \/ z.hidden
  BY <1>1 DEF Going
<1>4. /\ z.search => z.place = Newest
      /\ "index" \in z.waits => z.search
      /\ z.place # Feed /\ ~z.search => z.place = walk.at /\ ~walk.over
      /\ z.place = Feed => ~z.search
  BY <1>1 DEF Going
<1> QED BY <1>2, <1>3, <1>4, GoesOnReading

LEMMA ReadPdsKeeps == ASSUME ArchInv, ReadPds PROVE ArchInv'
<1>1. PICK v \in Visitor : v = visitor
  BY HereFacts DEF ReadPds
<1>2. PICK fails \in BOOLEAN :
       /\ MayFail(fails)
       /\ LET pds == IF fails THEN Undirected
                     ELSE IF cachedAt = Undirected THEN repoAt ELSE cachedAt
          IN  cachedAt' = pds /\ visitor' = [v EXCEPT !.waits = v.waits \ {"pds"}, !.pds = pds]
  BY <1>1 DEF ReadPds
<1>3. /\ answer' = NoAnswer /\ visitor # NoVisitor
      /\ UNCHANGED <<records, drawn, taken, repoAt, postIndex, stored, walk, changed>>
  BY DEF ReadPds
<1>4. PICK pds \in {0, 1, Undirected} :
         pds = IF fails THEN Undirected ELSE IF cachedAt = Undirected THEN repoAt ELSE cachedAt
  BY DEF ArchInv, ArchTypeOK
<1>5. PICK z : z = [v EXCEPT !.waits = v.waits \ {"pds"}, !.pds = pds]
  OBVIOUS
<1>6. /\ z \in Visitor /\ z.place = v.place /\ z.waits = v.waits \ {"pds"} /\ z.found = v.found
      /\ z.listed = v.listed /\ z.untouched = v.untouched
  BY <1>5 DEF Visitor
<1>7. (z.search <=> v.search) /\ (z.refused <=> v.refused)
      /\ (z.unread <=> v.unread)
  BY <1>5 DEF Visitor
<1>8. (z.blind <=> v.blind) /\ (z.hidden <=> v.hidden)
  BY <1>5 DEF Visitor
<1>9. visitor' = z /\ cachedAt' = pds
  BY <1>2, <1>4, <1>5
<1>10. failed' \in 0..MaxFailed
  BY <1>2, FailsTyped
<1>11. FoundTrue(z)
  BY <1>1, <1>3, <1>6, <1>7, GoingFacts DEF Going, FoundTrue
<1>12. ("hidden" \in v.waits => "hidden" \in z.waits) /\ z.waits \subseteq v.waits
  BY <1>6
<1> QED BY <1>1, <1>3, <1>4, <1>6, <1>7, <1>8, <1>9, <1>10, <1>11, <1>12, ReadingKeeps

LEMMA ReadIndexKeeps == ASSUME ArchInv, ReadIndex PROVE ArchInv'
<1>1. PICK v \in Visitor : v = visitor
  BY HereFacts DEF ReadIndex
<1>2. PICK fails \in BOOLEAN :
       /\ MayFail(fails)
       /\ visitor' = [v EXCEPT !.waits = v.waits \ {"index"},
                        !.found = IF fails \/ ~postIndex.complete THEN NoIndex ELSE Hits]
  BY <1>1 DEF ReadIndex
<1>3. /\ answer' = NoAnswer /\ visitor # NoVisitor /\ "index" \in v.waits
      /\ UNCHANGED <<records, drawn, taken, repoAt, cachedAt, postIndex, stored, walk, changed>>
  BY <1>1 DEF ReadIndex
<1>4. Hits \in SUBSET Rkey /\ Hits \cap taken.posts = {}
  BY DEF Hits, ArchInv, ArchTypeOK
<1>5. PICK found \in (SUBSET Rkey) \cup {NoIndex} :
         /\ found = IF fails \/ ~postIndex.complete THEN NoIndex ELSE Hits
         /\ found # NoIndex => found \cap taken.posts = {}
  BY <1>4
<1>6. PICK z : z = [v EXCEPT !.waits = v.waits \ {"index"}, !.found = found]
  OBVIOUS
<1>7. /\ z \in Visitor /\ z.place = v.place /\ z.waits = v.waits \ {"index"} /\ z.found = found
      /\ z.listed = v.listed /\ z.untouched = v.untouched
  BY <1>6 DEF Visitor
<1>8. (z.search <=> v.search) /\ (z.refused <=> v.refused)
      /\ (z.unread <=> v.unread)
  BY <1>6 DEF Visitor
<1>9. (z.blind <=> v.blind) /\ (z.hidden <=> v.hidden)
  BY <1>6 DEF Visitor
<1>10. visitor' = z
  BY <1>2, <1>5, <1>6
<1>11. cachedAt' \in {0, 1, Undirected} /\ failed' \in 0..MaxFailed
  BY <1>2, <1>3, FailsTyped DEF ArchInv, ArchTypeOK
<1>12. FoundTrue(z)
  <2>1. v.search
    BY <1>1, <1>3, GoingFacts DEF Going
  <2> QED BY <1>5, <1>7, <1>8, <2>1 DEF FoundTrue
<1>13. ("hidden" \in v.waits => "hidden" \in z.waits) /\ z.waits \subseteq v.waits
  BY <1>7
<1> QED BY <1>1, <1>3, <1>7, <1>8, <1>9, <1>10, <1>11, <1>12, <1>13, ReadingKeeps

LEMMA AskKeeps ==
  ASSUME ArchInv, NEW p \in Place, NEW search \in BOOLEAN, search => p # Feed, Ask(p, search)
  PROVE  ArchInv'
<1>1. /\ visitor = NoVisitor /\ answer' = NoAnswer /\ (search => p = Newest)
      /\ p = Feed \/ (p = walk.at /\ ~walk.over)
      /\ UNCHANGED <<records, drawn, taken, repoAt, cachedAt, postIndex, stored, changed, failed>>
  BY DEF Ask
<1>2. CASE Key(p, search) # NotAsked /\ stored[Key(p, search)] # NotStored
  <2>1. Key(p, search) = p /\ stored[p] # NotStored
    BY <1>2 DEF Key
  <2>2. visitor' = NoVisitor /\ IF p # Feed THEN Turns(stored[p]) ELSE UNCHANGED walk
    BY <1>2, <2>1 DEF Ask
  <2>3. walk' \in Walk /\ WalkTrue' /\ WalkWhole'
    <3>1. CASE p = Feed
      <4>1. walk' = walk
        BY <2>2, <3>1
      <4> QED BY <4>1 DEF ArchInv, ArchTypeOK, ArchiveIsTrue, WalkTrue, WalkWhole
    <3>2. CASE p # Feed
      <4>1. p \in 0..LastRkey
        BY <3>2, RkeyBounds
      <4>2. PICK leaf \in Stored : leaf = stored[p]
        BY <2>1 DEF ArchInv, ArchTypeOK
      <4>3. ListPageTrue(leaf, p)
        BY <2>1, <4>1, <4>2 DEF ArchInv, PagesTrue
      <4>4. p = walk.at /\ ~walk.over /\ Turns(leaf)
        BY <1>1, <2>2, <3>2, <4>2
      <4>5. ListPageTrue(leaf, walk.at)
        BY <4>3, <4>4
      <4> QED BY <4>4, <4>5, TurnedWalk
    <3> QED BY <3>1, <3>2
  <2>4. ArchTypeOK'
    BY <1>1, <2>2, <2>3 DEF ArchInv, ArchTypeOK
  <2>5. PagesTrue'
    BY <1>1 DEF ArchInv, PagesTrue, ListPageTrue
  <2>6. ArrivedTrue'
    BY <1>1 DEF ArrivedTrue, TakedownSaid, EmptyIsEmpty, TakenDownUnseen, FeedWhole
  <2>7. KeptIsTrue'
    BY <1>1 DEF ArchInv, ArchiveIsTrue, KeptIsTrue
  <2>8. VisitTrue'
    BY <2>2 DEF VisitTrue
  <2> QED BY <2>3, <2>4, <2>5, <2>6, <2>7, <2>8 DEF ArchInv, ArchiveIsTrue, ArrivedTrue
<1>3. CASE ~(Key(p, search) # NotAsked /\ stored[Key(p, search)] # NotStored)
  <2>1. PICK waits \in SUBSET {"hidden", "pds", "index"} :
           waits = IF p = Feed THEN {"pds"}
                   ELSE {"hidden", "pds"} \cup (IF search THEN {"index"} ELSE {})
    OBVIOUS
  <2>2. PICK z : z = [place |-> p, search |-> search, waits |-> waits,
                      hidden |-> FALSE, pds |-> Undirected, found |-> NoIndex,
                      listed |-> NotAsked, refused |-> FALSE, unread |-> FALSE,
                      untouched |-> Rkey, blind |-> FALSE]
    OBVIOUS
  <2>3. visitor' = z /\ walk' = walk
    BY <1>3, <2>1, <2>2 DEF Ask
  <2>4. z \in Visitor /\ z.place = p /\ z.waits = waits /\ z.found = NoIndex /\ z.listed = NotAsked
    BY <2>2 DEF Visitor
  <2>5. z.search <=> search
    BY <2>2
  <2>6. FoundTrue(z) /\ ListedTrue(z)
    BY <2>4 DEF FoundTrue, ListedTrue
  <2>7. p # Feed => "hidden" \in z.waits
    BY <2>1, <2>4
  <2>8. "index" \in z.waits => z.search
    BY <2>1, <2>4, <2>5
  <2>9. /\ z.search => z.place = Newest
        /\ z.place # Feed /\ ~z.search => z.place = walk.at /\ ~walk.over
        /\ z.place = Feed => ~z.search
    BY <1>1, <2>4, <2>5
  <2>10. cachedAt' \in {0, 1, Undirected} /\ failed' \in 0..MaxFailed
    BY <1>1 DEF ArchInv, ArchTypeOK
  <2> QED BY <1>1, <2>3, <2>4, <2>6, <2>7, <2>8, <2>9, <2>10, GoesOnReading
<1> QED BY <1>2, <1>3

LEMMA LapsesKeeps == ASSUME ArchInv, NEW p \in Place, Lapses(p) PROVE ArchInv'
<1>1. /\ stored' = [stored EXCEPT ![p] = NotStored] /\ answer' = NoAnswer
      /\ UNCHANGED <<records, drawn, taken, repoAt, cachedAt, postIndex, visitor, walk, changed, failed>>
  BY DEF Lapses
<1>2. /\ stored' \in [Place -> Stored \cup {NotStored}]
      /\ \A q \in Place : stored'[q] # NotStored => stored'[q] = stored[q]
  BY <1>1 DEF ArchInv, ArchTypeOK
<1>3. ArchTypeOK'
  BY <1>1, <1>2 DEF ArchInv, ArchTypeOK
<1>4. PagesTrue'
  <2> SUFFICES ASSUME NEW q \in 0..LastRkey, stored'[q] # NotStored PROVE ListPageTrue(stored'[q], q)
    BY DEF PagesTrue, ListPageTrue
  <2>1. stored'[q] = stored[q]
    BY <1>2, RkeyBounds
  <2>2. ListPageTrue(stored[q], q)
    BY <2>1 DEF ArchInv, PagesTrue
  <2> QED BY <2>1, <2>2
<1>5. WalkTrue' /\ WalkWhole'
  BY <1>1 DEF ArchInv, ArchiveIsTrue, WalkTrue, WalkWhole
<1>6. ArrivedTrue'
  BY <1>1 DEF ArrivedTrue, TakedownSaid, EmptyIsEmpty, TakenDownUnseen, FeedWhole
<1>7. KeptIsTrue'
  BY <1>2, RkeyBounds DEF ArchInv, ArchiveIsTrue, KeptIsTrue
<1>8. VisitTrue'
  BY <1>1 DEF ArchInv, VisitTrue, FoundTrue, ListedTrue
<1> QED BY <1>3, <1>4, <1>5, <1>6, <1>7, <1>8 DEF ArchInv, ArchiveIsTrue, ArrivedTrue

LEMMA MeanwhileKeeps ==
  ASSUME ArchInv,
         (\E k \in Rkey : Posted(k) \/ Removed(k) \/ TakenDown(k)) \/ AuthorTakenDown \/ Moves
  PROVE  ArchInv'
<1>1. /\ records \subseteq Rkey /\ taken \in [author : BOOLEAN, posts : SUBSET Rkey] /\ repoAt \in {0, 1}
      /\ postIndex \in [complete : BOOLEAN, rows : SUBSET Rkey]
  BY DEF ArchInv, ArchTypeOK
<1>2. ASSUME NEW k \in Rkey, Posted(k) \/ Removed(k) PROVE ArchInv'
  <2>1. /\ records' = records \cup {k} \/ records' = records \ {k}
        /\ WriterDoes({k}, FALSE) /\ taken' = taken /\ repoAt' = repoAt
    BY <1>2 DEF Posted, Removed
  <2>2. PICK rows \in SUBSET Rkey : postIndex' = [postIndex EXCEPT !.rows = rows]
    BY <1>1, <1>2 DEF Posted, Removed
  <2>3. postIndex' \in [complete : BOOLEAN, rows : SUBSET Rkey]
    BY <1>1, <2>2
  <2>4. \A j \in Rkey \ {k} : (j \in records' <=> j \in records) /\ (j \in taken'.posts <=> j \in taken.posts)
    BY <2>1
  <2>5. records' \subseteq Rkey
    BY <1>1, <2>1
  <2> QED BY <1>1, <2>1, <2>3, <2>4, <2>5, WriterDoesKeeps
<1>3. ASSUME NEW k \in Rkey, TakenDown(k) PROVE ArchInv'
  <2>1. /\ taken' = [taken EXCEPT !.posts = taken.posts \cup {k}] /\ WriterDoes({k}, FALSE)
        /\ records' = records /\ repoAt' = repoAt /\ postIndex' = postIndex
    BY <1>3 DEF TakenDown
  <2>2. taken' \in [author : BOOLEAN, posts : SUBSET Rkey] /\ taken'.posts = taken.posts \cup {k}
    BY <1>1, <2>1
  <2>3. taken'.author => taken.author
    BY <1>1, <2>1
  <2>4. \A j \in Rkey \ {k} : (j \in records' <=> j \in records) /\ (j \in taken'.posts <=> j \in taken.posts)
    BY <2>1, <2>2
  <2> QED BY <1>1, <2>1, <2>2, <2>3, <2>4, WriterDoesKeeps
<1>4. CASE AuthorTakenDown
  <2>1. /\ taken' = [taken EXCEPT !.author = TRUE] /\ WriterDoes({}, TRUE)
        /\ records' = records /\ repoAt' = repoAt /\ postIndex' = postIndex
    BY <1>4 DEF AuthorTakenDown
  <2>2. taken' \in [author : BOOLEAN, posts : SUBSET Rkey] /\ taken'.posts = taken.posts
    BY <1>1, <2>1
  <2>3. \A j \in Rkey \ {} : (j \in records' <=> j \in records) /\ (j \in taken'.posts <=> j \in taken.posts)
    BY <2>1, <2>2
  <2> QED BY <1>1, <2>1, <2>2, <2>3, WriterDoesKeeps
<1>5. CASE Moves
  <2>1. /\ repoAt' = 1 /\ WriterDoes({}, FALSE)
        /\ records' = records /\ taken' = taken /\ postIndex' = postIndex
    BY <1>5 DEF Moves
  <2>2. \A j \in Rkey \ {} : (j \in records' <=> j \in records) /\ (j \in taken'.posts <=> j \in taken.posts)
    BY <2>1
  <2> QED BY <1>1, <2>1, <2>2, WriterDoesKeeps
<1> QED BY <1>2, <1>3, <1>4, <1>5

LEMMA ArchInitInv == ArchInit => ArchInv
<1> SUFFICES ASSUME ArchInit PROVE ArchInv
  OBVIOUS
<1>1. /\ 0 \in 0..MaxChanged /\ 0 \in 0..MaxFailed /\ Newest \in 0..LastRkey
  BY ArchiveAssumption DEF Newest
<1>2. PICK titled \in SUBSET Rkey : titled = Titled
  BY DEF ArchInit, Titled
<1>3. PICK w : w = [at |-> Newest, seen |-> {}, twice |-> FALSE, through |-> titled, over |-> FALSE]
  OBVIOUS
<1>4. w \in Walk /\ w.at = Newest /\ w.seen = {} /\ w = walk
  BY <1>1, <1>2, <1>3 DEF Walk, ArchInit
<1>5. ~w.twice /\ ~w.over
  BY <1>3
<1>6. ArchTypeOK
  BY <1>1, <1>4 DEF ArchTypeOK, ArchInit
<1>7. PagesTrue /\ KeptIsTrue
  BY RkeyBounds DEF PagesTrue, KeptIsTrue, ArchInit
<1>8. WalkTrue /\ WalkWhole
  BY <1>4, <1>5 DEF WalkTrue, WalkWhole
<1>9. VisitTrue
  BY DEF VisitTrue, ArchInit
<1>10. ArrivedTrue
  BY DEF ArrivedTrue, TakedownSaid, EmptyIsEmpty, TakenDownUnseen, FeedWhole, ArchInit
<1> QED BY <1>6, <1>7, <1>8, <1>9, <1>10 DEF ArchInv, ArchiveIsTrue, ArrivedTrue

LEMMA ArchStands == ASSUME ArchInv, UNCHANGED archVars PROVE ArchInv'
<1>1. UNCHANGED <<records, drawn, taken, repoAt, cachedAt, postIndex, stored, visitor, answer, walk,
                  changed, failed>>
  BY DEF archVars
<1>2. ArchTypeOK'
  BY <1>1 DEF ArchInv, ArchTypeOK
<1>3. PagesTrue'
  BY <1>1 DEF ArchInv, PagesTrue, ListPageTrue
<1>4. WalkTrue' /\ WalkWhole' /\ KeptIsTrue'
  BY <1>1 DEF ArchInv, ArchiveIsTrue, WalkTrue, WalkWhole, KeptIsTrue
<1>5. VisitTrue'
  BY <1>1 DEF ArchInv, VisitTrue, FoundTrue, ListedTrue
<1>6. TakedownSaid' /\ TakenDownUnseen'
  BY <1>1 DEF ArchInv, ArchiveIsTrue, TakedownSaid, TakenDownUnseen
<1>7. EmptyIsEmpty' /\ FeedWhole'
  <2>1. Titled' = Titled
    BY <1>1 DEF Titled
  <2>2. TopOf(records, 1)' = TopOf(records, 1)
    BY <1>1 DEF TopOf
  <2>3. EmptyIsEmpty'
    BY <1>1, <2>1, <2>2 DEF ArchInv, ArchiveIsTrue, EmptyIsEmpty
  <2>4. FeedWhole'
    BY <1>1, <2>1 DEF ArchInv, ArchiveIsTrue, FeedWhole
  <2> QED BY <2>3, <2>4
<1> QED BY <1>2, <1>3, <1>4, <1>5, <1>6, <1>7 DEF ArchInv, ArchiveIsTrue

LEMMA ArchNextInv == ArchInv /\ [ArchNext]_archVars => ArchInv'
<1> SUFFICES ASSUME ArchInv, [ArchNext]_archVars PROVE ArchInv'
  OBVIOUS
<1>1. CASE UNCHANGED archVars
  BY <1>1, ArchStands
<1>2. CASE ArchNext
  BY <1>2, MeanwhileKeeps, LapsesKeeps, AskKeeps, ReadHiddenKeeps, ReadPdsKeeps, ReadIndexKeeps,
     TurnedAwayKeeps, FromIndexKeeps, FromListingKeeps, FromLargeListingKeeps, FromNoListingKeeps,
     FromRefusalKeeps, FeedNotFoundKeeps, ListForFeedKeeps, AnswerFeedKeeps
  DEF ArchNext
<1> QED BY <1>1, <1>2

(* A hidden author's page says so, nothing is called empty that was not     *)
(* read empty, no post taken down is shown where the code asks, the feed    *)
(* has no gap, and who goes from page to page sees each post once (the      *)
(* archive's loader, the feed's and the pages kept of them): for any        *)
(* records, pages of any length, and any failures, moves and takedowns.     *)
THEOREM ArchiveIsTrueHolds == ArchSpec => []ArchiveIsTrue
<1>1. ArchInv => ArchiveIsTrue
  BY DEF ArchInv
<1> QED BY ArchInitInv, ArchNextInv, <1>1, PTL DEF ArchSpec

-----------------------------------------------------------------------------
(* The parts together, as the run checks them.                              *)

SurfaceParts == {"writing", "racing", "numbers", "stats", "pictures", "manager", "archive", "home",
                 "handles", "forms", "settings"}

SurfacesInv ==
  /\ part \in SurfaceParts
  /\ EditorInv /\ CapInv /\ NumInv /\ StatInv /\ PicInv /\ ManInv
  /\ ArchInv /\ HomeInv /\ HandleInv /\ FormsInv /\ SetInv

LEMMA SurfacesStart == SurfacesInit => SurfacesInv
<1> SUFFICES ASSUME SurfacesInit PROVE SurfacesInv
  OBVIOUS
<1>1. part \in SurfaceParts
  BY DEF SurfacesInit, SurfaceParts
<1>2. EdInit /\ NumInit /\ StatInit /\ PicInit /\ ManInit
  BY DEF SurfacesInit
<1>3. ArchInit /\ HomeInit /\ HandleInit /\ FormsInit /\ SetInit
  BY DEF SurfacesInit
<1>4. EditorInv /\ CapInv /\ NumInv /\ StatInv /\ PicInv /\ ManInv
  BY <1>2, EditorInitInv, CapInitInv, NumInitInv, StatInitInv, PicInitInv, ManInitInv
<1>5. ArchInv /\ HomeInv /\ HandleInv /\ FormsInv /\ SetInv
  BY <1>3, ArchInitInv, HomeInitInv, HandleInitInv, FormsInitInv, SetInitInv
<1> QED BY <1>1, <1>4, <1>5 DEF SurfacesInv

(* A step is a step of one part, and the others stand still.                *)
SurfaceSteps ==
  /\ [EdNext]_edVars /\ [NumNext]_numVars /\ [StatNext]_statVars /\ [PicNext]_picVars /\ [ManNext]_manVars
  /\ [ArchNext]_archVars /\ [HomeNext]_homeVars /\ [HandleNext]_handleVars /\ [FormsNext]_formVars
  /\ [SetNext]_setVars
  /\ part' = part

LEMMA SurfacesStepIs ==
  [SurfacesNext]_<<older, archVars, homeVars, handleVars, formVars, setVars, part>> => SurfaceSteps
<1>1. SurfacesNext => SurfaceSteps
  BY DEF SurfacesNext, SurfaceSteps, Writing, Racing, older
<1>2. UNCHANGED <<older, archVars, homeVars, handleVars, formVars, setVars, part>> => SurfaceSteps
  BY DEF SurfaceSteps, older
<1> QED BY <1>1, <1>2

LEMMA SurfacesStep == SurfacesInv /\ SurfaceSteps => SurfacesInv'
<1> SUFFICES ASSUME SurfacesInv, SurfaceSteps PROVE SurfacesInv'
  OBVIOUS
<1>1. EditorInv' /\ CapInv' /\ NumInv' /\ StatInv' /\ PicInv' /\ ManInv'
  BY EditorNextInv, CapNextInv, NumStep, StatNextInv, PicNextInv, ManNextInv DEF SurfacesInv, SurfaceSteps
<1>2. ArchInv' /\ HomeInv' /\ HandleInv' /\ FormsInv' /\ SetInv' /\ (part \in SurfaceParts)'
  BY ArchNextInv, HomeNextInv, HandleNextInv, FormsNextInv, SetNextInv DEF SurfacesInv, SurfaceSteps
<1> QED BY <1>1, <1>2 DEF SurfacesInv

LEMMA SurfacesTyped == SurfacesInv => SurfacesTypeOK
<1> SUFFICES ASSUME SurfacesInv PROVE SurfacesTypeOK
  OBVIOUS
<1>1. EdTypeOK /\ NumTypeOK /\ StatTypeOK /\ PicTypeOK /\ ManTypeOK
  BY DEF SurfacesInv, EditorInv, NumInv, StatInv, PicInv, ManInv
<1>2. ArchTypeOK /\ HomeTypeOK /\ HandleTypeOK /\ FormsTypeOK /\ SetTypeOK
  BY DEF SurfacesInv, ArchInv, HomeInv, HandleInv, FormsInv, SetInv
<1> QED BY <1>1, <1>2 DEF SurfacesTypeOK, SurfacesInv, SurfaceParts

LEMMA SurfacesShow == SurfacesInv => ShownIsTrue
<1> SUFFICES ASSUME SurfacesInv PROVE ShownIsTrue
  OBVIOUS
<1>1. NumbersAreTrue /\ NumbersAreTheirs /\ ManagerIsTrue /\ OverviewIsTrue
  BY NumHolds, StatInvEnough, ManInvEnough, HomeInvEnough DEF SurfacesInv
<1>2. ArchiveIsTrue /\ LinksLeadHome /\ FormsAreTrue /\ SettingsAreTrue
  BY DEF SurfacesInv, ArchInv, HandleInv, FormsInv, SetInv
<1> QED BY <1>1, <1>2 DEF ShownIsTrue

LEMMA SurfacesKeep == SurfacesSpec => []SurfacesInv
<1>1. SurfacesInv /\ [SurfacesNext]_<<older, archVars, homeVars, handleVars, formVars, setVars, part>>
        => SurfacesInv'
  BY SurfacesStepIs, SurfacesStep
<1> QED BY <1>1, SurfacesStart, PTL DEF SurfacesSpec

(* Every tab, number, page, picture, list and form has its type.            *)
THEOREM SurfacesTypeCorrect == SurfacesSpec => []SurfacesTypeOK
  BY SurfacesKeep, SurfacesTyped, PTL

(* What the stats, the dashboard, the overview and the settings show a      *)
(* writer, and the archive, a link and a form show a reader, is so, or is   *)
(* said not to be known.                                                    *)
THEOREM ShownIsTrueHolds == SurfacesSpec => []ShownIsTrue
  BY SurfacesKeep, SurfacesShow, PTL

(* What is proved of the editor and of a post's pictures holds beside the   *)
(* other parts too.                                                         *)
THEOREM SurfacesKeepTheirs == SurfacesSpec => [](WordsStored /\ CompletedStaysGone /\ CapSlack /\ PicturesLast)
<1>1. SurfacesInv => WordsStored /\ CompletedStaysGone /\ CapSlack /\ PicturesLast
  BY EditorInvSays, CapSays DEF SurfacesInv, PicInv
<1> QED BY <1>1, SurfacesKeep, PTL
=============================================================================
