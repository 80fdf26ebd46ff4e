--------------------------- MODULE Documents_proofs ---------------------------
(***************************************************************************)
(* Proofs about one writer's documents and the search index beside them,   *)
(* for any number of documents, requests at once, tabs walking the repo,   *)
(* documents to a page and calls that fail.                                *)
(*                                                                         *)
(* A row of the index is written from three places: by the request that    *)
(* wrote the record, by an overlapping one, and by a backfill step from a  *)
(* page listed earlier.  The invariant says who speaks for a row while its *)
(* record and the row may differ (RowSound), and which documents the walk  *)
(* has left behind it (WalkSound).                                         *)
(***************************************************************************)
EXTENDS Documents, FiniteSetTheorems, WellFoundedInduction, TLAPS

(* What requests know: a key is spent once a request has it, a publish is   *)
(* alone with a key under which there is nothing yet, and who writes over a *)
(* record has read one.                                                     *)
OnKey(h, k) == request[h] # Idle /\ request[h].key = k
FirstWrite(r) == r.kind = "publish" /\ r.at = "write"

KeysSpent ==
  /\ \A k \in fresh : docs[k] = NoDoc
  /\ \A h \in Handler : request[h] # Idle => request[h].key \notin fresh
PublishAlone ==
  \A h \in Handler : request[h] # Idle /\ FirstWrite(request[h]) =>
    /\ docs[request[h].key] = NoDoc
    /\ \A g \in Handler : OnKey(g, request[h].key) => g = h
HasRead(r) ==
  /\ r.kind = "publish" => r.at \in {"write", "index"}
  /\ (r.kind = "edit" /\ r.at = "write") \/ r.at \in {"post", "back"} => r.read # NoDoc
  /\ r.at \in {"write", "index"} => r.kind \in {"publish", "edit", "delete"}
RequestsRead == \A h \in Handler : request[h] # Idle => HasRead(request[h])

MergeInv == DocTypeOK /\ KeysSpent /\ PublishAlone /\ RequestsRead

(* Between a write and its index write a request speaks for the row.        *)
Indexing(h, k) == OnKey(h, k) /\ request[h].at = "index"
SpokenFor(k) == \E h \in Handler : Indexing(h, k)

SaysSo(k, words) == docs[k] # NoDoc /\ docs[k].words = words

(* A row a backfill step may still add. *)
HoldsRow(w, k) == reading[w] # Idle /\ reading[w].at = "page" /\ reading[w].page[k] # NoText

(* One request speaks for a row, of a record that is as it wrote it; a row  *)
(* nobody speaks for is true; and what a backfill step may still add is of  *)
(* a record that is there, and true unless an index write has been or is    *)
(* about to be.                                                             *)
RowSound(k) ==
  k \notin murky =>
    /\ \A g, h \in Handler : Indexing(g, k) /\ Indexing(h, k) => g = h
    /\ \A h \in Handler : Indexing(h, k) =>
         IF request[h].kind = "delete" THEN docs[k] = NoDoc ELSE SaysSo(k, request[h].stamp)
    /\ ~SpokenFor(k) => indexed[k] = NoText \/ SaysSo(k, indexed[k])
    /\ \A w \in Walker : HoldsRow(w, k) =>
         /\ docs[k] # NoDoc
         /\ indexed[k] # NoText \/ SpokenFor(k) \/ docs[k].words = reading[w].page[k]
RowsSound == \A k \in Key : RowSound(k)

(* A document search can find, or soon can. *)
Covered(k) == docs[k] # NoDoc /\ k \notin murky => indexed[k] # NoText \/ SpokenFor(k)
CoveredFrom(c) == \A k \in Key : k >= c => Covered(k)

(* The walk has covered what is above its cursor; so had it when a step     *)
(* began, and the page a step holds covers the rest down to where it ends.  *)
StepSound(w) ==
  /\ CoveredFrom(reading[w].cursor)
  /\ reading[w].at = "page" =>
       \A k \in Key : reading[w].rest <= k /\ k < reading[w].cursor => HoldsRow(w, k) \/ Covered(k)
WalkSound ==
  /\ CoveredFrom(walk.cursor)
  /\ walk.done => CoveredFrom(0)
  /\ \A w \in Walker : reading[w] # Idle => StepSound(w)

SearchInv == MergeInv /\ RowsSound /\ WalkSound

-----------------------------------------------------------------------------
LEMMA DocBounds ==
  /\ LastKey \in Nat /\ PageSize \in Nat /\ PageSize > 0 /\ MaxWrites \in Nat /\ MaxFaults \in Nat
  /\ NoDoc \notin Document /\ NoText \notin Stamp /\ Idle \notin Request /\ Idle \notin Step
  /\ 0 \in Stamp /\ Key \subseteq Nat
BY DocumentsAssumption, DocumentsNullsAssumption DEF Stamp, Key

LEMMA DocInitInv == DocInit => SearchInv
<1> SUFFICES ASSUME DocInit PROVE SearchInv
  OBVIOUS
<1>1. /\ fresh = {k \in Key : docs[k] = NoDoc} /\ indexed = [k \in Key |-> NoText]
      /\ walk = [cursor |-> LastKey + 1, done |-> FALSE]
      /\ reading = [w \in Walker |-> Idle] /\ request = [h \in Handler |-> Idle]
      /\ writes = 0 /\ faults = 0 /\ murky = {}
  BY DEF DocInit
<1>2. docs \in [Key -> Document \cup {NoDoc}]
  <2>1. [words |-> 0, announced |-> FALSE] \in Document
    BY DocBounds DEF Document
  <2> QED BY <2>1 DEF DocInit
<1>3. DocTypeOK
  <2>1. walk \in [cursor: 1..(LastKey + 1), done: BOOLEAN] /\ 0 \in 0..MaxFaults
    BY <1>1, DocBounds
  <2> QED BY <1>1, <1>2, <2>1, DocBounds DEF DocTypeOK
<1>4. MergeInv
  BY <1>1, <1>3 DEF MergeInv, KeysSpent, PublishAlone, RequestsRead
<1>5. RowsSound
  BY <1>1 DEF RowsSound, RowSound, Indexing, OnKey, HoldsRow
<1>6. WalkSound
  <2>1. \A k \in Key : ~(k >= LastKey + 1)
    BY DocBounds DEF Key
  <2> QED BY <1>1, <2>1 DEF WalkSound, CoveredFrom
<1> QED BY <1>4, <1>5, <1>6 DEF SearchInv

LEMMA FaultType == ASSUME DocTypeOK, Fault PROVE faults' \in 0..MaxFaults
BY DocBounds DEF DocTypeOK, Fault

-----------------------------------------------------------------------------
(* A step of one request.                                                   *)

LEMMA OneRequest ==
  ASSUME DocTypeOK, NEW h \in Handler, NEW r \in Request \cup {Idle}, request' = [request EXCEPT ![h] = r]
  PROVE  /\ request' \in [Handler -> Request \cup {Idle}] /\ request'[h] = r
         /\ \A g \in Handler : g # h => request'[g] = request[g]
BY DEF DocTypeOK

(* It leaves the other documents alone, and what requests know of them.     *)
LEMMA MergeMoves ==
  ASSUME MergeInv, NEW h \in Handler, request[h] # Idle, NEW r \in Request \cup {Idle},
         request' = [request EXCEPT ![h] = r],
         r # Idle => r.key = request[h].key /\ HasRead(r) /\ ~FirstWrite(r),
         \A k \in Key : k # request[h].key => docs'[k] = docs[k],
         fresh' = fresh, DocTypeOK'
  PROVE  MergeInv'
<1>1. request'[h] = r /\ \A g \in Handler : g # h => request'[g] = request[g]
  BY OneRequest DEF MergeInv
<1>2. request[h].key \in Key /\ request[h].key \notin fresh /\ fresh \subseteq Key
  BY DEF MergeInv, DocTypeOK, KeysSpent, Request
<1>3. KeysSpent'
  BY <1>1, <1>2 DEF MergeInv, KeysSpent
<1>4. RequestsRead'
  BY <1>1 DEF MergeInv, RequestsRead
<1>5. PublishAlone'
  <2> SUFFICES ASSUME NEW g \in Handler, request'[g] # Idle, FirstWrite(request'[g])
               PROVE  /\ docs'[request'[g].key] = NoDoc
                      /\ \A f \in Handler : request'[f] # Idle /\ request'[f].key = request'[g].key => f = g
    BY DEF PublishAlone, OnKey, FirstWrite
  <2>1. g # h /\ request'[g] = request[g]
    BY <1>1
  <2>2. docs[request[g].key] = NoDoc /\ \A f \in Handler : OnKey(f, request[g].key) => f = g
    BY <2>1 DEF MergeInv, PublishAlone
  <2>3. request[h].key # request[g].key /\ request[g].key \in Key
    BY <2>1, <2>2 DEF OnKey, MergeInv, DocTypeOK, Request
  <2>4. docs'[request[g].key] = NoDoc
    BY <2>2, <2>3
  <2>5. ASSUME NEW f \in Handler, request'[f] # Idle, request'[f].key = request[g].key PROVE f = g
    BY <1>1, <2>2, <2>3, <2>5 DEF OnKey
  <2> QED BY <2>1, <2>4, <2>5
<1> QED BY <1>3, <1>4, <1>5 DEF MergeInv

LEMMA StartMerges == ASSUME MergeInv, NEW h \in Handler, Start(h) PROVE MergeInv'
<1>1. PICK k \in Key, kind \in {"publish", "edit", "delete", "announce"} :
       /\ IF kind = "publish" THEN k \in fresh ELSE k \in Present
       /\ fresh' = fresh \ {k}
       /\ request' = [request EXCEPT ![h] =
            [kind |-> kind, key |-> k, stamp |-> writes', read |-> NoDoc,
             at |-> IF kind \in {"edit", "announce"} THEN "read" ELSE "write"]]
  BY DEF Start
<1>3. writes' \in Stamp /\ request[h] = Idle /\ UNCHANGED <<docs, indexed, walk, reading, faults, murky>>
  BY DocBounds DEF Start, MergeInv, DocTypeOK, Stamp
<1> DEFINE r == [kind |-> kind, key |-> k, stamp |-> writes', read |-> NoDoc,
                 at |-> IF kind \in {"edit", "announce"} THEN "read" ELSE "write"]
<1>4. r \in Request /\ r.key = k /\ r.kind = kind /\ HasRead(r) /\ r.at # "index"
  BY <1>3 DEF Request, HasRead
<1>5. request' = [request EXCEPT ![h] = r]
  BY <1>1
<1> HIDE DEF r
<1>6. /\ request' \in [Handler -> Request \cup {Idle}] /\ request'[h] = r
      /\ \A g \in Handler : g # h => request'[g] = request[g]
  BY <1>4, <1>5, OneRequest DEF MergeInv
<1>7. fresh' = fresh \ {k} /\ fresh' \subseteq Key
  BY <1>1 DEF MergeInv, DocTypeOK
<1>8. DocTypeOK'
  BY <1>3, <1>6, <1>7 DEF MergeInv, DocTypeOK
<1>9. KeysSpent' /\ RequestsRead'
  BY <1>3, <1>4, <1>6, <1>7 DEF MergeInv, KeysSpent, RequestsRead
<1>10. PublishAlone'
  <2> SUFFICES ASSUME NEW g \in Handler, request'[g] # Idle, FirstWrite(request'[g])
               PROVE  /\ docs[request'[g].key] = NoDoc
                      /\ \A f \in Handler : request'[f] # Idle /\ request'[f].key = request'[g].key => f = g
    BY <1>3 DEF PublishAlone, OnKey, FirstWrite
  <2>1. CASE g = h
    <3>1. kind = "publish" /\ k \in fresh
      BY <1>1, <1>4, <1>6, <2>1 DEF FirstWrite
    <3>2. docs[k] = NoDoc /\ \A f \in Handler : request[f] # Idle => request[f].key # k
      BY <3>1 DEF MergeInv, KeysSpent
    <3> QED BY <1>4, <1>6, <2>1, <3>2
  <2>2. CASE g # h
    <3>1. request'[g] = request[g]
      BY <1>6, <2>2
    <3>2. docs[request[g].key] = NoDoc /\ \A f \in Handler : OnKey(f, request[g].key) => f = g
      BY <3>1 DEF MergeInv, PublishAlone
    <3>3. k # request[g].key
      BY <1>1, <3>1, <3>2 DEF Present, MergeInv, KeysSpent
    <3> QED BY <1>4, <1>6, <3>1, <3>2, <3>3 DEF OnKey
  <2> QED BY <2>1, <2>2
<1> QED BY <1>8, <1>9, <1>10 DEF MergeInv

LEMMA RequestFields ==
  ASSUME MergeInv, NEW h \in Handler, request[h] # Idle
  PROVE  /\ request[h] \in Request /\ request[h].key \in Key /\ request[h].stamp \in Stamp
         /\ request[h].read \in Document \cup {NoDoc} /\ HasRead(request[h])
         /\ request[h].kind \in {"publish", "edit", "delete", "announce"}
BY DEF MergeInv, DocTypeOK, RequestsRead, Request

(* What a step that ends a request, or takes it on, does to it.             *)
LEMMA GoesTo ==
  ASSUME MergeInv, NEW h \in Handler, request[h] # Idle,
         NEW at \in {"read", "write", "post", "back", "index"}, Goes(h, at)
  PROVE  \E r \in Request :
           /\ request' = [request EXCEPT ![h] = r] /\ r.at = at
           /\ r.key = request[h].key /\ r.kind = request[h].kind /\ r.stamp = request[h].stamp
           /\ r.read = request[h].read
<1> DEFINE r == [request[h] EXCEPT !.at = at]
<1>1. /\ r \in Request /\ r.at = at /\ r.key = request[h].key /\ r.kind = request[h].kind
      /\ r.stamp = request[h].stamp /\ r.read = request[h].read
  BY RequestFields DEF Request
<1>2. request' = [request EXCEPT ![h] = r]
  BY DEF Goes
<1> QED BY <1>1, <1>2

LEMMA ReadRecordMerges ==
  ASSUME MergeInv, NEW h \in Handler, ReadRecord(h)
  PROVE  /\ MergeInv'
         /\ request[h] # Idle /\ request[h].at = "read"
         /\ \E r \in Request \cup {Idle} :
              request' = [request EXCEPT ![h] = r] /\ (r # Idle => r.at \in {"write", "post"})
<1> DEFINE q == request[h]
<1>0. /\ q # Idle /\ q.at = "read" /\ q \in Request /\ HasRead(q) /\ q.key \in Key
      /\ UNCHANGED <<docs, fresh, indexed, walk, reading, writes, faults, murky>>
  BY RequestFields DEF ReadRecord
<1>1. CASE q.key \notin Present
  <2>1. request' = [request EXCEPT ![h] = Idle]
    BY <1>1 DEF ReadRecord, Ends
  <2>2. DocTypeOK'
    BY <1>0, <2>1, OneRequest DEF MergeInv, DocTypeOK
  <2>3. MergeInv'
    BY <1>0, <2>1, <2>2, MergeMoves
  <2> QED BY <1>0, <2>1, <2>3
<1>2. CASE q.key \in Present
  <2> DEFINE r == [q EXCEPT !.read = docs[q.key], !.at = IF q.kind = "edit" THEN "write" ELSE "post"]
  <2>1. request' = [request EXCEPT ![h] = r]
    BY <1>2 DEF ReadRecord
  <2>2. docs[q.key] \in Document /\ docs[q.key] # NoDoc
    BY <1>0, <1>2 DEF Present, MergeInv, DocTypeOK
  <2>3. /\ r \in Request /\ r.read = docs[q.key] /\ r.kind = q.kind /\ r.key = q.key
        /\ r.at = IF q.kind = "edit" THEN "write" ELSE "post"
    BY <1>0, <2>2 DEF Request
  <2> HIDE DEF r
  <2>4. HasRead(r) /\ ~FirstWrite(r) /\ r.at \in {"write", "post"}
    BY <1>0, <2>2, <2>3 DEF HasRead, FirstWrite
  <2>5. DocTypeOK'
    BY <1>0, <2>1, <2>3, OneRequest DEF MergeInv, DocTypeOK
  <2>6. MergeInv'
    BY <1>0, <2>1, <2>3, <2>4, <2>5, MergeMoves
  <2> QED BY <1>0, <2>1, <2>3, <2>4, <2>6
<1> QED BY <1>1, <1>2

(* A write takes effect on its document alone, and an edit only on the      *)
(* record it has read.                                                      *)
LEMMA WrittenDocs ==
  ASSUME MergeInv, NEW h \in Handler, request[h] # Idle, request[h].at = "write",
         ~Refused(h), docs' = Written(h)
  PROVE  /\ docs' \in [Key -> Document \cup {NoDoc}]
         /\ \A k \in Key : k # request[h].key => docs'[k] = docs[k]
         /\ IF request[h].kind = "delete" THEN docs'[request[h].key] = NoDoc
            ELSE /\ docs'[request[h].key] \in Document
                 /\ docs'[request[h].key].words = request[h].stamp
         /\ MergeStep
<1> DEFINE q == request[h]
<1>0. /\ q \in Request /\ q.key \in Key /\ q.stamp \in Stamp /\ HasRead(q)
      /\ q.kind \in {"publish", "edit", "delete"}
  BY RequestFields DEF HasRead
<1> DEFINE new == CASE q.kind = "publish" -> [words |-> q.stamp, announced |-> FALSE]
                    [] q.kind = "edit" -> Merged(h)
                    [] OTHER -> NoDoc
<1>1. docs' = [docs EXCEPT ![q.key] = new]
  BY DEF Written
<1>2. CASE q.kind = "publish"
  <2>1. new = [words |-> q.stamp, announced |-> FALSE]
    BY <1>2
  <2> HIDE DEF new
  <2>2. new \in Document /\ new.words = q.stamp
    BY <1>0, <2>1 DEF Document
  <2>3. docs[q.key] = NoDoc
    BY <1>2 DEF MergeInv, PublishAlone, FirstWrite
  <2> QED BY <1>0, <1>1, <1>2, <2>2, <2>3 DEF MergeInv, DocTypeOK, MergeStep
<1>3. CASE q.kind = "edit"
  <2>1. docs[q.key] = q.read /\ q.read \in Document
    BY <1>0, <1>3, RequestFields DEF Refused, SwapHolds, HasRead
  <2>2. new = [q.read EXCEPT !.words = q.stamp]
    BY <1>3 DEF Merged
  <2>3. new \in Document /\ new.words = q.stamp /\ new.announced = docs[q.key].announced
    BY <1>0, <2>1, <2>2 DEF Document
  <2> HIDE DEF new
  <2>4. docs'[q.key] = new /\ \A k \in Key : k # q.key => docs'[k] = docs[k]
    BY <1>0, <1>1 DEF MergeInv, DocTypeOK
  <2>5. MergeStep
    BY <1>3, <2>3, <2>4 DEF MergeStep
  <2> QED BY <1>0, <1>1, <1>3, <2>3, <2>4, <2>5 DEF MergeInv, DocTypeOK
<1>4. CASE q.kind = "delete"
  <2>1. new = NoDoc
    BY <1>4
  <2> HIDE DEF new
  <2> QED BY <1>0, <1>1, <1>4, <2>1 DEF MergeInv, DocTypeOK, MergeStep
<1> QED BY <1>0, <1>2, <1>3, <1>4

(* What a request's write may come to: it lands and is to be indexed, it    *)
(* lands unheard of, or nothing is written.                                 *)
LEMMA WriteRecordMerges ==
  ASSUME MergeInv, NEW h \in Handler, WriteRecord(h)
  PROVE  MergeInv' /\ MergeStep
<1> DEFINE q == request[h]
<1>0. /\ q # Idle /\ q.at = "write" /\ q \in Request /\ HasRead(q) /\ q.key \in Key
      /\ UNCHANGED <<fresh, indexed, walk, reading, writes>>
  BY RequestFields DEF WriteRecord
<1>1. faults' \in 0..MaxFaults
  BY FaultType DEF WriteRecord, MergeInv, DocTypeOK
<1>2. murky' \subseteq Key
  BY <1>0 DEF WriteRecord, MergeInv, DocTypeOK, Overlaps
<1>3. /\ docs' \in [Key -> Document \cup {NoDoc}]
      /\ \A k \in Key : k # q.key => docs'[k] = docs[k]
      /\ MergeStep
  <2>1. CASE UNCHANGED docs
    BY <2>1 DEF MergeInv, DocTypeOK, MergeStep
  <2>2. CASE ~Refused(h) /\ docs' = Written(h)
    BY <1>0, <2>2, WrittenDocs
  <2> QED BY <2>1, <2>2 DEF WriteRecord
<1>4. PICK r \in Request \cup {Idle} :
        /\ request' = [request EXCEPT ![h] = r]
        /\ r # Idle => r.key = q.key /\ r.kind = q.kind /\ r.read = q.read /\ r.at = "index"
  <2>1. CASE Goes(h, "index")
    BY <1>0, <2>1, GoesTo
  <2>2. CASE Ends(h)
    BY <2>2 DEF Ends
  <2> QED BY <2>1, <2>2 DEF WriteRecord
<1>5. r # Idle => HasRead(r) /\ ~FirstWrite(r)
  BY <1>0, <1>4 DEF HasRead, FirstWrite
<1>6. DocTypeOK'
  BY <1>0, <1>1, <1>2, <1>3, <1>4, OneRequest DEF MergeInv, DocTypeOK
<1> QED BY <1>0, <1>3, <1>4, <1>5, <1>6, MergeMoves

LEMMA IndexRecordMerges ==
  ASSUME MergeInv, NEW h \in Handler, IndexRecord(h)
  PROVE  MergeInv'
<1> DEFINE q == request[h]
<1>0. /\ q # Idle /\ q.at = "index" /\ q \in Request /\ q.key \in Key /\ q.stamp \in Stamp
      /\ UNCHANGED <<docs, fresh, walk, reading, writes>> /\ request' = [request EXCEPT ![h] = Idle]
  BY RequestFields DEF IndexRecord, Ends
<1>1. faults' \in 0..MaxFaults
  BY FaultType DEF IndexRecord, MergeInv, DocTypeOK
<1>2. murky' \subseteq Key /\ indexed' \in [Key -> Stamp \cup {NoText}]
  BY <1>0 DEF IndexRecord, IndexWritten, MergeInv, DocTypeOK
<1>3. DocTypeOK'
  BY <1>0, <1>1, <1>2, OneRequest DEF MergeInv, DocTypeOK
<1> QED BY <1>0, <1>3, MergeMoves

LEMMA PostAnnouncementMerges ==
  ASSUME MergeInv, NEW h \in Handler, PostAnnouncement(h)
  PROVE  /\ MergeInv' /\ request[h] # Idle /\ request[h].at = "post"
         /\ \E r \in Request \cup {Idle} :
              request' = [request EXCEPT ![h] = r] /\ (r # Idle => r.at = "back")
<1> DEFINE q == request[h]
<1>0. /\ q # Idle /\ q.at = "post" /\ q \in Request /\ HasRead(q) /\ q.key \in Key
      /\ UNCHANGED <<docs, fresh, indexed, walk, reading, writes, murky>>
  BY RequestFields DEF PostAnnouncement
<1>1. faults' \in 0..MaxFaults
  BY FaultType DEF PostAnnouncement, MergeInv, DocTypeOK
<1>2. PICK r \in Request \cup {Idle} :
        /\ request' = [request EXCEPT ![h] = r]
        /\ r # Idle => r.key = q.key /\ r.kind = q.kind /\ r.read = q.read /\ r.at = "back"
  <2>1. CASE Goes(h, "back")
    BY <1>0, <2>1, GoesTo
  <2>2. CASE Ends(h)
    BY <2>2 DEF Ends
  <2> QED BY <2>1, <2>2 DEF PostAnnouncement
<1>3. r # Idle => HasRead(r) /\ ~FirstWrite(r)
  BY <1>0, <1>2 DEF HasRead, FirstWrite
<1>4. DocTypeOK'
  BY <1>0, <1>1, <1>2, OneRequest DEF MergeInv, DocTypeOK
<1>5. MergeInv'
  BY <1>0, <1>2, <1>3, <1>4, MergeMoves
<1> QED BY <1>0, <1>2, <1>5

LEMMA WriteBackMerges ==
  ASSUME MergeInv, NEW h \in Handler, WriteBack(h)
  PROVE  /\ MergeInv' /\ MergeStep /\ request[h] # Idle /\ request[h].at = "back"
         /\ request' = [request EXCEPT ![h] = Idle]
         /\ \A k \in Key : /\ docs'[k] = NoDoc <=> docs[k] = NoDoc
                           /\ docs[k] # NoDoc => docs'[k].words = docs[k].words
<1> DEFINE q == request[h]
<1>0. /\ q # Idle /\ q.at = "back" /\ q \in Request /\ HasRead(q) /\ q.key \in Key
      /\ UNCHANGED <<fresh, indexed, walk, reading, writes, murky>>
      /\ request' = [request EXCEPT ![h] = Idle]
  BY RequestFields DEF WriteBack, Ends
<1>1. faults' \in 0..MaxFaults
  BY FaultType DEF WriteBack, MergeInv, DocTypeOK
<1>2. /\ docs' \in [Key -> Document \cup {NoDoc}]
      /\ \A k \in Key : k # q.key => docs'[k] = docs[k]
      /\ \A k \in Key : /\ docs'[k] = NoDoc <=> docs[k] = NoDoc
                        /\ docs[k] # NoDoc => docs'[k].words = docs[k].words
      /\ MergeStep
  <2>1. CASE UNCHANGED docs
    BY <2>1 DEF MergeInv, DocTypeOK, MergeStep
  <2>2. CASE SwapHolds(h) /\ docs' = [docs EXCEPT ![q.key] = [q.read EXCEPT !.announced = TRUE]]
    <3> DEFINE new == [q.read EXCEPT !.announced = TRUE]
    <3>1. docs[q.key] = q.read /\ q.read \in Document
      BY <1>0, <2>2, RequestFields DEF SwapHolds, HasRead
    <3>2. new \in Document /\ new.words = docs[q.key].words /\ new.announced /\ new # NoDoc
      BY <3>1, DocBounds DEF Document
    <3> HIDE DEF new
    <3>3. docs'[q.key] = new /\ \A k \in Key : k # q.key => docs'[k] = docs[k]
      BY <1>0, <2>2 DEF MergeInv, DocTypeOK, new
    <3>4. docs' \in [Key -> Document \cup {NoDoc}]
      BY <1>0, <2>2, <3>2 DEF MergeInv, DocTypeOK, new
    <3>5. MergeStep
      BY <3>2, <3>3 DEF MergeStep
    <3>6. docs[q.key] # NoDoc
      BY <3>1, DocBounds
    <3> QED BY <3>2, <3>3, <3>4, <3>5, <3>6
  <2> QED BY <2>1, <2>2 DEF WriteBack
<1>3. DocTypeOK'
  BY <1>0, <1>1, <1>2, OneRequest DEF MergeInv, DocTypeOK
<1>4. MergeInv'
  BY <1>0, <1>2, <1>3, MergeMoves
<1> QED BY <1>0, <1>2, <1>4

-----------------------------------------------------------------------------
(* What is said of a document by a step that leaves its row alone.          *)

(* Who speaks for it is known by the requests at their index writes.        *)
LEMMA RowStands ==
  ASSUME NEW k \in Key, RowSound(k),
         docs'[k] = NoDoc <=> docs[k] = NoDoc, docs[k] # NoDoc => docs'[k].words = docs[k].words,
         indexed'[k] = indexed[k], k \in murky => k \in murky', reading' = reading,
         k \notin murky' =>
           \A h \in Handler : /\ Indexing(h, k)' <=> Indexing(h, k)
                              /\ Indexing(h, k) => request'[h] = request[h]
  PROVE  RowSound(k)' /\ (Covered(k) => Covered(k)')
<1>1. k \notin murky' => k \notin murky
  OBVIOUS
<1>2. k \notin murky' => SpokenFor(k)' = SpokenFor(k)
  BY DEF SpokenFor
<1>3. \A w \in Walker : HoldsRow(w, k)' = HoldsRow(w, k)
  BY DEF HoldsRow
<1>4. Covered(k) => Covered(k)'
  BY <1>1, <1>2 DEF Covered
<1>5. ASSUME k \notin murky'
      PROVE  /\ \A g, h \in Handler : Indexing(g, k)' /\ Indexing(h, k)' => g = h
             /\ \A h \in Handler : Indexing(h, k)' =>
                  IF request'[h].kind = "delete" THEN docs'[k] = NoDoc ELSE SaysSo(k, request[h].stamp)'
  <2>1. \A g, h \in Handler : Indexing(g, k) /\ Indexing(h, k) => g = h
    BY <1>1, <1>5 DEF RowSound
  <2>2. ASSUME NEW h \in Handler, Indexing(h, k)'
        PROVE  IF request'[h].kind = "delete" THEN docs'[k] = NoDoc ELSE SaysSo(k, request[h].stamp)'
    <3>1. Indexing(h, k) /\ request'[h] = request[h]
      BY <1>5, <2>2
    <3>2. IF request[h].kind = "delete" THEN docs[k] = NoDoc ELSE SaysSo(k, request[h].stamp)
      BY <1>1, <1>5, <3>1 DEF RowSound
    <3> QED BY <3>1, <3>2 DEF SaysSo
  <2>3. \A g, h \in Handler : Indexing(g, k)' /\ Indexing(h, k)' => g = h
    BY <1>5, <2>1
  <2> QED BY <2>2, <2>3
<1>6. ASSUME k \notin murky'
      PROVE  /\ ~SpokenFor(k)' => indexed'[k] = NoText \/ SaysSo(k, indexed[k])'
             /\ \A w \in Walker : HoldsRow(w, k)' =>
                  /\ docs'[k] # NoDoc
                  /\ indexed'[k] # NoText \/ SpokenFor(k)' \/ docs'[k].words = reading'[w].page[k]
  <2>1. ~SpokenFor(k) => indexed[k] = NoText \/ SaysSo(k, indexed[k])
    BY <1>1, <1>6 DEF RowSound
  <2>2. \A w \in Walker : HoldsRow(w, k) =>
          /\ docs[k] # NoDoc
          /\ indexed[k] # NoText \/ SpokenFor(k) \/ docs[k].words = reading[w].page[k]
    BY <1>1, <1>6 DEF RowSound
  <2>3. ~SpokenFor(k)' => indexed'[k] = NoText \/ SaysSo(k, indexed[k])'
    BY <1>2, <1>6, <2>1 DEF SaysSo
  <2> QED BY <1>2, <1>3, <1>6, <2>2, <2>3
<1> QED BY <1>4, <1>5, <1>6 DEF RowSound

(* Where only one document is written, and every other one stands, the      *)
(* walk has still covered what it had.                                      *)
LEMMA WalkStands ==
  ASSUME WalkSound, walk' = walk, reading' = reading, \A k \in Key : Covered(k) => Covered(k)'
  PROVE  WalkSound'
BY DEF WalkSound, CoveredFrom, StepSound, HoldsRow

(* A request that neither comes to its index write nor leaves it.           *)
LEMMA QuietRequest ==
  ASSUME SearchInv, NEW h \in Handler, NEW r \in Request \cup {Idle}, request' = [request EXCEPT ![h] = r],
         request[h] # Idle => request[h].at # "index", r # Idle => r.at # "index",
         \A k \in Key : /\ docs'[k] = NoDoc <=> docs[k] = NoDoc
                        /\ docs[k] # NoDoc => docs'[k].words = docs[k].words,
         murky \subseteq murky', UNCHANGED <<indexed, walk, reading>>, MergeInv'
  PROVE  SearchInv'
<1>1. request'[h] = r /\ \A g \in Handler : g # h => request'[g] = request[g]
  BY OneRequest DEF SearchInv, MergeInv
<1>2. \A k \in Key, g \in Handler : /\ Indexing(g, k)' <=> Indexing(g, k)
                                    /\ Indexing(g, k) => request'[g] = request[g]
  BY <1>1 DEF Indexing, OnKey
<1>3. ASSUME NEW k \in Key PROVE RowSound(k)' /\ (Covered(k) => Covered(k)')
  <2>1. RowSound(k)
    BY DEF SearchInv, RowsSound
  <2> QED BY <1>2, <2>1, RowStands
<1>4. WalkSound'
  BY <1>3, WalkStands DEF SearchInv
<1> QED BY <1>3, <1>4 DEF SearchInv, RowsSound

LEMMA StartKeeps == ASSUME SearchInv, NEW h \in Handler, Start(h) PROVE SearchInv'
<1>1. MergeInv' /\ MergeInv
  BY StartMerges DEF SearchInv
<1>2. request[h] = Idle /\ UNCHANGED <<docs, indexed, walk, reading, murky>>
  BY DEF Start
<1>3. PICK r \in Request \cup {Idle} : request' = [request EXCEPT ![h] = r] /\ (r # Idle => r.at # "index")
  <2>1. PICK k \in Key, kind \in {"publish", "edit", "delete", "announce"} :
         request' = [request EXCEPT ![h] =
            [kind |-> kind, key |-> k, stamp |-> writes', read |-> NoDoc,
             at |-> IF kind \in {"edit", "announce"} THEN "read" ELSE "write"]]
    BY DEF Start
  <2>2. writes' \in Stamp
    BY <1>1 DEF MergeInv, DocTypeOK
  <2> DEFINE r == [kind |-> kind, key |-> k, stamp |-> writes', read |-> NoDoc,
                   at |-> IF kind \in {"edit", "announce"} THEN "read" ELSE "write"]
  <2>3. r \in Request /\ r.at # "index"
    BY <2>2 DEF Request
  <2>4. request' = [request EXCEPT ![h] = r]
    BY <2>1
  <2> HIDE DEF r
  <2> QED BY <2>3, <2>4
<1> QED BY <1>1, <1>2, <1>3, QuietRequest

LEMMA ReadRecordKeeps == ASSUME SearchInv, NEW h \in Handler, ReadRecord(h) PROVE SearchInv'
<1>1. /\ MergeInv' /\ request[h].at = "read"
      /\ \E r \in Request \cup {Idle} :
           request' = [request EXCEPT ![h] = r] /\ (r # Idle => r.at \in {"write", "post"})
  BY ReadRecordMerges DEF SearchInv
<1>2. UNCHANGED <<docs, indexed, walk, reading, murky>>
  BY DEF ReadRecord
<1> QED BY <1>1, <1>2, QuietRequest

LEMMA PostAnnouncementKeeps ==
  ASSUME SearchInv, NEW h \in Handler, PostAnnouncement(h) PROVE SearchInv'
<1>1. /\ MergeInv' /\ request[h].at = "post"
      /\ \E r \in Request \cup {Idle} :
           request' = [request EXCEPT ![h] = r] /\ (r # Idle => r.at = "back")
  BY PostAnnouncementMerges DEF SearchInv
<1>2. UNCHANGED <<docs, indexed, walk, reading, murky>>
  BY DEF PostAnnouncement
<1> QED BY <1>1, <1>2, QuietRequest

LEMMA WriteBackKeeps == ASSUME SearchInv, NEW h \in Handler, WriteBack(h) PROVE SearchInv'
<1>1. /\ MergeInv' /\ request[h].at = "back" /\ request' = [request EXCEPT ![h] = Idle]
      /\ \A k \in Key : /\ docs'[k] = NoDoc <=> docs[k] = NoDoc
                        /\ docs[k] # NoDoc => docs'[k].words = docs[k].words
  BY WriteBackMerges DEF SearchInv
<1>2. UNCHANGED <<indexed, walk, reading, murky>>
  BY DEF WriteBack
<1> QED BY <1>1, <1>2, QuietRequest

(* A write that lands with its index write to come speaks for its row; any  *)
(* other that lands leaves a row nobody answers for.                        *)
LEMMA WriteRecordKeeps == ASSUME SearchInv, NEW h \in Handler, WriteRecord(h) PROVE SearchInv'
<1> DEFINE q == request[h]
<1>0. /\ q # Idle /\ q.at = "write" /\ q.key \in Key /\ q.kind \in {"publish", "edit", "delete"}
      /\ UNCHANGED <<indexed, walk, reading>> /\ MergeInv /\ MergeInv'
  BY RequestFields, WriteRecordMerges DEF WriteRecord, SearchInv, HasRead
<1>1. CASE UNCHANGED <<docs, murky>> /\ Ends(h)
  BY <1>0, <1>1, QuietRequest DEF Ends
<1>2. CASE /\ ~Refused(h) /\ docs' = Written(h) /\ murky' = murky \cup {q.key} /\ Ends(h)
  <2>1. request'[h] = Idle /\ \A g \in Handler : g # h => request'[g] = request[g]
    BY <1>2, OneRequest DEF Ends, SearchInv, MergeInv
  <2>2. \A k \in Key, g \in Handler : /\ Indexing(g, k)' <=> Indexing(g, k)
                                      /\ Indexing(g, k) => request'[g] = request[g]
    BY <1>0, <2>1 DEF Indexing, OnKey
  <2>3. ASSUME NEW k \in Key PROVE RowSound(k)' /\ (Covered(k) => Covered(k)')
    <3>1. CASE k = q.key
      BY <1>2, <3>1 DEF RowSound, Covered
    <3>2. CASE k # q.key
      <4>1. RowSound(k) /\ docs'[k] = docs[k]
        BY <1>0, <1>2, <3>2, WrittenDocs DEF SearchInv, RowsSound
      <4> QED BY <1>0, <1>2, <2>2, <4>1, RowStands
    <3> QED BY <3>1, <3>2
  <2>4. WalkSound'
    BY <1>0, <2>3, WalkStands DEF SearchInv
  <2> QED BY <1>0, <2>3, <2>4 DEF SearchInv, RowsSound
<1>3. CASE /\ ~Refused(h) /\ docs' = Written(h) /\ murky' = murky \cup Overlaps(h)
           /\ Goes(h, "index")
  <2>1. PICK r \in Request :
          /\ request' = [request EXCEPT ![h] = r] /\ r.at = "index"
          /\ r.key = q.key /\ r.kind = q.kind /\ r.stamp = q.stamp
    BY <1>0, <1>3, GoesTo
  <2>2. request'[h] = r /\ r # Idle /\ \A g \in Handler : g # h => request'[g] = request[g]
    BY <2>1, OneRequest, DocBounds DEF SearchInv, MergeInv
  <2>3. ASSUME NEW k \in Key PROVE RowSound(k)' /\ (Covered(k) => Covered(k)')
    <3>1. CASE k # q.key
      <4>1. RowSound(k) /\ docs'[k] = docs[k]
        BY <1>0, <1>3, <3>1, WrittenDocs DEF SearchInv, RowsSound
      <4>2. \A g \in Handler : /\ Indexing(g, k)' <=> Indexing(g, k)
                               /\ Indexing(g, k) => request'[g] = request[g]
        BY <1>0, <2>1, <2>2, <3>1 DEF Indexing, OnKey
      <4> QED BY <1>0, <1>3, <4>1, <4>2, RowStands
    <3>2. CASE k = q.key
      <4>1. Indexing(h, k)' /\ SpokenFor(k)'
        BY <2>1, <2>2, <3>2 DEF Indexing, OnKey, SpokenFor
      <4>2. Covered(k)'
        BY <4>1 DEF Covered
      <4>3. ASSUME k \notin murky' PROVE \A g \in Handler : Indexing(g, k)' => g = h
        <5>1. k \notin Overlaps(h)
          BY <1>3, <4>3
        <5>2. \A g \in Handler \ {h} : ~(request[g] # Idle /\ request[g].key = k /\ request[g].at = "index")
          BY <3>2, <5>1 DEF Overlaps
        <5> QED BY <2>2, <5>2 DEF Indexing, OnKey
      <4>4. ASSUME k \notin murky', NEW w \in Walker, HoldsRow(w, k)' PROVE docs'[k] # NoDoc
        <5>1. InHand(k)
          BY <1>0, <4>4 DEF InHand, HoldsRow
        <5>2. q.kind # "delete"
          BY <1>3, <3>2, <4>4, <5>1 DEF Overlaps
        <5> QED BY <1>0, <1>3, <3>2, <5>2, WrittenDocs, DocBounds
      <4>5. IF q.kind = "delete" THEN docs'[k] = NoDoc
            ELSE docs'[k] \in Document /\ docs'[k].words = q.stamp
        BY <1>0, <1>3, <3>2, WrittenDocs
      <4>6. IF request'[h].kind = "delete" THEN docs'[k] = NoDoc ELSE SaysSo(k, request[h].stamp)'
        BY <2>1, <2>2, <4>5, DocBounds DEF SaysSo
      <4>7. RowSound(k)'
        <5>1. k \notin murky' => \A f, g \in Handler : Indexing(f, k)' /\ Indexing(g, k)' => f = g
          BY <4>3
        <5>2. k \notin murky' => \A g \in Handler : Indexing(g, k)' =>
                IF request'[g].kind = "delete" THEN docs'[k] = NoDoc ELSE SaysSo(k, request[g].stamp)'
          BY <4>3, <4>6
        <5> QED BY <4>1, <4>4, <5>1, <5>2 DEF RowSound
      <4> QED BY <4>2, <4>7
    <3> QED BY <3>1, <3>2
  <2>4. WalkSound'
    BY <1>0, <2>3, WalkStands DEF SearchInv
  <2> QED BY <1>0, <2>3, <2>4 DEF SearchInv, RowsSound
<1> QED BY <1>0, <1>1, <1>2, <1>3 DEF WriteRecord

LEMMA IndexRecordKeeps == ASSUME SearchInv, NEW h \in Handler, IndexRecord(h) PROVE SearchInv'
<1>a. PICK q \in Request \cup {Idle} : q = request[h]
  BY DEF SearchInv, MergeInv, DocTypeOK
<1>b. /\ q # Idle /\ q.at = "index" /\ q.key \in Key /\ q.stamp \in Stamp
  BY <1>a, RequestFields DEF IndexRecord, SearchInv
<1>c. PICK K \in Key : K = q.key
  BY <1>b
<1>0. /\ request[h] = q /\ q # Idle /\ q.at = "index" /\ q.key = K /\ q.stamp \in Stamp
      /\ UNCHANGED <<docs, walk, reading>> /\ request' = [request EXCEPT ![h] = Idle]
      /\ MergeInv /\ MergeInv'
  BY <1>a, <1>b, <1>c, IndexRecordMerges DEF IndexRecord, Ends, SearchInv
<1>1. request'[h] = Idle /\ \A g \in Handler : g # h => request'[g] = request[g]
  BY <1>0, OneRequest DEF MergeInv
<1>2. \A k \in Key : k # K => \A g \in Handler : /\ Indexing(g, k)' <=> Indexing(g, k)
                                                 /\ Indexing(g, k) => request'[g] = request[g]
  BY <1>0, <1>1 DEF Indexing, OnKey
<1>3. /\ \A k \in Key : k # K => indexed'[k] = indexed[k]
      /\ murky \subseteq murky'
      /\ K \in murky' \/ indexed'[K] = IF q.kind = "delete" THEN NoText ELSE q.stamp
  BY <1>0 DEF IndexRecord, IndexWritten, MergeInv, DocTypeOK
<1>4. RowSound(K) /\ Indexing(h, K)
  BY <1>0 DEF SearchInv, RowsSound, Indexing, OnKey
<1>5. ASSUME K \notin murky' PROVE RowSound(K)' /\ Covered(K)'
  <2>0. K \notin murky
    BY <1>3, <1>5
  <2>1. \A g \in Handler : ~Indexing(g, K)'
    <3>1. \A g \in Handler : Indexing(g, K) => g = h
      BY <1>4, <2>0 DEF RowSound
    <3> QED BY <1>1, <3>1 DEF Indexing, OnKey
  <2>2. IF q.kind = "delete" THEN docs[K] = NoDoc ELSE SaysSo(K, q.stamp)
    BY <1>0, <1>4, <2>0 DEF RowSound
  <2>3. indexed'[K] = NoText \/ SaysSo(K, indexed[K])'
    BY <1>0, <1>3, <1>5, <2>2 DEF SaysSo
  <2>4. docs'[K] # NoDoc => indexed'[K] # NoText
    BY <1>0, <1>3, <1>5, <2>2, DocBounds DEF SaysSo
  <2>5. \A w \in Walker : HoldsRow(w, K)' => docs'[K] # NoDoc
    BY <1>0, <1>4, <2>0 DEF RowSound, HoldsRow
  <2> QED BY <2>1, <2>3, <2>4, <2>5 DEF RowSound, Covered
<1>6. ASSUME NEW k \in Key PROVE RowSound(k)' /\ (Covered(k) => Covered(k)')
  <2>1. CASE k = K
    BY <1>5, <2>1 DEF RowSound, Covered
  <2>2. CASE k # K
    <3>1. RowSound(k)
      BY DEF SearchInv, RowsSound
    <3> QED BY <1>0, <1>2, <1>3, <2>2, <3>1, RowStands
  <2> QED BY <2>1, <2>2
<1>7. WalkSound'
  BY <1>0, <1>6, WalkStands DEF SearchInv
<1> QED BY <1>0, <1>6, <1>7 DEF SearchInv, RowsSound

-----------------------------------------------------------------------------
(* A step of one tab: what it holds is what its documents say now, and it   *)
(* knows what is covered.                                                   *)
LEMMA WalkerMoves ==
  ASSUME SearchInv, NEW w \in Walker, NEW r \in Step \cup {Idle}, reading' = [reading EXCEPT ![w] = r],
         UNCHANGED <<docs, fresh, indexed, walk, request, writes, murky>>, faults' \in 0..MaxFaults,
         r # Idle /\ r.at = "page" => \A k \in Key : r.page[k] # NoText => SaysSo(k, r.page[k]),
         r # Idle => CoveredFrom(r.cursor),
         r # Idle /\ r.at = "page" =>
           \A k \in Key : r.rest <= k /\ k < r.cursor => r.page[k] # NoText \/ Covered(k)
  PROVE  SearchInv'
<1>1. reading' \in [Walker -> Step \cup {Idle}] /\ reading'[w] = r
      /\ \A v \in Walker : v # w => reading'[v] = reading[v]
  BY DEF SearchInv, MergeInv, DocTypeOK
<1>2. MergeInv'
  BY <1>1 DEF SearchInv, MergeInv, DocTypeOK, KeysSpent, PublishAlone, FirstWrite, OnKey, RequestsRead
<1>3. ASSUME NEW k \in Key
      PROVE  /\ \A h \in Handler : Indexing(h, k)' <=> Indexing(h, k)
             /\ SpokenFor(k)' <=> SpokenFor(k)
             /\ Covered(k)' <=> Covered(k)
  BY DEF Indexing, OnKey, SpokenFor, Covered
<1>4. ASSUME NEW k \in Key PROVE RowSound(k)'
  <2>1. RowSound(k)
    BY DEF SearchInv, RowsSound
  <2>2. ASSUME NEW v \in Walker, HoldsRow(v, k)', k \notin murky
        PROVE  docs[k] # NoDoc /\ (indexed[k] # NoText \/ SpokenFor(k) \/ docs[k].words = reading'[v].page[k])
    <3>1. CASE v = w
      BY <1>1, <2>2, <3>1 DEF HoldsRow, SaysSo
    <3>2. CASE v # w
      <4>1. reading'[v] = reading[v] /\ HoldsRow(v, k)
        BY <1>1, <2>2, <3>2 DEF HoldsRow
      <4> QED BY <2>1, <2>2, <4>1 DEF RowSound
    <3> QED BY <3>1, <3>2
  <2> QED BY <1>3, <2>1, <2>2 DEF RowSound, SaysSo
<1>5. WalkSound'
  <2>1. CoveredFrom(walk.cursor)' /\ (walk'.done => CoveredFrom(0)')
    BY <1>3 DEF SearchInv, WalkSound, CoveredFrom
  <2>2. ASSUME NEW v \in Walker, reading'[v] # Idle PROVE StepSound(v)'
    <3>1. CASE v = w
      <4>1. \A k \in Key : r.at = "page" /\ r.page[k] # NoText => HoldsRow(v, k)'
        BY <1>1, <2>2, <3>1 DEF HoldsRow
      <4> QED BY <1>1, <1>3, <2>2, <3>1, <4>1 DEF StepSound, CoveredFrom
    <3>2. CASE v # w
      <4>1. reading'[v] = reading[v] /\ StepSound(v)
        BY <1>1, <2>2, <3>2 DEF SearchInv, WalkSound
      <4> QED BY <1>3, <4>1 DEF StepSound, CoveredFrom, HoldsRow
    <3> QED BY <3>1, <3>2
  <2> QED BY <2>1, <2>2 DEF WalkSound
<1> QED BY <1>2, <1>4, <1>5 DEF SearchInv, RowsSound

LEMMA ReadWalkKeeps == ASSUME SearchInv, NEW w \in Walker, ReadWalk(w) PROVE SearchInv'
<1> DEFINE r == [at |-> "state", cursor |-> walk.cursor, page |-> [k \in Key |-> NoText], rest |-> 0]
<1>1. /\ reading' = [reading EXCEPT ![w] = r]
      /\ UNCHANGED <<docs, fresh, indexed, walk, request, writes, murky>> /\ faults' \in 0..MaxFaults
  BY DEF ReadWalk, SearchInv, MergeInv, DocTypeOK
<1>2. walk.cursor \in 1..(LastKey + 1)
  BY DEF SearchInv, MergeInv, DocTypeOK
<1>3. r \in Step
  BY <1>2, DocBounds DEF Step
<1>4. CoveredFrom(r.cursor) /\ r.at # "page"
  BY DEF SearchInv, WalkSound
<1> HIDE DEF r
<1> QED BY <1>1, <1>3, <1>4, WalkerMoves

(* A set of keys has a least one.                                           *)
LEMMA LeastExists ==
  ASSUME NEW S, S \subseteq Nat, S # {}
  PROVE  \E k \in S : \A j \in S : k <= j
<1>1. PICK k \in S : \A j \in S : ~ (<<j, k>> \in OpToRel(<, Nat))
  BY NatLessThanWellFounded, WFMin
<1>2. \A j \in S : j < k => <<j, k>> \in OpToRel(<, Nat)
  BY DEF OpToRel
<1>3. \A j \in S : ~ (j < k) => k <= j
  OBVIOUS
<1> QED BY <1>1, <1>2, <1>3

(* The page holds every document between its oldest and the cursor.         *)
LEMMA PageReaches ==
  ASSUME NEW c \in Nat, PageBelow(c) # Below(c)
  PROVE  /\ Oldest(PageBelow(c)) \in PageBelow(c)
         /\ \A k \in Below(c) : k >= Oldest(PageBelow(c)) => k \in PageBelow(c)
<1> DEFINE From(k) == {j \in Below(c) : j >= k}
<1>1. Below(c) \subseteq Nat /\ PageBelow(c) \subseteq Below(c) /\ IsFiniteSet(Below(c))
  <2>1. IsFiniteSet(Key)
    BY DocBounds, FS_Interval DEF Key
  <2>2. Below(c) \subseteq Key
    BY DEF Below, Present
  <2> QED BY <2>1, <2>2, FS_Subset, DocBounds DEF PageBelow
<1>2. PageBelow(c) # {}
  <2>1. PICK m \in Below(c) : \A j \in Below(c) : j <= m
    <3> DEFINE Gap == {LastKey - k : k \in Below(c)}
    <3>1. Below(c) # {}
      BY <1>1 DEF PageBelow
    <3>2. Gap # {} /\ Gap \subseteq Nat
      BY <3>1, DocBounds DEF Below, Present, Key
    <3>3. PICK m \in Below(c) : \A i \in Gap : LastKey - m <= i
      BY <3>2, LeastExists
    <3>4. \A j \in Below(c) : LastKey - j \in Gap
      OBVIOUS
    <3>5. ASSUME NEW j \in Below(c) PROVE j <= m
      <4>1. LastKey - m <= LastKey - j
        BY <3>3, <3>4
      <4> QED BY <1>1, <4>1, DocBounds
    <3> QED BY <3>5
  <2>2. From(m) = {m}
    BY <1>1, <2>1
  <2>3. Cardinality(From(m)) = 1
    BY <2>2, FS_Singleton
  <2>4. Cardinality(From(m)) <= PageSize
    BY <2>3, DocBounds
  <2> QED BY <2>1, <2>4 DEF PageBelow
<1>3. \E k \in PageBelow(c) : \A j \in PageBelow(c) : k <= j
  <2>1. PageBelow(c) \subseteq Nat
    BY <1>1
  <2> QED BY <1>2, <2>1, LeastExists
<1>4. Oldest(PageBelow(c)) \in PageBelow(c)
  BY <1>3 DEF Oldest
<1>5. PICK b \in Below(c) : b = Oldest(PageBelow(c)) /\ Cardinality(From(b)) <= PageSize
  BY <1>1, <1>4 DEF PageBelow
<1>6. ASSUME NEW k \in Below(c), k >= b PROVE k \in PageBelow(c)
  <2>1. From(k) \subseteq From(b) /\ IsFiniteSet(From(b)) /\ IsFiniteSet(From(k))
    BY <1>1, <1>6, FS_Subset
  <2>2. Cardinality(From(k)) <= Cardinality(From(b)) /\ Cardinality(From(k)) \in Nat /\ Cardinality(From(b)) \in Nat
    BY <2>1, FS_Subset, FS_CardinalityType
  <2>3. Cardinality(From(k)) <= PageSize
    BY <1>5, <2>2, DocBounds
  <2> QED BY <2>3 DEF PageBelow
<1> QED BY <1>4, <1>5, <1>6

LEMMA ListPageKeeps == ASSUME SearchInv, NEW w \in Walker, ListPage(w) PROVE SearchInv'
<1>0. PICK q \in Step : q = reading[w]
  BY DEF ListPage, SearchInv, MergeInv, DocTypeOK
<1>1. q # Idle /\ q.at = "state" /\ StepSound(w)
  BY <1>0 DEF ListPage, SearchInv, WalkSound
<1>2. q.cursor \in Nat /\ q.cursor \in 0..(LastKey + 1) /\ CoveredFrom(q.cursor)
  BY <1>0, <1>1, DocBounds DEF Step, StepSound
<1>3. UNCHANGED <<docs, fresh, indexed, walk, request, writes, murky>> /\ faults' \in 0..MaxFaults
  BY FaultType DEF ListPage, SearchInv, MergeInv, DocTypeOK
<1>4. CASE reading' = [reading EXCEPT ![w] = Listed(w)]
  <2> DEFINE page == PageBelow(q.cursor)
             r == [q EXCEPT !.at = "page",
                     !.page = [k \in Key |-> IF k \in page THEN docs[k].words ELSE NoText],
                     !.rest = IF page = Below(q.cursor) THEN 0 ELSE Oldest(page)]
  <2>1. Listed(w) = r
    BY <1>0 DEF Listed
  <2>2. /\ page \subseteq Key
        /\ \A k \in page : docs[k] # NoDoc /\ docs[k].words \in Stamp /\ k < q.cursor
    BY DEF PageBelow, Below, Present, SearchInv, MergeInv, DocTypeOK, Document
  <2>3. (IF page = Below(q.cursor) THEN 0 ELSE Oldest(page)) \in 0..LastKey
    BY <1>2, <2>2, PageReaches, DocBounds DEF Key
  <2>4. [k \in Key |-> IF k \in page THEN docs[k].words ELSE NoText] \in [Key -> Stamp \cup {NoText}]
    BY <2>2
  <2>5. r \in Step
    BY <2>3, <2>4 DEF Step
  <2>6. /\ r.at = "page" /\ r.cursor = q.cursor
        /\ r.page = [k \in Key |-> IF k \in page THEN docs[k].words ELSE NoText]
        /\ r.rest = IF page = Below(q.cursor) THEN 0 ELSE Oldest(page)
    BY DEF Step
  <2> HIDE DEF r
  <2>7. \A k \in Key : r.page[k] # NoText => SaysSo(k, r.page[k])
    BY <2>2, <2>6 DEF SaysSo
  <2>8. \A k \in Key : r.rest <= k /\ k < r.cursor => r.page[k] # NoText \/ Covered(k)
    <3> SUFFICES ASSUME NEW k \in Key, r.rest <= k, k < q.cursor, ~Covered(k) PROVE r.page[k] # NoText
      BY <2>6
    <3>1. k \in Below(q.cursor)
      BY DEF Covered, Below, Present
    <3>2. k \in page
      BY <1>2, <2>6, <3>1, PageReaches, DocBounds
    <3> QED BY <2>2, <2>6, <3>2, DocBounds
  <2> HIDE DEF page
  <2> QED BY <1>2, <1>3, <1>4, <2>1, <2>5, <2>6, <2>7, <2>8, WalkerMoves
<1>5. CASE reading' = [reading EXCEPT ![w] = ListFails(w)]
  BY <1>3, <1>5, WalkerMoves DEF ListFails
<1> QED BY <1>4, <1>5 DEF ListPage

(* The rows of a page that are not there yet are added, and with them the   *)
(* cursor moves down to where the page ends.                                *)
LEMMA SaveStepKeeps == ASSUME SearchInv, NEW w \in Walker, SaveStep(w) PROVE SearchInv'
<1>0. PICK q \in Step : q = reading[w]
  BY DEF SaveStep, SearchInv, MergeInv, DocTypeOK
<1>1. /\ q # Idle /\ q.at = "page" /\ q.page \in [Key -> Stamp \cup {NoText}] /\ q.rest \in 0..LastKey
      /\ UNCHANGED <<docs, fresh, request, writes, murky>> /\ reading' = [reading EXCEPT ![w] = Idle]
  BY <1>0 DEF SaveStep, Step
<1>2. CASE UNCHANGED <<indexed, walk>> /\ Fault
  <2>1. faults' \in 0..MaxFaults
    BY <1>2, FaultType DEF SearchInv, MergeInv
  <2> QED BY <1>1, <1>2, <2>1, WalkerMoves
<1>3. CASE indexed' = PageIndexed(w) /\ walk' = WalkSaved(w) /\ UNCHANGED faults
  <2>1. reading'[w] = Idle /\ \A v \in Walker : v # w => reading'[v] = reading[v]
    BY <1>1 DEF SearchInv, MergeInv, DocTypeOK
  <2>2. indexed' = [k \in Key |-> IF indexed[k] = NoText THEN q.page[k] ELSE indexed[k]]
    BY <1>0, <1>3 DEF PageIndexed
  <2>3. walk' = [cursor |-> IF q.rest = 0 THEN LastKey + 1 ELSE q.rest, done |-> walk.done \/ q.rest = 0]
    BY <1>0, <1>3 DEF WalkSaved
  <2>4. DocTypeOK'
    <3>1. indexed' \in [Key -> Stamp \cup {NoText}]
      BY <1>1, <2>2 DEF SearchInv, MergeInv, DocTypeOK
    <3>2. (IF q.rest = 0 THEN LastKey + 1 ELSE q.rest) \in 1..(LastKey + 1)
      BY <1>1, DocBounds
    <3>3. walk' \in [cursor: 1..(LastKey + 1), done: BOOLEAN]
      BY <2>3, <3>2 DEF SearchInv, MergeInv, DocTypeOK
    <3>4. reading' \in [Walker -> Step \cup {Idle}]
      BY <1>1 DEF SearchInv, MergeInv, DocTypeOK
    <3> QED BY <1>1, <1>3, <3>1, <3>3, <3>4 DEF SearchInv, MergeInv, DocTypeOK
  <2>5. MergeInv'
    BY <1>1, <2>4 DEF SearchInv, MergeInv, KeysSpent, PublishAlone, FirstWrite, OnKey, RequestsRead
  <2>6. ASSUME NEW k \in Key
        PROVE  /\ \A h \in Handler : Indexing(h, k)' <=> Indexing(h, k)
               /\ SpokenFor(k)' <=> SpokenFor(k)
               /\ Covered(k) \/ HoldsRow(w, k) => Covered(k)'
    BY <1>0, <1>1, <2>2 DEF Indexing, OnKey, SpokenFor, Covered, HoldsRow
  <2>7. ASSUME NEW k \in Key PROVE RowSound(k)'
    <3>1. RowSound(k)
      BY DEF SearchInv, RowsSound
    <3>2. k \notin murky /\ ~SpokenFor(k) => indexed'[k] = NoText \/ SaysSo(k, indexed'[k])
      <4>1. CASE indexed[k] = NoText /\ q.page[k] # NoText
        BY <1>0, <1>1, <2>2, <3>1, <4>1 DEF RowSound, HoldsRow, SaysSo
      <4>2. CASE ~(indexed[k] = NoText /\ q.page[k] # NoText)
        BY <2>2, <3>1, <4>2 DEF RowSound
      <4> QED BY <4>1, <4>2
    <3>3. ASSUME NEW v \in Walker, HoldsRow(v, k)', k \notin murky
          PROVE  docs[k] # NoDoc /\ (indexed'[k] # NoText \/ SpokenFor(k) \/ docs[k].words = reading'[v].page[k])
      <4>1. reading'[v] = reading[v] /\ HoldsRow(v, k)
        BY <2>1, <3>3 DEF HoldsRow
      <4> QED BY <2>2, <3>1, <3>3, <4>1 DEF RowSound
    <3>4. \A h \in Handler : Indexing(h, k)' <=> Indexing(h, k)
      BY <2>6
    <3>5. SpokenFor(k)' <=> SpokenFor(k)
      BY <2>6
    <3>6. murky' = murky /\ docs' = docs /\ request' = request
      BY <1>1
    <3> QED BY <3>1, <3>2, <3>3, <3>4, <3>5, <3>6 DEF RowSound, SaysSo
  <2>8. ASSUME NEW c \in Nat, CoveredFrom(c) PROVE CoveredFrom(c)'
    BY <2>6, <2>8 DEF CoveredFrom
  <2>9. WalkSound'
    <3>0. walk.cursor \in Nat /\ walk'.cursor \in Nat /\ q.cursor \in Nat
      BY <1>0, <2>4, DocBounds DEF SearchInv, MergeInv, DocTypeOK, Step
    <3>1. ASSUME NEW k \in Key, k >= q.rest PROVE Covered(k)'
      <4>1. StepSound(w)
        BY <1>0, <1>1 DEF SearchInv, WalkSound
      <4>2. HoldsRow(w, k) \/ Covered(k)
        BY <1>0, <1>1, <3>0, <3>1, <4>1, DocBounds DEF StepSound, CoveredFrom
      <4> QED BY <2>6, <4>2
    <3>2. CoveredFrom(walk.cursor)'
      <4>1. CASE q.rest = 0
        <5>1. walk'.cursor = LastKey + 1
          BY <2>3, <4>1
        <5> QED BY <5>1, DocBounds DEF CoveredFrom, Key
      <4>2. CASE q.rest # 0
        BY <2>3, <3>1, <4>2 DEF CoveredFrom
      <4> QED BY <4>1, <4>2
    <3>3. walk'.done => CoveredFrom(0)'
      <4>1. CASE q.rest = 0
        BY <3>1, <4>1, DocBounds DEF CoveredFrom
      <4>2. CASE q.rest # 0
        BY <2>3, <2>8, <4>2 DEF SearchInv, WalkSound
      <4> QED BY <4>1, <4>2
    <3>4. ASSUME NEW v \in Walker, reading'[v] # Idle PROVE StepSound(v)'
      <4>1. reading'[v] = reading[v] /\ StepSound(v) /\ v # w
        BY <2>1, <3>4 DEF SearchInv, WalkSound
      <4>2. reading[v].cursor \in Nat
        BY <3>4, <4>1, DocBounds DEF SearchInv, MergeInv, DocTypeOK, Step
      <4>3. \A k \in Key : Covered(k) => Covered(k)'
        BY <2>6
      <4>4. \A k \in Key : HoldsRow(v, k)' <=> HoldsRow(v, k)
        BY <4>1 DEF HoldsRow
      <4> QED BY <4>1, <4>3, <4>4 DEF StepSound, CoveredFrom
    <3> QED BY <3>2, <3>3, <3>4 DEF WalkSound
  <2> QED BY <2>5, <2>7, <2>9 DEF SearchInv, RowsSound
<1> QED BY <1>2, <1>3 DEF SaveStep

LEMMA SearchNextInv == SearchInv /\ [DocNext]_docVars => SearchInv'
<1> SUFFICES ASSUME SearchInv, [DocNext]_docVars PROVE SearchInv'
  OBVIOUS
<1>1. CASE \E h \in Handler : Start(h) \/ ReadRecord(h) \/ WriteRecord(h) \/ IndexRecord(h)
                              \/ PostAnnouncement(h) \/ WriteBack(h)
  BY <1>1, StartKeeps, ReadRecordKeeps, WriteRecordKeeps, IndexRecordKeeps, PostAnnouncementKeeps,
     WriteBackKeeps
<1>2. CASE \E w \in Walker : ReadWalk(w) \/ ListPage(w) \/ SaveStep(w)
  BY <1>2, ReadWalkKeeps, ListPageKeeps, SaveStepKeeps
<1>3. CASE UNCHANGED docVars
  <2>1. MergeInv'
    BY <1>3 DEF docVars, SearchInv, MergeInv, DocTypeOK, KeysSpent, PublishAlone, FirstWrite, OnKey,
                RequestsRead
  <2>2. RowsSound'
    BY <1>3 DEF docVars, SearchInv, RowsSound, RowSound, Indexing, OnKey, SpokenFor, SaysSo, HoldsRow
  <2>3. WalkSound'
    BY <1>3 DEF docVars, SearchInv, WalkSound, StepSound, CoveredFrom, Covered, SpokenFor, Indexing,
                OnKey, HoldsRow
  <2> QED BY <2>1, <2>2, <2>3 DEF SearchInv
<1> QED BY <1>1, <1>2, <1>3 DEF DocNext

LEMMA SearchInvGives == SearchInv => IndexIsTrue /\ ReadyIsComplete
<1> SUFFICES ASSUME SearchInv PROVE IndexIsTrue /\ ReadyIsComplete
  OBVIOUS
<1>1. \A k \in Key : SpokenFor(k) => Busy(k)
  BY DEF SpokenFor, Indexing, OnKey, Busy
<1>2. IndexIsTrue
  BY <1>1 DEF SearchInv, RowsSound, RowSound, IndexIsTrue, SaysSo
<1>3. ReadyIsComplete
  <2> SUFFICES ASSUME walk.done, NEW k \in Present \ murky PROVE Busy(k) \/ indexed[k] # NoText
    BY DEF ReadyIsComplete
  <2>1. Covered(k)
    BY DocBounds DEF SearchInv, WalkSound, CoveredFrom, Present, Key
  <2> QED BY <1>1, <2>1 DEF Covered, Present
<1> QED BY <1>2, <1>3

LEMMA StepUndoesNothing == SearchInv /\ [DocNext]_docVars => MergeStep
<1> SUFFICES ASSUME SearchInv, [DocNext]_docVars, docs' # docs PROVE MergeStep
  BY DEF MergeStep
<1>1. PICK h \in Handler : WriteRecord(h) \/ WriteBack(h)
  BY DEF DocNext, docVars, Start, ReadRecord, IndexRecord, PostAnnouncement, ReadWalk, ListPage, SaveStep
<1> QED BY <1>1, WriteRecordMerges, WriteBackMerges DEF SearchInv

(* Search says what the record says, and answers only once every older      *)
(* document can be found (IndexIsTrue, ReadyIsComplete): whatever the number *)
(* of documents, requests, tabs walking the repo and failed calls, and      *)
(* whatever the size of a page.                                             *)
THEOREM SearchHolds == DocSpec => [](IndexIsTrue /\ ReadyIsComplete)
<1>1. SearchInv => IndexIsTrue /\ ReadyIsComplete
  BY SearchInvGives
<1> QED BY DocInitInv, SearchNextInv, <1>1, PTL DEF DocSpec

(* Edits and announcements of one document do not undo each other           *)
(* (NothingUndone).                                                         *)
THEOREM NothingUndoneHolds == DocSpec => NothingUndone
<1>1. SearchInv /\ [DocNext]_docVars => [MergeStep]_docVars
  BY StepUndoesNothing
<1> QED BY DocInitInv, SearchNextInv, <1>1, PTL DEF DocSpec, NothingUndone
=============================================================================
