------------------------------ MODULE Documents ------------------------------
(***************************************************************************)
(* The documents of one writer's repo and the search index kept beside     *)
(* them: publish, edit, delete and announce requests, and the backfill     *)
(* that dashboard tabs drive page by page.                                 *)
(*                                                                         *)
(* A record is its words and whether it names an announcement; its CID is  *)
(* its content, so a swap succeeds when the record is the one that was read. *)
(* Keys are TIDs: numbers, listed newest first.                            *)
(***************************************************************************)
EXTENDS Integers, FiniteSets

CONSTANTS
  LastKey,    \* record keys are 1..LastKey
  Handler,    \* requests under way at once
  Walker,     \* tabs running the backfill
  PageSize,   \* BACKFILL_PAGE_SIZE
  MaxWrites,  \* bound: requests started
  MaxFaults,  \* bound: calls that fail
  NoDoc, NoText, Idle

Key == 1..LastKey
Stamp == 0..MaxWrites

ASSUME DocumentsAssumption ==
  /\ LastKey \in Nat /\ PageSize \in Nat \ {0} /\ MaxWrites \in Nat /\ MaxFaults \in Nat

VARIABLES
  docs,     \* site.standard.document records
  fresh,    \* keys not used yet
  indexed,  \* search_documents: the words each row was made from
  walk,     \* the search_backfills row
  reading,  \* each walker's step in hand
  request,  \* each handler's request
  writes,   \* requests started; numbers the words of their forms
  faults,   \* calls that have failed
  murky     \* history: keys whose index row nobody answers for, see below

docVars == <<docs, fresh, indexed, walk, reading, request, writes, faults, murky>>

Document == [words: Stamp, announced: BOOLEAN]

(* at: what the request does next.  read: the record it read.  stamp: the   *)
(* words of its form.                                                       *)
Request == [kind: {"publish", "edit", "delete", "announce"}, key: Key,
            at: {"read", "write", "post", "back", "index"}, read: Document \cup {NoDoc}, stamp: Stamp]

(* cursor: pages go on below it.  page: what the listing answered.          *)
Step == [at: {"state", "page"}, cursor: 0..(LastKey + 1), page: [Key -> Stamp \cup {NoText}],
         rest: 0..LastKey]

ASSUME DocumentsNullsAssumption ==
  NoDoc \notin Document /\ NoText \notin Stamp /\ Idle \notin Request \cup Step

DocInit ==
  /\ docs \in [Key -> {NoDoc, [words |-> 0, announced |-> FALSE]}]
  /\ fresh = {k \in Key : docs[k] = NoDoc}
  /\ indexed = [k \in Key |-> NoText]
  /\ walk = [cursor |-> LastKey + 1, done |-> FALSE]
  /\ reading = [w \in Walker |-> Idle]
  /\ request = [h \in Handler |-> Idle]
  /\ writes = 0
  /\ faults = 0
  /\ murky = {}

Present == {k \in Key : docs[k] # NoDoc}
Busy(k) == \E h \in Handler : request[h] # Idle /\ request[h].key = k
InHand(k) == \E w \in Walker : reading[w] # Idle /\ reading[w].at = "page" /\ reading[w].page[k] # NoText
Fault == faults < MaxFaults /\ faults' = faults + 1

-----------------------------------------------------------------------------
(* Requests.                                                                *)

Goes(h, at) == request' = [request EXCEPT ![h].at = at]
Ends(h) == request' = [request EXCEPT ![h] = Idle]

(* A document published under a fresh key, or under the backdated one of an *)
(* import; an edit, a deletion or an announcement of one that is there.     *)
Start(h) ==
  /\ request[h] = Idle /\ writes < MaxWrites
  /\ writes' = writes + 1
  /\ \E k \in Key, kind \in {"publish", "edit", "delete", "announce"} :
       /\ IF kind = "publish" THEN k \in fresh ELSE k \in Present
       /\ fresh' = fresh \ {k}
       /\ request' = [request EXCEPT ![h] =
            [kind |-> kind, key |-> k, stamp |-> writes', read |-> NoDoc,
             at |-> IF kind \in {"edit", "announce"} THEN "read" ELSE "write"]]
  /\ UNCHANGED <<docs, indexed, walk, reading, faults, murky>>

(* getRecordEntry; a record that cannot be read ends the request.           *)
ReadRecord(h) ==
  LET r == request[h] IN
  /\ r # Idle /\ r.at = "read"
  /\ IF r.key \in Present
     THEN request' = [request EXCEPT ![h].read = docs[r.key],
                                     ![h].at = IF r.kind = "edit" THEN "write" ELSE "post"]
     ELSE Ends(h)
  /\ UNCHANGED <<docs, fresh, indexed, walk, reading, writes, faults, murky>>

(* Slip: an unconditional put. *)
SwapAny(h) == request[h].key \in Present

(* swapRecord. *)
SwapHolds(h) == docs[request[h].key] = request[h].read

(* updateDocumentRecord: everything but the words is the record's own.      *)
Merged(h) == [request[h].read EXCEPT !.words = request[h].stamp]

(* What an index row nobody answers for comes from: the request's own index *)
(* write is lost; another request on the document is between its write and  *)
(* its index; a backfill step holds the page of a document being deleted.   *)
Overlaps(h) ==
  {request[h].key} \cap {k \in Key :
     \/ \E g \in Handler \ {h} : request[g] # Idle /\ request[g].key = k /\ request[g].at = "index"
     \/ request[h].kind = "delete" /\ InHand(k)}

Written(h) ==
  [docs EXCEPT ![request[h].key] =
     CASE request[h].kind = "publish" -> [words |-> request[h].stamp, announced |-> FALSE]
       [] request[h].kind = "edit" -> Merged(h)
       [] OTHER -> NoDoc]

Refused(h) == request[h].kind = "edit" /\ ~SwapHolds(h)

(* putRecord, createRecord or deleteRecord: it may fail, or land with its   *)
(* answer lost, and then nothing after it runs.                             *)
WriteRecord(h) ==
  /\ request[h] # Idle /\ request[h].at = "write"
  /\ \/ /\ ~Refused(h)
        /\ docs' = Written(h) /\ murky' = murky \cup Overlaps(h)
        /\ Goes(h, "index") /\ UNCHANGED faults
     \/ /\ ~Refused(h) /\ Fault
        /\ docs' = Written(h) /\ murky' = murky \cup {request[h].key}
        /\ Ends(h)
     \/ Refused(h) /\ Ends(h) /\ UNCHANGED <<docs, murky, faults>>
     \/ Fault /\ Ends(h) /\ UNCHANGED <<docs, murky>>
  /\ UNCHANGED <<fresh, indexed, walk, reading, writes>>

(* indexDocument or unindexDocument: what the request itself wrote.         *)
IndexWritten(h) ==
  [indexed EXCEPT ![request[h].key] =
     IF request[h].kind = "delete" THEN NoText ELSE request[h].stamp]

IndexRecord(h) ==
  /\ request[h] # Idle /\ request[h].at = "index"
  /\ \/ indexed' = IndexWritten(h) /\ UNCHANGED <<faults, murky>>
     \/ Fault /\ UNCHANGED indexed /\ murky' = murky \cup {request[h].key}
  /\ Ends(h)
  /\ UNCHANGED <<docs, fresh, walk, reading, writes>>

(* announceDocument: the Bluesky post, then the write-back of its reference *)
(* under the version read, best effort.                                     *)
PostAnnouncement(h) ==
  /\ request[h] # Idle /\ request[h].at = "post"
  /\ \/ Goes(h, "back") /\ UNCHANGED faults
     \/ Fault /\ Ends(h)
  /\ UNCHANGED <<docs, fresh, indexed, walk, reading, writes, murky>>

WriteBack(h) ==
  LET r == request[h] IN
  /\ r # Idle /\ r.at = "back"
  /\ \/ SwapHolds(h) /\ docs' = [docs EXCEPT ![r.key] = [r.read EXCEPT !.announced = TRUE]]
                     /\ UNCHANGED faults
     \/ ~SwapHolds(h) /\ UNCHANGED <<docs, faults>>
     \/ Fault /\ UNCHANGED docs
  /\ Ends(h)
  /\ UNCHANGED <<fresh, indexed, walk, reading, writes, murky>>

-----------------------------------------------------------------------------
(* The backfill: each step reads where the walk is, lists a page, and saves *)
(* the page's rows and the next cursor in one batch.                        *)

ReadWalk(w) ==
  /\ reading[w] = Idle /\ ~walk.done
  /\ reading' = [reading EXCEPT ![w] =
       [at |-> "state", cursor |-> walk.cursor, page |-> [k \in Key |-> NoText], rest |-> 0]]
  /\ UNCHANGED <<docs, fresh, indexed, walk, request, writes, faults, murky>>

Below(c) == {k \in Present : k < c}

(* The newest PageSize of them. *)
PageBelow(c) == {k \in Below(c) : Cardinality({j \in Below(c) : j >= k}) <= PageSize}

Oldest(S) == CHOOSE k \in S : \A j \in S : k <= j

(* Slip: a repo that stops listing halfway is taken to end there. *)
ListEnds(w) == [reading[w] EXCEPT !.at = "page"]

(* A listing refused, halfway as at the start: the step is given up.  (A    *)
(* repo that was never there lists as empty.)                               *)
ListFails(w) == Idle

Listed(w) ==
  LET c == reading[w].cursor
      page == PageBelow(c)
  IN  [reading[w] EXCEPT !.at = "page",
         !.page = [k \in Key |-> IF k \in page THEN docs[k].words ELSE NoText],
         !.rest = IF page = Below(c) THEN 0 ELSE Oldest(page)]

ListPage(w) ==
  /\ reading[w] # Idle /\ reading[w].at = "state"
  /\ \/ reading' = [reading EXCEPT ![w] = Listed(w)] /\ UNCHANGED faults
     \/ Fault /\ reading' = [reading EXCEPT ![w] = ListFails(w)]
  /\ UNCHANGED <<docs, fresh, indexed, walk, request, writes, murky>>

(* Slip: the page's words replace what is there. *)
PageReplaces(w) ==
  [k \in Key |-> IF reading[w].page[k] # NoText THEN reading[w].page[k] ELSE indexed[k]]

(* Rows that are there are left alone: a publish or an edit wrote them,     *)
(* perhaps since the page was read.                                         *)
PageIndexed(w) ==
  [k \in Key |-> IF indexed[k] = NoText THEN reading[w].page[k] ELSE indexed[k]]

(* Slip: the end of the walk is stored as a key. *)
WalkAtRest(w) == [cursor |-> reading[w].rest, done |-> walk.done \/ reading[w].rest = 0]

(* completedAt is coalesced; a null cursor is stored as such. *)
WalkSaved(w) ==
  [cursor |-> IF reading[w].rest = 0 THEN LastKey + 1 ELSE reading[w].rest,
   done |-> walk.done \/ reading[w].rest = 0]

SaveStep(w) ==
  /\ reading[w] # Idle /\ reading[w].at = "page"
  /\ \/ indexed' = PageIndexed(w) /\ walk' = WalkSaved(w) /\ UNCHANGED faults
     \/ Fault /\ UNCHANGED <<indexed, walk>>
  /\ reading' = [reading EXCEPT ![w] = Idle]
  /\ UNCHANGED <<docs, fresh, request, writes, murky>>

DocNext ==
  \/ \E h \in Handler : Start(h) \/ ReadRecord(h) \/ WriteRecord(h) \/ IndexRecord(h)
                        \/ PostAnnouncement(h) \/ WriteBack(h)
  \/ \E w \in Walker : ReadWalk(w) \/ ListPage(w) \/ SaveStep(w)

DocSpec == DocInit /\ [][DocNext]_docVars

-----------------------------------------------------------------------------
DocTypeOK ==
  /\ docs \in [Key -> Document \cup {NoDoc}]
  /\ fresh \subseteq Key
  /\ indexed \in [Key -> Stamp \cup {NoText}]
  /\ walk \in [cursor: 1..(LastKey + 1), done: BOOLEAN]
  /\ reading \in [Walker -> Step \cup {Idle}]
  /\ request \in [Handler -> Request \cup {Idle}]
  /\ writes \in Stamp /\ faults \in 0..MaxFaults /\ murky \subseteq Key

(* Search says what the record says: a row is made from the words its       *)
(* document has now, unless a request on that document is under way, its    *)
(* index write was lost, or two writers of the row overlapped.              *)
IndexIsTrue ==
  \A k \in Key \ murky :
    indexed[k] # NoText /\ ~Busy(k) =>
      docs[k] # NoDoc /\ docs[k].words = indexed[k]

(* Search answers only once every older document can be found, however many *)
(* tabs walked the repo, whatever was published, edited and deleted         *)
(* meanwhile, and wherever a step failed.                                   *)
ReadyIsComplete ==
  walk.done => \A k \in Present \ murky : Busy(k) \/ indexed[k] # NoText

(* Edits and announcements of one document do not undo each other: it never *)
(* stops naming an announcement, and its words only become an edit's own.   *)
MergeStep ==
  \A k \in Key : docs[k] # NoDoc /\ docs'[k] # NoDoc =>
    /\ docs[k].announced => docs'[k].announced
    /\ docs'[k].words # docs[k].words =>
         \E h \in Handler : request[h] # Idle /\ request[h].kind = "edit" /\ request[h].key = k
                            /\ request[h].stamp = docs'[k].words
NothingUndone == [][MergeStep]_docVars
=============================================================================
