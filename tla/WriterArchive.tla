---------------------------- MODULE WriterArchive ----------------------------
(***************************************************************************)
(* A writer's public archive: the page's loader, which asks the takedown   *)
(* list, the DID's directory and the search index at once and settles them *)
(* in one order; the page of records it lists, shrunk when too large to    *)
(* read; "Older posts"; the search box; the RSS feed beside it; and the    *)
(* edge cache that keeps all but searches and failures.                    *)
(***************************************************************************)
EXTENDS Integers, FiniteSets, FiniteSetsExt

CONSTANTS
  LastRkey,   \* bound: record keys are 1..LastRkey, a larger one listed sooner
  ArchivePage,\* LIST_PAGE_SIZE
  FeedItems,  \* FEED_ITEMS
  MaxChanged, \* bound: changes to the records, the takedowns and the PDS
  MaxFailed,  \* bound: reads that fail
  NoVisitor, NotStored, NoAnswer, NotAsked, NoIndex, Undirected

ASSUME ArchiveAssumption ==
  /\ {LastRkey, ArchivePage, FeedItems} \subseteq Nat \ {0}
  /\ {MaxChanged, MaxFailed} \subseteq Nat

Rkey == 1..LastRkey
Newest == 0               \* the first page's cursor, and the next one's of the last page
Feed == LastRkey + 1      \* the feed's place in the cache; a cursor's is the cursor
Place == 0..Feed

VARIABLES
  records,  \* rkeys the repo has
  drawn,    \* what the records are like: untitled, wide, said (of the word searched)
  taken,    \* hidden_content: the author, posts
  repoAt,   \* the PDS that has the repo; the other one refuses it
  cachedAt, \* the PDS the identity cache names
  postIndex,\* the search index: complete, rows
  stored,   \* the edge cache
  visitor,  \* the request being answered
  answer,   \* what was just answered, until something else happens
  walk,     \* a reader going from "Older posts" to "Older posts"
  changed, failed

archVars == <<records, drawn, taken, repoAt, cachedAt, postIndex, stored, visitor, answer, walk,
             changed, failed>>

(* wide: a page of two records, one of them wide, is over the response cap. *)
PostDrawing == [untitled : SUBSET Rkey, wide : SUBSET Rkey, titleSays : SUBSET Rkey,
                bodySays : SUBSET Rkey]

(* untouched: history, the rkeys nothing has happened to since it began.    *)
(* blind: history, the takedown check failed, or the author's row changed.  *)
Visitor == [place : Place, search : BOOLEAN, waits : SUBSET {"hidden", "pds", "index"},
            hidden : BOOLEAN, pds : {0, 1, Undirected}, found : (SUBSET Rkey) \cup {NoIndex},
            listed : (SUBSET Rkey) \cup {NotAsked}, refused : BOOLEAN, unread : BOOLEAN,
            untouched : SUBSET Rkey, blind : BOOLEAN]

(* A PDS that refuses because the writer moved: known to have, or not.      *)
Excuse == {"none", "moved", "unreachable"}
PageAnswer == [place : Place, search : BOOLEAN, scope : {"none", "titles", "full"},
           says : {"taken down", "not found", "posts", "nothing yet", "too large",
                   "unavailable", "no match"},
           rows : SUBSET Rkey, lowest : 0..LastRkey, next : 0..LastRkey,
           excused : Excuse, untouched : SUBSET Rkey, blind : BOOLEAN]
Stored == [says : {"posts", "nothing yet", "too large"}, rows : SUBSET Rkey,
           next : 0..LastRkey, excused : Excuse, through : SUBSET Rkey]

(* through: posts there, with a title, all along, the shown pages' age too. *)
Walk == [at : 0..LastRkey, seen : SUBSET Rkey, twice : BOOLEAN, through : SUBSET Rkey,
         over : BOOLEAN]

ASSUME ArchiveNullsAssumption ==
  /\ NoVisitor \notin Visitor /\ NotStored \notin Stored /\ NoAnswer \notin PageAnswer
  /\ NotAsked \notin Place /\ Undirected \notin {0, 1}
  /\ \A S \in SUBSET Rkey : S # NotAsked /\ S # NoIndex

Titled == records \ drawn.untitled

ArchInit ==
  /\ records \in SUBSET Rkey
  /\ drawn \in PostDrawing
  /\ taken = [author |-> FALSE, posts |-> {}]
  /\ repoAt = 0 /\ cachedAt \in {0, Undirected}
  /\ postIndex \in [complete : BOOLEAN, rows : {records}]
  /\ stored = [p \in Place |-> NotStored] /\ visitor = NoVisitor /\ answer = NoAnswer
  /\ walk = [at |-> Newest, seen |-> {}, twice |-> FALSE, through |-> Titled, over |-> FALSE]
  /\ changed = 0 /\ failed = 0

MayFail(fails) == /\ fails => failed < MaxFailed
                  /\ failed' = IF fails THEN failed + 1 ELSE failed

-----------------------------------------------------------------------------
(* What happens meanwhile.                                                  *)

WriterDoes(keys, author) ==
  /\ changed < MaxChanged /\ changed' = changed + 1 /\ answer' = NoAnswer
  /\ visitor' = IF visitor = NoVisitor THEN visitor
                ELSE [visitor EXCEPT !.untouched = @ \ keys, !.blind = @ \/ author]
  /\ stored' = [p \in Place |-> IF stored[p] = NotStored THEN NotStored
                                ELSE [stored[p] EXCEPT !.through = @ \ keys]]
  /\ walk' = [walk EXCEPT !.through = @ \ keys]
  /\ UNCHANGED <<drawn, cachedAt, failed>>

(* A post of another app's is not in the index, and one deleted there stays.*)
Posted(k) ==
  /\ k \notin records /\ records' = records \cup {k} /\ WriterDoes({k}, FALSE)
  /\ \E rows \in {postIndex.rows, postIndex.rows \cup {k}} :
       postIndex' = [postIndex EXCEPT !.rows = rows]
  /\ UNCHANGED <<taken, repoAt>>
Removed(k) ==
  /\ k \in records /\ records' = records \ {k} /\ WriterDoes({k}, FALSE)
  /\ \E rows \in {postIndex.rows, postIndex.rows \ {k}} :
       postIndex' = [postIndex EXCEPT !.rows = rows]
  /\ UNCHANGED <<taken, repoAt>>
TakenDown(k) ==
  /\ k \notin taken.posts /\ taken' = [taken EXCEPT !.posts = @ \cup {k}] /\ WriterDoes({k}, FALSE)
  /\ UNCHANGED <<records, repoAt, postIndex>>
AuthorTakenDown ==
  /\ ~taken.author /\ taken' = [taken EXCEPT !.author = TRUE] /\ WriterDoes({}, TRUE)
  /\ UNCHANGED <<records, repoAt, postIndex>>
Moves ==
  /\ repoAt = 0 /\ repoAt' = 1 /\ WriterDoes({}, FALSE)
  /\ UNCHANGED <<records, taken, postIndex>>

(* A stored page's time is up, or a write's purge takes it.                 *)
Lapses(p) ==
  /\ stored[p] # NotStored /\ stored' = [stored EXCEPT ![p] = NotStored]
  /\ answer' = NoAnswer
  /\ UNCHANGED <<records, drawn, taken, repoAt, cachedAt, postIndex, visitor, walk, changed,
                 failed>>

-----------------------------------------------------------------------------
(* A request: from the cache, or the loader's.                              *)

(* The reader is shown a page.  One that says it could not be read, or that *)
(* a PDS refused, ends the walk with no promise.                            *)
Turns(page) ==
  walk' = [at |-> page.next, seen |-> walk.seen \cup page.rows,
           twice |-> walk.twice \/ walk.seen \cap page.rows # {},
           through |-> IF page.excused = "none" /\ page.says # "too large"
                      THEN walk.through \cap page.through ELSE {},
           over |-> page.next = Newest]

(* Slip: the key drops every parameter.                                     *)
KeyOfPath(place, search) == IF place = Feed THEN Feed ELSE Newest

(* readCacheKey, and isCacheableReadRequest: a search has none.             *)
Key(place, search) == IF search THEN NotAsked ELSE place

Ask(place, search) ==
  /\ visitor = NoVisitor
  /\ place = Feed \/ (place = walk.at /\ ~walk.over)
  /\ search => place = Newest
  /\ LET key == Key(place, search)
         hit == key # NotAsked /\ stored[key] # NotStored
     IN  /\ IF hit /\ place # Feed THEN Turns(stored[key]) ELSE UNCHANGED walk
         /\ visitor' =
              IF hit THEN NoVisitor
              ELSE [place |-> place, search |-> search,
                    waits |-> IF place = Feed THEN {"pds"}
                              ELSE {"hidden", "pds"} \cup (IF search THEN {"index"} ELSE {}),
                    hidden |-> FALSE, pds |-> Undirected, found |-> NoIndex,
                    listed |-> NotAsked, refused |-> FALSE, unread |-> FALSE,
                    untouched |-> Rkey, blind |-> FALSE]
  /\ answer' = NoAnswer
  /\ UNCHANGED <<records, drawn, taken, repoAt, cachedAt, postIndex, stored, changed, failed>>

(* checkHidden, which fails open.                                           *)
ReadHidden ==
  /\ visitor # NoVisitor /\ "hidden" \in visitor.waits
  /\ \E fails \in BOOLEAN :
       /\ MayFail(fails)
       /\ visitor' = [visitor EXCEPT !.waits = @ \ {"hidden"}, !.blind = @ \/ fails,
                                     !.hidden = taken.author /\ ~fails]
  /\ answer' = NoAnswer
  /\ UNCHANGED <<records, drawn, taken, repoAt, cachedAt, postIndex, stored, walk, changed>>

(* resolveReaderPds: the cached one, else the directory's.                  *)
ReadPds ==
  /\ visitor # NoVisitor /\ "pds" \in visitor.waits
  /\ \E fails \in BOOLEAN :
       /\ fails => cachedAt = Undirected
       /\ MayFail(fails)
       /\ LET pds == IF fails THEN Undirected
                     ELSE IF cachedAt = Undirected THEN repoAt ELSE cachedAt
          IN  cachedAt' = pds /\ visitor' = [visitor EXCEPT !.waits = @ \ {"pds"}, !.pds = pds]
  /\ answer' = NoAnswer
  /\ UNCHANGED <<records, drawn, taken, repoAt, postIndex, stored, walk, changed>>

(* Slip: posts taken down one at a time are left in.                        *)
AllHits == IF taken.author THEN {}
           ELSE postIndex.rows \cap (drawn.titleSays \cup drawn.bodySays)

(* runPublicationSearch and searchPosts.                                    *)
Hits == IF taken.author THEN {}
        ELSE (postIndex.rows \cap (drawn.titleSays \cup drawn.bodySays)) \ taken.posts

ReadIndex ==
  /\ visitor # NoVisitor /\ "index" \in visitor.waits
  /\ \E fails \in BOOLEAN :
       /\ MayFail(fails)
       /\ visitor' = [visitor EXCEPT !.waits = @ \ {"index"},
                        !.found = IF fails \/ ~postIndex.complete THEN NoIndex ELSE Hits]
  /\ answer' = NoAnswer
  /\ UNCHANGED <<records, drawn, taken, repoAt, cachedAt, postIndex, stored, walk, changed>>

-----------------------------------------------------------------------------
(* listRecordsPage.                                                         *)

Past(cursor) == {k \in records : cursor = Newest \/ k < cursor}
TopOf(keys, limit) == {k \in keys : Cardinality({j \in keys : j > k}) < limit}
TooLarge(keys) == Cardinality(keys) > 1 /\ keys \cap drawn.wide # {}

(* The page, or one retried smaller: its records and the limit asked for.   *)
ListedPages(cursor, limit) ==
  LET whole == TopOf(Past(cursor), limit)
  IN  IF ~TooLarge(whole) THEN {[keys |-> whole, limit |-> limit]}
      ELSE {[keys |-> TopOf(Past(cursor), smaller), limit |-> smaller] : smaller \in 1..(limit - 1)}

(* Slip: a shrunk page is short, so it is taken for the last.               *)
NextByFirstLimit(page, limit) ==
  IF page.keys # {} /\ Cardinality(page.keys) >= limit THEN Min(page.keys) ELSE Newest

(* A full page has a next one; a short one is the last.                     *)
NextOf(page, limit) ==
  IF page.keys # {} /\ Cardinality(page.keys) >= page.limit THEN Min(page.keys) ELSE Newest

-----------------------------------------------------------------------------
(* The loader's end.                                                        *)

Replies(reply, keep) ==
  /\ answer' = reply /\ visitor' = NoVisitor
  /\ LET page == [says |-> reply.says, rows |-> reply.rows, next |-> reply.next,
                  excused |-> reply.excused, through |-> Titled \cap reply.untouched]
         key  == Key(reply.place, reply.search)
     IN  /\ stored' = IF keep /\ key # NotAsked THEN [stored EXCEPT ![key] = page] ELSE stored
         /\ IF /\ ~reply.search /\ reply.place # Feed
               /\ reply.says \in {"posts", "nothing yet", "too large"}
            THEN Turns(page) ELSE UNCHANGED walk
  /\ UNCHANGED <<records, drawn, taken, repoAt, postIndex, changed>>

BlankPage == [place |-> visitor.place, search |-> visitor.search, scope |-> "none",
          says |-> "not found", rows |-> {}, lowest |-> 0, next |-> Newest, excused |-> "none",
          untouched |-> visitor.untouched, blind |-> visitor.blind]

(* Slip: whichever promise settles first.                                   *)
FirstToSettle == IF "hidden" \notin visitor.waits /\ visitor.hidden THEN "taken down"
                 ELSE IF "pds" \notin visitor.waits /\ visitor.pds = Undirected THEN "not found"
                 ELSE IF visitor.waits = {} THEN "go on" ELSE "wait"

(* The takedown check first, then the directory's error, then the index.    *)
Settled == IF "hidden" \in visitor.waits THEN "wait"
           ELSE IF visitor.hidden THEN "taken down"
           ELSE IF "pds" \in visitor.waits THEN "wait"
           ELSE IF visitor.pds = Undirected THEN "not found"
           ELSE IF "index" \in visitor.waits THEN "wait" ELSE "go on"

TurnedAway ==
  /\ visitor # NoVisitor /\ visitor.place # Feed /\ Settled \in {"taken down", "not found"}
  /\ Replies([BlankPage EXCEPT !.says = Settled], FALSE)
  /\ UNCHANGED <<cachedAt, failed>>

FromIndex ==
  /\ visitor # NoVisitor /\ visitor.place # Feed /\ Settled = "go on" /\ visitor.found # NoIndex
  /\ Replies([BlankPage EXCEPT !.scope = "full", !.rows = visitor.found,
                           !.says = IF visitor.found = {} THEN "no match" ELSE "posts"], FALSE)
  /\ UNCHANGED <<cachedAt, failed>>

(* filterPostsByQuery                                                       *)
TitleHits(keys) == keys \cap drawn.titleSays

(* What a page with these rows says.                                        *)
Shows(rows) ==
  IF visitor.search THEN [BlankPage EXCEPT !.scope = "titles", !.rows = TitleHits(rows),
                            !.says = IF TitleHits(rows) = {} THEN "no match" ELSE "posts"]
  ELSE [BlankPage EXCEPT !.rows = rows, !.says = IF rows = {} THEN "nothing yet" ELSE "posts"]

(* The publication read failing makes the page no less, but not to be kept. *)
FromListing ==
  /\ visitor # NoVisitor /\ visitor.place # Feed /\ Settled = "go on" /\ visitor.found = NoIndex
  /\ visitor.pds = repoAt
  /\ \E page \in ListedPages(visitor.place, ArchivePage), unnamed \in BOOLEAN :
       /\ MayFail(unnamed)
       /\ Replies([Shows(page.keys \ drawn.untitled) EXCEPT
                     !.next = IF visitor.search THEN Newest ELSE NextOf(page, ArchivePage)],
                  ~unnamed /\ ~visitor.search)
  /\ UNCHANGED cachedAt

(* The first record by itself may be over the cap.                          *)
FromLargeListing ==
  /\ visitor # NoVisitor /\ visitor.place # Feed /\ Settled = "go on" /\ visitor.found = NoIndex
  /\ visitor.pds = repoAt /\ TopOf(Past(visitor.place), 1) \cap drawn.wide # {}
  /\ Replies([Shows({}) EXCEPT !.says = "too large"], ~visitor.search)
  /\ UNCHANGED <<cachedAt, failed>>

(* Slip: a listing that fails is an empty one.                              *)
EmptyOnFailure == Shows({})

FailureSaid == [Shows({}) EXCEPT !.says = "unavailable"]

FromNoListing ==
  /\ visitor # NoVisitor /\ visitor.place # Feed /\ Settled = "go on" /\ visitor.found = NoIndex
  /\ MayFail(TRUE)
  /\ Replies(FailureSaid, FALSE)
  /\ UNCHANGED cachedAt

(* Slip: the empty render of a refusal is kept like any other.              *)
KeptIfRefused(moved) == TRUE
KeptUnlessMoved(moved) == ~moved

(* Refused by a PDS the writer has left: empty this once, the new one next. *)
(* With the directory unreachable the refusal stands.                       *)
FromRefusal ==
  /\ visitor # NoVisitor /\ visitor.place # Feed /\ Settled = "go on" /\ visitor.found = NoIndex
  /\ visitor.pds # repoAt
  /\ \E fails \in BOOLEAN :
       /\ MayFail(fails)
       /\ cachedAt' = IF fails THEN cachedAt ELSE repoAt
       /\ Replies([Shows({}) EXCEPT !.excused = IF fails THEN "unreachable" ELSE "moved"],
                  KeptUnlessMoved(~fails) /\ ~visitor.search)

-----------------------------------------------------------------------------
(* The feed: the listing, then the takedowns of the author and of each post.*)

FeedNotFound ==
  /\ visitor # NoVisitor /\ visitor.place = Feed /\ visitor.waits = {} /\ visitor.pds = Undirected
  /\ Replies(BlankPage, FALSE)
  /\ UNCHANGED <<cachedAt, failed>>

ListForFeed ==
  /\ visitor # NoVisitor /\ visitor.place = Feed /\ visitor.waits = {} /\ visitor.pds # Undirected
  /\ visitor.listed = NotAsked
  /\ \/ /\ visitor.pds = repoAt
        /\ \E page \in ListedPages(Newest, FeedItems) :
             visitor' = [visitor EXCEPT !.listed = page.keys]
        /\ UNCHANGED failed
     \/ /\ visitor.pds # repoAt
        /\ visitor' = [visitor EXCEPT !.listed = {}, !.refused = TRUE]
        /\ UNCHANGED failed
     \/ /\ MayFail(TRUE)
        /\ visitor' = [visitor EXCEPT !.listed = {}, !.unread = TRUE]
  /\ answer' = NoAnswer
  /\ UNCHANGED <<records, drawn, taken, repoAt, cachedAt, postIndex, stored, walk, changed>>

(* Slip: the archive's policy, for the author only.                         *)
AuthorOnly(keys, hidden) == keys

(* One IN() query for the author and every post.                            *)
Visible(keys, hidden) == keys \ hidden

(* Slip: a listing that could not be read is an empty feed.                 *)
OnlyRefusalFails == FALSE
ListingFailed == visitor.unread

AnswerFeed ==
  /\ visitor # NoVisitor /\ visitor.place = Feed /\ visitor.listed # NotAsked
  /\ \E fails \in {"nothing", "takedowns", "directory", "publication"} :
       LET entries == visitor.listed \ drawn.untitled
           blind   == [BlankPage EXCEPT !.blind = @ \/ fails = "takedowns"]
           hidden  == IF fails = "takedowns" THEN [author |-> FALSE, posts |-> {}] ELSE taken
           moved   == visitor.refused /\ visitor.pds # repoAt /\ fails # "directory"
       IN  /\ MayFail(fails # "nothing")
           /\ cachedAt' = IF moved /\ ~hidden.author THEN repoAt ELSE cachedAt
           /\ IF hidden.author THEN Replies([blind EXCEPT !.says = "taken down"], FALSE)
              ELSE IF moved \/ ListingFailed
              THEN Replies([blind EXCEPT !.says = "unavailable"], FALSE)
              ELSE Replies([blind EXCEPT !.rows = Visible(entries, hidden.posts), !.says = "posts",
                              !.excused = IF visitor.refused THEN "unreachable" ELSE "none",
                              !.lowest = IF visitor.listed = {} THEN 0 ELSE Min(visitor.listed)],
                           fails # "publication")

-----------------------------------------------------------------------------
ArchNext ==
  \/ \E k \in Rkey : Posted(k) \/ Removed(k) \/ TakenDown(k)
  \/ AuthorTakenDown \/ Moves
  \/ \E p \in Place : Lapses(p)
  \/ \E p \in Place, search \in BOOLEAN : (search => p # Feed) /\ Ask(p, search)
  \/ ReadHidden \/ ReadPds \/ ReadIndex
  \/ TurnedAway \/ FromIndex \/ FromListing \/ FromLargeListing \/ FromNoListing \/ FromRefusal
  \/ FeedNotFound \/ ListForFeed \/ AnswerFeed

ArchSpec == ArchInit /\ [][ArchNext]_archVars

-----------------------------------------------------------------------------
ArchTypeOK ==
  /\ records \subseteq Rkey /\ drawn \in PostDrawing
  /\ taken \in [author : BOOLEAN, posts : SUBSET Rkey]
  /\ repoAt \in {0, 1} /\ cachedAt \in {0, 1, Undirected}
  /\ postIndex \in [complete : BOOLEAN, rows : SUBSET Rkey]
  /\ stored \in [Place -> Stored \cup {NotStored}]
  /\ visitor \in Visitor \cup {NoVisitor} /\ answer \in PageAnswer \cup {NoAnswer}
  /\ walk \in Walk
  /\ changed \in 0..MaxChanged /\ failed \in 0..MaxFailed

(* A hidden author's page is the takedown notice, whatever else fails, and  *)
(* nothing of theirs is shown.                                              *)
TakedownSaid ==
  answer # NoAnswer /\ taken.author /\ ~answer.blind /\ answer.place # Feed =>
    answer.says = "taken down"

(* "Nothing published yet" and "no posts match" are said of a list that was *)
(* read, unless its PDS refused it.                                         *)
EmptyIsEmpty ==
  answer # NoAnswer /\ answer.place = Newest /\ answer.scope # "full" /\ answer.excused = "none" =>
    LET there == Titled \cap answer.untouched
    IN  /\ answer.says = "nothing yet" /\ answer.next = Newest => there = {}
        /\ answer.says = "no match" => TopOf(records, 1) \cap there \cap drawn.titleSays = {}

(* The index's results and the feed show no post taken down.                *)
TakenDownUnseen ==
  answer # NoAnswer /\ ~answer.blind /\ (answer.scope = "full" \/ answer.place = Feed) =>
    answer.rows \cap taken.posts \cap answer.untouched = {}

(* The feed has no gap, and is not emptied by a failure.                    *)
FeedWhole ==
  answer # NoAnswer /\ answer.place = Feed /\ answer.says = "posts"
    /\ ~answer.blind /\ answer.excused = "none" =>
      \A k \in (Titled \cap answer.untouched) \ taken.posts :
        k >= answer.lowest => k \in answer.rows

(* From the first page to the last, kept or fresh, the reader sees every    *)
(* post that was there all along, and none twice.                           *)
WalkWhole == ~walk.twice /\ (walk.over => walk.through \subseteq walk.seen)

(* A kept page never stands for a failure.                                  *)
KeptIsTrue ==
  LET kept == stored[Newest]
  IN  kept # NotStored /\ kept.says = "nothing yet" /\ kept.next = Newest
        /\ kept.excused # "unreachable" => kept.through = {}

ArchiveIsTrue ==
  TakedownSaid /\ EmptyIsEmpty /\ TakenDownUnseen /\ FeedWhole /\ WalkWhole /\ KeptIsTrue
=============================================================================
