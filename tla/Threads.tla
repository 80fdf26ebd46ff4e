-------------------------------- MODULE Threads --------------------------------
(***************************************************************************)
(* Bringing Bluesky threads over: the list of the writer's threads, read   *)
(* off their feed page by page and kept a minute at the edge, and one      *)
(* thread made into a draft.  Both spend from an hourly budget.            *)
(*                                                                         *)
(* A post is its place in time.  The feed shows the writer's own posts,    *)
(* newest first; a thread's view shows a deleted reply as a dead node.     *)
(***************************************************************************)
EXTENDS Integers, FiniteSets, FiniteSetsExt

CONSTANTS
  Asker,       \* picker pages
  LastPost,    \* bound: posts the writer makes
  FeedLimit,   \* THREAD_FEED_PAGE_LIMIT
  FeedPages,   \* MAX_THREAD_DISCOVERY_PAGES
  ListCap,     \* MAX_THREADS_LISTED
  ThreadCap,   \* MAX_THREAD_POSTS
  Depth,       \* THREAD_DEPTH
  HourlyReads, \* MAX_THREAD_FETCHES_PER_HOUR
  MaxBroken,   \* bound: AppView calls that fail
  NoPost, NoAsk, NoList, NoPiece,
  Opener, Stranger \* what a post answers, besides another of one's own

ASSUME ThreadsAssumption ==
  /\ {LastPost, FeedLimit, FeedPages, ListCap, ThreadCap, HourlyReads} \subseteq Nat \ {0}
  /\ Depth \in Nat /\ MaxBroken \in Nat /\ IsFiniteSet(Asker)
  /\ 1 < ThreadCap /\ ThreadCap <= Depth \* THREAD_DEPTH = MAX_THREAD_POSTS

Post == 1..LastPost

VARIABLES
  answers, \* what each post made answers
  gone,    \* posts deleted
  reads,   \* reads on record this hour
  ask,     \* each page's request
  kept,    \* the list the edge holds
  lists,   \* the list each page shows
  piece,   \* the thread last assembled
  broken   \* failed calls so far

threadVars == <<answers, gone, reads, ask, kept, lists, piece, broken>>

(* of: the thread asked for, or NoPost for the list.  seen: posts read off  *)
(* the feed.  through: history, the posts that were up all along.           *)
Ask == [at: {"count", "spend", "feed", "thread"}, of: Post \cup {NoPost},
        cursor: 1..LastPost + 1, page: 0..FeedPages - 1, seen: SUBSET Post, through: SUBSET Post]

List == [roots: SUBSET Post, cut: BOOLEAN, partial: BOOLEAN, through: SUBSET Post]

(* left: history, what answered the last post, by the writer or unreadable, *)
(* and did not come along.                                                  *)
Piece == [spine: SUBSET Post, cut: BOOLEAN, left: SUBSET Post]

ASSUME ThreadsNullsAssumption ==
  /\ NoAsk \notin Ask /\ NoList \notin List /\ NoPiece \notin Piece
  /\ {NoPost, Opener, Stranger} \cap Post = {} /\ NoPost \notin {Opener, Stranger}

ThreadInit ==
  /\ answers = [p \in Post |-> NoPost] /\ gone = {}
  /\ reads = 0
  /\ ask = [a \in Asker |-> NoAsk]
  /\ kept = NoList /\ lists = [a \in Asker |-> NoList] /\ piece = NoPiece
  /\ broken = 0

Made == {p \in Post : answers[p] # NoPost}
Live == Made \ gone

-----------------------------------------------------------------------------
(* The writer, on Bluesky.                                                  *)

MakePost ==
  /\ Made # Post
  /\ \E target \in Live \cup {Opener, Stranger} :
       answers' = [answers EXCEPT ![Cardinality(Made) + 1] = target]
  /\ UNCHANGED <<gone, reads, ask, kept, lists, piece, broken>>

DeleteOwn(p) ==
  /\ p \in Live
  /\ gone' = gone \cup {p}
  /\ ask' = [a \in Asker |-> IF ask[a] = NoAsk THEN NoAsk ELSE [ask[a] EXCEPT !.through = @ \ {p}]]
  /\ UNCHANGED <<answers, reads, kept, lists, piece, broken>>

-----------------------------------------------------------------------------
(* A request: the budget, then the AppView.                                 *)

AskList(a) ==
  /\ ask[a] = NoAsk
  /\ IF kept # NoList THEN lists' = [lists EXCEPT ![a] = kept] /\ UNCHANGED ask
     ELSE /\ ask' = [ask EXCEPT ![a] = [at |-> "count", of |-> NoPost, cursor |-> LastPost + 1,
                page |-> 0, seen |-> {}, through |-> {}]]
          /\ lists' = [lists EXCEPT ![a] = NoList]
  /\ piece' = NoPiece
  /\ UNCHANGED <<answers, gone, reads, kept, broken>>

AskThread(a, p) ==
  /\ ask[a] = NoAsk /\ lists[a] # NoList /\ p \in lists[a].roots
  /\ ask' = [ask EXCEPT ![a] = [at |-> "count", of |-> p, cursor |-> LastPost + 1,
         page |-> 0, seen |-> {}, through |-> {}]]
  /\ piece' = NoPiece
  /\ UNCHANGED <<answers, gone, reads, kept, lists, broken>>

AskAt(a, where) == ask[a] # NoAsk /\ ask[a].at = where
Done(a) == ask' = [ask EXCEPT ![a] = NoAsk]

(* countRecentImportFetches *)
CountReads(a) ==
  /\ AskAt(a, "count")
  /\ IF reads >= HourlyReads THEN Done(a) ELSE ask' = [ask EXCEPT ![a].at = "spend"]
  /\ UNCHANGED <<answers, gone, reads, kept, lists, piece, broken>>

(* insertImportFetch: before the read, so a failed one has cost it too.     *)
SpendRead(a) ==
  /\ AskAt(a, "spend")
  /\ reads' = reads + 1
  /\ ask' = [ask EXCEPT ![a].at = IF ask[a].of = NoPost THEN "feed" ELSE "thread",
                        ![a].through = Live]
  /\ UNCHANGED <<answers, gone, kept, lists, piece, broken>>

(* pruneImportFetches, an hour on. *)
HourPasses ==
  /\ reads > 0 /\ reads' = 0
  /\ UNCHANGED <<answers, gone, ask, kept, lists, piece, broken>>

Broken == broken < MaxBroken /\ broken' = broken + 1

-----------------------------------------------------------------------------
(* The list.                                                                *)

Earliest(s) == IF s = {} THEN NoPost ELSE Min(s)

(* Walked from the root among these posts, the earliest answer at each step. *)
Spine(root, posts) ==
  LET to[n \in 1..ThreadCap] ==
        IF n = 1 THEN root
        ELSE IF to[n - 1] = NoPost THEN NoPost ELSE Earliest({q \in posts : answers[q] = to[n - 1]})
  IN  {to[n] : n \in 1..ThreadCap} \ {NoPost}

Newest(s, n) == {p \in s : Cardinality({q \in s : q >= p}) <= n}

(* discoverThreads *)
Roots(seen) ==
  Newest({p \in seen : answers[p] = Opener /\ Cardinality(Spine(p, seen)) >= 2}, ListCap)

Keep(a, list) ==
  /\ lists' = [lists EXCEPT ![a] = list]
  /\ kept' = IF list.partial THEN kept ELSE list
  /\ Done(a)

Found(a, seen, cut, partial) ==
  [roots |-> Roots(seen), cut |-> cut, partial |-> partial, through |-> ask[a].through]

(* Slip: a walk that lost a page is not marked so. *)
LostSilently(a) == Keep(a, Found(a, ask[a].seen, FALSE, TRUE))

(* The first page lost is an error; a later one ends the walk, and is said. *)
PageLost(a) == Keep(a, Found(a, ask[a].seen, TRUE, TRUE))

FeedFails(a) ==
  /\ AskAt(a, "feed") /\ Broken
  /\ IF ask[a].page = 0 THEN Done(a) /\ UNCHANGED <<kept, lists>> ELSE PageLost(a)
  /\ UNCHANGED <<answers, gone, reads, piece>>

FeedPage(a) ==
  LET older == {p \in Live : p < ask[a].cursor}
      page  == Newest(older, FeedLimit)
      seen  == ask[a].seen \cup page
  IN
  /\ AskAt(a, "feed")
  /\ IF older = page THEN Keep(a, Found(a, seen, FALSE, FALSE))
     ELSE IF ask[a].page = FeedPages - 1 THEN Keep(a, Found(a, seen, TRUE, FALSE))
     ELSE /\ ask' = [ask EXCEPT ![a].cursor = Min(page), ![a].page = @ + 1, ![a].seen = seen]
          /\ UNCHANGED <<kept, lists>>
  /\ UNCHANGED <<answers, gone, reads, piece, broken>>

(* THREAD_DISCOVERY_CACHE_TTL_SECONDS *)
ListExpires ==
  /\ kept # NoList /\ kept' = NoList
  /\ UNCHANGED <<answers, gone, reads, ask, lists, piece, broken>>

-----------------------------------------------------------------------------
(* One thread.                                                              *)

RepliesTo(p) == {q \in Made : answers[q] = p}

(* How far under the root; the view goes Depth levels down.                 *)
Level(p) ==
  LET up[q \in Post] == IF answers[q] \in Post /\ answers[q] < q THEN 1 + up[answers[q]] ELSE 0
  IN  up[p]
ShownUnder(p) == {q \in RepliesTo(p) : Level(q) <= Depth}

(* nextSelfReply, and assembleThread around it. *)
Assembled(root) ==
  LET spine == Spine(root, {q \in Live : Level(q) <= Depth})
      last  == Max(spine)
      dead  == ShownUnder(last) \cap gone # {}
      more  == Cardinality(spine) = ThreadCap /\ ShownUnder(last) \ gone # {}
  IN  [spine |-> spine, cut |-> dead \/ more, left |-> RepliesTo(last)]

(* A root that is gone, or alone by now, is refused: no draft comes of it.  *)
AssembleThread(a) ==
  /\ AskAt(a, "thread")
  /\ LET made == Assembled(ask[a].of) IN
       piece' = IF ask[a].of \in gone \/ Cardinality(made.spine) < 2 THEN NoPiece ELSE made
  /\ Done(a)
  /\ UNCHANGED <<answers, gone, reads, kept, lists, broken>>

ThreadFails(a) ==
  /\ AskAt(a, "thread") /\ Broken /\ Done(a)
  /\ UNCHANGED <<answers, gone, reads, kept, lists, piece>>

ThreadNext ==
  \/ MakePost \/ HourPasses \/ ListExpires
  \/ \E p \in Post : DeleteOwn(p)
  \/ \E a \in Asker :
       \/ AskList(a) \/ CountReads(a) \/ SpendRead(a) \/ FeedFails(a) \/ FeedPage(a)
       \/ AssembleThread(a) \/ ThreadFails(a)
       \/ \E p \in Post : AskThread(a, p)

ThreadSpec == ThreadInit /\ [][ThreadNext]_threadVars

-----------------------------------------------------------------------------
ThreadTypeOK ==
  /\ answers \in [Post -> Post \cup {Opener, Stranger, NoPost}]
  /\ gone \subseteq Made
  /\ reads \in 0..HourlyReads + Cardinality(Asker) - 1
  /\ ask \in [Asker -> Ask \cup {NoAsk}]
  /\ kept \in List \cup {NoList} /\ lists \in [Asker -> List \cup {NoList}]
  /\ piece \in Piece \cup {NoPiece}
  /\ broken \in 0..MaxBroken

(* A list that does not say it was cut shows every thread of the writer's   *)
(* that was up while it was read, short of the cap; and no list that lost   *)
(* a page is kept for the next visit.                                       *)
ListsWhole ==
  /\ kept # NoList => ~kept.partial
  /\ \A a \in Asker : lists[a] # NoList /\ ~lists[a].cut /\ Cardinality(lists[a].roots) < ListCap =>
       \A p, q \in lists[a].through :
         answers[p] = Opener /\ answers[q] = p => p \in lists[a].roots

(* A draft that does not say it was cut ends where the thread ended.        *)
PiecesWhole == piece # NoPiece /\ ~piece.cut => piece.left = {}

ThreadsWhole == ListsWhole /\ PiecesWhole
=============================================================================
