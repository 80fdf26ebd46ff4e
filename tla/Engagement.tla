------------------------------ MODULE Engagement ------------------------------
(***************************************************************************)
(* The counts beside the writer's posts: each row's announcement looked up *)
(* on the AppView in batches, behind a cache with one entry per            *)
(* announcement, while people like and writers delete.                     *)
(***************************************************************************)
EXTENDS Integers, FiniteSets

CONSTANTS
  BoardRow,   \* the posts listed
  Uri,        \* announcements in the writer's repo
  BatchSize,  \* MAX_GET_POSTS_BATCH
  CountTTL,   \* ENGAGEMENT_CACHE_TTL_SECONDS, in ticks
  TopCount,   \* bound: likes
  LastTick,   \* bound: the clock
  MaxMissed,  \* bound: batches that fail
  Slowest,    \* FETCH_TIMEOUT_MS for each batch, in ticks: the most a listing takes
  Gone, Silent, NoRef, NoCount, NoBoard

ASSUME EngagementAssumption ==
  /\ {BatchSize, CountTTL} \subseteq Nat \ {0}
  /\ {TopCount, LastTick, MaxMissed, Slowest} \subseteq Nat

Likes == 0..TopCount
LongAgo == -(CountTTL + 1)

VARIABLES
  announced, \* each row's announcement: none, or not in the writer's repo, is NoRef
  likes,     \* what the network counts
  removed,   \* announcements deleted
  lastTrue,  \* history: when each count was last right
  ticks,     \* the clock
  counts,    \* the cache
  board,     \* the listing under way, or shown
  missed     \* failed batches so far

countVars == <<announced, likes, removed, lastTrue, ticks, counts, board, missed>>

(* A count says whose it is: only the join can tell them apart.             *)
CountOf == [of: Uri, n: Likes]

ASSUME AnswersAssumption == Gone # Silent /\ {Gone, Silent} \cap CountOf = {}

(* misses: looked up still.  fresh: answered.  unread: lost with their batch. *)
Board == [misses: SUBSET Uri, fresh: SUBSET Uri, unread: SUBSET Uri,
          byUri: [Uri -> CountOf \cup {Gone, Silent}], began: 0..LastTick]

Kept == [count: CountOf, until: 1..LastTick + CountTTL]

CountInit ==
  /\ announced \in [BoardRow -> Uri \cup {NoRef}]
  /\ likes = [u \in Uri |-> 0] /\ removed = {}
  /\ lastTrue = [u \in Uri |-> [n \in Likes |-> IF n = 0 THEN 0 ELSE LongAgo]]
  /\ ticks = 0
  /\ counts = [u \in Uri |-> NoCount] /\ board = NoBoard /\ missed = 0

-----------------------------------------------------------------------------
(* Meanwhile, on the network.                                               *)

Like(u) ==
  /\ u \notin removed /\ likes[u] < TopCount
  /\ likes' = [likes EXCEPT ![u] = @ + 1]
  /\ lastTrue' = [lastTrue EXCEPT ![u][likes[u] + 1] = ticks]
  /\ UNCHANGED <<announced, removed, ticks, counts, board, missed>>

(* Deleted or taken down; a takedown may be reversed.                       *)
Flip(u) ==
  /\ removed' = IF u \in removed THEN removed \ {u} ELSE removed \cup {u}
  /\ lastTrue' = [lastTrue EXCEPT ![u][likes[u]] = ticks]
  /\ UNCHANGED <<announced, likes, ticks, counts, board, missed>>

Moment ==
  /\ ticks < LastTick /\ ticks' = ticks + 1
  /\ board # NoBoard => ticks < board.began + Slowest
  /\ lastTrue' = [u \in Uri |->
       IF u \in removed THEN lastTrue[u] ELSE [lastTrue[u] EXCEPT ![likes[u]] = ticks + 1]]
  /\ UNCHANGED <<announced, likes, removed, counts, board, missed>>

-----------------------------------------------------------------------------
(* getPostsEngagement                                                       *)

Wanted == {announced[r] : r \in BoardRow} \ {NoRef}
Cached(u) == counts[u] # NoCount /\ ticks < counts[u].until

OpenBoard ==
  /\ board = NoBoard
  /\ LET hits == {u \in Wanted : Cached(u)} IN
       board' = [misses |-> Wanted \ hits, fresh |-> {}, unread |-> {}, began |-> ticks,
                 byUri |-> [u \in Uri |-> IF u \in hits THEN counts[u].count ELSE Silent]]
  /\ UNCHANGED <<announced, likes, removed, lastTrue, ticks, counts, missed>>

Batches == {b \in SUBSET board.misses :
              \/ Cardinality(b) = BatchSize
              \/ b = board.misses /\ Cardinality(b) < BatchSize}

(* Slip: joined in the order asked, not by uri: one that did not come back  *)
(* hands its place to the next.                                             *)
InPlace(u, batch) ==
  IF u \in removed /\ batch \ removed # {} THEN CHOOSE v \in batch \ removed : TRUE ELSE u

(* mapGetPostsResponse *)
Joined(u, batch) == u

(* An announcement that did not come back is gone. *)
CountFor(u, batch) ==
  IF Joined(u, batch) \in removed THEN Gone ELSE [of |-> Joined(u, batch), n |-> likes[Joined(u, batch)]]

(* fetchPostsBatch: a failed one is passed over. *)
BatchFails ==
  /\ board # NoBoard /\ missed < MaxMissed /\ missed' = missed + 1
  /\ \E batch \in Batches \ {{}} :
       board' = [board EXCEPT !.misses = @ \ batch, !.unread = @ \cup batch]
  /\ UNCHANGED <<announced, likes, removed, lastTrue, ticks, counts>>

BatchAnswers ==
  /\ board # NoBoard
  /\ \E batch \in Batches \ {{}} :
       board' = [board EXCEPT !.misses = @ \ batch, !.fresh = @ \cup batch,
                   !.byUri = [u \in Uri |-> IF u \in batch THEN CountFor(u, batch) ELSE @[u]]]
  /\ UNCHANGED <<announced, likes, removed, lastTrue, ticks, counts, missed>>

(* The counts are kept once every batch is in; that one is gone is not.     *)
CloseBoard ==
  /\ board # NoBoard /\ board.misses = {} /\ board' = NoBoard
  /\ counts' = [u \in Uri |->
       IF u \in board.fresh /\ board.byUri[u] # Gone
       THEN [count |-> board.byUri[u], until |-> ticks + CountTTL] ELSE counts[u]]
  /\ UNCHANGED <<announced, likes, removed, lastTrue, ticks, missed>>

CountNext ==
  \/ \E u \in Uri : Like(u) \/ Flip(u)
  \/ Moment \/ OpenBoard \/ BatchFails \/ BatchAnswers \/ CloseBoard

CountSpec == CountInit /\ [][CountNext]_countVars

-----------------------------------------------------------------------------
CountTypeOK ==
  /\ announced \in [BoardRow -> Uri \cup {NoRef}]
  /\ likes \in [Uri -> Likes] /\ removed \subseteq Uri
  /\ lastTrue \in [Uri -> [Likes -> LongAgo..LastTick]] /\ ticks \in 0..LastTick
  /\ counts \in [Uri -> Kept \cup {NoCount}]
  /\ board \in Board \cup {NoBoard} /\ missed \in 0..MaxMissed

(* What a listing shows beside a post. *)
Says(r) == IF announced[r] = NoRef THEN Silent ELSE board.byUri[announced[r]]

(* A count beside a post is its own announcement's, and was right no longer *)
(* ago than the cache keeps one and the listing that kept it took; a post   *)
(* is silent when it has none, or the call that would have told is out or   *)
(* failed, and at no other time.                                            *)
CountsAreTheirs ==
  board # NoBoard =>
    \A r \in BoardRow :
      /\ Says(r) \notin {Gone, Silent} =>
           /\ Says(r).of = announced[r]
           /\ lastTrue[announced[r]][Says(r).n] + CountTTL + Slowest > board.began
      /\ Says(r) = Silent => announced[r] \in board.misses \cup board.unread \cup {NoRef}
=============================================================================
