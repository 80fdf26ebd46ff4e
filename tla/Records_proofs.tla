---------------------------- MODULE Records_proofs ----------------------------
(***************************************************************************)
(* Proofs about what readers and writers are shown: the replies under a    *)
(* post, the counts beside one, the subscription control and the reader    *)
(* page, for any number of replies, posts, announcements, controls and     *)
(* places the edge keeps pages in, and any times the caches keep things;   *)
(* and about the writer's publication record, for any number of requests.  *)
(* The last section carries these results, and those about documents and   *)
(* the editor, to the composition the run checks.                          *)
(***************************************************************************)
EXTENDS MCRecords, Documents_proofs, Editor_proofs, WellFoundedInduction

-----------------------------------------------------------------------------
(* The conversation.                                                        *)

Down(r) == replies[r] \in {"hidden", "deleted"}

(* The edge's conversation is no older than its time, nor the page's copy   *)
(* than its own; neither outlives a takedown by more than the times they    *)
(* are kept.                                                                *)
TalkFresh ==
  talk # NoTalk =>
    /\ talk.until <= clock + RepliesTTL
    /\ \A r \in talk.rows : Down(r) => talk.until <= hidAt[r] + RepliesTTL
StoredFresh ==
  stored # NoTalk =>
    /\ stored.until <= clock + PageTTL
    /\ \A r \in stored.rows : Down(r) => stored.until <= hidAt[r] + RepliesTTL + PageTTL
ViewFresh == view # NoView => view.at <= clock

TalkInv == TalkTypeOK /\ TalkFresh /\ StoredFresh /\ ViewFresh /\ HiddenStaysHidden

(* What an answer may be: nothing in it was taken down when it was read, or *)
(* the conversation it is a copy of still has some time to run.             *)
Rendering == [rows: SUBSET ReplyId, more: BOOLEAN]
InTime(answer) == \A r \in answer.rows : Down(r) => clock < hidAt[r] + RepliesTTL

LEMMA TalkBounds ==
  /\ RepliesTTL \in Nat \ {0} /\ PageTTL \in Nat \ {0}
  /\ LastReply \in Nat /\ LastTime \in Nat /\ MaxDropped \in Nat
BY ConversationAssumption

LEMMA TalkInitInv == TalkInit => TalkInv
<1> SUFFICES ASSUME TalkInit PROVE TalkInv
  OBVIOUS
<1>1. TalkTypeOK
  BY TalkBounds DEF TalkInit, TalkTypeOK, Clock
<1> QED BY <1>1 DEF TalkInit, TalkInv, TalkFresh, StoredFresh, ViewFresh, HiddenStaysHidden

(* A page rendered of such an answer keeps the bounds.                      *)
LEMMA ShowKeeps ==
  ASSUME TalkInv, NEW answer \in Rendering, InTime(answer), Show(answer),
         UNCHANGED <<replies, hidAt, clock>>
  PROVE  /\ view' \in View /\ stored' \in Talk
         /\ StoredFresh' /\ ViewFresh' /\ HiddenStaysHidden'
<1>1. clock \in Clock /\ hidAt \in [ReplyId -> Clock] /\ answer.rows \subseteq ReplyId
  BY DEF TalkInv, TalkTypeOK, Rendering
<1>2. view' = [rows |-> answer.rows, more |-> answer.more, at |-> clock]
      /\ stored' = [rows |-> answer.rows, more |-> answer.more, until |-> clock + PageTTL]
  BY DEF Show
<1>3. clock + PageTTL \in 1..LastTime + RepliesTTL + PageTTL
  BY <1>1, TalkBounds DEF Clock
<1>4. view' \in View /\ stored' \in Talk
  BY <1>1, <1>2, <1>3 DEF View, Talk, Rendering
<1>5. \A r \in answer.rows : Down(r) =>
        /\ clock + PageTTL <= hidAt[r] + RepliesTTL + PageTTL
        /\ clock < hidAt[r] + RepliesTTL + PageTTL
  <2> SUFFICES ASSUME NEW r \in answer.rows, Down(r)
               PROVE  /\ clock + PageTTL <= hidAt[r] + RepliesTTL + PageTTL
                      /\ clock < hidAt[r] + RepliesTTL + PageTTL
    OBVIOUS
  <2>1. clock < hidAt[r] + RepliesTTL /\ hidAt[r] \in Nat /\ clock \in Nat
    BY <1>1 DEF InTime, Clock
  <2> QED BY <2>1, TalkBounds
<1>6. StoredFresh'
  BY <1>1, <1>2, <1>5, TalkBounds DEF StoredFresh, Down, Clock
<1>7. ViewFresh'
  BY <1>1, <1>2 DEF ViewFresh, Clock
<1>8. HiddenStaysHidden'
  BY <1>2, <1>5 DEF HiddenStaysHidden, Down
<1> QED BY <1>4, <1>6, <1>7, <1>8

LEMMA TakeDownKeeps == ASSUME TalkInv, NEW r \in ReplyId, TakeDown(r) PROVE TalkInv'
<1> USE DEF TalkInv
<1>1. /\ replies[r] = "up" /\ hidAt' = [hidAt EXCEPT ![r] = clock]
      /\ UNCHANGED <<root, clock, talk, stored, view, dropped>>
      /\ \E how \in {"hidden", "deleted"} : replies' = [replies EXCEPT ![r] = how]
  BY DEF TakeDown
<1>2. TalkTypeOK'
  BY <1>1 DEF TalkTypeOK
<1>3. clock \in Nat /\ hidAt'[r] = clock
  BY <1>1, TalkBounds DEF TalkTypeOK, Clock
<1>4. \A q \in ReplyId : q # r => Down(q)' = Down(q) /\ hidAt'[q] = hidAt[q]
  BY <1>1 DEF TalkTypeOK, Down
<1>5. TalkFresh'
  <2> SUFFICES ASSUME talk # NoTalk
               PROVE  /\ talk.until <= clock + RepliesTTL
                      /\ \A q \in talk.rows : Down(q)' => talk.until <= hidAt'[q] + RepliesTTL
    BY <1>1 DEF TalkFresh
  <2>1. talk.rows \subseteq ReplyId
    BY DEF TalkTypeOK, Talk
  <2> QED BY <1>3, <1>4, <2>1 DEF TalkFresh
<1>6. StoredFresh'
  <2> SUFFICES ASSUME stored # NoTalk
               PROVE  /\ stored.until <= clock + PageTTL
                      /\ \A q \in stored.rows :
                           Down(q)' => stored.until <= hidAt'[q] + RepliesTTL + PageTTL
    BY <1>1 DEF StoredFresh
  <2>1. stored.rows \subseteq ReplyId /\ stored.until \in Nat
    BY TalkBounds DEF TalkTypeOK, Talk
  <2>2. stored.until <= clock + RepliesTTL + PageTTL
    BY <1>3, <2>1, TalkBounds DEF StoredFresh
  <2> QED BY <1>3, <1>4, <2>1, <2>2 DEF StoredFresh
<1>7. HiddenStaysHidden'
  <2> SUFFICES ASSUME view # NoView, NEW q \in view.rows, Down(q)'
               PROVE  view.at < hidAt'[q] + RepliesTTL + PageTTL
    BY <1>1 DEF HiddenStaysHidden, Down
  <2>1. view.rows \subseteq ReplyId /\ view.at \in Nat /\ view.at <= clock
    BY TalkBounds DEF TalkTypeOK, View, Clock, ViewFresh
  <2>2. view.at < clock + RepliesTTL + PageTTL
    BY <1>3, <2>1, TalkBounds
  <2> QED BY <1>3, <1>4, <2>1, <2>2 DEF HiddenStaysHidden, Down
<1> QED BY <1>1, <1>2, <1>5, <1>6, <1>7 DEF ViewFresh

LEMMA ElapseKeeps == ASSUME TalkInv, Elapse PROVE TalkInv'
<1> USE DEF TalkInv
<1>1. clock' \in Clock /\ clock' = clock + 1 /\ clock \in Nat
  BY TalkBounds DEF Elapse, TalkTypeOK, Clock
<1>2. TalkTypeOK'
  BY <1>1 DEF Elapse, TalkTypeOK
<1>3. TalkFresh'
  <2>1. talk # NoTalk => talk.until \in Nat
    BY TalkBounds DEF TalkTypeOK, Talk
  <2> QED BY <1>1, <2>1, TalkBounds DEF Elapse, TalkFresh, Down
<1>4. StoredFresh'
  <2>1. stored # NoTalk => stored.until \in Nat
    BY TalkBounds DEF TalkTypeOK, Talk
  <2> QED BY <1>1, <2>1, TalkBounds DEF Elapse, StoredFresh, Down
<1>5. ViewFresh'
  <2>1. view # NoView => view.at \in Nat
    BY TalkBounds DEF TalkTypeOK, View, Clock
  <2> QED BY <1>1, <2>1 DEF Elapse, ViewFresh
<1> QED BY <1>2, <1>3, <1>4, <1>5 DEF Elapse, HiddenStaysHidden

LEMMA PostReplyKeeps == ASSUME TalkInv, NEW r \in ReplyId, PostReply(r) PROVE TalkInv'
<1> USE DEF TalkInv
<1>1. TalkTypeOK'
  BY DEF PostReply, TalkTypeOK
<1>2. \A q \in ReplyId : Down(q)' => Down(q)
  BY DEF PostReply, TalkTypeOK, Down
<1>3. /\ talk # NoTalk => talk.rows \subseteq ReplyId
      /\ stored # NoTalk => stored.rows \subseteq ReplyId
      /\ view # NoView => view.rows \subseteq ReplyId
  BY DEF TalkTypeOK, Talk, View
<1>4. TalkFresh' /\ StoredFresh' /\ ViewFresh'
  BY <1>2, <1>3 DEF PostReply, TalkFresh, StoredFresh, ViewFresh
<1>5. HiddenStaysHidden'
  BY <1>2, <1>3 DEF PostReply, HiddenStaysHidden, Down
<1> QED BY <1>1, <1>4, <1>5

LEMMA ReadStoredKeeps == ASSUME TalkInv, ReadStored PROVE TalkInv'
<1> USE DEF TalkInv
<1>1. /\ stored # NoTalk /\ clock < stored.until
      /\ view' = [rows |-> stored.rows, more |-> stored.more, at |-> clock]
      /\ UNCHANGED <<replies, hidAt, root, clock, talk, stored, dropped>>
  BY DEF ReadStored, Holds
<1>2. stored \in Talk /\ clock \in Clock /\ hidAt \in [ReplyId -> Clock]
  BY <1>1 DEF TalkTypeOK
<1>3. view' \in View
  BY <1>1, <1>2 DEF View, Talk
<1>4. TalkTypeOK'
  BY <1>1, <1>3 DEF TalkTypeOK
<1>5. TalkFresh' /\ StoredFresh'
  BY <1>1 DEF TalkFresh, StoredFresh, Down
<1>6. ViewFresh'
  BY <1>1, <1>2 DEF ViewFresh, Clock
<1>7. HiddenStaysHidden'
  <2> SUFFICES ASSUME NEW q \in stored.rows, Down(q)
               PROVE  clock < hidAt[q] + RepliesTTL + PageTTL
    BY <1>1 DEF HiddenStaysHidden, Down
  <2>1. stored.until <= hidAt[q] + RepliesTTL + PageTTL
    BY <1>1 DEF StoredFresh
  <2>2. stored.until \in Nat /\ hidAt[q] \in Nat /\ clock \in Nat
    BY <1>2, TalkBounds DEF Talk, Clock
  <2> QED BY <1>1, <2>1, <2>2, TalkBounds
<1> QED BY <1>4, <1>5, <1>6, <1>7

LEMMA RenderKeptKeeps == ASSUME TalkInv, RenderKept PROVE TalkInv'
<1>1. /\ talk # NoTalk /\ clock < talk.until /\ Show(talk)
      /\ UNCHANGED <<replies, hidAt, root, clock, talk, dropped>>
  BY DEF RenderKept, Holds
<1> DEFINE answer == [rows |-> talk.rows, more |-> talk.more]
<1>2. talk \in Talk /\ clock \in Clock /\ hidAt \in [ReplyId -> Clock]
  BY <1>1 DEF TalkInv, TalkTypeOK
<1>3. answer \in Rendering /\ Show(answer)
  BY <1>1, <1>2 DEF Rendering, Talk, Show
<1>4. InTime(answer)
  <2> SUFFICES ASSUME NEW r \in talk.rows, Down(r) PROVE clock < hidAt[r] + RepliesTTL
    BY DEF InTime
  <2>1. talk.until <= hidAt[r] + RepliesTTL
    BY <1>1 DEF TalkInv, TalkFresh
  <2>2. talk.until \in Nat /\ hidAt[r] \in Nat /\ clock \in Nat
    BY <1>2, TalkBounds DEF Talk, Clock
  <2> QED BY <1>1, <2>1, <2>2, TalkBounds
<1>5. /\ view' \in View /\ stored' \in Talk
      /\ StoredFresh' /\ ViewFresh' /\ HiddenStaysHidden'
  <2> HIDE DEF answer
  <2> QED BY <1>1, <1>3, <1>4, ShowKeeps
<1>6. TalkTypeOK'
  BY <1>1, <1>5 DEF TalkInv, TalkTypeOK
<1>7. TalkFresh'
  BY <1>1 DEF TalkInv, TalkFresh, Down
<1> QED BY <1>5, <1>6, <1>7 DEF TalkInv

LEMMA RenderReadKeeps == ASSUME TalkInv, RenderRead PROVE TalkInv'
<1> DEFINE read == Normalized(IF root THEN Visible(SentBack) ELSE {})
<1>1. UNCHANGED <<replies, hidAt, root, clock>>
  BY DEF RenderRead
<1>2. Nothing \in Rendering /\ WayIn \in Rendering /\ InTime(Nothing) /\ InTime(WayIn)
  BY DEF Nothing, WayIn, Rendering, InTime
<1>3. read \in Rendering /\ \A r \in read.rows : replies[r] = "up"
  <2>1. \A s : Normalized(s) = Nothing \/
               Normalized(s) = [rows |-> OldestFew(s), more |-> Cardinality(s) > RenderCap]
    BY DEF Normalized
  <2>2. \A s : OldestFew(s) \subseteq s
    BY DEF OldestFew
  <2>3. \A s : (Cardinality(s) > RenderCap) \in BOOLEAN
    OBVIOUS
  <2>4. PICK s : s \subseteq Visible(SentBack) /\ read = Normalized(s)
    <3>1. {} \subseteq Visible(SentBack) /\ Visible(SentBack) \subseteq Visible(SentBack)
      OBVIOUS
    <3> QED BY <3>1
  <2>5. s \subseteq ReplyId /\ \A r \in s : replies[r] = "up"
    BY <2>4 DEF Visible, SentBack
  <2> HIDE DEF read
  <2>6. CASE read = Nothing
    BY <1>2, <2>6 DEF Nothing
  <2>7. CASE read = [rows |-> OldestFew(s), more |-> Cardinality(s) > RenderCap]
    BY <2>2, <2>3, <2>5, <2>7 DEF Rendering
  <2> QED BY <2>1, <2>4, <2>6, <2>7
<1>4. /\ dropped' \in 0..MaxDropped
      /\ \/ (Show(Nothing) \/ Show(WayIn)) /\ UNCHANGED talk
         \/ /\ Show(read)
            /\ \/ UNCHANGED talk
               \/ talk' = [rows |-> read.rows, more |-> read.more, until |-> clock + RepliesTTL]
  BY TalkBounds DEF RenderRead, TalkInv, TalkTypeOK
<1> HIDE DEF read
<1>5. InTime(read)
  BY <1>3 DEF InTime, Down
<1>6. /\ view' \in View /\ stored' \in Talk
      /\ StoredFresh' /\ ViewFresh' /\ HiddenStaysHidden'
  BY <1>1, <1>2, <1>3, <1>4, <1>5, ShowKeeps
<1>7. talk' \in Talk \cup {NoTalk} /\ TalkFresh'
  <2>1. CASE UNCHANGED talk
    BY <1>1, <2>1 DEF TalkInv, TalkTypeOK, TalkFresh, Down
  <2>2. CASE talk' = [rows |-> read.rows, more |-> read.more, until |-> clock + RepliesTTL]
    <3>1. clock \in Nat /\ clock + RepliesTTL \in 1..LastTime + RepliesTTL + PageTTL
      BY TalkBounds DEF TalkInv, TalkTypeOK, Clock
    <3>2. talk' \in Talk
      BY <1>3, <2>2, <3>1 DEF Talk, Rendering
    <3>3. talk'.until <= clock' + RepliesTTL
      BY <1>1, <2>2, <3>1, TalkBounds
    <3>4. \A r \in talk'.rows : ~Down(r)'
      BY <1>1, <1>3, <2>2 DEF Down
    <3> QED BY <3>2, <3>3, <3>4 DEF TalkFresh
  <2> QED BY <1>4, <2>1, <2>2
<1>8. TalkTypeOK'
  BY <1>1, <1>4, <1>6, <1>7 DEF TalkInv, TalkTypeOK
<1> QED BY <1>6, <1>7, <1>8 DEF TalkInv

LEMMA TalkNextInv == TalkInv /\ [TalkNext]_talkVars => TalkInv'
<1> SUFFICES ASSUME TalkInv, [TalkNext]_talkVars PROVE TalkInv'
  OBVIOUS
<1>1. ASSUME NEW r \in ReplyId, PostReply(r) \/ TakeDown(r) PROVE TalkInv'
  BY <1>1, PostReplyKeeps, TakeDownKeeps
<1>2. CASE DeleteRoot
  <2>1. TalkTypeOK'
    BY <1>2 DEF DeleteRoot, TalkInv, TalkTypeOK
  <2> QED BY <1>2, <2>1
          DEF DeleteRoot, TalkInv, TalkFresh, StoredFresh, ViewFresh, HiddenStaysHidden, Down
<1>3. CASE Elapse \/ ReadStored \/ RenderKept \/ RenderRead
  BY <1>3, ElapseKeeps, ReadStoredKeeps, RenderKeptKeeps, RenderReadKeeps
<1>4. CASE UNCHANGED talkVars
  BY <1>4 DEF talkVars, TalkInv, TalkTypeOK, TalkFresh, StoredFresh, ViewFresh,
              HiddenStaysHidden, Down
<1> QED BY <1>1, <1>2, <1>3, <1>4 DEF TalkNext

(* The page, the conversation and the views of it keep their types.         *)
THEOREM TalkTypeCorrect == TalkSpec => []TalkTypeOK
<1>1. TalkInv => TalkTypeOK
  BY DEF TalkInv
<1> QED BY TalkInitInv, TalkNextInv, <1>1, PTL DEF TalkSpec

(* A reply taken down is seen no longer than the two caches keep their      *)
(* copies, however long those are and whatever calls fail.                  *)
THEOREM HiddenStaysHiddenHolds == TalkSpec => []HiddenStaysHidden
<1>1. TalkInv => HiddenStaysHidden
  BY DEF TalkInv
<1> QED BY TalkInitInv, TalkNextInv, <1>1, PTL DEF TalkSpec
-----------------------------------------------------------------------------
(* The counts.                                                              *)

(* A count was never right later than now, and one that is up is right now. *)
TrueByNow ==
  \A u \in Uri :
    /\ \A n \in Likes : lastTrue[u][n] <= ticks
    /\ u \notin removed => lastTrue[u][likes[u]] = ticks

(* A count kept is its announcement's own, and was right when the listing   *)
(* that kept it was under way.                                              *)
KeptTrue ==
  \A u \in Uri : counts[u] # NoCount =>
    /\ counts[u].count.of = u
    /\ counts[u].until <= lastTrue[u][counts[u].count.n] + CountTTL + Slowest

Counted(u) == board.byUri[u] \notin {Gone, Silent}

(* A count listed is the announcement's own, and no older than the cache    *)
(* keeps one; one just answered was right since the listing began; a silent *)
(* announcement is still to be asked about, or was in a call that failed.   *)
Presented(u) ==
  /\ Counted(u) =>
       /\ board.byUri[u].of = u
       /\ lastTrue[u][board.byUri[u].n] + CountTTL + Slowest > board.began
       /\ u \in board.fresh => lastTrue[u][board.byUri[u].n] >= board.began
  /\ u \in board.fresh => board.byUri[u] # Silent
  /\ u \in Wanted /\ board.byUri[u] = Silent => u \in board.misses \cup board.unread

BoardTrue ==
  board # NoBoard =>
    /\ board.began <= ticks /\ ticks <= board.began + Slowest
    /\ \A u \in Uri : Presented(u)

CountInv == CountTypeOK /\ TrueByNow /\ KeptTrue /\ BoardTrue

LEMMA CountBounds ==
  /\ BatchSize \in Nat \ {0} /\ CountTTL \in Nat \ {0}
  /\ TopCount \in Nat /\ LastTick \in Nat /\ MaxMissed \in Nat /\ Slowest \in Nat
BY EngagementAssumption

LEMMA CountIsNoAnswer == \A c \in CountOf : c \notin {Gone, Silent}
BY AnswersAssumption

LEMMA BoardFields ==
  ASSUME CountTypeOK, board # NoBoard
  PROVE  /\ board \in Board /\ board.began \in Nat /\ board.misses \subseteq Uri
         /\ \A u \in Uri : Counted(u) => board.byUri[u] \in CountOf /\ board.byUri[u].n \in Likes
<1>1. board \in Board
  BY DEF CountTypeOK
<1>2. board.began \in Nat /\ board.misses \subseteq Uri
  BY <1>1, CountBounds DEF Board
<1>3. ASSUME NEW u \in Uri, Counted(u) PROVE board.byUri[u] \in CountOf /\ board.byUri[u].n \in Likes
  <2>1. board.byUri[u] \in CountOf \cup {Gone, Silent}
    BY <1>1 DEF Board
  <2> QED BY <1>3, <2>1 DEF Counted, CountOf
<1> QED BY <1>1, <1>2, <1>3

LEMMA TrueTimes ==
  ASSUME CountTypeOK, NEW u \in Uri, NEW n \in Likes
  PROVE  lastTrue[u][n] \in Int
BY CountBounds DEF CountTypeOK, LongAgo

(* A count only becomes true later, so what was fresh enough stays so.      *)
LEMMA Grown ==
  ASSUME CountInv, CountTypeOK', UNCHANGED <<announced, counts, board>>,
         \A u \in Uri, n \in Likes : lastTrue'[u][n] >= lastTrue[u][n],
         board # NoBoard => board.began <= ticks' /\ ticks' <= board.began + Slowest
  PROVE  KeptTrue' /\ BoardTrue'
<1>1. KeptTrue'
  <2> SUFFICES ASSUME NEW u \in Uri, counts[u] # NoCount
               PROVE  /\ counts[u].count.of = u
                      /\ counts[u].until <= lastTrue'[u][counts[u].count.n] + CountTTL + Slowest
    BY DEF KeptTrue
  <2>1. counts[u].count.n \in Likes /\ counts[u].until \in Nat
    BY CountBounds DEF CountInv, CountTypeOK, Kept, CountOf
  <2>2. /\ lastTrue[u][counts[u].count.n] \in Int /\ lastTrue'[u][counts[u].count.n] \in Int
        /\ lastTrue'[u][counts[u].count.n] >= lastTrue[u][counts[u].count.n]
    BY <2>1, TrueTimes, CountBounds DEF CountInv, CountTypeOK, LongAgo
  <2> QED BY <2>1, <2>2, CountBounds DEF CountInv, KeptTrue
<1>2. ASSUME board # NoBoard, NEW u \in Uri PROVE Presented(u)'
  <2>1. Presented(u) /\ Wanted' = Wanted
    BY <1>2 DEF CountInv, BoardTrue, Wanted
  <2>2. ASSUME Counted(u)
        PROVE  /\ lastTrue'[u][board.byUri[u].n] + CountTTL + Slowest > board.began
               /\ u \in board.fresh => lastTrue'[u][board.byUri[u].n] >= board.began
    <3>1. board.byUri[u].n \in Likes /\ board.began \in Nat
      BY <1>2, <2>2, BoardFields DEF CountInv
    <3>2. /\ lastTrue[u][board.byUri[u].n] \in Int /\ lastTrue'[u][board.byUri[u].n] \in Int
          /\ lastTrue'[u][board.byUri[u].n] >= lastTrue[u][board.byUri[u].n]
      BY <1>2, <3>1, TrueTimes, CountBounds DEF CountInv, CountTypeOK, LongAgo
    <3>3. /\ lastTrue[u][board.byUri[u].n] + CountTTL + Slowest > board.began
          /\ u \in board.fresh => lastTrue[u][board.byUri[u].n] >= board.began
      BY <2>1, <2>2 DEF Presented
    <3> QED BY <3>1, <3>2, <3>3, CountBounds
  <2> QED BY <2>1, <2>2 DEF Presented, Counted
<1>3. BoardTrue'
  BY <1>2 DEF BoardTrue
<1> QED BY <1>1, <1>3

LEMMA CountInitInv == CountInit => CountInv
<1> SUFFICES ASSUME CountInit PROVE CountInv
  OBVIOUS
<1>1. 0 \in Likes /\ LongAgo \in LongAgo..LastTick /\ 0 \in LongAgo..LastTick /\ LongAgo <= 0
  BY CountBounds DEF Likes, LongAgo
<1>2. CountTypeOK
  BY <1>1, CountBounds DEF CountInit, CountTypeOK
<1>3. TrueByNow
  BY <1>1 DEF CountInit, TrueByNow
<1> QED BY <1>2, <1>3 DEF CountInit, CountInv, KeptTrue, BoardTrue

LEMMA LikeKeeps == ASSUME CountInv, NEW u \in Uri, Like(u) PROVE CountInv'
<1>1. /\ likes[u] + 1 \in Likes /\ likes[u] \in Likes /\ u \notin removed
      /\ likes' = [likes EXCEPT ![u] = @ + 1]
      /\ lastTrue' = [lastTrue EXCEPT ![u][likes[u] + 1] = ticks]
      /\ UNCHANGED <<announced, removed, ticks, counts, board, missed>>
  BY CountBounds DEF Like, CountInv, CountTypeOK, Likes
<1>2. ticks \in LongAgo..LastTick
  BY CountBounds DEF CountInv, CountTypeOK, LongAgo
<1>3. CountTypeOK'
  BY <1>1, <1>2 DEF CountInv, CountTypeOK
<1>4. \A v \in Uri, n \in Likes :
        lastTrue'[v][n] = IF v = u /\ n = likes[u] + 1 THEN ticks ELSE lastTrue[v][n]
  BY <1>1 DEF CountInv, CountTypeOK
<1>5. \A v \in Uri, n \in Likes : lastTrue'[v][n] >= lastTrue[v][n]
  BY <1>2, <1>4, TrueTimes DEF CountInv, TrueByNow
<1>6. TrueByNow'
  <2> SUFFICES ASSUME NEW v \in Uri
               PROVE  /\ \A n \in Likes : lastTrue'[v][n] <= ticks
                      /\ v \notin removed => lastTrue'[v][likes'[v]] = ticks
    BY <1>1 DEF TrueByNow
  <2>1. \A n \in Likes : lastTrue'[v][n] <= ticks
    BY <1>2, <1>4 DEF CountInv, TrueByNow
  <2>2. CASE v = u
    <3>1. likes'[v] = likes[u] + 1
      BY <1>1, <2>2 DEF CountInv, CountTypeOK
    <3> QED BY <1>1, <1>4, <2>1, <2>2, <3>1
  <2>3. CASE v # u
    <3>1. likes'[v] = likes[v] /\ likes[v] \in Likes
      BY <1>1, <2>3 DEF CountInv, CountTypeOK
    <3> QED BY <1>4, <2>1, <2>3, <3>1 DEF CountInv, TrueByNow
  <2> QED BY <2>2, <2>3
<1>7. KeptTrue' /\ BoardTrue'
  BY <1>1, <1>3, <1>5, Grown DEF CountInv, BoardTrue
<1> QED BY <1>3, <1>6, <1>7 DEF CountInv

LEMMA FlipKeeps == ASSUME CountInv, NEW u \in Uri, Flip(u) PROVE CountInv'
<1>1. /\ lastTrue' = [lastTrue EXCEPT ![u][likes[u]] = ticks] /\ likes[u] \in Likes
      /\ UNCHANGED <<announced, likes, ticks, counts, board, missed>>
      /\ removed' \subseteq Uri /\ \A v \in Uri : v # u => (v \in removed' <=> v \in removed)
  BY DEF Flip, CountInv, CountTypeOK
<1>2. ticks \in LongAgo..LastTick
  BY CountBounds DEF CountInv, CountTypeOK, LongAgo
<1>3. CountTypeOK'
  BY <1>1, <1>2 DEF CountInv, CountTypeOK
<1>4. \A v \in Uri, n \in Likes :
        lastTrue'[v][n] = IF v = u /\ n = likes[u] THEN ticks ELSE lastTrue[v][n]
  BY <1>1 DEF CountInv, CountTypeOK
<1>5. \A v \in Uri, n \in Likes : lastTrue'[v][n] >= lastTrue[v][n]
  BY <1>2, <1>4, TrueTimes DEF CountInv, TrueByNow
<1>6. TrueByNow'
  <2> SUFFICES ASSUME NEW v \in Uri
               PROVE  /\ \A n \in Likes : lastTrue'[v][n] <= ticks
                      /\ v \notin removed' => lastTrue'[v][likes[v]] = ticks
    BY <1>1 DEF TrueByNow
  <2>1. likes[v] \in Likes
    BY DEF CountInv, CountTypeOK
  <2> QED BY <1>1, <1>2, <1>4, <2>1 DEF CountInv, TrueByNow
<1>7. KeptTrue' /\ BoardTrue'
  BY <1>1, <1>3, <1>5, Grown DEF CountInv, BoardTrue
<1> QED BY <1>3, <1>6, <1>7 DEF CountInv

LEMMA MomentKeeps == ASSUME CountInv, Moment PROVE CountInv'
<1>1. /\ ticks < LastTick /\ ticks' = ticks + 1 /\ ticks \in Nat
      /\ UNCHANGED <<announced, likes, removed, counts, board, missed>>
  BY CountBounds DEF Moment, CountInv, CountTypeOK
<1>2. ticks + 1 \in LongAgo..LastTick /\ ticks' \in 0..LastTick
  BY <1>1, CountBounds DEF LongAgo
<1>3. /\ lastTrue' \in [Uri -> [Likes -> LongAgo..LastTick]]
      /\ \A v \in Uri, n \in Likes :
           lastTrue'[v][n] = IF v \notin removed /\ n = likes[v] THEN ticks + 1 ELSE lastTrue[v][n]
  <2>1. lastTrue' = [v \in Uri |->
          IF v \in removed THEN lastTrue[v] ELSE [lastTrue[v] EXCEPT ![likes[v]] = ticks + 1]]
    BY DEF Moment
  <2>2. \A v \in Uri : lastTrue[v] \in [Likes -> LongAgo..LastTick] /\ likes[v] \in Likes
    BY DEF CountInv, CountTypeOK
  <2> QED BY <1>2, <2>1, <2>2
<1>4. CountTypeOK'
  BY <1>1, <1>2, <1>3 DEF CountInv, CountTypeOK
<1>5. \A v \in Uri, n \in Likes : lastTrue'[v][n] >= lastTrue[v][n] /\ lastTrue'[v][n] <= ticks + 1
  <2> SUFFICES ASSUME NEW v \in Uri, NEW n \in Likes
               PROVE  lastTrue'[v][n] >= lastTrue[v][n] /\ lastTrue'[v][n] <= ticks + 1
    OBVIOUS
  <2>1. lastTrue[v][n] \in Int /\ lastTrue[v][n] <= ticks
    BY TrueTimes DEF CountInv, TrueByNow
  <2> QED BY <1>1, <1>3, <2>1
<1>6. TrueByNow'
  <2> SUFFICES ASSUME NEW v \in Uri
               PROVE  /\ \A n \in Likes : lastTrue'[v][n] <= ticks + 1
                      /\ v \notin removed => lastTrue'[v][likes[v]] = ticks + 1
    BY <1>1 DEF TrueByNow
  <2>1. likes[v] \in Likes
    BY DEF CountInv, CountTypeOK
  <2> QED BY <1>3, <1>5, <2>1
<1>7. board # NoBoard => board.began <= ticks' /\ ticks' <= board.began + Slowest
  <2> SUFFICES ASSUME board # NoBoard PROVE board.began <= ticks' /\ ticks' <= board.began + Slowest
    OBVIOUS
  <2>1. board.began \in Nat /\ board.began <= ticks /\ ticks < board.began + Slowest
    BY BoardFields DEF CountInv, BoardTrue, Moment
  <2> QED BY <1>1, <2>1, CountBounds
<1>8. KeptTrue' /\ BoardTrue'
  BY <1>1, <1>4, <1>5, <1>7, Grown
<1> QED BY <1>4, <1>6, <1>8 DEF CountInv

LEMMA OpenBoardKeeps == ASSUME CountInv, OpenBoard PROVE CountInv'
<1> DEFINE hits == {u \in Wanted : Cached(u)}
           begun == [misses |-> Wanted \ hits, fresh |-> {}, unread |-> {}, began |-> ticks,
                      byUri |-> [u \in Uri |-> IF u \in hits THEN counts[u].count ELSE Silent]]
<1>1. board' = begun /\ UNCHANGED <<announced, likes, removed, lastTrue, ticks, counts, missed>>
  BY DEF OpenBoard
<1>2. Wanted \subseteq Uri /\ ticks \in 0..LastTick
  BY DEF CountInv, CountTypeOK, Wanted
<1>3. ASSUME NEW u \in hits
      PROVE  /\ u \in Uri /\ counts[u] \in Kept /\ counts[u].count \in CountOf
             /\ ticks < counts[u].until /\ counts[u] # NoCount
  BY <1>2 DEF Cached, CountInv, CountTypeOK, Kept
<1>4. begun \in Board
  <2>1. [u \in Uri |-> IF u \in hits THEN counts[u].count ELSE Silent]
          \in [Uri -> CountOf \cup {Gone, Silent}]
    BY <1>3
  <2>2. Wanted \ hits \subseteq Uri
    BY <1>2
  <2> HIDE DEF hits
  <2> QED BY <1>2, <2>1, <2>2 DEF Board
<1>5. CountTypeOK'
  BY <1>1, <1>4 DEF CountInv, CountTypeOK
<1>6. ASSUME NEW u \in Uri PROVE Presented(u)'
  <2>1. CASE u \in hits
    <3>1. board'.byUri[u] = counts[u].count /\ board'.began = ticks /\ board'.fresh = {}
      BY <1>1, <2>1
    <3>2. /\ counts[u].count.of = u /\ counts[u].count.n \in Likes /\ counts[u].until \in Nat
          /\ counts[u].until <= lastTrue[u][counts[u].count.n] + CountTTL + Slowest
      BY <1>3, <2>1, CountBounds DEF CountInv, KeptTrue, Kept, CountOf
    <3>3. lastTrue[u][counts[u].count.n] + CountTTL + Slowest > ticks
      <4>1. lastTrue[u][counts[u].count.n] \in Int
        BY <3>2, TrueTimes DEF CountInv
      <4> QED BY <1>2, <1>3, <2>1, <3>2, <4>1, CountBounds
    <3>4. counts[u].count # Silent
      BY <1>3, <2>1, CountIsNoAnswer
    <3> HIDE DEF hits, begun
    <3> QED BY <1>1, <3>1, <3>2, <3>3, <3>4 DEF Presented, Counted
  <2>2. CASE u \notin hits
    <3>1. board'.byUri[u] = Silent /\ board'.fresh = {} /\ board'.misses = Wanted \ hits
      BY <1>1, <2>2
    <3>2. Wanted' = Wanted
      BY <1>1 DEF Wanted
    <3> HIDE DEF hits, begun
    <3> QED BY <2>2, <3>1, <3>2 DEF Presented, Counted
  <2> QED BY <2>1, <2>2
<1>7. BoardTrue'
  <2>1. board'.began = ticks /\ ticks' = ticks
    BY <1>1
  <2> QED BY <1>2, <1>6, <2>1, CountBounds DEF BoardTrue
<1>8. TrueByNow' /\ KeptTrue'
  BY <1>1 DEF CountInv, TrueByNow, KeptTrue
<1> QED BY <1>5, <1>7, <1>8 DEF CountInv

LEMMA BatchFailsKeeps == ASSUME CountInv, BatchFails PROVE CountInv'
<1>1. PICK batch \in Batches \ {{}} :
        board' = [board EXCEPT !.misses = @ \ batch, !.unread = @ \cup batch]
  BY DEF BatchFails
<1>2. /\ board # NoBoard /\ missed' \in 0..MaxMissed
      /\ UNCHANGED <<announced, likes, removed, lastTrue, ticks, counts>>
  BY CountBounds DEF BatchFails, CountInv, CountTypeOK
<1>3. board \in Board /\ batch \subseteq board.misses
  BY <1>2, BoardFields DEF CountInv, Batches
<1>4. board' \in Board
  BY <1>1, <1>3 DEF Board
<1>5. CountTypeOK'
  BY <1>2, <1>4 DEF CountInv, CountTypeOK
<1>6. /\ board'.byUri = board.byUri /\ board'.began = board.began /\ board'.fresh = board.fresh
      /\ board'.misses \cup board'.unread = board.misses \cup board.unread
  BY <1>1, <1>3 DEF Board
<1>7. \A u \in Uri : Presented(u)'
  BY <1>2, <1>6 DEF Presented, Counted, Wanted, CountInv, BoardTrue
<1>8. TrueByNow' /\ KeptTrue' /\ BoardTrue'
  BY <1>2, <1>6, <1>7 DEF CountInv, TrueByNow, KeptTrue, BoardTrue
<1> QED BY <1>5, <1>8 DEF CountInv

LEMMA BatchAnswersKeeps == ASSUME CountInv, BatchAnswers PROVE CountInv'
<1>1. PICK batch \in Batches \ {{}} :
        board' = [board EXCEPT !.misses = @ \ batch, !.fresh = @ \cup batch,
                    !.byUri = [u \in Uri |-> IF u \in batch THEN CountFor(u, batch) ELSE @[u]]]
  BY DEF BatchAnswers
<1>2. board # NoBoard /\ UNCHANGED <<announced, likes, removed, lastTrue, ticks, counts, missed>>
  BY DEF BatchAnswers
<1>3. board \in Board /\ batch \subseteq board.misses /\ batch \subseteq Uri /\ board.began \in Nat
  BY <1>2, BoardFields DEF CountInv, Batches
<1>4. \A u \in Uri : CountFor(u, batch) = IF u \in removed THEN Gone ELSE [of |-> u, n |-> likes[u]]
  BY DEF CountFor, Joined
<1>5. \A u \in Uri : [of |-> u, n |-> likes[u]] \in CountOf /\ likes[u] \in Likes
  BY DEF CountInv, CountTypeOK, CountOf
<1>6. /\ board'.misses = board.misses \ batch /\ board'.fresh = board.fresh \cup batch
      /\ board'.unread = board.unread /\ board'.began = board.began
      /\ board'.byUri = [u \in Uri |-> IF u \in batch THEN CountFor(u, batch) ELSE board.byUri[u]]
  BY <1>1, <1>3 DEF Board
<1>7. board' \in Board
  <2>1. [u \in Uri |-> IF u \in batch THEN CountFor(u, batch) ELSE board.byUri[u]]
          \in [Uri -> CountOf \cup {Gone, Silent}]
    BY <1>3, <1>4, <1>5 DEF Board
  <2> QED BY <1>1, <1>3, <2>1 DEF Board
<1>8. CountTypeOK'
  BY <1>2, <1>7 DEF CountInv, CountTypeOK
<1>9. ASSUME NEW u \in Uri PROVE Presented(u)'
  <2>1. Presented(u) /\ Wanted' = Wanted
    BY <1>2 DEF CountInv, BoardTrue, Wanted
  <2>2. CASE u \notin batch
    BY <1>2, <1>6, <2>1, <2>2 DEF Presented, Counted
  <2>3. CASE u \in batch /\ u \in removed
    BY <1>4, <1>6, <2>3, AnswersAssumption DEF Presented, Counted
  <2>4. CASE u \in batch /\ u \notin removed
    <3>1. board'.byUri[u] = [of |-> u, n |-> likes[u]] /\ board'.byUri[u] # Silent
      BY <1>4, <1>5, <1>6, <2>4, CountIsNoAnswer
    <3>2. lastTrue[u][likes[u]] = ticks /\ ticks \in Nat /\ board.began <= ticks
      BY <1>2, <2>4, CountBounds DEF CountInv, CountTypeOK, TrueByNow, BoardTrue
    <3>3. /\ lastTrue[u][likes[u]] + CountTTL + Slowest > board.began
          /\ lastTrue[u][likes[u]] >= board.began
      BY <1>3, <3>2, CountBounds
    <3> QED BY <1>2, <1>6, <3>1, <3>3 DEF Presented, Counted
  <2> QED BY <2>2, <2>3, <2>4
<1>10. TrueByNow' /\ KeptTrue'
  BY <1>2 DEF CountInv, TrueByNow, KeptTrue
<1>11. BoardTrue'
  BY <1>2, <1>6, <1>9 DEF CountInv, BoardTrue
<1> QED BY <1>8, <1>10, <1>11 DEF CountInv

LEMMA CloseBoardKeeps == ASSUME CountInv, CloseBoard PROVE CountInv'
<1>1. /\ board # NoBoard /\ board' = NoBoard
      /\ UNCHANGED <<announced, likes, removed, lastTrue, ticks, missed>>
      /\ counts' = [u \in Uri |->
           IF u \in board.fresh /\ board.byUri[u] # Gone
           THEN [count |-> board.byUri[u], until |-> ticks + CountTTL] ELSE counts[u]]
  BY DEF CloseBoard
<1>2. ticks \in Nat /\ ticks + CountTTL \in 1..LastTick + CountTTL
  BY CountBounds DEF CountInv, CountTypeOK
<1>3. ASSUME NEW u \in Uri, u \in board.fresh, board.byUri[u] # Gone
      PROVE  /\ board.byUri[u] \in CountOf /\ board.byUri[u].of = u /\ board.byUri[u].n \in Likes
             /\ ticks + CountTTL <= lastTrue[u][board.byUri[u].n] + CountTTL + Slowest
  <2>1. Presented(u) /\ board.began <= ticks /\ ticks <= board.began + Slowest
    BY <1>1 DEF CountInv, BoardTrue
  <2>2. Counted(u)
    BY <1>3, <2>1 DEF Presented, Counted
  <2>3. /\ board.byUri[u] \in CountOf /\ board.byUri[u].n \in Likes /\ board.began \in Nat
        /\ board.byUri[u].of = u /\ lastTrue[u][board.byUri[u].n] >= board.began
    BY <1>1, <1>3, <2>1, <2>2, BoardFields DEF CountInv, Presented
  <2>4. lastTrue[u][board.byUri[u].n] \in Int
    BY <2>3, TrueTimes DEF CountInv
  <2> QED BY <1>2, <2>1, <2>3, <2>4, CountBounds
<1>4. CountTypeOK'
  <2>1. counts' \in [Uri -> Kept \cup {NoCount}]
    BY <1>1, <1>2, <1>3 DEF CountInv, CountTypeOK, Kept
  <2> QED BY <1>1, <2>1 DEF CountInv, CountTypeOK
<1>5. KeptTrue'
  <2> SUFFICES ASSUME NEW u \in Uri, counts'[u] # NoCount
               PROVE  /\ counts'[u].count.of = u
                      /\ counts'[u].until <= lastTrue[u][counts'[u].count.n] + CountTTL + Slowest
    BY <1>1 DEF KeptTrue
  <2>1. CASE u \in board.fresh /\ board.byUri[u] # Gone
    BY <1>1, <1>3, <2>1
  <2>2. CASE ~(u \in board.fresh /\ board.byUri[u] # Gone)
    BY <1>1, <2>2 DEF CountInv, KeptTrue
  <2> QED BY <2>1, <2>2
<1>6. TrueByNow' /\ BoardTrue'
  BY <1>1 DEF CountInv, TrueByNow, BoardTrue
<1> QED BY <1>4, <1>5, <1>6 DEF CountInv

LEMMA CountNextInv == CountInv /\ [CountNext]_countVars => CountInv'
<1> SUFFICES ASSUME CountInv, [CountNext]_countVars PROVE CountInv'
  OBVIOUS
<1>1. ASSUME NEW u \in Uri, Like(u) \/ Flip(u) PROVE CountInv'
  BY <1>1, LikeKeeps, FlipKeeps
<1>2. CASE Moment \/ OpenBoard \/ BatchFails \/ BatchAnswers \/ CloseBoard
  BY <1>2, MomentKeeps, OpenBoardKeeps, BatchFailsKeeps, BatchAnswersKeeps, CloseBoardKeeps
<1>3. CASE UNCHANGED countVars
  BY <1>3 DEF countVars, CountInv, CountTypeOK, TrueByNow, KeptTrue, BoardTrue, Presented, Counted,
              Wanted
<1> QED BY <1>1, <1>2, <1>3 DEF CountNext

LEMMA CountInvImplies == CountInv => CountsAreTheirs
<1> SUFFICES ASSUME CountInv, board # NoBoard, NEW r \in BoardRow
             PROVE  /\ Says(r) \notin {Gone, Silent} =>
                         /\ Says(r).of = announced[r]
                         /\ lastTrue[announced[r]][Says(r).n] + CountTTL + Slowest > board.began
                    /\ Says(r) = Silent => announced[r] \in board.misses \cup board.unread \cup {NoRef}
  BY DEF CountsAreTheirs
<1>1. CASE announced[r] = NoRef
  BY <1>1 DEF Says
<1>2. CASE announced[r] # NoRef
  <2>1. announced[r] \in Uri /\ announced[r] \in Wanted /\ Says(r) = board.byUri[announced[r]]
    BY <1>2 DEF CountInv, CountTypeOK, Wanted, Says
  <2>2. Presented(announced[r])
    BY <2>1 DEF CountInv, BoardTrue
  <2> QED BY <2>1, <2>2 DEF Presented, Counted
<1> QED BY <1>1, <1>2

(* The clock, the cache and the listing keep their types.                   *)
THEOREM CountTypeCorrect == CountSpec => []CountTypeOK
<1>1. CountInv => CountTypeOK
  BY DEF CountInv
<1> QED BY CountInitInv, CountNextInv, <1>1, PTL DEF CountSpec

(* A count beside a post is its own announcement's and recent, whatever is  *)
(* liked, deleted or lost while it is listed.                               *)
THEOREM CountsAreTheirsHolds == CountSpec => []CountsAreTheirs
BY CountInitInv, CountNextInv, CountInvImplies, PTL DEF CountSpec

-----------------------------------------------------------------------------
(* The subscription control.                                                *)

(* One record at most, unless one was made blind: a subscribe about to make *)
(* one without being blind found none, and none was made since.             *)
OneRecord == ~doubled => \A r, s \in records : r = s

(* Whether the control is right about the records. *)
RightAbout(what) == (what = "on" /\ records # {}) \/ (what = "off" /\ records = {})

(* What a call knows: the record it means to delete is there, if nothing    *)
(* was written since it began, and so is what it is about to tell.          *)
CallSound(c) ==
  LET k == call[c] IN
  /\ k.at = "write" => k.kind \in {"subscribe", "unsubscribe"}
  /\ k.at = "write" /\ k.kind = "subscribe" /\ ~k.blind => records = {}
  /\ k.at = "write" /\ k.kind = "unsubscribe" =>
       k.found # NoCall /\ (k.calm => k.found \in records)
  /\ k.at = "answer" => k.answer # "none"
  /\ k.at = "answer" /\ k.calm /\ k.answer # "failed" /\ ~doubled => RightAbout(k.answer)

CallsSound == \A c \in Control : call[c] # NoCall => CallSound(c)

(* Nothing was heard that the control does not show yet. *)
Unheard(c) == call[c] = NoCall \/ call[c].at # "answer" \/ call[c].answer = "failed"

ControlsSound ==
  \A c \in Control :
    control[c].sure /\ Unheard(c) /\ ~doubled => RightAbout(control[c].shown)

SubInv == SubTypeOK /\ OneRecord /\ CallsSound /\ ControlsSound

LEMMA SubBounds ==
  /\ MaxPressed \in Nat /\ MaxFailed \in Nat /\ NoCall \notin Record /\ NoCall \notin Call
BY SubscriptionsAssumption, NoCallAssumption

LEMMA SubInitInv == SubInit => SubInv
<1> SUFFICES ASSUME SubInit PROVE SubInv
  OBVIOUS
<1>0. 0 \in 0..MaxPressed /\ 0 \in 0..MaxFailed
  BY SubBounds
<1>1. SubTypeOK
  BY <1>0 DEF SubInit, SubTypeOK, ControlState
<1>2. OneRecord /\ CallsSound /\ ControlsSound
  BY DEF SubInit, OneRecord, CallsSound, ControlsSound
<1> QED BY <1>1, <1>2 DEF SubInv

(* A step of one call that writes nothing leaves the other calls and what   *)
(* the controls show as they were.                                          *)
LEMMA CallMoves ==
  ASSUME SubInv, NEW c \in Control, NEW k \in Call, call' = [call EXCEPT ![c] = k],
         CallSound(c)', UNCHANGED <<records, control, doubled>>,
         Unheard(c)
  PROVE  call' \in [Control -> Call \cup {NoCall}] /\ CallsSound' /\ ControlsSound' /\ OneRecord'
<1> USE DEF SubInv
<1>1. call' \in [Control -> Call \cup {NoCall}] /\ call'[c] = k /\ k # NoCall
  BY SubBounds DEF SubTypeOK
<1>2. \A d \in Control : d # c => call'[d] = call[d]
  BY DEF SubTypeOK
<1>3. CallsSound'
  <2> SUFFICES ASSUME NEW d \in Control, call'[d] # NoCall PROVE CallSound(d)'
    BY DEF CallsSound
  <2>1. CASE d = c
    BY <2>1
  <2>2. CASE d # c
    BY <1>2, <2>2 DEF CallsSound, CallSound, RightAbout
  <2> QED BY <2>1, <2>2
<1>4. ControlsSound'
  <2> SUFFICES ASSUME NEW d \in Control, control[d].sure, Unheard(d)', ~doubled
               PROVE  RightAbout(control[d].shown)
    BY DEF ControlsSound, RightAbout
  <2>1. Unheard(d)
    <3>1. CASE d = c
      BY <3>1
    <3>2. CASE d # c
      BY <1>2, <3>2 DEF Unheard
    <3> QED BY <3>1, <3>2
  <2> QED BY <2>1 DEF ControlsSound
<1> QED BY <1>1, <1>3, <1>4 DEF OneRecord

LEMMA SendsKeeps ==
  ASSUME SubInv, NEW c \in Control, call[c] = NoCall,
         NEW kind \in {"ask", "subscribe", "unsubscribe"}, Sends(c, kind),
         UNCHANGED <<records, unused, control, failed, doubled>>, pressed' \in 0..MaxPressed
  PROVE  SubInv'
<1> DEFINE k == [kind |-> kind, at |-> "lookup", found |-> NoCall,
                 answer |-> "none", blind |-> FALSE, calm |-> TRUE]
<1>1. k \in Call /\ call' = [call EXCEPT ![c] = k]
  BY DEF Sends, Call
<1>2. k.at = "lookup" /\ call'[c] = k
  BY <1>1 DEF SubInv, SubTypeOK
<1>3. CallSound(c)'
  BY <1>2 DEF CallSound
<1> HIDE DEF k
<1>4. call' \in [Control -> Call \cup {NoCall}] /\ CallsSound' /\ ControlsSound' /\ OneRecord'
  BY <1>1, <1>2, <1>3, CallMoves DEF Unheard
<1> QED BY <1>4 DEF SubInv, SubTypeOK

LEMMA MountKeeps == ASSUME SubInv, NEW c \in Control, Mount(c) PROVE SubInv'
BY SendsKeeps DEF Mount, SubInv, SubTypeOK

LEMMA PressKeeps == ASSUME SubInv, NEW c \in Control, Press(c) PROVE SubInv'
<1>1. pressed' \in 0..MaxPressed
  BY SubBounds DEF Press, SubInv, SubTypeOK
<1>2. (IF control[c].shown = "off" THEN "subscribe" ELSE "unsubscribe")
        \in {"ask", "subscribe", "unsubscribe"}
  OBVIOUS
<1> QED BY <1>1, <1>2, SendsKeeps DEF Press

(* The lookup tells a call what is there: whether to write, and over what.  *)
LEMMA LookUpKeeps == ASSUME SubInv, NEW c \in Control, LookUp(c) PROVE SubInv'
<1> DEFINE k == call[c]
<1>0. k \in Call /\ k # NoCall /\ k.at = "lookup" /\ UNCHANGED <<records, unused, control, pressed, doubled>>
  BY DEF LookUp, SubInv, SubTypeOK
<1>1. failed' \in 0..MaxFailed
  BY SubBounds DEF LookUp, Failing, SubInv, SubTypeOK
<1>2. ASSUME NEW b \in Call, call' = [call EXCEPT ![c] = b], CallSound(c)' PROVE SubInv'
  <2>1. Unheard(c)
    BY <1>0 DEF Unheard
  <2>2. call' \in [Control -> Call \cup {NoCall}] /\ CallsSound' /\ ControlsSound' /\ OneRecord'
    BY <1>0, <1>2, <2>1, CallMoves
  <2> QED BY <1>0, <1>1, <2>2 DEF SubInv, SubTypeOK
<1>3. ASSUME NEW what \in {"on", "off", "failed"}, call' = Answering(c, what),
             what # "failed" => RightAbout(what)
      PROVE  SubInv'
  <2> DEFINE b == [k EXCEPT !.at = "answer", !.answer = what]
  <2>1. call' = [call EXCEPT ![c] = b] /\ b \in Call
    BY <1>0, <1>3 DEF Answering, SubInv, SubTypeOK, Call
  <2>2. call'[c] = b /\ b.at = "answer" /\ b.answer = what
    BY <1>0, <2>1 DEF SubInv, SubTypeOK, Call
  <2>3. CallSound(c)'
    BY <1>0, <1>3, <2>2 DEF CallSound, RightAbout
  <2> HIDE DEF b
  <2> QED BY <1>2, <2>1, <2>3
<1>4. ASSUME NEW r \in Record \cup {NoCall}, LooksUp(k, r), k.kind \in {"subscribe", "unsubscribe"},
             r = NoCall <=> k.kind = "subscribe",
             call' = [call EXCEPT ![c].at = "write", ![c].found = r]
      PROVE  SubInv'
  <2> DEFINE b == [k EXCEPT !.at = "write", !.found = r]
  <2>1. call' = [call EXCEPT ![c] = b] /\ b \in Call
    BY <1>0, <1>4 DEF SubInv, SubTypeOK, Call
  <2>2. call'[c] = b /\ b.at = "write" /\ b.found = r /\ b.kind = k.kind
    BY <1>0, <2>1 DEF SubInv, SubTypeOK, Call
  <2>3. k.kind = "subscribe" => records = {}
    BY <1>4, SubBounds DEF LooksUp, SubInv, SubTypeOK
  <2>4. k.kind = "unsubscribe" => r # NoCall /\ r \in records
    BY <1>4 DEF LooksUp
  <2>5. b.kind = "unsubscribe" => r # NoCall /\ r \in records'
    BY <1>0, <2>2, <2>4
  <2>6. b.kind = "subscribe" => records' = {}
    BY <1>0, <2>2, <2>3
  <2>7. CallSound(c)'
    BY <1>4, <2>2, <2>5, <2>6 DEF CallSound
  <2> HIDE DEF b
  <2> QED BY <1>2, <2>1, <2>7
<1>5. ASSUME NEW r \in Record \cup {NoCall}, LooksUp(k, r),
             call' = IF k.kind = "ask" \/ (k.kind = "subscribe" <=> r # NoCall)
                     THEN Answering(c, IF r = NoCall THEN "off" ELSE "on")
                     ELSE [call EXCEPT ![c].at = "write", ![c].found = r]
      PROVE  SubInv'
  <2>1. RightAbout(IF r = NoCall THEN "off" ELSE "on")
    BY <1>5, SubBounds DEF LooksUp, RightAbout, SubInv, SubTypeOK
  <2>2. k.kind \in {"ask", "subscribe", "unsubscribe"}
    BY <1>0 DEF Call
  <2>3. CASE k.kind = "ask" \/ (k.kind = "subscribe" <=> r # NoCall)
    <3>1. call' = Answering(c, IF r = NoCall THEN "off" ELSE "on")
      BY <1>5, <2>3
    <3> QED BY <1>3, <2>1, <3>1
  <2>4. CASE ~(k.kind = "ask" \/ (k.kind = "subscribe" <=> r # NoCall))
    <3>1. call' = [call EXCEPT ![c].at = "write", ![c].found = r]
      BY <1>5, <2>4
    <3>2. k.kind \in {"subscribe", "unsubscribe"} /\ (r = NoCall <=> k.kind = "subscribe")
      BY <2>2, <2>4
    <3> QED BY <1>4, <1>5, <3>1, <3>2
  <2> QED BY <2>3, <2>4
<1>6. CASE call' = IF k.kind = "subscribe"
                   THEN [call EXCEPT ![c].at = "write", ![c].blind = TRUE]
                   ELSE Answering(c, "failed")
  <2>1. CASE k.kind = "subscribe"
    <3> DEFINE b == [k EXCEPT !.at = "write", !.blind = TRUE]
    <3>1. call' = [call EXCEPT ![c] = b] /\ b \in Call
      BY <1>0, <1>6, <2>1 DEF SubInv, SubTypeOK, Call
    <3>2. call'[c] = b /\ b.at = "write" /\ b.blind /\ b.kind = "subscribe"
      BY <1>0, <2>1, <3>1 DEF SubInv, SubTypeOK, Call
    <3>3. CallSound(c)'
      BY <3>2 DEF CallSound
    <3> HIDE DEF b
    <3> QED BY <1>2, <3>1, <3>3
  <2>2. CASE k.kind # "subscribe"
    <3>1. call' = Answering(c, "failed")
      BY <1>6, <2>2
    <3> QED BY <1>3, <3>1
  <2> QED BY <2>1, <2>2
<1> QED BY <1>5, <1>6 DEF LookUp

(* A call that writes: its own answer is what it left there; the others are *)
(* overtaken, and no control is sure any more.                              *)
LEMMA OvertakesKeeps ==
  ASSUME SubInv, NEW c \in Control, call[c] # NoCall, call[c].at = "write",
         NEW what \in {"on", "off"}, NEW made \in BOOLEAN, Overtakes(c, what, made),
         records' # {} => made \/ records # {},
         \A r \in records : r \in records' \/ ~made,
         OneRecord', doubled => doubled',
         call[c].calm /\ ~doubled' => RightAbout(what)'
  PROVE  /\ call' \in [Control -> Call \cup {NoCall}] /\ control' \in [Control -> ControlState]
         /\ CallsSound' /\ ControlsSound'
<1>0. call \in [Control -> Call \cup {NoCall}] /\ control \in [Control -> ControlState]
  BY DEF SubInv, SubTypeOK
<1> DEFINE a == [call[c] EXCEPT !.at = "answer", !.answer = what]
           o(d) == [call[d] EXCEPT !.calm = FALSE, !.blind = @ \/ made]
<1>1. a \in Call /\ a.at = "answer" /\ a.answer = what /\ a.calm = call[c].calm
  BY <1>0 DEF Call
<1>2. \A d \in Control : call[d] # NoCall =>
        /\ o(d) \in Call /\ o(d).calm = FALSE /\ o(d).at = call[d].at /\ o(d).kind = call[d].kind
        /\ o(d).found = call[d].found /\ o(d).answer = call[d].answer
  BY <1>0 DEF Call
<1>3. \A d \in Control : call[d] # NoCall => o(d).blind = (call[d].blind \/ made)
  BY <1>0 DEF Call
<1>4. call' = [d \in Control |-> IF d = c THEN a ELSE IF call[d] = NoCall THEN NoCall ELSE o(d)]
  BY DEF Overtakes
<1>5. /\ call'[c] = a
      /\ \A d \in Control : d # c => call'[d] = IF call[d] = NoCall THEN NoCall ELSE o(d)
  BY <1>4
<1> HIDE DEF a, o
<1>6. call' \in [Control -> Call \cup {NoCall}]
  BY <1>1, <1>2, <1>4
<1>7. control' \in [Control -> ControlState] /\ \A d \in Control : d # c => ~control'[d].sure
  BY <1>0 DEF Overtakes, ControlState
<1>8. CallsSound'
  <2> SUFFICES ASSUME NEW d \in Control, call'[d] # NoCall PROVE CallSound(d)'
    BY DEF CallsSound
  <2>1. CASE d = c
    BY <1>1, <1>5, <2>1 DEF CallSound, RightAbout
  <2>2. CASE d # c
    <3>1. call[d] # NoCall /\ call'[d] = o(d) /\ CallSound(d)
      BY <1>5, <2>2 DEF SubInv, CallsSound
    <3>2. o(d).at = "write" /\ o(d).kind = "subscribe" /\ ~o(d).blind => records' = {}
      BY <1>2, <1>3, <3>1 DEF CallSound
    <3> QED BY <1>2, <3>1, <3>2 DEF CallSound
  <2> QED BY <2>1, <2>2
<1>9. ControlsSound'
  <2> SUFFICES ASSUME NEW d \in Control, control'[d].sure, Unheard(d)' PROVE FALSE
    BY DEF ControlsSound
  <2>1. CASE d = c
    BY <1>1, <1>5, <2>1, SubBounds DEF Unheard
  <2>2. CASE d # c
    BY <1>7, <2>2
  <2> QED BY <2>1, <2>2
<1> QED BY <1>6, <1>7, <1>8, <1>9

LEMMA WriteSubscriptionKeeps ==
  ASSUME SubInv, NEW c \in Control, WriteSubscription(c) PROVE SubInv'
<1> DEFINE k == call[c]
<1>0. k \in Call /\ k # NoCall /\ k.at = "write" /\ UNCHANGED pressed /\ CallSound(c)
  BY DEF WriteSubscription, SubInv, SubTypeOK, CallsSound
<1>1. CASE /\ k.kind = "subscribe"
           /\ \E r \in unused : records' = records \cup {r} /\ unused' = unused \ {r}
           /\ doubled' = (doubled \/ k.blind)
           /\ Overtakes(c, "on", TRUE) /\ UNCHANGED failed
  <2>1. PICK r \in unused : records' = records \cup {r} /\ unused' = unused \ {r}
    BY <1>1
  <2>2. doubled' \in BOOLEAN /\ (~doubled' => ~doubled /\ ~k.blind)
    BY <1>0, <1>1 DEF SubInv, SubTypeOK, Call
  <2>3. ~doubled' => records = {}
    BY <1>0, <1>1, <2>2 DEF CallSound
  <2>4. OneRecord'
    BY <2>1, <2>3 DEF OneRecord
  <2>5. RightAbout("on")' /\ \A s \in records : s \in records'
    BY <2>1 DEF RightAbout
  <2>6. /\ call' \in [Control -> Call \cup {NoCall}] /\ control' \in [Control -> ControlState]
        /\ CallsSound' /\ ControlsSound'
    BY <1>0, <1>1, <2>2, <2>4, <2>5, OvertakesKeeps
  <2> QED BY <1>0, <1>1, <2>1, <2>2, <2>4, <2>6 DEF SubInv, SubTypeOK
<1>2. CASE /\ k.kind = "unsubscribe"
           /\ records' = records \ {k.found}
           /\ Overtakes(c, "off", FALSE) /\ UNCHANGED <<unused, doubled, failed>>
  <2>1. OneRecord'
    BY <1>2 DEF SubInv, OneRecord
  <2>2. k.calm /\ ~doubled' => RightAbout("off")'
    <3> SUFFICES ASSUME k.calm, ~doubled PROVE records' = {}
      BY <1>2 DEF RightAbout
    <3>1. k.found \in records
      BY <1>0, <1>2 DEF CallSound
    <3> QED BY <1>2, <3>1 DEF SubInv, OneRecord
  <2>3. records' # {} => records # {}
    BY <1>2
  <2>4. /\ call' \in [Control -> Call \cup {NoCall}] /\ control' \in [Control -> ControlState]
        /\ CallsSound' /\ ControlsSound'
    BY <1>0, <1>2, <2>1, <2>2, <2>3, OvertakesKeeps
  <2> QED BY <1>0, <1>2, <2>1, <2>4 DEF SubInv, SubTypeOK
<1>3. CASE Failing /\ call' = Answering(c, "failed") /\ UNCHANGED <<records, unused, control, doubled>>
  <2> DEFINE b == [k EXCEPT !.at = "answer", !.answer = "failed"]
  <2>1. call' = [call EXCEPT ![c] = b] /\ b \in Call
    BY <1>0, <1>3 DEF Answering, SubInv, SubTypeOK, Call
  <2>2. call'[c] = b /\ b.at = "answer" /\ b.answer = "failed"
    BY <1>0, <2>1 DEF SubInv, SubTypeOK, Call
  <2>3. CallSound(c)'
    BY <2>2 DEF CallSound
  <2>4. failed' \in 0..MaxFailed
    BY <1>3, SubBounds DEF Failing, SubInv, SubTypeOK
  <2> HIDE DEF b
  <2>5. call' \in [Control -> Call \cup {NoCall}] /\ CallsSound' /\ ControlsSound' /\ OneRecord'
    BY <1>0, <1>3, <2>1, <2>3, CallMoves DEF Unheard
  <2> QED BY <1>0, <1>3, <2>4, <2>5 DEF SubInv, SubTypeOK
<1> QED BY <1>1, <1>2, <1>3 DEF WriteSubscription

LEMMA TakeAnswerKeeps == ASSUME SubInv, NEW c \in Control, TakeAnswer(c) PROVE SubInv'
<1> DEFINE k == call[c]
<1>0. /\ k \in Call /\ k # NoCall /\ k.at = "answer" /\ CallSound(c)
      /\ UNCHANGED <<records, unused, pressed, doubled>> /\ call' = [call EXCEPT ![c] = NoCall]
  BY DEF TakeAnswer, SubInv, SubTypeOK, CallsSound
<1>1. /\ call' \in [Control -> Call \cup {NoCall}] /\ call'[c] = NoCall
      /\ \A d \in Control : d # c => call'[d] = call[d]
  BY <1>0 DEF SubInv, SubTypeOK
<1>2. k.answer \in {"on", "off", "failed"}
  BY <1>0 DEF CallSound, Call
<1>3. CallsSound'
  <2> SUFFICES ASSUME NEW d \in Control, call'[d] # NoCall PROVE CallSound(d)'
    BY DEF CallsSound
  <2> QED BY <1>0, <1>1 DEF SubInv, CallsSound, CallSound, RightAbout
<1>4. failed' \in 0..MaxFailed
  BY SubBounds DEF TakeAnswer, Failing, SubInv, SubTypeOK
<1>5. PICK s \in ControlState :
        /\ control' = [control EXCEPT ![c] = s]
        /\ s.sure => \/ k.answer = "failed" /\ s = control[c]
                     \/ k.answer # "failed" /\ s.shown = k.answer /\ k.calm
  <2>1. control[c] \in ControlState /\ k.calm \in BOOLEAN
    BY <1>0 DEF SubInv, SubTypeOK, Call
  <2>2. CASE control' = [control EXCEPT ![c] =
             IF k.answer = "failed" THEN @ ELSE [shown |-> k.answer, sure |-> k.calm]]
    <3>1. CASE k.answer = "failed"
      BY <2>1, <2>2, <3>1
    <3>2. CASE k.answer # "failed"
      <4>1. [shown |-> k.answer, sure |-> k.calm] \in ControlState
        BY <1>2, <2>1, <3>2 DEF ControlState
      <4> QED BY <2>2, <3>2, <4>1
    <3> QED BY <3>1, <3>2
  <2>3. CASE control' = [control EXCEPT ![c].sure = FALSE]
    <3>1. [control[c] EXCEPT !.sure = FALSE] \in ControlState /\ ~[control[c] EXCEPT !.sure = FALSE].sure
      BY <2>1 DEF ControlState
    <3> QED BY <2>3, <3>1
  <2> QED BY <2>2, <2>3 DEF TakeAnswer
<1>6. /\ control' \in [Control -> ControlState] /\ control'[c] = s
      /\ \A d \in Control : d # c => control'[d] = control[d]
  BY <1>5 DEF SubInv, SubTypeOK
<1>7. ControlsSound'
  <2> SUFFICES ASSUME NEW d \in Control, control'[d].sure, Unheard(d)', ~doubled
               PROVE  RightAbout(control[d].shown)'
    BY <1>0 DEF ControlsSound
  <2>1. CASE d # c
    <3>1. Unheard(d) /\ control'[d] = control[d]
      BY <1>1, <1>6, <2>1 DEF Unheard
    <3>2. RightAbout(control[d].shown)
      BY <3>1 DEF SubInv, ControlsSound
    <3> QED BY <1>0, <3>1, <3>2 DEF RightAbout
  <2>2. CASE d = c
    <3>1. RightAbout(s.shown)
      <4>1. CASE k.answer = "failed"
        BY <1>5, <1>6, <2>2, <4>1 DEF SubInv, ControlsSound, Unheard
      <4>2. CASE k.answer # "failed"
        BY <1>0, <1>5, <1>6, <2>2, <4>2 DEF CallSound
      <4> QED BY <4>1, <4>2
    <3> QED BY <1>0, <1>6, <2>2, <3>1 DEF RightAbout
  <2> QED BY <2>1, <2>2
<1>8. OneRecord'
  BY <1>0 DEF SubInv, OneRecord
<1> QED BY <1>0, <1>1, <1>3, <1>4, <1>6, <1>7, <1>8 DEF SubInv, SubTypeOK

LEMMA SubNextInv == ASSUME SubInv, [SubNext]_subVars PROVE SubInv'
<1>1. CASE SubNext
  BY <1>1, MountKeeps, PressKeeps, LookUpKeeps, WriteSubscriptionKeeps, TakeAnswerKeeps DEF SubNext
<1>2. CASE UNCHANGED subVars
  BY <1>2 DEF subVars, SubInv, SubTypeOK, OneRecord, CallsSound, CallSound, ControlsSound,
              Unheard, RightAbout
<1> QED BY <1>1, <1>2

(* What a control says of the subscription is so, unless a request was made *)
(* blind or another tab has written since: whichever calls fail, and in     *)
(* whatever order the writes and the answers of two tabs come.              *)
THEOREM ControlIsTrueHolds == SubSpec => []ControlIsTrue
<1>1. SubInv => ControlIsTrue
  BY DEF SubInv, ControlsSound, Unheard, ControlIsTrue, RightAbout, SubTypeOK, ControlState
<1>2. SubInv /\ [SubNext]_subVars => SubInv'
  BY SubNextInv
<1> QED BY <1>1, <1>2, SubInitInv, PTL DEF SubSpec

-----------------------------------------------------------------------------
(* The reader page.                                                         *)

(* The page a render is for. *)
UrlOf(c) == <<c, visit[c].spelling>>

(* A render that no purge has passed, of a page a purge has reached since   *)
(* it last changed, is of the page as it is: past its first step the page   *)
(* is not hidden, and what it is about to store is the record.              *)
RenderFresh(c) ==
  UrlOf(c) \notin owed /\ ~visit[c].late =>
    /\ visit[c].at # "hidden" => ~hidden
    /\ visit[c].at = "put" => Current(visit[c])

(* One without an excuse reads a record that exists; the second time, at    *)
(* the PDS that has it; and it asks the directory only about another.       *)
RenderSound(c) ==
  ~visit[c].excused =>
    /\ live
    /\ visit[c].at = "refresh" => visit[c].host # host
    /\ visit[c].retried /\ visit[c].at \in {"hidden", "host"} => knownHost[c] \in {NoHost, host}
    /\ visit[c].retried /\ visit[c].at = "read" => visit[c].host = host

RendersFresh == \A c \in Colo : visit[c] # NoVisit => RenderFresh(c)
RendersSound == \A c \in Colo : visit[c] # NoVisit => RenderSound(c)

PageInv == PageTypeOK /\ RendersFresh /\ RendersSound /\ PurgedIsFresh /\ MissingIsTrue

LEMMA PageBounds ==
  /\ MaxVersions \in Nat /\ MaxMoves \in Nat /\ MaxFlakes \in Nat
  /\ 0 \in Version /\ 0 \in Host /\ 0 \in 0..MaxFlakes
BY ReaderPagesAssumption DEF Version, Host

LEMMA PageInitInv == PageInit => PageInv
<1> SUFFICES ASSUME PageInit PROVE PageInv
  OBVIOUS
<1>1. PageTypeOK
  BY PageBounds DEF PageInit, PageTypeOK
<1> QED BY <1>1 DEF PageInit, PageInv, RendersFresh, RendersSound, PurgedIsFresh, MissingIsTrue

LEMMA FlakeType == ASSUME PageTypeOK, Flake PROVE flakes' \in 0..MaxFlakes
BY PageBounds DEF PageTypeOK, Flake

(* Nothing a render rests on changes for the others when one moves on.      *)
LEMMA OneRender ==
  ASSUME PageInv, NEW c \in Colo, NEW v \in Visit \cup {NoVisit}, visit' = [visit EXCEPT ![c] = v],
         UNCHANGED <<version, live, hidden, host, owed>>,
         \A d \in Colo : d # c => knownHost'[d] = knownHost[d],
         visit'[c] # NoVisit => RenderFresh(c)' /\ RenderSound(c)'
  PROVE  visit' \in [Colo -> Visit \cup {NoVisit}] /\ RendersFresh' /\ RendersSound'
<1>1. visit' \in [Colo -> Visit \cup {NoVisit}] /\ \A d \in Colo : d # c => visit'[d] = visit[d]
  BY DEF PageInv, PageTypeOK
<1>2. RendersFresh'
  <2> SUFFICES ASSUME NEW d \in Colo, visit'[d] # NoVisit PROVE RenderFresh(d)'
    BY DEF RendersFresh
  <2>1. CASE d # c
    BY <1>1, <2>1 DEF PageInv, RendersFresh, RenderFresh, UrlOf, Current
  <2> QED BY <2>1
<1>3. RendersSound'
  <2> SUFFICES ASSUME NEW d \in Colo, visit'[d] # NoVisit PROVE RenderSound(d)'
    BY DEF RendersSound
  <2>1. CASE d # c
    BY <1>1, <2>1 DEF PageInv, RendersSound, RenderSound
  <2> QED BY <2>1
<1> QED BY <1>1, <1>2, <1>3

(* A render that ends. *)
LEMMA EndsKeeps ==
  ASSUME PageInv, NEW c \in Colo, visit' = [visit EXCEPT ![c] = NoVisit],
         UNCHANGED <<version, live, hidden, host, owed, purge>>,
         \A d \in Colo : d # c => knownHost'[d] = knownHost[d],
         knownHost' \in [Colo -> Host \cup {NoHost}],
         pages' \in [Url -> StoredPage \cup {NoPage}],
         flakes' \in 0..MaxFlakes, ~misled', misled' \in BOOLEAN, PurgedIsFresh'
  PROVE  PageInv'
<1>1. visit'[c] = NoVisit
  BY DEF PageInv, PageTypeOK
<1>2. visit' \in [Colo -> Visit \cup {NoVisit}] /\ RendersFresh' /\ RendersSound'
  BY <1>1, OneRender
<1> QED BY <1>2 DEF PageInv, PageTypeOK, MissingIsTrue

LEMMA ArriveKeeps == ASSUME PageInv, NEW c \in Colo, Arrive(c) PROVE PageInv'
<1>1. PICK s \in Spelling : visit' = [visit EXCEPT ![c] =
            [spelling |-> s, at |-> "hidden", host |-> 0, shows |-> 0, retried |-> FALSE,
             late |-> FALSE, excused |-> ~live]]
  BY DEF Arrive
<1> DEFINE v == [spelling |-> s, at |-> "hidden", host |-> 0, shows |-> 0, retried |-> FALSE,
                 late |-> FALSE, excused |-> ~live]
<1>2. v \in Visit
  <2>1. (~live) \in BOOLEAN
    BY DEF PageInv, PageTypeOK
  <2> QED BY <2>1, PageBounds DEF Visit
<1>3. visit'[c] = v /\ v.at = "hidden" /\ ~v.retried /\ (~v.excused => live)
  BY <1>1 DEF PageInv, PageTypeOK
<1>4. UNCHANGED <<version, live, hidden, host, knownHost, pages, misled, purge, flakes, owed>>
  BY DEF Arrive
<1>5. RenderFresh(c)' /\ RenderSound(c)'
  BY <1>3, <1>4 DEF RenderFresh, RenderSound
<1> HIDE DEF v
<1>6. visit' \in [Colo -> Visit \cup {NoVisit}] /\ RendersFresh' /\ RendersSound'
  BY <1>1, <1>2, <1>4, <1>5, OneRender DEF v
<1> QED BY <1>4, <1>6 DEF PageInv, PageTypeOK, PurgedIsFresh, MissingIsTrue, Current

LEMMA CheckHiddenKeeps == ASSUME PageInv, NEW c \in Colo, CheckHidden(c) PROVE PageInv'
<1>0. /\ UNCHANGED <<version, live, hidden, host, knownHost, pages, purge, flakes, owed>>
      /\ visit[c] # NoVisit /\ visit[c] \in Visit /\ visit[c].at = "hidden" /\ misled' = misled
      /\ RenderFresh(c) /\ RenderSound(c)
  BY DEF CheckHidden, PageInv, PageTypeOK, Answers, RendersFresh, RendersSound
<1>1. PurgedIsFresh'
  BY <1>0 DEF PageInv, PurgedIsFresh, Current
<1>2. CASE hidden
  BY <1>0, <1>1, <1>2, EndsKeeps DEF CheckHidden, Answers, PageInv, PageTypeOK, MissingIsTrue
<1>3. CASE ~hidden
  <2> DEFINE v == [visit[c] EXCEPT !.at = "host"]
  <2>1. visit' = [visit EXCEPT ![c] = v] /\ v \in Visit
    BY <1>0, <1>3 DEF CheckHidden, Continues, PageInv, PageTypeOK, Visit
  <2>2. visit'[c] = v /\ v.at = "host" /\ v.retried = visit[c].retried /\ v.excused = visit[c].excused
    BY <1>0, <2>1 DEF PageInv, PageTypeOK, Visit
  <2>3. RenderFresh(c)' /\ RenderSound(c)'
    BY <1>0, <1>3, <2>2 DEF RenderFresh, RenderSound
  <2> HIDE DEF v
  <2>4. visit' \in [Colo -> Visit \cup {NoVisit}] /\ RendersFresh' /\ RendersSound'
    BY <1>0, <2>1, <2>3, OneRender
  <2> QED BY <1>0, <1>1, <2>4 DEF PageInv, PageTypeOK, MissingIsTrue
<1> QED BY <1>2, <1>3

LEMMA ResolveHostKeeps == ASSUME PageInv, NEW c \in Colo, ResolveHost(c) PROVE PageInv'
<1>0. /\ UNCHANGED <<version, live, hidden, host, pages, purge, owed>>
      /\ visit[c] # NoVisit /\ visit[c] \in Visit /\ visit[c].at = "host"
      /\ RenderFresh(c) /\ RenderSound(c)
  BY DEF ResolveHost, PageInv, PageTypeOK, RendersFresh, RendersSound
<1>1. PurgedIsFresh'
  BY <1>0 DEF PageInv, PurgedIsFresh, Current
<1>2. CASE Flake /\ knownHost[c] = NoHost /\ Answers(c) /\ UNCHANGED knownHost
  BY <1>0, <1>1, <1>2, EndsKeeps, FlakeType DEF Answers, PageInv, PageTypeOK, MissingIsTrue
<1>3. ASSUME NEW h, h = IF knownHost[c] = NoHost THEN host ELSE knownHost[c],
             visit' = [visit EXCEPT ![c].at = "read", ![c].host = h],
             knownHost' = [knownHost EXCEPT ![c] = h], UNCHANGED <<misled, flakes>>
      PROVE  PageInv'
  <2> DEFINE v == [visit[c] EXCEPT !.at = "read", !.host = h]
  <2>0. h \in Host
    BY <1>3 DEF PageInv, PageTypeOK
  <2>1. visit' = [visit EXCEPT ![c] = v] /\ v \in Visit
    BY <1>0, <1>3, <2>0 DEF PageInv, PageTypeOK, Visit
  <2>2. /\ visit'[c] = v /\ v.at = "read" /\ v.host = h /\ v.retried = visit[c].retried
        /\ v.excused = visit[c].excused /\ v.late = visit[c].late /\ v.spelling = visit[c].spelling
    BY <1>0, <2>1 DEF PageInv, PageTypeOK, Visit
  <2>3. knownHost' \in [Colo -> Host \cup {NoHost}] /\ \A d \in Colo : d # c => knownHost'[d] = knownHost[d]
    BY <1>3, <2>0 DEF PageInv, PageTypeOK
  <2> HIDE DEF v
  <2>4. RenderFresh(c)' /\ RenderSound(c)'
    <3>1. RenderFresh(c)'
      BY <1>0, <2>2 DEF RenderFresh, UrlOf
    <3>2. RenderSound(c)'
      BY <1>0, <1>3, <2>2 DEF RenderSound
    <3> QED BY <3>1, <3>2
  <2>5. visit' \in [Colo -> Visit \cup {NoVisit}] /\ RendersFresh' /\ RendersSound'
    BY <1>0, <2>1, <2>3, <2>4, OneRender
  <2> QED BY <1>0, <1>1, <1>3, <2>3, <2>5 DEF PageInv, PageTypeOK, MissingIsTrue
<1> QED BY <1>2, <1>3 DEF ResolveHost

LEMMA ReadDocumentKeeps == ASSUME PageInv, NEW c \in Colo, ReadDocument(c) PROVE PageInv'
<1>0. /\ UNCHANGED <<version, live, hidden, host, knownHost, pages, purge, owed>>
      /\ visit[c] # NoVisit /\ visit[c] \in Visit /\ visit[c].at = "read"
      /\ RenderFresh(c) /\ RenderSound(c)
  BY DEF ReadDocument, PageInv, PageTypeOK, RendersFresh, RendersSound
<1>1. PurgedIsFresh'
  BY <1>0 DEF PageInv, PurgedIsFresh, Current
<1>2. CASE Flake /\ Answers(c)
  BY <1>0, <1>1, <1>2, EndsKeeps, FlakeType DEF Answers, PageInv, PageTypeOK, MissingIsTrue
<1>3. CASE /\ visit[c].host = host /\ live
           /\ visit' = [visit EXCEPT ![c].at = "put", ![c].shows = version]
           /\ UNCHANGED <<misled, flakes>>
  <2> DEFINE v == [visit[c] EXCEPT !.at = "put", !.shows = version]
  <2>1. visit' = [visit EXCEPT ![c] = v] /\ v \in Visit
    BY <1>0, <1>3 DEF PageInv, PageTypeOK, Visit
  <2>2. /\ visit'[c] = v /\ v.at = "put" /\ v.shows = version
        /\ v.late = visit[c].late /\ v.spelling = visit[c].spelling
    BY <1>0, <2>1 DEF PageInv, PageTypeOK, Visit
  <2> HIDE DEF v
  <2>3. RenderFresh(c)' /\ RenderSound(c)'
    <3>1. UrlOf(c)' = UrlOf(c) /\ (UrlOf(c) \notin owed /\ ~visit[c].late => ~hidden)
      BY <1>0, <2>2 DEF RenderFresh, UrlOf
    <3>2. visit'[c].late = visit[c].late /\ visit'[c].shows = version
      BY <2>2
    <3>3. RenderFresh(c)'
      BY <1>0, <1>3, <3>1, <3>2 DEF RenderFresh, Current
    <3>4. RenderSound(c)'
      BY <1>0, <1>3, <2>2 DEF RenderSound
    <3> QED BY <3>3, <3>4
  <2>4. visit' \in [Colo -> Visit \cup {NoVisit}] /\ RendersFresh' /\ RendersSound'
    BY <1>0, <2>1, <2>3, OneRender
  <2> QED BY <1>0, <1>1, <1>3, <2>4 DEF PageInv, PageTypeOK, MissingIsTrue
<1>4. CASE /\ ~(visit[c].host = host /\ live)
           /\ AsksAgain(visit[c]) /\ Continues(c, "refresh") /\ UNCHANGED <<misled, flakes>>
  <2> DEFINE v == [visit[c] EXCEPT !.at = "refresh"]
  <2>1. visit' = [visit EXCEPT ![c] = v] /\ v \in Visit
    BY <1>0, <1>4 DEF Continues, PageInv, PageTypeOK, Visit
  <2>2. /\ visit'[c] = v /\ v.at = "refresh" /\ v.host = visit[c].host /\ v.excused = visit[c].excused
        /\ v.late = visit[c].late /\ v.spelling = visit[c].spelling
    BY <1>0, <2>1 DEF PageInv, PageTypeOK, Visit
  <2>3. RenderFresh(c)' /\ RenderSound(c)'
    BY <1>0, <1>4, <2>2 DEF RenderFresh, RenderSound, UrlOf
  <2> HIDE DEF v
  <2>4. visit' \in [Colo -> Visit \cup {NoVisit}] /\ RendersFresh' /\ RendersSound'
    BY <1>0, <2>1, <2>3, OneRender
  <2> QED BY <1>0, <1>1, <1>4, <2>4 DEF PageInv, PageTypeOK, MissingIsTrue
<1>5. CASE /\ ~(visit[c].host = host /\ live)
           /\ ~AsksAgain(visit[c]) /\ NotFound(c, visit[c].excused) /\ UNCHANGED flakes
  <2>1. visit[c].excused
    BY <1>0, <1>5 DEF AsksAgain, RenderSound
  <2>2. misled' = misled /\ visit' = [visit EXCEPT ![c] = NoVisit]
    BY <1>5, <2>1 DEF NotFound, PageInv, PageTypeOK, MissingIsTrue
  <2> QED BY <1>0, <1>1, <1>5, <2>2, EndsKeeps DEF PageInv, PageTypeOK, MissingIsTrue
<1> QED BY <1>2, <1>3, <1>4, <1>5 DEF ReadDocument

LEMMA RefreshHostKeeps == ASSUME PageInv, NEW c \in Colo, RefreshHost(c) PROVE PageInv'
<1>0. /\ UNCHANGED <<version, live, hidden, host, pages, purge, owed>>
      /\ visit[c] # NoVisit /\ visit[c] \in Visit /\ visit[c].at = "refresh"
      /\ RenderFresh(c) /\ RenderSound(c)
  BY DEF RefreshHost, PageInv, PageTypeOK, RendersFresh, RendersSound
<1>1. PurgedIsFresh'
  BY <1>0 DEF PageInv, PurgedIsFresh, Current
<1>2. CASE /\ host # visit[c].host
           /\ knownHost' = [knownHost EXCEPT ![c] = host]
           /\ visit' = [visit EXCEPT ![c].at = "hidden", ![c].retried = TRUE]
           /\ UNCHANGED <<misled, flakes>>
  <2> DEFINE v == [visit[c] EXCEPT !.at = "hidden", !.retried = TRUE]
  <2>1. visit' = [visit EXCEPT ![c] = v] /\ v \in Visit
    BY <1>0, <1>2 DEF PageInv, PageTypeOK, Visit
  <2>2. visit'[c] = v /\ v.at = "hidden" /\ v.retried /\ v.excused = visit[c].excused
    BY <1>0, <2>1 DEF PageInv, PageTypeOK, Visit
  <2>3. /\ knownHost' \in [Colo -> Host \cup {NoHost}] /\ knownHost'[c] = host
        /\ \A d \in Colo : d # c => knownHost'[d] = knownHost[d]
    BY <1>2 DEF PageInv, PageTypeOK
  <2>4. RenderFresh(c)' /\ RenderSound(c)'
    BY <1>0, <2>2, <2>3 DEF RenderFresh, RenderSound
  <2> HIDE DEF v
  <2>5. visit' \in [Colo -> Visit \cup {NoVisit}] /\ RendersFresh' /\ RendersSound'
    BY <1>0, <2>1, <2>3, <2>4, OneRender
  <2> QED BY <1>0, <1>1, <1>2, <2>3, <2>5 DEF PageInv, PageTypeOK, MissingIsTrue
<1>3. CASE /\ IF host = visit[c].host THEN UNCHANGED flakes ELSE Flake
           /\ NotFound(c, visit[c].excused \/ host # visit[c].host)
           /\ UNCHANGED knownHost
  <2>1. visit[c].excused \/ host # visit[c].host
    BY <1>0 DEF RenderSound
  <2>2. misled' = misled /\ visit' = [visit EXCEPT ![c] = NoVisit]
    BY <1>3, <2>1 DEF NotFound, PageInv, PageTypeOK, MissingIsTrue
  <2>3. flakes' \in 0..MaxFlakes
    BY <1>3, FlakeType DEF PageInv, PageTypeOK
  <2> QED BY <1>0, <1>1, <1>3, <2>2, <2>3, EndsKeeps DEF PageInv, PageTypeOK, MissingIsTrue
<1> QED BY <1>2, <1>3 DEF RefreshHost

LEMMA PutPageKeeps == ASSUME PageInv, NEW c \in Colo, PutPage(c) PROVE PageInv'
<1>0. /\ UNCHANGED <<version, live, hidden, host, knownHost, purge, owed, misled>>
      /\ visit[c] # NoVisit /\ visit[c] \in Visit /\ visit[c].at = "put" /\ RenderFresh(c)
      /\ visit' = [visit EXCEPT ![c] = NoVisit]
  BY DEF PutPage, PageInv, PageTypeOK, RendersFresh, Answers
<1>1. CASE Flake /\ UNCHANGED pages
  <2>1. PurgedIsFresh'
    BY <1>0, <1>1 DEF PageInv, PurgedIsFresh, Current
  <2> QED BY <1>0, <1>1, <2>1, EndsKeeps, FlakeType DEF PageInv, PageTypeOK, MissingIsTrue
<1>2. CASE /\ pages' = [pages EXCEPT ![<<c, visit[c].spelling>>] =
                          [shows |-> visit[c].shows, late |-> visit[c].late]]
           /\ UNCHANGED flakes
  <2> DEFINE u == UrlOf(c)
             g == [shows |-> visit[c].shows, late |-> visit[c].late]
  <2>1. g \in StoredPage /\ u \in Url
    BY <1>0 DEF Visit, StoredPage, Url, UrlOf
  <2>2. /\ pages' \in [Url -> StoredPage \cup {NoPage}] /\ pages'[u] = g
        /\ \A w \in Url : w # u => pages'[w] = pages[w]
    BY <1>2, <2>1 DEF UrlOf, PageInv, PageTypeOK
  <2>3. u \notin owed /\ ~g.late => Current(g)
    BY <1>0 DEF RenderFresh, Current
  <2> HIDE DEF u, g
  <2>4. PurgedIsFresh'
    <3> SUFFICES ASSUME NEW w \in Url, w \notin owed, pages'[w] # NoPage, ~pages'[w].late
                 PROVE  Current(pages[w])'
      BY <1>0 DEF PurgedIsFresh
    <3>1. CASE w = u
      BY <1>0, <2>2, <2>3, <3>1 DEF Current
    <3>2. CASE w # u
      BY <1>0, <2>2, <3>2 DEF PageInv, PurgedIsFresh, Current
    <3> QED BY <3>1, <3>2
  <2> QED BY <1>0, <1>2, <2>2, <2>4, EndsKeeps DEF PageInv, PageTypeOK, MissingIsTrue
<1> QED BY <1>1, <1>2 DEF PutPage

LEMMA ForgetHostKeeps == ASSUME PageInv, NEW c \in Colo, ForgetHost(c) PROVE PageInv'
<1>1. /\ UNCHANGED <<version, live, hidden, host, pages, visit, misled, purge, flakes, owed>>
      /\ knownHost' \in [Colo -> Host \cup {NoHost}] /\ knownHost'[c] = NoHost
      /\ \A d \in Colo : d # c => knownHost'[d] = knownHost[d]
  BY DEF ForgetHost, PageInv, PageTypeOK
<1>2. RendersSound'
  BY <1>1 DEF PageInv, RendersSound, RenderSound
<1> QED BY <1>1, <1>2 DEF PageInv, PageTypeOK, RendersFresh, RenderFresh, UrlOf, PurgedIsFresh,
                          MissingIsTrue, Current

LEMMA ExpireKeeps == ASSUME PageInv, NEW u \in Url, Expire(u) PROVE PageInv'
<1>1. /\ UNCHANGED <<version, live, hidden, host, knownHost, visit, misled, purge, flakes, owed>>
      /\ pages' = [pages EXCEPT ![u] = NoPage]
  BY DEF Expire
<1>2. /\ pages' \in [Url -> StoredPage \cup {NoPage}] /\ pages'[u] = NoPage
      /\ \A w \in Url : w # u => pages'[w] = pages[w]
  BY <1>1 DEF PageInv, PageTypeOK
<1>3. PurgedIsFresh'
  BY <1>1, <1>2 DEF PageInv, PurgedIsFresh, Current
<1> QED BY <1>1, <1>2, <1>3 DEF PageInv, PageTypeOK, RendersFresh, RenderFresh, RendersSound,
                                RenderSound, UrlOf, MissingIsTrue, Current

(* An excuse changes nothing else of a render.                              *)
LEMMA ExcuseKeeps ==
  ASSUME PageTypeOK, NEW which \in BOOLEAN, Excuse(which)
  PROVE  /\ visit' \in [Colo -> Visit \cup {NoVisit}]
         /\ \A c \in Colo : visit'[c] # NoVisit =>
              /\ visit[c] # NoVisit
              /\ visit'[c].excused = (visit[c].excused \/ which)
              /\ visit'[c].at = visit[c].at /\ visit'[c].host = visit[c].host
              /\ visit'[c].retried = visit[c].retried /\ visit'[c].late = visit[c].late
              /\ visit'[c].spelling = visit[c].spelling /\ visit'[c].shows = visit[c].shows
<1> DEFINE e(c) == [visit[c] EXCEPT !.excused = @ \/ which]
<1>1. \A c \in Colo : visit[c] # NoVisit =>
        /\ e(c) \in Visit /\ e(c).excused = (visit[c].excused \/ which)
        /\ e(c).at = visit[c].at /\ e(c).host = visit[c].host
        /\ e(c).retried = visit[c].retried /\ e(c).late = visit[c].late
        /\ e(c).spelling = visit[c].spelling /\ e(c).shows = visit[c].shows
  BY DEF PageTypeOK, Visit
<1>2. visit' = [c \in Colo |-> IF visit[c] = NoVisit THEN NoVisit ELSE e(c)]
  BY DEF Excuse
<1> HIDE DEF e
<1> QED BY <1>1, <1>2

LEMMA WriteKeeps == ASSUME PageInv, Write PROVE PageInv'
<1>0. /\ owed' = Url /\ live /\ purge' \in {"write", "none"}
      /\ UNCHANGED <<hidden, host, knownHost, pages, misled, flakes>>
  BY DEF Write
<1>1. RendersFresh' /\ PurgedIsFresh'
  <2>1. visit' \in [Colo -> Visit \cup {NoVisit}]
    BY ExcuseKeeps DEF Write, PageInv
  <2>2. \A c \in Colo : visit'[c] # NoVisit => <<c, visit'[c].spelling>> \in Url
    BY <2>1 DEF Visit, Url
  <2> QED BY <1>0, <2>2 DEF RendersFresh, RenderFresh, UrlOf, PurgedIsFresh
<1>2. CASE version < MaxVersions /\ version' = version + 1 /\ live' = live /\ Excuse(FALSE)
  <2>1. version' \in Version
    BY <1>2, PageBounds DEF PageInv, PageTypeOK, Version
  <2>2. RendersSound' /\ visit' \in [Colo -> Visit \cup {NoVisit}]
    BY <1>0, <1>2, ExcuseKeeps DEF PageInv, RendersSound, RenderSound
  <2> QED BY <1>0, <1>1, <1>2, <2>1, <2>2 DEF PageInv, PageTypeOK, MissingIsTrue
<1>3. CASE live' = FALSE /\ version' = version /\ Excuse(TRUE)
  <2>1. RendersSound' /\ visit' \in [Colo -> Visit \cup {NoVisit}]
    BY <1>0, <1>3, ExcuseKeeps DEF PageInv, RendersSound, RenderSound
  <2> QED BY <1>0, <1>1, <1>3, <2>1 DEF PageInv, PageTypeOK, MissingIsTrue
<1> QED BY <1>2, <1>3 DEF Write

LEMMA HideKeeps == ASSUME PageInv, Hide PROVE PageInv'
<1>0. /\ hidden' = TRUE /\ purge' = "hook" /\ owed' = Url
      /\ UNCHANGED <<version, live, host, knownHost, pages, visit, misled, flakes>>
  BY DEF Hide
<1>1. \A c \in Colo : visit[c] # NoVisit => UrlOf(c) \in Url
  BY DEF PageInv, PageTypeOK, Visit, Url, UrlOf
<1>2. RendersFresh' /\ PurgedIsFresh'
  BY <1>0, <1>1 DEF RendersFresh, RenderFresh, UrlOf, PurgedIsFresh
<1>3. RendersSound'
  BY <1>0 DEF PageInv, RendersSound, RenderSound
<1> QED BY <1>0, <1>2, <1>3 DEF PageInv, PageTypeOK, MissingIsTrue

(* What a purge reaches it forgets, and no longer owes.                     *)
LEMMA PurgedKeeps ==
  ASSUME PageInv, NEW where \in SUBSET Colo, NEW named \in BOOLEAN, Purged(where, named),
         UNCHANGED <<version, live, hidden, host, knownHost, misled>>,
         purge' \in {"none"}, flakes' \in 0..MaxFlakes
  PROVE  PageInv'
<1> DEFINE gone == where \X SurfaceSpellings(named)
           e(c) == [visit[c] EXCEPT !.late = TRUE]
<1>0. gone \subseteq Url /\ owed' = owed \ gone
  BY DEF Purged, SurfaceSpellings, Url, Spelling
<1>1. pages' = [u \in Url |-> IF u \in gone THEN NoPage ELSE pages[u]]
  BY DEF Purged
<1>2. visit' = [c \in Colo |-> IF visit[c] # NoVisit /\ UrlOf(c) \in gone THEN e(c) ELSE visit[c]]
  BY DEF Purged, UrlOf
<1>3. \A c \in Colo : visit[c] # NoVisit =>
        /\ e(c) \in Visit /\ e(c).late /\ e(c).excused = visit[c].excused
        /\ e(c).at = visit[c].at /\ e(c).host = visit[c].host /\ e(c).retried = visit[c].retried
        /\ e(c).spelling = visit[c].spelling
  BY DEF PageInv, PageTypeOK, Visit
<1> HIDE DEF gone, e
<1>4. visit' \in [Colo -> Visit \cup {NoVisit}]
  BY <1>2, <1>3 DEF PageInv, PageTypeOK
<1>5. pages' \in [Url -> StoredPage \cup {NoPage}]
  BY <1>1 DEF PageInv, PageTypeOK
<1>6. PurgedIsFresh'
  BY <1>0, <1>1 DEF PageInv, PurgedIsFresh, Current
<1>7. ASSUME NEW c \in Colo, visit'[c] # NoVisit PROVE RenderFresh(c)' /\ RenderSound(c)'
  <2>1. CASE visit[c] # NoVisit /\ UrlOf(c) \in gone
    <3>1. visit'[c] = e(c)
      BY <1>2, <2>1
    <3> QED BY <1>3, <2>1, <3>1 DEF RenderFresh, RenderSound, PageInv, RendersSound
  <2>2. CASE ~(visit[c] # NoVisit /\ UrlOf(c) \in gone)
    <3>1. visit'[c] = visit[c] /\ UrlOf(c) \notin gone
      BY <1>2, <1>7, <2>2
    <3> QED BY <1>0, <1>7, <3>1
            DEF RenderFresh, RenderSound, PageInv, RendersFresh, RendersSound, UrlOf, Current
  <2> QED BY <2>1, <2>2
<1>8. owed' \subseteq Url
  BY <1>0 DEF PageInv, PageTypeOK
<1> QED BY <1>4, <1>5, <1>6, <1>7, <1>8
        DEF PageInv, PageTypeOK, MissingIsTrue, RendersFresh, RendersSound

LEMMA PurgeKeeps == ASSUME PageInv, Purge PROVE PageInv'
<1>0. purge' = "none" /\ UNCHANGED <<version, live, hidden, host, knownHost, misled>>
  BY DEF Purge
<1>1. PICK named \in BOOLEAN :
        /\ \/ \E here \in {{}} \cup {{c} : c \in Colo} : Purged(here, named)
           \/ purge = "hook" /\ Purged(Colo, named)
        /\ IF named THEN UNCHANGED flakes ELSE Flake
  BY DEF Purge
<1>2. PICK where \in SUBSET Colo : Purged(where, named)
  BY <1>1
<1>3. flakes' \in 0..MaxFlakes
  BY <1>1, FlakeType DEF PageInv, PageTypeOK
<1> QED BY <1>0, <1>2, <1>3, PurgedKeeps

LEMMA MoveKeeps == ASSUME PageInv, Move PROVE PageInv'
<1>0. /\ Excuse(TRUE)
      /\ UNCHANGED <<version, live, hidden, knownHost, pages, misled, purge, flakes, owed>>
  BY DEF Move
<1>3. host' \in Host
  BY PageBounds DEF Move, PageInv, PageTypeOK, Host
<1>1. RendersSound' /\ visit' \in [Colo -> Visit \cup {NoVisit}]
  BY <1>0, ExcuseKeeps DEF PageInv, RendersSound, RenderSound
<1>2. RendersFresh'
  <2> SUFFICES ASSUME NEW c \in Colo, visit'[c] # NoVisit PROVE RenderFresh(c)'
    BY DEF RendersFresh
  <2>1. /\ visit[c] # NoVisit /\ visit'[c].at = visit[c].at /\ visit'[c].late = visit[c].late
        /\ visit'[c].spelling = visit[c].spelling /\ visit'[c].shows = visit[c].shows
    BY <1>0, ExcuseKeeps DEF PageInv
  <2> QED BY <1>0, <2>1 DEF PageInv, RendersFresh, RenderFresh, UrlOf, Current
<1> QED BY <1>0, <1>1, <1>2, <1>3 DEF PageInv, PageTypeOK, PurgedIsFresh, MissingIsTrue, Current

LEMMA PageNextInv == ASSUME PageInv, [PageNext]_pageVars PROVE PageInv'
<1>1. CASE PageNext
  BY <1>1, ArriveKeeps, CheckHiddenKeeps, ResolveHostKeeps, ReadDocumentKeeps, RefreshHostKeeps,
     PutPageKeeps, ForgetHostKeeps, ExpireKeeps, WriteKeeps, HideKeeps, PurgeKeeps, MoveKeeps
  DEF PageNext
<1>2. CASE UNCHANGED pageVars
  BY <1>2 DEF pageVars, PageInv, PageTypeOK, RendersFresh, RenderFresh, RendersSound, RenderSound,
              UrlOf, PurgedIsFresh, MissingIsTrue, Current
<1> QED BY <1>1, <1>2

(* A page stored after the purge that followed a change is the record as it *)
(* is, for any number of places the edge keeps pages in, of versions, moves *)
(* and reads that fail.                                                     *)
THEOREM PurgedIsFreshHolds == PageSpec => []PurgedIsFresh
<1>1. PageInv => PurgedIsFresh
  BY DEF PageInv
<1>2. PageInv /\ [PageNext]_pageVars => PageInv'
  BY PageNextInv
<1> QED BY PageInitInv, <1>1, <1>2, PTL DEF PageSpec

(* A reader is told that a document is missing only when it is, or when the *)
(* writer moved or the directory failed while they were asking.             *)
THEOREM MissingIsTrueHolds == PageSpec => []MissingIsTrue
<1>1. PageInv => MissingIsTrue
  BY DEF PageInv
<1>2. PageInv /\ [PageNext]_pageVars => PageInv'
  BY PageNextInv
<1> QED BY PageInitInv, <1>1, <1>2, PTL DEF PageSpec

-----------------------------------------------------------------------------
(* The publication record, for any number of requests at once, of records,  *)
(* of requests made and of failed calls.                                    *)

(* What a request knows.  A record is never taken away, so what was there   *)
(* when a request began is there; one that means to make a record began     *)
(* when there was none; the record one means to write over is there.        *)
RequestKnows(a) ==
  /\ task[a].before \subseteq OnOurOrigin
  /\ task[a].at = "write" /\ task[a].own = NoPub => task[a].before = {}
  /\ task[a].own # NoPub => task[a].own \in OnOurOrigin /\ task[a].read # NoPub

RequestsKnow == \A a \in Asker : task[a] # NoTask => RequestKnows(a)

RecInv == RecTypeOK /\ RequestsKnow

(* A set of keys has an oldest one.                                         *)
LEMMA OldestExists ==
  ASSUME NEW S, S \subseteq Nat, S # {}
  PROVE  \E k \in S : \A j \in S : k <= j
<1>1. PICK k \in S : \A j \in S : ~ (<<j, k>> \in OpToRel(<, Nat))
  BY NatLessThanWellFounded, WFMin
<1>2. \A j \in S : j < k => <<j, k>> \in OpToRel(<, Nat)
  BY DEF OpToRel
<1>3. \A j \in S : ~ (j < k) => k <= j
  OBVIOUS
<1>4. \A j \in S : k <= j
  BY <1>1, <1>2, <1>3
<1> QED BY <1>4

(* The reading finds a record when there is one, and says none only when    *)
(* there is none.                                                           *)
LEMMA FoundIsThere ==
  /\ Found = NoPub => OnOurOrigin = {}
  /\ Found # NoPub => Found \in OnOurOrigin
<1>1. CASE OnOurOrigin = {}
  BY <1>1 DEF Found
<1>2. CASE OnOurOrigin # {}
  <2>1. OnOurOrigin \subseteq PubKey /\ OnOurOrigin \subseteq Nat
    BY PublicationRecordAssumption DEF OnOurOrigin, PubKey
  <2>2. \E k \in OnOurOrigin : \A j \in OnOurOrigin : k <= j
    BY <1>2, <2>1, OldestExists
  <2>3. (CHOOSE k \in OnOurOrigin : \A j \in OnOurOrigin : k <= j) \in OnOurOrigin
    BY <2>2
  <2>4. Found \in OnOurOrigin
    BY <1>2, <2>3 DEF Found
  <2> QED BY <2>1, <2>4, NoPubAssumption
<1> QED BY <1>1, <1>2

(* What a request writes is a publication.                                  *)
LEMMA RebuiltType ==
  ASSUME NEW t \in Task, t.own # NoPub => t.read # NoPub
  PROVE  Rebuilt(t) \in Publication
<1>1. t.mark \in Mark /\ 0 \in Mark
  BY PublicationRecordAssumption DEF Task, Mark
<1>2. Base(t) \in Publication
  BY <1>1 DEF Base, Task, Publication
<1>3. Named(t) \in Publication /\ Themed(t) \in Publication /\ Moved(t) \in Publication
  BY <1>1, <1>2 DEF Named, Themed, Moved, Publication
<1> QED BY <1>2, <1>3 DEF Rebuilt

LEMMA FailsType == ASSUME RecTypeOK, Fails PROVE refused' \in 0..MaxRefused
BY PublicationRecordAssumption DEF RecTypeOK, Fails

LEMMA PublishedType ==
  ASSUME RecTypeOK, NEW site \in PubKey \cup {Loose}, PublishedTo(site)
  PROVE  sites' \subseteq PubKey \cup {Loose} /\ hosted' \in BOOLEAN
BY DEF RecTypeOK, PublishedTo

(* A request that ends leaves the others as they were.                      *)
LEMMA FinishedTask ==
  ASSUME RecTypeOK, NEW a \in Asker, Finished(a)
  PROVE  /\ task' \in [Asker -> Task \cup {NoTask}] /\ task'[a] = NoTask
         /\ \A b \in Asker : b # a => task'[b] = task[b]
BY DEF RecTypeOK, Finished

(* Where every record stays, the other requests know what they knew.        *)
LEMMA OthersKnow ==
  ASSUME RecInv, NEW a \in Asker, OnOurOrigin \subseteq OnOurOrigin',
         \A b \in Asker : b # a => task'[b] = task[b],
         task'[a] # NoTask => RequestKnows(a)'
  PROVE  RequestsKnow'
BY DEF RecInv, RequestsKnow, RequestKnows

LEMMA RecInitInv == RecInit => RecInv
<1> SUFFICES ASSUME RecInit PROVE RecInv
  OBVIOUS
<1>0. PICK old \in {NoPub, [name |-> 0, theme |-> 0, canonical |-> FALSE]} :
        /\ pubs = [k \in PubKey |-> IF k = 1 THEN old ELSE NoPub]
        /\ nextPub = IF old = NoPub THEN 1 ELSE 2
        /\ wanted = [name |-> 0, theme |-> 0, canonical |-> old = NoPub]
  BY DEF RecInit
<1>1. 0 \in Mark /\ 0 \in 0..MaxRefused /\ {1, 2} \subseteq 1..(LastPub + 1)
  BY PublicationRecordAssumption DEF Mark
<1>2. old \in Publication \cup {NoPub} /\ wanted \in Publication
  <2>1. \A c \in BOOLEAN : [name |-> 0, theme |-> 0, canonical |-> c] \in Publication
    BY <1>1 DEF Publication
  <2>2. (old = NoPub) \in BOOLEAN /\ FALSE \in BOOLEAN
    OBVIOUS
  <2> QED BY <1>0, <2>1, <2>2
<1>3. pubs \in [PubKey -> Publication \cup {NoPub}] /\ nextPub \in 1..(LastPub + 1)
  BY <1>0, <1>1, <1>2
<1>4. RecTypeOK
  BY <1>1, <1>2, <1>3 DEF RecInit, RecTypeOK
<1> QED BY <1>4 DEF RecInit, RecInv, RequestsKnow

LEMMA AskKeeps ==
  ASSUME RecInv, NEW a \in Asker, Ask(a) PROVE RecInv' /\ OneMade
<1>1. PICK kind \in {"publish", "save", "theme", "move"} :
        task' = [task EXCEPT ![a] =
          [kind |-> kind, at |-> "read", mark |-> asked', own |-> NoPub, read |-> NoPub,
           before |-> OnOurOrigin]]
  BY DEF Ask
<1>2. asked' \in Mark
  BY PublicationRecordAssumption DEF Ask, RecInv, RecTypeOK, Mark
<1>3. [kind |-> kind, at |-> "read", mark |-> asked', own |-> NoPub, read |-> NoPub,
       before |-> OnOurOrigin] \in Task
  BY <1>2 DEF Task, OnOurOrigin
<1>4. RecTypeOK'
  BY <1>1, <1>2, <1>3 DEF Ask, RecInv, RecTypeOK
<1>5. OnOurOrigin' = OnOurOrigin
  BY DEF Ask, OnOurOrigin
<1>6. task'[a] # NoTask => RequestKnows(a)'
  BY <1>1, <1>5 DEF RecInv, RecTypeOK, RequestKnows
<1>7. \A b \in Asker : b # a => task'[b] = task[b]
  BY <1>1 DEF RecInv, RecTypeOK
<1>8. RequestsKnow'
  BY <1>5, <1>6, <1>7, OthersKnow
<1> QED BY <1>4, <1>8 DEF RecInv, OneMade, Ask

LEMMA FindPublicationKeeps ==
  ASSUME RecInv, NEW a \in Asker, FindPublication(a) PROVE RecInv' /\ OneMade
<1>1. task[a] # NoTask /\ task[a] \in Task /\ OnOurOrigin' = OnOurOrigin
  BY DEF FindPublication, RecInv, RecTypeOK, OnOurOrigin
<1>2. CASE ~GoesOn(task[a].kind) \/ (task[a].kind = "publish" /\ Found # NoPub)
  <2>1. Finished(a)
    BY <1>2 DEF FindPublication
  <2>2. sites' \subseteq PubKey \cup {Loose} /\ hosted' \in BOOLEAN
    <3>1. CASE task[a].kind = "publish"
      <4>1. Found # NoPub /\ PublishedTo(Found)
        BY <1>2, <3>1 DEF FindPublication, GoesOn
      <4> QED BY <4>1, FoundIsThere, PublishedType DEF RecInv, OnOurOrigin
    <3>2. CASE task[a].kind # "publish"
      BY <1>2, <3>2 DEF FindPublication, RecInv, RecTypeOK
    <3> QED BY <3>1, <3>2
  <2>3. RecTypeOK'
    BY <2>1, <2>2, FinishedTask DEF FindPublication, RecInv, RecTypeOK
  <2>4. RequestsKnow'
    BY <1>1, <2>1, FinishedTask, OthersKnow DEF RecInv
  <2> QED BY <2>3, <2>4 DEF RecInv, OneMade, FindPublication
<1>3. CASE ~(~GoesOn(task[a].kind) \/ (task[a].kind = "publish" /\ Found # NoPub))
  <2> DEFINE read == IF Found = NoPub THEN NoPub ELSE pubs[Found]
  <2>1. task' = [task EXCEPT ![a].at = "write", ![a].own = Found, ![a].read = read]
        /\ UNCHANGED <<sites, hosted>>
    BY <1>3 DEF FindPublication
  <2>2. /\ Found \in PubKey \cup {NoPub} /\ read \in Publication \cup {NoPub}
        /\ Found # NoPub => read # NoPub
    BY FoundIsThere DEF RecInv, RecTypeOK, OnOurOrigin
  <2> HIDE DEF read
  <2>3. /\ task'[a] = [task[a] EXCEPT !.at = "write", !.own = Found, !.read = read]
        /\ \A b \in Asker : b # a => task'[b] = task[b]
    BY <2>1 DEF RecInv, RecTypeOK
  <2>4. task'[a] \in Task
    BY <1>1, <2>2, <2>3 DEF Task
  <2>5. task' \in [Asker -> Task \cup {NoTask}]
    BY <2>1, <2>3, <2>4 DEF RecInv, RecTypeOK
  <2>6. RecTypeOK'
    BY <2>1, <2>5 DEF FindPublication, RecInv, RecTypeOK
  <2>7. RequestKnows(a)'
    <3>1. task'[a].before = task[a].before /\ task'[a].own = Found /\ task'[a].read = read
      BY <1>1, <2>3 DEF Task
    <3>2. task[a].before \subseteq OnOurOrigin
      BY <1>1 DEF RecInv, RequestsKnow, RequestKnows
    <3> QED BY <1>1, <2>2, <3>1, <3>2, FoundIsThere DEF RequestKnows
  <2>8. RequestsKnow'
    BY <1>1, <2>3, <2>7, OthersKnow
  <2> QED BY <2>6, <2>8 DEF RecInv, OneMade, FindPublication
<1> QED BY <1>2, <1>3

LEMMA FindFailsKeeps ==
  ASSUME RecInv, NEW a \in Asker, FindFails(a) PROVE RecInv' /\ OneMade
<1>1. Finished(a) /\ OnOurOrigin' = OnOurOrigin
  BY DEF FindFails, Unreadable, OnOurOrigin
<1>2. sites' \subseteq PubKey \cup {Loose} /\ hosted' \in BOOLEAN
  BY PublishedType DEF FindFails, Unreadable, RecInv, RecTypeOK
<1>3. refused' \in 0..MaxRefused
  BY FailsType DEF FindFails, RecInv
<1>4. RecTypeOK'
  BY <1>1, <1>2, <1>3, FinishedTask DEF FindFails, RecInv, RecTypeOK
<1>5. RequestsKnow'
  BY <1>1, FinishedTask, OthersKnow DEF RecInv
<1> QED BY <1>4, <1>5 DEF RecInv, OneMade, FindFails

(* A write puts one record in place, and makes one only for a request that  *)
(* began without.                                                           *)
LEMMA PutMakes ==
  ASSUME RecInv, NEW a \in Asker, task[a] # NoTask, task[a].at = "write", Put(task[a])
  PROVE  /\ pubs' \in [PubKey -> Publication \cup {NoPub}]
         /\ nextPub' \in 1..(LastPub + 1) /\ wanted' \in Publication /\ crossed' \in BOOLEAN
         /\ OnOurOrigin \subseteq OnOurOrigin'
         /\ \A k \in PubKey : pubs[k] = NoPub /\ pubs'[k] # NoPub => task[a].before = {}
<1> DEFINE t == task[a]
<1>1. /\ t \in Task /\ (t.own # NoPub => t.own \in OnOurOrigin /\ t.read # NoPub)
      /\ (t.own = NoPub => t.before = {})
  BY DEF RecInv, RecTypeOK, RequestsKnow, RequestKnows
<1>2. Rebuilt(t) \in Publication
  BY <1>1, RebuiltType
<1>3. Target(t) \in PubKey /\ pubs' = [pubs EXCEPT ![Target(t)] = Rebuilt(t)]
  BY DEF Put
<1>4. pubs' \in [PubKey -> Publication \cup {NoPub}]
  BY <1>2, <1>3 DEF RecInv, RecTypeOK
<1>5. nextPub' \in 1..(LastPub + 1)
  BY <1>3, PublicationRecordAssumption DEF Put, Target, PubKey, RecInv, RecTypeOK
<1>6. wanted' \in Publication
  BY <1>1 DEF Put, RecInv, RecTypeOK, Task, Publication
<1>7. crossed' \in BOOLEAN
  BY DEF Put, RecInv, RecTypeOK
<1>8. OnOurOrigin \subseteq OnOurOrigin'
  BY <1>2, <1>3, NoPubAssumption DEF OnOurOrigin, RecInv, RecTypeOK
<1>9. \A k \in PubKey : pubs[k] = NoPub /\ pubs'[k] # NoPub => t.before = {}
  BY <1>1, <1>3 DEF Target, OnOurOrigin, RecInv, RecTypeOK
<1> QED BY <1>4, <1>5, <1>6, <1>7, <1>8, <1>9

LEMMA WritePublicationKeeps ==
  ASSUME RecInv, NEW a \in Asker, WritePublication(a) PROVE RecInv' /\ OneMade
<1>1. task[a] # NoTask /\ task[a].at = "write" /\ task[a] \in Task /\ Finished(a)
  BY DEF WritePublication, RecInv, RecTypeOK
<1>2. /\ pubs' \in [PubKey -> Publication \cup {NoPub}]
      /\ nextPub' \in 1..(LastPub + 1) /\ wanted' \in Publication /\ crossed' \in BOOLEAN
      /\ OnOurOrigin \subseteq OnOurOrigin'
      /\ \A k \in PubKey : pubs[k] = NoPub /\ pubs'[k] # NoPub => task[a].before = {}
  <2>1. CASE Put(task[a])
    BY <1>1, <2>1, PutMakes
  <2>2. CASE UNCHANGED <<pubs, nextPub, wanted, crossed>>
    BY <2>2 DEF RecInv, RecTypeOK, OnOurOrigin
  <2> QED BY <2>1, <2>2 DEF WritePublication
<1>3. refused' \in 0..MaxRefused
  BY FailsType DEF WritePublication, RecInv, RecTypeOK
<1>4. sites' \subseteq PubKey \cup {Loose} /\ hosted' \in BOOLEAN
  <2>1. CASE UNCHANGED <<sites, hosted>>
    BY <2>1 DEF RecInv, RecTypeOK
  <2>2. CASE PublishedTo(Loose)
    BY <2>2, PublishedType DEF RecInv
  <2>3. CASE Put(task[a]) /\ PublishedTo(Target(task[a]))
    <3>1. Target(task[a]) \in PubKey
      BY <2>3 DEF Put
    <3> QED BY <2>3, <3>1, PublishedType DEF RecInv
  <2> QED BY <2>1, <2>2, <2>3 DEF WritePublication
<1>5. RecTypeOK'
  BY <1>1, <1>2, <1>3, <1>4, FinishedTask DEF WritePublication, RecInv, RecTypeOK
<1>6. RequestsKnow'
  BY <1>1, <1>2, FinishedTask, OthersKnow DEF RecInv
<1>7. task'[a] = NoTask
  BY <1>1, FinishedTask DEF RecInv
<1>8. OneMade
  BY <1>1, <1>2, <1>7 DEF OneMade
<1> QED BY <1>5, <1>6, <1>8 DEF RecInv

LEMMA RecNextInv == ASSUME RecInv, [RecNext]_pubVars PROVE RecInv' /\ (OneMade \/ UNCHANGED pubVars)
<1>1. ASSUME NEW a \in Asker, Ask(a) \/ FindPublication(a) \/ FindFails(a) \/ WritePublication(a)
      PROVE  RecInv' /\ OneMade
  BY <1>1, AskKeeps, FindPublicationKeeps, FindFailsKeeps, WritePublicationKeeps
<1>2. CASE UNCHANGED pubVars
  BY <1>2 DEF pubVars, RecInv, RecTypeOK, RequestsKnow, RequestKnows, OnOurOrigin
<1> QED BY <1>1, <1>2 DEF RecNext

(* Every record, request and counter keeps its type.                        *)
THEOREM RecTypeCorrect == RecSpec => []RecTypeOK
<1>1. RecInv /\ [RecNext]_pubVars => RecInv'
  BY RecNextInv
<1>2. RecInv => RecTypeOK
  BY DEF RecInv
<1> QED BY RecInitInv, <1>1, <1>2, PTL DEF RecSpec

(* However many requests a writer makes at once, and whichever reads and    *)
(* answers fail: a record is made only by a request that began when there   *)
(* was none.                                                                *)
THEOREM OnePublicationHolds == RecSpec => OnePublication
<1>1. RecInv /\ [RecNext]_pubVars => RecInv'
  BY RecNextInv
<1>2. RecInv /\ [RecNext]_pubVars => [OneMade]_pubVars
  BY RecNextInv
<1> QED BY RecInitInv, <1>1, <1>2, PTL DEF RecSpec, OnePublication

-----------------------------------------------------------------------------
(* The writer's settings.  Keys are handed out in order; nothing is wanted  *)
(* of a publication before there is one; and there is one at most as long   *)
(* as no request wrote over another it had not read.                        *)
KeysInOrder == \A k \in OnOurOrigin : k < nextPub
NothingWanted == OnOurOrigin = {} => wanted = [name |-> 0, theme |-> 0, canonical |-> TRUE]
OneUncrossed == ~crossed => \A j, k \in OnOurOrigin : j = k

SettingsInv == RecInv /\ KeysInOrder /\ NothingWanted /\ OneUncrossed /\ SettingsKept

(* The only record is the one that is found.                                *)
LEMMA OnlyOneFound ==
  ASSUME NEW k \in PubKey, OnOurOrigin = {k} PROVE Found = k
BY FoundIsThere

(* A write that crosses no other leaves one record, which says what is      *)
(* wanted.                                                                  *)
LEMMA PutSettles ==
  ASSUME SettingsInv, NEW a \in Asker, task[a] # NoTask, task[a].at = "write", Put(task[a])
  PROVE  /\ OnOurOrigin' = OnOurOrigin \cup {Target(task[a])} /\ Target(task[a]) \in PubKey
         /\ \A k \in OnOurOrigin' : k < nextPub'
         /\ ~crossed' => /\ ~crossed
                         /\ OnOurOrigin \subseteq {Target(task[a])}
                         /\ pubs'[Target(task[a])] = wanted'
<1> DEFINE t == task[a]
           g == Target(t)
<1>1. /\ t \in Task /\ (t.own # NoPub => t.own \in OnOurOrigin /\ t.read # NoPub)
      /\ (t.own = NoPub => t.before = {})
  BY DEF SettingsInv, RecInv, RecTypeOK, RequestsKnow, RequestKnows
<1>2. Rebuilt(t) \in Publication /\ Rebuilt(t) # NoPub
  BY <1>1, RebuiltType, NoPubAssumption
<1>3. g \in PubKey /\ pubs' = [pubs EXCEPT ![g] = Rebuilt(t)]
  BY DEF Put
<1>4. pubs'[g] = Rebuilt(t) /\ \A k \in PubKey : k # g => pubs'[k] = pubs[k]
  BY <1>3 DEF SettingsInv, RecInv, RecTypeOK
<1>5. OnOurOrigin' = OnOurOrigin \cup {g}
  BY <1>2, <1>3, <1>4 DEF OnOurOrigin
<1>6. \A k \in OnOurOrigin' : k < nextPub'
  <2>1. nextPub \in Nat /\ \A k \in PubKey : k \in Nat
    BY PublicationRecordAssumption DEF SettingsInv, RecInv, RecTypeOK, PubKey
  <2>2. \A k \in OnOurOrigin : k \in PubKey /\ k < nextPub
    BY DEF SettingsInv, KeysInOrder, OnOurOrigin
  <2>3. CASE t.own = NoPub
    <3>1. g = nextPub /\ nextPub' = nextPub + 1
      BY <2>3 DEF Put, Target
    <3> QED BY <1>5, <2>1, <2>2, <3>1
  <2>4. CASE t.own # NoPub
    <3>1. g \in OnOurOrigin /\ nextPub' = nextPub
      BY <1>1, <2>4 DEF Put, Target
    <3> QED BY <1>5, <2>2, <3>1
  <2> QED BY <2>3, <2>4
<1>7. ASSUME ~crossed'
      PROVE  ~crossed /\ OnOurOrigin \subseteq {g} /\ Base(t) = wanted
  <2>1. ~crossed /\ IF t.own = NoPub THEN OnOurOrigin \ t.before = {} ELSE pubs[t.own] = t.read
    BY <1>7 DEF Put
  <2>2. CASE t.own = NoPub
    <3>1. OnOurOrigin = {}
      BY <1>1, <2>1, <2>2
    <3> QED BY <2>1, <2>2, <3>1 DEF Base, SettingsInv, NothingWanted
  <2>3. CASE t.own # NoPub
    <3>1. g = t.own /\ g \in OnOurOrigin /\ pubs[g] = t.read /\ Base(t) = t.read
      BY <1>1, <2>1, <2>3 DEF Target, Base
    <3>2. OnOurOrigin = {g}
      BY <2>1, <3>1 DEF SettingsInv, OneUncrossed
    <3>3. Found = g /\ Found # NoPub
      BY <1>3, <3>2, OnlyOneFound, NoPubAssumption
    <3>4. pubs[g] = wanted
      BY <2>1, <3>3 DEF SettingsInv, SettingsKept
    <3> QED BY <2>1, <3>1, <3>2, <3>4
  <2> QED BY <2>2, <2>3
<1>8. ASSUME ~crossed' PROVE Rebuilt(t) = wanted'
  <2>1. t.kind \in {"publish", "save", "theme", "move"} /\ Base(t) = wanted
    BY <1>1, <1>7, <1>8 DEF Task
  <2>2. CASE t.kind = "save"
    BY <2>1, <2>2 DEF Put, Rebuilt, Named
  <2>3. CASE t.kind = "theme"
    BY <2>1, <2>3 DEF Put, Rebuilt, Themed
  <2>4. CASE t.kind = "move"
    BY <2>1, <2>4 DEF Put, Rebuilt, Moved
  <2>5. CASE t.kind = "publish"
    BY <2>1, <2>5 DEF Put, Rebuilt
  <2> QED BY <2>1, <2>2, <2>3, <2>4, <2>5
<1> QED BY <1>3, <1>4, <1>5, <1>6, <1>7, <1>8

(* Where no record is written, only what documents name may change.         *)
LEMMA UnwrittenSettles ==
  ASSUME SettingsInv, UNCHANGED <<pubs, nextPub, wanted, crossed>>, RecInv',
         ~crossed => sites' \subseteq {Found, Loose}
  PROVE  SettingsInv'
<1>1. OnOurOrigin' = OnOurOrigin /\ Found' = Found
  BY DEF OnOurOrigin, Found
<1> QED BY <1>1 DEF SettingsInv, KeysInOrder, NothingWanted, OneUncrossed, SettingsKept

LEMMA SettingsNext == ASSUME SettingsInv, [RecNext]_pubVars PROVE SettingsInv'
<1>0. RecInv'
  BY RecNextInv DEF SettingsInv
<1>1. ~crossed => sites \subseteq {Found, Loose}
  BY DEF SettingsInv, SettingsKept
<1>2. CASE UNCHANGED pubVars
  BY <1>0, <1>1, <1>2, UnwrittenSettles DEF pubVars
<1>3. ASSUME NEW a \in Asker, Ask(a) PROVE SettingsInv'
  BY <1>0, <1>1, <1>3, UnwrittenSettles DEF Ask
<1>4. ASSUME NEW a \in Asker, FindPublication(a) PROVE SettingsInv'
  BY <1>0, <1>1, <1>4, UnwrittenSettles DEF FindPublication, PublishedTo
<1>5. ASSUME NEW a \in Asker, FindFails(a) PROVE SettingsInv'
  BY <1>0, <1>1, <1>5, UnwrittenSettles DEF FindFails, Unreadable, PublishedTo
<1>6. ASSUME NEW a \in Asker, WritePublication(a) PROVE SettingsInv'
  <2> DEFINE t == task[a]
             g == Target(t)
  <2>0. t # NoTask /\ t.at = "write"
    BY <1>6 DEF WritePublication
  <2>1. CASE ~Put(t)
    <3>1. UNCHANGED <<pubs, nextPub, wanted, crossed>>
      BY <1>6, <2>1 DEF WritePublication
    <3>2. sites' = sites \/ sites' = sites \cup {Loose}
      BY <1>6, <2>1 DEF WritePublication, PublishedTo
    <3> QED BY <1>0, <1>1, <3>1, <3>2, UnwrittenSettles
  <2>2. CASE Put(t)
    <3>1. /\ OnOurOrigin' = OnOurOrigin \cup {g} /\ g \in PubKey
          /\ KeysInOrder'
          /\ ~crossed' => ~crossed /\ OnOurOrigin \subseteq {g} /\ pubs'[g] = wanted'
      BY <2>0, <2>2, PutSettles DEF KeysInOrder
    <3> HIDE DEF g
    <3>2. NothingWanted'
      BY <3>1 DEF NothingWanted
    <3>3. OneUncrossed'
      BY <3>1 DEF OneUncrossed
    <3>4. SettingsKept'
      <4> SUFFICES ASSUME ~crossed'
                   PROVE  pubs'[Found'] = wanted' /\ sites' \subseteq {Found', Loose}
        BY DEF SettingsKept
      <4>1. OnOurOrigin' = {g} /\ (OnOurOrigin = {} \/ OnOurOrigin = {g})
        BY <3>1
      <4>2. Found' = g
        <5>1. g <= g
          BY <3>1, PublicationRecordAssumption DEF PubKey
        <5>2. \E k \in OnOurOrigin' : \A j \in OnOurOrigin' : k <= j
          BY <4>1, <5>1
        <5>3. (CHOOSE k \in OnOurOrigin' : \A j \in OnOurOrigin' : k <= j) \in OnOurOrigin'
          BY <5>2
        <5>4. Found' = CHOOSE k \in OnOurOrigin' : \A j \in OnOurOrigin' : k <= j
          BY <4>1 DEF Found
        <5> QED BY <4>1, <5>3, <5>4
      <4>3. sites \subseteq {g, Loose}
        <5>1. CASE OnOurOrigin = {g}
          BY <1>1, <3>1, <5>1, OnlyOneFound
        <5>2. CASE OnOurOrigin = {}
          <6>1. Found = NoPub
            BY <5>2, FoundIsThere
          <6> QED BY <1>1, <3>1, <6>1, NoPubAssumption DEF SettingsInv, RecInv, RecTypeOK
        <5> QED BY <4>1, <5>1, <5>2
      <4>4. sites' = sites \/ sites' = sites \cup {g} \/ sites' = sites \cup {Loose}
        BY <1>6, <2>2 DEF WritePublication, PublishedTo, g
      <4> QED BY <3>1, <4>2, <4>3, <4>4
    <3> QED BY <1>0, <3>1, <3>2, <3>3, <3>4 DEF SettingsInv
  <2> QED BY <2>1, <2>2
<1> QED BY <1>2, <1>3, <1>4, <1>5, <1>6 DEF RecNext

LEMMA SettingsInit == RecInit => SettingsInv
<1> SUFFICES ASSUME RecInit PROVE SettingsInv
  OBVIOUS
<1>0. PICK old \in {NoPub, [name |-> 0, theme |-> 0, canonical |-> FALSE]} :
        /\ pubs = [k \in PubKey |-> IF k = 1 THEN old ELSE NoPub]
        /\ nextPub = IF old = NoPub THEN 1 ELSE 2
        /\ wanted = [name |-> 0, theme |-> 0, canonical |-> old = NoPub]
  BY DEF RecInit
<1>1. 1 \in PubKey /\ sites = {}
  BY PublicationRecordAssumption DEF PubKey, RecInit
<1>2. RecInv
  BY RecInitInv
<1>3. CASE old = NoPub
  <2>1. OnOurOrigin = {} /\ Found = NoPub /\ wanted = [name |-> 0, theme |-> 0, canonical |-> TRUE]
    BY <1>0, <1>3 DEF OnOurOrigin, Found
  <2> QED BY <1>1, <1>2, <2>1
          DEF SettingsInv, KeysInOrder, NothingWanted, OneUncrossed, SettingsKept
<1>4. CASE old # NoPub
  <2>1. OnOurOrigin = {1} /\ nextPub = 2 /\ pubs[1] = wanted
    BY <1>0, <1>1, <1>4 DEF OnOurOrigin
  <2>2. Found = 1
    BY <1>1, <2>1, OnlyOneFound
  <2> QED BY <1>1, <1>2, <2>1, <2>2
          DEF SettingsInv, KeysInOrder, NothingWanted, OneUncrossed, SettingsKept
<1> QED BY <1>3, <1>4

(* Unless two requests crossed, the publication that is found says what the *)
(* writer last asked of its name, colours and origin, and every document    *)
(* names it: no save, theme or move undoes another.                         *)
THEOREM SettingsKeptHolds == RecSpec => []SettingsKept
<1>1. SettingsInv /\ [RecNext]_pubVars => SettingsInv'
  BY SettingsNext
<1>2. SettingsInv => SettingsKept
  BY DEF SettingsInv
<1> QED BY SettingsInit, <1>1, <1>2, PTL DEF RecSpec

-----------------------------------------------------------------------------
(* All of them, in the composition the run checks.                          *)

recordsVars == <<docVars, pageVars, pubVars, subVars, edVars, talkVars, countVars, part>>

Parts == {"documents", "pages", "publication", "subscription", "editor", "conversation", "counts"}

LEMMA RecordsSteps ==
  ASSUME [RecordsNext]_recordsVars
  PROVE  /\ [TalkNext]_talkVars /\ [CountNext]_countVars /\ [DocNext]_docVars
         /\ [PageNext]_pageVars /\ [RecNext]_pubVars /\ [SubNext]_subVars /\ [EdNext]_edVars
BY DEF RecordsNext, recordsVars

(* What readers and writers are shown of the network is what it says: no    *)
(* reply it has hidden, no other post's count.                              *)
THEOREM ReadsAreTheirsHolds == RecordsSpec => []ReadsAreTheirs
<1>1. RecordsInit => TalkInv /\ CountInv
  BY TalkInitInv, CountInitInv DEF RecordsInit
<1>2. TalkInv /\ CountInv /\ [RecordsNext]_recordsVars => TalkInv' /\ CountInv'
  BY RecordsSteps, TalkNextInv, CountNextInv
<1>3. TalkInv /\ CountInv => ReadsAreTheirs
  BY CountInvImplies DEF TalkInv, ReadsAreTheirs
<1> QED BY <1>1, <1>2, <1>3, PTL DEF RecordsSpec, recordsVars

(* Search shows the posts that are live, as they are, and when the backfill *)
(* calls itself done it shows all of them.                                  *)
THEOREM SearchIsTrueHolds == RecordsSpec => []SearchIsTrue
<1>1. RecordsInit => SearchInv
  BY DocInitInv DEF RecordsInit
<1>2. SearchInv /\ [RecordsNext]_recordsVars => SearchInv'
  BY RecordsSteps, SearchNextInv
<1>3. SearchInv => SearchIsTrue
  BY SearchInvGives DEF SearchIsTrue
<1> QED BY <1>1, <1>2, <1>3, PTL DEF RecordsSpec, recordsVars

(* Whichever part a behaviour is of, its records, rows, pages, requests,    *)
(* controls, replies and counts have their types.                           *)
THEOREM RecordsTypeHolds == RecordsSpec => []RecordsTypeOK
<1> DEFINE Inv == SearchInv /\ PageInv /\ RecInv /\ SubInv /\ EditorInv /\ TalkInv /\ CountInv
<1>1. RecordsInit => Inv
  BY DocInitInv, PageInitInv, RecInitInv, SubInitInv, EditorInitInv, TalkInitInv, CountInitInv
  DEF RecordsInit
<1>2. Inv /\ [RecordsNext]_recordsVars => Inv'
  BY RecordsSteps, SearchNextInv, PageNextInv, RecNextInv, SubNextInv, EditorNextInv, TalkNextInv,
     CountNextInv
<1>3. Inv /\ part \in Parts => RecordsTypeOK
  BY EditorInvSays
  DEF Parts, RecordsTypeOK, SearchInv, MergeInv, PageInv, RecInv, SubInv, TalkInv, CountInv
<1>4. RecordsInit => part \in Parts
  BY DEF RecordsInit, Parts
<1>5. part \in Parts /\ [RecordsNext]_recordsVars => (part \in Parts)'
  BY DEF RecordsNext, recordsVars
<1> HIDE DEF Inv
<1> QED BY <1>1, <1>2, <1>3, <1>4, <1>5, PTL DEF RecordsSpec, recordsVars
(* What each part keeps by itself it keeps in the composition too: pages    *)
(* stored after a purge, what is said to be missing, the settings, the      *)
(* subscription control and the pictures of a saved body.                   *)
THEOREM RecordsKeepTheirs ==
  RecordsSpec => [](PurgedIsFresh /\ MissingIsTrue /\ SettingsKept /\ ControlIsTrue /\ PicturesKept)
<1> DEFINE Inv == PageInv /\ SettingsInv /\ SubInv /\ EditorInv
<1>1. RecordsInit => Inv
  BY PageInitInv, SettingsInit, SubInitInv, EditorInitInv DEF RecordsInit
<1>2. Inv /\ [RecordsNext]_recordsVars => Inv'
  BY RecordsSteps, PageNextInv, SettingsNext, SubNextInv, EditorNextInv
<1>3. Inv => PurgedIsFresh /\ MissingIsTrue /\ SettingsKept /\ PicturesKept
  BY EditorInvSays DEF PageInv, SettingsInv
<1>4. Inv => ControlIsTrue
  BY DEF SubInv, ControlsSound, Unheard, ControlIsTrue, RightAbout, SubTypeOK, ControlState
<1> HIDE DEF Inv
<1> QED BY <1>1, <1>2, <1>3, <1>4, PTL DEF RecordsSpec, recordsVars

(* So do its steps: no write of a record undoes another's, and no second    *)
(* publication is made.                                                     *)
THEOREM RecordsStepsKeepTheirs == RecordsSpec => NothingUndone /\ OnePublication
<1> DEFINE Inv == SearchInv /\ RecInv
<1>1. RecordsInit => Inv
  BY DocInitInv, RecInitInv DEF RecordsInit
<1>2. Inv /\ [RecordsNext]_recordsVars => Inv'
  BY RecordsSteps, SearchNextInv, RecNextInv
<1>3. Inv /\ [RecordsNext]_recordsVars => [MergeStep]_docVars
  BY RecordsSteps, StepUndoesNothing
<1>4. Inv /\ [RecordsNext]_recordsVars => [OneMade]_pubVars
  BY RecordsSteps, RecNextInv
<1> HIDE DEF Inv
<1> QED BY <1>1, <1>2, <1>3, <1>4, PTL DEF RecordsSpec, recordsVars, NothingUndone, OnePublication
=============================================================================
