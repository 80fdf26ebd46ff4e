----------------------------- MODULE PostsManager -----------------------------
(***************************************************************************)
(* The dashboard: its loader, which reads the writer's repo, drafts and    *)
(* queue each on its own; the three lists made of them; the buttons on     *)
(* their rows, each a form post that comes back to a URL telling its       *)
(* outcome; and that outcome's one reading, into notices and analytics.    *)
(* What the handlers do to the tables is in ScheduledPublishing and        *)
(* Documents; here an act is done at once or refused.                      *)
(***************************************************************************)
EXTENDS Integers, FiniteSets, FiniteSetsExt

CONSTANTS
  LastPiece,    \* bound: the writer's pieces are 1..LastPiece
  ListedAPage,  \* MAX_LIST_RECORDS
  MaxElsewhere, \* bound: what happens outside this page
  MaxFlaked,    \* bound: reads that fail
  MaxPosts,     \* bound: forms posted, reloads and pages turned
  NoScreen, NoUrl, Unread

ASSUME ManagerAssumption ==
  /\ {LastPiece, ListedAPage} \subseteq Nat \ {0}
  /\ {MaxElsewhere, MaxFlaked, MaxPosts} \subseteq Nat

Piece == 1..LastPiece

VARIABLES
  works,    \* the writer's pieces, wherever they are
  load,     \* the page being loaded
  screen,   \* the page shown
  behind,   \* where Back goes
  stirred,  \* history: pieces changed since the shown page's loading began
  captured, \* post_published events, by piece
  known,    \* history: pieces whose publish was answered as announced, untouched since
  elsewhere, flaked, posts

manVars == <<works, load, screen, behind, stirred, captured, known, elsewhere, flaked, posts>>

(* rank: the record's key, in the order the pieces went out.  card: the     *)
(* announcement the record names, and whether Bluesky still has it.         *)
Work == [at : {"none", "draft", "queued", "failed", "out", "removed"},
         card : {"none", "up", "gone"}, rank : 0..LastPiece]

(* The one-shot parameters.  told: those that stay in the URL.              *)
OneShot == [published : 0..LastPiece, announced : BOOLEAN, scheduled : BOOLEAN]
NoOneShot == [published |-> 0, announced |-> FALSE, scheduled |-> FALSE]
Link == [cursor : 0..LastPiece, tab : {"published", "drafts", "scheduled"}, outcome : OneShot,
        told : {"none", "deleted", "cancelled", "already announced", "refused"}]
FirstPage == [cursor |-> 0, tab |-> "published", outcome |-> NoOneShot, told |-> "none"]

(* What the reads return.  noted: rows whose record names an announcement.  *)
RepoList == [rows : SUBSET Piece, noted : SUBSET Piece, next : 0..LastPiece]
Queue == [pending : SUBSET Piece, failed : SUBSET Piece]
Lists == [repo : RepoList \cup {Unread}, drafts : (SUBSET Piece) \cup {Unread},
          queue : Queue \cup {Unread}]

(* kept: the outcome the mounted page holds.  consumed: its ref.            *)
Load == [url : Link, waits : SUBSET {"repo", "drafts", "queue"}, lists : Lists,
         kept : OneShot \cup {Unread}, consumed : OneShot]
Screen == [url : Link, lists : Lists, gone : SUBSET Piece, kept : OneShot, consumed : OneShot,
           landing : BOOLEAN]

ASSUME ManagerNullsAssumption ==
  /\ NoScreen \notin Load \cup Screen /\ NoUrl \notin Link
  /\ Unread \notin RepoList \cup Queue /\ \A S \in SUBSET Piece : S # Unread

ManInit ==
  /\ works = [p \in Piece |-> [at |-> "none", card |-> "none", rank |-> 0]]
  /\ load = NoScreen /\ screen = NoScreen /\ behind = NoUrl /\ stirred = {}
  /\ captured = [p \in Piece |-> 0] /\ known = {} /\ elsewhere = 0 /\ flaked = 0 /\ posts = 0

-----------------------------------------------------------------------------
(* The loader.                                                              *)

Out == {p \in Piece : works[p].at = "out"}
At(place) == {p \in Piece : works[p].at = place}

NothingRead == [repo |-> Unread, drafts |-> Unread, queue |-> Unread]

Begins(url, kept, consumed) ==
  /\ load' = [url |-> url, waits |-> {"repo", "drafts", "queue"}, lists |-> NothingRead,
              kept |-> kept, consumed |-> consumed]
  /\ screen' = NoScreen /\ stirred' = {}

(* A page loaded afresh takes the outcome from its URL.                     *)
Visit(url) == Begins(url, url.outcome, NoOneShot)

(* listRecordsPage: the newest past the cursor; a full page has a next.     *)
Listing(cursor) ==
  LET past == {p \in Out : cursor = 0 \/ works[p].rank < cursor}
      rows == {p \in past : Cardinality({q \in past : works[q].rank > works[p].rank}) < ListedAPage}
  IN  [rows |-> rows, noted |-> {p \in rows : works[p].card # "none"},
       next |-> IF Cardinality(rows) = ListedAPage
                THEN works[CHOOSE p \in rows : \A q \in rows : works[p].rank <= works[q].rank].rank
                ELSE 0]

Lookup(from) ==
  CASE from = "repo" -> Listing(load.url.cursor)
    [] from = "drafts" -> At("draft") \cup At("queued") \cup At("failed")
    [] from = "queue" -> [pending |-> At("queued"), failed |-> At("failed")]

(* Slip: a list that cannot be read is an empty one.                        *)
FlakesEmpty(from) ==
  CASE from = "repo" -> Unread
    [] from = "drafts" -> Unread
    [] from = "queue" -> [pending |-> {}, failed |-> {}]

Flakes(from) == Unread

ReadList(from) ==
  /\ load # NoScreen /\ from \in load.waits
  /\ \E flakes \in BOOLEAN :
       /\ flakes => flaked < MaxFlaked
       /\ flaked' = IF flakes THEN flaked + 1 ELSE flaked
       /\ load' = [load EXCEPT !.waits = @ \ {from},
                               !.lists[from] = IF flakes THEN Flakes(from) ELSE Lookup(from)]
  /\ UNCHANGED <<works, screen, behind, stirred, captured, known, elsewhere, posts>>

(* The counts are asked for once the rows are there; not to be had, nothing *)
(* is said of any announcement.                                             *)
Show ==
  /\ load # NoScreen /\ load.waits = {}
  /\ \E asked \in BOOLEAN :
       /\ ~asked => flaked < MaxFlaked
       /\ flaked' = IF asked THEN flaked ELSE flaked + 1
       /\ screen' = [url |-> load.url, lists |-> load.lists, kept |-> load.kept,
                     consumed |-> load.consumed, landing |-> FALSE,
                     gone |-> IF asked /\ load.lists.repo # Unread
                              THEN {p \in load.lists.repo.noted : works[p].card = "gone"} ELSE {}]
  /\ load' = NoScreen
  /\ UNCHANGED <<works, behind, stirred, captured, known, elsewhere, posts>>

-----------------------------------------------------------------------------
(* Elsewhere: another tab, the editor, the cron, Bluesky.                   *)

Befalls(p, work) == /\ works' = [works EXCEPT ![p] = work] /\ stirred' = stirred \cup {p}
                      /\ known' = known \ {p}
NextRank == Max({works[p].rank : p \in Piece}) + 1
GoesOut(p, card) == [at |-> "out", card |-> card, rank |-> NextRank]

(* A cron's attempt that landed and was not heard of may have announced.    *)
Elsewhere(p) ==
  /\ elsewhere < MaxElsewhere /\ elsewhere' = elsewhere + 1
  /\ LET w == works[p] IN
     \/ w.at = "none" /\ Befalls(p, [w EXCEPT !.at = "draft"])
     \/ w.at = "draft" /\ \E to \in {"queued", "removed"} : Befalls(p, [w EXCEPT !.at = to])
     \/ w.at = "queued" /\ w.card = "none" /\ \E card \in {"none", "up"} :
          Befalls(p, [w EXCEPT !.at = "failed", !.card = card])
     \/ w.at \in {"draft", "queued"} /\ \E card \in {"none", "up"} : Befalls(p, GoesOut(p, card))
     \/ w.at = "out" /\ w.card # "up" /\ Befalls(p, [w EXCEPT !.card = "up"])
     \/ w.at = "out" /\ w.card = "up" /\ Befalls(p, [w EXCEPT !.card = "gone"])
     \/ w.at = "out" /\ Befalls(p, [w EXCEPT !.at = "removed"])
  /\ UNCHANGED <<load, screen, behind, captured, flaked, posts>>

-----------------------------------------------------------------------------
(* The page's forms.  Each leaves the page, and the answer is a fresh one.  *)

SendForm == posts < MaxPosts /\ posts' = posts + 1

Depart(url) == Visit(url) /\ behind' = screen.url

Tells(told, tab) == [FirstPage EXCEPT !.told = told, !.tab = tab]

Fulfil(p, work, url) ==
  /\ works' = [works EXCEPT ![p] = work] /\ Depart(url)
  /\ LET heard == url.outcome.announced \/ url.told = "already announced"
     IN  known' = IF url.outcome.published = p /\ heard THEN known \cup {p} ELSE known
Refuse(url) == UNCHANGED <<works, known>> /\ Depart(url)

(* announceDocument, without onlyOnce.                                      *)
Announce(p) ==
  IF works[p].at = "out"
  THEN Fulfil(p, [works[p] EXCEPT !.card = "up"], [FirstPage EXCEPT !.outcome.announced = TRUE])
  ELSE Refuse(Tells("refused", "published"))

(* Deleting what is gone is deleting it.                                    *)
DeletePost(p) ==
  Fulfil(p, IF works[p].at = "out" THEN [works[p] EXCEPT !.at = "removed"] ELSE works[p],
       Tells("deleted", "published"))

(* afterPublish: with an announcement asked for, noted, refused as one      *)
(* there already, or failed.                                                *)
Published(p) ==
  LET out == [FirstPage EXCEPT !.outcome.published = p]
      w   == works[p]
  IN  \/ Fulfil(p, GoesOut(p, w.card), out)
      \/ w.card = "none" /\ Fulfil(p, GoesOut(p, "up"), [out EXCEPT !.outcome.announced = TRUE])
      \/ w.card # "none" /\ Fulfil(p, GoesOut(p, w.card), [out EXCEPT !.told = "already announced"])
      \/ w.card = "none" /\ Fulfil(p, GoesOut(p, "none"), [out EXCEPT !.told = "refused"])

PublishNow(p) ==
  IF works[p].at \in {"draft", "queued", "failed"} THEN Published(p)
  ELSE Refuse(Tells("refused", "scheduled"))

(* A cancel that matches nothing reports success.                           *)
CancelQueued(p) ==
  IF works[p].at \in {"queued", "failed"}
  THEN Fulfil(p, [works[p] EXCEPT !.at = "draft"], Tells("cancelled", "scheduled"))
  ELSE Refuse(Tells("cancelled", "scheduled"))

(* The editor, reached from a draft's row, and back.                        *)
Edited(p) ==
  IF works[p].at = "draft"
  THEN \/ Published(p)
       \/ Fulfil(p, [works[p] EXCEPT !.at = "queued"],
               [FirstPage EXCEPT !.outcome.scheduled = TRUE, !.tab = "scheduled"])
  ELSE Refuse(Tells("refused", "drafts"))

(* Asked without leaving the page, which is then loaded again as it stands. *)
DeleteDraftRow(p) ==
  /\ works' = IF works[p].at \in {"draft", "queued", "failed"}
              THEN [works EXCEPT ![p].at = "removed"] ELSE works
  /\ Begins(screen.url, screen.kept, screen.consumed) /\ UNCHANGED <<behind, known>>

OnPublishedRow(p) == /\ screen.lists.repo # Unread /\ p \in screen.lists.repo.rows
                     /\ Announce(p) \/ DeletePost(p)
OnQueueRow(p) == /\ screen.lists.queue # Unread
                 /\ p \in screen.lists.queue.pending \cup screen.lists.queue.failed
                 /\ PublishNow(p) \/ CancelQueued(p)
OnDraftRow(p) == /\ screen.lists.drafts # Unread /\ p \in screen.lists.drafts
                 /\ Edited(p) \/ DeleteDraftRow(p)

PressRow(p) ==
  /\ screen # NoScreen /\ ~screen.landing /\ SendForm
  /\ OnPublishedRow(p) \/ OnQueueRow(p) \/ OnDraftRow(p)
  /\ UNCHANGED <<captured, elsewhere, flaked>>

-----------------------------------------------------------------------------
(* The URL and its outcome.                                                 *)

(* Slip: some of the outcome stays.                                         *)
StrippedHalf(url) == [url EXCEPT !.outcome.announced = FALSE, !.outcome.scheduled = FALSE]

(* withoutOutcomeParams                                                     *)
Stripped(url) == [url EXCEPT !.outcome = NoOneShot]

(* Slip: the effect's second run does it all again.                         *)
UnreadYet(s) == s.url.outcome # NoOneShot

Unconsumed(s) == s.url.outcome # NoOneShot /\ s.consumed # s.url.outcome

(* The effect may run more than once before the URL it asked for lands.     *)
ReadOutcome ==
  /\ screen # NoScreen /\ Unconsumed(screen)
  /\ LET outcome == screen.url.outcome IN
     /\ screen' = [screen EXCEPT !.consumed = outcome, !.kept = outcome, !.landing = TRUE]
     /\ captured' = [p \in Piece |-> IF p = outcome.published /\ captured[p] <= LastPiece
                                     THEN captured[p] + 1 ELSE captured[p]]
  /\ UNCHANGED <<works, load, behind, stirred, known, elsewhere, flaked, posts>>

(* Slip: the stripped URL is a new entry.                                   *)
Pushes == screen.url

Replaces == behind

StripLands ==
  /\ screen # NoScreen /\ screen.landing
  /\ behind' = Replaces
  /\ screen' = [screen EXCEPT !.url = Stripped(@), !.landing = FALSE]
  /\ UNCHANGED <<works, load, stirred, captured, known, elsewhere, flaked, posts>>

OnPage == screen.lists
QueueRows == IF OnPage.queue = Unread THEN {} ELSE OnPage.queue.pending \cup OnPage.queue.failed

(* Slip: an unread queue is one with nothing in it.                         *)
StripOfFull == screen.url.tab = "scheduled" \/ QueueRows # {}

(* The Scheduled tab is on the strip.                                       *)
OnStrip == screen.url.tab = "scheduled" \/ OnPage.queue = Unread \/ QueueRows # {}

(* A tab is turned to in place, if it is on the strip.                      *)
TurnTab(tab) ==
  /\ screen # NoScreen /\ ~Unconsumed(screen) /\ ~screen.landing /\ SendForm
  /\ screen.url.tab # tab /\ (tab = "scheduled" => OnStrip)
  /\ screen' = [screen EXCEPT !.url.tab = tab]
  /\ UNCHANGED <<works, load, behind, stirred, captured, known, elsewhere, flaked>>

(* A visit, a reload, Back, or a turn to older posts, which keeps the page  *)
(* (and the URL's parameters: a mounted page has read them before a click). *)
OpenPage ==
  /\ load = NoScreen /\ SendForm
  /\ \/ screen = NoScreen /\ Visit(FirstPage) /\ UNCHANGED behind
     \/ /\ screen # NoScreen /\ ~screen.landing
        /\ \/ Visit(screen.url) /\ UNCHANGED behind
           \/ behind # NoUrl /\ Visit(behind) /\ behind' = NoUrl
           \/ /\ screen.lists.repo # Unread /\ screen.lists.repo.next # 0 /\ ~Unconsumed(screen)
              /\ Begins([screen.url EXCEPT !.cursor = screen.lists.repo.next], screen.kept,
                       screen.consumed)
              /\ behind' = screen.url
  /\ UNCHANGED <<works, captured, known, elsewhere, flaked>>

ManNext ==
  \/ \E from \in {"repo", "drafts", "queue"} : ReadList(from)
  \/ Show \/ ReadOutcome \/ StripLands \/ OpenPage
  \/ \E tab \in {"published", "drafts", "scheduled"} : TurnTab(tab)
  \/ \E p \in Piece : Elsewhere(p) \/ PressRow(p)

ManSpec == ManInit /\ [][ManNext]_manVars

ManTypeOK ==
  /\ works \in [Piece -> Work]
  /\ load \in Load \cup {NoScreen} /\ screen \in Screen \cup {NoScreen}
  /\ behind \in Link \cup {NoUrl}
  /\ stirred \cup known \subseteq Piece /\ captured \in [Piece -> Nat]
  /\ elsewhere \in 0..MaxElsewhere /\ flaked \in 0..MaxFlaked /\ posts \in 0..MaxPosts

-----------------------------------------------------------------------------
(* What is on the page, and what must be true of it.                        *)

FirstRun == /\ OnPage.repo # Unread /\ OnPage.repo.rows = {}
            /\ OnPage.drafts = {} /\ QueueRows = {}

(* Slip: the code "already announced" is not looked at.                     *)
OffersUnlessTold == screen.kept.published # 0 /\ ~screen.kept.announced

(* PublishedNotice offers to announce what has just been published.         *)
Offers ==
  /\ screen.kept.published # 0 /\ ~screen.kept.announced
  /\ screen.url.told # "already announced"

(* "A writer must never have to wonder whether something went out": of      *)
(* every piece nothing has happened to since the page began to load, the    *)
(* page shows where it is, or says that it could not look, or that there    *)
(* are more; it shows it nowhere else; and "no posts yet" is not said to    *)
(* one who has any.  (A page past the first may be empty for want of older  *)
(* posts, and says it nonetheless.)                                         *)
SeenWhereItIs ==
  screen # NoScreen =>
    \A p \in Piece \ stirred :
      LET at == works[p].at IN
      /\ (at \in {"draft", "queued", "failed"}) = (OnPage.drafts # Unread /\ p \in OnPage.drafts)
           \/ OnPage.drafts = Unread
      /\ OnPage.queue # Unread => /\ (at = "queued") = (p \in OnPage.queue.pending)
                                 /\ (at = "failed") = (p \in OnPage.queue.failed)
      /\ OnPage.repo # Unread =>
           /\ p \in OnPage.repo.rows => at = "out"
           /\ at = "out" /\ p \notin OnPage.repo.rows =>
                \/ screen.url.cursor # 0 /\ works[p].rank >= screen.url.cursor
                \/ OnPage.repo.next # 0 /\ works[p].rank < OnPage.repo.next
      /\ at \in {"queued", "failed"} => OnStrip
      /\ FirstRun /\ screen.url.cursor = 0 => at \in {"none", "removed"}
      /\ p \in screen.gone => works[p].card = "gone"

(* An event is captured once for a publish, however often the page that     *)
(* tells of it is loaded, reloaded, returned to, or its effect run; and     *)
(* what a publish is known to have announced is not offered for             *)
(* announcement again beside it.                                            *)
OutcomeOnce ==
  /\ \A p \in Piece : captured[p] <= (IF works[p].rank # 0 THEN 1 ELSE 0)
  /\ screen # NoScreen /\ Offers => screen.kept.published \notin known

(* A row is shown once, where its piece is (getDashboard, mapDashboardRows), *)
(* and an outcome in the URL is acted on once (useOutcomeParams).            *)
ManagerIsTrue == SeenWhereItIs /\ OutcomeOnce

=============================================================================
