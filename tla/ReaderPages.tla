----------------------------- MODULE ReaderPages -----------------------------
(***************************************************************************)
(* One document's reading page: the loader that renders it (takedown, the  *)
(* writer's PDS, the record), the edge cache in front of it, the purges    *)
(* that follow a write or a takedown, and a writer who moves between PDSes.*)
(*                                                                         *)
(* The cache belongs to a data center (a colo) and is keyed by the page's  *)
(* spelling: its address may carry the writer's handle or their DID.       *)
(***************************************************************************)
EXTENDS Integers

CONSTANTS
  Colo,         \* the data centers looked at
  MaxVersions,  \* bound: edits
  MaxMoves,     \* bound: changes of PDS
  MaxFlakes,    \* bound: upstream calls that fail
  NoPage, NoVisit, NoHost

Spelling == {"handle", "did"}
Url == Colo \X Spelling
Host == 0..MaxMoves
Version == 0..MaxVersions

ASSUME ReaderPagesAssumption ==
  MaxVersions \in Nat /\ MaxMoves \in Nat /\ MaxFlakes \in Nat

VARIABLES
  version,   \* what the record says
  live,      \* the record exists
  hidden,    \* a hidden_content row names it
  host,      \* the PDS that holds the repo; the others refuse it
  knownHost, \* the PDS each colo has cached
  pages,     \* stored pages
  visit,     \* the render under way in each colo
  misled,    \* history: a reader was told of a missing document without reason
  purge,     \* the purge still to come: of a write's request, of the hook
  flakes,    \* failed calls so far
  owed       \* history: pages no purge has reached since the page changed

pageVars == <<version, live, hidden, host, knownHost, pages, visit, misled, purge, flakes, owed>>

(* late: history, a purge passed while this render was under way.           *)
StoredPage == [shows: Version, late: BOOLEAN]

(* excused: history, while it was under way the record was deleted, the     *)
(* writer moved or a call failed.                                           *)
Visit == [spelling: Spelling, at: {"hidden", "host", "read", "refresh", "put"}, host: Host,
          shows: Version, retried: BOOLEAN, late: BOOLEAN, excused: BOOLEAN]

PageInit ==
  /\ version = 0 /\ live = TRUE /\ hidden = FALSE /\ host = 0
  /\ knownHost = [c \in Colo |-> NoHost]
  /\ pages = [u \in Url |-> NoPage]
  /\ visit = [c \in Colo |-> NoVisit]
  /\ misled = FALSE
  /\ purge = "none"
  /\ flakes = 0
  /\ owed = {}

Flake == flakes < MaxFlakes /\ flakes' = flakes + 1
Current(p) == live /\ ~hidden /\ p.shows = version

-----------------------------------------------------------------------------
(* The loader: a hit never runs it, and each of its steps awaits something. *)

Arrive(c) ==
  /\ visit[c] = NoVisit
  /\ \E s \in Spelling :
       /\ pages[<<c, s>>] = NoPage
       /\ visit' = [visit EXCEPT ![c] =
            [spelling |-> s, at |-> "hidden", host |-> 0, shows |-> 0, retried |-> FALSE,
             late |-> FALSE, excused |-> ~live]]
  /\ UNCHANGED <<version, live, hidden, host, knownHost, pages, misled, purge, flakes, owed>>

Continues(c, at) == visit' = [visit EXCEPT ![c].at = at]
Answers(c) == visit' = [visit EXCEPT ![c] = NoVisit] /\ UNCHANGED misled
NotFound(c, excused) ==
  /\ visit' = [visit EXCEPT ![c] = NoVisit]
  /\ misled' = (misled \/ ~excused)

CheckHidden(c) ==
  /\ visit[c] # NoVisit /\ visit[c].at = "hidden"
  /\ IF hidden THEN Answers(c) ELSE Continues(c, "host") /\ UNCHANGED misled
  /\ UNCHANGED <<version, live, hidden, host, knownHost, pages, purge, flakes, owed>>

(* resolveReaderPds: what the colo has cached, else the directory's answer, *)
(* which is stored.                                                         *)
ResolveHost(c) ==
  /\ visit[c] # NoVisit /\ visit[c].at = "host"
  /\ \/ LET h == IF knownHost[c] = NoHost THEN host ELSE knownHost[c] IN
        /\ visit' = [visit EXCEPT ![c].at = "read", ![c].host = h]
        /\ knownHost' = [knownHost EXCEPT ![c] = h]
        /\ UNCHANGED <<misled, flakes>>
     \/ Flake /\ knownHost[c] = NoHost /\ Answers(c) /\ UNCHANGED knownHost
  /\ UNCHANGED <<version, live, hidden, host, pages, purge, owed>>

(* Slip: the refusal stands. *)
AsksNever(v) == FALSE

(* A refusal is asked about once. *)
AsksAgain(v) == ~v.retried

ReadDocument(c) ==
  LET v == visit[c] IN
  /\ v # NoVisit /\ v.at = "read"
  /\ \/ /\ v.host = host /\ live
        /\ visit' = [visit EXCEPT ![c].at = "put", ![c].shows = version]
        /\ UNCHANGED <<misled, flakes>>
     \/ /\ ~(v.host = host /\ live)
        /\ IF AsksAgain(v) THEN Continues(c, "refresh") /\ UNCHANGED misled
           ELSE NotFound(c, v.excused)
        /\ UNCHANGED flakes
     \/ Flake /\ Answers(c)
  /\ UNCHANGED <<version, live, hidden, host, knownHost, pages, purge, owed>>

(* refreshReaderPds, and the retry from the start. *)
RefreshHost(c) ==
  LET v == visit[c] IN
  /\ v # NoVisit /\ v.at = "refresh"
  /\ \/ /\ host # v.host
        /\ knownHost' = [knownHost EXCEPT ![c] = host]
        /\ visit' = [visit EXCEPT ![c].at = "hidden", ![c].retried = TRUE]
        /\ UNCHANGED <<misled, flakes>>
     \/ /\ IF host = v.host THEN UNCHANGED flakes ELSE Flake
        /\ NotFound(c, v.excused \/ host # v.host)
        /\ UNCHANGED knownHost
  /\ UNCHANGED <<version, live, hidden, host, pages, purge, owed>>

(* The page is stored after it was served (waitUntil); the store may fail.  *)
PutPage(c) ==
  LET v == visit[c] IN
  /\ v # NoVisit /\ v.at = "put"
  /\ \/ /\ pages' = [pages EXCEPT ![<<c, v.spelling>>] = [shows |-> v.shows, late |-> v.late]]
        /\ UNCHANGED flakes
     \/ Flake /\ UNCHANGED pages
  /\ Answers(c)
  /\ UNCHANGED <<version, live, hidden, host, knownHost, purge, owed>>

(* Slip: pages are stored without an age. *)
NeverAges == FALSE

(* READ_CACHE_CONTROL. *)
Ages == TRUE

Expire(u) ==
  /\ Ages /\ pages[u] # NoPage
  /\ pages' = [pages EXCEPT ![u] = NoPage]
  /\ UNCHANGED <<version, live, hidden, host, knownHost, visit, misled, purge, flakes, owed>>

(* PDS_CACHE_TTL_SECONDS. *)
ForgetHost(c) ==
  /\ knownHost[c] # NoHost
  /\ knownHost' = [knownHost EXCEPT ![c] = NoHost]
  /\ UNCHANGED <<version, live, hidden, host, pages, visit, misled, purge, flakes, owed>>

-----------------------------------------------------------------------------
(* What changes the page, and the purge that follows.                       *)

Excuse(which) ==
  visit' = [c \in Colo |->
    IF visit[c] = NoVisit THEN NoVisit ELSE [visit[c] EXCEPT !.excused = @ \/ which]]

(* An edit, or a deletion; a request that dies leaves its purge undone, as  *)
(* does a write made elsewhere.                                             *)
Write ==
  /\ purge = "none" /\ live
  /\ \/ version < MaxVersions /\ version' = version + 1 /\ live' = live /\ Excuse(FALSE)
     \/ live' = FALSE /\ version' = version /\ Excuse(TRUE)
  /\ purge' \in {"write", "none"}
  /\ owed' = Url
  /\ UNCHANGED <<hidden, host, knownHost, pages, misled, flakes>>

Hide ==
  /\ purge = "none" /\ ~hidden
  /\ hidden' = TRUE
  /\ purge' = "hook"
  /\ owed' = Url
  /\ UNCHANGED <<version, live, host, knownHost, pages, visit, misled, flakes>>

(* Slip: only one of the two. *)
HandleSpelling(named) == IF named THEN {"handle"} ELSE {"did"}

(* readSurfaceUrlsForSubject: the handle's spelling as well, when the       *)
(* directory named one.                                                     *)
SurfaceSpellings(named) == IF named THEN Spelling ELSE {"did"}

Purged(where, named) ==
  LET gone == where \X SurfaceSpellings(named) IN
  /\ pages' = [u \in Url |-> IF u \in gone THEN NoPage ELSE pages[u]]
  /\ visit' = [c \in Colo |->
       IF visit[c] # NoVisit /\ <<c, visit[c].spelling>> \in gone
       THEN [visit[c] EXCEPT !.late = TRUE] ELSE visit[c]]
  /\ owed' = owed \ (where \X (IF named THEN Spelling ELSE {"did"}))

(* A request purges the colo it is served in (perhaps none of these); the   *)
(* hook asks Cloudflare for the whole zone as well, which may refuse.       *)
Purge ==
  /\ purge # "none"
  /\ \E named \in BOOLEAN :
       /\ \/ \E here \in {{}} \cup {{c} : c \in Colo} : Purged(here, named)
          \/ purge = "hook" /\ Purged(Colo, named)
       /\ IF named THEN UNCHANGED flakes ELSE Flake
  /\ purge' = "none"
  /\ UNCHANGED <<version, live, hidden, host, knownHost, misled>>

Move ==
  /\ host < MaxMoves
  /\ host' = host + 1
  /\ Excuse(TRUE)
  /\ UNCHANGED <<version, live, hidden, knownHost, pages, misled, purge, flakes, owed>>

PageNext ==
  \/ \E c \in Colo : Arrive(c) \/ CheckHidden(c) \/ ResolveHost(c) \/ ReadDocument(c)
                     \/ RefreshHost(c) \/ PutPage(c) \/ ForgetHost(c)
  \/ \E u \in Url : Expire(u)
  \/ Write \/ Hide \/ Purge \/ Move

PageFairness ==
  /\ \A c \in Colo : WF_pageVars(CheckHidden(c) \/ ResolveHost(c) \/ ReadDocument(c)
                                 \/ RefreshHost(c) \/ PutPage(c))
  /\ \A u \in Url : WF_pageVars(Expire(u))

PageSpec == PageInit /\ [][PageNext]_pageVars /\ PageFairness

-----------------------------------------------------------------------------
PageTypeOK ==
  /\ version \in Version /\ live \in BOOLEAN /\ hidden \in BOOLEAN /\ host \in Host
  /\ knownHost \in [Colo -> Host \cup {NoHost}]
  /\ pages \in [Url -> StoredPage \cup {NoPage}]
  /\ visit \in [Colo -> Visit \cup {NoVisit}]
  /\ misled \in BOOLEAN
  /\ purge \in {"none", "write", "hook"}
  /\ flakes \in 0..MaxFlakes
  /\ owed \subseteq Url

(* Where a purge has been, under the spellings it could name, readers get   *)
(* the edited page, and nothing of a deleted or hidden one: only a render   *)
(* that was under way during the purge can have stored an older page.       *)
PurgedIsFresh ==
  \A u \in Url \ owed : pages[u] # NoPage /\ ~pages[u].late => Current(pages[u])

(* A reader is told that a document is missing only when it is, or when the *)
(* writer moved or the directory failed while they were asking: a PDS cached*)
(* from before a move does not hide a document.                             *)
MissingIsTrue == ~misled

(* Whatever raced, stored pages come to show the record once it stays put.  *)
PagesSettle == <>[](\A u \in Url : pages[u] = NoPage \/ Current(pages[u]))
=============================================================================
