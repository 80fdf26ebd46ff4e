------------------------------- MODULE HomePage -------------------------------
(***************************************************************************)
(* The overview a signed-in writer lands on: a loader that reads drafts,   *)
(* records and publication each on its own, the latest post's counts after *)
(* them, and the stats asked for once by the mounted page.  What could not *)
(* be read is said or left out, never shown as nothing.                    *)
(***************************************************************************)
EXTENDS Integers, FiniteSets, FiniteSetsExt

CONSTANTS
  LastWork,    \* bound: the writer's pieces are 1..LastWork
  OverviewPage,\* MAX_LIST_RECORDS
  Shortlist,   \* DRAFT_SHORTLIST
  MaxWorked,   \* bound: what the writer and the readers do meanwhile
  MaxHalts,    \* bound: reads that fail
  MaxVisits,   \* bound: times the page is opened
  NoHome, NoList, NoCount

ASSUME HomeAssumption ==
  /\ {LastWork, OverviewPage, Shortlist} \subseteq Nat \ {0}
  /\ {MaxWorked, MaxHalts, MaxVisits} \subseteq Nat

ASSUME NoCountAssumption == NoCount \notin Nat

Opus == 1..LastWork

VARIABLES
  signedIn,
  opus,     \* the writer's pieces: where each is, when last touched
  counted,  \* GET /api/stats: not configured, or the views of each post
  overview, \* as it is being loaded
  home,     \* as it is shown
  asking,   \* stats requests under way, by the visit that sent them
  worked, halts, visits

homeVars == <<signedIn, opus, counted, overview, home, asking, worked, halts, visits>>

(* when: the draft's updatedAt, or the post's publishedAt and its key.      *)
OpusState == [at : {"none", "draft", "out"}, when : 0..MaxWorked]
Records == [rows : SUBSET Opus, more : BOOLEAN]

(* changed: history, pieces touched since the loading began.                *)
Overview == [waits : SUBSET {"drafts", "records"}, drafts : (SUBSET Opus) \cup {NoList},
            records : Records \cup {NoList}, changed : SUBSET Opus]

HomeStats == [status : {"loading", "off", "unavailable", "ready"}, views : [Opus -> Nat]]
NoViews == [p \in Opus |-> 0]
Home == [visit : 1..MaxVisits, drafts : (SUBSET Opus) \cup {NoList},
         records : Records \cup {NoList}, stats : HomeStats, counts : BOOLEAN,
         changed : SUBSET Opus]

HomeInit ==
  /\ signedIn \in BOOLEAN
  /\ opus \in [Opus -> {[at |-> at, when |-> 0] : at \in {"none", "draft", "out"}}]
  /\ counted \in {NoCount, NoViews} /\ overview = NoHome /\ home = NoHome /\ asking = {}
  /\ worked = 0 /\ halts = 0 /\ visits = 0

WorksIn(place) == {p \in Opus : opus[p].at = place}

(* Later first: by time, and by key where the times are the same.           *)
Before(p, q) == opus[p].when > opus[q].when \/ (opus[p].when = opus[q].when /\ p > q)
Foremost(ps, n) == {p \in ps : Cardinality({q \in ps : Before(q, p)}) < n}

-----------------------------------------------------------------------------
(* The writer, elsewhere, and the readers.                                  *)

Works(p) ==
  /\ worked < MaxWorked /\ worked' = worked + 1
  /\ \E to \in {"none", "draft", "out"} :
       /\ opus[p].at = "none" => to = "draft"
       /\ opus[p].at = "out" => to = "none"
       /\ opus' = [opus EXCEPT ![p] = [at |-> to, when |-> worked']]
  /\ overview' = IF overview = NoHome THEN NoHome ELSE [overview EXCEPT !.changed = @ \cup {p}]
  /\ home' = IF home = NoHome THEN NoHome ELSE [home EXCEPT !.changed = @ \cup {p}]
  /\ UNCHANGED <<signedIn, counted, asking, halts, visits>>

IsRead(p) ==
  /\ worked < MaxWorked /\ worked' = worked + 1
  /\ counted # NoCount /\ opus[p].at = "out"
  /\ counted' = [counted EXCEPT ![p] = @ + 1]
  /\ UNCHANGED <<signedIn, opus, overview, home, asking, halts, visits>>

-----------------------------------------------------------------------------
(* getOverview and requireOverview.                                         *)

(* Without a session the visit ends at the sign-in form.                    *)
OpenHome ==
  /\ overview = NoHome /\ visits < MaxVisits /\ visits' = visits + 1
  /\ overview' = IF signedIn
                THEN [waits |-> {"drafts", "records"}, drafts |-> NoList, records |-> NoList,
                      changed |-> {}]
                ELSE NoHome
  /\ home' = NoHome
  /\ UNCHANGED <<signedIn, opus, counted, asking, worked, halts>>

MayHalt(fails) == /\ fails => halts < MaxHalts
                  /\ halts' = IF fails THEN halts + 1 ELSE halts

(* Slip: what cannot be read is nothing.                                    *)
ReadAsEmpty(from) == IF from = "drafts" THEN {} ELSE [rows |-> {}, more |-> FALSE]

UnreadList(from) == NoList

(* Slip: only a next page that is known of is looked at.                    *)
AllThere == [rows |-> Foremost(WorksIn("out"), OverviewPage), more |-> FALSE]

(* listRecordsPage, the first page: full, there may be more.                *)
FirstRecords ==
  LET rows == Foremost(WorksIn("out"), OverviewPage)
  IN  [rows |-> rows, more |-> Cardinality(rows) = OverviewPage]

ReadFor(from) ==
  /\ overview # NoHome /\ from \in overview.waits
  /\ \E fails \in BOOLEAN :
       /\ MayHalt(fails)
       /\ overview' = [overview EXCEPT !.waits = @ \ {from},
                        ![from] = IF fails THEN UnreadList(from)
                                  ELSE IF from = "drafts" THEN WorksIn("draft") ELSE FirstRecords]
  /\ UNCHANGED <<signedIn, opus, counted, home, asking, worked, visits>>

(* The page, with the latest post's counts or without; mounted, it asks for *)
(* the stats.                                                               *)
ShowHome ==
  /\ overview # NoHome /\ overview.waits = {}
  /\ \E fails \in BOOLEAN :
       /\ MayHalt(fails)
       /\ home' = [visit |-> visits, drafts |-> overview.drafts, records |-> overview.records,
                   stats |-> [status |-> "loading", views |-> NoViews], counts |-> ~fails,
                   changed |-> overview.changed]
  /\ overview' = NoHome /\ asking' = asking \cup {visits}
  /\ UNCHANGED <<signedIn, opus, counted, worked, visits>>

(* Slip: an answer lands on whatever page is there.                         *)
AnyPage(v) == home # NoHome

(* Not cancelled by leaving the page.                                       *)
StillThere(v) == home # NoHome /\ home.visit = v

StatsAnswer(v) ==
  /\ v \in asking /\ asking' = asking \ {v}
  /\ \E fails \in BOOLEAN :
       /\ MayHalt(fails)
       /\ LET status == IF fails THEN "unavailable"
                        ELSE IF counted = NoCount THEN "off" ELSE "ready"
          IN  home' = IF StillThere(v)
                      THEN [home EXCEPT !.stats = [status |-> status,
                              views |-> IF status = "ready" THEN counted ELSE NoViews]]
                      ELSE home
  /\ UNCHANGED <<signedIn, opus, counted, overview, worked, visits>>

LeaveHome ==
  /\ home # NoHome /\ home' = NoHome
  /\ UNCHANGED <<signedIn, opus, counted, overview, asking, worked, halts, visits>>

-----------------------------------------------------------------------------
(* What the page says.                                                      *)

NumbersShown == home.stats.status = "ready"

(* An unread list counts nothing, and no number is put for it.              *)
PostCount == IF home.records = NoList THEN NoCount ELSE Cardinality(home.records.rows)
DraftCount == IF home.drafts = NoList THEN NoCount ELSE Cardinality(home.drafts)

(* Slip: what is not listed was not written.                                *)
WelcomeIfNothingListed == (home.records = NoList \/ home.records.rows = {})
                           /\ (home.drafts = NoList \/ home.drafts = {})

Welcome == PostCount = 0 /\ DraftCount = 0

Resumes == IF home.drafts \in {NoList, {}} THEN {} ELSE Foremost(home.drafts, 1)
Latest == IF home.records = NoList THEN {} ELSE Foremost(home.records.rows, 1)
Listed == IF home.drafts = NoList THEN {} ELSE Foremost(home.drafts, Shortlist)
AllDraftsLink == home.drafts # NoList /\ Cardinality(home.drafts) > Shortlist

-----------------------------------------------------------------------------
HomeNext ==
  \/ OpenHome \/ ShowHome \/ LeaveHome
  \/ \E p \in Opus : Works(p) \/ IsRead(p)
  \/ \E from \in {"drafts", "records"} : ReadFor(from)
  \/ \E v \in asking : StatsAnswer(v)

HomeSpec == HomeInit /\ [][HomeNext]_homeVars

-----------------------------------------------------------------------------
HomeTypeOK ==
  /\ signedIn \in BOOLEAN /\ opus \in [Opus -> OpusState]
  /\ counted \in [Opus -> Nat] \cup {NoCount}
  /\ overview \in Overview \cup {NoHome} /\ home \in Home \cup {NoHome}
  /\ asking \subseteq 1..MaxVisits /\ worked \in 0..MaxWorked /\ halts \in 0..MaxHalts
  /\ visits \in 0..MaxVisits

(* The overview, of the pieces untouched since its loading began: the       *)
(* welcome is for a writer with none; the post count, without a plus, is    *)
(* all of them; no unfinished piece is left out without a link to the rest; *)
(* and the stats shown are of no earlier visit.                             *)
OverviewIsTrue ==
  home # NoHome =>
    LET still(place) == WorksIn(place) \ home.changed
    IN  /\ Welcome => still("draft") = {} /\ still("out") = {}
        /\ PostCount # NoCount /\ ~home.records.more => still("out") \subseteq home.records.rows
        /\ home.drafts # NoList /\ ~AllDraftsLink => still("draft") \subseteq Listed
        /\ home.drafts # NoList /\ home.changed = {} => Resumes = Foremost(WorksIn("draft"), 1)
        /\ home.records # NoList /\ home.changed = {} => Latest = Foremost(WorksIn("out"), 1)
        /\ home.stats.status # "loading" => home.visit \notin asking
=============================================================================
