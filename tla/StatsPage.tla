------------------------------ MODULE StatsPage ------------------------------
(***************************************************************************)
(* The stats page, which asks /api/stats anew whenever another range is    *)
(* picked, and the endpoint, whose sections are each read through a cache  *)
(* of their own and fail on their own.  What a section says is not told    *)
(* here (StatsNumbers), only what it says it of, and as of when.           *)
(*                                                                         *)
(* Two sections are followed, views and sources, which share one query, of *)
(* the days; followers and engagement are as they, and share nothing.      *)
(***************************************************************************)
EXTENDS Integers, FiniteSets

CONSTANTS
  StatRange, \* the ranges
  Request,   \* bound: requests ever made
  KeptFor,   \* SECTION_TTL_SECONDS, in moments
  LastMoment,\* bound: the clock
  MaxUnread, \* bound: calls that fail
  Awaited, Failed, NoRequest, Over, NoSection

ASSUME StatsPageAssumption ==
  /\ KeptFor \in Nat \ {0} /\ {LastMoment, MaxUnread} \subseteq Nat

Section == {"views", "sources"}
Moment == 0..LastMoment

VARIABLES
  moment,   \* the clock
  edge,     \* the cache
  requests, \* the requests
  page,     \* what is picked, asked, and shown
  unread    \* failed calls so far

statVars == <<moment, edge, requests, page, unread>>

(* of, in: history, the section and the range it is a result for.  read:    *)
(* when its rows were.  fresh: computed by this request.                     *)
Result == [of: Section, in: StatRange, status: {"ok", "thin", "unavailable"},
           read: Moment \cup {Failed}, fresh: BOOLEAN]

(* days: when the day query answered.  lost: history, the sections a call of *)
(* which failed.                                                             *)
Inquiry == [range: StatRange, days: Moment \cup {Awaited, Failed}, missed: SUBSET Section,
            results: [Section -> Result \cup {NoSection}], lost: SUBSET Section]

(* effect: a range was picked and the page has not asked for it yet.  range: *)
(* history, of what is shown.                                               *)
StatsView == [picked: StatRange, effect: BOOLEAN, awaits: Request \cup {NoRequest},
         state: {"loading", "ready", "failed"}, range: StatRange,
         sections: [Section -> Result \cup {NoSection}]]

Kept == [result: Result, until: 1..LastMoment + KeptFor]

ASSUME StatsNullsAssumption ==
  /\ Awaited # Failed /\ {Awaited, Failed} \cap Moment = {}
  /\ NoSection \notin Result \cup Kept /\ NoRequest \notin Request
  /\ NoRequest # Over /\ {NoRequest, Over} \cap Inquiry = {}

Underway(r) == requests[r] \notin {NoRequest, Over}
Nothing == [s \in Section |-> NoSection]

StatInit ==
  /\ moment = 0 /\ unread = 0
  /\ edge = [k \in Section \X StatRange |-> NoSection]
  /\ requests = [r \in Request |-> NoRequest]
  /\ \E range \in StatRange :
       page = [picked |-> range, effect |-> TRUE, awaits |-> NoRequest,
               state |-> "loading", range |-> range, sections |-> Nothing]

-----------------------------------------------------------------------------
Pass == moment < LastMoment /\ moment' = moment + 1 /\ UNCHANGED <<edge, requests, page, unread>>

(* The range is in the URL; the effect runs after the page is drawn with it. *)
Pick(range) ==
  /\ ~page.effect /\ page.picked # range
  /\ page' = [page EXCEPT !.picked = range, !.effect = TRUE]
  /\ UNCHANGED <<moment, edge, requests, unread>>

(* The page is loaded again, as its URL has it. *)
Reload ==
  /\ ~page.effect
  /\ page' = [page EXCEPT !.effect = TRUE, !.awaits = NoRequest, !.state = "loading", !.sections = Nothing]
  /\ UNCHANGED <<moment, edge, requests, unread>>

(* useStatsMetrics: the last effect's request no longer counts. *)
Effect(r) ==
  /\ page.effect /\ requests[r] = NoRequest
  /\ page' = [page EXCEPT !.effect = FALSE, !.awaits = r, !.state = "loading", !.sections = Nothing]
  /\ requests' = [requests EXCEPT ![r] =
       [range |-> page.picked, days |-> Awaited, missed |-> {}, results |-> Nothing,
        lost |-> {}]]
  /\ UNCHANGED <<moment, edge, unread>>

(* Slip: one entry a section, whatever the range. *)
SectionKey(section, range) == <<section, CHOOSE any \in StatRange : TRUE>>

(* statsCacheKey *)
StatsCacheKey(section, range) == <<section, range>>

Done(r, section, result) == requests' = [requests EXCEPT ![r].results[section] = result]

(* section: the entry, while it lasts, is the answer. *)
Match(r, section) ==
  LET key == StatsCacheKey(section, requests[r].range)
      hit == edge[key] IN
  /\ Underway(r) /\ requests[r].results[section] = NoSection
  /\ section \notin requests[r].missed
  /\ IF hit # NoSection /\ moment < hit.until THEN Done(r, section, [hit.result EXCEPT !.fresh = FALSE])
     ELSE requests' = [requests EXCEPT ![r].missed = @ \cup {section}]
  /\ UNCHANGED <<moment, edge, page, unread>>

Fail == unread < MaxUnread /\ unread' = unread + 1

(* daysPromise: asked once, whichever sections then need it. *)
DaysAnswer(r) ==
  /\ Underway(r) /\ requests[r].days = Awaited
  /\ \/ requests' = [requests EXCEPT ![r].days = moment] /\ UNCHANGED unread
     \/ /\ Fail
        /\ requests' = [requests EXCEPT ![r].days = Failed, ![r].lost = Section]
  /\ UNCHANGED <<moment, edge, page>>

(* Slip: sources asks for the days again. *)
DaysFor(r, section) == IF section = "sources" THEN moment ELSE requests[r].days

(* The days a section is counted over. *)
DaysOf(r, section) == requests[r].days

(* Slip: what failed is kept too. *)
KeptWhatever(result) == TRUE

(* Only healthy sections are stored. *)
Keepable(result) == result.status = "ok"

(* The section's own query, and the days where it shares them. *)
Compute(r, section) ==
  LET q == requests[r]
      result(status, read) == [of |-> section, in |-> q.range, status |-> status, read |-> read, fresh |-> TRUE]
      failed == [of |-> section, in |-> q.range, status |-> "unavailable", read |-> Failed, fresh |-> TRUE]
      keep(res) == edge' = IF Keepable(res)
        THEN [edge EXCEPT ![StatsCacheKey(section, q.range)] = [result |-> res, until |-> moment + KeptFor]]
        ELSE edge
  IN
  /\ Underway(r) /\ section \in q.missed /\ q.results[section] = NoSection
  /\ q.days # Awaited
  /\ \/ /\ q.days # Failed
        /\ \E status \in {"ok", "thin"} :
             LET res == result(status, DaysOf(r, section)) IN
             Done(r, section, res) /\ keep(res)
        /\ UNCHANGED unread
     \/ /\ q.days = Failed
        /\ Done(r, section, failed) /\ keep(failed) /\ UNCHANGED unread
     \/ /\ Fail /\ keep(failed)
        /\ requests' = [requests EXCEPT ![r].results[section] = failed, ![r].lost = @ \cup {section}]
  /\ UNCHANGED <<moment, page>>

(* Slip: an answer is taken whoever asked. *)
TakenAnyway(r) == TRUE

(* cancelled *)
Counts(r) == page.awaits = r

Respond(r) ==
  /\ Underway(r) /\ \A s \in Section : requests[r].results[s] # NoSection
  /\ requests' = [requests EXCEPT ![r] = Over]
  /\ page' = IF Counts(r)
       THEN [page EXCEPT !.awaits = NoRequest, !.state = "ready", !.range = requests[r].range,
                         !.sections = requests[r].results]
       ELSE page
  /\ UNCHANGED <<moment, edge, unread>>

(* A refusal, or no answer. *)
Lost(r) ==
  /\ Underway(r) /\ Fail
  /\ requests' = [requests EXCEPT ![r] = Over]
  /\ page' = IF Counts(r) THEN [page EXCEPT !.awaits = NoRequest, !.state = "failed"] ELSE page
  /\ UNCHANGED <<moment, edge>>

StatNext ==
  \/ Pass \/ Reload \/ \E range \in StatRange : Pick(range)
  \/ \E r \in Request :
       \/ Effect(r) \/ DaysAnswer(r) \/ Respond(r) \/ Lost(r)
       \/ \E section \in Section : Match(r, section) \/ Compute(r, section)

StatSpec == StatInit /\ [][StatNext]_statVars

-----------------------------------------------------------------------------
StatTypeOK ==
  /\ moment \in Moment /\ unread \in 0..MaxUnread
  /\ edge \in [Section \X StatRange -> Kept \cup {NoSection}]
  /\ requests \in [Request -> Inquiry \cup {NoRequest, Over}]
  /\ page \in StatsView

(* Numbers are of the range whose name stands over them, whatever was picked *)
(* while they were on their way, and from whichever cache they came.         *)
RangeIsPicked ==
  /\ page.state = "ready" /\ ~page.effect => page.range = page.picked
  /\ page.state = "ready" => \A s \in Section : page.sections[s].in = page.range /\ page.sections[s].of = s

(* One upstream's failure takes the sections that ask it, for this request,  *)
(* and no other section and no later request; and what one request counts of *)
(* views and of sources it counts over the same days.                        *)
FailsAlone ==
  \A r \in Request : Underway(r) =>
    LET done == requests[r].results IN
    /\ \A s \in Section : done[s] # NoSection /\ done[s].status = "unavailable" => s \in requests[r].lost
    /\ \A s, t \in Section :
         {done[s], done[t]} \cap {NoSection} = {} =>
           (done[s].fresh /\ done[t].fresh /\ Failed \notin {done[s].read, done[t].read} =>
              done[s].read = done[t].read)

(* The page shows the answer of the request of its range (useStatsMetrics,   *)
(* the cache of api.stats), and a failed part fails alone.                   *)
NumbersAreTheirs == RangeIsPicked /\ FailsAlone
=============================================================================
