------------------------------ MODULE ImportPage ------------------------------
(***************************************************************************)
(* The import pages, /import (a feed or an export file) and                *)
(* /import/threads: what they offer, what the writer leaves picked, the    *)
(* run that brings one over after another, and what each row says became   *)
(* of it.  What the handlers do in the tables is in Imports and Threads;   *)
(* here they file, refuse, or are not heard.                               *)
(*                                                                         *)
(* A row of the list is its place in it.  Lines are picked, filed and       *)
(* reported by their guid, which a feed may give to two of them.           *)
(***************************************************************************)
EXTENDS Integers, FiniteSets

CONSTANTS
  LastLine,  \* bound: the rows of a list
  RoomAtMost,\* MAX_DRAFTS_PER_USER
  MaxAside,  \* bound: what the writer does elsewhere, and calls that go wrong
  MaxVisits, \* bound: pages opened
  NoOffer, NoCall

ASSUME ImportPageAssumption ==
  /\ LastLine \in Nat \ {0} /\ {RoomAtMost, MaxAside, MaxVisits} \subseteq Nat

Line == 1..LastLine
Guid == Line  \* the first row that carries it
Door == {"feed", "file", "threads"}

VARIABLES
  filedGuids, \* the ledger: guids in the drafts, or published
  room,       \* drafts there is room for
  stage,      \* the page's phase
  offer,      \* the list it shows
  picked,     \* the boxes ticked
  said,       \* what is said of each guid
  left,       \* rows the run has not reached
  stop,       \* why the run stopped, if it did
  call,       \* the request under way, and the answer
  strays,     \* requests of pages that were left
  aside,      \* bound: counts both kinds of MaxAside
  visits,     \* bound: pages opened
  own,        \* history: what this page's run filed
  deaf,       \* history: guids the page heard no answer, or another, about
  told,       \* history: the reasons the server gave this run
  wanted      \* history: what was ticked by hand, and what was ticked at the start

pageVars == <<filedGuids, room, stage, offer, picked, said, left, stop, call, strays, aside, visits,
              own, deaf, told, wanted>>

(* guid: of each row.  thin: previews.  known: already imported, when asked. *)
(* slots: room for drafts, when asked.                                       *)
Offer == [door: Door, rows: 1..LastLine, guid: [Line -> Guid], thin: SUBSET Line,
          known: SUBSET Guid, slots: 0..RoomAtMost]

Reason == {"draft limit", "too many threads", "already in your drafts", "too long"}
Word == {"pending", "reading", "saving", "saved", "saved, cut", "failed", "none"} \cup Reason

(* cut: the thread did not come whole.  ans: what the handler did.          *)
Call == [what: {"find", "read", "check", "assemble", "draft"}, row: 0..LastLine, cut: BOOLEAN,
         ans: {"none", "ok"} \cup Reason]

ASSUME PageNullsAssumption == NoOffer \notin Offer /\ NoCall \notin Call

Silent == [g \in Guid |-> "none"]
Still == [what |-> "find", row |-> 0, cut |-> FALSE, ans |-> "none"]

PageInit ==
  /\ filedGuids \in SUBSET {1} /\ room \in 0..RoomAtMost
  /\ stage = "away" /\ offer = NoOffer /\ picked = {} /\ said = Silent
  /\ left = {} /\ stop = "none" /\ call = NoCall /\ strays = {}
  /\ aside = 0 /\ visits = 0 /\ own = {} /\ deaf = {} /\ told = {} /\ wanted = [hand |-> {}, run |-> {}]

serverVars == <<filedGuids, room, strays>>
runVars == <<said, left, stop, own, deaf, told>>
Aside == aside < MaxAside /\ aside' = aside + 1

-----------------------------------------------------------------------------
(* Finding what there is.                                                   *)

(* A new page, blank; /import/threads asks at once. *)
OpenPage ==
  /\ stage = "away" /\ visits < MaxVisits /\ visits' = visits + 1
  /\ \/ stage' = "source" /\ call' = NoCall
     \/ stage' = "finding" /\ call' = Still
  /\ offer' = NoOffer /\ picked' = {} /\ said' = Silent /\ left' = {} /\ stop' = "none"
  /\ own' = {} /\ deaf' = {} /\ told' = {} /\ wanted' = [hand |-> {}, run |-> {}]
  /\ UNCHANGED <<serverVars, aside>>

(* findPosts, readExportFile; on /import/threads, find once more. *)
AskForPosts ==
  /\ stage \in {"source", "finding"} /\ call = NoCall
  /\ \/ call' = Still
     \/ stage = "source" /\ call' = [Still EXCEPT !.what = "read"]
  /\ UNCHANGED <<serverVars, stage, offer, picked, runVars, aside, visits, wanted>>

(* parseUploadedFile found posts; which of them are known is asked next.    *)
FileParsed ==
  /\ call # NoCall /\ call.what = "read"
  /\ call' = [call EXCEPT !.what = "check"]
  /\ UNCHANGED <<serverVars, stage, offer, picked, runVars, aside, visits, wanted>>

(* Refused, unread or not understood: a notice, and the page as it was.     *)
NothingFound ==
  /\ call # NoCall /\ call.what \in {"find", "read", "check"} /\ Aside
  /\ call' = NoCall
  /\ UNCHANGED <<serverVars, stage, offer, picked, runVars, visits, wanted>>

Lines(o) == 1..o.rows

(* Slip: whatever fits is ticked. *)
TickedAll(o) ==
  LET new == {r \in Lines(o) : o.guid[r] \notin o.known}
  IN  {o.guid[r] : r \in {r \in new : Cardinality({n \in new : n < r}) < o.slots}}

(* Every new, full item that there is room for. *)
Ticked(o) ==
  LET new == {r \in Lines(o) : r \notin o.thin /\ o.guid[r] \notin o.known}
  IN  {o.guid[r] : r \in {r \in new : Cardinality({n \in new : n < r}) < o.slots}}

(* A thread has a name of its own and is never a preview; a file's entries  *)
(* have their own ids.                                                      *)
Offered(door, rows, guid, thin) ==
  /\ door # "feed" => guid = [r \in Line |-> r]
  /\ door = "threads" => thin = {}
  /\ \A r \in Line : guid[r] <= r /\ guid[guid[r]] = guid[r] /\ (r > rows => guid[r] = r /\ r \notin thin)

DoorAsked == IF stage = "finding" THEN "threads" ELSE IF call.what = "check" THEN "file" ELSE "feed"

(* showPicker *)
ShowPicker ==
  /\ call # NoCall /\ call.what \in {"find", "check"}
  /\ \E rows \in Line, guid \in [Line -> Guid], thin \in SUBSET Line :
       /\ Offered(DoorAsked, rows, guid, thin)
       /\ offer' = [door |-> DoorAsked, rows |-> rows, guid |-> guid, thin |-> thin,
                    known |-> filedGuids, slots |-> room]
       /\ picked' = Ticked(offer')
  /\ said' = Silent /\ stage' = "pick" /\ call' = NoCall
  /\ UNCHANGED <<serverVars, left, stop, own, deaf, told, aside, visits, wanted>>

-----------------------------------------------------------------------------
(* Picking.                                                                 *)

Listed(o) == {o.guid[r] : r \in Lines(o)}

Toggle(g) ==
  /\ stage = "pick" /\ g \in Listed(offer) \ offer.known
  /\ picked' = IF g \in picked THEN picked \ {g} ELSE picked \cup {g}
  /\ wanted' = [wanted EXCEPT !.hand = IF g \in picked THEN @ \ {g} ELSE @ \cup {g}]
  /\ UNCHANGED <<serverVars, stage, offer, runVars, call, aside, visits>>

ToggleAll ==
  /\ stage = "pick" /\ offer.door = "threads"
  /\ Cardinality(Listed(offer) \ offer.known) > 1
  /\ picked' = IF picked = {} THEN Ticked(offer) ELSE {}
  /\ UNCHANGED <<serverVars, stage, offer, runVars, call, aside, visits, wanted>>

AnotherSource ==
  /\ stage = "pick" /\ offer.door # "threads"
  /\ stage' = "source" /\ offer' = NoOffer
  /\ wanted' = [wanted EXCEPT !.hand = {}]
  /\ UNCHANGED <<serverVars, picked, runVars, call, aside, visits>>

-----------------------------------------------------------------------------
(* runImport: the picked rows in order, one at a time.                      *)

RunImport ==
  LET rows == {r \in Lines(offer) : offer.guid[r] \in picked} IN
  /\ stage = "pick" /\ rows # {}
  /\ stage' = "importing" /\ left' = rows
  /\ said' = [g \in Guid |-> IF g \in picked THEN "pending" ELSE "none"]
  /\ wanted' = [wanted EXCEPT !.run = picked]
  /\ UNCHANGED <<serverVars, offer, picked, stop, own, deaf, told, call, aside, visits>>

FirstLeft == CHOOSE r \in left : \A n \in left : r <= n
Say(r, word) == said' = [said EXCEPT ![offer.guid[r]] = word]

(* The rest of a stopped run is skipped, for the reason it stopped.         *)
SkipRow ==
  /\ stage = "importing" /\ call = NoCall /\ left # {} /\ stop # "none"
  /\ Say(FirstLeft, stop)
  /\ left' = left \ {FirstLeft}
  /\ UNCHANGED <<serverVars, stage, offer, picked, stop, own, deaf, told, call, aside, visits, wanted>>

(* A thread is read first. *)
StartRow ==
  LET what == IF offer.door = "threads" THEN "assemble" ELSE "draft" IN
  /\ stage = "importing" /\ call = NoCall /\ left # {} /\ stop = "none"
  /\ Say(FirstLeft, IF what = "assemble" THEN "reading" ELSE "saving")
  /\ left' = left \ {FirstLeft}
  /\ call' = [Still EXCEPT !.what = what, !.row = FirstLeft]
  /\ UNCHANGED <<serverVars, stage, offer, picked, stop, own, deaf, told, aside, visits, wanted>>

RunDone ==
  /\ stage = "importing" /\ call = NoCall /\ left = {}
  /\ stage' = "done"
  /\ UNCHANGED <<serverVars, offer, picked, runVars, call, aside, visits, wanted>>

Calls(what) == call # NoCall /\ call.what = what

(* A thread that is not assembled lands nothing; out of reads, the run stops. *)
ThreadRead ==
  /\ Calls("assemble")
  /\ \/ /\ \E cut \in BOOLEAN : call' = [call EXCEPT !.what = "draft", !.cut = cut]
        /\ Say(call.row, "saving") /\ UNCHANGED <<stop, told, aside>>
     \/ /\ Aside /\ call' = NoCall /\ Say(call.row, "failed")
        /\ \/ stop' = "too many threads" /\ told' = told \cup {"too many threads"}
           \/ UNCHANGED <<stop, told>>
  /\ UNCHANGED <<serverVars, stage, offer, picked, left, own, deaf, visits, wanted>>

Verdict(g, long) ==
  IF long THEN "too long"
  ELSE IF g \in filedGuids THEN "already in your drafts"
  ELSE IF room = 0 THEN "draft limit" ELSE "ok"

Files(g, verdict) ==
  /\ filedGuids' = IF verdict = "ok" THEN filedGuids \cup {g} ELSE filedGuids
  /\ room' = IF verdict = "ok" THEN room - 1 ELSE room

(* /api/import/draft *)
HandleDraft ==
  /\ Calls("draft") /\ call.ans = "none"
  /\ \E long \in BOOLEAN :
       LET g == offer.guid[call.row]
           v == Verdict(g, long)
       IN  /\ Files(g, v)
           /\ own' = IF v = "ok" THEN own \cup {[guid |-> g, cut |-> call.cut]} ELSE own
           /\ told' = IF v = "ok" THEN told ELSE told \cup {v}
           /\ call' = [call EXCEPT !.ans = v]
  /\ UNCHANGED <<strays, stage, offer, picked, said, left, stop, deaf, aside, visits, wanted>>

(* Slip: a refused row is said to have been saved. *)
SaysSaved(c) == IF c.ans \in {"ok", "already in your drafts"} THEN "saved" ELSE c.ans

(* Slip: what was lost of a thread is not said. *)
SaysWhole(c) == IF c.ans = "ok" THEN "saved" ELSE c.ans

Says(c) == IF c.ans = "ok" THEN IF c.cut THEN "saved, cut" ELSE "saved" ELSE c.ans

(* Slip: any refusal stops the run. *)
StopsAtRefusal(ans) == IF ans = "ok" THEN "none" ELSE "draft limit"

Stops(ans) == IF ans = "draft limit" THEN ans ELSE "none"

DraftAnswered ==
  /\ Calls("draft") /\ call.ans # "none"
  /\ Say(call.row, Says(call)) /\ stop' = Stops(call.ans)
  /\ call' = NoCall
  /\ UNCHANGED <<serverVars, stage, offer, picked, left, own, deaf, told, aside, visits, wanted>>

(* An error, an answer that is lost or not understood, before the handler   *)
(* did its work or after; the run goes on.                                  *)
DraftUnheard ==
  /\ Calls("draft") /\ Aside
  /\ Say(call.row, "failed") /\ deaf' = deaf \cup {offer.guid[call.row]}
  /\ call' = NoCall
  /\ UNCHANGED <<serverVars, stage, offer, picked, left, stop, own, told, visits, wanted>>

(* The page is left: the run is aborted, and what it had sent may arrive.   *)
LeavePage ==
  /\ stage # "away"
  /\ stage' = "away" /\ call' = NoCall
  /\ strays' = IF Calls("draft") /\ call.ans = "none" THEN strays \cup {offer.guid[call.row]} ELSE strays
  /\ UNCHANGED <<filedGuids, room, offer, picked, runVars, aside, visits, wanted>>

StrayHandled(g) ==
  /\ g \in strays /\ strays' = strays \ {g}
  /\ \E long \in BOOLEAN : Files(g, Verdict(g, long))
  /\ UNCHANGED <<stage, offer, picked, runVars, call, aside, visits, wanted>>

(* Another page of the writer's imports it, or a draft is published or      *)
(* discarded, which makes room (and, discarded, forgets the guid).          *)
Elsewhere(g) ==
  /\ stage # "away" /\ Aside
  /\ \/ g \notin filedGuids /\ room > 0 /\ Files(g, "ok")
     \/ g \in filedGuids /\ room < RoomAtMost /\ room' = room + 1
        /\ filedGuids' \in {filedGuids, filedGuids \ {g}}
  /\ UNCHANGED <<strays, stage, offer, picked, runVars, call, visits, wanted>>

PageNext ==
  \/ OpenPage \/ AskForPosts \/ FileParsed \/ NothingFound \/ ShowPicker
  \/ ToggleAll \/ AnotherSource \/ RunImport \/ SkipRow \/ StartRow \/ RunDone
  \/ ThreadRead \/ HandleDraft \/ DraftAnswered \/ DraftUnheard \/ LeavePage
  \/ \E g \in Guid : Toggle(g) \/ StrayHandled(g) \/ Elsewhere(g)

PageSpec == PageInit /\ [][PageNext]_pageVars

-----------------------------------------------------------------------------
PageTypeOK ==
  /\ filedGuids \subseteq Guid /\ room \in 0..RoomAtMost
  /\ stage \in {"away", "source", "finding", "pick", "importing", "done"}
  /\ offer \in Offer \cup {NoOffer} /\ call \in Call \cup {NoCall}
  /\ {picked, strays, deaf, wanted.hand, wanted.run} \subseteq SUBSET Guid
  /\ own \subseteq [guid : Guid, cut : BOOLEAN]
  /\ said \in [Guid -> Word] /\ left \subseteq Line
  /\ stop \in Reason \cup {"none"} /\ told \subseteq Reason
  /\ aside \in 0..MaxAside /\ visits \in 0..MaxVisits

Own == {f.guid : f \in own}
ListedTwice(g) == Cardinality({r \in Lines(offer) : offer.guid[r] = g}) > 1

(* What a row says is so: a saved one was filed by this run, whole unless   *)
(* it says otherwise; one that failed or was refused was not filed, unless  *)
(* its answer was not heard or the feed lists it twice; and a reason is one *)
(* the server gave.                                                         *)
RowsAreTrue ==
  \A g \in Guid :
    /\ said[g] \in {"saved", "saved, cut"} => [guid |-> g, cut |-> said[g] = "saved, cut"] \in own
    /\ said[g] \in Reason \cup {"failed"} /\ g \in Own => g \in deaf \/ ListedTwice(g)
    /\ said[g] \in Reason => said[g] \in told

(* Nothing is brought over that was not ticked when the run began; unless   *)
(* ticked by hand, that is nothing known, no preview, and nothing there was *)
(* no room for.                                                             *)
OnlyTheTicked ==
  /\ Own \subseteq wanted.run
  /\ stage = "pick" =>
       LET unasked == picked \ wanted.hand IN
       /\ Cardinality(unasked) <= offer.slots
       /\ \A g \in unasked : g \notin offer.known /\ \E r \in Lines(offer) \ offer.thin : offer.guid[r] = g

(* A finished run has settled every row. *)
AllSettled == stage = "done" => \A g \in wanted.run : said[g] \notin {"pending", "reading", "saving", "none"}

(* What the import says of every post (runImport) is so, of the posts that   *)
(* were ticked, and of all of them.                                          *)
ImportSaysTrue == RowsAreTrue /\ OnlyTheTicked /\ AllSettled
=============================================================================
