------------------------------- MODULE FeedFetch -------------------------------
(***************************************************************************)
(* /api/import: from the address a writer pastes to the posts of its feed. *)
(* An address may send on to another, refuse, or answer with a page, which *)
(* may name its feeds; failing that, the usual places are tried.           *)
(*                                                                         *)
(* External: what each address answers.  An entry of a feed is what can be *)
(* made of it.                                                             *)
(***************************************************************************)
EXTENDS Integers, Sequences, FiniteSets, SequencesExt

CONSTANTS
  Address,       \* of the web
  UsualPlaces,   \* where a page's feed is looked for: a sequence of addresses
  Unfit,         \* those of Address no fetch may go to: our own, and no public ones
  HopLimit,      \* MAX_REDIRECT_HOPS
  TryCap,        \* MAX_DISCOVERY_ATTEMPTS
  ListedAtMost,  \* MAX_ITEMS_PER_RUN
  RunsPerHour,   \* MAX_IMPORTS_PER_HOUR
  MaxRuns,       \* bound: addresses pasted
  Hints,         \* what a page may name: sequences of addresses
  Entries,       \* what a feed may carry: sequences of EntryKind
  NoFetch, NoReply

ASSUME FeedFetchAssumption ==
  /\ UsualPlaces \in Seq(Address) /\ Unfit \subseteq Address
  /\ Hints \subseteq Seq(Address) /\ Entries \subseteq Seq({"whole", "teaser", "nameless"})
  /\ {HopLimit, RunsPerHour, MaxRuns} \subseteq Nat /\ {TryCap, ListedAtMost} \subseteq Nat \ {0}

VARIABLES
  web,    \* what each address answers, once it was asked
  runs,   \* import_fetches of the hour
  pasted, \* bound: addresses pasted
  fetch,  \* the run under way
  reply   \* what the writer is told of the last one

feedVars == <<web, runs, pasted, fetch, reply>>

(* What can be made of an entry: a post, a teaser, nothing to know it by.   *)
EntryKind == {"whole", "teaser", "nameless"}

(* busy: 429.  broken: an error, or no answer in time.  other: neither feed *)
(* nor page.  to: where a redirect leads.  hints: the feeds a page names.   *)
Short(kind) == [kind |-> kind, to |-> NoFetch, hints |-> <<>>, entries |-> <<>>]
Answers ==
  {Short(kind) : kind \in {"busy", "broken", "large", "other"}}
  \cup {[Short("redirect") EXCEPT !.to = a] : a \in Address}
  \cup {[Short("page") EXCEPT !.hints = h] : h \in Hints}
  \cup {[Short("feed") EXCEPT !.entries = e] : e \in Entries}

(* base: the page the pasted address came to.  left: candidates to try.     *)
(* tried, asked: history, the candidates tried and the fetches made.        *)
Fetch == [at : Address, hops : 0..HopLimit, base : Address \cup {NoFetch}, left : Seq(Address),
          tried : SUBSET Address, asked : Nat]

(* What is told.  at, from, tried, asked: history, the feed's own address,  *)
(* the page it was looked for from, and what that took.                     *)
Reply == [said : {"list", "blocked", "unreachable", "invalid", "too large", "not a feed",
                  "rate limited"},
          at : Address \cup {NoFetch}, from : Address \cup {NoFetch}, listed : Nat, total : Nat,
          tried : SUBSET Address, asked : Nat]

ASSUME FeedNullsAssumption == NoFetch \notin Address \cup Fetch /\ NoReply \notin Answers \cup Reply

FeedInit ==
  /\ web = [a \in Address |-> NoReply]
  /\ runs = 0 /\ pasted = 0 /\ fetch = NoFetch /\ reply = NoReply

-----------------------------------------------------------------------------
(* The run.                                                                 *)

Cut(s, n) == SubSeq(s, 1, IF Len(s) < n THEN Len(s) ELSE n)

Told(said) == [said |-> said, at |-> NoFetch, from |-> fetch.base, listed |-> 0, total |-> 0,
               tried |-> fetch.tried, asked |-> fetch.asked + 1]

(* Counted before it is made, so one that fails has been spent.             *)
Paste(a) ==
  /\ fetch = NoFetch /\ pasted < MaxRuns /\ pasted' = pasted + 1
  /\ IF runs >= RunsPerHour
     THEN /\ reply' = [said |-> "rate limited", at |-> NoFetch, from |-> NoFetch, listed |-> 0,
                       total |-> 0, tried |-> {}, asked |-> 0]
          /\ UNCHANGED <<runs, fetch>>
     ELSE /\ runs' = runs + 1
          /\ IF a \in Unfit
             THEN reply' = [said |-> "invalid", at |-> NoFetch, from |-> NoFetch, listed |-> 0,
                            total |-> 0, tried |-> {}, asked |-> 0] /\ fetch' = NoFetch
             ELSE /\ reply' = NoReply
                  /\ fetch' = [at |-> a, hops |-> 0, base |-> NoFetch, left |-> <<>>, tried |-> {},
                               asked |-> 0]
  /\ UNCHANGED web

HourOver ==
  /\ runs > 0 /\ runs' = 0
  /\ UNCHANGED <<web, pasted, fetch, reply>>

End(said) == fetch' = NoFetch /\ reply' = Told(said)

Turn(base, left) ==
  /\ fetch' = [fetch EXCEPT !.at = Head(left), !.left = Tail(left), !.hops = 0, !.base = base,
                            !.tried = @ \cup {Head(left)}, !.asked = @ + 1]
  /\ UNCHANGED reply

(* Slip: a candidate failing ends the run too.                              *)
FailsRun(said) == End(said)

(* The pasted address failing is the run failing; a candidate failing is    *)
(* not, and the next is tried.                                              *)
Fails(said) ==
  IF fetch.base = NoFetch THEN End(said)
  ELSE IF fetch.left = <<>> THEN End("not a feed")
  ELSE Turn(fetch.base, fetch.left)

(* Slip: cut before those are dropped.                                      *)
PlacesCut(hints, page) ==
  SelectSeq(Cut(hints \o UsualPlaces, TryCap), LAMBDA a : a \notin Unfit \cup {page})

(* discoverFeedUrls: the page's own hints first, each once, the page itself *)
(* and what is unfit dropped before the cut.                                *)
PlacesToTry(hints, page) ==
  LET named == hints \o UsualPlaces
      fit   == {n \in 1..Len(named) : /\ named[n] \notin Unfit \cup {page}
                                      /\ \A k \in 1..n - 1 : named[k] # named[n]}
      nth(n) == CHOOSE k \in fit : Cardinality({j \in fit : j <= k}) = n
  IN  Cut([n \in 1..Cardinality(fit) |-> named[nth(n)]], TryCap)

(* A page a candidate leads to is not looked into: one round.               *)
LookInto(a) ==
  LET candidates == PlacesToTry(web'[a].hints, a)
  IN  IF fetch.base # NoFetch THEN Fails("not a feed")
      ELSE IF candidates = <<>> THEN End("not a feed")
      ELSE Turn(a, candidates)

(* Slip: a hop is taken as it comes.                                        *)
FollowOn(a) ==
  IF fetch.hops = HopLimit THEN Fails("unreachable")
  ELSE /\ fetch' = [fetch EXCEPT !.at = a, !.hops = @ + 1, !.asked = @ + 1]
       /\ UNCHANGED reply

(* Every hop is looked at again before it is taken.                         *)
Follow(a) ==
  IF a \in Unfit THEN Fails("invalid")
  ELSE IF fetch.hops = HopLimit THEN Fails("unreachable")
  ELSE /\ fetch' = [fetch EXCEPT !.at = a, !.hops = @ + 1, !.asked = @ + 1]
       /\ UNCHANGED reply

(* parseFeedDocument: cut first, then what nothing is known by is left out; *)
(* the total is of what the feed carried.                                   *)
Posts(entries) == {n \in DOMAIN Cut(entries, ListedAtMost) : entries[n] # "nameless"}

(* Slip: the total is of what is listed.                                    *)
TotalListed(entries) == Cardinality(Posts(entries))

TotalOf(entries) == Len(entries)

ListFeed(a) ==
  LET entries == web'[a].entries
  IN  /\ fetch' = NoFetch
      /\ reply' = [Told("list") EXCEPT !.at = a, !.listed = Cardinality(Posts(entries)),
                                       !.total = TotalOf(entries)]

Hear(kind) ==
  CASE kind = "busy" -> Fails("blocked")
    [] kind = "broken" -> Fails("unreachable")
    [] kind = "large" -> Fails("too large")
    [] kind = "other" -> Fails("not a feed")
    [] kind = "redirect" -> Follow(web'[fetch.at].to)
    [] kind = "page" -> LookInto(fetch.at)
    [] kind = "feed" -> ListFeed(fetch.at)

(* An address answers the same however often it is asked.                   *)
Fetched ==
  /\ fetch # NoFetch
  /\ IF web[fetch.at] = NoReply
     THEN \E answer \in Answers : web' = [web EXCEPT ![fetch.at] = answer]
     ELSE UNCHANGED web
  /\ Hear(web'[fetch.at].kind)
  /\ UNCHANGED <<runs, pasted>>

FeedNext == (\E a \in Address : Paste(a)) \/ HourOver \/ Fetched
FeedSpec == FeedInit /\ [][FeedNext]_feedVars

FeedTypeOK ==
  /\ web \in [Address -> Answers \cup {NoReply}]
  /\ runs \in 0..RunsPerHour /\ pasted \in 0..MaxRuns
  /\ fetch \in Fetch \cup {NoFetch} /\ reply \in Reply \cup {NoReply}

-----------------------------------------------------------------------------
(* Properties                                                               *)

(* Where an address leads in at most HopLimit hops, as far as it was asked. *)
Step(a) == IF web[a] # NoReply /\ web[a].kind = "redirect" THEN web[a].to ELSE a
LeadsTo(a) ==
  LET after[n \in 0..HopLimit] == IF n = 0 THEN a ELSE Step(after[n - 1]) IN after[HopLimit]

(* Where the page just looked at lets one look.                             *)
Places == (Range(web[reply.from].hints) \cup Range(UsualPlaces)) \ (Unfit \cup {reply.from})

(* No feed is missed and none is made up.  A list is of an address that     *)
(* answers with a feed; "not a feed" from a page is said only when as many  *)
(* of the places to look as the cap lets be tried were, and none of them    *)
(* leads to a feed; a place of the usual ones is tried only after all the   *)
(* page names; a total the list reaches means every entry is on it.  And no *)
(* address we may not go to was ever asked, however it was reached, nor     *)
(* more of them than the two limits allow (resolveFeed, fetchImportable).   *)
FeedFound ==
  /\ reply # NoReply =>
       /\ reply.asked <= (HopLimit + 1) * (TryCap + 1)
       /\ reply.said = "list" =>
            LET entries == web[reply.at].entries
            IN  /\ web[reply.at].kind = "feed"
                /\ reply.listed >= reply.total => Posts(entries) = DOMAIN entries
       /\ reply.said = "not a feed" /\ reply.from # NoFetch =>
            LET named == Places \cap Range(web[reply.from].hints)
            IN  /\ Cardinality(reply.tried) = TryCap \/ reply.tried = Places
                /\ reply.tried \subseteq named \/ named \subseteq reply.tried
                /\ \A a \in reply.tried : web[LeadsTo(a)] = NoReply \/ web[LeadsTo(a)].kind # "feed"
  /\ \A a \in Unfit : web[a] = NoReply

=============================================================================
