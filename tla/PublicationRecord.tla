--------------------------- MODULE PublicationRecord ---------------------------
(***************************************************************************)
(* The writer's publication record, which every request finds by reading a *)
(* page of the collection, oldest first: a publish makes one when there is *)
(* none, and the settings page saves it, colours it and moves it off the   *)
(* legacy origin.  Nothing but the reading tells a writer without one from *)
(* a writer whose repo would not answer.                                   *)
(***************************************************************************)
EXTENDS Integers, FiniteSets

CONSTANTS
  Asker,       \* requests under way at once
  LastPub,     \* record keys (TIDs) are 1..LastPub, handed out in order
  MaxAsked,    \* bound: requests made
  MaxRefused,  \* bound: calls that fail, or whose answer is lost
  NoPub, NoTask, Loose

PubKey == 1..LastPub
Mark == 0..MaxAsked

ASSUME PublicationRecordAssumption ==
  LastPub \in Nat \ {0} /\ MaxAsked \in Nat /\ MaxRefused \in Nat

VARIABLES
  pubs,    \* the writer's own publication records; other apps' are never looked at
  nextPub, \* the next key
  task,    \* each request
  asked,   \* requests made; numbers what their forms say
  refused, \* failed calls so far
  sites,   \* what published documents name as their publication
  hosted,  \* the hosted_publications row is there
  wanted,  \* history: what the writer asked for last, field by field
  crossed  \* history: a request wrote over one it had not read

pubVars == <<pubs, nextPub, task, asked, refused, sites, hosted, wanted, crossed>>

Publication == [name: Mark, theme: Mark, canonical: BOOLEAN]

ASSUME NoPubAssumption == NoPub \notin PubKey \cup Publication

(* before: history, the records that were there when the request began.     *)
Task == [kind: {"publish", "save", "theme", "move"}, at: {"read", "write"}, mark: Mark,
         own: PubKey \cup {NoPub}, read: Publication \cup {NoPub}, before: SUBSET PubKey]

OnOurOrigin == {k \in PubKey : pubs[k] # NoPub}

(* reverse: true lists the oldest first. *)
Found == IF OnOurOrigin = {} THEN NoPub
         ELSE CHOOSE k \in OnOurOrigin : \A j \in OnOurOrigin : k <= j

RecInit ==
  /\ \E old \in {NoPub, [name |-> 0, theme |-> 0, canonical |-> FALSE]} :
       /\ pubs = [k \in PubKey |-> IF k = 1 THEN old ELSE NoPub]
       /\ nextPub = IF old = NoPub THEN 1 ELSE 2
       /\ wanted = [name |-> 0, theme |-> 0, canonical |-> old = NoPub]
  /\ task = [a \in Asker |-> NoTask]
  /\ asked = 0 /\ refused = 0
  /\ sites = {} /\ hosted = FALSE
  /\ crossed = FALSE

Fails == refused < MaxRefused /\ refused' = refused + 1
Finished(a) == task' = [task EXCEPT ![a] = NoTask]

Ask(a) ==
  /\ task[a] = NoTask /\ asked < MaxAsked
  /\ asked' = asked + 1
  /\ \E kind \in {"publish", "save", "theme", "move"} :
       task' = [task EXCEPT ![a] =
         [kind |-> kind, at |-> "read", mark |-> asked', own |-> NoPub, read |-> NoPub,
          before |-> OnOurOrigin]]
  /\ UNCHANGED <<pubs, nextPub, refused, sites, hosted, wanted, crossed>>

(* A theme or a move has nothing to do without a publication, nor a move of *)
(* a canonical one; only a publish and a settings save make one.            *)
GoesOn(kind) ==
  CASE kind = "theme" -> Found # NoPub
    [] kind = "move" -> Found # NoPub /\ ~pubs[Found].canonical
    [] OTHER -> TRUE

(* A document goes out naming what it was given; noteHostedPublication      *)
(* takes note of a record of ours.                                          *)
PublishedTo(site) ==
  /\ sites' = sites \cup {site}
  /\ hosted' = (hosted \/ site # Loose)

(* findOwnPublication's answer, as resolvePublicationSite and the settings  *)
(* intents take it. *)
FindPublication(a) ==
  /\ task[a] # NoTask /\ task[a].at = "read"
  /\ IF ~GoesOn(task[a].kind) \/ (task[a].kind = "publish" /\ Found # NoPub)
     THEN /\ Finished(a)
          /\ IF task[a].kind = "publish" THEN PublishedTo(Found) ELSE UNCHANGED <<sites, hosted>>
     ELSE /\ task' = [task EXCEPT ![a].at = "write", ![a].own = Found,
                        ![a].read = IF Found = NoPub THEN NoPub ELSE pubs[Found]]
          /\ UNCHANGED <<sites, hosted>>
  /\ UNCHANGED <<pubs, nextPub, asked, refused, wanted, crossed>>

(* Slip: a collection that could not be read is taken for an empty one. *)
TakenForNone(a) == task' = [task EXCEPT ![a].at = "write"] /\ UNCHANGED <<sites, hosted>>

(* A publish goes out loose; the others are refused. *)
Unreadable(a) ==
  /\ Finished(a)
  /\ IF task[a].kind = "publish" THEN PublishedTo(Loose) ELSE UNCHANGED <<sites, hosted>>

FindFails(a) ==
  /\ task[a] # NoTask /\ task[a].at = "read"
  /\ Fails /\ Unreadable(a)
  /\ UNCHANGED <<pubs, nextPub, asked, wanted, crossed>>

(* Slip: the record is built from the form alone. *)
FormAlone(t) ==
  [name |-> IF t.kind = "save" THEN t.mark ELSE 0,
   theme |-> IF t.kind = "theme" THEN t.mark ELSE 0, canonical |-> TRUE]

(* What the request is not about is the record's own; a new one is          *)
(* canonical.                                                               *)
Base(t) == IF t.own = NoPub THEN [name |-> 0, theme |-> 0, canonical |-> TRUE] ELSE t.read

(* buildPublicationRecord, withBasicTheme, and the move's spread. *)
Named(t) == [Base(t) EXCEPT !.name = t.mark]
Themed(t) == [Base(t) EXCEPT !.theme = t.mark]
Moved(t) == [Base(t) EXCEPT !.canonical = TRUE]

Rebuilt(t) ==
  CASE t.kind = "save" -> Named(t)
    [] t.kind = "theme" -> Themed(t)
    [] t.kind = "move" -> Moved(t)
    [] OTHER -> Base(t)

(* The key a new record gets; without one left the instance stops here.     *)
Target(t) == IF t.own = NoPub THEN nextPub ELSE t.own

Put(t) ==
  /\ Target(t) \in PubKey
  /\ pubs' = [pubs EXCEPT ![Target(t)] = Rebuilt(t)]
  /\ nextPub' = IF t.own = NoPub THEN nextPub + 1 ELSE nextPub
  /\ wanted' = CASE t.kind = "save" -> [wanted EXCEPT !.name = t.mark]
                 [] t.kind = "theme" -> [wanted EXCEPT !.theme = t.mark]
                 [] t.kind = "move" -> [wanted EXCEPT !.canonical = TRUE]
                 [] OTHER -> wanted
  /\ crossed' = (crossed \/ (IF t.own = NoPub THEN OnOurOrigin \ t.before # {}
                             ELSE pubs[t.own] # t.read))

(* createRecord or putRecord, without swapRecord.  A publish whose create   *)
(* did not land, or was not heard of, goes out loose.                       *)
WritePublication(a) ==
  LET t == task[a] IN
  /\ t # NoTask /\ t.at = "write"
  /\ \/ Put(t) /\ UNCHANGED refused
        /\ IF t.kind = "publish" THEN PublishedTo(Target(t)) ELSE UNCHANGED <<sites, hosted>>
     \/ /\ Fails /\ (Put(t) \/ UNCHANGED <<pubs, nextPub, wanted, crossed>>)
        /\ IF t.kind = "publish" THEN PublishedTo(Loose) ELSE UNCHANGED <<sites, hosted>>
  /\ Finished(a)
  /\ UNCHANGED asked

RecNext ==
  \E a \in Asker : Ask(a) \/ FindPublication(a) \/ FindFails(a) \/ WritePublication(a)

RecSpec == RecInit /\ [][RecNext]_pubVars

-----------------------------------------------------------------------------
RecTypeOK ==
  /\ pubs \in [PubKey -> Publication \cup {NoPub}]
  /\ nextPub \in 1..(LastPub + 1)
  /\ task \in [Asker -> Task \cup {NoTask}]
  /\ asked \in Mark /\ refused \in 0..MaxRefused
  /\ sites \subseteq PubKey \cup {Loose} /\ hosted \in BOOLEAN
  /\ wanted \in Publication /\ crossed \in BOOLEAN

(* A record made while a request of an earlier one's making was under way   *)
(* is the only second one: no failed read, lost answer or repeat of a       *)
(* request makes one for a writer who has one.                              *)
OneMade ==
  \A k \in PubKey : pubs[k] = NoPub /\ pubs'[k] # NoPub =>
    \E a \in Asker : task[a] # NoTask /\ task[a].before = {} /\ task'[a] = NoTask
OnePublication == [][OneMade]_pubVars

(* Name, colours and origin are what the writer last asked of each, on the  *)
(* publication that every lookup finds and every document names, unless two *)
(* requests crossed: no save, theme or move undoes another.                 *)
SettingsKept ==
  ~crossed =>
    /\ Found # NoPub => pubs[Found] = wanted
    /\ sites \subseteq {Found, Loose}
=============================================================================
