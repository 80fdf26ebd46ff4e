-------------------------------- MODULE Imports --------------------------------
(***************************************************************************)
(* Bringing posts over: the picker pages that walk the chosen items one    *)
(* request at a time, the handler that files each as a draft with a ledger *)
(* row, and what a publish, a deletion and an adoption do to that row.     *)
(*                                                                         *)
(* An item is its guid; a row of the ledger is unique to it.               *)
(***************************************************************************)
EXTENDS Integers, FiniteSets

CONSTANTS
  Item,
  Picker,     \* import pages
  Press,      \* publishes under way at once: the editor's form, the cron
  DraftRow,   \* the draft ids the handler mints (random UUIDs)
  PostKey,    \* the record keys publishes use
  RowCap,     \* MAX_DRAFTS_PER_USER
  MaxMishaps, \* bound: calls that fail
  NoItem, NoEntry, NoRun, NoPress, None

ASSUME ImportsAssumption == RowCap \in Nat /\ MaxMishaps \in Nat

VARIABLES
  ledger,  \* import_items
  filed,   \* the drafts the items were filed as
  posts,   \* the documents they were published as
  spent,   \* draft ids and record keys used up
  run,     \* each page's run
  press,   \* each publish
  erasing, \* deleted documents whose ledger row is still to be cleared
  mishaps, \* failed calls so far
  raced    \* history: items no promise is made of, see Races

impVars == <<ledger, filed, posts, spent, run, press, erasing, mishaps, raced>>

Entry == [draft: DraftRow \cup {None}, key: PostKey \cup {None}, adopted: BOOLEAN]

(* todo: picked items not reached yet.  seen: the ledger row read.          *)
Run == [at: {"next", "live", "count", "batch"}, item: Item \cup {NoItem}, todo: SUBSET Item,
        seen: Entry \cup {NoEntry}]

(* of: the item the draft was filed from.  known: the publish found a       *)
(* ledger row (the cron does not look).                                     *)
Publish == [at: {"row", "write", "note", "clean"}, draft: DraftRow, of: Item,
            known: BOOLEAN, key: PostKey \cup {None}]

ASSUME ImportsNullsAssumption ==
  /\ NoItem \notin Item /\ None \notin DraftRow \cup PostKey
  /\ NoEntry \notin Entry /\ NoRun \notin Run /\ NoPress \notin Publish

ImpInit ==
  /\ ledger = [i \in Item |-> NoEntry]
  /\ filed = [d \in DraftRow |-> NoItem]
  /\ posts = [k \in PostKey |-> NoItem]
  /\ spent = {}
  /\ run = [t \in Picker |-> NoRun]
  /\ press = [p \in Press |-> NoPress]
  /\ erasing = {}
  /\ mishaps = 0
  /\ raced = {}

Filed == {d \in DraftRow : filed[d] # NoItem}
Mishap == mishaps < MaxMishaps /\ mishaps' = mishaps + 1
Races(i) == raced' = raced \cup {i}

-----------------------------------------------------------------------------
(* A run of the picker: one request after another.                          *)

Pick(t) ==
  /\ run[t] = NoRun
  /\ \E todo \in (SUBSET Item) \ {{}} :
       run' = [run EXCEPT ![t] = [at |-> "next", item |-> NoItem, todo |-> todo, seen |-> NoEntry]]
  /\ UNCHANGED <<ledger, filed, posts, spent, press, erasing, mishaps, raced>>

(* Saved, skipped or failed: the run goes on.                               *)
NextItem(t) == run' = [run EXCEPT ![t] =
                 IF run[t].todo = {} THEN NoRun
                 ELSE [@ EXCEPT !.at = "next", !.item = NoItem, !.seen = NoEntry]]

(* selectImportItem: a published item is refused. *)
LookUpItem(t) ==
  /\ run[t] # NoRun /\ run[t].at = "next"
  /\ \E i \in run[t].todo :
       LET entry == ledger[i]
           begun == [run[t] EXCEPT !.item = i, !.todo = @ \ {i}, !.seen = entry]
       IN  run' = [run EXCEPT ![t] =
             CASE entry = NoEntry -> [begun EXCEPT !.at = "count"]
               [] entry # NoEntry /\ entry.key # None ->
                    IF begun.todo = {} THEN NoRun ELSE [begun EXCEPT !.at = "next"]
               [] OTHER -> [begun EXCEPT !.at = IF entry.draft = None THEN "count" ELSE "live"]]
  /\ UNCHANGED <<ledger, filed, posts, spent, press, erasing, mishaps, raced>>

(* selectLiveDraftIds: its draft was discarded. *)
Discarded(d) == d \notin Filed

CheckLive(t) ==
  /\ run[t] # NoRun /\ run[t].at = "live"
  /\ IF Discarded(run[t].seen.draft) THEN run' = [run EXCEPT ![t].at = "count"] ELSE NextItem(t)
  /\ UNCHANGED <<ledger, filed, posts, spent, press, erasing, mishaps, raced>>

(* At the cap the rest of the run is skipped.                               *)
CountFiled(t) ==
  /\ run[t] # NoRun /\ run[t].at = "count"
  /\ run' = [run EXCEPT ![t] = IF Cardinality(Filed) < RowCap THEN [@ EXCEPT !.at = "batch"] ELSE NoRun]
  /\ UNCHANGED <<ledger, filed, posts, spent, press, erasing, mishaps, raced>>

(* Slip: the ledger takes a second row for the item. *)
TakesAnother(i) == TRUE

(* import_items_did_guid_idx *)
TakesRow(i) == ledger[i] = NoEntry

(* insertImportItem, or reviveImportItem where nothing was published since; *)
(* in one batch with the draft, which a refused ledger row takes with it.   *)
File(i, d, seen) ==
  IF seen = NoEntry
  THEN /\ TakesRow(i)
       /\ ledger' = [ledger EXCEPT ![i] = [draft |-> d, key |-> None, adopted |-> FALSE]]
       /\ UNCHANGED raced
  ELSE /\ ledger' = [ledger EXCEPT ![i].draft = IF ledger[i].key = None THEN d ELSE @]
       /\ IF ledger[i] = seen THEN UNCHANGED raced ELSE Races(i)

Refuses(t) == run[t].seen = NoEntry /\ ~TakesRow(run[t].item)

FileItem(t) ==
  /\ run[t] # NoRun /\ run[t].at = "batch"
  /\ \/ \E d \in DraftRow \ spent :
          /\ File(run[t].item, d, run[t].seen)
          /\ filed' = [filed EXCEPT ![d] = run[t].item] /\ spent' = spent \cup {d}
          /\ UNCHANGED mishaps
     \/ Refuses(t) /\ UNCHANGED <<ledger, filed, spent, mishaps, raced>>
     \/ Mishap /\ UNCHANGED <<ledger, filed, spent, raced>>
  /\ NextItem(t)
  /\ UNCHANGED <<posts, press, erasing>>

(* The page is left, or the answer is lost: the request runs on.            *)
Abort(t) ==
  /\ run[t] # NoRun /\ run[t].at # "next" /\ run[t].todo # {}
  /\ run' = [run EXCEPT ![t].todo = {}]
  /\ UNCHANGED <<ledger, filed, posts, spent, press, erasing, mishaps, raced>>

-----------------------------------------------------------------------------
(* What becomes of a filed item.                                            *)

PressPublish(p) ==
  /\ press[p] = NoPress
  /\ \E d \in Filed, at \in {"row", "write"} :
       press' = [press EXCEPT ![p] =
         [at |-> at, draft |-> d, of |-> filed[d], known |-> TRUE, key |-> None]]
  /\ UNCHANGED <<ledger, filed, posts, spent, run, erasing, mishaps, raced>>

(* selectImportItemByDraft; unread, it is taken for a draft of one's own.   *)
ReadLedger(p) ==
  /\ press[p] # NoPress /\ press[p].at = "row"
  /\ \/ /\ press' = [press EXCEPT ![p].at = "write",
                        ![p].known = \E i \in Item : ledger[i] # NoEntry /\ ledger[i].draft = press[p].draft]
        /\ UNCHANGED mishaps
     \/ Mishap /\ press' = [press EXCEPT ![p].at = "write", ![p].known = FALSE]
  /\ UNCHANGED <<ledger, filed, posts, spent, run, erasing, raced>>

(* Another publish has the same draft in hand, or the draft went meanwhile. *)
Contested(p) ==
  \/ filed[press[p].draft] = NoItem
  \/ \E q \in Press \ {p} : press[q] # NoPress /\ press[q].draft = press[p].draft

WritePost(p) ==
  /\ press[p] # NoPress /\ press[p].at = "write"
  /\ \/ \E k \in PostKey \ spent :
          /\ posts' = [posts EXCEPT ![k] = press[p].of] /\ spent' = spent \cup {k}
          /\ press' = [press EXCEPT ![p].at = IF press[p].known THEN "note" ELSE "clean",
                                    ![p].key = k]
          /\ IF Contested(p) \/ ~press[p].known THEN Races(press[p].of) ELSE UNCHANGED raced
          /\ UNCHANGED mishaps
     \/ Mishap /\ press' = [press EXCEPT ![p] = NoPress] /\ UNCHANGED <<posts, spent, raced>>
  /\ UNCHANGED <<ledger, filed, run, erasing>>

(* setPublishedRkey, best effort: by the draft, wherever that points.       *)
NoteKey(p) ==
  /\ press[p] # NoPress /\ press[p].at = "note"
  /\ \/ /\ ledger' = [i \in Item |->
             IF ledger[i] # NoEntry /\ ledger[i].draft = press[p].draft
             THEN [ledger[i] EXCEPT !.key = press[p].key] ELSE ledger[i]]
        /\ UNCHANGED <<mishaps, raced>>
     \/ Mishap /\ Races(press[p].of) /\ UNCHANGED ledger
  /\ press' = [press EXCEPT ![p].at = "clean"]
  /\ UNCHANGED <<filed, posts, spent, run, erasing>>

CleanUp(p) ==
  /\ press[p] # NoPress /\ press[p].at = "clean"
  /\ \/ filed' = [filed EXCEPT ![press[p].draft] = NoItem] /\ UNCHANGED <<mishaps, raced>>
     \/ Mishap /\ Races(press[p].of) /\ UNCHANGED filed
  /\ press' = [press EXCEPT ![p] = NoPress]
  /\ UNCHANGED <<ledger, posts, spent, run, erasing>>

Discard(d) ==
  /\ d \in Filed
  /\ filed' = [filed EXCEPT ![d] = NoItem]
  /\ IF \E p \in Press : press[p] # NoPress /\ press[p].draft = d
     THEN Races(filed[d]) ELSE UNCHANGED raced
  /\ UNCHANGED <<ledger, posts, spent, run, press, erasing, mishaps>>

(* deleteDocument, before a publish has noted the key or after. *)
DeletePost(k) ==
  /\ posts[k] # NoItem
  /\ posts' = [posts EXCEPT ![k] = NoItem]
  /\ erasing' = erasing \cup {k}
  /\ IF \E p \in Press : press[p] # NoPress /\ press[p].key = k
     THEN Races(posts[k]) ELSE UNCHANGED raced
  /\ UNCHANGED <<ledger, filed, spent, run, press, mishaps>>

(* Slip: the key stays. *)
KeyKept(e) == [e EXCEPT !.adopted = FALSE]

KeyCleared(e) == [draft |-> None, key |-> None, adopted |-> FALSE]

(* clearPublishedImport, best effort. *)
ClearImport(k) ==
  LET its == {i \in Item : ledger[i] # NoEntry /\ ledger[i].key = k} IN
  /\ k \in erasing
  /\ erasing' = erasing \ {k}
  /\ \/ /\ ledger' = [i \in Item |-> IF i \in its THEN KeyCleared(ledger[i]) ELSE ledger[i]]
        /\ UNCHANGED <<mishaps, raced>>
     \/ Mishap /\ raced' = raced \cup its /\ UNCHANGED ledger
  /\ UNCHANGED <<filed, posts, spent, run, press>>

(* adoptMirror, with the edit that asks for it. *)
Adopt(k) ==
  /\ posts[k] # NoItem
  /\ ledger' = [i \in Item |-> IF ledger[i] # NoEntry /\ ledger[i].key = k
                               THEN [ledger[i] EXCEPT !.adopted = TRUE] ELSE ledger[i]]
  /\ UNCHANGED <<filed, posts, spent, run, press, erasing, mishaps, raced>>

ImpNext ==
  \/ \E t \in Picker : Pick(t) \/ LookUpItem(t) \/ CheckLive(t) \/ CountFiled(t) \/ FileItem(t) \/ Abort(t)
  \/ \E p \in Press : PressPublish(p) \/ ReadLedger(p) \/ WritePost(p) \/ NoteKey(p) \/ CleanUp(p)
  \/ \E d \in DraftRow : Discard(d)
  \/ \E k \in PostKey : DeletePost(k) \/ ClearImport(k) \/ Adopt(k)

ImpSpec == ImpInit /\ [][ImpNext]_impVars

-----------------------------------------------------------------------------
ImpTypeOK ==
  /\ ledger \in [Item -> Entry \cup {NoEntry}]
  /\ filed \in [DraftRow -> Item \cup {NoItem}]
  /\ posts \in [PostKey -> Item \cup {NoItem}]
  /\ spent \subseteq DraftRow \cup PostKey
  /\ run \in [Picker -> Run \cup {NoRun}]
  /\ press \in [Press -> Publish \cup {NoPress}]
  /\ erasing \subseteq PostKey /\ mishaps \in 0..MaxMishaps /\ raced \subseteq Item

(* A draft whose publish has landed is as good as gone. *)
Going(d) == \E p \in Press : press[p] # NoPress /\ press[p].draft = d /\ press[p].at \in {"note", "clean"}

DraftsOf(i) == {d \in Filed : filed[d] = i /\ ~Going(d)}
PostsOf(i) == {k \in PostKey : posts[k] = i}

(* However many pages import it, and however often, an item is here once:   *)
(* as a draft or as a post.  Excepted are a discarded item revived by two   *)
(* runs at once, a draft published by two requests at once or discarded     *)
(* during one, and best-effort calls that failed.                           *)
ImportedOnce ==
  \A i \in Item \ raced : Cardinality(DraftsOf(i)) + Cardinality(PostsOf(i)) <= 1

(* A mirror is known for one as long as it is up (or it would compete with  *)
(* its original), and an item that is nowhere can be brought over again.    *)
LedgerIsTrue ==
  \A i \in Item \ raced :
    /\ \A k \in PostsOf(i) :
         \/ ledger[i] # NoEntry /\ ledger[i].key = k
         \/ \E p \in Press : press[p] # NoPress /\ press[p].key = k
    /\ PostsOf(i) = {} /\ ledger[i] # NoEntry => ledger[i].key \in erasing \cup {None}
=============================================================================
