------------------------------ MODULE ExportFiles ------------------------------
(***************************************************************************)
(* The upload half of the import page: an export file of one of four       *)
(* formats read in the browser entry by entry, checked against the ledger, *)
(* and offered to pick from.                                               *)
(*                                                                         *)
(* The zips (Substack, Medium) inflate one entry at a time, against a cap  *)
(* on each and a budget for all; the text formats are parsed whole.        *)
(***************************************************************************)
EXTENDS Integers, FiniteSets, Sequences, SequencesExt

CONSTANTS
  PostId,      \* ids the source gave its posts
  LastEntry,   \* bound: entries in a file
  ExportCap,   \* MAX_EXPORT_POSTS
  EntryLimit,  \* MAX_ENTRY_BYTES
  TotalBudget, \* MAX_TOTAL_INFLATED_BYTES
  MaxSlots,    \* bound: room for drafts
  NoId

ASSUME ExportFilesAssumption ==
  {LastEntry, ExportCap, EntryLimit, MaxSlots} \subseteq Nat /\ TotalBudget \in Nat \ {0} /\ NoId \notin PostId

VARIABLES
  step, \* source | reading | checking | pick
  file, \* what the writer uploaded
  parse \* how far it has been read, and what was made of it

fileVars == <<step, file, parse>>

Zips == {"substack", "medium"}

(* An entry's size is that of its body inflated; 0 is a body that is        *)
(* corrupt (a zip's) or blank (a text's).  Noise is no post: a sidecar, a   *)
(* null.                                                                    *)
FileEntry(kind, ids, sizes) == [kind : {kind}, id : ids, size : sizes]
Noise == FileEntry("noise", {NoId}, {0})
EntriesOf(format) ==
  CASE format = "substack"  -> Noise \cup FileEntry("post", PostId, 0..EntryLimit + 1)
    [] format = "medium"    -> Noise \cup FileEntry("post", PostId, 0..EntryLimit + 1)
                                 \cup FileEntry("response", PostId, {1})
    [] format = "ghost"     -> Noise \cup FileEntry("page", PostId, {1}) \cup FileEntry("post", PostId \cup {NoId}, {0, 1})
    [] format = "wordpress" -> FileEntry("page", PostId, {1}) \cup FileEntry("attachment", PostId, {1})
                                 \cup FileEntry("post", PostId \cup {NoId}, {1})

(* queue: entries still to be read, by their place in the file.  listed:    *)
(* those the picker offers.  skipped, truncated, failures: what it says of  *)
(* the rest.  selected: the ids it has checked.                             *)
NothingRead == [queue |-> {}, listed |-> {}, failures |-> 0, skipped |-> 0, truncated |-> 0,
                left |-> TotalBudget, selected |-> {}, imported |-> {}, slots |-> 0]

NoneYet == [format |-> "none", entries |-> <<>>]
FileInit == step = "source" /\ file = NoneYet /\ parse = NothingRead

-----------------------------------------------------------------------------
(* What each format makes a candidate of, before anything is inflated.      *)

Named(entries) == {n \in DOMAIN entries : entries[n].kind \in {"post", "response"}}
OnlyPosts(entries) == {n \in DOMAIN entries : entries[n].kind = "post"}

FirstOfItsId(entries, places) ==
  {n \in places : \A m \in places : entries[m].id = entries[n].id => n <= m}

Candidates(format, entries) ==
  CASE format = "substack"  -> FirstOfItsId(entries, Named(entries))
    [] format = "medium"    -> Named(entries)
    [] format = "ghost"     -> DOMAIN entries
    [] format = "wordpress" -> OnlyPosts(entries)
    [] OTHER                -> {}

(* wordpress: pages, attachments and the like are told apart here. *)
SkippedAtOnce(format, entries) ==
  IF format = "wordpress" THEN Cardinality(DOMAIN entries \ OnlyPosts(entries)) ELSE 0

PastCap(n) == IF n > ExportCap THEN n - ExportCap ELSE 0
FirstFew(places, n) == {k \in places : Cardinality({j \in places : j <= k}) <= n}

(* readExportFile.  A Substack export's index is inflated first, from the   *)
(* same budget; a file that cannot be opened leaves the first step as it is. *)
Upload ==
  /\ step = "source"
  /\ \E format \in {"substack", "medium", "ghost", "wordpress"} :
     \E entries \in BoundedSeq(EntriesOf(format), LastEntry), index \in IF format = "substack" THEN {0, 1} ELSE {0} :
       LET found == Candidates(format, entries) IN
       /\ file' = [format |-> format, entries |-> entries]
       /\ parse' = [NothingRead EXCEPT !.queue = FirstFew(found, ExportCap),
                      !.left = TotalBudget - index,
                      !.truncated = PastCap(Cardinality(found)),
                      !.skipped = SkippedAtOnce(format, entries)]
  /\ step' = "reading"

-----------------------------------------------------------------------------
(* One entry at a time.                                                     *)

(* inflateEntry, createBudgetedInflater: over the cap or the budget, or corrupt. *)
Inflates(entry) ==
  entry.size > 0 /\ entry.size <= EntryLimit /\ entry.size <= parse.left

ListEntry(n) == [parse EXCEPT !.listed = @ \cup {n}]
FailEntry == [parse EXCEPT !.failures = @ + 1]
SkipEntry == [parse EXCEPT !.skipped = @ + 1]

FromZip(n) ==
  LET entry == file.entries[n]
  IN  IF ~Inflates(entry) THEN FailEntry
      ELSE [(IF entry.kind = "response" THEN SkipEntry ELSE ListEntry(n)) EXCEPT !.left = @ - entry.size]

FromGhost(n) ==
  IF file.entries[n].kind = "page" THEN SkipEntry
  ELSE IF file.entries[n].id = NoId THEN parse
  ELSE IF file.entries[n].size = 0 THEN FailEntry
  ELSE ListEntry(n)

FromWordPress(n) == IF file.entries[n].id = NoId THEN parse ELSE ListEntry(n)

ReadEntry ==
  /\ step = "reading" /\ parse.queue # {}
  /\ LET n == Min(parse.queue)
         read == CASE file.format \in Zips -> FromZip(n)
                   [] file.format = "ghost" -> FromGhost(n)
                   [] OTHER -> FromWordPress(n)
     IN  parse' = [read EXCEPT !.queue = @ \ {n}]
  /\ UNCHANGED <<step, file>>

StartOver == step' = "source" /\ file' = NoneYet /\ parse' = NothingRead

(* No post in it: an error, on the first step. *)
GoToCheck ==
  /\ step = "reading" /\ parse.queue = {}
  /\ IF parse.listed = {} THEN StartOver ELSE step' = "checking" /\ UNCHANGED <<file, parse>>

Ids(places) == {file.entries[n].id : n \in places}

(* showPicker: every new item that is no preview, as the drafts have room;  *)
(* the newest first, which is any order here.                               *)
Checked(passed, slots) ==
  LET open == {n \in parse.listed : file.entries[n].id \notin passed}
  IN  {Ids(checked) : checked \in {c \in SUBSET open : Cardinality(c) = Min({slots, Cardinality(open)})}}

(* /api/import/status, or its refusal. *)
CheckLedger ==
  /\ step = "checking"
  /\ \/ \E imported, previews \in SUBSET PostId, slots \in 0..MaxSlots :
        \E selected \in Checked(imported \cup previews, slots) :
          /\ parse' = [parse EXCEPT !.imported = imported, !.slots = slots, !.selected = selected]
          /\ step' = "pick" /\ UNCHANGED file
     \/ StartOver

ToggleItem(id) ==
  /\ step = "pick" /\ id \in Ids(parse.listed)
  /\ parse' = [parse EXCEPT !.selected = IF id \in @ THEN @ \ {id} ELSE @ \cup {id}]
  /\ UNCHANGED <<step, file>>

BackToSource == step = "pick" /\ StartOver

FileNext == Upload \/ ReadEntry \/ GoToCheck \/ CheckLedger \/ BackToSource \/ \E id \in PostId : ToggleItem(id)

FileSpec == FileInit /\ [][FileNext]_fileVars

-----------------------------------------------------------------------------
FileTypeOK ==
  /\ step \in {"source", "reading", "checking", "pick"}
  /\ \/ file = NoneYet
     \/ /\ file.format \in {"substack", "medium", "ghost", "wordpress"}
        /\ file.entries \in BoundedSeq(EntriesOf(file.format), LastEntry)
  /\ parse.queue \cup parse.listed \subseteq DOMAIN file.entries
  /\ Cardinality(parse.listed) <= ExportCap
  /\ {parse.failures, parse.skipped, parse.truncated, parse.slots} \subseteq Nat
  /\ parse.left \in 0..TotalBudget
  /\ parse.selected \cup parse.imported \subseteq PostId

(* What no page can name: a null, a post without an id.                     *)
Nameless ==
  {n \in FirstFew(Candidates(file.format, file.entries), ExportCap) : file.entries[n].id = NoId}

(* Nothing of the file goes missing unsaid: a post it holds is offered, or  *)
(* counted among the unreadable, the left out or the skipped; and what is   *)
(* no post of the writer's is never offered as one, nor a post that is not  *)
(* offered checked.                                                         *)
FileAccounted ==
  step \in {"checking", "pick"} =>
    /\ Cardinality(parse.listed) + parse.failures + parse.skipped + parse.truncated + Cardinality(Nameless)
         = Cardinality(Candidates(file.format, file.entries)) + SkippedAtOnce(file.format, file.entries)
    /\ parse.listed \subseteq OnlyPosts(file.entries)
    /\ parse.selected \subseteq Ids(parse.listed)
=============================================================================
