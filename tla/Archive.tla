-------------------------------- MODULE Archive --------------------------------
(***************************************************************************)
(* Reading a collection of a repo page by page (listRecordPages), while    *)
(* its owner writes to it.  A response over the size the app will parse is *)
(* asked for again, smaller, once.                                         *)
(*                                                                         *)
(* The PDS lists newest key first and names a cursor with every page that  *)
(* holds a record.                                                         *)
(***************************************************************************)
EXTENDS Integers, FiniteSets, FiniteSetsExt

CONSTANTS
  LastRecord,  \* bound: keys are 1..LastRecord
  ListLimit,   \* MAX_LIST_RECORDS
  SmallPage,   \* SMALL_PAGE_SIZE
  ArchivePages,\* MAX_ARCHIVE_PAGES
  ByteLimit,   \* MAX_JSON_BYTES, in the size of a light record
  MaxChanges,  \* bound: records written or deleted
  NoWalk, NoListing

ASSUME ArchiveAssumption ==
  /\ {LastRecord, ListLimit, SmallPage, ArchivePages, ByteLimit} \subseteq Nat \ {0}
  /\ MaxChanges \in Nat

RecordKey == 1..LastRecord
Sizes == [light |-> 1, heavy |-> 2, huge |-> ByteLimit + 1, odd |-> 1]

VARIABLES
  repo,    \* the records, by kind; an odd one is not a record the app reads
  walk,    \* the walk under way
  listing, \* what the last walk returned
  changes  \* writes so far

archVars == <<repo, walk, listing, changes>>

(* got: read so far.  through: history, the well-formed records that were    *)
(* there all along.                                                         *)
Walk == [cursor: 1..LastRecord + 1, limit: 1..ListLimit, retried: BOOLEAN,
         page: 0..ArchivePages - 1, got: SUBSET RecordKey, through: SUBSET RecordKey]

Listing == [failed: BOOLEAN, truncated: BOOLEAN, got: SUBSET RecordKey, through: SUBSET RecordKey]

ASSUME ArchiveNullsAssumption == NoWalk \notin Walk /\ NoListing \notin Listing

Written == {k \in RecordKey : repo[k] # "none"}
WellFormed(page) == {k \in page : repo[k] # "odd"}

ArchInit ==
  /\ repo \in [RecordKey -> {"none", "light", "heavy", "odd"}]
  /\ walk = NoWalk /\ listing = NoListing /\ changes = 0

-----------------------------------------------------------------------------
(* The owner writes.  An import is backdated, so a new key may be any.      *)

Change == changes < MaxChanges /\ changes' = changes + 1

WriteRecord(k) ==
  /\ Change /\ repo[k] = "none"
  /\ \E kind \in {"light", "heavy", "huge"} : repo' = [repo EXCEPT ![k] = kind]
  /\ UNCHANGED <<walk, listing>>

RemoveRecord(k) ==
  /\ Change /\ repo[k] # "none"
  /\ repo' = [repo EXCEPT ![k] = "none"]
  /\ walk' = IF walk = NoWalk THEN walk ELSE [walk EXCEPT !.through = @ \ {k}]
  /\ UNCHANGED listing

-----------------------------------------------------------------------------
BeginWalk ==
  /\ walk = NoWalk
  /\ walk' = [cursor |-> LastRecord + 1, limit |-> ListLimit, retried |-> FALSE, page |-> 0,
              got |-> {}, through |-> WellFormed(Written)]
  /\ listing' = NoListing
  /\ UNCHANGED <<repo, changes>>

Below(cursor) == {k \in Written : k < cursor}
Page(cursor, limit) ==
  {k \in Below(cursor) : Cardinality({j \in Below(cursor) : j >= k}) <= limit}
Bytes(page) == MapThenSumSet(LAMBDA k : Sizes[repo[k]], page)

(* The limit of the second try, from the declared length where there is one.*)
Smaller(limit, fit) == Max({1, Min({fit, limit - 1})})
Fits(limit, bytes) == {SmallPage, (limit * ByteLimit * 4) \div (5 * bytes)}

Return(failed, truncated, got) ==
  /\ listing' = [failed |-> failed, truncated |-> truncated, got |-> got, through |-> walk.through]
  /\ walk' = NoWalk

(* A refusal, a flake, a body that is no listing: the walk throws.          *)
AskFails == walk # NoWalk /\ Return(TRUE, FALSE, {}) /\ UNCHANGED <<repo, changes>>

(* A page over the cap: once smaller, then given up.                        *)
AskOver ==
  LET page == Page(walk.cursor, walk.limit) IN
  /\ walk # NoWalk /\ Bytes(page) > ByteLimit
  /\ \/ /\ ~walk.retried /\ walk.limit > 1
        /\ \E fit \in Fits(walk.limit, Bytes(page)) :
             walk' = [walk EXCEPT !.limit = Smaller(walk.limit, fit), !.retried = TRUE]
        /\ UNCHANGED listing
     \/ (walk.retried \/ walk.limit = 1) /\ Return(TRUE, FALSE, {})
  /\ UNCHANGED <<repo, changes>>

(* Slip: a page shrunk to fit is short of the limit first asked for, and    *)
(* taken for the last.                                                      *)
MoreAfterFull(page, limit) == Cardinality(page) >= ListLimit

(* A full page and a cursor: there may be more. *)
MoreAfter(page, limit) == page # {} /\ Cardinality(page) >= limit

AskFit ==
  LET page == Page(walk.cursor, walk.limit)
      got  == walk.got \cup WellFormed(page)
  IN
  /\ walk # NoWalk /\ Bytes(page) <= ByteLimit
  /\ IF ~MoreAfter(page, walk.limit) THEN Return(FALSE, FALSE, got)
     ELSE IF walk.page = ArchivePages - 1 THEN Return(FALSE, TRUE, got)
     ELSE /\ walk' = [walk EXCEPT !.cursor = Min(page), !.page = @ + 1, !.got = got,
                !.limit = Max({1, Min({@, Cardinality(WellFormed(page))})}), !.retried = FALSE]
          /\ UNCHANGED listing
  /\ UNCHANGED <<repo, changes>>

ArchNext ==
  \/ \E k \in RecordKey : WriteRecord(k) \/ RemoveRecord(k)
  \/ BeginWalk \/ AskFails \/ AskOver \/ AskFit

ArchSpec == ArchInit /\ [][ArchNext]_archVars

-----------------------------------------------------------------------------
ArchTypeOK ==
  /\ repo \in [RecordKey -> {"none"} \cup DOMAIN Sizes]
  /\ walk \in Walk \cup {NoWalk}
  /\ listing \in Listing \cup {NoListing}
  /\ changes \in 0..MaxChanges

(* A listing that does not say it was cut holds every record that was in    *)
(* the collection all along, however its pages had to be shrunk and         *)
(* whatever was written meanwhile; one that does is missing old ones only.  *)
ArchiveWhole ==
  listing # NoListing /\ ~listing.failed =>
    \A k \in listing.through \ listing.got :
      listing.truncated /\ \A g \in listing.got : k < g
=============================================================================
