------------------------------- MODULE MCStores -------------------------------
(* Sessions, imports, the cron's other passes, the reading of a repo, of a   *)
(* writer's threads, of an export file and of a feed, and the import pages,  *)
(* one at a time: a behaviour is of the part its first state names, and the  *)
(* others stand still.                                                       *)
(*                                                                           *)
(* Two parts are run twice.  The imports: two pages over two items with one  *)
(* publish at a time, and one page and one item with two publishes at once.  *)
(* The threads: one page over LastPost posts, and two pages, which share an  *)
(* hourly budget, over the first two.                                        *)
EXTENDS Sessions, Imports, CronPasses, Archive, Threads, ExportFiles, FeedFetch, ImportPage, TLC

CONSTANTS i2, t2, p2, k2, w1, w2, a1

VARIABLE part

Symmetric == Permutations(Tick) \cup Permutations({w1, w2})

(* The web a feed is looked for in.                                          *)
PlacesToLook == <<"moved", "page">>
NamedByPages == {<<>>, <<"own", "feed">>, <<"feed", "feed", "page">>}
CarriedByFeeds == {<<"whole", "nameless">>, <<"nameless", "whole", "whole">>}

TwoPages == part = "pages" /\ ImpNext /\ press'[p2] = NoPress /\ k2 \notin spent'

TwoPublishes ==
  /\ part = "publishes" /\ ImpNext
  /\ run'[t2] = NoRun /\ \A t \in Picker : run'[t] # NoRun => i2 \notin run'[t].todo

OneAsker == part = "thread" /\ ThreadNext /\ \A a \in Asker \ {a1} : ask'[a] = NoAsk /\ lists'[a] = NoList

TwoAskers == part = "threads" /\ ThreadNext /\ \A p \in Post : p > 2 => answers'[p] = NoPost

StoresInit ==
  /\ part \in {"sessions", "pages", "publishes", "cron", "archive", "thread", "threads", "files",
              "feed", "import"}
  /\ SessInit /\ ImpInit /\ CronInit /\ ArchInit /\ ThreadInit /\ FileInit /\ FeedInit /\ PageInit
  /\ part # "import" => filedGuids = {} /\ room = 0
  /\ part # "sessions" => session = NoSession
  /\ part # "archive" => repo = [k \in RecordKey |-> "none"]

StoresNext ==
  /\ \/ part = "sessions" /\ SessNext
        /\ UNCHANGED <<impVars, cronVars, archVars, threadVars, fileVars, feedVars, pageVars>>
     \/ (TwoPages \/ TwoPublishes)
        /\ UNCHANGED <<sessVars, cronVars, archVars, threadVars, fileVars, feedVars, pageVars>>
     \/ part = "cron" /\ CronNext
        /\ UNCHANGED <<sessVars, impVars, archVars, threadVars, fileVars, feedVars, pageVars>>
     \/ part = "archive" /\ ArchNext
        /\ UNCHANGED <<sessVars, impVars, cronVars, threadVars, fileVars, feedVars, pageVars>>
     \/ (OneAsker \/ TwoAskers)
        /\ UNCHANGED <<sessVars, impVars, cronVars, archVars, fileVars, feedVars, pageVars>>
     \/ part = "files" /\ FileNext
        /\ UNCHANGED <<sessVars, impVars, cronVars, archVars, threadVars, feedVars, pageVars>>
     \/ part = "feed" /\ FeedNext
        /\ UNCHANGED <<sessVars, impVars, cronVars, archVars, threadVars, fileVars, pageVars>>
     \/ part = "import" /\ PageNext
        /\ UNCHANGED <<sessVars, impVars, cronVars, archVars, threadVars, fileVars, feedVars>>
  /\ UNCHANGED part

StoresSpec ==
  StoresInit
    /\ [][StoresNext]_<<sessVars, impVars, cronVars, archVars, threadVars, fileVars, feedVars, pageVars, part>>

(* Every table, cookie, request, tick, walk, list and entry has its type.    *)
StoresTypeOK ==
  CASE part = "sessions"              -> SessTypeOK
    [] part \in {"pages", "publishes"} -> ImpTypeOK
    [] part = "cron"                  -> CronTypeOK
    [] part = "archive"               -> ArchTypeOK
    [] part \in {"thread", "threads"}  -> ThreadTypeOK
    [] part = "files"                 -> FileTypeOK
    [] part = "feed"                  -> FeedTypeOK
    [] part = "import"                -> PageTypeOK

(* What the app reads of a repo, of a writer's threads, of an export file or *)
(* of a feed it reads whole, or says that it did not; and what the import    *)
(* page says it made of it is so.                                            *)
WholeOrSaid == ArchiveWhole /\ ThreadsWhole /\ FileAccounted /\ FeedFound /\ ImportSaysTrue
=============================================================================
