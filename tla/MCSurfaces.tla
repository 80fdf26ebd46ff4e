------------------------------ MODULE MCSurfaces ------------------------------
(* What a writer and their readers are shown and told: the editor, the       *)
(* stats, the dashboard, the overview, the settings, a post's pictures, the  *)
(* archive, links to a former handle, the forms; one at a time.  A behaviour *)
(* is of the part its first state names, and the others stand still.         *)
(*                                                                           *)
(* The editor is run twice: with two drafts and every keystroke, and with    *)
(* three, which the cap is about, when nothing is submitted or deleted.      *)
EXTENDS Editor, StatsNumbers, StatsPage, PostPictures, PostsManager, WriterArchive, HomePage,
        FormerHandles, ReaderForms, SettingsPage

CONSTANT d3 \* the third draft

VARIABLE part

Symmetric == Permutations(Tab) \cup Permutations(DraftId \ {d3})

Writing == part = "writing" /\ EdNext /\ d3 \notin minted'
Racing ==
  /\ part = "racing" /\ EdNext /\ minted \subseteq Rows'
  /\ \A t \in Tab : tab'[t].at \in {"closed", "loading", "open"} /\ ~tab'[t].editing

(* The archive's records: the second may be odd, the newest has the word.    *)
FewRecords ==
  /\ drawn \in [untitled : {{}, {2}}, wide : {{}, {2}}, titleSays : {{LastRkey}}, bodySays : {{2}}]
  /\ records \in {{}, {2, LastRkey}, Rkey}
NoRecords ==
  /\ drawn = [untitled |-> {}, wide |-> {}, titleSays |-> {}, bodySays |-> {}]
  /\ records = {} /\ cachedAt = Undirected /\ postIndex = [complete |-> TRUE, rows |-> {}]

(* A part that stands still has one first state.                             *)
SurfacesInit ==
  /\ part \in {"writing", "racing", "numbers", "stats", "pictures", "manager", "archive", "home",
               "handles", "forms", "settings"}
  /\ IF part = "archive" THEN FewRecords ELSE NoRecords
  /\ ArchInit
  /\ HomeInit /\ (part # "home" => signedIn /\ counted = NoCount
                                   /\ \A p \in Opus : opus[p].at = "none")
  /\ HandleInit /\ (part # "handles" => \A h \in Handle : holder[h] = Nobody)
  /\ FormsInit /\ (part # "forms" => formKind = "email" /\ sitekey /\ secret)
  /\ SetInit /\ IF part = "settings"
                THEN masthead # NoMasthead => masthead.name = 1 /\ masthead.about = 1
                ELSE masthead = NoMasthead
  /\ NumInit /\ (part # "numbers" => happened = 0)
  /\ StatInit /\ (part # "stats" => page.picked = CHOOSE r \in StatRange : TRUE)
  /\ PicInit /\ (part # "pictures" => brought = "no")
  /\ EdInit /\ ManInit

older == <<edVars, numVars, statVars, picVars, manVars>>

SurfacesNext ==
  /\ \/ /\ \/ (Writing \/ Racing) /\ UNCHANGED <<numVars, statVars, picVars, manVars>>
           \/ part = "numbers" /\ NumNext /\ UNCHANGED <<edVars, statVars, picVars, manVars>>
           \/ part = "stats" /\ StatNext /\ UNCHANGED <<edVars, numVars, picVars, manVars>>
           \/ part = "pictures" /\ PicNext /\ UNCHANGED <<edVars, numVars, statVars, manVars>>
           \/ part = "manager" /\ ManNext /\ UNCHANGED <<edVars, numVars, statVars, picVars>>
        /\ UNCHANGED <<archVars, homeVars, handleVars, formVars, setVars>>
     \/ /\ \/ part = "archive" /\ ArchNext /\ UNCHANGED <<homeVars, handleVars, formVars, setVars>>
           \/ part = "home" /\ HomeNext /\ UNCHANGED <<archVars, handleVars, formVars, setVars>>
           \/ part = "handles" /\ HandleNext /\ UNCHANGED <<archVars, homeVars, formVars, setVars>>
           \/ part = "forms" /\ FormsNext /\ UNCHANGED <<archVars, homeVars, handleVars, setVars>>
           \/ part = "settings" /\ SetNext /\ UNCHANGED <<archVars, homeVars, handleVars, formVars>>
        /\ UNCHANGED older
  /\ UNCHANGED part

SurfacesSpec ==
  SurfacesInit
  /\ [][SurfacesNext]_<<older, archVars, homeVars, handleVars, formVars, setVars, part>>

(* Every tab, number, page, picture, list and form has its type.             *)
SurfacesTypeOK ==
  CASE part \in {"writing", "racing"} -> EdTypeOK
    [] part = "numbers"  -> NumTypeOK
    [] part = "stats"    -> StatTypeOK
    [] part = "pictures" -> PicTypeOK
    [] part = "manager"  -> ManTypeOK
    [] part = "archive"  -> ArchTypeOK
    [] part = "home"     -> HomeTypeOK
    [] part = "handles"  -> HandleTypeOK
    [] part = "forms"    -> FormsTypeOK
    [] part = "settings" -> SetTypeOK

(* What the stats, the dashboard, the overview and the settings show a       *)
(* writer, and the archive, a link and a form show a reader, is so, or is    *)
(* said not to be known.                                                     *)
ShownIsTrue ==
  CASE part = "numbers"  -> NumbersAreTrue /\ NumbersAreTheirs
    [] part = "stats"    -> NumbersAreTheirs
    [] part = "manager"  -> ManagerIsTrue
    [] part = "archive"  -> ArchiveIsTrue
    [] part = "home"     -> OverviewIsTrue
    [] part = "handles"  -> LinksLeadHome
    [] part = "forms"    -> FormsAreTrue
    [] part = "settings" -> SettingsAreTrue
    [] OTHER -> TRUE
=============================================================================
