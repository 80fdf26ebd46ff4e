----------------------------- MODULE SettingsPage -----------------------------
(***************************************************************************)
(* The settings page: a loader that reads the writer's publication record  *)
(* or says it could not, a profile form that posts every field whole, an   *)
(* icon picked, processed and removed in the browser, a colour editor, and *)
(* the two saves that write the record.  The record is anyone's to write:  *)
(* another app may leave it half made.  A save's reading and writing are   *)
(* one step here; their interleaving is PublicationRecord's.               *)
(***************************************************************************)
EXTENDS Integers, FiniteSets

CONSTANTS
  Swatch,     \* THEME_FIELDS
  MaxTouches, \* bound: what the writer does on pages, all told
  MaxOutside, \* bound: writes of the record by other apps and tabs
  MaxBalks,   \* bound: reads, uploads and saves that fail
  NoMasthead, NoIcon, NoColours, Garbled, Untouched, NoSettings, NoLanding

ASSUME SettingsPageAssumption == {MaxTouches, MaxOutside, MaxBalks} \subseteq Nat

VARIABLES
  masthead, \* the publication record
  settings, \* the page, as loaded and as touched since
  landing,  \* the last save that landed, until the page is opened again
  touches, outside, balks

setVars == <<masthead, settings, landing, touches, outside, balks>>

(* A text, a picture, a colour: numbered by who made it.  No text is 0, the *)
(* default of a swatch is 0.                                                *)
Made == 0..(MaxTouches + 1)
Icon == (Made \ {0}) \cup {NoIcon, Garbled}
Colours == [Swatch -> Made \cup {Garbled}] \cup {NoColours}
Masthead == [name : Made, about : Made, icon : Icon, colours : Colours]

Defaults == [s \in Swatch |-> 0]

(* history: what the writer means each field to be.                         *)
Meant == [name : Made \cup {Untouched}, about : Made \cup {Untouched},
          icon : Icon \cup {Untouched}, hex : [Swatch -> Made \cup {Untouched}]]
Unmeant == [name |-> Untouched, about |-> Untouched, icon |-> Untouched,
            hex |-> [s \in Swatch |-> Untouched]]

(* was: history, the record when the page was read.  picks: files being     *)
(* squared; same, one that needs nothing done.  unsure: history, a pick     *)
(* failed, was called off, or ran into another.                             *)
IconPick == [pic : Made \ {0}, same : BOOLEAN]
Settings == [was : Masthead \cup {NoMasthead}, unreadable : BOOLEAN, name : Made, about : Made,
             existing : Icon, preview : Icon, input : Icon, removed : BOOLEAN,
             picks : SUBSET IconPick, busy : BOOLEAN, hex : [Swatch -> Made], meant : Meant, unsure : BOOLEAN]

(* before: the record the save wrote over.                                  *)
Landing == [kind : {"profile", "theme", "reset"}, page : Settings,
            before : Masthead \cup {NoMasthead}, now : Masthead]

ASSUME SettingsNullsAssumption ==
  /\ {NoIcon, Garbled, Untouched} \cap Made = {}
  /\ NoIcon # Garbled /\ NoIcon # Untouched /\ Garbled # Untouched
  /\ NoColours \notin [Swatch -> Made \cup {Garbled}]
  /\ NoMasthead \notin Masthead /\ NoSettings \notin Settings

(* What another app, or another tab, may make of the record.                *)
Drafted == [name : {0, 1}, about : {0, 1}, icon : {NoIcon, Garbled, 1},
            colours : {NoColours, [s \in Swatch |-> 1]}
                      \cup {[d \in Swatch |-> IF d = s THEN Garbled ELSE 1] : s \in Swatch}]

SetInit ==
  /\ masthead \in Drafted \cup {NoMasthead}
  /\ settings = NoSettings /\ landing = NoLanding
  /\ touches = 0 /\ outside = 0 /\ balks = 0

(* One field at a time; a page not open yet reads what it finds.            *)
WrittenOutside ==
  /\ outside < MaxOutside /\ outside' = outside + 1 /\ settings # NoSettings
  /\ IF masthead = NoMasthead THEN masthead' \in {d \in Drafted : d.name # 0}
     ELSE \E field \in DOMAIN masthead :
            \E value \in {d[field] : d \in Drafted} \ {masthead[field]} :
              masthead' = [masthead EXCEPT ![field] = value]
  /\ UNCHANGED <<settings, landing, touches, balks>>

MayBalk(fails) == /\ fails => balks < MaxBalks
                  /\ balks' = IF fails THEN balks + 1 ELSE balks

-----------------------------------------------------------------------------
(* getSettings.                                                             *)

(* coverImageCid: a picture, or nothing.                                    *)
Pictured(icon) == IF icon = Garbled THEN NoIcon ELSE icon

(* Slip: the colours that can be read are kept, the others are defaults.    *)
ParsedByHalves(colours) ==
  IF colours = NoColours THEN colours
  ELSE [s \in Swatch |-> IF colours[s] = Garbled THEN 0 ELSE colours[s]]

(* parseTheme: all of it or none.                                           *)
Parsed(colours) ==
  IF colours # NoColours /\ \A s \in Swatch : colours[s] # Garbled THEN colours ELSE NoColours

InitialHex(theme) == IF theme = NoColours THEN Defaults ELSE theme

BlankForm(unreadable) ==
  [was |-> masthead, unreadable |-> unreadable, name |-> 0, about |-> 0, existing |-> NoIcon,
   preview |-> NoIcon, input |-> NoIcon, removed |-> FALSE, picks |-> {}, busy |-> FALSE,
   hex |-> Defaults, meant |-> Unmeant, unsure |-> FALSE]

OpenSettings ==
  /\ settings = NoSettings /\ touches < MaxTouches
  /\ \E fails \in BOOLEAN :
       /\ MayBalk(fails)
       /\ settings' = IF fails \/ masthead = NoMasthead THEN BlankForm(fails)
            ELSE [BlankForm(FALSE) EXCEPT
                   !.name = masthead.name, !.about = masthead.about,
                   !.existing = Pictured(masthead.icon), !.preview = Pictured(masthead.icon),
                   !.hex = InitialHex(Parsed(masthead.colours))]
  /\ landing' = NoLanding
  /\ UNCHANGED <<masthead, touches, outside>>

LeaveSettings ==
  /\ settings # NoSettings /\ settings' = NoSettings
  /\ UNCHANGED <<masthead, landing, touches, outside, balks>>

(* The colours are edited only where there is a record to keep them.        *)
Exists == ~settings.unreadable /\ settings.was # NoMasthead

-----------------------------------------------------------------------------
(* The forms.                                                               *)

TouchesPage == settings # NoSettings /\ touches < MaxTouches /\ touches' = touches + 1
New == touches + 2
RecordKept == UNCHANGED <<masthead, landing, outside>>

EditText ==
  /\ TouchesPage
  /\ \E text \in {0, New} :
       \/ settings' = [settings EXCEPT !.name = text, !.meant.name = text]
       \/ settings' = [settings EXCEPT !.about = text, !.meant.about = text]
  /\ RecordKept /\ UNCHANGED balks

(* A picker fills its own colour, a starter palette all of them.            *)
Pickers == {{s} : s \in Swatch}
StarterPalettes == {Swatch}

EditColours ==
  /\ TouchesPage /\ Exists
  /\ \E which \in Pickers \cup StarterPalettes :
       LET fill(hex) == [s \in Swatch |-> IF s \in which THEN New ELSE hex[s]]
       IN  settings' = [settings EXCEPT !.hex = fill(@), !.meant.hex = fill(@)]
  /\ RecordKept /\ UNCHANGED balks

(* IconField's handleChange: a file is chosen, and squared off the page.    *)
PickIcon ==
  /\ TouchesPage
  /\ \E same \in BOOLEAN :
       settings' = [settings EXCEPT !.input = New, !.busy = TRUE,
                      !.picks = @ \cup {[pic |-> New, same |-> same]},
                      !.unsure = @ \/ settings.picks # {}]
  /\ RecordKept /\ UNCHANGED balks

(* No file, or one that is not an image: the input is empty, and the        *)
(* preview stays.                                                           *)
PickNothing ==
  /\ TouchesPage
  /\ settings' = [settings EXCEPT !.input = NoIcon, !.unsure = TRUE]
  /\ RecordKept /\ UNCHANGED balks

(* squareIconImage gives a new file, or the one it got, or throws; whichever*)
(* pick it is for, the page is no longer busy.                              *)
Squared(p) ==
  /\ settings # NoSettings /\ p \in settings.picks
  /\ \E fails \in BOOLEAN :
       /\ MayBalk(fails)
       /\ settings' = [settings EXCEPT !.picks = @ \ {p}, !.busy = FALSE,
            !.input = IF fails THEN NoIcon ELSE IF p.same THEN @ ELSE p.pic,
            !.preview = IF fails THEN @ ELSE p.pic,
            !.removed = @ /\ fails,
            !.meant.icon = IF fails THEN @ ELSE p.pic,
            !.unsure = @ \/ fails]
  /\ RecordKept /\ UNCHANGED touches

(* handleRemove, offered with a preview.                                    *)
RemoveIcon ==
  /\ TouchesPage /\ settings.preview # NoIcon
  /\ settings' = [settings EXCEPT !.input = NoIcon, !.preview = NoIcon, !.removed = TRUE,
                    !.meant.icon = NoIcon, !.unsure = @ \/ settings.picks # {}]
  /\ RecordKept /\ UNCHANGED balks

-----------------------------------------------------------------------------
(* The saves.  A form's submit leaves the page; the answer is another page. *)

(* Slip: what could not be loaded can be saved over.                        *)
NotBusy == ~settings.busy

(* The button: not while an icon is prepared, nor over an unread record.    *)
MaySave == ~settings.busy /\ ~settings.unreadable

(* Slip: an empty file input is no icon.                                    *)
EmptyIsNone(existing) == settings.input

(* iconBlob ?? (removeIcon ? null : undefined); removeIcon is posted where  *)
(* an icon was shown.                                                       *)
IconKept(existing) ==
  IF settings.input # NoIcon THEN settings.input
  ELSE IF settings.removed /\ settings.existing # NoIcon THEN NoIcon ELSE existing

(* buildPublicationRecord over the record as it is now, or over none.       *)
Profiled ==
  [name |-> settings.name, about |-> settings.about,
   icon |-> IconKept(IF masthead = NoMasthead THEN NoIcon ELSE masthead.icon),
   colours |-> IF masthead = NoMasthead THEN NoColours ELSE masthead.colours]

(* Slip: the default colours are stored.                                    *)
DefaultsStored(reset) == IF reset THEN Defaults ELSE settings.hex

(* saveTheme and withBasicTheme: the defaults are the absence of a theme.   *)
Themed(reset) == IF reset THEN NoColours ELSE settings.hex

Saves(kind, now, fails) ==
  /\ MayBalk(fails)
  /\ masthead' = IF fails THEN masthead ELSE now
  /\ landing' = IF fails THEN NoLanding
                ELSE [kind |-> kind, page |-> settings, before |-> masthead, now |-> now]
  /\ settings' = NoSettings
  /\ UNCHANGED <<touches, outside>>

(* The name is required.                                                    *)
SaveProfile ==
  /\ settings # NoSettings /\ MaySave /\ settings.name # 0
  /\ \E fails \in BOOLEAN : Saves("profile", Profiled, fails)

(* Refused where there is no record, or one without a name.                 *)
SaveTheme ==
  /\ settings # NoSettings /\ Exists
  /\ \E reset, fails \in BOOLEAN :
       IF masthead = NoMasthead \/ masthead.name = 0
       THEN settings' = NoSettings /\ UNCHANGED <<masthead, landing, touches, outside, balks>>
       ELSE Saves(IF reset THEN "reset" ELSE "theme",
                  [masthead EXCEPT !.colours = Themed(reset)], fails)

-----------------------------------------------------------------------------
SetNext ==
  \/ WrittenOutside \/ OpenSettings \/ LeaveSettings
  \/ EditText \/ EditColours \/ PickIcon \/ PickNothing \/ RemoveIcon
  \/ settings # NoSettings /\ \E p \in settings.picks : Squared(p)
  \/ SaveProfile \/ SaveTheme

SetSpec == SetInit /\ [][SetNext]_setVars

-----------------------------------------------------------------------------
SetTypeOK ==
  /\ masthead \in Masthead \cup {NoMasthead} /\ settings \in Settings \cup {NoSettings}
  /\ landing = NoLanding \/ (landing.kind \in {"profile", "theme", "reset"}
                             /\ landing.page \in Settings /\ landing.now \in Masthead
                             /\ landing.before \in Masthead \cup {NoMasthead})
  /\ touches \in 0..MaxTouches /\ outside \in 0..MaxOutside /\ balks \in 0..MaxBalks

Or(meant, else) == IF meant = Untouched THEN else ELSE meant

(* A save of the profile, where nobody else wrote the record meanwhile,     *)
(* leaves every field the writer did not touch, and makes of the others     *)
(* what they saw; the icon too, unless a pick failed or ran into another.   *)
ProfileAsMeant ==
  landing # NoLanding /\ landing.kind = "profile" /\ landing.before = landing.page.was =>
    LET meant == landing.page.meant IN
    /\ landing.before # NoMasthead =>
         /\ landing.now.name = Or(meant.name, landing.before.name)
         /\ landing.now.about = Or(meant.about, landing.before.about)
         /\ ~landing.page.unsure =>
              Pictured(landing.now.icon) = Or(meant.icon, Pictured(landing.before.icon))
    /\ landing.before = NoMasthead /\ ~landing.page.unsure =>
         landing.now.icon = Or(meant.icon, NoIcon)

(* The colours are of the theme saves alone and the rest of the profile's   *)
(* alone, whoever wrote the record meanwhile; the colours saved are those   *)
(* shown, which no half of a theme another app left ever mixes with; and    *)
(* the defaults are no theme.                                               *)
ColoursAsShown ==
  landing # NoLanding =>
    LET was == landing.page.was
        whole == \A s \in Swatch : was.colours[s] # Garbled
        drawn(s) == IF was.colours # NoColours /\ whole THEN was.colours[s] ELSE 0
    IN  /\ landing.kind = "profile" =>
             landing.now.colours = IF landing.before = NoMasthead THEN NoColours
                                   ELSE landing.before.colours
        /\ landing.kind # "profile" =>
             /\ landing.now = [landing.before EXCEPT !.colours = landing.now.colours]
             /\ landing.now.colours =
                  IF landing.kind = "reset" THEN NoColours
                  ELSE [s \in Swatch |-> Or(landing.page.meant.hex[s], drawn(s))]

(* What a writer does in their settings is what their record becomes.       *)
SettingsAreTrue == ProfileAsMeant /\ ColoursAsShown
=============================================================================
