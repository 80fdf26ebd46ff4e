------------------------------ MODULE ReaderForms ------------------------------
(***************************************************************************)
(* The three forms a stranger fills in: an address left with a writer, an  *)
(* address on the launch list, a report.  The challenge that guards them is*)
(* loaded late and gives single-use tokens; a submit waits for one, and the*)
(* request or its answer may be lost.  The first of the forms also works   *)
(* without JavaScript, where the answer is another page.                   *)
(***************************************************************************)
EXTENDS Integers, FiniteSets

CONSTANTS
  MaxTokens, \* bound: tokens are 1..MaxTokens
  MaxPages,  \* bound: pages opened
  MaxSent,   \* bound: submits
  MaxMishaps,\* bound: requests, answers, checks and writes that fail
  NoStranger, NoEntry

Token == 1..MaxTokens \* 0 for none

ASSUME ReaderFormsAssumption == {MaxTokens, MaxPages, MaxSent, MaxMishaps} \subseteq Nat

VARIABLES
  formKind, \* which of the forms this is about, with one and the same entry
  sitekey,  \* the widget renders
  secret,   \* the endpoint checks
  stranger, \* the form on the page
  entry,    \* the request under way
  minting,  \* tokens given so far
  spent,    \* tokens siteverify has seen
  entries,  \* the rows, each by the submit that wrote it
  first,    \* history: the first submit that wrote one; 0, none has
  pages, sentForms, mishaps

formVars == <<formKind, sitekey, secret, stranger, entry, minting, spent, entries, first,
              pages, sentForms, mishaps>>

(* js: the form's script runs.  challenge: of the widget; solved: its first *)
(* token came, and the promise stays resolved.                              *)
Stranger == [js : BOOLEAN,
             shows : {"idle", "sending", "done", "error", "saved page", "nothing saved"},
             challenge : {"none", "asked", "rendered"}, solved : BOOLEAN, token : 0..MaxTokens]

(* from: the page that sent it; 0, none that is there any more.  sound:     *)
(* history, nothing was wrong with it and nothing went wrong.               *)
Entry == [from : 0..MaxPages, native : BOOLEAN, token : 0..MaxTokens, valid : BOOLEAN,
          says : {"request", "ok", "refused", "broken"}, sound : BOOLEAN]

ASSUME FormNullsAssumption == NoStranger \notin Stranger /\ NoEntry \notin Entry

FormsInit ==
  /\ formKind \in {"email", "waitlist", "report"}
  /\ sitekey \in BOOLEAN /\ secret \in BOOLEAN
  /\ stranger = NoStranger /\ entry = NoEntry
  /\ minting = 0 /\ spent = {} /\ entries = {} /\ first = 0
  /\ pages = 0 /\ sentForms = 0 /\ mishaps = 0

MayMiss(fails) == /\ fails => mishaps < MaxMishaps
                  /\ mishaps' = IF fails THEN mishaps + 1 ELSE mishaps

(* Only the reader's form names an endpoint for a browser without script.   *)
OpenForm ==
  /\ stranger = NoStranger /\ pages < MaxPages /\ pages' = pages + 1
  /\ \E js \in BOOLEAN :
       /\ js \/ formKind = "email"
       /\ stranger' = [js |-> js, shows |-> "idle", challenge |-> "none", solved |-> FALSE,
                       token |-> 0]
  /\ UNCHANGED <<formKind, sitekey, secret, entry, minting, spent, entries, first, sentForms,
                 mishaps>>

(* A request already sent goes on.                                          *)
LeaveForm ==
  /\ stranger # NoStranger /\ stranger' = NoStranger
  /\ entry' = IF entry = NoEntry THEN NoEntry ELSE [entry EXCEPT !.from = 0]
  /\ UNCHANGED <<formKind, sitekey, secret, minting, spent, entries, first, pages, sentForms,
                 mishaps>>

-----------------------------------------------------------------------------
(* TurnstileWidget.                                                         *)

ScriptRuns == stranger # NoStranger /\ stranger.js
FormShown == ScriptRuns /\ stranger.shows \in {"idle", "sending", "error"}
WidgetOnly == UNCHANGED <<formKind, sitekey, secret, entry, spent, entries, first, pages,
                          sentForms>>

(* In view or in focus, once.                                               *)
StartChallenge ==
  /\ FormShown /\ sitekey /\ stranger.challenge = "none"
  /\ stranger' = [stranger EXCEPT !.challenge = "asked"]
  /\ WidgetOnly /\ UNCHANGED <<minting, mishaps>>

(* A script that does not load leaves the form without a widget.            *)
RenderWidget ==
  /\ FormShown /\ stranger.challenge = "asked"
  /\ stranger' = [stranger EXCEPT !.challenge = "rendered"]
  /\ WidgetOnly /\ UNCHANGED <<minting, mishaps>>

Solve ==
  /\ FormShown /\ stranger.challenge = "rendered" /\ stranger.token = 0 /\ minting < MaxTokens
  /\ minting' = minting + 1
  /\ stranger' = [stranger EXCEPT !.token = minting', !.solved = TRUE]
  /\ WidgetOnly /\ UNCHANGED mishaps

(* Slip: the widget is left as it was.                                      *)
LeftAsItWas(s) == s.token

(* resetTurnstileWidgets: a token that may be spent is not sent again.      *)
Rearmed(s) == 0

-----------------------------------------------------------------------------
(* The submit.                                                              *)

(* turnstileReady starts the challenge.                                     *)
SubmitForm ==
  /\ FormShown /\ stranger.shows # "sending" /\ entry = NoEntry
  /\ sentForms < MaxSent /\ sentForms' = sentForms + 1
  /\ stranger' = [stranger EXCEPT !.shows = "sending",
                    !.challenge = IF sitekey /\ @ = "none" THEN "asked" ELSE @]
  /\ UNCHANGED <<formKind, sitekey, secret, entry, minting, spent, entries, first, pages,
                 mishaps>>

(* What a bot or a slip of the hand fills in is not valid.                  *)
Posts(native, token) ==
  \E valid \in BOOLEAN :
    entry' = [from |-> pages, native |-> native, token |-> token, valid |-> valid,
              says |-> "request", sound |-> FALSE]

(* With the first token, without a widget, or ten seconds later.            *)
PostForm ==
  /\ FormShown /\ stranger.shows = "sending" /\ entry = NoEntry
  /\ \E late \in BOOLEAN :
       /\ late => sitekey /\ ~stranger.solved
       /\ sitekey /\ ~stranger.solved => late
       /\ MayMiss(late)
  /\ Posts(FALSE, stranger.token)
  /\ UNCHANGED <<formKind, sitekey, secret, stranger, minting, spent, entries, first, pages,
                 sentForms>>

(* The browser's own submit: without script there is no token.              *)
SubmitNatively ==
  /\ stranger # NoStranger /\ ~stranger.js /\ stranger.shows = "idle" /\ entry = NoEntry
  /\ sentForms < MaxSent /\ sentForms' = sentForms + 1
  /\ Posts(TRUE, 0)
  /\ UNCHANGED <<formKind, sitekey, secret, stranger, minting, spent, entries, first, pages,
                 mishaps>>

-----------------------------------------------------------------------------
(* The endpoints.                                                           *)

(* Slip: the later consent is kept.                                         *)
LaterKept(w) == IF formKind = "report" THEN entries \cup {w} ELSE {w}

(* onConflictDoNothing keeps the first; a report has no key to be in        *)
(* conflict with.                                                           *)
Inserted(w) == IF formKind # "report" /\ entries # {} THEN entries ELSE entries \cup {w}

(* Slip: a conflict is an error.                                            *)
ConflictThrows(fails) == fails \/ (formKind # "report" /\ entries # {})

Throws(fails) == fails

(* checkTurnstile and verifyTurnstileToken, which fail closed.              *)
ChecksToken == secret /\ entry.token # 0
IsHuman(checkFails) == secret => ChecksToken /\ entry.token \notin spent /\ ~checkFails

(* A check that timed out may have spent the token.  A write that fails is  *)
(* a 500.                                                                   *)
HandleEntry ==
  /\ entry # NoEntry /\ entry.says = "request"
  /\ \E checkFails, writeFails \in BOOLEAN :
       LET asks  == entry.valid /\ ChecksToken
           human == entry.valid /\ IsHuman(checkFails)
           wrote == human /\ ~Throws(writeFails)
       IN  /\ checkFails => asks
           /\ writeFails => human
           /\ MayMiss(checkFails \/ writeFails)
           /\ spent' \in IF checkFails THEN {spent, spent \cup {entry.token}}
                         ELSE {IF asks THEN spent \cup {entry.token} ELSE spent}
           /\ entries' = IF wrote THEN Inserted(sentForms) ELSE entries
           /\ first' = IF wrote /\ first = 0 THEN sentForms ELSE first
           /\ entry' = [entry EXCEPT !.sound = human /\ ~writeFails,
                          !.says = IF wrote THEN "ok" ELSE IF human THEN "broken" ELSE "refused"]
  /\ UNCHANGED <<formKind, sitekey, secret, stranger, minting, pages, sentForms>>

LoseRequest ==
  /\ entry # NoEntry /\ entry.says = "request" /\ MayMiss(TRUE)
  /\ entry' = [entry EXCEPT !.says = "broken"]
  /\ UNCHANGED <<formKind, sitekey, secret, stranger, minting, spent, entries, first, pages,
                 sentForms>>

(* Slip: an answer of any kind will do.                                     *)
AnyAnswer(says) == says # "broken"

(* if (!res.ok) throw.                                                      *)
Accepted(says) == says = "ok"

(* Slip: /subscribed is not told of a refusal.                              *)
ToSubscribed(says) == "saved page"

(* seeOther: a refusal is a page too.                                       *)
SeeOther(says) == IF says = "ok" THEN "saved page" ELSE "nothing saved"

(* An answer that is lost throws like a refusal.  A browser without script, *)
(* left without an answer or with a 500, shows a page of its own.           *)
AnswerForm ==
  /\ entry # NoEntry /\ entry.says # "request" /\ entry' = NoEntry
  /\ \E lost \in BOOLEAN :
       /\ MayMiss(lost)
       /\ stranger' =
            IF entry.from = 0 THEN stranger
            ELSE IF entry.native
              THEN IF lost \/ entry.says = "broken" THEN NoStranger
                   ELSE [stranger EXCEPT !.shows = SeeOther(entry.says)]
            ELSE IF ~lost /\ Accepted(entry.says) THEN [stranger EXCEPT !.shows = "done"]
            ELSE [stranger EXCEPT !.shows = "error", !.token = Rearmed(stranger)]
  /\ UNCHANGED <<formKind, sitekey, secret, minting, spent, entries, first, pages, sentForms>>

-----------------------------------------------------------------------------
FormsNext ==
  \/ OpenForm \/ LeaveForm \/ StartChallenge \/ RenderWidget \/ Solve
  \/ SubmitForm \/ PostForm \/ SubmitNatively \/ HandleEntry \/ LoseRequest \/ AnswerForm

FormsSpec == FormsInit /\ [][FormsNext]_formVars

-----------------------------------------------------------------------------
FormsTypeOK ==
  /\ formKind \in {"email", "waitlist", "report"} /\ sitekey \in BOOLEAN /\ secret \in BOOLEAN
  /\ stranger \in Stranger \cup {NoStranger} /\ entry \in Entry \cup {NoEntry}
  /\ minting \in 0..MaxTokens /\ spent \subseteq Token /\ entries \subseteq 1..MaxSent
  /\ pages \in 0..MaxPages /\ sentForms \in 0..MaxSent /\ mishaps \in 0..MaxMishaps
  /\ first \in 0..MaxSent

(* Who is told that an address or a report was taken left it, and who is    *)
(* told that nothing was saved left nothing; the form never holds a token   *)
(* already spent when it can be sent again; an address is held once, with   *)
(* its first consent, and the answer to a sound entry is the same whether   *)
(* it was held already or not.                                              *)
FormsAreTrue ==
  /\ stranger # NoStranger =>
       /\ stranger.shows \in {"done", "saved page"} => entries # {}
       /\ formKind = "report" /\ stranger.shows = "done" => sentForms \in entries
       /\ stranger.shows = "nothing saved" => sentForms \notin entries
       /\ stranger.shows \in {"idle", "error"} /\ stranger.token # 0 => stranger.token \notin spent
  /\ formKind # "report" => entries \subseteq {first}
  /\ entry # NoEntry /\ entry.sound => entry.says = "ok"
=============================================================================
