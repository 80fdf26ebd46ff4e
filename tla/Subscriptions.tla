----------------------------- MODULE Subscriptions -----------------------------
(***************************************************************************)
(* One reader's subscription to one publication: the records in their own  *)
(* repo, the control on each reading page that asks for the state and      *)
(* toggles it, and the handler, which looks a record up before it makes or *)
(* deletes one.                                                            *)
(***************************************************************************)
EXTENDS Integers, FiniteSets

CONSTANTS
  Control,   \* reading pages open with the control on them
  Record,    \* the subscription records the PDS may mint
  MaxPressed,\* bound: presses
  MaxFailed, \* bound: calls that fail
  NoCall

ASSUME SubscriptionsAssumption == MaxPressed \in Nat /\ MaxFailed \in Nat

VARIABLES
  records,  \* the subscription records that name the publication
  unused,   \* records not minted yet
  control,  \* each page's control
  call,     \* each control's request
  pressed,  \* presses so far
  failed,   \* failed calls so far
  doubled   \* history: a record was made by a handler that had not seen another

subVars == <<records, unused, control, call, pressed, failed, doubled>>

(* shown: nothing until the state is known.  sure: history, nothing was     *)
(* written since the control was told, and no answer to it was lost.        *)
ControlState == [shown: {"nothing", "on", "off"}, sure: BOOLEAN]

(* blind: history, the lookup failed, or a record was made since the call   *)
(* began.  calm: nothing was written since it began.                        *)
Call == [kind: {"ask", "subscribe", "unsubscribe"}, at: {"lookup", "write", "answer"},
         found: Record \cup {NoCall}, answer: {"none", "on", "off", "failed"},
         blind: BOOLEAN, calm: BOOLEAN]

ASSUME NoCallAssumption == NoCall \notin Record \cup Call

SubInit ==
  /\ records = {}
  /\ unused = Record
  /\ control = [c \in Control |-> [shown |-> "nothing", sure |-> FALSE]]
  /\ call = [c \in Control |-> NoCall]
  /\ pressed = 0 /\ failed = 0
  /\ doubled = FALSE

Failing == failed < MaxFailed /\ failed' = failed + 1

Sends(c, kind) ==
  call' = [call EXCEPT ![c] = [kind |-> kind, at |-> "lookup", found |-> NoCall,
                               answer |-> "none", blind |-> FALSE, calm |-> TRUE]]

(* readSubscriptionState, on mount. *)
Mount(c) ==
  /\ control[c].shown = "nothing" /\ call[c] = NoCall
  /\ Sends(c, "ask")
  /\ UNCHANGED <<records, unused, control, pressed, failed, doubled>>

(* The control asks for the other of what it shows, once at a time.         *)
Press(c) ==
  /\ control[c].shown # "nothing" /\ call[c] = NoCall /\ pressed < MaxPressed
  /\ pressed' = pressed + 1
  /\ Sends(c, IF control[c].shown = "off" THEN "subscribe" ELSE "unsubscribe")
  /\ UNCHANGED <<records, unused, control, failed, doubled>>

Answering(c, what) == [call EXCEPT ![c].at = "answer", ![c].answer = what]

(* Slip: what is there is not looked for. *)
LooksAway(k, r) == r = NoCall

(* Any one of them, in the order the repo lists them. *)
LooksUp(k, r) == IF records = {} THEN r = NoCall ELSE r \in records

(* findReaderSubscription: what is wanted may be so already.  A subscribe   *)
(* goes on when the lookup fails; the others say so.                        *)
LookUp(c) ==
  LET k == call[c] IN
  /\ k # NoCall /\ k.at = "lookup"
  /\ \/ \E r \in Record \cup {NoCall} :
          /\ LooksUp(k, r)
          /\ call' = IF k.kind = "ask" \/ (k.kind = "subscribe" <=> r # NoCall)
                     THEN Answering(c, IF r = NoCall THEN "off" ELSE "on")
                     ELSE [call EXCEPT ![c].at = "write", ![c].found = r]
          /\ UNCHANGED failed
     \/ /\ Failing
        /\ call' = IF k.kind = "subscribe"
                   THEN [call EXCEPT ![c].at = "write", ![c].blind = TRUE]
                   ELSE Answering(c, "failed")
  /\ UNCHANGED <<records, unused, control, pressed, doubled>>

(* Everyone else's news is old, and calls under way are overtaken. *)
Overtakes(c, what, made) ==
  /\ control' = [d \in Control |-> IF d = c THEN control[d] ELSE [control[d] EXCEPT !.sure = FALSE]]
  /\ call' = [d \in Control |->
       IF d = c THEN [call[c] EXCEPT !.at = "answer", !.answer = what]
       ELSE IF call[d] = NoCall THEN NoCall
       ELSE [call[d] EXCEPT !.calm = FALSE, !.blind = @ \/ made]]

WriteSubscription(c) ==
  LET k == call[c] IN
  /\ k # NoCall /\ k.at = "write"
  /\ \/ /\ k.kind = "subscribe"
        /\ \E r \in unused : records' = records \cup {r} /\ unused' = unused \ {r}
        /\ doubled' = (doubled \/ k.blind)
        /\ Overtakes(c, "on", TRUE) /\ UNCHANGED failed
     \/ /\ k.kind = "unsubscribe"
        /\ records' = records \ {k.found}
        /\ Overtakes(c, "off", FALSE) /\ UNCHANGED <<unused, doubled, failed>>
     \/ Failing /\ call' = Answering(c, "failed") /\ UNCHANGED <<records, unused, control, doubled>>
  /\ UNCHANGED pressed

(* A press that failed leaves the control as it was; so does an answer that *)
(* never came, though the write may have landed.                            *)
TakeAnswer(c) ==
  LET k == call[c] IN
  /\ k # NoCall /\ k.at = "answer"
  /\ \/ /\ control' = [control EXCEPT ![c] =
             IF k.answer = "failed" THEN @ ELSE [shown |-> k.answer, sure |-> k.calm]]
        /\ UNCHANGED failed
     \/ Failing /\ control' = [control EXCEPT ![c].sure = FALSE]
  /\ call' = [call EXCEPT ![c] = NoCall]
  /\ UNCHANGED <<records, unused, pressed, doubled>>

SubNext ==
  \E c \in Control : Mount(c) \/ Press(c) \/ LookUp(c) \/ WriteSubscription(c) \/ TakeAnswer(c)

SubSpec == SubInit /\ [][SubNext]_subVars

-----------------------------------------------------------------------------
SubTypeOK ==
  /\ records \subseteq Record /\ unused \subseteq Record
  /\ control \in [Control -> ControlState]
  /\ call \in [Control -> Call \cup {NoCall}]
  /\ pressed \in 0..MaxPressed /\ failed \in 0..MaxFailed /\ doubled \in BOOLEAN

(* What the control says is so: a reader shown as unsubscribed has no       *)
(* record left, unless another page has written since, an answer was lost,  *)
(* or a subscribe once went ahead blind (its lookup failed, or another      *)
(* page's record was made meanwhile) and left two.                          *)
ControlIsTrue ==
  \A c \in Control :
    control[c].shown # "nothing" /\ control[c].sure /\ call[c] = NoCall /\ ~doubled =>
      (control[c].shown = "on") <=> (records # {})
=============================================================================
