------------------------------ MODULE MCRecords ------------------------------
(* The writer's records, the pages made of them, a reader's subscription,    *)
(* the editor, the replies under a post and the counts beside it, one at a   *)
(* time: a behaviour is of the part its first state names, and the others    *)
(* stand still.                                                              *)
EXTENDS Documents, ReaderPages, PublicationRecord, Subscriptions, Editor, Conversation, Engagement

VARIABLE part

RecordsInit ==
  /\ part \in {"documents", "pages", "publication", "subscription", "editor", "conversation", "counts"}
  /\ DocInit /\ PageInit /\ RecInit /\ SubInit /\ EdInit /\ TalkInit /\ CountInit
  /\ part # "documents" => docs = [k \in Key |-> NoDoc]
  /\ part # "publication" => nextPub = 1
  /\ part # "counts" => announced = [r \in BoardRow |-> NoRef]

RecordsNext ==
  /\ \/ part = "documents" /\ DocNext
        /\ UNCHANGED <<pageVars, pubVars, subVars, edVars, talkVars, countVars>>
     \/ part = "pages" /\ PageNext
        /\ UNCHANGED <<docVars, pubVars, subVars, edVars, talkVars, countVars>>
     \/ part = "publication" /\ RecNext
        /\ UNCHANGED <<docVars, pageVars, subVars, edVars, talkVars, countVars>>
     \/ part = "subscription" /\ SubNext
        /\ UNCHANGED <<docVars, pageVars, pubVars, edVars, talkVars, countVars>>
     \/ part = "editor" /\ EdNext
        /\ UNCHANGED <<docVars, pageVars, pubVars, subVars, talkVars, countVars>>
     \/ part = "conversation" /\ TalkNext
        /\ UNCHANGED <<docVars, pageVars, pubVars, subVars, edVars, countVars>>
     \/ part = "counts" /\ CountNext
        /\ UNCHANGED <<docVars, pageVars, pubVars, subVars, edVars, talkVars>>
  /\ UNCHANGED part

RecordsSpec ==
  /\ RecordsInit /\ [][RecordsNext]_<<docVars, pageVars, pubVars, subVars, edVars, talkVars, countVars, part>>
  /\ PageFairness /\ EdFairness

(* Every record, row, page, request, control, reply and count has its type.  *)
RecordsTypeOK ==
  CASE part = "documents" -> DocTypeOK
    [] part = "pages" -> PageTypeOK
    [] part = "publication" -> RecTypeOK
    [] part = "subscription" -> SubTypeOK
    [] part = "editor" -> EdTypeOK
    [] part = "conversation" -> TalkTypeOK
    [] part = "counts" -> CountTypeOK

(* Search shows the posts that are live, as they are, and when the backfill  *)
(* calls itself done it shows all of them.                                   *)
SearchIsTrue == IndexIsTrue /\ ReadyIsComplete

(* What readers and writers are shown of the network is what it says: no     *)
(* reply it has hidden, no other post's count.                               *)
ReadsAreTheirs == HiddenStaysHidden /\ CountsAreTheirs
=============================================================================
