----------------------------- MODULE Conversation -----------------------------
(***************************************************************************)
(* The replies under a published post: read from the AppView, filtered by  *)
(* what the writer and the network hid, kept at the edge, and kept again   *)
(* in the reading page they are rendered into.                             *)
(***************************************************************************)
EXTENDS Integers, FiniteSets

CONSTANTS
  LastReply,    \* bound: replies are 1..LastReply, oldest first
  RenderCap,    \* MAX_RENDERED_REPLIES
  BodyCap,      \* MAX_RESPONSE_BYTES, in replies
  RepliesTTL,   \* COMMENTS_CACHE_TTL_SECONDS, in ticks
  PageTTL,      \* the reading page's TTL, in ticks
  LastTime,     \* bound: the clock
  MaxDropped,   \* bound: AppView calls that fail
  NoTalk, NoView

ASSUME ConversationAssumption ==
  /\ {RepliesTTL, PageTTL} \subseteq Nat \ {0}
  /\ {LastReply, RenderCap, BodyCap, LastTime, MaxDropped} \subseteq Nat

ReplyId == 1..LastReply
Clock == 0..LastTime

VARIABLES
  replies, \* what the network holds, by reply
  hidAt,   \* history: when a reply was hidden or deleted
  root,    \* the announcement is up
  clock,
  talk,    \* the conversation the edge holds
  stored,  \* the reading page the edge holds
  view,    \* what a reader was last shown
  dropped  \* failed calls so far

talkVars == <<replies, hidAt, root, clock, talk, stored, view, dropped>>

(* more: the page points to the rest of the thread.                         *)
Talk == [rows: SUBSET ReplyId, more: BOOLEAN, until: 1..LastTime + RepliesTTL + PageTTL]
View == [rows: SUBSET ReplyId, more: BOOLEAN, at: Clock]

TalkInit ==
  /\ replies = [r \in ReplyId |-> "none"] /\ hidAt = [r \in ReplyId |-> 0]
  /\ root = TRUE /\ clock = 0
  /\ talk = NoTalk /\ stored = NoTalk /\ view = NoView /\ dropped = 0

-----------------------------------------------------------------------------
(* The network.                                                             *)

PostReply(r) ==
  /\ root /\ replies[r] = "none"
  /\ replies' = [replies EXCEPT ![r] = "up"]
  /\ UNCHANGED <<hidAt, root, clock, talk, stored, view, dropped>>

(* The writer hides it or a labeller marks it (it still comes back from the *)
(* AppView), or its author deletes it.                                      *)
TakeDown(r) ==
  /\ replies[r] = "up"
  /\ \E how \in {"hidden", "deleted"} : replies' = [replies EXCEPT ![r] = how]
  /\ hidAt' = [hidAt EXCEPT ![r] = clock]
  /\ UNCHANGED <<root, clock, talk, stored, view, dropped>>

DeleteRoot ==
  /\ root /\ root' = FALSE
  /\ UNCHANGED <<replies, hidAt, clock, talk, stored, view, dropped>>

Elapse ==
  /\ clock < LastTime /\ clock' = clock + 1
  /\ UNCHANGED <<replies, hidAt, root, talk, stored, view, dropped>>

-----------------------------------------------------------------------------
(* A read.                                                                  *)

Holds(copy) == copy # NoTalk /\ clock < copy.until

SentBack == {r \in ReplyId : replies[r] \in {"up", "hidden"}}

(* Slip: the gate and the labels are not read. *)
Ungated(sent) == sent

(* normalizeReply, hiddenReplyUris *)
Visible(sent) == {r \in sent : replies[r] = "up"}

OldestFew(s) == {r \in s : Cardinality({q \in s : q <= r}) <= RenderCap}

Nothing == [rows |-> {}, more |-> FALSE]
WayIn == [rows |-> {}, more |-> TRUE]

(* normalizeThread, of the direct replies; answers to those are not read. *)
Normalized(visible) ==
  IF visible = {} THEN Nothing
  ELSE [rows |-> OldestFew(visible), more |-> Cardinality(visible) > RenderCap]

(* What the page shows goes to the reader, and into the page's own cache.   *)
Show(answer) ==
  /\ view' = [rows |-> answer.rows, more |-> answer.more, at |-> clock]
  /\ stored' = [rows |-> answer.rows, more |-> answer.more, until |-> clock + PageTTL]

ReadStored ==
  /\ Holds(stored)
  /\ view' = [rows |-> stored.rows, more |-> stored.more, at |-> clock]
  /\ UNCHANGED <<replies, hidAt, root, clock, talk, stored, dropped>>

RenderKept ==
  /\ ~Holds(stored) /\ Holds(talk)
  /\ Show(talk)
  /\ UNCHANGED <<replies, hidAt, root, clock, talk, dropped>>

(* getPostConversation, past its cache.  Over the cap: a heading and a way  *)
(* in, and neither that nor nothing is kept.                                *)
RenderRead ==
  /\ ~Holds(stored) /\ ~Holds(talk)
  /\ \/ /\ dropped < MaxDropped /\ dropped' = dropped + 1
        /\ Show(Nothing) /\ UNCHANGED talk
     \/ /\ Cardinality(SentBack) > BodyCap /\ root
        /\ Show(WayIn) /\ UNCHANGED <<talk, dropped>>
     \/ /\ Cardinality(SentBack) <= BodyCap \/ ~root
        /\ LET answer == Normalized(IF root THEN Visible(SentBack) ELSE {}) IN
             /\ Show(answer)
             /\ talk' = IF answer = Nothing THEN talk
                        ELSE [rows |-> answer.rows, more |-> answer.more, until |-> clock + RepliesTTL]
        /\ UNCHANGED dropped
  /\ UNCHANGED <<replies, hidAt, root, clock>>

TalkNext ==
  \/ \E r \in ReplyId : PostReply(r) \/ TakeDown(r)
  \/ DeleteRoot \/ Elapse \/ ReadStored \/ RenderKept \/ RenderRead

TalkSpec == TalkInit /\ [][TalkNext]_talkVars

-----------------------------------------------------------------------------
TalkTypeOK ==
  /\ replies \in [ReplyId -> {"none", "up", "hidden", "deleted"}]
  /\ hidAt \in [ReplyId -> Clock] /\ root \in BOOLEAN /\ clock \in Clock
  /\ talk \in Talk \cup {NoTalk} /\ stored \in Talk \cup {NoTalk} /\ view \in View \cup {NoView}
  /\ dropped \in 0..MaxDropped

(* A reply taken down is out of sight when both copies of it have run out:  *)
(* the page may be as old as its own time and was rendered from a           *)
(* conversation as old as that one's.                                       *)
HiddenStaysHidden ==
  view # NoView =>
    \A r \in view.rows : replies[r] \in {"hidden", "deleted"} =>
      view.at < hidAt[r] + RepliesTTL + PageTTL
=============================================================================
