--------------------------- MODULE PublishedOnce ---------------------------
(***************************************************************************)
(* What scheduled publishing promises a writer, with no passes, leases,    *)
(* keys reserved or attempts in sight: a draft goes live once, under one   *)
(* key; what is live may be brought up to date but never disappears; and a *)
(* draft is only cleared away once it is live, or by the writer.           *)
(***************************************************************************)
EXTENDS Integers

CONSTANTS Draft, Rkey, Version, Gone

VARIABLES
  drafts,    \* the save each draft holds, or Gone
  live,      \* for each draft, the key and the save it is live at
  discarded  \* the drafts the writer deleted

vars == <<drafts, live, discarded>>

Init ==
  /\ drafts = [d \in Draft |-> 0]
  /\ live = [d \in Draft |-> {}]
  /\ discarded = {}

Save(d) ==
  /\ drafts[d] # Gone
  /\ drafts' = [drafts EXCEPT ![d] = @ + 1]
  /\ UNCHANGED <<live, discarded>>

GoLive(d) ==
  /\ live[d] = {}
  /\ \E k \in Rkey, v \in Version : live' = [live EXCEPT ![d] = {<<k, v>>}]
  /\ UNCHANGED <<drafts, discarded>>

Update(d) ==
  /\ \E k \in Rkey, v, w \in Version :
       live[d] = {<<k, v>>} /\ live' = [live EXCEPT ![d] = {<<k, w>>}]
  /\ UNCHANGED <<drafts, discarded>>

Complete(d) ==
  /\ live[d] # {}
  /\ drafts' = [drafts EXCEPT ![d] = Gone]
  /\ UNCHANGED <<live, discarded>>

Discard(d) ==
  /\ drafts[d] # Gone
  /\ drafts' = [drafts EXCEPT ![d] = Gone]
  /\ discarded' = discarded \cup {d}
  /\ UNCHANGED live

Next == \E d \in Draft : Save(d) \/ GoLive(d) \/ Update(d) \/ Complete(d) \/ Discard(d)

Spec == Init /\ [][Next]_vars
=============================================================================
