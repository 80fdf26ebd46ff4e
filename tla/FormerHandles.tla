---------------------------- MODULE FormerHandles ----------------------------
(***************************************************************************)
(* Links to a handle its writer has left: the network's handles and DID    *)
(* documents, which change on their own; the edge cache of resolved        *)
(* handles; handle_history, which a publish and a redirect write; and the  *)
(* reader's lookup of an old handle.                                       *)
(***************************************************************************)
EXTENDS Integers, FiniteSets

CONSTANTS
  Account, Handle,
  MaxRenames, \* bound: changes of handles and of DID documents
  MaxLookups, \* bound: links followed
  MaxNoted,   \* bound: publishes
  MaxUnheard, \* bound: calls that fail
  Nobody, NoHandle, NoErrand, NoReply

ASSUME FormerHandlesAssumption == {MaxRenames, MaxLookups, MaxNoted, MaxUnheard} \subseteq Nat

VARIABLES
  holder,  \* whom a handle resolves to
  claim,   \* the handle a DID document names, unverified
  resolved,\* the edge cache of resolveHandleToDid
  formerly,\* handle_history
  noting,  \* recordWriterHandle after a publish, of each account
  lookup,  \* the link being followed
  reply,   \* where the last one led, until a handle changes
  held,    \* history: who ever held what
  renames, lookups, noted, unheard

handleVars == <<holder, claim, resolved, formerly, noting, lookup, reply, held, renames, lookups,
               noted, unheard>>

Errand == [of : Handle, at : {"known", "verify", "write"}]
LinkLookup == [of : Handle, at : {"resolve", "row", "document", "verify", "note"},
           did : Account \cup {Nobody}, current : Handle \cup {NoHandle}]

(* to: the account shown or redirected to.                                  *)
Reply == [of : Handle, says : {"page", "moved for good", "by DID", "not found"},
          did : Account \cup {Nobody}, current : Handle \cup {NoHandle}]

ASSUME HandleNullsAssumption ==
  /\ Nobody \notin Account /\ NoHandle \notin Handle
  /\ NoErrand \notin Errand \cup LinkLookup /\ NoReply \notin Reply

HandleInit ==
  /\ holder \in [Handle -> Account \cup {Nobody}]
  /\ \A h, g \in Handle : holder[h] = holder[g] /\ holder[h] # Nobody => h = g
  /\ claim = [a \in Account |-> IF \E h \in Handle : holder[h] = a
                                THEN CHOOSE h \in Handle : holder[h] = a ELSE NoHandle]
  /\ resolved = [h \in Handle |-> Nobody] /\ formerly = [h \in Handle |-> Nobody]
  /\ noting = [a \in Account |-> NoErrand] /\ lookup = NoErrand /\ reply = NoReply
  /\ held = {<<h, holder[h]>> : h \in {g \in Handle : holder[g] # Nobody}}
  /\ renames = 0 /\ lookups = 0 /\ noted = 0 /\ unheard = 0

-----------------------------------------------------------------------------
(* The network.                                                             *)

Renames == renames < MaxRenames /\ renames' = renames + 1 /\ reply' = NoReply

(* An account takes a free handle and leaves the one it had.                *)
TakesHandle(a, h) ==
  /\ Renames /\ holder[h] = Nobody
  /\ holder' = [g \in Handle |-> IF g = h THEN a ELSE IF holder[g] = a THEN Nobody ELSE holder[g]]
  /\ claim' = [claim EXCEPT ![a] = h]
  /\ held' = held \cup {<<h, a>>}
  /\ UNCHANGED <<resolved, formerly, noting, lookup, lookups, noted, unheard>>

(* A document may name any handle, its account's or not.                    *)
Claims(a, h) ==
  /\ Renames /\ claim[a] # h
  /\ claim' = [claim EXCEPT ![a] = h]
  /\ UNCHANGED <<holder, resolved, formerly, noting, lookup, held, lookups, noted, unheard>>

Forgets(h) ==
  /\ resolved[h] # Nobody /\ resolved' = [resolved EXCEPT ![h] = Nobody]
  /\ UNCHANGED <<holder, claim, formerly, noting, lookup, reply, held, renames, lookups, noted,
                 unheard>>

MayGoUnheard(fails) == /\ fails => unheard < MaxUnheard
                       /\ unheard' = IF fails THEN unheard + 1 ELSE unheard

-----------------------------------------------------------------------------
(* resolveHandleToDid: the cached answer, else the network's, kept if any.  *)

ResolvesTo(h) == IF resolved[h] # Nobody THEN resolved[h] ELSE holder[h]

Resolves(h, fails) == MayGoUnheard(fails) /\ (fails => resolved[h] = Nobody)
Resolution(h, fails) == IF fails THEN Nobody ELSE ResolvesTo(h)
KeptAtEdge(h, fails) == [resolved EXCEPT ![h] = Resolution(h, fails)]

-----------------------------------------------------------------------------
(* recordWriterHandle: after a publish, with the handle of the DID document.*)

Publishes(a) ==
  /\ noted < MaxNoted /\ noted' = noted + 1
  /\ noting[a] = NoErrand /\ claim[a] # NoHandle
  /\ noting' = [noting EXCEPT ![a] = [of |-> claim[a], at |-> "known"]]
  /\ UNCHANGED <<holder, claim, resolved, formerly, lookup, reply, held, renames, lookups,
                 unheard>>

ReadKnown(a) ==
  /\ noting[a] # NoErrand /\ noting[a].at = "known"
  /\ noting' = [noting EXCEPT ![a] = IF formerly[noting[a].of] = a THEN NoErrand
                                     ELSE [@ EXCEPT !.at = "verify"]]
  /\ UNCHANGED <<holder, claim, resolved, formerly, lookup, reply, held, renames, lookups,
                 noted, unheard>>

(* Slip: the document's word is taken.                                      *)
Unverified(a, did) == TRUE

IsTheirs(a, did) == did = a

Verify(a) ==
  /\ noting[a] # NoErrand /\ noting[a].at = "verify"
  /\ \E fails \in BOOLEAN :
       LET h == noting[a].of IN
       /\ Resolves(h, fails) /\ resolved' = KeptAtEdge(h, fails)
       /\ noting' = [noting EXCEPT ![a] = IF IsTheirs(a, Resolution(h, fails))
                                          THEN [@ EXCEPT !.at = "write"] ELSE NoErrand]
  /\ UNCHANGED <<holder, claim, formerly, lookup, reply, held, renames, lookups, noted>>

NoteHandle(a) ==
  /\ noting[a] # NoErrand /\ noting[a].at = "write"
  /\ \E fails \in BOOLEAN :
       /\ MayGoUnheard(fails)
       /\ formerly' = IF fails THEN formerly ELSE [formerly EXCEPT ![noting[a].of] = a]
  /\ noting' = [noting EXCEPT ![a] = NoErrand]
  /\ UNCHANGED <<holder, claim, resolved, lookup, reply, held, renames, lookups, noted>>

-----------------------------------------------------------------------------
(* A link is followed: resolveIdent, formerHandleTarget,                    *)
(* formerHandleRedirect.                                                    *)

Follow(h) ==
  /\ lookup = NoErrand /\ lookups < MaxLookups /\ lookups' = lookups + 1
  /\ lookup' = [of |-> h, at |-> "resolve", did |-> Nobody, current |-> NoHandle]
  /\ reply' = NoReply
  /\ UNCHANGED <<holder, claim, resolved, formerly, noting, held, renames, noted, unheard>>

Leads(says, did, current) ==
  /\ reply' = [of |-> lookup.of, says |-> says, did |-> did, current |-> current]
  /\ lookup' = NoErrand

(* An answer that is not a DID is a handle that does not resolve.           *)
ResolveLink ==
  /\ lookup # NoErrand /\ lookup.at = "resolve"
  /\ \E fails \in BOOLEAN :
       LET did == Resolution(lookup.of, fails) IN
       /\ Resolves(lookup.of, fails) /\ resolved' = KeptAtEdge(lookup.of, fails)
       /\ IF did # Nobody THEN Leads("page", did, NoHandle)
          ELSE lookup' = [lookup EXCEPT !.at = "row"] /\ UNCHANGED reply
  /\ UNCHANGED <<holder, claim, formerly, noting, held, renames, lookups, noted>>

FindRow ==
  /\ lookup # NoErrand /\ lookup.at = "row"
  /\ \E fails \in BOOLEAN :
       /\ MayGoUnheard(fails)
       /\ IF fails \/ formerly[lookup.of] = Nobody THEN Leads("not found", Nobody, NoHandle)
          ELSE /\ lookup' = [lookup EXCEPT !.at = "document", !.did = formerly[lookup.of]]
               /\ UNCHANGED reply
  /\ UNCHANGED <<holder, claim, resolved, formerly, noting, held, renames, lookups, noted>>

(* Slip: a writer who still claims the handle is sent round again.          *)
NeverStill(current) == FALSE

StillClaims(current) == current = lookup.of

(* An unreadable document mints no redirect.                                *)
ReadDocument ==
  /\ lookup # NoErrand /\ lookup.at = "document"
  /\ \E fails \in BOOLEAN :
       LET current == claim[lookup.did] IN
       /\ MayGoUnheard(fails)
       /\ IF fails \/ StillClaims(current) THEN Leads("not found", Nobody, NoHandle)
          ELSE IF current = NoHandle THEN Leads("by DID", lookup.did, NoHandle)
          ELSE lookup' = [lookup EXCEPT !.at = "verify", !.current = current] /\ UNCHANGED reply
  /\ UNCHANGED <<holder, claim, resolved, formerly, noting, held, renames, lookups, noted>>

(* Slip: the current handle is not resolved back.                           *)
AnyCurrent(did) == TRUE

ResolvesBack(did) == did = lookup.did

VerifyCurrent ==
  /\ lookup # NoErrand /\ lookup.at = "verify"
  /\ \E fails \in BOOLEAN :
       LET h == lookup.current IN
       /\ Resolves(h, fails) /\ resolved' = KeptAtEdge(h, fails)
       /\ IF ResolvesBack(Resolution(h, fails))
          THEN lookup' = [lookup EXCEPT !.at = "note"] /\ UNCHANGED reply
          ELSE Leads("by DID", lookup.did, NoHandle)
  /\ UNCHANGED <<holder, claim, formerly, noting, held, renames, lookups, noted>>

(* The new handle is noted too, or the note is lost.                        *)
RedirectForGood ==
  /\ lookup # NoErrand /\ lookup.at = "note"
  /\ \E fails \in BOOLEAN :
       /\ MayGoUnheard(fails)
       /\ formerly' = IF fails THEN formerly ELSE [formerly EXCEPT ![lookup.current] = lookup.did]
  /\ Leads("moved for good", lookup.did, lookup.current)
  /\ UNCHANGED <<holder, claim, resolved, noting, held, renames, lookups, noted>>

-----------------------------------------------------------------------------
HandleNext ==
  \/ \E a \in Account, h \in Handle : TakesHandle(a, h) \/ Claims(a, h)
  \/ \E h \in Handle : Forgets(h) \/ Follow(h)
  \/ \E a \in Account : Publishes(a) \/ ReadKnown(a) \/ Verify(a) \/ NoteHandle(a)
  \/ ResolveLink \/ FindRow \/ ReadDocument \/ VerifyCurrent \/ RedirectForGood

HandleSpec == HandleInit /\ [][HandleNext]_handleVars

-----------------------------------------------------------------------------
HandleTypeOK ==
  /\ holder \in [Handle -> Account \cup {Nobody}] /\ claim \in [Account -> Handle \cup {NoHandle}]
  /\ resolved \in [Handle -> Account \cup {Nobody}]
  /\ formerly \in [Handle -> Account \cup {Nobody}]
  /\ noting \in [Account -> Errand \cup {NoErrand}] /\ lookup \in LinkLookup \cup {NoErrand}
  /\ reply \in Reply \cup {NoReply} /\ held \subseteq Handle \X Account
  /\ renames \in 0..MaxRenames /\ lookups \in 0..MaxLookups
  /\ noted \in 0..MaxNoted /\ unheard \in 0..MaxUnheard

(* A link leads only to an account that has held its handle, and for good   *)
(* only under another handle of the same account, which it has held: a      *)
(* claim in someone's DID document gets them nobody's links.                *)
LinksLeadHome ==
  reply # NoReply /\ reply.says # "not found" =>
    /\ <<reply.of, reply.did>> \in held
    /\ reply.says = "moved for good" =>
         reply.current # reply.of /\ <<reply.current, reply.did>> \in held
=============================================================================
