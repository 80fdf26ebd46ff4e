----------------------------- MODULE Stores_proofs -----------------------------
(***************************************************************************)
(* Proofs about the parts that MCStores runs one at a time, and about them *)
(* together.  Of a writer's session, for any number of browsers, sign-ins  *)
(* and requests and any times: what ended stays over, a schedule has its   *)
(* session, and a deleted account stays empty.  Of imports, for any items, *)
(* pages and publishes at once: an item is here once, and the ledger says  *)
(* so.  Of the cron's report alert and follower samples, for any number of *)
(* ticks under way, reports, writers and days.  And of what is read of a   *)
(* repo, of a writer's threads, of an export file and of a feed, and of    *)
(* what the import page says of it: that it is the whole, or said not to   *)
(* be, for any records, pages, posts, askers, entries, webs and limits.    *)
(***************************************************************************)
EXTENDS MCStores, FiniteSetTheorems, WellFoundedInduction, TLAPS

-----------------------------------------------------------------------------
(* Sessions.                                                                *)

(* A session id is handed out once, so one that is yet to come is neither   *)
(* over nor known to any request.                                           *)
SidsSpent ==
  /\ \A s \in ended : s <= sids
  /\ session # NoSession => session.sid <= sids
  /\ \A w \in Worker : job[w] # NoJob => job[w].sid <= sids

Outlives(d) == session.expires # Unset /\ session.expires >= d + IdleTime

(* The session a schedule about to be written extended outlives it, while   *)
(* it is there; and a request can only schedule with a session that has an  *)
(* id.                                                                      *)
ExtendedFor ==
  \A b \in Browser : At(b, "upsert") /\ Alive /\ session.sid = job[b].sid => Outlives(job[b].due)
NotFromBefore ==
  \A b \in Browser : At(b, "extend") \/ At(b, "upsert") => session = NoSession \/ session.sid # 0

SigningIn(w) == job[w].kind = "signin" /\ job[w].at \in {"set", "sid"}

(* A deleted account has no session, hence no new request; all that is left *)
(* are those that began before, and sign-ins.  Between the deletion of its  *)
(* rows and of its session, whatever writes one is known to do so.          *)
ClosedIsOver ==
  closed =>
    /\ session = NoSession
    /\ \A b \in Browser : job[b] # NoJob => job[b].early \/ SigningIn(b)
    /\ "close" \notin astray => ~stored /\ due = 0 /\ (job[Cron] # NoJob => job[Cron].early)
Closing ==
  \A b \in Browser : At(b, "delete") /\ job[b].kind = "close" /\ "close" \notin astray =>
    ~stored /\ due = 0

SessInv ==
  /\ SessTypeOK /\ SidsSpent /\ EndedStaysEnded
  /\ KeptForSchedule /\ ExtendedFor /\ NotFromBefore
  /\ ClosedIsOver /\ Closing

LEMMA SessBounds ==
  /\ IdleTime \in Nat \ {0} /\ MaxTime \in Nat \ {0} /\ MaxSids \in Nat \ {0} /\ MaxJobs \in Nat \ {0}
  /\ TouchTime \in Nat /\ Cron \notin Browser /\ Unset \notin Expiry
BY SessionsAssumption

(* Idle time from now, or from the due time, is a time.                     *)
LEMMA FloorType ==
  ASSUME SessTypeOK
  PROVE  /\ Floor \in Expiry /\ Floor >= due + IdleTime /\ now + IdleTime \in Expiry
         /\ \A d \in Due : d + IdleTime \in Expiry
BY SessBounds DEF SessTypeOK, Floor, LargerOf, Expiry, Due

(* A row made to last until a time is the same session, lasts no shorter,   *)
(* and until then if it was alive.                                          *)
LEMMA ExtendRowDoes ==
  ASSUME SessTypeOK, NEW until \in Expiry, ExtendRow(until), session # NoSession
  PROVE  /\ session' \in SessionRow /\ session'.sid = session.sid
         /\ session.expires # Unset => session'.expires \in Expiry /\ session'.expires >= session.expires
         /\ Alive => session'.expires \in Expiry /\ session'.expires >= until
         /\ session' # session => Alive
<1>1. session \in SessionRow /\ Floor \in Expiry
  BY FloorType DEF SessTypeOK
<1>2. LargerOf(until, Floor) \in Expiry /\ LargerOf(until, Floor) >= until
  BY <1>1, SessBounds DEF LargerOf, Expiry
<1>3. CASE Alive /\ (session.expires = Unset \/ session.expires < until)
  <2>1. session' = [session EXCEPT !.expires = LargerOf(until, Floor)]
    BY <1>3 DEF ExtendRow, Extended
  <2>2. session'.expires = LargerOf(until, Floor) /\ session'.sid = session.sid /\ session' \in SessionRow
    BY <1>1, <1>2, <2>1 DEF SessionRow
  <2>3. session.expires # Unset => session.expires \in Int
    BY <1>1, SessBounds DEF SessionRow, Expiry
  <2> QED BY <1>2, <1>3, <2>2, <2>3, SessBounds DEF Expiry
<1>4. CASE ~(Alive /\ (session.expires = Unset \/ session.expires < until))
  <2>1. session' = session
    BY <1>4 DEF ExtendRow
  <2>2. session.expires # Unset => session.expires \in Int
    BY <1>1, SessBounds DEF SessionRow, Expiry
  <2> QED BY <1>1, <1>4, <2>1, <2>2, SessBounds DEF SessionRow, Expiry
<1> QED BY <1>3, <1>4

(* A session that is the same and lasts no shorter keeps its promises.      *)
LEMMA StillExtended ==
  ASSUME SessInv, \A b \in Browser : At(b, "upsert")' => job'[b] = job[b],
         session # NoSession /\ session' # NoSession /\ session'.sid = session.sid /\ now' = now,
         Alive' => Alive,
         session.expires # Unset => session'.expires \in Expiry /\ session'.expires >= session.expires
  PROVE  ExtendedFor'
<1> SUFFICES ASSUME NEW b \in Browser, At(b, "upsert")', Alive', session'.sid = job'[b].sid
             PROVE  Outlives(job[b].due)'
  BY DEF ExtendedFor
<1>1. At(b, "upsert") /\ Alive /\ session.sid = job[b].sid /\ job'[b] = job[b]
  BY DEF At
<1>2. Outlives(job[b].due)
  BY <1>1 DEF SessInv, ExtendedFor
<1>3. job[b].due \in Nat /\ session.expires \in Int
  BY <1>1, <1>2, SessBounds DEF At, SessInv, SessTypeOK, Job, Due, Worker, SessionRow, Expiry, Outlives
<1>4. session'.expires \in Expiry /\ session'.expires \in Int /\ session'.expires >= session.expires
  BY <1>2, SessBounds DEF Outlives, Expiry
<1> QED BY <1>1, <1>2, <1>3, <1>4, SessBounds DEF Outlives

(* A request that begins is a request.                                      *)
LEMMA BeginType ==
  ASSUME SessTypeOK, NEW w \in Worker, NEW d \in Due,
         NEW kind \in {"signin", "use", "schedule", "logout", "close"},
         NEW at \in {"slide", "get", "drop", "set", "sid", "write", "extend", "upsert", "clear", "delete"},
         Begin(w, kind, at, d)
  PROVE  job' \in [Worker -> Job \cup {NoJob}] /\ jobs' \in 0..MaxJobs
<1>1. [kind |-> kind, at |-> at, due |-> d, sid |-> 0, early |-> FALSE] \in Job
  BY SessBounds DEF Job, Sid
<1> QED BY <1>1, SessBounds DEF Begin, SessTypeOK

LEMMA StartRequestKeeps == ASSUME SessInv, NEW b \in Browser, StartRequest(b) PROVE SessInv'
<1> USE SessBounds DEF SessInv, StartRequest, Accepted, Begin, NeedsSlide, Alive, Lapsed,
      At, SessionRow, Cookie, Job, Sid, Expiry, Due, Worker
<1>1. SessTypeOK'
  <2>1. 0 \in Due /\ \A d \in (now + 1)..MaxTime : d \in Due
    BY DEF SessTypeOK
  <2>2. job' \in [Worker -> Job \cup {NoJob}] /\ jobs' \in 0..MaxJobs
    <3> HIDE DEF Begin, Job, Due
    <3> QED BY <2>1, BeginType
  <2> QED BY <2>2 DEF SessTypeOK
<1>2. SidsSpent'
  BY DEF SidsSpent, SessTypeOK
<1>3. EndedStaysEnded'
  BY DEF EndedStaysEnded, SidsSpent, SessTypeOK
<1>4. KeptForSchedule'
  BY DEF KeptForSchedule, SessTypeOK
<1>5. ExtendedFor'
  BY DEF ExtendedFor, SessTypeOK, Outlives
<1>6. NotFromBefore'
  BY DEF NotFromBefore, SessTypeOK
<1>7. ClosedIsOver'
  BY DEF ClosedIsOver, SessTypeOK, SigningIn
<1>8. Closing'
  BY DEF Closing, SessTypeOK, ClosedIsOver
<1> QED BY <1>1, <1>2, <1>3, <1>4, <1>5, <1>6, <1>7, <1>8

LEMMA SignInKeeps == ASSUME SessInv, NEW b \in Browser, SignIn(b) PROVE SessInv'
<1> USE SessBounds DEF SessInv, SignIn, Begin, At, Alive, Lapsed, SessionRow, Cookie, Job,
      Sid, Expiry, Due, Worker
<1>1. SessTypeOK'
  BY DEF SessTypeOK
<1>2. SidsSpent'
  BY DEF SidsSpent, SessTypeOK
<1>3. EndedStaysEnded'
  BY DEF EndedStaysEnded, SidsSpent, SessTypeOK
<1>4. KeptForSchedule'
  BY DEF KeptForSchedule, SessTypeOK
<1>5. ExtendedFor'
  BY DEF ExtendedFor, SessTypeOK, Outlives
<1>6. NotFromBefore'
  BY DEF NotFromBefore, SessTypeOK
<1>7. ClosedIsOver'
  BY DEF ClosedIsOver, SessTypeOK, SigningIn
<1>8. Closing'
  BY DEF Closing, SessTypeOK
<1> QED BY <1>1, <1>2, <1>3, <1>4, <1>5, <1>6, <1>7, <1>8

LEMMA SetSignedInKeeps == ASSUME SessInv, NEW b \in Browser, SetSignedIn(b) PROVE SessInv'
<1> USE SessBounds DEF SessInv, SetSignedIn, At, Floor, KeepsSid, LargerOf, Goes, Lapsed,
      Alive, SessionRow, Cookie, Job, Sid, Expiry, Due, Worker
<1>1. SessTypeOK'
  <2>1. sids' \in Sid
    BY DEF SessTypeOK
  <2>2. session' \in SessionRow \cup {NoSession}
    <3>1. Floor \in Expiry
      BY FloorType
    <3>2. session # NoSession => session \in SessionRow
      BY DEF SessTypeOK
    <3>3. session # NoSession /\ session.expires # Unset => LargerOf(session.expires, Floor) \in Expiry
      BY <3>1, <3>2
    <3> HIDE DEF Floor, LargerOf, KeepsSid, Expiry, Sid
    <3> QED BY <2>1, <3>1, <3>2, <3>3
  <2>3. job' \in [Worker -> Job \cup {NoJob}]
    BY DEF SessTypeOK
  <2> QED BY <2>1, <2>2, <2>3 DEF SessTypeOK
<1>2. SidsSpent'
  BY DEF SidsSpent, SessTypeOK
<1>3. EndedStaysEnded'
  BY DEF EndedStaysEnded, SidsSpent, SessTypeOK
<1>4. KeptForSchedule'
  BY DEF KeptForSchedule, SessTypeOK
<1>5. ExtendedFor'
  <2>1. CASE session # NoSession /\ KeepsSid /\ session' # NoSession
    <3>1. session'.sid = session.sid /\ Alive /\ now' = now
      BY <2>1 DEF SessTypeOK
    <3>2. session.expires # Unset => session'.expires \in Expiry /\ session'.expires >= session.expires
      BY <2>1, FloorType DEF SessTypeOK
    <3>3. \A c \in Browser : At(c, "upsert")' => job'[c] = job[c]
      BY DEF SessTypeOK
    <3> HIDE DEF At, Alive, SessInv
    <3> QED BY <2>1, <3>1, <3>2, <3>3, StillExtended
  <2>2. CASE session = NoSession \/ ~KeepsSid
    <3>1. session'.sid = sids + 1
      BY <2>2
    <3>2. \A c \in Browser : At(c, "upsert")' => job[c] # NoJob /\ job'[c] = job[c] /\ job[c].sid \in Nat
      BY DEF SessTypeOK
    <3>3. \A c \in Browser : At(c, "upsert")' => job'[c].sid # sids + 1
      BY <3>2 DEF SidsSpent, SessTypeOK
    <3> QED BY <3>1, <3>3 DEF ExtendedFor
  <2>3. CASE session' = NoSession
    BY <2>3 DEF ExtendedFor
  <2> QED BY <2>1, <2>2, <2>3
<1>6. NotFromBefore'
  BY DEF NotFromBefore, SessTypeOK
<1>7. ClosedIsOver'
  BY DEF ClosedIsOver, SessTypeOK, SigningIn
<1>8. Closing'
  BY DEF Closing, SessTypeOK
<1> QED BY <1>1, <1>2, <1>3, <1>4, <1>5, <1>6, <1>7, <1>8

LEMMA SetCookieKeeps == ASSUME SessInv, NEW b \in Browser, SetCookie(b) PROVE SessInv'
<1> USE SessBounds DEF SessInv, SetCookie, At, Ends, Alive, Lapsed, SessionRow, Cookie, Job,
      Sid, Expiry, Due, Worker
<1>1. SessTypeOK'
  BY DEF SessTypeOK
<1>2. SidsSpent'
  BY DEF SidsSpent, SessTypeOK
<1>3. EndedStaysEnded'
  BY DEF EndedStaysEnded, SidsSpent, SessTypeOK
<1>4. KeptForSchedule'
  BY DEF KeptForSchedule, SessTypeOK
<1>5. ExtendedFor'
  BY DEF ExtendedFor, SessTypeOK, Outlives
<1>6. NotFromBefore'
  BY DEF NotFromBefore, SessTypeOK
<1>7. ClosedIsOver'
  BY DEF ClosedIsOver, SessTypeOK, SigningIn
<1>8. Closing'
  BY DEF Closing, SessTypeOK
<1> QED BY <1>1, <1>2, <1>3, <1>4, <1>5, <1>6, <1>7, <1>8

LEMMA SignOutKeeps == ASSUME SessInv, NEW b \in Browser, SignOut(b) PROVE SessInv'
<1> USE SessBounds DEF SessInv, SignOut, Begin, At, Alive, Lapsed, SessionRow, Cookie, Job,
      Sid, Expiry, Due, Worker
<1>1. SessTypeOK'
  <2>1. cookie' \in [Browser -> Cookie \cup {NoCookie}]
    BY DEF SessTypeOK
  <2>2. job' \in [Worker -> Job \cup {NoJob}] /\ jobs' \in 0..MaxJobs
    <3>1. CASE Begin(b, "logout", "delete", 0)
      <4>1. 0 \in Due
        OBVIOUS
      <4> HIDE DEF Begin, Job, Due
      <4> QED BY <3>1, <4>1, BeginType
    <3>2. CASE UNCHANGED <<job, jobs>>
      BY <3>2 DEF SessTypeOK
    <3> QED BY <3>1, <3>2
  <2> QED BY <2>1, <2>2 DEF SessTypeOK
<1>2. SidsSpent'
  BY DEF SidsSpent, SessTypeOK
<1>3. EndedStaysEnded'
  BY DEF EndedStaysEnded, SidsSpent, SessTypeOK
<1>4. KeptForSchedule'
  BY DEF KeptForSchedule, SessTypeOK
<1>5. ExtendedFor'
  BY DEF ExtendedFor, SessTypeOK, Outlives
<1>6. NotFromBefore'
  BY DEF NotFromBefore, SessTypeOK
<1>7. ClosedIsOver'
  BY DEF ClosedIsOver, SessTypeOK, SigningIn
<1>8. Closing'
  BY DEF Closing, SessTypeOK
<1> QED BY <1>1, <1>2, <1>3, <1>4, <1>5, <1>6, <1>7, <1>8

LEMMA DeleteSessionKeeps == ASSUME SessInv, NEW b \in Browser, DeleteSession(b) PROVE SessInv'
<1> USE SessBounds DEF SessInv, DeleteSession, At, RemoveSession, Alive, Lapsed, SessionRow,
      Cookie, Job, Sid, Expiry, Due, Worker
<1>1. SessTypeOK'
  <2>1. cookie' \in [Browser -> Cookie \cup {NoCookie}]
    BY DEF SessTypeOK
  <2>2. ended' \subseteq Sid
    BY DEF SessTypeOK
  <2>3. closed' \in BOOLEAN
    BY ZenonT(30) DEF SessTypeOK
  <2>4. \A w \in Worker : job'[w] \in Job \cup {NoJob}
    <3> SUFFICES ASSUME NEW w \in Worker, job[w] # NoJob, w # b
                 PROVE  [job[w] EXCEPT !.early = @ \/ job[b].kind = "close"] \in Job
      OBVIOUS
    <3>1. job[w] \in Job /\ (job[w].early \/ job[b].kind = "close") \in BOOLEAN
      BY DEF SessTypeOK
    <3> QED BY <3>1
  <2>5. job' \in [Worker -> Job \cup {NoJob}]
    BY <2>4
  <2> QED BY <2>1, <2>2, <2>3, <2>5 DEF SessTypeOK
<1>2. SidsSpent'
  BY DEF SidsSpent, SessTypeOK
<1>3. EndedStaysEnded'
  BY DEF EndedStaysEnded, SidsSpent, SessTypeOK
<1>4. KeptForSchedule'
  BY DEF KeptForSchedule, SessTypeOK
<1>5. ExtendedFor'
  BY DEF ExtendedFor, SessTypeOK, Outlives, SidsSpent
<1>6. NotFromBefore'
  BY DEF NotFromBefore, SessTypeOK
<1>7. ClosedIsOver'
  BY DEF ClosedIsOver, SessTypeOK, SigningIn, Closing
<1>8. Closing'
  BY DEF Closing, SessTypeOK
<1> QED BY <1>1, <1>2, <1>3, <1>4, <1>5, <1>6, <1>7, <1>8

LEMMA DeleteFailsKeeps == ASSUME SessInv, NEW b \in Browser, DeleteFails(b) PROVE SessInv'
<1> USE SessBounds DEF SessInv, DeleteFails, At, Ends, Alive, Lapsed, SessionRow, Cookie,
      Job, Sid, Expiry, Due, Worker
<1>1. SessTypeOK'
  BY DEF SessTypeOK
<1>2. SidsSpent'
  BY DEF SidsSpent, SessTypeOK
<1>3. EndedStaysEnded'
  BY DEF EndedStaysEnded, SidsSpent, SessTypeOK
<1>4. KeptForSchedule'
  BY DEF KeptForSchedule, SessTypeOK
<1>5. ExtendedFor'
  BY DEF ExtendedFor, SessTypeOK, Outlives
<1>6. NotFromBefore'
  BY DEF NotFromBefore, SessTypeOK
<1>7. ClosedIsOver'
  BY DEF ClosedIsOver, SessTypeOK, SigningIn
<1>8. Closing'
  BY DEF Closing, SessTypeOK
<1> QED BY <1>1, <1>2, <1>3, <1>4, <1>5, <1>6, <1>7, <1>8

LEMMA ExtendForScheduleKeeps == ASSUME SessInv, NEW b \in Browser, ExtendForSchedule(b) PROVE SessInv'
<1> USE SessBounds DEF SessInv, ExtendForSchedule, At, ExtendFor, Alive, ExtendRow, Lapsed,
      Extended, LargerOf, Floor, SessionRow, Cookie, Job, Sid, Expiry, Due, Worker
<1>1. SessTypeOK'
  <2>1. job[b] \in Job /\ job[b].due + IdleTime \in Expiry
    BY FloorType DEF SessTypeOK
  <2>2. session' \in SessionRow \cup {NoSession}
    <3>1. ExtendRow(job[b].due + IdleTime) /\ (session = NoSession => session' = NoSession)
      OBVIOUS
    <3> HIDE DEF ExtendRow, Expiry, Alive, SessionRow
    <3> QED BY <2>1, <3>1, ExtendRowDoes
  <2>3. (IF Alive THEN session.sid ELSE 0) \in Sid
    BY DEF SessTypeOK
  <2>4. job' \in [Worker -> Job \cup {NoJob}]
    <3> HIDE DEF Alive, Sid
    <3> QED BY <2>1, <2>3 DEF SessTypeOK
  <2> QED BY <2>2, <2>4 DEF SessTypeOK
<1>2. SidsSpent'
  BY DEF SidsSpent, SessTypeOK
<1>3. EndedStaysEnded'
  BY DEF EndedStaysEnded, SidsSpent, SessTypeOK
<1>4. KeptForSchedule'
  BY DEF KeptForSchedule, SessTypeOK
<1>5. ExtendedFor'
  <2> SUFFICES ASSUME NEW c \in Browser, At(c, "upsert")', Alive', session'.sid = job'[c].sid
               PROVE  Outlives(job[c].due)'
    BY DEF ExtendedFor, SessTypeOK
  <2>1. /\ job[b] \in Job /\ job[b].due \in Nat /\ job[b].due + IdleTime \in Expiry
        /\ ExtendRow(job[b].due + IdleTime) /\ session # NoSession /\ now' = now
    BY FloorType DEF SessTypeOK
  <2>2. /\ session'.sid = session.sid
        /\ session.expires # Unset => session'.expires \in Expiry /\ session'.expires >= session.expires
        /\ Alive => session'.expires \in Expiry /\ session'.expires >= job[b].due + IdleTime
        /\ session' # session => Alive
    <3> HIDE DEF ExtendRow, Expiry, Alive, SessionRow
    <3> QED BY <2>1, ExtendRowDoes
  <2>3. Alive
    BY <2>1, <2>2
  <2>4. CASE c = b
    <3>1. job'[c].due = job[b].due
      BY <2>4 DEF SessTypeOK
    <3> QED BY <2>2, <2>3, <3>1 DEF Outlives
  <2>5. CASE c # b
    <3>1. At(c, "upsert") /\ job'[c] = job[c]
      BY <2>5 DEF SessTypeOK
    <3>2. Outlives(job[c].due) /\ job[c].due \in Nat /\ session.expires \in Int
      BY <2>2, <2>3, <3>1 DEF ExtendedFor, Outlives, SessTypeOK
    <3>3. session'.expires \in Expiry /\ session'.expires \in Int /\ session'.expires >= job[c].due + IdleTime
      BY <2>2, <3>2 DEF Outlives
    <3> QED BY <3>1, <3>3 DEF Outlives
  <2> QED BY <2>4, <2>5
<1>6. NotFromBefore'
  BY DEF NotFromBefore, SessTypeOK
<1>7. ClosedIsOver'
  BY DEF ClosedIsOver, SessTypeOK, SigningIn
<1>8. Closing'
  BY DEF Closing, SessTypeOK
<1> QED BY <1>1, <1>2, <1>3, <1>4, <1>5, <1>6, <1>7, <1>8

LEMMA UpsertDueKeeps == ASSUME SessInv, NEW b \in Browser, UpsertDue(b) PROVE SessInv'
<1> USE SessBounds DEF SessInv, UpsertDue, At, Overtaken, Alive, Ends, Lapsed, SessionRow,
      Cookie, Job, Sid, Expiry, Due, Worker
<1>1. SessTypeOK'
  BY DEF SessTypeOK
<1>2. SidsSpent'
  BY DEF SidsSpent, SessTypeOK
<1>3. EndedStaysEnded'
  BY DEF EndedStaysEnded, SidsSpent, SessTypeOK
<1>4. KeptForSchedule'
  BY DEF KeptForSchedule, SessTypeOK, ExtendedFor, Outlives
<1>5. ExtendedFor'
  BY DEF ExtendedFor, SessTypeOK, Outlives
<1>6. NotFromBefore'
  BY DEF NotFromBefore, SessTypeOK
<1>7. ClosedIsOver'
  BY DEF ClosedIsOver, SessTypeOK, SigningIn
<1>8. Closing'
  BY DEF Closing, SessTypeOK
<1> QED BY <1>1, <1>2, <1>3, <1>4, <1>5, <1>6, <1>7, <1>8

LEMMA ClearRowsKeeps == ASSUME SessInv, NEW b \in Browser, ClearRows(b) PROVE SessInv'
<1> USE SessBounds DEF SessInv, ClearRows, At, ClearedRows, Alive, Lapsed, SessionRow,
      Cookie, Job, Sid, Expiry, Due, Worker
<1>1. SessTypeOK'
  <2>1. ASSUME NEW w \in Worker PROVE job'[w] \in Job \cup {NoJob}
    <3>1. job[w] \in Job \cup {NoJob}
      BY DEF SessTypeOK
    <3>2. job[w] \in Job => [job[w] EXCEPT !.at = "delete"] \in Job /\ [job[w] EXCEPT !.early = TRUE] \in Job
      OBVIOUS
    <3>3. job'[w] \in {NoJob, [job[w] EXCEPT !.at = "delete"], [job[w] EXCEPT !.early = TRUE]}
          /\ (job[w] = NoJob => job'[w] = NoJob)
      OBVIOUS
    <3> HIDE DEF Job
    <3> QED BY <3>1, <3>2, <3>3
  <2>2. job' \in [Worker -> Job \cup {NoJob}]
    BY <2>1
  <2>3. astray' \subseteq {"schedule", "close"}
    BY DEF SessTypeOK
  <2>4. stored' \in BOOLEAN
    OBVIOUS
  <2>5. due' \in Due
    OBVIOUS
  <2> HIDE DEF Job, SessionRow, Cookie, Due
  <2> QED BY <2>2, <2>3, <2>4, <2>5 DEF SessTypeOK
<1>2. SidsSpent'
  BY DEF SidsSpent, SessTypeOK
<1>3. EndedStaysEnded'
  BY DEF EndedStaysEnded, SidsSpent, SessTypeOK
<1>4. KeptForSchedule'
  BY DEF KeptForSchedule, SessTypeOK
<1>5. ExtendedFor'
  BY DEF ExtendedFor, SessTypeOK, Outlives
<1>6. NotFromBefore'
  BY DEF NotFromBefore, SessTypeOK
<1>7. ClosedIsOver'
  <2>1. ~stored' /\ due' = 0 /\ session' = session /\ closed' = closed
    OBVIOUS
  <2>2. \A w \in Worker : w # b /\ job'[w] # NoJob => job'[w].early
    BY DEF SessTypeOK
  <2>3. closed => job'[b].early
    BY DEF ClosedIsOver, SigningIn, SessTypeOK
  <2>4. closed => session = NoSession
    BY DEF ClosedIsOver
  <2>5. Cron \in Worker /\ Cron # b /\ \A c \in Browser : c \in Worker
    OBVIOUS
  <2> HIDE DEF SessInv, ClearRows, ClearedRows, Worker
  <2> QED BY <2>1, <2>2, <2>3, <2>4, <2>5 DEF ClosedIsOver
<1>8. Closing'
  BY DEF Closing, SessTypeOK
<1> QED BY <1>1, <1>2, <1>3, <1>4, <1>5, <1>6, <1>7, <1>8

LEMMA SlideKeeps == ASSUME SessInv, NEW w \in Worker, Slide(w) PROVE SessInv'
<1> USE SessBounds DEF SessInv, Slide, At, ExtendRow, Goes, Alive, Extended, LargerOf,
      Floor, Lapsed, SessionRow, Cookie, Job, Sid, Expiry, Due, Worker
<1>1. SessTypeOK'
  BY DEF SessTypeOK
<1>2. SidsSpent'
  BY DEF SidsSpent, SessTypeOK
<1>3. EndedStaysEnded'
  BY DEF EndedStaysEnded, SidsSpent, SessTypeOK
<1>4. KeptForSchedule'
  BY DEF KeptForSchedule, SessTypeOK
<1>5. ExtendedFor'
  <2>1. \A c \in Browser : At(c, "upsert")' => job'[c] = job[c]
    BY DEF SessTypeOK
  <2>2. CASE session # NoSession /\ session' # NoSession
    <3>1. now + IdleTime \in Expiry /\ ExtendRow(now + IdleTime) /\ now' = now
      BY FloorType
    <3>2. /\ session'.sid = session.sid
          /\ session.expires # Unset => session'.expires \in Expiry /\ session'.expires >= session.expires
          /\ session' # session => Alive
      <4> HIDE DEF ExtendRow, Expiry, Alive
      <4> QED BY <2>2, <3>1, ExtendRowDoes
    <3>3. Alive' => Alive
      BY <3>2
    <3> HIDE DEF At, Alive, SessInv
    <3> QED BY <2>1, <2>2, <3>1, <3>2, <3>3, StillExtended
  <2>3. CASE session = NoSession \/ session' = NoSession
    BY <2>3 DEF ExtendedFor
  <2> QED BY <2>2, <2>3
<1>6. NotFromBefore'
  BY DEF NotFromBefore, SessTypeOK
<1>7. ClosedIsOver'
  BY DEF ClosedIsOver, SessTypeOK, SigningIn
<1>8. Closing'
  BY DEF Closing, SessTypeOK
<1> QED BY <1>1, <1>2, <1>3, <1>4, <1>5, <1>6, <1>7, <1>8

LEMMA GetSessionKeeps == ASSUME SessInv, NEW w \in Worker, GetSession(w) PROVE SessInv'
<1> USE SessBounds DEF SessInv, GetSession, At, Ends, Lapsed, Goes, Alive, SessionRow,
      Cookie, Job, Sid, Expiry, Due, Worker
<1>1. SessTypeOK'
  BY DEF SessTypeOK
<1>2. SidsSpent'
  BY DEF SidsSpent, SessTypeOK
<1>3. EndedStaysEnded'
  BY DEF EndedStaysEnded, SidsSpent, SessTypeOK
<1>4. KeptForSchedule'
  BY DEF KeptForSchedule, SessTypeOK
<1>5. ExtendedFor'
  BY DEF ExtendedFor, SessTypeOK, Outlives
<1>6. NotFromBefore'
  BY DEF NotFromBefore, SessTypeOK
<1>7. ClosedIsOver'
  BY DEF ClosedIsOver, SessTypeOK, SigningIn
<1>8. Closing'
  BY DEF Closing, SessTypeOK
<1> QED BY <1>1, <1>2, <1>3, <1>4, <1>5, <1>6, <1>7, <1>8

LEMMA DropLapsedKeeps == ASSUME SessInv, NEW w \in Worker, DropLapsed(w) PROVE SessInv'
<1> USE SessBounds DEF SessInv, DropLapsed, At, RemoveSession, Ends, Alive, Lapsed, SessionRow,
      Cookie, Job, Sid, Expiry, Due, Worker
<1>1. SessTypeOK'
  BY DEF SessTypeOK
<1>2. SidsSpent'
  BY DEF SidsSpent, SessTypeOK
<1>3. EndedStaysEnded'
  BY DEF EndedStaysEnded, SidsSpent, SessTypeOK
<1>4. KeptForSchedule'
  BY DEF KeptForSchedule, SessTypeOK
<1>5. ExtendedFor'
  BY DEF ExtendedFor, SessTypeOK, Outlives
<1>6. NotFromBefore'
  BY DEF NotFromBefore, SessTypeOK
<1>7. ClosedIsOver'
  BY DEF ClosedIsOver, SessTypeOK, SigningIn
<1>8. Closing'
  BY DEF Closing, SessTypeOK
<1> QED BY <1>1, <1>2, <1>3, <1>4, <1>5, <1>6, <1>7, <1>8

LEMMA SetRefreshedKeeps == ASSUME SessInv, NEW w \in Worker, SetRefreshed(w) PROVE SessInv'
<1> USE SessBounds DEF SessInv, SetRefreshed, At, Refreshed, Goes, Alive, Extended, Floor,
      LargerOf, Lapsed, SessionRow, Cookie, Job, Sid, Expiry, Due, Worker
<1>1. SessTypeOK'
  BY DEF SessTypeOK
<1>2. SidsSpent'
  BY DEF SidsSpent, SessTypeOK
<1>3. EndedStaysEnded'
  BY DEF EndedStaysEnded, SidsSpent, SessTypeOK
<1>4. KeptForSchedule'
  BY DEF KeptForSchedule, SessTypeOK
<1>5. ExtendedFor'
  <2>1. \A c \in Browser : At(c, "upsert")' => job'[c] = job[c]
    BY DEF SessTypeOK
  <2>2. CASE Alive /\ session' # NoSession
    <3>1. session'.sid = session.sid /\ session # NoSession /\ now' = now
      BY <2>2 DEF SessTypeOK
    <3>2. session.expires # Unset => session'.expires \in Expiry /\ session'.expires >= session.expires
      BY <2>2, FloorType DEF SessTypeOK
    <3> HIDE DEF At, Alive, SessInv
    <3> QED BY <2>1, <2>2, <3>1, <3>2, StillExtended
  <2>3. CASE ~Alive \/ session' = NoSession
    BY <2>3 DEF ExtendedFor
  <2> QED BY <2>2, <2>3
<1>6. NotFromBefore'
  BY DEF NotFromBefore, SessTypeOK
<1>7. ClosedIsOver'
  BY DEF ClosedIsOver, SessTypeOK, SigningIn
<1>8. Closing'
  BY DEF Closing, SessTypeOK
<1> QED BY <1>1, <1>2, <1>3, <1>4, <1>5, <1>6, <1>7, <1>8

LEMMA WriteRowsKeeps == ASSUME SessInv, NEW w \in Worker, WriteRows(w) PROVE SessInv'
<1> USE SessBounds DEF SessInv, WriteRows, At, Overtaken, Ends, Alive, Lapsed, SessionRow,
      Cookie, Job, Sid, Expiry, Due, Worker
<1>1. SessTypeOK'
  BY DEF SessTypeOK
<1>2. SidsSpent'
  BY DEF SidsSpent, SessTypeOK
<1>3. EndedStaysEnded'
  BY DEF EndedStaysEnded, SidsSpent, SessTypeOK
<1>4. KeptForSchedule'
  BY DEF KeptForSchedule, SessTypeOK
<1>5. ExtendedFor'
  BY DEF ExtendedFor, SessTypeOK, Outlives
<1>6. NotFromBefore'
  BY DEF NotFromBefore, SessTypeOK
<1>7. ClosedIsOver'
  BY DEF ClosedIsOver, SessTypeOK, SigningIn
<1>8. Closing'
  BY DEF Closing, SessTypeOK
<1> QED BY <1>1, <1>2, <1>3, <1>4, <1>5, <1>6, <1>7, <1>8

LEMMA UnscheduleKeeps == ASSUME SessInv, Unschedule PROVE SessInv'
<1> USE SessBounds DEF SessInv, Unschedule, Accepted, Alive, Lapsed, At, SessionRow, Cookie,
      Job, Sid, Expiry, Due, Worker
<1>1. SessTypeOK'
  BY DEF SessTypeOK
<1>2. SidsSpent'
  BY DEF SidsSpent, SessTypeOK
<1>3. EndedStaysEnded'
  BY DEF EndedStaysEnded, SidsSpent, SessTypeOK
<1>4. KeptForSchedule'
  BY DEF KeptForSchedule, SessTypeOK
<1>5. ExtendedFor'
  BY DEF ExtendedFor, SessTypeOK, Outlives
<1>6. NotFromBefore'
  BY DEF NotFromBefore, SessTypeOK
<1>7. ClosedIsOver'
  BY DEF ClosedIsOver, SessTypeOK, SigningIn
<1>8. Closing'
  BY DEF Closing, SessTypeOK
<1> QED BY <1>1, <1>2, <1>3, <1>4, <1>5, <1>6, <1>7, <1>8

LEMMA CronPublishKeeps == ASSUME SessInv, CronPublish PROVE SessInv'
<1> USE SessBounds DEF SessInv, CronPublish, Begin, At, Alive, Lapsed, SessionRow, Cookie,
      Job, Sid, Expiry, Due, Worker
<1>1. SessTypeOK'
  BY DEF SessTypeOK
<1>2. SidsSpent'
  BY DEF SidsSpent, SessTypeOK
<1>3. EndedStaysEnded'
  BY DEF EndedStaysEnded, SidsSpent, SessTypeOK
<1>4. KeptForSchedule'
  BY DEF KeptForSchedule, SessTypeOK
<1>5. ExtendedFor'
  BY DEF ExtendedFor, SessTypeOK, Outlives
<1>6. NotFromBefore'
  BY DEF NotFromBefore, SessTypeOK
<1>7. ClosedIsOver'
  BY DEF ClosedIsOver, SessTypeOK, SigningIn
<1>8. Closing'
  BY DEF Closing, SessTypeOK
<1> QED BY <1>1, <1>2, <1>3, <1>4, <1>5, <1>6, <1>7, <1>8

LEMMA BackfillExpiryKeeps == ASSUME SessInv, BackfillExpiry PROVE SessInv'
<1> USE SessBounds DEF SessInv, BackfillExpiry, Extended, Floor, LargerOf, At, Alive,
      Lapsed, SessionRow, Cookie, Job, Sid, Expiry, Due, Worker
<1>1. SessTypeOK'
  BY DEF SessTypeOK
<1>2. SidsSpent'
  BY DEF SidsSpent, SessTypeOK
<1>3. EndedStaysEnded'
  BY DEF EndedStaysEnded, SidsSpent, SessTypeOK
<1>4. KeptForSchedule'
  BY DEF KeptForSchedule, SessTypeOK
<1>5. ExtendedFor'
  BY DEF ExtendedFor, SessTypeOK, Outlives
<1>6. NotFromBefore'
  BY DEF NotFromBefore, SessTypeOK
<1>7. ClosedIsOver'
  BY DEF ClosedIsOver, SessTypeOK, SigningIn
<1>8. Closing'
  BY DEF Closing, SessTypeOK
<1> QED BY <1>1, <1>2, <1>3, <1>4, <1>5, <1>6, <1>7, <1>8

LEMMA PurgeExpiredKeeps == ASSUME SessInv, PurgeExpired PROVE SessInv'
<1> USE SessBounds DEF SessInv, PurgeExpired, Lapsed, RemoveSession, At, Alive, SessionRow, Cookie,
      Job, Sid, Expiry, Due, Worker
<1>1. SessTypeOK'
  BY DEF SessTypeOK
<1>2. SidsSpent'
  BY DEF SidsSpent, SessTypeOK
<1>3. EndedStaysEnded'
  BY DEF EndedStaysEnded, SidsSpent, SessTypeOK
<1>4. KeptForSchedule'
  BY DEF KeptForSchedule, SessTypeOK
<1>5. ExtendedFor'
  BY DEF ExtendedFor, SessTypeOK, Outlives
<1>6. NotFromBefore'
  BY DEF NotFromBefore, SessTypeOK
<1>7. ClosedIsOver'
  BY DEF ClosedIsOver, SessTypeOK, SigningIn
<1>8. Closing'
  BY DEF Closing, SessTypeOK
<1> QED BY <1>1, <1>2, <1>3, <1>4, <1>5, <1>6, <1>7, <1>8

LEMMA ClockTicksKeeps == ASSUME SessInv, ClockTicks PROVE SessInv'
<1> USE SessBounds DEF SessInv, ClockTicks, At, Alive, Lapsed, SessionRow, Cookie, Job, Sid,
      Expiry, Due, Worker
<1>1. SessTypeOK'
  <2>1. now' \in 0..MaxTime
    BY DEF SessTypeOK
  <2>2. ended' \subseteq Sid
    BY DEF SessTypeOK
  <2> QED BY <2>1, <2>2 DEF SessTypeOK
<1>2. SidsSpent'
  BY DEF SidsSpent, SessTypeOK
<1>3. EndedStaysEnded'
  BY DEF EndedStaysEnded, SidsSpent, SessTypeOK
<1>4. KeptForSchedule'
  BY DEF KeptForSchedule, SessTypeOK
<1>5. ExtendedFor'
  BY DEF ExtendedFor, SessTypeOK, Outlives
<1>6. NotFromBefore'
  BY DEF NotFromBefore, SessTypeOK
<1>7. ClosedIsOver'
  BY DEF ClosedIsOver, SessTypeOK, SigningIn
<1>8. Closing'
  BY DEF Closing, SessTypeOK
<1> QED BY <1>1, <1>2, <1>3, <1>4, <1>5, <1>6, <1>7, <1>8

-----------------------------------------------------------------------------
LEMMA SessInitInv == SessInit => SessInv
<1> SUFFICES ASSUME SessInit PROVE SessInv
  OBVIOUS
<1>1. [sid |-> 0, expires |-> Unset] \in SessionRow /\ [sid |-> 0, until |-> IdleTime] \in Cookie
  BY SessBounds DEF SessionRow, Cookie, Sid, Expiry
<1>2. SessTypeOK
  <2>1. cookie \in [Browser -> Cookie \cup {NoCookie}]
    BY <1>1 DEF SessInit
  <2>2. 0 \in Sid /\ 0 \in Due /\ 0 \in 0..MaxTime /\ 0 \in 0..MaxJobs
    BY SessBounds DEF Sid, Due
  <2> QED BY <1>1, <2>1, <2>2 DEF SessInit, SessTypeOK
<1>3. SidsSpent /\ EndedStaysEnded
  BY DEF SessInit, SidsSpent, EndedStaysEnded
<1>4. KeptForSchedule /\ ExtendedFor /\ NotFromBefore /\ ClosedIsOver /\ Closing
  BY DEF SessInit, KeptForSchedule, ExtendedFor, NotFromBefore, ClosedIsOver, Closing, At, Worker
<1> QED BY <1>2, <1>3, <1>4 DEF SessInv

LEMMA SessNextInv == SessInv /\ [SessNext]_sessVars => SessInv'
<1> SUFFICES ASSUME SessInv, [SessNext]_sessVars PROVE SessInv'
  OBVIOUS
<1>1. ASSUME NEW b \in Browser,
             \/ StartRequest(b) \/ SignIn(b) \/ SetSignedIn(b) \/ SetCookie(b) \/ SignOut(b)
             \/ DeleteSession(b) \/ DeleteFails(b) \/ ExtendForSchedule(b) \/ UpsertDue(b) \/ ClearRows(b)
      PROVE  SessInv'
  BY <1>1, StartRequestKeeps, SignInKeeps, SetSignedInKeeps, SetCookieKeeps, SignOutKeeps,
     DeleteSessionKeeps, DeleteFailsKeeps, ExtendForScheduleKeeps, UpsertDueKeeps, ClearRowsKeeps
<1>2. ASSUME NEW w \in Worker,
             Slide(w) \/ GetSession(w) \/ DropLapsed(w) \/ SetRefreshed(w) \/ WriteRows(w)
      PROVE  SessInv'
  BY <1>2, SlideKeeps, GetSessionKeeps, DropLapsedKeeps, SetRefreshedKeeps, WriteRowsKeeps
<1>3. CASE Unschedule \/ CronPublish \/ BackfillExpiry \/ PurgeExpired \/ ClockTicks
  BY <1>3, UnscheduleKeeps, CronPublishKeeps, BackfillExpiryKeeps, PurgeExpiredKeeps, ClockTicksKeeps
<1>4. CASE UNCHANGED sessVars
  BY <1>4 DEF sessVars, SessInv, SessTypeOK, SidsSpent, EndedStaysEnded, KeptForSchedule, ExtendedFor,
              NotFromBefore, ClosedIsOver, Closing, SigningIn, At, Alive, Lapsed, Outlives
<1> QED BY <1>1, <1>2, <1>3, <1>4 DEF SessNext

(* The session, the cookies and every request keep their types.             *)
THEOREM SessTypeCorrect == SessSpec => []SessTypeOK
<1>1. SessInv => SessTypeOK
  BY DEF SessInv
<1> QED BY SessInitInv, SessNextInv, <1>1, PTL DEF SessSpec

(* No refresh that finishes late, slide, sign-in elsewhere or purge brings  *)
(* a session back that was signed out, lapsed or replaced.                  *)
THEOREM EndedStaysEndedHolds == SessSpec => []EndedStaysEnded
<1>1. SessInv => EndedStaysEnded
  BY DEF SessInv
<1> QED BY SessInitInv, SessNextInv, <1>1, PTL DEF SessSpec

(* The session a post was scheduled with outlives its due time, whatever    *)
(* refreshes, slides and schedules come between.                            *)
THEOREM KeptForScheduleHolds == SessSpec => []KeptForSchedule
<1>1. SessInv => KeptForSchedule
  BY DEF SessInv
<1> QED BY SessInitInv, SessNextInv, <1>1, PTL DEF SessSpec

(* Nothing of a deleted account comes back but what a request already under *)
(* way writes.                                                              *)
THEOREM ClosedIsEmptyHolds == SessSpec => []ClosedIsEmpty
<1>1. SessInv => ClosedIsEmpty
  BY DEF SessInv, ClosedIsOver, ClosedIsEmpty
<1> QED BY SessInitInv, SessNextInv, <1>1, PTL DEF SessSpec
-----------------------------------------------------------------------------
(* Imports.                                                                 *)

(* A request past its lookup has an item, and what it saw of it: no key     *)
(* then, and once it counts, the draft it saw is gone for good.             *)
RunKnows ==
  \A t \in Picker : run[t] # NoRun /\ run[t].at # "next" =>
    /\ run[t].item \in Item
    /\ run[t].seen # NoEntry =>
         /\ ledger[run[t].item] # NoEntry /\ run[t].seen.key = None
         /\ run[t].seen.draft # None =>
              /\ run[t].seen.draft \in spent
              /\ run[t].at # "live" => filed[run[t].seen.draft] = NoItem

(* A draft is one item's: in the ledger, where it is filed and in whatever  *)
(* publish has it.                                                          *)
Names(d, i) ==
  \/ ledger[i] # NoEntry /\ ledger[i].draft = d
  \/ filed[d] = i
  \/ \E p \in Press : press[p] # NoPress /\ press[p].draft = d /\ press[p].of = i

MintedOnce ==
  /\ \A d \in DraftRow, i \in Item : Names(d, i) => d \in spent
  /\ \A d \in DraftRow, i, j \in Item : Names(d, i) /\ Names(d, j) => i = j
  /\ \A k \in PostKey : posts[k] # NoItem => k \in spent
  /\ \A k \in erasing : k \in spent /\ posts[k] = NoItem

(* A publish of the item has written its post, and not yet cleaned up.      *)
Lands(p, i) == press[p] # NoPress /\ press[p].at \in {"note", "clean"} /\ press[p].of = i

(* The ledger names the item's draft; it has a key beside a filed draft     *)
(* only while a publish cleans up.                                          *)
DraftIsKnown(i) ==
  \A d \in DraftRow : filed[d] = i =>
    /\ ledger[i] # NoEntry /\ ledger[i].draft = d
    /\ ledger[i].key # None => \E p \in Press : Lands(p, i) /\ press[p].draft = d

PostIsKnown(i) ==
  \A k \in PostKey : posts[k] = i =>
    /\ ledger[i] # NoEntry
    /\ \/ ledger[i].key = k
       \/ \E p \in Press : Lands(p, i) /\ press[p].at = "note" /\ press[p].key = k

(* One publish of an item at a time has landed: its draft is filed still,   *)
(* its post is up, and the ledger has the key from the note on.             *)
LandingIsKnown(i) ==
  \A p \in Press : Lands(p, i) =>
    /\ filed[press[p].draft] = i
    /\ press[p].key \in PostKey /\ posts[press[p].key] = i
    /\ ledger[i].key = (IF press[p].at = "note" THEN None ELSE press[p].key)
    /\ \A q \in Press : Lands(q, i) => q = p

KeyIsKnown(i) ==
  ledger[i] # NoEntry /\ ledger[i].key # None => ledger[i].key \in erasing \/ posts[ledger[i].key] = i

ItemIsKnown(i) == DraftIsKnown(i) /\ PostIsKnown(i) /\ LandingIsKnown(i) /\ KeyIsKnown(i)

ImpInv ==
  /\ ImpTypeOK /\ RunKnows /\ MintedOnce
  /\ \A i \in Item \ raced : ItemIsKnown(i)

(* What the invariant says of an item is what the two properties promise.   *)
LEMMA ImpInvSays == ImpInv => ImportedOnce /\ LedgerIsTrue
<1> SUFFICES ASSUME ImpInv PROVE ImportedOnce /\ LedgerIsTrue
  OBVIOUS
<1>1. ImportedOnce
  <2> SUFFICES ASSUME NEW i \in Item \ raced
               PROVE  Cardinality(DraftsOf(i)) + Cardinality(PostsOf(i)) <= 1
    BY DEF ImportedOnce
  <2> USE DEF ImpInv, ItemIsKnown, ImpTypeOK
  <2>1. ASSUME NEW d \in DraftsOf(i) PROVE DraftsOf(i) = {d} /\ PostsOf(i) = {}
    <3>1. d \in DraftRow /\ filed[d] = i /\ ~Going(d)
      BY <2>1 DEF DraftsOf, Filed
    <3>2. ledger[i] # NoEntry /\ ledger[i].draft = d /\ ledger[i].key = None
      BY <3>1 DEF DraftIsKnown, Going, Lands
    <3>3. ASSUME NEW e \in DraftsOf(i) PROVE e = d
      BY <3>2 DEF DraftsOf, Filed, DraftIsKnown
    <3>4. ASSUME NEW k \in PostsOf(i) PROVE FALSE
      <4>1. k \in PostKey /\ posts[k] = i /\ k # None
        BY ImportsNullsAssumption DEF PostsOf
      <4>2. PICK p \in Press : Lands(p, i)
        BY <4>1, <3>2 DEF PostIsKnown
      <4>3. ledger[i].draft = press[p].draft /\ press[p].draft \in DraftRow
        BY <4>2 DEF LandingIsKnown, DraftIsKnown, Lands, Publish
      <4> QED BY <4>2, <4>3, <3>1, <3>2 DEF Going, Lands
    <3> QED BY <3>3, <3>4, <2>1
  <2>2. ASSUME NEW k \in PostsOf(i), NEW l \in PostsOf(i) PROVE k = l
    <3>1. {k, l} \subseteq PostKey /\ posts[k] = i /\ posts[l] = i /\ None \notin {k, l}
      BY ImportsNullsAssumption DEF PostsOf
    <3> QED BY <3>1 DEF PostIsKnown, LandingIsKnown
  <2>3. CASE DraftsOf(i) = {} /\ PostsOf(i) = {}
    BY <2>3, FS_EmptySet
  <2>4. ASSUME NEW d \in DraftsOf(i)
        PROVE  Cardinality(DraftsOf(i)) + Cardinality(PostsOf(i)) <= 1
    <3>1. DraftsOf(i) = {d} /\ PostsOf(i) = {}
      BY <2>1, <2>4
    <3>2. Cardinality({d}) = 1 /\ Cardinality({}) = 0
      BY FS_EmptySet, FS_Singleton
    <3> QED BY <3>1, <3>2
  <2>5. ASSUME DraftsOf(i) = {}, NEW k \in PostsOf(i)
        PROVE  Cardinality(DraftsOf(i)) + Cardinality(PostsOf(i)) <= 1
    <3>1. PostsOf(i) = {k}
      BY <2>2, <2>5
    <3>2. Cardinality({k}) = 1 /\ Cardinality({}) = 0
      BY FS_EmptySet, FS_Singleton
    <3> QED BY <3>1, <3>2, <2>5
  <2> QED BY <2>3, <2>4, <2>5
<1>2. LedgerIsTrue
  BY ImportsNullsAssumption
  DEF ImpInv, ItemIsKnown, ImpTypeOK, Entry, LedgerIsTrue, PostsOf, PostIsKnown, KeyIsKnown, Lands
<1> QED BY <1>1, <1>2

LEMMA ImpInitInv == ImpInit => ImpInv
BY ImportsNullsAssumption, ImportsAssumption
DEF ImpInit, ImpInv, ImpTypeOK, RunKnows, MintedOnce, Names, ItemIsKnown, DraftIsKnown, PostIsKnown,
    LandingIsKnown, KeyIsKnown, Lands

(* A step of a picker alone disturbs nothing else.                          *)
LEMMA PickerAlone ==
  ASSUME ImpInv, UNCHANGED <<ledger, filed, posts, spent, press, erasing, raced>>
  PROVE  MintedOnce' /\ \A i \in Item \ raced' : ItemIsKnown(i)'
BY DEF ImpInv, MintedOnce, Names, ItemIsKnown, DraftIsKnown, PostIsKnown, LandingIsKnown, KeyIsKnown, Lands

(* A run that goes on, or ends, has nothing in hand.                        *)
LEMMA NextItemDoes ==
  ASSUME ImpTypeOK, NEW t \in Picker, run[t] # NoRun, NextItem(t)
  PROVE  /\ run' \in [Picker -> Run \cup {NoRun}]
         /\ run'[t] # NoRun => run'[t].at = "next"
         /\ \A o \in Picker : o # t => run'[o] = run[o]
<1>1. run[t] \in Run
  BY DEF ImpTypeOK
<1>2. [run[t] EXCEPT !.at = "next", !.item = NoItem, !.seen = NoEntry] \in Run
  BY <1>1 DEF Run
<1> QED BY <1>1, <1>2 DEF ImpTypeOK, NextItem, Run

LEMMA PickKeeps == ASSUME ImpInv, NEW t \in Picker, Pick(t) PROVE ImpInv'
<1>1. PICK todo \in (SUBSET Item) \ {{}} :
        run' = [run EXCEPT ![t] = [at |-> "next", item |-> NoItem, todo |-> todo, seen |-> NoEntry]]
  BY DEF Pick
<1>2. ImpTypeOK'
  BY <1>1 DEF ImpInv, ImpTypeOK, Pick, Run
<1>3. RunKnows'
  BY <1>1 DEF ImpInv, ImpTypeOK, RunKnows, Pick
<1> QED BY <1>2, <1>3, PickerAlone DEF ImpInv, Pick

LEMMA LookUpItemKeeps == ASSUME ImpInv, NEW t \in Picker, LookUpItem(t) PROVE ImpInv'
<1> USE DEF ImpInv
<1>1. run[t] \in Run /\ run[t] # NoRun
  BY DEF ImpTypeOK, LookUpItem
<1>2. PICK i \in run[t].todo :
        LET entry == ledger[i]
            begun == [run[t] EXCEPT !.item = i, !.todo = @ \ {i}, !.seen = entry]
        IN  run' = [run EXCEPT ![t] =
              CASE entry = NoEntry -> [begun EXCEPT !.at = "count"]
                [] entry # NoEntry /\ entry.key # None ->
                     IF begun.todo = {} THEN NoRun ELSE [begun EXCEPT !.at = "next"]
                [] OTHER -> [begun EXCEPT !.at = IF entry.draft = None THEN "count" ELSE "live"]]
  BY DEF LookUpItem
<1>3. i \in Item /\ ledger[i] \in Entry \cup {NoEntry} /\ run[t].todo \ {i} \in SUBSET Item
  BY <1>1 DEF ImpTypeOK, Run
<1>4. PICK begun : begun = [run[t] EXCEPT !.item = i, !.todo = @ \ {i}, !.seen = ledger[i]]
  OBVIOUS
<1>5. begun \in Run /\ begun.item = i /\ begun.seen = ledger[i]
  BY <1>1, <1>3, <1>4 DEF Run
<1>6. ASSUME NEW at \in {"next", "live", "count", "batch"}
      PROVE  /\ [begun EXCEPT !.at = at] \in Run
             /\ [begun EXCEPT !.at = at].at = at
             /\ [begun EXCEPT !.at = at].item = i /\ [begun EXCEPT !.at = at].seen = ledger[i]
  BY <1>5 DEF Run
<1>7. /\ run' \in [Picker -> Run \cup {NoRun}]
      /\ \A o \in Picker : o # t => run'[o] = run[o]
      /\ run'[t] # NoRun /\ run'[t].at # "next" =>
           /\ run'[t].item = i /\ run'[t].seen = ledger[i]
           /\ ledger[i] # NoEntry => ledger[i].key = None
           /\ ledger[i] # NoEntry /\ ledger[i].draft # None => run'[t].at = "live"
  <2>1. CASE ledger[i] = NoEntry
    BY <1>2, <1>4, <1>6, <2>1 DEF ImpTypeOK
  <2>2. CASE ledger[i] # NoEntry /\ ledger[i].key # None
    BY <1>2, <1>4, <1>6, <2>2 DEF ImpTypeOK
  <2>3. CASE ledger[i] # NoEntry /\ ledger[i].key = None
    BY <1>2, <1>4, <1>6, <2>3 DEF ImpTypeOK
  <2> QED BY <2>1, <2>2, <2>3
<1>8. ImpTypeOK'
  BY <1>7 DEF ImpTypeOK, LookUpItem
<1>9. ledger[i] # NoEntry /\ ledger[i].draft # None => ledger[i].draft \in spent
  BY <1>3 DEF MintedOnce, Names, Entry
<1>10. RunKnows'
  BY <1>3, <1>7, <1>9 DEF RunKnows, LookUpItem
<1> QED BY <1>8, <1>10, PickerAlone DEF LookUpItem

LEMMA CheckLiveKeeps == ASSUME ImpInv, NEW t \in Picker, CheckLive(t) PROVE ImpInv'
<1> USE DEF ImpInv
<1>1. run[t] \in Run /\ run[t] # NoRun
  BY DEF ImpTypeOK, CheckLive
<1>2. CASE Discarded(run[t].seen.draft)
  <2>1. run' = [run EXCEPT ![t].at = "count"]
    BY <1>2 DEF CheckLive
  <2>2. ImpTypeOK'
    BY <1>1, <2>1 DEF ImpTypeOK, CheckLive, Run
  <2>3. run[t].seen # NoEntry /\ run[t].seen.draft # None => filed[run[t].seen.draft] = NoItem
    BY <1>1, <1>2 DEF Discarded, Filed, Run, Entry
  <2>4. RunKnows'
    BY <1>1, <2>1, <2>3 DEF RunKnows, CheckLive, ImpTypeOK, Run
  <2> QED BY <2>2, <2>4, PickerAlone DEF CheckLive
<1>3. CASE NextItem(t)
  BY <1>1, <1>3, NextItemDoes, PickerAlone DEF CheckLive, ImpTypeOK, RunKnows
<1> QED BY <1>2, <1>3 DEF CheckLive

LEMMA CountFiledKeeps == ASSUME ImpInv, NEW t \in Picker, CountFiled(t) PROVE ImpInv'
<1> USE DEF ImpInv
<1>1. run[t] \in Run /\ run[t] # NoRun
  BY DEF ImpTypeOK, CountFiled
<1>2. run' = [run EXCEPT ![t].at = "batch"] \/ run' = [run EXCEPT ![t] = NoRun]
  BY DEF CountFiled
<1>3. ImpTypeOK'
  BY <1>1, <1>2 DEF ImpTypeOK, CountFiled, Run
<1>4. RunKnows'
  BY <1>1, <1>2 DEF RunKnows, CountFiled, ImpTypeOK, Run
<1> QED BY <1>3, <1>4, PickerAlone DEF CountFiled

LEMMA AbortKeeps == ASSUME ImpInv, NEW t \in Picker, Abort(t) PROVE ImpInv'
<1> USE DEF ImpInv
<1>1. run[t] \in Run /\ run[t] # NoRun
  BY DEF ImpTypeOK, Abort
<1>2. ImpTypeOK'
  BY <1>1 DEF ImpTypeOK, Abort, Run
<1>3. RunKnows'
  BY <1>1 DEF RunKnows, Abort, ImpTypeOK, Run
<1> QED BY <1>2, <1>3, PickerAlone DEF Abort

(* A draft id not used yet is nobody's.                                     *)
LEMMA UnspentIsFresh ==
  ASSUME ImpTypeOK, MintedOnce, NEW d \in DraftRow \ spent
  PROVE  /\ filed[d] = NoItem
         /\ \A j \in Item : ledger[j] # NoEntry => ledger[j].draft # d
         /\ \A p \in Press : press[p] # NoPress => press[p].draft # d
BY DEF ImpTypeOK, MintedOnce, Names, Publish

(* Filing leaves other items as they were, and their publishes.             *)
LEMMA OthersFiled ==
  ASSUME ImpInv, NEW i \in Item, NEW d \in DraftRow, filed[d] = NoItem,
         ledger' \in [Item -> Entry \cup {NoEntry}], \A j \in Item \ {i} : ledger'[j] = ledger[j],
         filed' = [filed EXCEPT ![d] = i],
         raced \subseteq raced', UNCHANGED <<posts, press, erasing>>
  PROVE  \A j \in Item \ raced' : j # i => ItemIsKnown(j)'
<1> SUFFICES ASSUME NEW j \in Item \ raced', j # i PROVE ItemIsKnown(j)'
  OBVIOUS
<1>1. ItemIsKnown(j) /\ ledger'[j] = ledger[j] /\ j # NoItem
  BY ImportsNullsAssumption DEF ImpInv
<1>2. \A e \in DraftRow : filed[e] = j <=> filed'[e] = j
  BY <1>1 DEF ImpInv, ImpTypeOK
<1>3. \A p \in Press : Lands(p, j) => press[p].draft \in DraftRow
  BY DEF ImpInv, ImpTypeOK, Lands, Publish
<1>4. DraftIsKnown(j)' /\ PostIsKnown(j)' /\ KeyIsKnown(j)'
  BY <1>1, <1>2 DEF ItemIsKnown, DraftIsKnown, PostIsKnown, KeyIsKnown, Lands
<1>5. LandingIsKnown(j)'
  BY <1>1, <1>2, <1>3 DEF ItemIsKnown, LandingIsKnown, Lands
<1> QED BY <1>4, <1>5 DEF ItemIsKnown

(* An item whose ledger row has no key and whose draft, if any, is gone is  *)
(* nowhere.                                                                 *)
LEMMA Nowhere ==
  ASSUME ImpInv, NEW i \in Item \ raced,
         ledger[i] # NoEntry => ledger[i].key = None /\ (ledger[i].draft # None => filed[ledger[i].draft] = NoItem)
  PROVE  /\ \A d \in DraftRow : filed[d] # i
         /\ \A k \in PostKey : posts[k] # i
         /\ \A p \in Press : ~Lands(p, i)
<1> USE ImportsNullsAssumption DEF ImpInv, ItemIsKnown
<1>1. \A d \in DraftRow : filed[d] # i
  BY DEF DraftIsKnown
<1>2. \A p \in Press : ~Lands(p, i)
  BY <1>1 DEF LandingIsKnown, Lands, ImpTypeOK, Publish
<1>3. \A k \in PostKey : posts[k] # i
  BY <1>2 DEF PostIsKnown
<1> QED BY <1>1, <1>2, <1>3

LEMMA FileItemKeeps == ASSUME ImpInv, NEW t \in Picker, FileItem(t) PROVE ImpInv'
<1> USE DEF ImpInv
<1>1. run[t] \in Run /\ run[t] # NoRun /\ run[t].at = "batch"
  BY DEF ImpTypeOK, FileItem
<1>2. PICK i \in Item : i = run[t].item
  BY <1>1 DEF RunKnows
<1>3. PICK seen \in Entry \cup {NoEntry} : seen = run[t].seen
  BY <1>1 DEF Run
<1>4. /\ run' \in [Picker -> Run \cup {NoRun}]
      /\ run'[t] # NoRun => run'[t].at = "next"
      /\ \A o \in Picker : o # t => run'[o] = run[o]
      /\ UNCHANGED <<posts, press, erasing>>
  BY <1>1, NextItemDoes DEF FileItem
<1>5. CASE UNCHANGED <<ledger, filed, spent, raced>> /\ mishaps' \in 0..MaxMishaps
  BY <1>4, <1>5, PickerAlone DEF ImpTypeOK, RunKnows
<1>6. ASSUME NEW d \in DraftRow \ spent, File(i, d, seen),
             filed' = [filed EXCEPT ![d] = i], spent' = spent \cup {d}, UNCHANGED mishaps
      PROVE  ImpInv'
  <2>1. /\ filed[d] = NoItem /\ d # None
        /\ \A j \in Item : ledger[j] # NoEntry => ledger[j].draft # d
        /\ \A p \in Press : press[p] # NoPress => press[p].draft # d
    BY UnspentIsFresh, ImportsNullsAssumption
  <2>2. seen # NoEntry => ledger[i] # NoEntry /\ seen.key = None /\ (seen.draft # None => filed[seen.draft] = NoItem)
    BY <1>1, <1>2, <1>3 DEF RunKnows
  <2>3. /\ ledger' \in [Item -> Entry \cup {NoEntry}]
        /\ ledger'[i] # NoEntry
        /\ ledger'[i].draft = d \/ (ledger[i] # NoEntry /\ ledger'[i].draft = ledger[i].draft)
        /\ ledger[i] = seen => ledger'[i].draft = d /\ ledger'[i].key = None
        /\ \A j \in Item \ {i} : ledger'[j] = ledger[j]
        /\ raced \subseteq raced' /\ raced' \subseteq Item
        /\ i \notin raced' => ledger[i] = seen
    <3>1. CASE seen = NoEntry
      <4>1. PICK e : e = [draft |-> d, key |-> None, adopted |-> FALSE]
        OBVIOUS
      <4>2. e \in Entry
        BY <4>1 DEF Entry
      <4>4. e # NoEntry /\ e.draft = d /\ e.key = None
        BY <4>1, <4>2, ImportsNullsAssumption
      <4>3. ledger' = [ledger EXCEPT ![i] = e] /\ ledger[i] = NoEntry /\ raced' = raced
        BY <1>6, <3>1, <4>1 DEF File, TakesRow
      <4> QED BY <3>1, <4>2, <4>3, <4>4 DEF ImpTypeOK
    <3>2. CASE seen # NoEntry
      <4>1. ledger[i] \in Entry
        BY <2>2, <3>2 DEF ImpTypeOK
      <4>2. ledger' = [ledger EXCEPT ![i].draft = IF ledger[i].key = None THEN d ELSE @]
        BY <1>6, <3>2 DEF File
      <4>3. PICK e : e = [ledger[i] EXCEPT !.draft = IF ledger[i].key = None THEN d ELSE @]
        OBVIOUS
      <4>4. e \in Entry /\ e.key = ledger[i].key /\ e.draft = IF ledger[i].key = None THEN d ELSE ledger[i].draft
        BY <4>1, <4>3 DEF Entry
      <4>5. ledger' = [ledger EXCEPT ![i] = e]
        BY <4>2, <4>3 DEF ImpTypeOK
      <4> QED BY <1>6, <2>2, <3>2, <4>4, <4>5, ImportsNullsAssumption DEF File, Races, ImpTypeOK
    <3> QED BY <3>1, <3>2
  <2>4. ImpTypeOK'
    BY <1>4, <1>6, <2>3 DEF ImpTypeOK
  <2>5. RunKnows'
    BY <1>4, <1>6, <2>1, <2>3 DEF RunKnows, ImpTypeOK
  <2>6. MintedOnce'
    <3>1. \A e \in DraftRow, j \in Item : Names(e, j)' => Names(e, j) \/ (e = d /\ j = i)
      BY <1>4, <1>6, <2>3, ImportsNullsAssumption DEF Names, ImpTypeOK
    <3>2. \A j \in Item : ~Names(d, j)
      BY <1>6 DEF MintedOnce
    <3> QED BY <1>4, <1>6, <3>1, <3>2 DEF MintedOnce
  <2>7. ASSUME NEW j \in Item \ raced' PROVE ItemIsKnown(j)'
    <3>1. CASE j # i
      <4>1. \A l \in Item \ raced' : l # i => ItemIsKnown(l)'
        BY <1>4, <1>6, <2>1, <2>3, OthersFiled
      <4> QED BY <2>7, <3>1, <4>1
    <3>2. CASE j = i
      <4>1. ledger[i] = seen /\ i \notin raced
        BY <2>3, <2>7, <3>2
      <4>2. /\ \A e \in DraftRow : filed[e] # i
            /\ \A k \in PostKey : posts[k] # i
            /\ \A p \in Press : ~Lands(p, i)
        BY <2>2, <4>1, Nowhere
      <4>3. ItemIsKnown(i)'
        BY <1>4, <1>6, <2>3, <4>1, <4>2
        DEF ItemIsKnown, DraftIsKnown, PostIsKnown, LandingIsKnown, KeyIsKnown, Lands, ImpTypeOK
      <4> QED BY <3>2, <4>3
    <3> QED BY <3>1, <3>2
  <2> QED BY <2>4, <2>5, <2>6, <2>7
<1>7. Mishap => mishaps' \in 0..MaxMishaps
  BY ImportsAssumption DEF Mishap, ImpTypeOK
<1> QED BY <1>2, <1>3, <1>5, <1>6, <1>7 DEF FileItem, ImpTypeOK

(* A publish begun, or with the ledger read, has not landed.                *)
LEMMA PressAlone ==
  ASSUME ImpInv, NEW p \in Press, press' \in [Press -> Publish \cup {NoPress}],
         \A q \in Press \ {p} : press'[q] = press[q],
         press'[p] # NoPress => /\ press'[p].at \in {"row", "write"}
                                /\ Names(press'[p].draft, press'[p].of),
         press[p] # NoPress => press[p].at \in {"row", "write"},
         UNCHANGED <<ledger, filed, posts, spent, run, erasing>>, raced \subseteq raced'
  PROVE  RunKnows' /\ MintedOnce' /\ \A i \in Item \ raced' : ItemIsKnown(i)'
<1> USE DEF ImpInv
<1>1. RunKnows'
  BY DEF RunKnows
<1>2. \A d \in DraftRow, i \in Item : Names(d, i)' => Names(d, i)
  BY DEF Names
<1>3. MintedOnce'
  BY <1>2 DEF MintedOnce
<1>4. \A q \in Press, i \in Item : Lands(q, i)' <=> Lands(q, i)
  BY DEF Lands
<1>5. \A q \in Press, i \in Item : Lands(q, i) => press'[q] = press[q]
  BY DEF Lands
<1>6. ASSUME NEW i \in Item \ raced' PROVE ItemIsKnown(i)'
  <2>1. ItemIsKnown(i)
    OBVIOUS
  <2>2. DraftIsKnown(i)' /\ PostIsKnown(i)' /\ KeyIsKnown(i)'
    BY <2>1, <1>4, <1>5 DEF ItemIsKnown, DraftIsKnown, PostIsKnown, KeyIsKnown
  <2>3. LandingIsKnown(i)'
    BY <2>1, <1>4, <1>5 DEF ItemIsKnown, LandingIsKnown
  <2> QED BY <2>2, <2>3 DEF ItemIsKnown
<1> QED BY <1>1, <1>3, <1>6

LEMMA PressPublishKeeps == ASSUME ImpInv, NEW p \in Press, PressPublish(p) PROVE ImpInv'
<1> USE DEF ImpInv
<1>1. PICK d \in Filed, at \in {"row", "write"} :
        press' = [press EXCEPT ![p] = [at |-> at, draft |-> d, of |-> filed[d], known |-> TRUE, key |-> None]]
  BY DEF PressPublish
<1>2. d \in DraftRow /\ filed[d] \in Item
  BY DEF Filed, ImpTypeOK
<1>3. [at |-> at, draft |-> d, of |-> filed[d], known |-> TRUE, key |-> None] \in Publish
  BY <1>2 DEF Publish
<1>4. press' \in [Press -> Publish \cup {NoPress}] /\ press'[p].at \in {"row", "write"}
  BY <1>1, <1>3 DEF ImpTypeOK
<1>5. Names(press'[p].draft, press'[p].of)
  BY <1>1, <1>2 DEF Names, ImpTypeOK
<1>6. ImpTypeOK'
  BY <1>4 DEF ImpTypeOK, PressPublish
<1>7. \A q \in Press \ {p} : press'[q] = press[q]
  BY <1>1 DEF ImpTypeOK
<1> QED BY <1>4, <1>5, <1>6, <1>7, PressAlone DEF PressPublish

LEMMA ReadLedgerKeeps == ASSUME ImpInv, NEW p \in Press, ReadLedger(p) PROVE ImpInv'
<1> USE DEF ImpInv
<1>1. press[p] \in Publish /\ press[p] # NoPress /\ press[p].at = "row"
  BY DEF ReadLedger, ImpTypeOK
<1>2. PICK known \in BOOLEAN : press' = [press EXCEPT ![p].at = "write", ![p].known = known]
  BY DEF ReadLedger
<1>3. PICK w : w = [press[p] EXCEPT !.at = "write", !.known = known]
  OBVIOUS
<1>4. w \in Publish /\ w.at = "write" /\ w.draft = press[p].draft /\ w.of = press[p].of
  BY <1>1, <1>3 DEF Publish
<1>5. press' = [press EXCEPT ![p] = w]
  BY <1>2, <1>3 DEF ImpTypeOK
<1>6. Names(press[p].draft, press[p].of)
  BY <1>1 DEF Names
<1>7. ImpTypeOK'
  BY <1>4, <1>5, ImportsAssumption DEF ImpTypeOK, ReadLedger, Mishap
<1> QED BY <1>1, <1>4, <1>5, <1>6, <1>7, PressAlone DEF ReadLedger, ImpTypeOK

LEMMA WritePostKeeps == ASSUME ImpInv, NEW p \in Press, WritePost(p) PROVE ImpInv'
<1> USE DEF ImpInv
<1>1. press[p] \in Publish /\ press[p] # NoPress /\ press[p].at = "write"
  BY DEF WritePost, ImpTypeOK
<1>2. PICK i \in Item : i = press[p].of
  BY <1>1 DEF Publish
<1>3. CASE press' = [press EXCEPT ![p] = NoPress] /\ Mishap /\ UNCHANGED <<posts, spent, raced>>
  <2>1. UNCHANGED <<ledger, filed, run, erasing>>
    BY DEF WritePost
  <2>2. mishaps' \in 0..MaxMishaps /\ press' \in [Press -> Publish \cup {NoPress}]
    BY <1>3, ImportsAssumption DEF ImpTypeOK, Mishap
  <2>3. ImpTypeOK'
    BY <1>3, <2>1, <2>2 DEF ImpTypeOK
  <2> QED BY <1>1, <1>3, <2>1, <2>2, <2>3, PressAlone DEF ImpTypeOK
<1>4. ASSUME NEW k \in PostKey \ spent, posts' = [posts EXCEPT ![k] = i], spent' = spent \cup {k},
             press' = [press EXCEPT ![p].at = IF press[p].known THEN "note" ELSE "clean", ![p].key = k],
             IF Contested(p) \/ ~press[p].known THEN Races(i) ELSE UNCHANGED raced, UNCHANGED mishaps
      PROVE  ImpInv'
  <2>1. PICK at \in {"note", "clean"} : at = IF press[p].known THEN "note" ELSE "clean"
    OBVIOUS
  <2>2. PICK w : w = [press[p] EXCEPT !.at = at, !.key = k]
    OBVIOUS
  <2>3. w \in Publish /\ w.at = at /\ w.key = k /\ w.draft = press[p].draft /\ w.of = i
    BY <1>1, <1>2, <2>2 DEF Publish
  <2>4. press' = [press EXCEPT ![p] = w]
    BY <1>4, <2>1, <2>2 DEF ImpTypeOK
  <2>5. UNCHANGED <<ledger, filed, run, erasing>>
    BY DEF WritePost
  <2>6. posts[k] = NoItem /\ k \notin erasing
    BY DEF MintedOnce
  <2>7. raced \subseteq raced' /\ raced' \subseteq Item
    BY <1>4 DEF Races, ImpTypeOK
  <2>8. ImpTypeOK'
    BY <1>4, <2>3, <2>4, <2>5, <2>7 DEF ImpTypeOK
  <2>9. RunKnows'
    BY <1>4, <2>5 DEF RunKnows
  <2>10. MintedOnce'
    <3>1. \A d \in DraftRow, j \in Item : Names(d, j)' => Names(d, j)
      BY <1>1, <1>2, <2>3, <2>4, <2>5 DEF Names, ImpTypeOK
    <3> QED BY <1>4, <2>5, <2>6, <3>1 DEF MintedOnce, ImpTypeOK
  <2>11. ASSUME NEW j \in Item \ raced', j # i PROVE ItemIsKnown(j)'
    <3>1. ItemIsKnown(j)
      BY <2>7, <2>11
    <3>2. \A q \in Press : Lands(q, j)' <=> Lands(q, j)
      BY <1>1, <1>2, <2>3, <2>4, <2>11 DEF Lands, ImpTypeOK
    <3>3. \A q \in Press : Lands(q, j) => press'[q] = press[q]
      BY <1>1, <2>4 DEF Lands, ImpTypeOK
    <3>4. \A l \in PostKey : posts'[l] = j <=> posts[l] = j
      BY <1>4, <2>6, <2>11, ImportsNullsAssumption DEF ImpTypeOK
    <3>5. DraftIsKnown(j)' /\ PostIsKnown(j)'
      BY <2>5, <3>1, <3>2, <3>3, <3>4 DEF ItemIsKnown, DraftIsKnown, PostIsKnown
    <3>6. KeyIsKnown(j)'
      BY <2>5, <3>1, <3>4, ImportsNullsAssumption DEF ItemIsKnown, KeyIsKnown, ImpTypeOK, Entry
    <3>7. LandingIsKnown(j)'
      BY <2>5, <3>1, <3>2, <3>3, <3>4 DEF ItemIsKnown, LandingIsKnown
    <3> QED BY <3>5, <3>6, <3>7 DEF ItemIsKnown
  <2>12. ASSUME i \notin raced' PROVE ItemIsKnown(i)'
    <3>1. ~Contested(p) /\ press[p].known /\ i \notin raced /\ at = "note"
      BY <1>4, <2>1, <2>7, <2>12 DEF Races
    <3>2. press[p].draft \in DraftRow /\ filed[press[p].draft] = i
      <4>1. press[p].draft \in DraftRow /\ filed[press[p].draft] \in Item
        BY <1>1, <3>1 DEF Contested, ImpTypeOK, Publish
      <4> QED BY <1>1, <1>2, <4>1 DEF MintedOnce, Names
    <3>3. ItemIsKnown(i)
      BY <3>1
    <3>4. ledger[i] # NoEntry /\ ledger[i].draft = press[p].draft
      BY <3>2, <3>3 DEF ItemIsKnown, DraftIsKnown
    <3>5. \A q \in Press : ~Lands(q, i)
      <4> SUFFICES ASSUME NEW q \in Press, Lands(q, i) PROVE FALSE
        OBVIOUS
      <4>1. press[q].draft \in DraftRow /\ filed[press[q].draft] = i /\ q # p
        BY <1>1, <3>3 DEF ItemIsKnown, LandingIsKnown, Lands, ImpTypeOK, Publish
      <4>2. press[q].draft = press[p].draft
        BY <3>3, <3>4, <4>1 DEF ItemIsKnown, DraftIsKnown
      <4> QED BY <3>1, <4>1, <4>2 DEF Contested, Lands
    <3>6. ledger[i].key = None
      BY <3>2, <3>3, <3>5 DEF ItemIsKnown, DraftIsKnown
    <3>7. \A l \in PostKey : posts[l] # i
      BY <3>3, <3>5, <3>6, ImportsNullsAssumption DEF ItemIsKnown, PostIsKnown
    <3>8. \A q \in Press : Lands(q, i)' <=> q = p
      BY <2>3, <2>4, <3>5, <1>1, ImportsNullsAssumption DEF Lands, ImpTypeOK
    <3>9. press'[p] = w
      BY <2>4 DEF ImpTypeOK
    <3>10. posts'[k] = i /\ \A l \in PostKey : posts'[l] = i => l = k
      BY <1>4, <3>7 DEF ImpTypeOK
    <3>11. DraftIsKnown(i)' /\ KeyIsKnown(i)'
      BY <2>5, <3>3, <3>6 DEF ItemIsKnown, DraftIsKnown, KeyIsKnown
    <3>12. PostIsKnown(i)'
      BY <2>3, <2>5, <3>1, <3>4, <3>8, <3>9, <3>10 DEF PostIsKnown
    <3>13. LandingIsKnown(i)'
      BY <2>3, <2>5, <3>1, <3>2, <3>6, <3>8, <3>9, <3>10 DEF LandingIsKnown
    <3> QED BY <3>11, <3>12, <3>13 DEF ItemIsKnown
  <2> QED BY <2>8, <2>9, <2>10, <2>11, <2>12
<1> QED BY <1>2, <1>3, <1>4 DEF WritePost

LEMMA NoteKeyKeeps == ASSUME ImpInv, NEW p \in Press, NoteKey(p) PROVE ImpInv'
<1> USE DEF ImpInv
<1>1. press[p] \in Publish /\ press[p] # NoPress /\ press[p].at = "note"
  BY DEF NoteKey, ImpTypeOK
<1>2. PICK i \in Item, d \in DraftRow : i = press[p].of /\ d = press[p].draft
  BY <1>1 DEF Publish
<1>3. PICK w : w = [press[p] EXCEPT !.at = "clean"]
  OBVIOUS
<1>4. w \in Publish /\ w.at = "clean" /\ w.key = press[p].key /\ w.draft = d /\ w.of = i
  BY <1>1, <1>2, <1>3 DEF Publish
<1>5. press' = [press EXCEPT ![p] = w] /\ UNCHANGED <<filed, posts, spent, run, erasing>>
  BY <1>3 DEF NoteKey, ImpTypeOK
<1>6. raced \subseteq raced' /\ raced' \subseteq Item /\ mishaps' \in 0..MaxMishaps
  BY <1>2, ImportsAssumption DEF NoteKey, Races, Mishap, ImpTypeOK
(* The note reaches the item's own row and no other.                        *)
<1>7. /\ ledger' \in [Item -> Entry \cup {NoEntry}]
      /\ \A j \in Item : /\ ledger'[j] # NoEntry <=> ledger[j] # NoEntry
                         /\ ledger[j] # NoEntry => ledger'[j].draft = ledger[j].draft
                         /\ j # i => ledger'[j] = ledger[j]
      /\ i \notin raced' /\ ledger[i] # NoEntry /\ ledger[i].draft = d => ledger'[i].key = press[p].key
  <2>1. CASE ledger' = [j \in Item |-> IF ledger[j] # NoEntry /\ ledger[j].draft = press[p].draft
                                      THEN [ledger[j] EXCEPT !.key = press[p].key] ELSE ledger[j]]
    <3>1. press[p].key \in PostKey \cup {None}
      BY <1>1 DEF Publish
    <3>2. ASSUME NEW e \in Entry
          PROVE  /\ [e EXCEPT !.key = press[p].key] \in Entry
                 /\ [e EXCEPT !.key = press[p].key].key = press[p].key
                 /\ [e EXCEPT !.key = press[p].key].draft = e.draft
      BY <3>1 DEF Entry
    <3>3. \A j \in Item : ledger[j] # NoEntry /\ ledger[j].draft = d => j = i
      BY <1>1, <1>2 DEF MintedOnce, Names
    <3> QED BY <1>2, <2>1, <3>2, <3>3, ImportsNullsAssumption DEF ImpTypeOK
  <2>2. CASE Races(i) /\ UNCHANGED ledger
    BY <2>2 DEF Races, ImpTypeOK
  <2> QED BY <1>2, <2>1, <2>2 DEF NoteKey
<1>8. ImpTypeOK'
  BY <1>4, <1>5, <1>6, <1>7 DEF ImpTypeOK
<1>9. RunKnows'
  BY <1>5, <1>7 DEF RunKnows
<1>10. MintedOnce'
  <2>1. \A e \in DraftRow, j \in Item : Names(e, j)' => Names(e, j)
    BY <1>1, <1>2, <1>4, <1>5, <1>7 DEF Names, ImpTypeOK
  <2> QED BY <1>5, <2>1 DEF MintedOnce
<1>11. \A q \in Press, j \in Item : Lands(q, j)' <=> Lands(q, j)
  BY <1>1, <1>2, <1>4, <1>5, ImportsNullsAssumption DEF Lands, ImpTypeOK
<1>12. \A q \in Press \ {p} : press'[q] = press[q]
  BY <1>5 DEF ImpTypeOK
<1>13. press'[p] = w
  BY <1>5 DEF ImpTypeOK
<1>14. ASSUME NEW j \in Item \ raced', j # i PROVE ItemIsKnown(j)'
  <2>1. ItemIsKnown(j) /\ ledger'[j] = ledger[j]
    BY <1>6, <1>7, <1>14
  <2>2. \A q \in Press : Lands(q, j) => press'[q] = press[q]
    BY <1>2, <1>12, <1>14 DEF Lands
  <2>3. DraftIsKnown(j)' /\ PostIsKnown(j)' /\ KeyIsKnown(j)'
    BY <1>5, <1>11, <2>1, <2>2 DEF ItemIsKnown, DraftIsKnown, PostIsKnown, KeyIsKnown
  <2>4. LandingIsKnown(j)'
    BY <1>5, <1>11, <2>1, <2>2 DEF ItemIsKnown, LandingIsKnown
  <2> QED BY <2>3, <2>4 DEF ItemIsKnown
<1>15. ASSUME i \notin raced' PROVE ItemIsKnown(i)'
  <2>1. ItemIsKnown(i) /\ Lands(p, i)
    BY <1>1, <1>2, <1>6, <1>15 DEF Lands
  <2>2. /\ filed[d] = i /\ press[p].key \in PostKey /\ posts[press[p].key] = i /\ ledger[i].key = None
        /\ \A q \in Press : Lands(q, i) => q = p
    BY <1>1, <1>2, <2>1 DEF ItemIsKnown, LandingIsKnown
  <2>3. /\ ledger[i] # NoEntry /\ ledger[i].draft = d
        /\ ledger'[i] # NoEntry /\ ledger'[i].draft = d /\ ledger'[i].key = press[p].key
    BY <1>2, <1>7, <1>15, <2>1, <2>2 DEF ItemIsKnown, DraftIsKnown
  <2>4. DraftIsKnown(i)'
    BY <1>4, <1>5, <1>11, <1>13, <2>1, <2>3 DEF ItemIsKnown, DraftIsKnown
  <2>5. PostIsKnown(i)'
    <3>1. \A k \in PostKey : posts[k] = i => k = press[p].key
      BY <2>1, <2>2, ImportsNullsAssumption DEF ItemIsKnown, PostIsKnown
    <3> QED BY <1>5, <2>3, <3>1 DEF PostIsKnown
  <2>6. LandingIsKnown(i)'
    BY <1>4, <1>5, <1>11, <1>13, <2>2, <2>3 DEF LandingIsKnown
  <2>7. KeyIsKnown(i)'
    BY <1>5, <2>2, <2>3 DEF KeyIsKnown
  <2> QED BY <2>4, <2>5, <2>6, <2>7 DEF ItemIsKnown
<1> QED BY <1>8, <1>9, <1>10, <1>14, <1>15

(* A draft that goes is its item's; what other items have stays.            *)
LEMMA DraftGoes ==
  ASSUME ImpInv, NEW d \in DraftRow, NEW i \in Item, filed[d] \in {i, NoItem},
         filed' = [filed EXCEPT ![d] = NoItem],
         press' \in [Press -> Publish \cup {NoPress}],
         \A q \in Press : press'[q] = press[q] \/ (press'[q] = NoPress /\ (press[q] # NoPress => press[q].of = i)),
         UNCHANGED <<ledger, posts, spent, run, erasing>>, raced \subseteq raced'
  PROVE  RunKnows' /\ MintedOnce' /\ \A j \in Item \ raced' : j # i => ItemIsKnown(j)'
<1> USE DEF ImpInv
<1>1. RunKnows'
  BY DEF RunKnows, ImpTypeOK
<1>2. \A e \in DraftRow, j \in Item : Names(e, j)' => Names(e, j)
  BY ImportsNullsAssumption DEF Names, ImpTypeOK
<1>3. MintedOnce'
  BY <1>2 DEF MintedOnce
<1>4. ASSUME NEW j \in Item \ raced', j # i PROVE ItemIsKnown(j)'
  <2>1. ItemIsKnown(j) /\ j # NoItem
    BY ImportsNullsAssumption
  <2>2. \A e \in DraftRow : filed'[e] = j <=> filed[e] = j
    BY <1>4, <2>1 DEF ImpTypeOK
  <2>3. \A q \in Press : Lands(q, j)' <=> Lands(q, j)
    BY <1>4 DEF Lands
  <2>4. \A q \in Press : Lands(q, j) => press'[q] = press[q] /\ press[q].draft \in DraftRow
    BY <1>4 DEF Lands, ImpTypeOK, Publish
  <2>5. DraftIsKnown(j)' /\ PostIsKnown(j)' /\ KeyIsKnown(j)'
    BY <2>1, <2>2, <2>3, <2>4 DEF ItemIsKnown, DraftIsKnown, PostIsKnown, KeyIsKnown
  <2>6. LandingIsKnown(j)'
    BY <2>1, <2>2, <2>3, <2>4 DEF ItemIsKnown, LandingIsKnown
  <2> QED BY <2>5, <2>6 DEF ItemIsKnown
<1> QED BY <1>1, <1>3, <1>4

LEMMA CleanUpKeeps == ASSUME ImpInv, NEW p \in Press, CleanUp(p) PROVE ImpInv'
<1> USE DEF ImpInv
<1>1. press[p] \in Publish /\ press[p] # NoPress /\ press[p].at = "clean"
  BY DEF CleanUp, ImpTypeOK
<1>2. PICK i \in Item, d \in DraftRow : i = press[p].of /\ d = press[p].draft
  BY <1>1 DEF Publish
<1>3. press' = [press EXCEPT ![p] = NoPress] /\ UNCHANGED <<ledger, posts, spent, run, erasing>>
  BY DEF CleanUp
<1>4. press' \in [Press -> Publish \cup {NoPress}] /\ press'[p] = NoPress
      /\ \A q \in Press \ {p} : press'[q] = press[q]
  BY <1>3 DEF ImpTypeOK
<1>5. ASSUME filed' = [filed EXCEPT ![d] = NoItem], UNCHANGED <<mishaps, raced>>
      PROVE  ImpInv'
  <2>1. filed[d] \in {i, NoItem}
    BY <1>1, <1>2 DEF MintedOnce, Names, ImpTypeOK
  <2>2. ImpTypeOK'
    BY <1>3, <1>4, <1>5 DEF ImpTypeOK
  <2>3. RunKnows' /\ MintedOnce' /\ \A j \in Item \ raced' : j # i => ItemIsKnown(j)'
    BY <1>2, <1>3, <1>4, <1>5, <2>1, DraftGoes
  <2>4. ASSUME i \notin raced' PROVE ItemIsKnown(i)'
    <3>1. ItemIsKnown(i) /\ Lands(p, i)
      BY <1>1, <1>2, <1>5, <2>4 DEF Lands
    <3>2. /\ filed[d] = i /\ press[p].key \in PostKey /\ posts[press[p].key] = i
          /\ ledger[i].key = press[p].key /\ press[p].key # None
          /\ \A q \in Press : Lands(q, i) => q = p
      BY <1>1, <1>2, <3>1, ImportsNullsAssumption DEF ItemIsKnown, LandingIsKnown
    <3>3. \A e \in DraftRow : filed'[e] # i
      BY <1>5, <3>1, <3>2, ImportsNullsAssumption DEF ItemIsKnown, DraftIsKnown, ImpTypeOK
    <3>4. \A q \in Press : ~Lands(q, i)'
      BY <1>4, <3>2 DEF Lands
    <3>5. DraftIsKnown(i)' /\ LandingIsKnown(i)'
      BY <3>3, <3>4 DEF DraftIsKnown, LandingIsKnown
    <3>6. PostIsKnown(i)' /\ KeyIsKnown(i)'
      BY <1>1, <1>3, <3>1, <3>2 DEF ItemIsKnown, PostIsKnown, KeyIsKnown
    <3> QED BY <3>5, <3>6 DEF ItemIsKnown
  <2> QED BY <2>2, <2>3, <2>4
<1>6. ASSUME Mishap, Races(i), UNCHANGED filed
      PROVE  ImpInv'
  <2>1. ImpTypeOK'
    BY <1>3, <1>4, <1>6, ImportsAssumption DEF ImpTypeOK, Mishap, Races
  <2>2. RunKnows'
    BY <1>3, <1>6 DEF RunKnows
  <2>3. \A e \in DraftRow, j \in Item : Names(e, j)' => Names(e, j)
    BY <1>3, <1>4, <1>6 DEF Names
  <2>4. MintedOnce'
    BY <1>3, <1>6, <2>3 DEF MintedOnce
  <2>5. ASSUME NEW j \in Item \ raced' PROVE ItemIsKnown(j)'
    <3>1. ItemIsKnown(j) /\ j # i
      BY <1>6, <2>5 DEF Races
    <3>2. \A q \in Press : Lands(q, j)' <=> Lands(q, j)
      BY <1>2, <1>4, <3>1 DEF Lands
    <3>3. \A q \in Press : Lands(q, j) => press'[q] = press[q]
      BY <1>2, <1>4, <3>1 DEF Lands
    <3>4. DraftIsKnown(j)' /\ PostIsKnown(j)' /\ KeyIsKnown(j)'
      BY <1>3, <1>6, <3>1, <3>2, <3>3 DEF ItemIsKnown, DraftIsKnown, PostIsKnown, KeyIsKnown
    <3>5. LandingIsKnown(j)'
      BY <1>3, <1>6, <3>1, <3>2, <3>3 DEF ItemIsKnown, LandingIsKnown
    <3> QED BY <3>4, <3>5 DEF ItemIsKnown
  <2> QED BY <2>1, <2>2, <2>4, <2>5
<1> QED BY <1>2, <1>5, <1>6 DEF CleanUp

LEMMA DiscardKeeps == ASSUME ImpInv, NEW d \in DraftRow, Discard(d) PROVE ImpInv'
<1> USE DEF ImpInv
<1>1. PICK i \in Item : i = filed[d]
  BY DEF Discard, Filed, ImpTypeOK
<1>2. /\ filed' = [filed EXCEPT ![d] = NoItem]
      /\ UNCHANGED <<ledger, posts, spent, run, press, erasing, mishaps>>
      /\ raced \subseteq raced' /\ raced' \subseteq Item
      /\ i \notin raced' => \A p \in Press : press[p] # NoPress => press[p].draft # d
  BY <1>1 DEF Discard, Races, ImpTypeOK
<1>3. ImpTypeOK'
  BY <1>2 DEF ImpTypeOK
<1>4. RunKnows' /\ MintedOnce' /\ \A j \in Item \ raced' : j # i => ItemIsKnown(j)'
  BY <1>1, <1>2, DraftGoes DEF ImpTypeOK
<1>5. ASSUME i \notin raced' PROVE ItemIsKnown(i)'
  <2>1. ItemIsKnown(i)
    BY <1>2, <1>5
  <2>2. ledger[i] # NoEntry /\ ledger[i].draft = d
    BY <1>1, <2>1 DEF ItemIsKnown, DraftIsKnown
  <2>3. \A p \in Press : ~Lands(p, i)
    BY <1>2, <1>5, <2>1, <2>2 DEF ItemIsKnown, DraftIsKnown, LandingIsKnown, Lands, ImpTypeOK, Publish
  <2>4. \A e \in DraftRow : filed'[e] # i
    BY <1>2, <2>1, <2>2, ImportsNullsAssumption DEF ItemIsKnown, DraftIsKnown, ImpTypeOK
  <2> QED BY <1>2, <2>1, <2>3, <2>4
          DEF ItemIsKnown, DraftIsKnown, PostIsKnown, LandingIsKnown, KeyIsKnown, Lands
<1> QED BY <1>3, <1>4, <1>5

LEMMA DeletePostKeeps == ASSUME ImpInv, NEW k \in PostKey, DeletePost(k) PROVE ImpInv'
<1> USE DEF ImpInv
<1>1. PICK i \in Item : i = posts[k]
  BY DEF DeletePost, ImpTypeOK
<1>2. /\ posts' = [posts EXCEPT ![k] = NoItem] /\ erasing' = erasing \cup {k}
      /\ UNCHANGED <<ledger, filed, spent, run, press, mishaps>>
      /\ raced \subseteq raced' /\ raced' \subseteq Item
      /\ i \notin raced' => \A p \in Press : press[p] # NoPress => press[p].key # k
  BY <1>1 DEF DeletePost, Races, ImpTypeOK
<1>3. ImpTypeOK'
  BY <1>2 DEF ImpTypeOK
<1>4. RunKnows'
  BY <1>2 DEF RunKnows
<1>5. MintedOnce'
  BY <1>1, <1>2, ImportsNullsAssumption DEF MintedOnce, Names, ImpTypeOK
<1>6. ASSUME NEW j \in Item \ raced' PROVE ItemIsKnown(j)'
  <2>1. ItemIsKnown(j) /\ j # NoItem
    BY <1>2, ImportsNullsAssumption
  <2>2. \A l \in PostKey : posts'[l] = j <=> posts[l] = j /\ l # k
    BY <1>2, <2>1 DEF ImpTypeOK
  <2>3. \A p \in Press : Lands(p, j) => press[p].key # k
    BY <1>1, <1>2, <2>1, <1>6 DEF ItemIsKnown, LandingIsKnown, Lands
  <2>4. DraftIsKnown(j)' /\ PostIsKnown(j)'
    BY <1>2, <2>1, <2>2 DEF ItemIsKnown, DraftIsKnown, PostIsKnown, Lands
  <2>5. LandingIsKnown(j)'
    BY <1>2, <2>1, <2>2, <2>3 DEF ItemIsKnown, LandingIsKnown, Lands
  <2>6. KeyIsKnown(j)'
    BY <1>2, <2>1, <2>2, ImportsNullsAssumption DEF ItemIsKnown, KeyIsKnown, ImpTypeOK, Entry
  <2> QED BY <2>4, <2>5, <2>6 DEF ItemIsKnown
<1> QED BY <1>3, <1>4, <1>5, <1>6

LEMMA ClearImportKeeps == ASSUME ImpInv, NEW k \in PostKey, ClearImport(k) PROVE ImpInv'
<1> USE DEF ImpInv
<1> DEFINE its == {i \in Item : ledger[i] # NoEntry /\ ledger[i].key = k}
<1>1. k \in erasing /\ erasing' = erasing \ {k} /\ UNCHANGED <<filed, posts, spent, run, press>>
  BY DEF ClearImport
<1>2. /\ ledger' \in [Item -> Entry \cup {NoEntry}]
      /\ \A i \in Item \ its : ledger'[i] = ledger[i]
      /\ \A i \in its : \/ ledger'[i] = KeyCleared(ledger[i])
                        \/ i \in raced' /\ ledger'[i] = ledger[i]
      /\ raced \subseteq raced' /\ raced' \subseteq Item /\ mishaps' \in 0..MaxMishaps
  <2>1. CASE ledger' = [i \in Item |-> IF i \in its THEN KeyCleared(ledger[i]) ELSE ledger[i]]
             /\ UNCHANGED <<mishaps, raced>>
    BY <2>1 DEF KeyCleared, Entry, ImpTypeOK
  <2>2. CASE Mishap /\ raced' = raced \cup its /\ UNCHANGED ledger
    BY <2>2, ImportsAssumption DEF Mishap, ImpTypeOK
  <2> QED BY <2>1, <2>2 DEF ClearImport
<1>3. \A i \in its : ledger'[i] # NoEntry /\ ledger'[i].draft \in {None, ledger[i].draft}
                     /\ ledger'[i].key \in {None, k}
  <2>1. \A e \in Entry : KeyCleared(e) \in Entry /\ KeyCleared(e).draft = None /\ KeyCleared(e).key = None
    BY DEF KeyCleared, Entry
  <2> QED BY <1>2, <2>1, ImportsNullsAssumption DEF ImpTypeOK
<1>4. ImpTypeOK'
  BY <1>1, <1>2 DEF ImpTypeOK
<1>5. RunKnows'
  <2>1. \A i \in Item : ledger[i] # NoEntry => ledger'[i] # NoEntry
    BY <1>2, <1>3
  <2> QED BY <1>1, <2>1 DEF RunKnows
<1>6. MintedOnce'
  <2>1. \A d \in DraftRow, i \in Item : Names(d, i)' => Names(d, i)
    BY <1>1, <1>2, <1>3, ImportsNullsAssumption DEF Names
  <2> QED BY <1>1, <2>1 DEF MintedOnce
<1>7. ASSUME NEW j \in Item \ raced' PROVE ItemIsKnown(j)'
  <2>1. ItemIsKnown(j) /\ j # NoItem
    BY <1>2, ImportsNullsAssumption
  <2>2. CASE j \notin its
    <3>1. ledger'[j] = ledger[j]
      BY <1>2, <2>2
    <3>2. ledger[j] # NoEntry => ledger[j].key # k
      BY <2>2
    <3> HIDE DEF its
    <3> QED BY <1>1, <2>1, <3>1, <3>2
            DEF ItemIsKnown, DraftIsKnown, PostIsKnown, LandingIsKnown, KeyIsKnown, Lands
  <2>3. CASE j \in its
    <3>1. ledger[j] # NoEntry /\ ledger[j].key = k /\ k # None /\ posts[k] # j
      BY <1>1, <2>1, <2>3, ImportsNullsAssumption DEF MintedOnce
    <3>2. ledger'[j].key = None
      BY <1>2, <1>7, <2>3, <3>1 DEF KeyCleared
    <3>3. \A p \in Press : ~Lands(p, j)
      BY <2>1, <3>1 DEF ItemIsKnown, LandingIsKnown, Lands
    <3>4. \A d \in DraftRow : filed[d] # j
      BY <2>1, <3>1, <3>3 DEF ItemIsKnown, DraftIsKnown
    <3>5. \A l \in PostKey : posts[l] # j
      BY <2>1, <3>1, <3>3 DEF ItemIsKnown, PostIsKnown
    <3> HIDE DEF its
    <3> QED BY <1>1, <3>2, <3>3, <3>4, <3>5
            DEF ItemIsKnown, DraftIsKnown, PostIsKnown, LandingIsKnown, KeyIsKnown, Lands
  <2> QED BY <2>2, <2>3
<1> QED BY <1>4, <1>5, <1>6, <1>7

LEMMA AdoptKeeps == ASSUME ImpInv, NEW k \in PostKey, Adopt(k) PROVE ImpInv'
<1> USE DEF ImpInv
<1>1. \A e \in Entry : /\ [e EXCEPT !.adopted = TRUE] \in Entry
                       /\ [e EXCEPT !.adopted = TRUE].draft = e.draft
                       /\ [e EXCEPT !.adopted = TRUE].key = e.key
  BY DEF Entry
<1>2. /\ ledger' \in [Item -> Entry \cup {NoEntry}]
      /\ \A i \in Item : /\ ledger'[i] # NoEntry <=> ledger[i] # NoEntry
                         /\ ledger[i] # NoEntry => ledger'[i].draft = ledger[i].draft /\ ledger'[i].key = ledger[i].key
  BY <1>1, ImportsNullsAssumption DEF Adopt, ImpTypeOK
<1>3. UNCHANGED <<filed, posts, spent, run, press, erasing, mishaps, raced>>
  BY DEF Adopt
<1>4. ImpTypeOK' /\ RunKnows'
  BY <1>2, <1>3 DEF ImpTypeOK, RunKnows
<1>5. MintedOnce'
  BY <1>2, <1>3 DEF MintedOnce, Names
<1>6. ASSUME NEW j \in Item \ raced' PROVE ItemIsKnown(j)'
  <2>1. ItemIsKnown(j)
    BY <1>3
  <2>2. DraftIsKnown(j)' /\ PostIsKnown(j)' /\ KeyIsKnown(j)'
    BY <1>2, <1>3, <2>1 DEF ItemIsKnown, DraftIsKnown, PostIsKnown, KeyIsKnown, Lands
  <2>3. LandingIsKnown(j)'
    <3>1. \A p \in Press : Lands(p, j) => press[p].draft \in DraftRow /\ ledger[j] # NoEntry
      BY <2>1 DEF ItemIsKnown, LandingIsKnown, DraftIsKnown, Lands, ImpTypeOK, Publish
    <3> QED BY <1>2, <1>3, <2>1, <3>1 DEF ItemIsKnown, LandingIsKnown, Lands
  <2> QED BY <2>2, <2>3 DEF ItemIsKnown
<1> QED BY <1>4, <1>5, <1>6

LEMMA ImpNextInv == ImpInv /\ [ImpNext]_impVars => ImpInv'
<1> SUFFICES ASSUME ImpInv, [ImpNext]_impVars PROVE ImpInv'
  OBVIOUS
<1>1. ASSUME NEW t \in Picker,
             Pick(t) \/ LookUpItem(t) \/ CheckLive(t) \/ CountFiled(t) \/ FileItem(t) \/ Abort(t)
      PROVE  ImpInv'
  BY <1>1, PickKeeps, LookUpItemKeeps, CheckLiveKeeps, CountFiledKeeps, FileItemKeeps, AbortKeeps
<1>2. ASSUME NEW p \in Press,
             PressPublish(p) \/ ReadLedger(p) \/ WritePost(p) \/ NoteKey(p) \/ CleanUp(p)
      PROVE  ImpInv'
  BY <1>2, PressPublishKeeps, ReadLedgerKeeps, WritePostKeeps, NoteKeyKeeps, CleanUpKeeps
<1>3. ASSUME NEW d \in DraftRow, Discard(d) PROVE ImpInv'
  BY <1>3, DiscardKeeps
<1>4. ASSUME NEW k \in PostKey, DeletePost(k) \/ ClearImport(k) \/ Adopt(k) PROVE ImpInv'
  BY <1>4, DeletePostKeeps, ClearImportKeeps, AdoptKeeps
<1>5. CASE UNCHANGED impVars
  BY <1>5, PickerAlone DEF ImpInv, impVars, ImpTypeOK, RunKnows
<1> QED BY <1>1, <1>2, <1>3, <1>4, <1>5 DEF ImpNext

(* The ledger, the drafts, the documents, every run and every publish keep  *)
(* their types.                                                             *)
THEOREM ImpTypeCorrect == ImpSpec => []ImpTypeOK
<1>1. ImpInv => ImpTypeOK
  BY DEF ImpInv
<1> QED BY ImpInitInv, ImpNextInv, <1>1, PTL DEF ImpSpec

(* Whatever pages, publishes, discards and deletions do at once, an item is *)
(* here once, as a draft or as a post (insertImportItem and its unique      *)
(* index, reviveImportItem, setPublishedRkey).                              *)
THEOREM ImportedOnceHolds == ImpSpec => []ImportedOnce
<1> QED BY ImpInitInv, ImpNextInv, ImpInvSays, PTL DEF ImpSpec

(* A post that is up has its key in the ledger or on the way there, and a   *)
(* ledger row of an item that is nowhere is free, or about to be            *)
(* (setPublishedRkey, clearPublishedImport).                                *)
THEOREM LedgerIsTrueHolds == ImpSpec => []LedgerIsTrue
<1> QED BY ImpInitInv, ImpNextInv, ImpInvSays, PTL DEF ImpSpec

-----------------------------------------------------------------------------
(* The report alert and the follower samples.                               *)

(* A tick on its way to stamp has a message behind it that was taken.       *)
StampedIsHeard ==
  \A k \in Tick : tick[k] # NoTick => (tick[k].at = "stamp" => tick[k].batch \subseteq heard)

CronInv == CronTypeOK /\ ToldBeforeStamped /\ StampedIsHeard

(* The hours of the first L + 1 days are fewer than (L + 1) * H.            *)
LEMMA HoursOfDays ==
  ASSUME NEW h \in Nat, NEW H \in Nat \ {0}, NEW L \in Nat, h \div H <= L
  PROVE  h \div H \in Nat /\ h + 1 <= (L + 1) * H
<1> DEFINE q == h \div H
<1>1. q \in Nat /\ h % H \in 0..(H - 1) /\ h = (H * q) + (h % H)
  OBVIOUS
<1>2. H * q <= H * L
  BY <1>1
<1>3. (L + 1) * H = H * L + H
  OBVIOUS
<1> QED BY <1>1, <1>2, <1>3

(* The state of a tick that only moves on is the state of a tick.           *)
LEMMA MovedOn ==
  ASSUME CronTypeOK, NEW k \in Tick, tick[k] # NoTick,
         NEW at \in {"read", "post", "stamp", "choose", "fetch", "prune"}, Moves(k, at)
  PROVE  /\ tick' \in [Tick -> TickState \cup {NoTick}]
         /\ tick'[k] = [tick[k] EXCEPT !.at = at]
         /\ \A o \in Tick : o # k => tick'[o] = tick[o]
BY DEF CronTypeOK, Moves, TickState

LEMMA WastesType ==
  ASSUME CronTypeOK, NEW k \in Tick, tick[k] # NoTick, Wastes(k)
  PROVE  wasted' \in [Day -> Nat]
BY DEF CronTypeOK, Wastes, TickState

LEMMA TroubleType ==
  ASSUME CronTypeOK, Trouble
  PROVE  trouble' \in 0..MaxTrouble
BY CronPassesAssumption DEF CronTypeOK, Trouble

LEMMA CronInitInv == CronInit => CronInv
<1> SUFFICES ASSUME CronInit PROVE CronInv
  OBVIOUS
<1>1. 0 \in Hour
  <2>1. (LastDay + 1) * HoursPerDay \in Nat
    BY CronPassesAssumption
  <2> QED BY <2>1 DEF Hour
<1>2. CronTypeOK
  BY <1>1, CronPassesAssumption DEF CronInit, CronTypeOK, Day
<1> QED BY <1>2 DEF CronInit, CronInv, ToldBeforeStamped, StampedIsHeard

LEMMA StrikeKeeps == ASSUME CronInv, NEW k \in Tick, Strike(k) PROVE CronInv'
<1> USE DEF CronInv
<1>1. Today \in Day /\ hour' \in Hour
  <2>1. hour \in Nat /\ HoursPerDay \in Nat \ {0} /\ LastDay \in Nat /\ hour \div HoursPerDay <= LastDay
    BY CronPassesAssumption DEF CronTypeOK, Hour, Strike, Today, DayOf
  <2>2. hour \div HoursPerDay \in Nat /\ hour + 1 <= (LastDay + 1) * HoursPerDay
    BY <2>1, HoursOfDays
  <2> QED BY <2>1, <2>2 DEF Strike, Hour, Day, Today, DayOf
<1>2. [at |-> "read", day |-> Today, batch |-> {}, left |-> {}, counted |-> FALSE] \in TickState
  BY <1>1 DEF TickState
<1>3. CronTypeOK'
  BY <1>1, <1>2 DEF CronTypeOK, Strike
<1>4. StampedIsHeard'
  BY DEF StampedIsHeard, Strike, CronTypeOK
<1> QED BY <1>3, <1>4 DEF ToldBeforeStamped, Strike

LEMMA DiesKeeps == ASSUME CronInv, NEW k \in Tick, Dies(k) PROVE CronInv'
<1> USE DEF CronInv
<1>1. wasted' \in [Day -> Nat] /\ trouble' \in 0..MaxTrouble
  BY WastesType, TroubleType DEF Dies
<1>2. CronTypeOK'
  BY <1>1 DEF CronTypeOK, Dies
<1>3. StampedIsHeard'
  BY DEF StampedIsHeard, Dies, CronTypeOK
<1> QED BY <1>2, <1>3 DEF ToldBeforeStamped, Dies

LEMMA ReadReportsKeeps == ASSUME CronInv, NEW k \in Tick, ReadReports(k) PROVE CronInv'
<1> USE DEF CronInv
<1>1. OldestUntold \subseteq Report
  BY CronPassesAssumption DEF OldestUntold, Untold, CronTypeOK, Report
<1>2. trouble' \in 0..MaxTrouble
  BY TroubleType DEF ReadReports, CronTypeOK
<1>3. /\ tick' \in [Tick -> TickState \cup {NoTick}]
      /\ tick'[k].at # "stamp" /\ \A o \in Tick : o # k => tick'[o] = tick[o]
  <2>1. CASE tick' = [tick EXCEPT ![k].at = "post", ![k].batch = OldestUntold]
    BY <2>1, <1>1 DEF ReadReports, CronTypeOK, TickState
  <2>2. CASE Moves(k, "choose")
    <3>1. tick[k] \in TickState
      BY DEF ReadReports, CronTypeOK
    <3> QED BY <2>2, <3>1, MovedOn DEF ReadReports, TickState
  <2> QED BY <2>1, <2>2 DEF ReadReports
<1>4. CronTypeOK'
  BY <1>2, <1>3 DEF CronTypeOK, ReadReports
<1>5. StampedIsHeard'
  BY <1>3 DEF StampedIsHeard, ReadReports
<1> QED BY <1>4, <1>5 DEF ToldBeforeStamped, ReadReports

LEMMA PostAlertKeeps == ASSUME CronInv, NEW k \in Tick, PostAlert(k) PROVE CronInv'
<1> USE DEF CronInv
<1>0. tick[k] # NoTick /\ tick[k] \in TickState
  BY DEF PostAlert, CronTypeOK
<1>1. trouble' \in 0..MaxTrouble
  BY TroubleType DEF PostAlert, CronTypeOK
<1>2. heard \subseteq heard' /\ heard' \subseteq Report
  BY <1>0 DEF PostAlert, CronTypeOK, TickState
<1>3. /\ tick' \in [Tick -> TickState \cup {NoTick}]
      /\ tick'[k].at = "stamp" => tick'[k].batch \subseteq heard'
      /\ \A o \in Tick : o # k => tick'[o] = tick[o]
  <2>1. CASE heard' = heard \cup tick[k].batch /\ Moves(k, "stamp")
    BY <2>1, <1>0, MovedOn DEF TickState
  <2>2. CASE Moves(k, "choose")
    BY <2>2, <1>0, MovedOn DEF TickState
  <2> QED BY <2>1, <2>2 DEF PostAlert
<1>4. CronTypeOK'
  BY <1>1, <1>2, <1>3 DEF CronTypeOK, PostAlert
<1>5. StampedIsHeard'
  BY <1>2, <1>3 DEF StampedIsHeard
<1> QED BY <1>2, <1>4, <1>5 DEF ToldBeforeStamped, PostAlert

LEMMA StampReportsKeeps == ASSUME CronInv, NEW k \in Tick, StampReports(k) PROVE CronInv'
<1> USE DEF CronInv
<1>0. tick[k] # NoTick /\ tick[k] \in TickState /\ tick[k].batch \subseteq heard
  BY DEF StampReports, CronTypeOK, StampedIsHeard
<1>1. trouble' \in 0..MaxTrouble
  BY TroubleType DEF StampReports, CronTypeOK
<1>2. stamped' \subseteq heard /\ stamped' \subseteq Report /\ heard' = heard
  BY <1>0 DEF StampReports, Stamps, CronTypeOK, ToldBeforeStamped, TickState
<1>3. /\ tick' \in [Tick -> TickState \cup {NoTick}]
      /\ tick'[k].at # "stamp" /\ \A o \in Tick : o # k => tick'[o] = tick[o]
  BY <1>0, MovedOn DEF StampReports, TickState
<1>4. CronTypeOK'
  BY <1>1, <1>2, <1>3 DEF CronTypeOK, StampReports
<1>5. StampedIsHeard'
  BY <1>2, <1>3 DEF StampedIsHeard
<1> QED BY <1>2, <1>4, <1>5 DEF ToldBeforeStamped

LEMMA ChooseWritersKeeps == ASSUME CronInv, NEW k \in Tick, ChooseWriters(k) PROVE CronInv'
<1> USE DEF CronInv
<1>0. tick[k] # NoTick /\ tick[k] \in TickState
  BY DEF ChooseWriters, CronTypeOK
<1>1. wasted' \in [Day -> Nat]
  BY <1>0, WastesType DEF ChooseWriters, CronTypeOK
<1>2. PICK B \in SampleBatches(tick[k].day) :
        tick' = [tick EXCEPT ![k].at = IF B = {} THEN "prune" ELSE "fetch", ![k].left = B,
                             ![k].counted = Overlapped(k)]
  BY DEF ChooseWriters
<1>3. B \subseteq Writer /\ Overlapped(k) \in BOOLEAN
  BY DEF SampleBatches, UpTo, Tracked, Overlapped
<1>4. /\ tick' \in [Tick -> TickState \cup {NoTick}]
      /\ tick'[k].at # "stamp" /\ \A o \in Tick : o # k => tick'[o] = tick[o]
  BY <1>0, <1>2, <1>3 DEF CronTypeOK, TickState
<1>5. CronTypeOK'
  BY <1>1, <1>4 DEF CronTypeOK, ChooseWriters
<1>6. StampedIsHeard'
  BY <1>4 DEF StampedIsHeard, ChooseWriters
<1> QED BY <1>5, <1>6 DEF ToldBeforeStamped, ChooseWriters

LEMMA SampleChunkKeeps == ASSUME CronInv, NEW k \in Tick, SampleChunk(k) PROVE CronInv'
<1> USE DEF CronInv
<1>0. tick[k] # NoTick /\ tick[k] \in TickState
  BY DEF SampleChunk, CronTypeOK
<1>1. wasted' \in [Day -> Nat] /\ trouble' \in 0..MaxTrouble
  BY <1>0, WastesType, TroubleType DEF SampleChunk, CronTypeOK
<1>2. /\ samples' \subseteq Writer \X Day
      /\ tick' \in [Tick -> TickState \cup {NoTick}]
      /\ tick'[k].at # "stamp" /\ \A o \in Tick : o # k => tick'[o] = tick[o]
  <2>1. PICK chunk \in UpTo(ChunkSize, tick[k].left) :
          LET rest == tick[k].left \ chunk IN
          \/ /\ samples' = samples \cup ((chunk \ Unreadable) \X {tick[k].day})
             /\ tick' = [tick EXCEPT ![k].left = rest, ![k].at = IF rest = {} THEN "prune" ELSE "fetch"]
          \/ /\ UNCHANGED samples
             /\ tick' = [tick EXCEPT ![k].left = rest, ![k].counted = TRUE,
                                     ![k].at = IF rest = {} THEN "prune" ELSE "fetch"]
    BY DEF SampleChunk
  <2>2. chunk \subseteq Writer /\ tick[k].day \in Day
    BY <1>0 DEF UpTo, TickState
  <2>3. samples' \subseteq Writer \X Day
    BY <2>1, <2>2 DEF CronTypeOK
  <2> QED BY <1>0, <2>1, <2>2, <2>3 DEF CronTypeOK, TickState
<1>3. CronTypeOK'
  BY <1>1, <1>2 DEF CronTypeOK, SampleChunk
<1>4. StampedIsHeard'
  BY <1>2 DEF StampedIsHeard, SampleChunk
<1> QED BY <1>3, <1>4 DEF ToldBeforeStamped, SampleChunk

LEMMA PruneSamplesKeeps == ASSUME CronInv, NEW k \in Tick, PruneSamples(k) PROVE CronInv'
<1> USE DEF CronInv
<1>1. CronTypeOK'
  BY DEF CronTypeOK, PruneSamples
<1>2. StampedIsHeard'
  BY DEF StampedIsHeard, PruneSamples, CronTypeOK
<1> QED BY <1>1, <1>2 DEF ToldBeforeStamped, PruneSamples

LEMMA OutsideKeeps ==
  ASSUME CronInv, FileReport \/ (\E w \in Writer : SignsIn(w) \/ SessionEnds(w)) PROVE CronInv'
<1> USE DEF CronInv
<1>1. CASE FileReport
  <2>1. CronTypeOK'
    BY <1>1, CronPassesAssumption DEF CronTypeOK, FileReport
  <2> QED BY <1>1, <2>1 DEF FileReport, ToldBeforeStamped, StampedIsHeard
<1>2. ASSUME NEW w \in Writer, SignsIn(w) PROVE CronInv'
  BY <1>2 DEF SignsIn, CronTypeOK, ToldBeforeStamped, StampedIsHeard
<1>3. ASSUME NEW w \in Writer, SessionEnds(w) PROVE CronInv'
  <2>1. trouble' \in 0..MaxTrouble
    BY <1>3, TroubleType DEF SessionEnds
  <2>2. CronTypeOK'
    BY <1>3, <2>1 DEF SessionEnds, CronTypeOK
  <2> QED BY <1>3, <2>2 DEF SessionEnds, ToldBeforeStamped, StampedIsHeard
<1> QED BY <1>1, <1>2, <1>3

LEMMA CronNextInv == CronInv /\ [CronNext]_cronVars => CronInv'
<1> SUFFICES ASSUME CronInv, [CronNext]_cronVars PROVE CronInv'
  OBVIOUS
<1>1. CASE FileReport \/ (\E w \in Writer : SignsIn(w) \/ SessionEnds(w))
  BY <1>1, OutsideKeeps
<1>2. ASSUME NEW k \in Tick,
             \/ Strike(k) \/ Dies(k) \/ ReadReports(k) \/ PostAlert(k) \/ StampReports(k)
             \/ ChooseWriters(k) \/ SampleChunk(k) \/ PruneSamples(k)
      PROVE  CronInv'
  BY <1>2, StrikeKeeps, DiesKeeps, ReadReportsKeeps, PostAlertKeeps, StampReportsKeeps,
     ChooseWritersKeeps, SampleChunkKeeps, PruneSamplesKeeps
<1>3. CASE UNCHANGED cronVars
  BY <1>3 DEF cronVars, CronInv, CronTypeOK, ToldBeforeStamped, StampedIsHeard
<1> QED BY <1>1, <1>2, <1>3 DEF CronNext

(* Every tick, table and counter of the cron keeps its type.                *)
THEOREM CronTypeCorrect == CronSpec => []CronTypeOK
<1>1. CronInv => CronTypeOK
  BY DEF CronInv
<1> QED BY CronInitInv, CronNextInv, <1>1, PTL DEF CronSpec

(* However many ticks overlap, and whichever die or lose an answer, a       *)
(* report is stamped as told only after a message with it was taken.        *)
THEOREM ToldBeforeStampedHolds == CronSpec => []ToldBeforeStamped
<1>1. CronInv => ToldBeforeStamped
  BY DEF CronInv
<1> QED BY CronInitInv, CronNextInv, <1>1, PTL DEF CronSpec

-----------------------------------------------------------------------------
(* The day's sample of every writer's follower count.                       *)

(* The ticks of a day under way that are not counted as wasted; those that  *)
(* are done with the day's samples; and the writers sampled so far.         *)
OnTheirWay(d) == {k \in Tick : tick[k] # NoTick /\ tick[k].day = d /\ ~tick[k].counted}
HasChosen(k) == tick[k].at \in {"fetch", "prune"}
DoneOn(d) == hour - d * HoursPerDay - wasted[d] - Cardinality(OnTheirWay(d))
Have(d) == {w \in Writer \ Unreadable : <<w, d>> \in samples}

(* What n ticks that were not wasted come to: all of S, or as many as they  *)
(* cannot spend on unreadable profiles.                                     *)
Gain == SampleCap - Cardinality(Unreadable)
Enough(n, S, W) == n * Gain <= Cardinality(W) \/ S \ Unreadable \subseteq W

(* Done ticks have sampled enough, and one that has chosen will have once   *)
(* it is done; a day has one such at a time, as a second counts as wasted.  *)
DayCounted(d) ==
  /\ Enough(DoneOn(d), steady, Have(d))
  /\ \A k \in OnTheirWay(d) : HasChosen(k) =>
       /\ Enough(DoneOn(d) + 1, steady, Have(d) \cup (tick[k].left \ Unreadable))
       /\ \A o \in OnTheirWay(d) : HasChosen(o) => o = k

(* No tick is of a day that has yet to strike.                              *)
TicksStruck ==
  \A k \in Tick : tick[k] # NoTick =>
    /\ tick[k].day * HoursPerDay < hour
    /\ ~HasChosen(k) => ~tick[k].counted
    /\ tick[k].at = "prune" => tick[k].left = {}
NothingAhead == \A d \in Day : hour <= d * HoursPerDay => wasted[d] = 0

Current(d) == d * HoursPerDay <= hour /\ hour <= (d + 1) * HoursPerDay

SampleInv ==
  /\ CronInv /\ TicksStruck /\ NothingAhead /\ steady \subseteq signedIn
  /\ \A d \in Day : Current(d) => DayCounted(d)

LEMMA SampleBounds ==
  /\ HoursPerDay \in Nat \ {0} /\ {SampleCap, LastDay, RecentDays, RetainedDays} \subseteq Nat
  /\ Unreadable \subseteq Writer /\ IsFiniteSet(Writer)
  /\ Cardinality(Unreadable) \in Nat /\ Gain \in Int
  /\ \A W \in SUBSET Writer : IsFiniteSet(W) /\ Cardinality(W) \in Nat
  /\ \A W \in SUBSET Tick : IsFiniteSet(W) /\ Cardinality(W) \in Nat
<1>1. /\ \A W \in SUBSET Writer : IsFiniteSet(W) /\ Cardinality(W) \in Nat
      /\ \A W \in SUBSET Tick : IsFiniteSet(W) /\ Cardinality(W) \in Nat
  BY CronPassesAssumption, FS_Subset, FS_CardinalityType
<1> QED BY <1>1, CronPassesAssumption DEF Gain

LEMMA Products ==
  ASSUME NEW a \in Int, NEW b \in Int
  PROVE  /\ a * HoursPerDay \in Int
         /\ a <= b => a * HoursPerDay <= b * HoursPerDay
         /\ a < b => (a + 1) * HoursPerDay <= b * HoursPerDay
         /\ (a + 1) * HoursPerDay = a * HoursPerDay + HoursPerDay
BY SampleBounds

LEMMA DaysAndHours ==
  ASSUME NEW h \in Nat, NEW H \in Nat \ {0}
  PROVE  h \div H \in Nat /\ h % H \in 0..(H - 1) /\ h = (H * (h \div H)) + (h % H)
OBVIOUS

(* An hour is of the day it is between the first and the last hour of.      *)
LEMMA TodayIs ==
  ASSUME hour \in Nat
  PROVE  /\ Today \in Nat /\ Today * HoursPerDay <= hour /\ hour < (Today + 1) * HoursPerDay
         /\ hour % HoursPerDay = hour - Today * HoursPerDay
         /\ \A d \in Nat : d * HoursPerDay <= hour /\ hour < (d + 1) * HoursPerDay => d = Today
<1>1. Today \in Nat /\ hour % HoursPerDay \in 0..(HoursPerDay - 1)
      /\ hour = (HoursPerDay * Today) + (hour % HoursPerDay)
  BY SampleBounds, DaysAndHours DEF Today, DayOf
<1>2. (Today + 1) * HoursPerDay = HoursPerDay * Today + HoursPerDay /\ Today * HoursPerDay = HoursPerDay * Today
  BY <1>1, SampleBounds
<1>3. ASSUME NEW d \in Nat, d * HoursPerDay <= hour, hour < (d + 1) * HoursPerDay PROVE d = Today
  <2>1. ~(d < Today)
    BY <1>1, <1>2, <1>3, Products
  <2>2. ~(Today < d)
    <3> SUFFICES ASSUME Today < d PROVE FALSE
      OBVIOUS
    <3>1. (Today + 1) * HoursPerDay <= d * HoursPerDay
      BY <1>1, Products
    <3>2. (Today + 1) * HoursPerDay \in Int /\ d * HoursPerDay \in Int
      BY <1>1, Products
    <3>3. hour < (Today + 1) * HoursPerDay
      BY <1>1, <1>2, SampleBounds
    <3> QED BY <1>3, <3>1, <3>2, <3>3
  <2> QED BY <1>1, <2>1, <2>2
<1> QED BY <1>1, <1>2, <1>3, SampleBounds

LEMMA EnoughMore ==
  ASSUME NEW n \in Int, NEW S, NEW R, R \subseteq S,
         NEW W \in SUBSET Writer, NEW V \in SUBSET Writer, W \subseteq V, Enough(n, S, W)
  PROVE  Enough(n, R, V)
<1>1. Cardinality(W) <= Cardinality(V) /\ Cardinality(W) \in Nat /\ Cardinality(V) \in Nat
  BY SampleBounds, FS_Subset
<1>2. n * Gain \in Int
  BY SampleBounds
<1> QED BY <1>1, <1>2 DEF Enough

LEMMA DoneIsInt ==
  ASSUME CronTypeOK, NEW d \in Day
  PROVE  /\ DoneOn(d) \in Int /\ Cardinality(OnTheirWay(d)) \in Nat /\ IsFiniteSet(OnTheirWay(d))
         /\ Have(d) \in SUBSET Writer /\ hour \in Nat /\ wasted[d] \in Nat /\ d * HoursPerDay \in Int
<1>1. OnTheirWay(d) \in SUBSET Tick /\ d \in Nat
  BY DEF OnTheirWay, Day
<1>2. d * HoursPerDay \in Int
  BY <1>1, Products
<1> QED BY <1>1, <1>2, SampleBounds DEF DoneOn, Have, CronTypeOK, Hour, Day

(* On its first hour, and until it strikes, nothing is known of a day.      *)
LEMMA FreshDay ==
  ASSUME CronTypeOK, TicksStruck, NothingAhead, NEW d \in Day, hour = d * HoursPerDay
  PROVE  DayCounted(d) /\ OnTheirWay(d) = {} /\ DoneOn(d) = 0
<1>1. OnTheirWay(d) = {}
  BY DEF OnTheirWay, TicksStruck, CronTypeOK, Hour
<1>2. DoneOn(d) = 0
  BY <1>1, DoneIsInt, FS_EmptySet DEF DoneOn, NothingAhead
<1>3. Cardinality(Have(d)) \in Nat
  BY DoneIsInt, SampleBounds
<1>4. Enough(0, steady, Have(d))
  BY <1>3, SampleBounds DEF Enough
<1> QED BY <1>1, <1>2, <1>4 DEF DayCounted

(* A day whose number of done ticks stays the same stays counted, when no   *)
(* writer is added to those to sample, no sample is lost, and no tick has   *)
(* chosen just now.                                                         *)
LEMMA DayStaysCounted ==
  ASSUME CronTypeOK, CronTypeOK', NEW d \in Day, DayCounted(d), DoneOn(d)' = DoneOn(d),
         steady' \subseteq steady, Have(d) \subseteq Have(d)',
         \A k \in OnTheirWay(d)' : HasChosen(k)' =>
           /\ k \in OnTheirWay(d) /\ HasChosen(k)
           /\ tick[k].left \subseteq Writer /\ tick'[k].left \subseteq Writer
           /\ tick[k].left \ Unreadable \subseteq Have(d)' \cup tick'[k].left
  PROVE  DayCounted(d)'
<1> DEFINE n == DoneOn(d)
<1>1. n \in Int /\ n + 1 \in Int /\ Have(d) \in SUBSET Writer /\ Have(d)' \in SUBSET Writer
      /\ Have(d)' \cap Unreadable = {}
  BY DoneIsInt DEF CronTypeOK, Have
<1>2. Enough(n, steady', Have(d)')
  BY <1>1, EnoughMore DEF DayCounted
<1>3. ASSUME NEW k \in OnTheirWay(d)', HasChosen(k)'
      PROVE  Enough(n + 1, steady', Have(d)' \cup (tick'[k].left \ Unreadable))
  <2>1. k \in OnTheirWay(d) /\ HasChosen(k)
    BY <1>3
  <2>2. PICK W \in SUBSET Writer : W = Have(d) \cup (tick[k].left \ Unreadable)
    BY <1>1, <1>3
  <2>3. PICK V \in SUBSET Writer : V = Have(d)' \cup (tick'[k].left \ Unreadable)
    BY <1>1, <1>3
  <2>4. W \subseteq V
    BY <1>3, <2>2, <2>3
  <2>5. Enough(n + 1, steady, W)
    BY <2>1, <2>2 DEF DayCounted
  <2>6. Enough(n + 1, steady', V)
    BY <1>1, <2>4, <2>5, EnoughMore
  <2> QED BY <2>3, <2>6
<1>4. \A k, o \in OnTheirWay(d)' : HasChosen(k)' /\ HasChosen(o)' => o = k
  BY DEF DayCounted
<1> QED BY <1>2, <1>3, <1>4 DEF DayCounted

(* A step that samples nothing, wastes nothing and has no tick choose.      *)
LEMMA QuietStep ==
  ASSUME SampleInv, CronInv', UNCHANGED <<hour, samples, wasted>>,
         steady' \subseteq steady, steady' \subseteq signedIn',
         \A k \in Tick : \/ tick'[k] = tick[k]
                         \/ /\ tick[k] # NoTick /\ tick'[k] # NoTick
                            /\ tick'[k].day = tick[k].day /\ tick'[k].counted = tick[k].counted
                            /\ ~HasChosen(k) /\ ~HasChosen(k)'
  PROVE  SampleInv'
<1> USE DEF SampleInv, CronInv
<1>1. TicksStruck'
  BY DEF TicksStruck, HasChosen
<1>2. NothingAhead'
  BY DEF NothingAhead
<1>3. ASSUME NEW d \in Day, Current(d)' PROVE DayCounted(d)'
  <2>1. DayCounted(d)
    BY <1>3 DEF Current
  <2>2. OnTheirWay(d)' = OnTheirWay(d)
    BY DEF OnTheirWay
  <2>3. DoneOn(d)' = DoneOn(d)
    BY <2>2 DEF DoneOn
  <2>4. Have(d)' = Have(d)
    BY DEF Have
  <2>5. ASSUME NEW k \in OnTheirWay(d)', HasChosen(k)'
        PROVE  /\ k \in OnTheirWay(d) /\ HasChosen(k)
               /\ tick[k].left \subseteq Writer /\ tick'[k] = tick[k]
    <3>1. k \in Tick /\ tick[k] \in TickState /\ tick'[k] = tick[k]
      BY <2>2, <2>5 DEF OnTheirWay, CronTypeOK
    <3> QED BY <2>2, <2>5, <3>1 DEF HasChosen, TickState
  <2> QED BY <2>1, <2>3, <2>4, <2>5, DayStaysCounted
<1> QED BY <1>1, <1>2, <1>3

LEMMA OutsideSamples ==
  ASSUME SampleInv, FileReport \/ (\E w \in Writer : SignsIn(w) \/ SessionEnds(w)) PROVE SampleInv'
<1>1. CronInv'
  BY OutsideKeeps DEF SampleInv
<1>2. UNCHANGED <<hour, samples, wasted, tick>> /\ steady' \subseteq steady /\ steady' \subseteq signedIn'
  BY DEF SampleInv, FileReport, SignsIn, SessionEnds
<1> QED BY <1>1, <1>2, QuietStep

LEMMA ReportsSample ==
  ASSUME SampleInv, NEW k \in Tick, ReadReports(k) \/ PostAlert(k) \/ StampReports(k) PROVE SampleInv'
<1>1. CronInv'
  BY ReadReportsKeeps, PostAlertKeeps, StampReportsKeeps DEF SampleInv
<1>2. UNCHANGED <<hour, samples, wasted, steady, signedIn>> /\ steady \subseteq signedIn
  BY DEF SampleInv, ReadReports, PostAlert, StampReports
<1>3. tick[k] \in TickState /\ tick[k] # NoTick /\ ~HasChosen(k)
  BY DEF SampleInv, CronInv, CronTypeOK, ReadReports, PostAlert, StampReports, HasChosen
<1>4. /\ tick'[k] \in TickState /\ tick'[k].day = tick[k].day /\ tick'[k].counted = tick[k].counted
      /\ tick'[k].at \in {"post", "stamp", "choose"}
      /\ \A o \in Tick : o # k => tick'[o] = tick[o]
  <2>1. CASE tick' = [tick EXCEPT ![k].at = "post", ![k].batch = OldestUntold]
    <3>1. OldestUntold \subseteq Report
      BY CronPassesAssumption DEF OldestUntold, Untold, SampleInv, CronInv, CronTypeOK, Report
    <3> QED BY <1>3, <2>1, <3>1 DEF SampleInv, CronInv, CronTypeOK, TickState
  <2>2. ASSUME NEW at \in {"post", "stamp", "choose"}, Moves(k, at)
        PROVE  /\ tick'[k] \in TickState /\ tick'[k].day = tick[k].day
               /\ tick'[k].counted = tick[k].counted /\ tick'[k].at = at
               /\ \A o \in Tick : o # k => tick'[o] = tick[o]
    <3>1. k \in Tick /\ CronTypeOK
      BY DEF SampleInv, CronInv
    <3>2. tick' = [tick EXCEPT ![k].at = at] /\ tick \in [Tick -> TickState \cup {NoTick}]
      BY <2>2, <3>1 DEF Moves, CronTypeOK
    <3>3. PICK r \in TickState : r = tick[k]
      BY <1>3
    <3>4. tick'[k] = [r EXCEPT !.at = at] /\ \A o \in Tick : o # k => tick'[o] = tick[o]
      BY <3>1, <3>2, <3>3
    <3>5. PICK q : q = [r EXCEPT !.at = at]
      OBVIOUS
    <3>6. q \in TickState /\ q.day = r.day /\ q.counted = r.counted /\ q.at = at
      BY <3>3, <3>5, <2>2 DEF TickState
    <3> QED BY <3>3, <3>4, <3>5, <3>6
  <2> QED BY <2>1, <2>2 DEF ReadReports, PostAlert, StampReports
<1>5. tick'[k] # NoTick /\ ~HasChosen(k)'
  BY <1>4, NoTickAssumption DEF HasChosen
<1> QED BY <1>1, <1>2, <1>3, <1>4, <1>5, QuietStep

(* The hour strikes: a tick on its way more, a done tick fewer to be had;   *)
(* at the day's first hour the writers to sample are chosen anew.           *)
LEMMA StrikeSamples ==
  ASSUME SampleInv, NEW k \in Tick, Strike(k) PROVE SampleInv'
<1> USE DEF SampleInv
<1>0. CronTypeOK /\ tick[k] = NoTick /\ hour' = hour + 1 /\ UNCHANGED <<samples, wasted, signedIn>>
  BY DEF CronInv, Strike
<1>1. CronInv'
  BY StrikeKeeps
<1>2. /\ Today \in Nat /\ Today * HoursPerDay <= hour /\ hour < (Today + 1) * HoursPerDay
      /\ hour % HoursPerDay = hour - Today * HoursPerDay /\ hour \in Nat
      /\ Today * HoursPerDay \in Int
      /\ \A d \in Nat : d * HoursPerDay <= hour /\ hour < (d + 1) * HoursPerDay => d = Today
  <2>1. hour \in Nat
    BY <1>0 DEF CronTypeOK, Hour
  <2> QED BY <2>1, TodayIs, Products
<1>3. PICK e \in Day : e = Today
  BY <1>2, SampleBounds DEF Strike, Day
<1>4. PICK r : r = [at |-> "read", day |-> e, batch |-> {}, left |-> {}, counted |-> FALSE]
  OBVIOUS
<1>5. tick'[k] = r /\ \A o \in Tick : o # k => tick'[o] = tick[o]
  BY <1>0, <1>3, <1>4 DEF Strike, CronTypeOK
<1>6. r # NoTick /\ r.day = e /\ ~r.counted /\ r.at = "read"
  <2>1. r \in TickState
    BY <1>4 DEF TickState
  <2> QED BY <1>4, <2>1, NoTickAssumption
<1>7. \A d \in Day : d * HoursPerDay \in Int /\ (d + 1) * HoursPerDay \in Int
  <2>1. \A d \in Day : d \in Int /\ d + 1 \in Int
    BY DEF Day
  <2> QED BY <2>1, Products
<1>8. TicksStruck'
  <2> SUFFICES ASSUME NEW o \in Tick, tick'[o] # NoTick
               PROVE  /\ tick'[o].day * HoursPerDay < hour'
                      /\ ~HasChosen(o)' => ~tick'[o].counted
                      /\ tick'[o].at = "prune" => tick'[o].left = {}
    BY DEF TicksStruck
  <2>1. CASE o = k
    BY <1>0, <1>2, <1>3, <1>5, <1>6, <2>1
  <2>2. CASE o # k
    <3>1. tick[o].day \in Day
      BY <1>0, <1>5, <2>2 DEF CronTypeOK, TickState
    <3>2. tick[o].day * HoursPerDay \in Int
      BY <1>7, <3>1
    <3> QED BY <1>0, <1>2, <1>5, <2>2, <3>2 DEF TicksStruck, HasChosen
  <2> QED BY <2>1, <2>2
<1>9. NothingAhead'
  BY <1>0, <1>2, <1>7 DEF NothingAhead
<1>10. steady' \subseteq signedIn'
  BY DEF Strike
<1>11. ASSUME NEW d \in Day, d * HoursPerDay = hour + 1 PROVE DayCounted(d)'
  <2>1. OnTheirWay(d)' = {}
    <3> SUFFICES ASSUME NEW o \in Tick, tick'[o] # NoTick, tick'[o].day = d PROVE FALSE
      BY DEF OnTheirWay
    <3>1. d * HoursPerDay < hour'
      BY <1>8 DEF TicksStruck
    <3> QED BY <1>0, <1>2, <1>7, <1>11, <3>1
  <2>2. DoneOn(d)' = 0
    <3>1. wasted'[d] = 0
      BY <1>0, <1>9, <1>11 DEF NothingAhead
    <3>2. Cardinality(OnTheirWay(d)') = 0
      BY <2>1, FS_EmptySet
    <3>3. hour' - d * HoursPerDay - wasted'[d] - Cardinality(OnTheirWay(d)') = 0
      BY <1>0, <1>2, <1>7, <1>11, <3>1, <3>2
    <3> QED BY <3>3 DEF DoneOn
  <2>3. Cardinality(Have(d)') \in Nat
    <3>1. Have(d)' \in SUBSET Writer
      BY DEF Have
    <3> QED BY <3>1, SampleBounds
  <2>4. Enough(0, steady', Have(d)')
    BY <2>3, SampleBounds DEF Enough
  <2> QED BY <2>1, <2>2, <2>4 DEF DayCounted
<1>12. /\ OnTheirWay(e)' = OnTheirWay(e) \cup {k} /\ k \notin OnTheirWay(e)
  BY <1>0, <1>5, <1>6 DEF OnTheirWay
<1>13. DoneOn(e)' = DoneOn(e) /\ DoneOn(e) \in Int
  <2>1. IsFiniteSet(OnTheirWay(e)) /\ Cardinality(OnTheirWay(e)) \in Nat /\ wasted[e] \in Nat
        /\ DoneOn(e) \in Int
    BY <1>0, DoneIsInt
  <2>2. Cardinality(OnTheirWay(e)') = Cardinality(OnTheirWay(e)) + 1
    BY <1>12, <2>1, FS_AddElement
  <2>3. hour' - e * HoursPerDay - wasted'[e] - Cardinality(OnTheirWay(e)')
          = hour - e * HoursPerDay - wasted[e] - Cardinality(OnTheirWay(e))
    BY <1>0, <1>2, <1>7, <2>1, <2>2
  <2> QED BY <2>1, <2>3 DEF DoneOn
<1>14. Have(e)' = Have(e) /\ ~HasChosen(k)'
  BY <1>0, <1>5, <1>6 DEF Have, HasChosen
<1>15. DayCounted(e)'
  <2>1. CASE hour % HoursPerDay = 0
    <3>1. hour = e * HoursPerDay
      BY <1>2, <1>3, <1>7, <2>1
    <3>2. OnTheirWay(e) = {} /\ DoneOn(e) = 0
      BY <1>0, <3>1, FreshDay
    <3>3. Cardinality(Have(e)) \in Nat
      BY <1>0, DoneIsInt, SampleBounds
    <3>4. Enough(0, steady', Have(e)')
      BY <1>14, <3>3, SampleBounds DEF Enough
    <3> QED BY <1>12, <1>13, <1>14, <3>2, <3>4 DEF DayCounted
  <2>2. CASE hour % HoursPerDay # 0
    <3>1. steady' = steady
      BY <2>2 DEF Strike
    <3>2. DayCounted(e)
      <4>1. Current(e)
        BY <1>2, <1>3, <1>7 DEF Current
      <4> QED BY <4>1
    <3>3. ASSUME NEW o \in OnTheirWay(e)', HasChosen(o)'
          PROVE  /\ o \in OnTheirWay(e) /\ HasChosen(o)
                 /\ tick[o].left \subseteq Writer /\ tick'[o] = tick[o]
      <4>1. o # k /\ o \in OnTheirWay(e)
        BY <1>12, <1>14, <3>3
      <4>2. o \in Tick /\ tick'[o] = tick[o] /\ tick[o] \in TickState
        BY <1>0, <1>5, <4>1 DEF OnTheirWay, CronTypeOK
      <4> QED BY <3>3, <4>1, <4>2 DEF HasChosen, TickState
    <3> QED BY <1>0, <1>1, <1>13, <1>14, <3>1, <3>2, <3>3, DayStaysCounted DEF CronInv
  <2> QED BY <2>1, <2>2
<1>16. ASSUME NEW d \in Day, Current(d)' PROVE DayCounted(d)'
  <2>1. d * HoursPerDay <= hour + 1 /\ hour + 1 <= (d + 1) * HoursPerDay
    BY <1>0, <1>16 DEF Current
  <2>2. CASE d * HoursPerDay = hour + 1
    BY <1>11, <2>2
  <2>3. CASE d * HoursPerDay # hour + 1
    <3>1. d * HoursPerDay <= hour /\ hour < (d + 1) * HoursPerDay
      BY <1>2, <1>7, <2>1, <2>3
    <3>2. d = e
      BY <1>2, <1>3, <3>1 DEF Day
    <3> QED BY <1>15, <3>2
  <2> QED BY <2>2, <2>3
<1> QED BY <1>1, <1>8, <1>9, <1>10, <1>16

(* What a tick, once begun, is of: a day that has struck.                   *)
LEMMA TickOfDay ==
  ASSUME SampleInv, NEW k \in Tick, tick[k] # NoTick
  PROVE  /\ tick[k] \in TickState /\ tick[k].day \in Day /\ tick[k].left \subseteq Writer
         /\ tick[k].counted \in BOOLEAN /\ tick[k].day * HoursPerDay \in Int
         /\ tick[k].day * HoursPerDay < hour /\ hour \in Nat
         /\ \A d \in Day : Current(d) => tick[k].day <= d
<1>1. tick[k] \in TickState
  BY DEF SampleInv, CronInv, CronTypeOK
<1>2. PICK e \in Day : e = tick[k].day
  BY <1>1 DEF TickState
<1>3. e \in Nat /\ e * HoursPerDay \in Int /\ hour \in Nat /\ e * HoursPerDay < hour
  <2>1. e \in Nat /\ hour \in Nat
    BY DEF Day, SampleInv, CronInv, CronTypeOK, Hour
  <2>2. e * HoursPerDay \in Int
    BY <2>1, Products
  <2> QED BY <1>2, <2>1, <2>2 DEF SampleInv, TicksStruck
<1>4. ASSUME NEW d \in Day, Current(d) PROVE e <= d
  <2> SUFFICES ASSUME d < e PROVE FALSE
    BY DEF Day
  <2>1. (d + 1) * HoursPerDay <= e * HoursPerDay /\ (d + 1) * HoursPerDay \in Int
    <3>1. d \in Int /\ e \in Int /\ d + 1 \in Int
      BY DEF Day
    <3> QED BY <3>1, Products
  <2> QED BY <1>3, <1>4, <2>1 DEF Current
<1> QED BY <1>1, <1>2, <1>3, <1>4 DEF TickState

(* A tick that dies, loses a call or overlaps another one is no longer      *)
(* counted on, and its day's done ticks stay as many as they were.          *)
LEMMA WastedStep ==
  ASSUME SampleInv, CronInv', NEW k \in Tick, tick[k] # NoTick, Wastes(k),
         UNCHANGED <<hour, samples, steady, signedIn>>,
         \A o \in Tick : o # k => tick'[o] = tick[o],
         \/ tick'[k] = NoTick
         \/ /\ tick'[k] # NoTick /\ tick'[k].day = tick[k].day /\ tick'[k].counted
            /\ HasChosen(k)' /\ (tick'[k].at = "prune" => tick'[k].left = {})
  PROVE  SampleInv'
<1> USE DEF SampleInv
<1>0. CronTypeOK /\ CronTypeOK'
  BY DEF CronInv
<1>1. PICK e \in Day : e = tick[k].day
  BY TickOfDay
<1>2. e * HoursPerDay \in Int /\ e * HoursPerDay < hour /\ hour \in Nat /\ tick[k].counted \in BOOLEAN
  BY <1>1, TickOfDay
<1>3. \A d \in Day : wasted'[d] = IF d = e /\ ~tick[k].counted THEN wasted[d] + 1 ELSE wasted[d]
  BY <1>0, <1>1, <1>2 DEF Wastes, CronTypeOK
<1>4. TicksStruck'
  <2> SUFFICES ASSUME NEW o \in Tick, tick'[o] # NoTick
               PROVE  /\ tick'[o].day * HoursPerDay < hour'
                      /\ ~HasChosen(o)' => ~tick'[o].counted
                      /\ tick'[o].at = "prune" => tick'[o].left = {}
    BY DEF TicksStruck
  <2>1. CASE o = k
    BY <1>1, <1>2, <2>1
  <2>2. CASE o # k
    BY <2>2 DEF TicksStruck, HasChosen
  <2> QED BY <2>1, <2>2
<1>5. NothingAhead'
  BY <1>2, <1>3 DEF NothingAhead
<1>6. ASSUME NEW d \in Day, Current(d)' PROVE DayCounted(d)'
  <2>1. DayCounted(d)
    BY <1>6 DEF Current
  <2>2. OnTheirWay(d)' = OnTheirWay(d) \ {k}
    BY <1>1 DEF OnTheirWay
  <2>3. k \in OnTheirWay(d) <=> d = e /\ ~tick[k].counted
    BY <1>1 DEF OnTheirWay
  <2>4. DoneOn(d)' = DoneOn(d)
    <3>1. /\ IsFiniteSet(OnTheirWay(d)) /\ Cardinality(OnTheirWay(d)) \in Nat
          /\ wasted[d] \in Nat /\ d * HoursPerDay \in Int
      BY <1>0, DoneIsInt
    <3>2. CASE d = e /\ ~tick[k].counted
      <4>1. Cardinality(OnTheirWay(d)') = Cardinality(OnTheirWay(d)) - 1
        BY <2>2, <2>3, <3>1, <3>2, FS_RemoveElement
      <4>2. wasted'[d] = wasted[d] + 1
        BY <1>3, <3>2
      <4>3. hour' - d * HoursPerDay - wasted'[d] - Cardinality(OnTheirWay(d)')
              = hour - d * HoursPerDay - wasted[d] - Cardinality(OnTheirWay(d))
        BY <1>2, <3>1, <4>1, <4>2
      <4> QED BY <4>3 DEF DoneOn
    <3>3. CASE ~(d = e /\ ~tick[k].counted)
      <4>1. OnTheirWay(d)' = OnTheirWay(d)
        BY <2>2, <2>3, <3>3
      <4>2. wasted'[d] = wasted[d]
        BY <1>3, <3>3
      <4> QED BY <4>1, <4>2 DEF DoneOn
    <3> QED BY <3>2, <3>3
  <2>5. Have(d)' = Have(d)
    BY DEF Have
  <2>6. ASSUME NEW o \in OnTheirWay(d)', HasChosen(o)'
        PROVE  /\ o \in OnTheirWay(d) /\ HasChosen(o)
               /\ tick[o].left \subseteq Writer /\ tick'[o] = tick[o]
    <3>1. o \in Tick /\ o # k /\ o \in OnTheirWay(d) /\ tick[o] # NoTick
      BY <2>2, <2>6 DEF OnTheirWay
    <3>2. tick'[o] = tick[o]
      BY <3>1
    <3> QED BY <2>6, <3>1, <3>2, TickOfDay DEF HasChosen
  <2> QED BY <1>0, <2>1, <2>4, <2>5, <2>6, DayStaysCounted
<1> QED BY <1>4, <1>5, <1>6

LEMMA DiesSamples == ASSUME SampleInv, NEW k \in Tick, Dies(k) PROVE SampleInv'
<1>1. CronInv'
  BY DiesKeeps DEF SampleInv
<1>2. tick'[k] = NoTick /\ \A o \in Tick : o # k => tick'[o] = tick[o]
  BY DEF Dies, SampleInv, CronInv, CronTypeOK
<1> QED BY <1>1, <1>2, WastedStep DEF Dies

(* A step that only has a day's samples grow, and moves a tick on that has  *)
(* chosen by what it sampled.                                               *)
LEMMA SampledStep ==
  ASSUME SampleInv, CronInv', NEW k \in Tick, tick[k] # NoTick, HasChosen(k), NEW chunk,
         UNCHANGED <<hour, steady, signedIn, wasted>>,
         samples' = samples \cup ((chunk \ Unreadable) \X {tick[k].day}),
         \A o \in Tick : o # k => tick'[o] = tick[o],
         /\ tick'[k] # NoTick /\ tick'[k].day = tick[k].day /\ tick'[k].counted = tick[k].counted
         /\ HasChosen(k)' /\ (tick'[k].at = "prune" => tick'[k].left = {})
         /\ tick'[k].left = tick[k].left \ chunk
  PROVE  SampleInv'
<1> USE DEF SampleInv
<1>0. CronTypeOK /\ CronTypeOK'
  BY DEF CronInv
<1>1. PICK e \in Day : e = tick[k].day
  BY TickOfDay
<1>2. TicksStruck'
  <2> SUFFICES ASSUME NEW o \in Tick, tick'[o] # NoTick
               PROVE  /\ tick'[o].day * HoursPerDay < hour'
                      /\ ~HasChosen(o)' => ~tick'[o].counted
                      /\ tick'[o].at = "prune" => tick'[o].left = {}
    BY DEF TicksStruck
  <2>1. CASE o = k
    BY <2>1, TickOfDay
  <2>2. CASE o # k
    BY <2>2 DEF TicksStruck, HasChosen
  <2> QED BY <2>1, <2>2
<1>3. NothingAhead'
  BY DEF NothingAhead
<1>4. ASSUME NEW d \in Day, Current(d)' PROVE DayCounted(d)'
  <2>1. DayCounted(d)
    BY <1>4 DEF Current
  <2>2. OnTheirWay(d)' = OnTheirWay(d)
    BY DEF OnTheirWay
  <2>3. DoneOn(d)' = DoneOn(d)
    BY <2>2 DEF DoneOn
  <2>4. Have(d) \subseteq Have(d)'
    BY DEF Have
  <2>5. ASSUME NEW o \in OnTheirWay(d)', HasChosen(o)'
        PROVE  /\ o \in OnTheirWay(d) /\ HasChosen(o)
               /\ tick[o].left \subseteq Writer /\ tick'[o].left \subseteq Writer
               /\ tick[o].left \ Unreadable \subseteq Have(d)' \cup tick'[o].left
    <3>1. o \in Tick /\ o \in OnTheirWay(d) /\ tick[o] # NoTick /\ tick[o].day = d
      BY <2>2 DEF OnTheirWay
    <3>2. tick[o].left \subseteq Writer
      BY <3>1, TickOfDay
    <3>3. CASE o = k
      <4>1. \A w \in chunk \ Unreadable : <<w, d>> \in samples'
        BY <3>1, <3>3
      <4>2. \A w \in tick[k].left \cap chunk : w \notin Unreadable => w \in Have(d)'
        BY <3>2, <3>3, <4>1 DEF Have
      <4> QED BY <3>1, <3>2, <3>3, <4>2
    <3>4. CASE o # k
      BY <2>5, <3>1, <3>2, <3>4 DEF HasChosen
    <3> QED BY <3>3, <3>4
  <2> QED BY <1>0, <2>1, <2>3, <2>4, <2>5, DayStaysCounted
<1> QED BY <1>2, <1>3, <1>4

(* A batch is all that is waiting, or as large as it may be.                *)
LEMMA BatchSize ==
  ASSUME NEW S \in SUBSET Writer, NEW B \in UpTo(SampleCap, S)
  PROVE  B \subseteq S /\ (B = S \/ Cardinality(B) = SampleCap)
<1>1. B \subseteq S /\ IsFiniteSet(S) /\ Cardinality(S) \in Nat
  BY SampleBounds DEF UpTo
<1>2. CASE Cardinality(S) < SampleCap
  <2>1. Cardinality(B) = Cardinality(S)
    BY <1>2 DEF UpTo
  <2> QED BY <1>1, <2>1, FS_Subset
<1>3. CASE ~(Cardinality(S) < SampleCap)
  BY <1>1, <1>3 DEF UpTo
<1> QED BY <1>1, <1>2, <1>3

(* A batch as large as it may be adds what a tick must gain.                *)
LEMMA BatchGains ==
  ASSUME NEW n \in Int, NEW S, NEW W \in SUBSET (Writer \ Unreadable), NEW B \in SUBSET Writer,
         B \cap W = {}, Cardinality(B) = SampleCap, Enough(n, S, W)
  PROVE  Enough(n + 1, S, W \cup (B \ Unreadable))
<1> DEFINE V == W \cup (B \ Unreadable)
<1>1. PICK C \in SUBSET Writer : C = B \ Unreadable
  OBVIOUS
<1>2. PICK U \in SUBSET Writer : U = B \cap Unreadable
  OBVIOUS
<1>3. /\ IsFiniteSet(W) /\ IsFiniteSet(C) /\ IsFiniteSet(U) /\ IsFiniteSet(B) /\ IsFiniteSet(Unreadable)
      /\ Cardinality(W) \in Nat /\ Cardinality(C) \in Nat /\ Cardinality(U) \in Nat
      /\ Cardinality(Unreadable) \in Nat
  BY SampleBounds
<1>4. Cardinality(U) <= Cardinality(Unreadable)
  BY <1>2, <1>3, FS_Subset
<1>5. Cardinality(B) = Cardinality(C) + Cardinality(U)
  <2>1. B = C \cup U /\ C \cap U = {}
    BY <1>1, <1>2
  <2>2. Cardinality(C \cup U) = Cardinality(C) + Cardinality(U) - Cardinality(C \cap U)
    BY <1>3, FS_Union
  <2>3. Cardinality(C \cap U) = 0
    BY <2>1, FS_EmptySet
  <2> QED BY <1>3, <2>1, <2>2, <2>3
<1>6. Cardinality(V) = Cardinality(W) + Cardinality(C)
  <2>1. V = W \cup C /\ W \cap C = {}
    BY <1>1
  <2>2. Cardinality(W \cup C) = Cardinality(W) + Cardinality(C) - Cardinality(W \cap C)
    BY <1>3, FS_Union
  <2>3. Cardinality(W \cap C) = 0
    BY <2>1, FS_EmptySet
  <2>4. Cardinality(W \cup C) = Cardinality(W) + Cardinality(C)
    BY <1>3, <2>1, <2>2, <2>3
  <2> QED BY <2>1, <2>4
<1>7. Cardinality(C) >= Gain
  BY <1>3, <1>4, <1>5, SampleBounds DEF Gain
<1>8. (n + 1) * Gain = n * Gain + Gain /\ n * Gain \in Int
  BY SampleBounds
<1>9. CASE n * Gain <= Cardinality(W)
  <2>1. (n + 1) * Gain <= Cardinality(V)
    BY <1>3, <1>6, <1>7, <1>8, <1>9, SampleBounds
  <2> QED BY <2>1 DEF Enough
<1>10. CASE S \ Unreadable \subseteq W
  BY <1>10 DEF Enough
<1> QED BY <1>9, <1>10 DEF Enough

LEMMA ChooseSamples == ASSUME SampleInv, NEW k \in Tick, ChooseWriters(k) PROVE SampleInv'
<1> USE DEF SampleInv
<1>0. CronTypeOK /\ tick[k] # NoTick /\ tick[k].at = "choose"
  BY DEF CronInv, ChooseWriters
<1>1. CronInv' /\ CronTypeOK'
  BY ChooseWritersKeeps DEF CronInv
<1>2. PICK e \in Day : e = tick[k].day
  BY <1>0, TickOfDay
<1>3. PICK r \in TickState : r = tick[k]
  BY <1>0, TickOfDay
<1>4. PICK o \in BOOLEAN : o = Overlapped(k)
  BY DEF Overlapped
<1>5. PICK B \in SampleBatches(e) :
        tick' = [tick EXCEPT ![k].at = IF B = {} THEN "prune" ELSE "fetch", ![k].left = B,
                             ![k].counted = Overlapped(k)]
  BY <1>2 DEF ChooseWriters
<1>6. B \in SUBSET Writer
  BY DEF SampleBatches, UpTo, Tracked
<1>7. PICK at \in {"prune", "fetch"} : at = IF B = {} THEN "prune" ELSE "fetch"
  OBVIOUS
<1>8. PICK q : q = [r EXCEPT !.at = at, !.left = B, !.counted = o]
  OBVIOUS
<1>9. q \in TickState /\ q.at = at /\ q.left = B /\ q.counted = o /\ q.day = r.day /\ q # NoTick
  <2>1. q \in TickState /\ q.at = at /\ q.left = B /\ q.counted = o /\ q.day = r.day
    BY <1>3, <1>4, <1>6, <1>7, <1>8 DEF TickState
  <2> QED BY <2>1, NoTickAssumption
<1>10. tick'[k] = q /\ \A c \in Tick : c # k => tick'[c] = tick[c]
  <2>1. tick' = [tick EXCEPT ![k].at = at, ![k].left = B, ![k].counted = o]
    BY <1>4, <1>5, <1>7
  <2> QED BY <1>0, <1>3, <1>8, <2>1 DEF CronTypeOK
<1>11. HasChosen(k)' /\ ~HasChosen(k) /\ UNCHANGED <<hour, samples, steady, signedIn>>
  BY <1>0, <1>7, <1>9, <1>10 DEF HasChosen, ChooseWriters
<1>12. q.at = "prune" => q.left = {}
  BY <1>7, <1>9
<1>13. CASE Overlapped(k)
  <2>1. Wastes(k)
    BY <1>13 DEF ChooseWriters
  <2>2. tick'[k] # NoTick /\ tick'[k].day = tick[k].day /\ tick'[k].counted
    BY <1>3, <1>4, <1>9, <1>10, <1>13
  <2> QED BY <1>0, <1>1, <1>9, <1>10, <1>11, <1>12, <2>1, <2>2, WastedStep
<1>14. CASE ~Overlapped(k)
  <2>1. wasted' = wasted /\ ~o
    BY <1>4, <1>14 DEF ChooseWriters
  <2>2. OnTheirWay(e) = {k} /\ OnTheirWay(e)' = {k}
    <3>1. ~tick[k].counted
      BY <1>0, <1>11 DEF TicksStruck
    <3>2. \A c \in Tick : c # k /\ tick[c] # NoTick => tick[c].day # e
      BY <1>2, <1>14 DEF Overlapped
    <3>3. OnTheirWay(e) = {k}
      BY <1>0, <1>2, <3>1, <3>2 DEF OnTheirWay
    <3>4. OnTheirWay(e)' = {k}
      BY <1>2, <1>3, <1>9, <1>10, <2>1, <3>2 DEF OnTheirWay
    <3> QED BY <3>3, <3>4
  <2>3. \A d \in Day : OnTheirWay(d)' = OnTheirWay(d) /\ (d # e => k \notin OnTheirWay(d))
    <3>1. ASSUME NEW d \in Day, d # e PROVE OnTheirWay(d)' = OnTheirWay(d) /\ k \notin OnTheirWay(d)
      BY <1>2, <1>3, <1>9, <1>10, <3>1 DEF OnTheirWay
    <3> QED BY <2>2, <3>1
  <2>4. \A d \in Day : DoneOn(d)' = DoneOn(d) /\ Have(d)' = Have(d)
    BY <1>11, <2>1, <2>3 DEF DoneOn, Have
  <2>5. TicksStruck'
    <3> SUFFICES ASSUME NEW c \in Tick, tick'[c] # NoTick
                 PROVE  /\ tick'[c].day * HoursPerDay < hour'
                        /\ ~HasChosen(c)' => ~tick'[c].counted
                        /\ tick'[c].at = "prune" => tick'[c].left = {}
      BY DEF TicksStruck
    <3>1. CASE c = k
      BY <1>0, <1>3, <1>9, <1>10, <1>11, <1>12, <3>1, TickOfDay
    <3>2. CASE c # k
      BY <1>10, <1>11, <3>2 DEF TicksStruck, HasChosen
    <3> QED BY <3>1, <3>2
  <2>6. NothingAhead' /\ steady' \subseteq signedIn'
    BY <1>11, <2>1 DEF NothingAhead
  <2>7. ASSUME DayCounted(e) PROVE DayCounted(e)'
    <3>1. PICK n \in Int : n = DoneOn(e)
      BY <1>0, DoneIsInt
    <3>2. PICK W \in SUBSET (Writer \ Unreadable) : W = Have(e)
      BY DEF Have
    <3>3. Enough(n, steady, W)
      BY <2>7, <3>1, <3>2 DEF DayCounted
    <3>4. Enough(n + 1, steady, W \cup (B \ Unreadable))
      <4>1. PICK waiting \in SUBSET Writer : waiting = {w \in Tracked(e) : <<w, e>> \notin samples}
        BY DEF Tracked
      <4>2. B \in UpTo(SampleCap, waiting)
        BY <4>1 DEF SampleBatches
      <4>3. B \subseteq waiting /\ (B = waiting \/ Cardinality(B) = SampleCap)
        BY <4>2, BatchSize
      <4>4. CASE B = waiting
        <5>1. steady \ Unreadable \subseteq W \cup (B \ Unreadable)
          <6> SUFFICES ASSUME NEW w \in steady, w \notin Unreadable, w \notin W PROVE w \in B
            OBVIOUS
          <6>1. w \in Writer /\ w \in signedIn
            BY <1>0 DEF CronTypeOK
          <6>2. w \in Tracked(e) /\ <<w, e>> \notin samples
            BY <3>2, <6>1 DEF Tracked, Have
          <6> QED BY <4>1, <4>4, <6>2
        <5> QED BY <5>1 DEF Enough
      <4>5. CASE Cardinality(B) = SampleCap
        <5>1. B \cap W = {}
          BY <3>2, <4>1, <4>3 DEF Have
        <5> QED BY <1>6, <3>3, <4>5, <5>1, BatchGains
      <4> QED BY <4>3, <4>4, <4>5
    <3>5. Enough(DoneOn(e)', steady', Have(e)')
      BY <1>11, <2>4, <3>1, <3>2, <3>3
    <3>6. Enough(DoneOn(e)' + 1, steady', Have(e)' \cup (tick'[k].left \ Unreadable))
      BY <1>9, <1>10, <1>11, <2>4, <3>1, <3>2, <3>4
    <3> QED BY <2>2, <3>5, <3>6 DEF DayCounted
  <2>8. ASSUME NEW d \in Day, Current(d)' PROVE DayCounted(d)'
    <3>1. DayCounted(d)
      BY <1>11, <2>8 DEF Current
    <3>2. CASE d = e
      BY <2>7, <3>1, <3>2
    <3>3. CASE d # e
      <4>1. ASSUME NEW c \in OnTheirWay(d)', HasChosen(c)'
            PROVE  /\ c \in OnTheirWay(d) /\ HasChosen(c)
                   /\ tick[c].left \subseteq Writer /\ tick'[c] = tick[c]
        <5>1. c \in OnTheirWay(d) /\ c # k /\ c \in Tick /\ tick[c] # NoTick
          BY <2>3, <3>3, <4>1 DEF OnTheirWay
        <5>2. tick'[c] = tick[c]
          BY <1>10, <5>1
        <5> QED BY <4>1, <5>1, <5>2, TickOfDay DEF HasChosen
      <4> QED BY <1>0, <1>1, <1>11, <2>4, <3>1, <4>1, DayStaysCounted
    <3> QED BY <3>2, <3>3
  <2> QED BY <1>1, <2>5, <2>6, <2>8
<1> QED BY <1>13, <1>14

LEMMA ChunkSamples == ASSUME SampleInv, NEW k \in Tick, SampleChunk(k) PROVE SampleInv'
<1>0. CronTypeOK /\ tick[k] # NoTick /\ tick[k].at = "fetch" /\ HasChosen(k)
      /\ UNCHANGED <<hour, steady, signedIn>>
  BY DEF SampleInv, CronInv, SampleChunk, HasChosen
<1>1. CronInv'
  BY SampleChunkKeeps DEF SampleInv
<1>2. PICK r \in TickState : r = tick[k]
  BY <1>0, TickOfDay
<1>3. PICK chunk \in UpTo(ChunkSize, tick[k].left) :
        \/ /\ samples' = samples \cup ((chunk \ Unreadable) \X {tick[k].day})
           /\ tick' = [tick EXCEPT ![k].left = tick[k].left \ chunk,
                                   ![k].at = IF tick[k].left \ chunk = {} THEN "prune" ELSE "fetch"]
           /\ UNCHANGED <<wasted, trouble>>
        \/ /\ Trouble /\ Wastes(k) /\ UNCHANGED samples
           /\ tick' = [tick EXCEPT ![k].left = tick[k].left \ chunk, ![k].counted = TRUE,
                                   ![k].at = IF tick[k].left \ chunk = {} THEN "prune" ELSE "fetch"]
  BY DEF SampleChunk
<1>4. PICK rest \in SUBSET Writer : rest = r.left \ chunk
  BY <1>2 DEF TickState
<1>5. PICK at \in {"prune", "fetch"} : at = IF rest = {} THEN "prune" ELSE "fetch"
  OBVIOUS
<1>6. CASE /\ samples' = samples \cup ((chunk \ Unreadable) \X {tick[k].day})
           /\ tick' = [tick EXCEPT ![k].left = tick[k].left \ chunk,
                                   ![k].at = IF tick[k].left \ chunk = {} THEN "prune" ELSE "fetch"]
           /\ UNCHANGED <<wasted, trouble>>
  <2>1. PICK q : q = [r EXCEPT !.left = rest, !.at = at]
    OBVIOUS
  <2>2. q \in TickState /\ q.at = at /\ q.left = rest /\ q.counted = r.counted /\ q.day = r.day
    BY <1>2, <1>4, <1>5, <2>1 DEF TickState
  <2>3. tick' = [tick EXCEPT ![k].left = rest, ![k].at = at]
    BY <1>2, <1>4, <1>5, <1>6
  <2>4. tick'[k] = q /\ \A o \in Tick : o # k => tick'[o] = tick[o]
    BY <1>0, <1>2, <2>1, <2>3 DEF CronTypeOK
  <2>5. /\ tick'[k] # NoTick /\ tick'[k].day = tick[k].day /\ tick'[k].counted = tick[k].counted
        /\ HasChosen(k)' /\ (tick'[k].at = "prune" => tick'[k].left = {})
        /\ tick'[k].left = tick[k].left \ chunk
    BY <1>2, <1>4, <1>5, <2>2, <2>4, NoTickAssumption DEF HasChosen
  <2> QED BY <1>0, <1>1, <1>6, <2>4, <2>5, SampledStep
<1>7. CASE /\ Trouble /\ Wastes(k) /\ UNCHANGED samples
           /\ tick' = [tick EXCEPT ![k].left = tick[k].left \ chunk, ![k].counted = TRUE,
                                   ![k].at = IF tick[k].left \ chunk = {} THEN "prune" ELSE "fetch"]
  <2>1. PICK q : q = [r EXCEPT !.left = rest, !.counted = TRUE, !.at = at]
    OBVIOUS
  <2>2. q \in TickState /\ q.at = at /\ q.left = rest /\ q.counted /\ q.day = r.day
    BY <1>2, <1>4, <1>5, <2>1 DEF TickState
  <2>3. tick' = [tick EXCEPT ![k].left = rest, ![k].counted = TRUE, ![k].at = at]
    BY <1>2, <1>4, <1>5, <1>7
  <2>4. tick'[k] = q /\ \A o \in Tick : o # k => tick'[o] = tick[o]
    BY <1>0, <1>2, <2>1, <2>3 DEF CronTypeOK
  <2>5. /\ tick'[k] # NoTick /\ tick'[k].day = tick[k].day /\ tick'[k].counted
        /\ HasChosen(k)' /\ (tick'[k].at = "prune" => tick'[k].left = {})
    BY <1>2, <1>5, <2>2, <2>4, NoTickAssumption DEF HasChosen
  <2> QED BY <1>0, <1>1, <1>7, <2>4, <2>5, WastedStep
<1> QED BY <1>3, <1>6, <1>7

(* The last act of a tick drops samples older than a day that may still be  *)
(* current, and a tick that is done leaves its day with what it promised.   *)
LEMMA PruneKeepsSamples == ASSUME SampleInv, NEW k \in Tick, PruneSamples(k) PROVE SampleInv'
<1> USE DEF SampleInv
<1>0. CronTypeOK /\ tick[k] # NoTick /\ HasChosen(k) /\ UNCHANGED <<hour, steady, signedIn, wasted>>
  BY DEF CronInv, PruneSamples, HasChosen
<1>1. CronInv' /\ CronTypeOK'
  BY PruneSamplesKeeps DEF CronInv
<1>2. PICK e \in Day : e = tick[k].day
  BY <1>0, TickOfDay
<1>3. tick'[k] = NoTick /\ \A o \in Tick : o # k => tick'[o] = tick[o]
  BY <1>0 DEF PruneSamples, CronTypeOK
<1>4. tick[k].left = {} /\ tick[k].counted \in BOOLEAN
  BY <1>0, TickOfDay DEF PruneSamples, TicksStruck
<1>5. TicksStruck' /\ NothingAhead'
  <2> SUFFICES ASSUME NEW o \in Tick, tick'[o] # NoTick
               PROVE  /\ tick'[o].day * HoursPerDay < hour'
                      /\ ~HasChosen(o)' => ~tick'[o].counted
                      /\ tick'[o].at = "prune" => tick'[o].left = {}
    BY <1>0 DEF TicksStruck, NothingAhead
  <2>1. o # k /\ tick'[o] = tick[o]
    BY <1>3
  <2> QED BY <1>0, <2>1 DEF TicksStruck, HasChosen
<1>6. ASSUME NEW d \in Day, Current(d)' PROVE DayCounted(d)'
  <2>1. Current(d) /\ DayCounted(d)
    BY <1>0, <1>6 DEF Current
  <2>2. OnTheirWay(d)' = OnTheirWay(d) \ {k}
    BY <1>3 DEF OnTheirWay
  <2>3. Have(d) \subseteq Have(d)'
    <3>1. d >= e - RetainedDays
      BY <1>0, <1>2, <2>1, TickOfDay, SampleBounds DEF Day
    <3>2. ASSUME NEW w \in Have(d) PROVE <<w, d>> \in samples'
      BY <1>2, <3>1, <3>2 DEF Have, PruneSamples
    <3> QED BY <3>2 DEF Have
  <2>4. ASSUME NEW o \in OnTheirWay(d)', HasChosen(o)'
        PROVE  /\ o \in OnTheirWay(d) /\ HasChosen(o) /\ o # k
               /\ tick[o].left \subseteq Writer /\ tick'[o] = tick[o]
    <3>1. o \in OnTheirWay(d) /\ o # k /\ o \in Tick /\ tick[o] # NoTick
      BY <2>2, <2>4 DEF OnTheirWay
    <3>2. tick'[o] = tick[o]
      BY <1>3, <3>1
    <3> QED BY <2>4, <3>1, <3>2, TickOfDay DEF HasChosen
  <2>5. CASE k \notin OnTheirWay(d)
    <3>1. DoneOn(d)' = DoneOn(d)
      BY <1>0, <2>2, <2>5 DEF DoneOn
    <3> QED BY <1>0, <1>1, <2>1, <2>3, <2>4, <3>1, DayStaysCounted
  <2>6. CASE k \in OnTheirWay(d)
    <3>1. /\ IsFiniteSet(OnTheirWay(d)) /\ Cardinality(OnTheirWay(d)) \in Nat /\ hour \in Nat
          /\ wasted[d] \in Nat /\ d * HoursPerDay \in Int /\ DoneOn(d) \in Int
          /\ Have(d) \in SUBSET Writer
      BY <1>0, DoneIsInt
    <3>2. DoneOn(d)' = DoneOn(d) + 1
      <4>1. Cardinality(OnTheirWay(d)') = Cardinality(OnTheirWay(d)) - 1
        BY <2>2, <2>6, <3>1, FS_RemoveElement
      <4>2. hour' - d * HoursPerDay - wasted'[d] - Cardinality(OnTheirWay(d)')
              = hour - d * HoursPerDay - wasted[d] - Cardinality(OnTheirWay(d)) + 1
        BY <1>0, <3>1, <4>1
      <4> QED BY <4>2 DEF DoneOn
    <3>3. Have(d)' \in SUBSET Writer
      BY DEF Have
    <3>4. Enough(DoneOn(d) + 1, steady, Have(d))
      <4>1. Have(d) \cup (tick[k].left \ Unreadable) = Have(d)
        BY <1>4
      <4> QED BY <1>0, <2>1, <2>6, <4>1 DEF DayCounted
    <3>5. Enough(DoneOn(d)', steady', Have(d)')
      <4>1. PICK n \in Int : n = DoneOn(d) + 1
        BY <3>1
      <4>2. Enough(n, steady', Have(d)')
        BY <1>0, <2>3, <3>1, <3>3, <3>4, <4>1, EnoughMore
      <4> QED BY <3>2, <4>1, <4>2
    <3>6. \A o \in OnTheirWay(d)' : ~HasChosen(o)'
      BY <1>0, <2>1, <2>4, <2>6 DEF DayCounted
    <3> QED BY <3>5, <3>6 DEF DayCounted
  <2> QED BY <2>5, <2>6
<1> QED BY <1>0, <1>1, <1>5, <1>6

LEMMA SampleInitInv == CronInit => SampleInv
<1> SUFFICES ASSUME CronInit PROVE SampleInv
  OBVIOUS
<1>1. CronInv /\ CronTypeOK
  BY CronInitInv DEF CronInv
<1>2. \A k \in Tick : tick[k] = NoTick
  BY DEF CronInit
<1>3. TicksStruck /\ NothingAhead /\ steady \subseteq signedIn
  BY <1>2 DEF CronInit, TicksStruck, NothingAhead
<1>4. ASSUME NEW d \in Day, Current(d) PROVE DayCounted(d)
  <2>1. d \in Nat /\ d * HoursPerDay <= hour /\ hour = 0
    BY <1>4 DEF Current, Day, CronInit
  <2>2. d * HoursPerDay = 0
    BY <2>1, SampleBounds
  <2> QED BY <1>1, <1>3, <2>1, <2>2, FreshDay
<1> QED BY <1>1, <1>3, <1>4 DEF SampleInv

LEMMA SampleNextInv == SampleInv /\ [CronNext]_cronVars => SampleInv'
<1> SUFFICES ASSUME SampleInv, [CronNext]_cronVars PROVE SampleInv'
  OBVIOUS
<1>1. CASE UNCHANGED cronVars
  <2>1. CronInv'
    BY <1>1, CronNextInv DEF SampleInv
  <2>2. UNCHANGED <<hour, samples, wasted, steady, signedIn, tick>> /\ steady \subseteq signedIn
    BY <1>1 DEF cronVars, SampleInv
  <2> QED BY <2>1, <2>2, QuietStep
<1>2. CASE CronNext
  BY <1>2, OutsideSamples, StrikeSamples, DiesSamples, ReportsSample, ChooseSamples, ChunkSamples,
     PruneKeepsSamples DEF CronNext
<1> QED BY <1>1, <1>2

(* A day that ended with no tick of it under way had as many done ticks as  *)
(* hours, less the wasted ones.                                             *)
LEMMA SampleInvSays == SampleInv => DayIsSampled
<1> SUFFICES ASSUME SampleInv, NEW d \in Day, hour = (d + 1) * HoursPerDay, Ended(d),
                    (HoursPerDay - wasted[d]) * (SampleCap - Cardinality(Unreadable))
                      >= Cardinality(Writer \ Unreadable)
             PROVE  \A w \in steady \ Unreadable : <<w, d>> \in samples
  BY DEF DayIsSampled
<1>1. CronTypeOK
  BY DEF SampleInv, CronInv
<1>2. /\ Have(d) \in SUBSET Writer /\ hour \in Nat /\ wasted[d] \in Nat /\ d * HoursPerDay \in Int
      /\ (d + 1) * HoursPerDay = d * HoursPerDay + HoursPerDay /\ HoursPerDay \in Nat \ {0}
  <2>1. d \in Int
    BY DEF Day
  <2> QED BY <1>1, <2>1, DoneIsInt, Products, SampleBounds
<1>3. DayCounted(d)
  <2>1. Current(d)
    BY <1>2 DEF Current
  <2> QED BY <2>1 DEF SampleInv
<1>4. DoneOn(d) = HoursPerDay - wasted[d]
  <2>1. OnTheirWay(d) = {}
    BY DEF OnTheirWay, Ended
  <2>2. Cardinality(OnTheirWay(d)) = 0
    BY <2>1, FS_EmptySet
  <2> QED BY <1>2, <2>2 DEF DoneOn
<1>5. CASE steady \ Unreadable \subseteq Have(d)
  BY <1>5 DEF Have
<1>6. CASE DoneOn(d) * Gain <= Cardinality(Have(d))
  <2>1. PICK R \in SUBSET Writer : R = Writer \ Unreadable
    OBVIOUS
  <2>2. Have(d) \subseteq R /\ IsFiniteSet(R) /\ Cardinality(R) \in Nat /\ Cardinality(Have(d)) \in Nat
    BY <1>2, <2>1, SampleBounds DEF Have
  <2>3. Cardinality(R) <= Cardinality(Have(d))
    <3>1. Cardinality(R) <= DoneOn(d) * Gain /\ DoneOn(d) * Gain \in Int
      BY <1>2, <1>4, <2>1, SampleBounds DEF Gain
    <3> QED BY <1>6, <2>2, <3>1
  <2>4. Have(d) = R
    BY <2>2, <2>3, FS_Subset
  <2> QED BY <1>1, <2>1, <2>4 DEF Have, CronTypeOK
<1> QED BY <1>3, <1>5, <1>6 DEF DayCounted, Enough

(* Every writer signed in all day has a sample of it at the day's end, when *)
(* its profile can be read and the ticks of the day that were neither lost  *)
(* nor doubled are enough (runFollowerSnapshotPass, chooseSampleBatch): for *)
(* any number of writers, ticks and hours, and any sizes of batch.          *)
THEOREM DayIsSampledHolds == CronSpec => []DayIsSampled
<1>1. SampleInv => DayIsSampled
  BY SampleInvSays
<1> QED BY SampleInitInv, SampleNextInv, <1>1, PTL DEF CronSpec

-----------------------------------------------------------------------------
(* Numbers.                                                                 *)

(* Induction over the naturals, for a set, and what comes of it.            *)
LEMMA Counting ==
  ASSUME NEW S, 0 \in S, \A n \in Nat : n \in S => n + 1 \in S PROVE Nat \subseteq S
<1> SUFFICES ASSUME NEW k \in Nat, k \notin S PROVE FALSE
  OBVIOUS
<1>1. PICK out : out = Nat \ S
  OBVIOUS
<1>2. out # {} /\ out \subseteq Nat
  BY <1>1
<1>3. PICK n \in out : \A m \in out : ~ (<<m, n>> \in OpToRel(<, Nat))
  <2>1. PICK R : R = OpToRel(<, Nat)
    OBVIOUS
  <2>2. IsWellFoundedOn(R, Nat)
    BY <2>1, NatLessThanWellFounded
  <2>3. \E n \in out : \A m \in out : ~ (<<m, n>> \in R)
    BY <1>2, <2>2, WFMin
  <2> QED BY <2>1, <2>3
<1>4. \A m \in out : ~(m < n)
  BY <1>2, <1>3 DEF OpToRel
<1>5. n \in Nat /\ n # 0 /\ n - 1 \in Nat /\ n - 1 < n
  BY <1>1
<1> QED BY <1>1, <1>4, <1>5

(* A set of numbers has a least one, and one below a bound has a greatest.  *)
LEMMA LeastOne ==
  ASSUME NEW S \in SUBSET Nat, S # {} PROVE \E m \in S : \A n \in S : m <= n
<1> SUFFICES ASSUME \A m \in S : \E n \in S : n < m PROVE FALSE
  OBVIOUS
<1>1. PICK low : low = {k \in Nat : \A n \in S : k < n}
  OBVIOUS
<1>2. 0 \in low
  BY <1>1
<1>3. ASSUME NEW k \in Nat, k \in low PROVE k + 1 \in low
  <2> SUFFICES ASSUME NEW n \in S PROVE k + 1 < n
    BY <1>1
  <2>1. PICK m \in S : m < n
    OBVIOUS
  <2>2. k < m /\ m \in Nat /\ n \in Nat
    BY <1>1, <1>3
  <2> QED BY <2>1, <2>2
<1>4. Nat \subseteq low
  BY <1>2, <1>3, Counting
<1>5. PICK n \in S : TRUE
  OBVIOUS
<1> QED BY <1>1, <1>4, <1>5

LEMMA GreatestOne ==
  ASSUME NEW N \in Nat, NEW S \in SUBSET (0..N), S # {} PROVE \E m \in S : \A n \in S : n <= m
<1>1. PICK T : T = {N - n : n \in S}
  OBVIOUS
<1>6. \A n \in S : n \in Nat /\ n <= N /\ N - n \in Nat
  OBVIOUS
<1>2. T \in SUBSET Nat /\ T # {}
  BY <1>1, <1>6
<1>3. PICK t \in T : \A u \in T : t <= u
  BY <1>2, LeastOne
<1>4. PICK m \in S : t = N - m
  BY <1>1, <1>3
<1>5. \A n \in S : N - n \in T
  BY <1>1
<1> QED BY <1>3, <1>4, <1>5, <1>6

(* The greatest of a set of numbers: with one come all that are greater;    *)
(* fewer than were asked for are all there are.                             *)
TopOf(S, limit) == {k \in S : Cardinality({j \in S : j >= k}) <= limit}
WithAllAbove(top, S) == \A k \in top, j \in S : j >= k => j \in top

LEMMA TopFacts ==
  ASSUME NEW N \in Nat, NEW S \in SUBSET (0..N), NEW limit \in Nat \ {0}, NEW top, top = TopOf(S, limit)
  PROVE  WithAllAbove(top, S) /\ (top = {} \/ Cardinality(top) < limit => S \subseteq top)
<1>1. IsFiniteSet(S) /\ \A T \in SUBSET S : IsFiniteSet(T) /\ Cardinality(T) \in Nat
  <2>1. IsFiniteSet(0..N)
    BY FS_Interval
  <2>2. IsFiniteSet(S)
    BY <2>1, FS_Subset
  <2> QED BY <2>2, FS_Subset, FS_CardinalityType
<1>3. PICK up : up = [k \in S |-> {j \in S : j >= k}]
  OBVIOUS
<1>4. top = {k \in S : Cardinality(up[k]) <= limit}
  BY <1>3 DEF TopOf
<1>5. \A k \in S : up[k] \in SUBSET S /\ IsFiniteSet(up[k]) /\ Cardinality(up[k]) \in Nat
  BY <1>1, <1>3
<1>6. \A k \in S : k \in Nat
  OBVIOUS
<1>7. ASSUME NEW k \in top, NEW j \in S, j >= k PROVE j \in top
  <2>1. k \in S /\ up[j] \subseteq up[k]
    <3>1. k \in S /\ up[j] = {i \in S : i >= j} /\ up[k] = {i \in S : i >= k}
      BY <1>3, <1>4
    <3>2. j \in Nat /\ k \in Nat /\ j >= k
      BY <1>6, <1>7, <3>1
    <3>3. ASSUME NEW i \in S, i >= j PROVE i >= k
      <4>1. i \in Nat
        BY <1>6
      <4> QED BY <3>2, <3>3, <4>1
    <3> QED BY <3>1, <3>3
  <2>2. Cardinality(up[j]) <= Cardinality(up[k])
    BY <1>5, <2>1, FS_Subset
  <2>3. Cardinality(up[k]) <= limit
    BY <1>4
  <2>4. Cardinality(up[j]) <= limit
    BY <1>5, <2>1, <2>2, <2>3
  <2> QED BY <1>4, <2>4
<1>8. top \in SUBSET S /\ IsFiniteSet(top) /\ Cardinality(top) \in Nat
  BY <1>1, <1>4
<1>9. ASSUME Cardinality(top) < limit, NEW k \in S, k \notin top PROVE FALSE
  <2>1. PICK rest : rest = S \ top
    OBVIOUS
  <2>2. rest \in SUBSET (0..N) /\ rest # {}
    BY <1>9, <2>1
  <2>3. PICK m \in rest : \A n \in rest : n <= m
    BY <2>2, GreatestOne
  <2>4. m \in S /\ up[m] \subseteq top \cup {m}
    <3>1. m \in S /\ m \in Nat
      BY <1>6, <2>1
    <3>2. up[m] = {i \in S : i >= m}
      BY <1>3, <3>1
    <3>3. ASSUME NEW i \in S, i >= m, i # m PROVE i \in top
      <4>1. i \in Nat
        BY <1>6
      <4>2. ~(i <= m)
        BY <3>1, <3>3, <4>1
      <4> QED BY <2>1, <2>3, <4>2
    <3> QED BY <3>1, <3>2, <3>3
  <2>5. IsFiniteSet(top \cup {m}) /\ Cardinality(top \cup {m}) <= Cardinality(top) + 1
        /\ Cardinality(top \cup {m}) \in Nat
    <3>1. IsFiniteSet(top \cup {m})
          /\ Cardinality(top \cup {m}) = IF m \in top THEN Cardinality(top) ELSE Cardinality(top) + 1
      BY <1>8, FS_AddElement
    <3> QED BY <1>8, <3>1
  <2>6. Cardinality(up[m]) <= Cardinality(top \cup {m})
    BY <2>4, <2>5, FS_Subset
  <2>7. PICK u \in Nat : u = Cardinality(up[m])
    BY <1>5, <2>4
  <2>8. u <= limit
    BY <1>8, <1>9, <2>5, <2>6, <2>7
  <2> QED BY <1>4, <2>1, <2>4, <2>7, <2>8
<1>10. top = {} => Cardinality(top) < limit
  <2>1. Cardinality({}) = 0 /\ 0 < limit
    BY FS_EmptySet
  <2> QED BY <2>1
<1>11. top = {} \/ Cardinality(top) < limit => S \subseteq top
  BY <1>9, <1>10
<1> QED BY <1>7, <1>11 DEF WithAllAbove

(* The place of a number in a set, counted from the least: every place up   *)
(* to the number of them is one's, and the first few are as many as asked   *)
(* for or all there are.                                                    *)
Placed(r, S, c) ==
  /\ r \in [S -> 1..c]
  /\ \A j, k \in S : j < k => r[j] < r[k]
  /\ \A n \in 1..c : \E k \in S : r[k] = n

LEMMA Ranked ==
  ASSUME NEW N \in Nat, NEW S \in SUBSET (0..N), NEW r, r = [k \in S |-> Cardinality({j \in S : j <= k})],
         NEW c, c = Cardinality(S)
  PROVE  IsFiniteSet(S) /\ c \in Nat /\ Placed(r, S, c)
<1>1. IsFiniteSet(S) /\ c \in Nat /\ \A T \in SUBSET S : IsFiniteSet(T) /\ Cardinality(T) \in Nat /\ Cardinality(T) <= c
  <2>1. IsFiniteSet(0..N)
    BY FS_Interval
  <2>2. IsFiniteSet(S)
    BY <2>1, FS_Subset
  <2> QED BY <2>2, FS_Subset, FS_CardinalityType
<1>2. PICK to : to = [k \in S |-> {j \in S : j <= k}]
  OBVIOUS
<1>3. \A k \in S : to[k] \in SUBSET S /\ IsFiniteSet(to[k]) /\ r[k] = Cardinality(to[k]) /\ k \in Nat
  BY <1>1, <1>2
<1>4. \A k \in S : r[k] \in 1..c
  <2> SUFFICES ASSUME NEW k \in S PROVE r[k] \in 1..c
    OBVIOUS
  <2>1. r[k] \in Nat /\ r[k] <= c
    BY <1>1, <1>3
  <2>2. k \in to[k]
    BY <1>2, <1>3
  <2>3. r[k] # 0
    BY <1>3, <2>2, FS_EmptySet
  <2> QED BY <1>1, <2>1, <2>3
<1>5. ASSUME NEW j \in S, NEW k \in S, j < k PROVE r[j] < r[k]
  <2>1. j \in Nat /\ k \in Nat
    BY <1>3
  <2>2. to[j] = {i \in S : i <= j} /\ to[k] = {i \in S : i <= k}
    BY <1>2
  <2>3. ASSUME NEW i \in S, i <= j PROVE i <= k
    <3>1. i \in Nat
      BY <1>3
    <3> QED BY <1>5, <2>1, <2>3, <3>1
  <2>4. to[j] \subseteq to[k] /\ k \in to[k] /\ k \notin to[j]
    <3>1. k <= k /\ ~(k <= j)
      BY <1>5, <2>1
    <3>2. to[j] \subseteq to[k]
      BY <2>2, <2>3
    <3>3. k \in to[k]
      BY <2>2, <3>1
    <3>4. k \notin to[j]
      BY <2>2, <3>1
    <3> QED BY <3>2, <3>3, <3>4
  <2>5. IsFiniteSet(to[j] \cup {k}) /\ Cardinality(to[j] \cup {k}) = IF k \in to[j] THEN r[j] ELSE r[j] + 1
    BY <1>3, FS_AddElement
  <2>6. to[j] \cup {k} \subseteq to[k]
    BY <2>4
  <2>7. Cardinality(to[j] \cup {k}) <= r[k]
    BY <1>3, <2>6, FS_Subset
  <2>8. r[j] \in Nat /\ r[k] \in Nat
    BY <1>4
  <2> QED BY <2>4, <2>5, <2>7, <2>8
<1>6. ASSUME NEW n \in 1..c PROVE \E k \in S : r[k] = n
  <2>1. PICK high : high = {k \in S : r[k] >= n}
    OBVIOUS
  <2>2. S # {}
    <3>1. c # 0
      BY <1>1
    <3> QED BY <3>1, FS_EmptySet
  <2>3. PICK top \in S : \A j \in S : j <= top
    BY <2>2, GreatestOne
  <2>4. to[top] = S
    BY <1>2, <2>3
  <2>5. top \in high
    <3>1. r[top] = c
      BY <1>3, <2>4
    <3> QED BY <1>1, <2>1, <3>1
  <2>6. high \in SUBSET Nat /\ high # {}
    BY <1>3, <2>1, <2>5
  <2>7. PICK k \in high : \A j \in high : k <= j
    BY <2>6, LeastOne
  <2>8. k \in S /\ k \in Nat /\ r[k] \in 1..c /\ r[k] >= n
    BY <1>3, <1>4, <2>1
  <2>9. PICK below : below = {j \in S : j < k}
    OBVIOUS
  <2>10. to[k] = below \cup {k} /\ k \notin below /\ below \in SUBSET S
    <3>1. to[k] = {j \in S : j <= k}
      BY <1>2, <2>8
    <3>2. \A j \in S : j \in Nat /\ (j <= k <=> j < k \/ j = k)
      BY <1>3, <2>8
    <3>3. k \notin below
      BY <2>8, <2>9
    <3>4. below \cup {k} = {j \in S : j <= k}
      BY <2>8, <2>9, <3>2
    <3>5. below \in SUBSET S
      BY <2>9
    <3> QED BY <3>1, <3>3, <3>4, <3>5
  <2>11. r[k] = Cardinality(below) + 1
    <3>1. Cardinality(below \cup {k}) = IF k \in below THEN Cardinality(below) ELSE Cardinality(below) + 1
      BY <1>1, <2>10, FS_AddElement
    <3> QED BY <1>3, <2>8, <2>10, <3>1
  <2>12. CASE r[k] = n
    BY <2>8, <2>12
  <2>13. CASE r[k] # n
    <3>1. Cardinality(below) \in Nat /\ Cardinality(below) >= n /\ n # 0
      BY <1>1, <2>8, <2>10, <2>11, <2>13
    <3>2. below # {}
      BY <3>1, FS_EmptySet
    <3>3. below \in SUBSET (0..N)
      BY <2>10
    <3>4. PICK m \in below : \A j \in below : j <= m
      BY <3>2, <3>3, GreatestOne
    <3>5. m \in S /\ m \in Nat /\ m < k
      BY <1>3, <2>9
    <3>6. below = to[m]
      <4>1. to[m] = {j \in S : j <= m}
        BY <1>2, <3>5
      <4>2. \A j \in S : j <= m => j < k
        BY <1>3, <2>8, <3>5
      <4> QED BY <2>9, <3>4, <4>1, <4>2
    <3>7. r[m] >= n
      BY <1>3, <3>1, <3>5, <3>6
    <3>8. m \in high /\ ~(k <= m)
      BY <2>1, <2>8, <3>5, <3>7
    <3> QED BY <2>7, <3>8
  <2> QED BY <2>12, <2>13
<1>7. r \in [S -> 1..c]
  BY <1>4
<1> QED BY <1>1, <1>5, <1>6, <1>7 DEF Placed

FewOf(S, n) == {k \in S : Cardinality({j \in S : j <= k}) <= n}
WithAllBelow(few, S) == \A k \in few, j \in S : j <= k => j \in few

FewIs(few, S, n) ==
  /\ few \in SUBSET S /\ WithAllBelow(few, S) /\ Cardinality(S) \in Nat
  /\ Cardinality(few) = IF Cardinality(S) > n THEN n ELSE Cardinality(S)

LEMMA FewFacts ==
  ASSUME NEW N \in Nat, NEW S \in SUBSET (0..N), NEW n \in Nat
  PROVE  FewIs(FewOf(S, n), S, n)
<1>a. PICK few, c : few = FewOf(S, n) /\ c = Cardinality(S)
  OBVIOUS
<1> SUFFICES /\ few \in SUBSET S /\ WithAllBelow(few, S) /\ c \in Nat
             /\ Cardinality(few) = IF c > n THEN n ELSE c
  BY <1>a DEF FewIs
<1>1. PICK r : r = [k \in S |-> Cardinality({j \in S : j <= k})]
  OBVIOUS
<1>2. IsFiniteSet(S) /\ c \in Nat /\ Placed(r, S, c)
  BY <1>a, <1>1, Ranked
<1>3. few = {k \in S : r[k] <= n}
  BY <1>a, <1>1 DEF FewOf
<1>4. \A k \in S : r[k] \in 1..c /\ k \in Nat
  BY <1>2 DEF Placed
<1>5. ASSUME NEW k \in few, NEW j \in S, j <= k PROVE j \in few
  <2>1. k \in S /\ r[k] <= n /\ r[k] \in 1..c /\ r[j] \in 1..c /\ j \in Nat /\ k \in Nat
    BY <1>3, <1>4
  <2>2. j < k \/ j = k
    BY <1>5, <2>1
  <2>3. j < k => r[j] < r[k]
    BY <1>2, <2>1 DEF Placed
  <2> QED BY <1>2, <1>3, <2>1, <2>2, <2>3
<1>6. CASE ~(c > n)
  <2>1. \A k \in S : r[k] <= n
    BY <1>2, <1>4, <1>6
  <2>2. few = S
    BY <1>3, <2>1
  <2> QED BY <1>a, <1>2, <1>6, <2>2 DEF WithAllBelow
<1>7. CASE c > n /\ n = 0
  <2>1. few = {}
    <3>1. \A k \in S : ~(r[k] <= 0)
      BY <1>2, <1>4
    <3> QED BY <1>3, <1>7, <3>1
  <2> QED BY <1>2, <1>3, <1>5, <1>7, <2>1, FS_EmptySet DEF WithAllBelow
<1>8. CASE c > n /\ n # 0
  <2>1. n \in 1..c
    BY <1>2, <1>8
  <2>2. PICK k \in S : r[k] = n
    BY <1>2, <2>1 DEF Placed
  <2>3. \A j \in S : r[j] <= n <=> j <= k
    <3> SUFFICES ASSUME NEW j \in S PROVE r[j] <= n <=> j <= k
      OBVIOUS
    <3>1. j \in Nat /\ k \in Nat /\ r[j] \in 1..c /\ r[k] \in 1..c
      BY <1>4
    <3>2. (j < k => r[j] < r[k]) /\ (k < j => r[k] < r[j])
      BY <1>2 DEF Placed
    <3> QED BY <1>2, <2>2, <3>1, <3>2
  <2>4. few = {j \in S : j <= k}
    BY <1>3, <2>3
  <2>5. Cardinality(few) = n
    BY <1>1, <2>2, <2>4
  <2> QED BY <1>2, <1>3, <1>5, <1>8, <2>5 DEF WithAllBelow
<1> QED BY <1>6, <1>7, <1>8

(* Max and Min of two numbers, and of a set of keys.                        *)
LEMMA OfTwo ==
  ASSUME NEW a \in Int, NEW b \in Int
  PROVE  /\ Max({a, b}) = IF a >= b THEN a ELSE b
         /\ Min({a, b}) = IF a <= b THEN a ELSE b
<1>1. PICK m : m = IF a >= b THEN a ELSE b
  OBVIOUS
<1>2. m \in {a, b} /\ \A y \in {a, b} : m >= y
  BY <1>1
<1>3. Max({a, b}) \in {a, b} /\ \A y \in {a, b} : Max({a, b}) >= y
  BY <1>2 DEF Max
<1>4. PICK n : n = IF a <= b THEN a ELSE b
  OBVIOUS
<1>5. n \in {a, b} /\ \A y \in {a, b} : n <= y
  BY <1>4
<1>6. Min({a, b}) \in {a, b} /\ \A y \in {a, b} : Min({a, b}) <= y
  BY <1>5 DEF Min
<1> QED BY <1>3, <1>6

LEMMA MinOfKeys == ASSUME NEW S \in SUBSET Nat, S # {} PROVE Min(S) \in S /\ \A n \in S : Min(S) <= n
<1>1. \E m \in S : \A n \in S : m <= n
  BY LeastOne
<1> QED BY <1>1 DEF Min

(* What is defined element by element over the subsets of a finite set      *)
(* (MapThenFoldSet) is defined, and of numbers a number.                    *)
Picks(c, S) == \A s \in SUBSET S : s # {} => c[s] \in s
Sums(g, c, w, S) == \A s \in SUBSET S : g[s] = IF s = {} THEN 0 ELSE w[c[s]] + g[s \ {c[s]}]

LEMMA SumFound ==
  ASSUME NEW S, IsFiniteSet(S), NEW c, Picks(c, S), NEW w
  PROVE  \E R : \E g \in [SUBSET S -> R] : Sums(g, c, w, S)
<1> USE DEF Picks
<1>1. PICK low : low = [n \in Nat |-> {s \in SUBSET S : Cardinality(s) <= n}]
  OBVIOUS
<1>2. PICK ok : ok = {n \in Nat : \E g : /\ g = [s \in low[n] |-> g[s]]
                              /\ \A s \in low[n] : g[s] = IF s = {} THEN 0 ELSE w[c[s]] + g[s \ {c[s]}]}
  OBVIOUS
<1>3. \A s \in SUBSET S : IsFiniteSet(s) /\ Cardinality(s) \in Nat
  BY FS_Subset, FS_CardinalityType
<1>4. \A s \in SUBSET S : s # {} => s \ {c[s]} \in SUBSET S /\ Cardinality(s \ {c[s]}) = Cardinality(s) - 1
  BY <1>3, FS_RemoveElement
<1>5. \A s \in SUBSET S : s # {} => Cardinality(s) # 0
  BY <1>3, FS_EmptySet
<1>6. 0 \in ok
  <2>1. low[0] = {{}}
    BY <1>1, <1>3, <1>5, FS_EmptySet
  <2>2. PICK g : g = [s \in low[0] |-> 0]
    OBVIOUS
  <2>3. g = [s \in low[0] |-> g[s]] /\ \A s \in low[0] : g[s] = IF s = {} THEN 0 ELSE w[c[s]] + g[s \ {c[s]}]
    BY <2>1, <2>2
  <2> QED BY <1>2, <2>3
<1>7. ASSUME NEW n \in Nat, n \in ok PROVE n + 1 \in ok
  <2>1. PICK g : \A s \in low[n] : g[s] = IF s = {} THEN 0 ELSE w[c[s]] + g[s \ {c[s]}]
    BY <1>2, <1>7
  <2>2. PICK h : h = [s \in low[n + 1] |-> IF s = {} THEN 0 ELSE w[c[s]] + g[s \ {c[s]}]]
    OBVIOUS
  <2>3. \A s \in low[n] : s \in low[n + 1]
    BY <1>1, <1>3
  <2>4. \A s \in low[n] : h[s] = g[s]
    BY <2>1, <2>2, <2>3
  <2>5. \A s \in low[n + 1] : s # {} => s \ {c[s]} \in low[n]
    <3> SUFFICES ASSUME NEW s \in low[n + 1], s # {} PROVE s \ {c[s]} \in low[n]
      OBVIOUS
    <3>1. s \in SUBSET S /\ Cardinality(s) <= n + 1
      BY <1>1
    <3>2. Cardinality(s) \in Nat /\ Cardinality(s \ {c[s]}) = Cardinality(s) - 1 /\ s \ {c[s]} \in SUBSET S
      BY <1>3, <1>4, <3>1
    <3>3. Cardinality(s \ {c[s]}) <= n
      BY <3>1, <3>2
    <3> QED BY <1>1, <3>2, <3>3
  <2>6. \A s \in low[n + 1] : h[s] = IF s = {} THEN 0 ELSE w[c[s]] + h[s \ {c[s]}]
    BY <2>2, <2>4, <2>5
  <2>7. h = [s \in low[n + 1] |-> h[s]]
    BY <2>2
  <2>8. n + 1 \in Nat
    OBVIOUS
  <2> QED BY <1>2, <2>6, <2>7, <2>8
<1>8. PICK n \in Nat : n = Cardinality(S)
  BY FS_CardinalityType
<1>9. n \in ok
  BY <1>6, <1>7, Counting
<1>10. low[n] = SUBSET S
  <2>1. \A s \in SUBSET S : Cardinality(s) <= n
    BY <1>8, FS_Subset
  <2> QED BY <1>1, <2>1
<1>11. PICK g : g = [s \in SUBSET S |-> g[s]] /\ \A s \in SUBSET S : g[s] = IF s = {} THEN 0 ELSE w[c[s]] + g[s \ {c[s]}]
  BY <1>2, <1>9, <1>10
<1>12. PICK R : R = {g[s] : s \in SUBSET S}
  OBVIOUS
<1>13. g \in [SUBSET S -> R]
  BY <1>11, <1>12
<1>14. Sums(g, c, w, S)
  BY <1>11 DEF Sums
<1> QED BY <1>13, <1>14

LEMMA SumIsNat ==
  ASSUME NEW S, IsFiniteSet(S), NEW c, Picks(c, S), NEW w \in [S -> Nat], NEW g, Sums(g, c, w, S)
  PROVE  g[S] \in Nat
<1> USE DEF Picks, Sums
<1>1. PICK ok : ok = {n \in Nat : \A s \in SUBSET S : Cardinality(s) <= n => g[s] \in Nat}
  OBVIOUS
<1>3. \A s \in SUBSET S : IsFiniteSet(s) /\ Cardinality(s) \in Nat
  BY FS_Subset, FS_CardinalityType
<1>4. \A s \in SUBSET S : s # {} => s \ {c[s]} \in SUBSET S /\ Cardinality(s \ {c[s]}) = Cardinality(s) - 1
  BY <1>3, FS_RemoveElement
<1>5. \A s \in SUBSET S : s # {} => Cardinality(s) # 0
  BY <1>3, FS_EmptySet
<1>6. 0 \in ok
  <2> SUFFICES ASSUME NEW s \in SUBSET S, Cardinality(s) <= 0 PROVE g[s] \in Nat
    BY <1>1
  <2>1. s = {}
    BY <1>3, <1>5
  <2>2. g[s] = 0
    BY <2>1
  <2> QED BY <2>2
<1>7. ASSUME NEW n \in Nat, n \in ok PROVE n + 1 \in ok
  <2> SUFFICES ASSUME NEW s \in SUBSET S, Cardinality(s) <= n + 1, s # {} PROVE g[s] \in Nat
    <3>1. n + 1 \in Nat /\ g[{}] \in Nat
      OBVIOUS
    <3> QED BY <1>1, <3>1
  <2>1. PICK t \in SUBSET S : t = s \ {c[s]}
    OBVIOUS
  <2>2. Cardinality(t) <= n
    BY <1>3, <1>4, <2>1
  <2>3. g[t] \in Nat
    BY <1>1, <1>7, <2>2
  <2>4. w[c[s]] \in Nat
    OBVIOUS
  <2>5. g[s] = w[c[s]] + g[t]
    BY <2>1
  <2> QED BY <2>3, <2>4, <2>5
<1>8. PICK n \in Nat : n = Cardinality(S)
  BY FS_CardinalityType
<1>9. n \in ok
  BY <1>6, <1>7, Counting
<1>11. S \in SUBSET S
  OBVIOUS
<1>12. n <= n
  OBVIOUS
<1> QED BY <1>1, <1>8, <1>9, <1>11, <1>12

(* A walk from r by nx, and a climb by par, which leads down: both are      *)
(* defined, and stay where they should.                                     *)
Walks(f, nx, r, N) == \A n \in 1..N : f[n] = IF n = 1 THEN r ELSE nx[f[n - 1]]
Climbs(f, par, N) == \A n \in 1..N : f[n] = IF par[n] = 0 THEN 0 ELSE 1 + f[par[n]]

LEMMA WalkTyped ==
  ASSUME NEW S, NEW nx \in [S -> S], NEW r \in S, NEW N \in Nat, NEW f, Walks(f, nx, r, N)
  PROVE  \A n \in 1..N : f[n] \in S
<1>1. PICK ok : ok = {n \in Nat : n \in 1..N => f[n] \in S}
  OBVIOUS
<1>2. 0 \in ok
  BY <1>1
<1>3. ASSUME NEW n \in Nat, n \in ok PROVE n + 1 \in ok
  <2> SUFFICES ASSUME n + 1 \in 1..N PROVE f[n + 1] \in S
    BY <1>1
  <2>1. f[n + 1] = IF n + 1 = 1 THEN r ELSE nx[f[n]]
    <3>1. (n + 1) - 1 = n
      OBVIOUS
    <3> QED BY <3>1 DEF Walks
  <2>2. CASE n = 0
    BY <2>1, <2>2
  <2>3. CASE n # 0
    <3>1. n \in 1..N
      BY <2>3
    <3>2. f[n] \in S
      BY <1>1, <1>3, <3>1
    <3> QED BY <2>1, <2>3, <3>2
  <2> QED BY <2>2, <2>3
<1>4. Nat \subseteq ok
  BY <1>2, <1>3, Counting
<1> QED BY <1>1, <1>4

LEMMA Walked ==
  ASSUME NEW S, NEW nx \in [S -> S], NEW r \in S, NEW N \in Nat
  PROVE  \E f \in [1..N -> S] : Walks(f, nx, r, N)
<1>1. PICK ok : ok = {n \in Nat : \E f \in [1..n -> S] : Walks(f, nx, r, n)}
  OBVIOUS
<1>2. 0 \in ok
  <2>1. PICK f : f = [m \in 1..0 |-> r]
    OBVIOUS
  <2>2. f \in [1..0 -> S] /\ Walks(f, nx, r, 0)
    BY <2>1 DEF Walks
  <2> QED BY <1>1, <2>2
<1>3. ASSUME NEW n \in Nat, n \in ok PROVE n + 1 \in ok
  <2>1. PICK f \in [1..n -> S] : Walks(f, nx, r, n)
    BY <1>1, <1>3
  <2>2. PICK h : h = [m \in 1..n + 1 |-> IF m = 1 THEN r ELSE nx[f[m - 1]]]
    OBVIOUS
  <2>3. h \in [1..n + 1 -> S]
    <3> SUFFICES ASSUME NEW m \in 1..n + 1, m # 1 PROVE f[m - 1] \in S
      BY <2>2
    <3>1. m - 1 \in 1..n
      OBVIOUS
    <3> QED BY <3>1
  <2>4. \A m \in 1..n : h[m] = f[m]
    <3> SUFFICES ASSUME NEW m \in 1..n PROVE h[m] = f[m]
      OBVIOUS
    <3>1. m \in 1..n + 1
      OBVIOUS
    <3>2. h[m] = IF m = 1 THEN r ELSE nx[f[m - 1]]
      BY <2>2, <3>1
    <3>3. f[m] = IF m = 1 THEN r ELSE nx[f[m - 1]]
      BY <2>1 DEF Walks
    <3> QED BY <3>2, <3>3
  <2>5. Walks(h, nx, r, n + 1)
    <3> SUFFICES ASSUME NEW m \in 1..n + 1 PROVE h[m] = IF m = 1 THEN r ELSE nx[h[m - 1]]
      BY DEF Walks
    <3>1. m # 1 => m - 1 \in 1..n
      OBVIOUS
    <3>2. m # 1 => h[m - 1] = f[m - 1]
      BY <2>4, <3>1
    <3> QED BY <2>2, <3>2
  <2> QED BY <1>1, <2>3, <2>5
<1>4. N \in ok
  BY <1>2, <1>3, Counting
<1> QED BY <1>1, <1>4

LEMMA Climbed ==
  ASSUME NEW N \in Nat, NEW par \in [1..N -> Nat], \A n \in 1..N : par[n] < n
  PROVE  \E f \in [1..N -> Nat] : Climbs(f, par, N)
<1>1. PICK ok : ok = {n \in Nat : n <= N => \E f \in [1..n -> Nat] : Climbs(f, par, n)}
  OBVIOUS
<1>2. 0 \in ok
  <2>1. PICK f : f = [m \in 1..0 |-> 0]
    OBVIOUS
  <2>2. f \in [1..0 -> Nat] /\ Climbs(f, par, 0)
    BY <2>1 DEF Climbs
  <2> QED BY <1>1, <2>2
<1>3. ASSUME NEW n \in Nat, n \in ok PROVE n + 1 \in ok
  <2> SUFFICES ASSUME n + 1 <= N PROVE \E h \in [1..n + 1 -> Nat] : Climbs(h, par, n + 1)
    BY <1>1
  <2>1. PICK f \in [1..n -> Nat] : Climbs(f, par, n)
    <3>1. n <= N
      OBVIOUS
    <3> QED BY <1>1, <1>3, <3>1
  <2>2. PICK h : h = [m \in 1..n + 1 |-> IF par[m] = 0 THEN 0 ELSE 1 + f[par[m]]]
    OBVIOUS
  <2>3. \A m \in 1..n + 1 : par[m] \in Nat /\ (par[m] # 0 => par[m] \in 1..n)
    <3> SUFFICES ASSUME NEW m \in 1..n + 1 PROVE par[m] \in Nat /\ (par[m] # 0 => par[m] \in 1..n)
      OBVIOUS
    <3>1. m \in 1..N
      OBVIOUS
    <3>2. par[m] \in Nat /\ par[m] < m
      BY <3>1
    <3> QED BY <3>2
  <2>4. h \in [1..n + 1 -> Nat]
    <3> SUFFICES ASSUME NEW m \in 1..n + 1, par[m] # 0 PROVE 1 + f[par[m]] \in Nat
      BY <2>2
    <3>1. f[par[m]] \in Nat
      BY <2>3
    <3> QED BY <3>1
  <2>5. \A m \in 1..n : h[m] = f[m]
    <3> SUFFICES ASSUME NEW m \in 1..n PROVE h[m] = f[m]
      OBVIOUS
    <3>1. m \in 1..n + 1
      OBVIOUS
    <3>2. h[m] = IF par[m] = 0 THEN 0 ELSE 1 + f[par[m]]
      BY <2>2, <3>1
    <3>3. f[m] = IF par[m] = 0 THEN 0 ELSE 1 + f[par[m]]
      BY <2>1 DEF Climbs
    <3> QED BY <3>2, <3>3
  <2>6. Climbs(h, par, n + 1)
    <3> SUFFICES ASSUME NEW m \in 1..n + 1 PROVE h[m] = IF par[m] = 0 THEN 0 ELSE 1 + h[par[m]]
      BY DEF Climbs
    <3>1. par[m] # 0 => h[par[m]] = f[par[m]]
      BY <2>3, <2>5
    <3> QED BY <2>2, <3>1
  <2> QED BY <2>4, <2>6
<1>4. N \in ok
  BY <1>2, <1>3, Counting
<1> QED BY <1>1, <1>4

-----------------------------------------------------------------------------
(* The import pages.                                                        *)

Working == call # NoCall /\ call.what \in {"assemble", "draft"}

(* Where the page is: before a run it has done nothing, and a call is one   *)
(* of its phase; a run's is of a row it has reached.                        *)
PageWhere ==
  /\ stage \in {"source", "finding", "pick"} =>
       own = {} /\ told = {} /\ stop = "none" /\ left = {} /\ said = Silent
  /\ stage \in {"pick", "importing", "done"} \/ own # {} => offer # NoOffer
  /\ call # NoCall /\ ~Working => stage \in {"source", "finding"} /\ call.ans = "none"
  /\ Working => stage = "importing" /\ call.row \in Lines(offer) \ left
                /\ (call.what = "assemble" => call.ans = "none")
  /\ stage = "importing" => left \subseteq Lines(offer)
  /\ stage = "pick" => picked \subseteq Listed(offer) /\ picked \ wanted.hand \subseteq Ticked(offer)

(* What was filed is of a row the run is done with.                         *)
FiledLine(r) == r \in Lines(offer) \ left /\ (Working /\ call.row = r => call.ans = "ok")
OwnTrue ==
  /\ \A g \in Own : g \in wanted.run /\ \E r \in Line : FiledLine(r) /\ offer.guid[r] = g
  /\ Working /\ call.ans = "ok" => [guid |-> offer.guid[call.row], cut |-> call.cut] \in own
  /\ Working /\ call.ans \in Reason => call.ans \in told
  /\ stop # "none" => stop \in told
  /\ stage = "importing" => \A r \in left : offer.guid[r] \in wanted.run
  /\ Working => offer.guid[call.row] \in wanted.run

(* A row that is not settled is still to come, or the one under way.        *)
SaidTrue ==
  /\ Working => said[offer.guid[call.row]] = (IF call.what = "assemble" THEN "reading" ELSE "saving")
  /\ stage \in {"importing", "done"} =>
       \A g \in wanted.run :
         /\ said[g] # "none"
         /\ said[g] = "pending" => stage = "importing" /\ \E r \in left : offer.guid[r] = g
         /\ said[g] \in {"reading", "saving"} => Working /\ offer.guid[call.row] = g

PageTyped ==
  /\ filedGuids \in SUBSET Guid /\ room \in 0..RoomAtMost
  /\ stage \in {"away", "source", "finding", "pick", "importing", "done"}
  /\ offer \in Offer \cup {NoOffer} /\ call \in Call \cup {NoCall}
  /\ picked \in SUBSET Guid /\ strays \in SUBSET Guid /\ deaf \in SUBSET Guid
  /\ wanted \in [hand : SUBSET Guid, run : SUBSET Guid]
  /\ own \in SUBSET [guid : Guid, cut : BOOLEAN]
  /\ said \in [Guid -> Word] /\ left \in SUBSET Line
  /\ stop \in Reason \cup {"none"} /\ told \in SUBSET Reason
  /\ aside \in 0..MaxAside /\ visits \in 0..MaxVisits

RunTrue == PageWhere /\ OwnTrue /\ SaidTrue /\ RowsAreTrue
PageInv == PageTyped /\ RunTrue

LEMMA PageTypedCorrect == PageTyped => PageTypeOK
BY DEF PageTyped, PageTypeOK

(* A row that is neither the only one of its guid is listed twice.          *)
LEMMA TwoRows ==
  ASSUME NEW o \in Offer, o = offer, NEW r \in Lines(o), NEW n \in Lines(o), r # n, o.guid[r] = o.guid[n]
  PROVE  ListedTwice(o.guid[r])
<1>1. PICK rows : rows = {k \in Lines(o) : o.guid[k] = o.guid[r]}
  OBVIOUS
<1>2. o.rows \in Nat /\ IsFiniteSet(Lines(o))
  <2>1. o.rows \in 1..LastLine
    BY DEF Offer
  <2>2. o.rows \in Nat
    BY <2>1, ImportPageAssumption
  <2> QED BY <2>2, FS_Interval DEF Lines
<1>3. IsFiniteSet(rows) /\ rows \subseteq Lines(o)
  BY <1>1, <1>2, FS_Subset
<1>4. {r, n} \subseteq rows
  BY <1>1
<1>5. Cardinality({r, n}) = 2
  <2>1. IsFiniteSet({n}) /\ Cardinality({n}) = 1
    BY FS_Singleton
  <2>2. Cardinality({n} \cup {r}) = 2
    BY <2>1, FS_AddElement
  <2> QED BY <2>2
<1>6. Cardinality({r, n}) <= Cardinality(rows)
  BY <1>3, <1>4, FS_Subset
<1>7. PICK c \in Nat : c = Cardinality(rows)
  BY <1>3, FS_CardinalityType
<1>8. 2 <= c
  BY <1>5, <1>6, <1>7
<1> QED BY <1>1, <1>7, <1>8 DEF ListedTwice

(* At most as many are ticked at first as there are slots.                  *)
LEMMA TickedFacts ==
  ASSUME NEW o \in Offer
  PROVE  /\ Ticked(o) \in SUBSET Guid /\ Ticked(o) \subseteq Listed(o) \ o.known
         /\ \A g \in Ticked(o) : \E r \in Lines(o) \ o.thin : o.guid[r] = g
         /\ IsFiniteSet(Ticked(o)) /\ Cardinality(Ticked(o)) <= o.slots
<1>1. /\ o.rows \in 1..LastLine /\ o.guid \in [Line -> Guid] /\ o.thin \in SUBSET Line
      /\ o.slots \in 0..RoomAtMost
  BY DEF Offer
<1>2. o.rows \in Nat /\ o.slots \in Nat /\ Lines(o) \subseteq Line /\ LastLine \in Nat
  BY <1>1, ImportPageAssumption DEF Lines, Line
<1>3. PICK new : new = {r \in Lines(o) : r \notin o.thin /\ o.guid[r] \notin o.known}
  OBVIOUS
<1>4. PICK before : before = [r \in Line |-> {n \in new : n < r}]
  OBVIOUS
<1>5. PICK top : top = {r \in new : Cardinality(before[r]) < o.slots}
  OBVIOUS
<1>6. Ticked(o) = {o.guid[r] : r \in top}
  <2>1. \A r \in new : before[r] = {n \in new : n < r}
    BY <1>2, <1>3, <1>4
  <2>2. top = {r \in new : Cardinality({n \in new : n < r}) < o.slots}
    BY <1>5, <2>1
  <2> QED BY <1>3, <2>2 DEF Ticked
<1>7. top \subseteq new /\ new \subseteq Lines(o)
  BY <1>3, <1>5
<1>8. IsFiniteSet(Line) /\ \A S \in SUBSET Line : IsFiniteSet(S) /\ Cardinality(S) \in Nat
  <2>1. IsFiniteSet(Line)
    BY <1>2, FS_Interval DEF Line
  <2> QED BY <2>1, FS_Subset, FS_CardinalityType
<1>9. top \in SUBSET Line
  BY <1>2, <1>7
<1>10. Cardinality(top) <= o.slots
  <2>1. CASE top = {}
    BY <1>2, <2>1, FS_EmptySet
  <2>2. CASE top # {}
    <3>1. top \in SUBSET (0..LastLine)
      BY <1>2, <1>9 DEF Line
    <3>2. PICK m \in top : \A n \in top : n <= m
      BY <1>2, <2>2, <3>1, GreatestOne
    <3>3. m \in Line /\ top \ {m} \subseteq before[m] /\ before[m] \in SUBSET Line
      <4>1. m \in Line /\ before[m] = {n \in new : n < m}
        BY <1>4, <1>9
      <4>2. \A n \in top \ {m} : n \in new /\ n < m
        BY <1>2, <1>7, <1>9, <3>2 DEF Line
      <4> QED BY <1>2, <1>7, <4>1, <4>2
    <3>4. Cardinality(top \ {m}) <= Cardinality(before[m])
      BY <1>8, <3>3, FS_Subset
    <3>5. Cardinality(top \ {m}) = Cardinality(top) - 1
      BY <1>8, <1>9, FS_RemoveElement
    <3>6. Cardinality(before[m]) < o.slots
      BY <1>5
    <3> QED BY <1>2, <1>8, <1>9, <3>3, <3>4, <3>5, <3>6
  <2> QED BY <2>1, <2>2
<1>11. IsFiniteSet(Ticked(o)) /\ Cardinality(Ticked(o)) <= Cardinality(top)
  <2>1. PICK f : f = [r \in top |-> o.guid[r]]
    OBVIOUS
  <2>2. f \in Surjection(top, Ticked(o))
    BY <1>6, <2>1 DEF Surjection
  <2> QED BY <1>8, <1>9, <2>2, FS_Surjection
<1>12. Cardinality(Ticked(o)) \in Nat
  BY <1>11, FS_CardinalityType
<1>13. Cardinality(Ticked(o)) <= o.slots
  BY <1>2, <1>8, <1>9, <1>10, <1>11, <1>12
<1>14. \A r \in top : r \in Lines(o) \ o.thin /\ o.guid[r] \notin o.known /\ o.guid[r] \in Guid
  BY <1>1, <1>2, <1>3, <1>7
<1> QED BY <1>6, <1>11, <1>13, <1>14 DEF Listed

(* What a page is before its run says nothing of any row.                   *)
LEMMA BeforeRun ==
  ASSUME stage' \in {"source", "finding", "pick"}, own' = {}, told' = {}, stop' = "none", left' = {},
         said' = Silent,
         call' = NoCall \/ (call'.what \in {"find", "read", "check"} /\ call'.ans = "none"
                              /\ stage' \in {"source", "finding"}),
         stage' = "pick" => offer' # NoOffer /\ picked' \subseteq Listed(offer')
                              /\ picked' \ wanted'.hand \subseteq Ticked(offer')
  PROVE  RunTrue'
<1>1. ~Working'
  BY DEF Working
<1>2. \A g \in Guid : said'[g] = "none"
  BY DEF Silent
<1>3. PageWhere'
  BY <1>1 DEF PageWhere
<1>4. OwnTrue'
  BY <1>1 DEF OwnTrue, Own
<1>5. SaidTrue'
  BY <1>1 DEF SaidTrue
<1>6. RowsAreTrue'
  BY <1>2 DEF RowsAreTrue, Own, Reason
<1> QED BY <1>3, <1>4, <1>5, <1>6 DEF RunTrue

LEMMA RunUntouched ==
  ASSUME RunTrue, UNCHANGED <<stage, offer, picked, said, left, stop, call, own, deaf, told, wanted>>
  PROVE  RunTrue'
<1>1. PageWhere' /\ OwnTrue' /\ SaidTrue'
  BY DEF RunTrue, PageWhere, OwnTrue, SaidTrue, Working, Own, FiledLine
<1>2. RowsAreTrue'
  BY DEF RunTrue, RowsAreTrue, Own, ListedTwice
<1> QED BY <1>1, <1>2 DEF RunTrue

LEMMA StillCall ==
  /\ Still \in Call /\ Still.what = "find" /\ Still.ans = "none" /\ Still # NoCall /\ Still.row = 0
  /\ [Still EXCEPT !.what = "read"] \in Call /\ [Still EXCEPT !.what = "read"].what = "read"
  /\ [Still EXCEPT !.what = "read"].ans = "none"
<1>1. 0 \in 0..LastLine
  BY ImportPageAssumption
<1>2. Still \in Call /\ [Still EXCEPT !.what = "read"] \in Call
  BY <1>1 DEF Still, Call
<1>3. Still.what = "find" /\ Still.ans = "none" /\ Still.row = 0
  BY DEF Still
<1>4. [Still EXCEPT !.what = "read"].what = "read" /\ [Still EXCEPT !.what = "read"].ans = "none"
  BY DEF Still
<1> QED BY <1>2, <1>3, <1>4, PageNullsAssumption

LEMMA OpenPageKeeps == ASSUME PageInv, OpenPage PROVE PageInv'
<1>1. Silent \in [Guid -> Word]
  BY DEF Silent, Word
<1>2. PageTyped'
  BY <1>1, StillCall, ImportPageAssumption DEF PageInv, PageTyped, OpenPage, serverVars
<1>3. RunTrue'
  BY StillCall, BeforeRun DEF OpenPage
<1> QED BY <1>2, <1>3 DEF PageInv

LEMMA AskForPostsKeeps == ASSUME PageInv, AskForPosts PROVE PageInv'
<1>1. UNCHANGED <<filedGuids, room, strays, stage, offer, picked, said, left, stop, own, deaf, told, aside, visits, wanted>>
      /\ stage \in {"source", "finding"}
  BY DEF AskForPosts, serverVars, runVars
<1>2. call' \in Call /\ call'.what \in {"find", "read"} /\ call'.ans = "none"
  BY StillCall DEF AskForPosts
<1>3. PageTyped'
  BY <1>1, <1>2 DEF PageInv, PageTyped
<1>4. own = {} /\ told = {} /\ stop = "none" /\ left = {} /\ said = Silent
  BY <1>1 DEF PageInv, RunTrue, PageWhere
<1>5. RunTrue'
  BY <1>1, <1>2, <1>4, BeforeRun
<1> QED BY <1>3, <1>5 DEF PageInv

LEMMA FileParsedKeeps == ASSUME PageInv, FileParsed PROVE PageInv'
<1>1. UNCHANGED <<filedGuids, room, strays, stage, offer, picked, said, left, stop, own, deaf, told, aside, visits, wanted>>
      /\ call # NoCall /\ call.what = "read" /\ call' = [call EXCEPT !.what = "check"]
  BY DEF FileParsed, serverVars, runVars
<1>2. stage \in {"source", "finding"} /\ call.ans = "none"
  BY <1>1 DEF PageInv, RunTrue, PageWhere, Working
<1>3. PICK c \in Call : c = call
  BY <1>1 DEF PageInv, PageTyped
<1>4. call' \in Call /\ call'.what = "check" /\ call'.ans = "none"
  BY <1>1, <1>2, <1>3 DEF Call
<1>5. PageTyped'
  BY <1>1, <1>4 DEF PageInv, PageTyped
<1>6. own = {} /\ told = {} /\ stop = "none" /\ left = {} /\ said = Silent
  BY <1>2 DEF PageInv, RunTrue, PageWhere
<1>7. RunTrue'
  BY <1>1, <1>2, <1>4, <1>6, BeforeRun
<1> QED BY <1>5, <1>7 DEF PageInv

LEMMA AsideTyped == ASSUME PageTyped, Aside PROVE aside' \in 0..MaxAside
BY ImportPageAssumption DEF PageTyped, Aside

LEMMA NothingFoundKeeps == ASSUME PageInv, NothingFound PROVE PageInv'
<1>1. UNCHANGED <<filedGuids, room, strays, stage, offer, picked, said, left, stop, own, deaf, told, visits, wanted>>
      /\ call # NoCall /\ call.what \in {"find", "read", "check"} /\ call' = NoCall /\ Aside
  BY DEF NothingFound, serverVars, runVars
<1>2. stage \in {"source", "finding"}
  BY <1>1 DEF PageInv, RunTrue, PageWhere, Working
<1>3. PageTyped'
  BY <1>1, AsideTyped DEF PageInv, PageTyped
<1>4. own = {} /\ told = {} /\ stop = "none" /\ left = {} /\ said = Silent
  BY <1>2 DEF PageInv, RunTrue, PageWhere
<1>5. RunTrue'
  BY <1>1, <1>2, <1>4, BeforeRun
<1> QED BY <1>3, <1>5 DEF PageInv

LEMMA ShowPickerKeeps == ASSUME PageInv, ShowPicker PROVE PageInv'
<1>1. UNCHANGED <<filedGuids, room, strays, left, stop, own, deaf, told, aside, visits, wanted>>
      /\ call # NoCall /\ call.what \in {"find", "check"} /\ said' = Silent /\ stage' = "pick" /\ call' = NoCall
  BY DEF ShowPicker, serverVars
<1>2. PICK rows \in Line, guid \in [Line -> Guid], thin \in SUBSET Line :
        offer' = [door |-> DoorAsked, rows |-> rows, guid |-> guid, thin |-> thin,
                  known |-> filedGuids, slots |-> room] /\ picked' = Ticked(offer')
  BY DEF ShowPicker
<1>3. PICK o : o = [door |-> DoorAsked, rows |-> rows, guid |-> guid, thin |-> thin,
                    known |-> filedGuids, slots |-> room]
  OBVIOUS
<1>4. o \in Offer /\ o # NoOffer
  <2>1. DoorAsked \in Door /\ filedGuids \in SUBSET Guid /\ room \in 0..RoomAtMost /\ rows \in 1..LastLine
    BY DEF PageInv, PageTyped, DoorAsked, Door, Line
  <2>2. o \in Offer
    BY <1>3, <2>1 DEF Offer
  <2> QED BY <2>2, PageNullsAssumption
<1>5. offer' = o /\ picked' = Ticked(o)
  BY <1>2, <1>3
<1>6. Ticked(o) \in SUBSET Guid /\ Ticked(o) \subseteq Listed(o)
  BY <1>4, TickedFacts
<1>7. stage \in {"source", "finding"}
  BY <1>1 DEF PageInv, RunTrue, PageWhere, Working
<1>8. own = {} /\ told = {} /\ stop = "none" /\ left = {} /\ said = Silent
  BY <1>7 DEF PageInv, RunTrue, PageWhere
<1>9. PageTyped'
  BY <1>1, <1>4, <1>5, <1>6, <1>8 DEF PageInv, PageTyped
<1>10. RunTrue'
  BY <1>1, <1>4, <1>5, <1>6, <1>8, BeforeRun
<1> QED BY <1>9, <1>10 DEF PageInv

LEMMA ToggleKeeps == ASSUME PageInv, NEW g \in Guid, Toggle(g) PROVE PageInv'
<1>1. UNCHANGED <<filedGuids, room, strays, stage, offer, said, left, stop, own, deaf, told, call, aside, visits>>
      /\ stage = "pick" /\ g \in Listed(offer)
  BY DEF Toggle, serverVars, runVars
<1>2. picked' = (IF g \in picked THEN picked \ {g} ELSE picked \cup {g})
      /\ wanted' = [wanted EXCEPT !.hand = IF g \in picked THEN @ \ {g} ELSE @ \cup {g}]
  BY DEF Toggle
<1>3. PICK w \in [hand : SUBSET Guid, run : SUBSET Guid] : w = wanted
  BY DEF PageInv, PageTyped
<1>4. wanted' \in [hand : SUBSET Guid, run : SUBSET Guid]
      /\ wanted'.hand = (IF g \in picked THEN w.hand \ {g} ELSE w.hand \cup {g})
  BY <1>2, <1>3
<1>5. own = {} /\ told = {} /\ stop = "none" /\ left = {} /\ said = Silent /\ offer # NoOffer /\ call = NoCall
      /\ picked \subseteq Listed(offer) /\ picked \ w.hand \subseteq Ticked(offer)
  BY <1>1, <1>3 DEF PageInv, RunTrue, PageWhere, Working
<1>6. PageTyped'
  BY <1>1, <1>2, <1>4 DEF PageInv, PageTyped
<1>7. picked' \subseteq Listed(offer) /\ picked' \ wanted'.hand \subseteq Ticked(offer)
  BY <1>1, <1>2, <1>4, <1>5
<1>8. RunTrue'
  BY <1>1, <1>5, <1>7, BeforeRun
<1> QED BY <1>6, <1>8 DEF PageInv

LEMMA ToggleAllKeeps == ASSUME PageInv, ToggleAll PROVE PageInv'
<1>1. UNCHANGED <<filedGuids, room, strays, stage, offer, said, left, stop, own, deaf, told, call, aside, visits, wanted>>
      /\ stage = "pick" /\ picked' = (IF picked = {} THEN Ticked(offer) ELSE {})
  BY DEF ToggleAll, serverVars, runVars
<1>2. own = {} /\ told = {} /\ stop = "none" /\ left = {} /\ said = Silent /\ offer # NoOffer /\ call = NoCall
  BY <1>1 DEF PageInv, RunTrue, PageWhere, Working
<1>3. PICK o \in Offer : o = offer
  BY <1>2 DEF PageInv, PageTyped
<1>4. Ticked(o) \in SUBSET Guid /\ Ticked(o) \subseteq Listed(o)
  BY TickedFacts
<1>5. picked' \in SUBSET Guid /\ picked' \subseteq Listed(offer) /\ picked' \subseteq Ticked(offer)
  BY <1>1, <1>3, <1>4
<1>6. PageTyped'
  BY <1>1, <1>5 DEF PageInv, PageTyped
<1>7. RunTrue'
  BY <1>1, <1>2, <1>5, BeforeRun
<1> QED BY <1>6, <1>7 DEF PageInv

LEMMA AnotherSourceKeeps == ASSUME PageInv, AnotherSource PROVE PageInv'
<1>1. UNCHANGED <<filedGuids, room, strays, picked, said, left, stop, own, deaf, told, call, aside, visits>>
      /\ stage = "pick" /\ stage' = "source" /\ offer' = NoOffer /\ wanted' = [wanted EXCEPT !.hand = {}]
  BY DEF AnotherSource, serverVars, runVars
<1>2. own = {} /\ told = {} /\ stop = "none" /\ left = {} /\ said = Silent /\ call = NoCall
  BY <1>1 DEF PageInv, RunTrue, PageWhere, Working
<1>3. wanted' \in [hand : SUBSET Guid, run : SUBSET Guid]
  BY <1>1 DEF PageInv, PageTyped
<1>4. PageTyped'
  BY <1>1, <1>3 DEF PageInv, PageTyped
<1>5. RunTrue'
  BY <1>1, <1>2, BeforeRun
<1> QED BY <1>4, <1>5 DEF PageInv

LEMMA StrayHandledKeeps == ASSUME PageInv, NEW g \in Guid, StrayHandled(g) PROVE PageInv'
<1>1. UNCHANGED <<stage, offer, picked, said, left, stop, own, deaf, told, call, aside, visits, wanted>>
      /\ strays' = strays \ {g}
  BY DEF StrayHandled, runVars
<1>2. PICK long \in BOOLEAN : Files(g, Verdict(g, long))
  BY DEF StrayHandled
<1>3. filedGuids' \in SUBSET Guid /\ room' \in 0..RoomAtMost
  BY <1>2, ImportPageAssumption DEF PageInv, PageTyped, Files, Verdict
<1>4. PageTyped'
  BY <1>1, <1>3 DEF PageInv, PageTyped
<1>5. RunTrue'
  BY <1>1, RunUntouched DEF PageInv
<1> QED BY <1>4, <1>5 DEF PageInv

LEMMA ElsewhereKeeps == ASSUME PageInv, NEW g \in Guid, Elsewhere(g) PROVE PageInv'
<1>1. UNCHANGED <<strays, stage, offer, picked, said, left, stop, own, deaf, told, call, visits, wanted>> /\ Aside
  BY DEF Elsewhere, runVars
<1>2. filedGuids' \in SUBSET Guid /\ room' \in 0..RoomAtMost
  BY ImportPageAssumption DEF PageInv, PageTyped, Files, Elsewhere
<1>3. PageTyped'
  BY <1>1, <1>2, AsideTyped DEF PageInv, PageTyped
<1>4. RunTrue'
  BY <1>1, RunUntouched DEF PageInv
<1> QED BY <1>3, <1>4 DEF PageInv

-----------------------------------------------------------------------------
(* The run.                                                                 *)

LEMMA FirstOfLeft == ASSUME PageInv, left # {} PROVE FirstLeft \in left
<1>1. left \in SUBSET Nat
  BY ImportPageAssumption DEF PageInv, PageTyped, Line
<1>2. \E m \in left : \A n \in left : m <= n
  BY <1>1, LeastOne
<1> QED BY <1>2 DEF FirstLeft

(* The offer of a page in its run, and the rows it has.                     *)
LEMMA OfferFacts ==
  ASSUME PageInv, stage \in {"pick", "importing", "done"}
  PROVE  /\ offer \in Offer /\ offer # NoOffer /\ offer.guid \in [Line -> Guid]
         /\ Lines(offer) \subseteq Line /\ \A r \in Lines(offer) : offer.guid[r] \in Guid
<1>1. offer # NoOffer /\ offer \in Offer
  BY DEF PageInv, PageTyped, RunTrue, PageWhere
<1>2. offer.rows \in 1..LastLine /\ offer.guid \in [Line -> Guid]
  BY <1>1 DEF Offer
<1>3. Lines(offer) \subseteq Line
  BY <1>2, ImportPageAssumption DEF Lines, Line
<1> QED BY <1>1, <1>2, <1>3

LEMMA WorkingFacts ==
  ASSUME PageInv, Working
  PROVE  /\ stage = "importing" /\ call \in Call /\ call # NoCall /\ call.row \in Lines(offer) /\ call.row \notin left
         /\ offer.guid[call.row] \in Guid
<1>1. stage = "importing" /\ call # NoCall /\ call.row \in Lines(offer) \ left
  BY DEF PageInv, RunTrue, PageWhere, Working
<1>2. call \in Call
  BY <1>1 DEF PageInv, PageTyped
<1> QED BY <1>1, <1>2, OfferFacts

LEMMA RunImportKeeps == ASSUME PageInv, RunImport PROVE PageInv'
<1>1. PICK rows : rows = {r \in Lines(offer) : offer.guid[r] \in picked}
  OBVIOUS
<1>2. /\ UNCHANGED <<filedGuids, room, strays, offer, picked, stop, own, deaf, told, call, aside, visits>>
      /\ stage = "pick" /\ stage' = "importing" /\ left' = rows
      /\ said' = [g \in Guid |-> IF g \in picked THEN "pending" ELSE "none"]
      /\ wanted' = [wanted EXCEPT !.run = picked]
  BY <1>1 DEF RunImport, serverVars
<1>3. own = {} /\ told = {} /\ stop = "none" /\ offer # NoOffer /\ call = NoCall /\ picked \subseteq Listed(offer)
  BY <1>2 DEF PageInv, RunTrue, PageWhere, Working
<1>4. rows \in SUBSET Line /\ rows \subseteq Lines(offer) /\ picked \in SUBSET Guid
  BY <1>1, <1>2, OfferFacts DEF PageInv, PageTyped
<1>5. \A g \in picked : \E r \in rows : offer.guid[r] = g
  BY <1>1, <1>3 DEF Listed
<1>6. wanted' \in [hand : SUBSET Guid, run : SUBSET Guid] /\ wanted'.run = picked
  BY <1>2, <1>4 DEF PageInv, PageTyped
<1>7. said' \in [Guid -> Word] /\ \A g \in Guid : said'[g] = IF g \in picked THEN "pending" ELSE "none"
  BY <1>2 DEF Word
<1>8. PageTyped'
  BY <1>2, <1>4, <1>6, <1>7 DEF PageInv, PageTyped
<1>9. ~Working'
  BY <1>2, <1>3 DEF Working
<1>10. PageWhere'
  BY <1>2, <1>3, <1>4, <1>9 DEF PageWhere
<1>11. OwnTrue'
  BY <1>1, <1>2, <1>3, <1>6, <1>9 DEF OwnTrue, Own
<1>12. SaidTrue'
  BY <1>2, <1>4, <1>5, <1>6, <1>7, <1>9 DEF SaidTrue
<1>13. RowsAreTrue'
  BY <1>2, <1>3, <1>7 DEF RowsAreTrue, Own, Reason
<1> QED BY <1>8, <1>10, <1>11, <1>12, <1>13 DEF PageInv, RunTrue

LEMMA RunDoneKeeps == ASSUME PageInv, RunDone PROVE PageInv'
<1>1. /\ UNCHANGED <<filedGuids, room, strays, offer, picked, said, left, stop, own, deaf, told, call, aside, visits, wanted>>
      /\ stage = "importing" /\ stage' = "done" /\ call = NoCall /\ left = {}
  BY DEF RunDone, serverVars, runVars
<1>2. PageTyped'
  BY <1>1 DEF PageInv, PageTyped
<1>3. ~Working /\ ~Working'
  BY <1>1 DEF Working
<1>4. PageWhere'
  BY <1>1, <1>3 DEF PageInv, RunTrue, PageWhere
<1>5. OwnTrue'
  BY <1>1, <1>3 DEF PageInv, RunTrue, OwnTrue, Own, FiledLine, Working
<1>6. SaidTrue'
  BY <1>1, <1>3 DEF PageInv, RunTrue, SaidTrue
<1>7. RowsAreTrue'
  BY <1>1 DEF PageInv, RunTrue, RowsAreTrue, Own, ListedTwice
<1> QED BY <1>2, <1>4, <1>5, <1>6, <1>7 DEF PageInv, RunTrue

LEMMA LeavePageKeeps == ASSUME PageInv, LeavePage PROVE PageInv'
<1>1. /\ UNCHANGED <<filedGuids, room, offer, picked, said, left, stop, own, deaf, told, aside, visits, wanted>>
      /\ stage' = "away" /\ call' = NoCall
      /\ strays' = IF Calls("draft") /\ call.ans = "none" THEN strays \cup {offer.guid[call.row]} ELSE strays
  BY DEF LeavePage, runVars
<1>2. strays' \in SUBSET Guid
  <2>1. Calls("draft") => offer.guid[call.row] \in Guid
    BY WorkingFacts DEF Calls, Working
  <2> QED BY <1>1, <2>1 DEF PageInv, PageTyped
<1>3. PageTyped'
  BY <1>1, <1>2 DEF PageInv, PageTyped
<1>4. ~Working'
  BY <1>1 DEF Working
<1>5. PageWhere'
  BY <1>1, <1>4 DEF PageInv, RunTrue, PageWhere
<1>6. OwnTrue'
  BY <1>1, <1>4 DEF PageInv, RunTrue, OwnTrue, Own, FiledLine
<1>7. SaidTrue'
  BY <1>1, <1>4 DEF SaidTrue
<1>8. RowsAreTrue'
  BY <1>1 DEF PageInv, RunTrue, RowsAreTrue, Own, ListedTwice
<1> QED BY <1>3, <1>5, <1>6, <1>7, <1>8 DEF PageInv, RunTrue

(* What is said of a row the run is at: a refusal or a failure of one that  *)
(* another row has filed is of a guid listed twice.                         *)
LEMMA OtherRow ==
  ASSUME PageInv, stage = "importing", NEW r \in Lines(offer), ~FiledLine(r), offer.guid[r] \in Own
  PROVE  ListedTwice(offer.guid[r])
<1>1. PICK n \in Line : FiledLine(n) /\ offer.guid[n] = offer.guid[r]
  BY DEF PageInv, RunTrue, OwnTrue
<1>2. n \in Lines(offer) /\ n # r
  BY <1>1 DEF FiledLine
<1>3. offer \in Offer
  BY OfferFacts
<1> QED BY <1>1, <1>2, <1>3, TwoRows

(* The word for a row, where nothing else is said.                          *)
LEMMA Saying ==
  ASSUME PageInv, stage = "importing", NEW r \in Lines(offer), NEW w \in Word, Say(r, w),
         own' = own, offer' = offer, deaf \subseteq deaf', told \subseteq told',
         w \in {"saved", "saved, cut"} => [guid |-> offer.guid[r], cut |-> w = "saved, cut"] \in own,
         w \in Reason \cup {"failed"} => ~FiledLine(r) \/ offer.guid[r] \in deaf',
         w \in Reason => w \in told'
  PROVE  /\ said' \in [Guid -> Word] /\ RowsAreTrue'
         /\ said'[offer.guid[r]] = w /\ \A g \in Guid : g # offer.guid[r] => said'[g] = said[g]
<1>1. offer.guid[r] \in Guid
  BY OfferFacts
<1>2. said \in [Guid -> Word]
  BY DEF PageInv, PageTyped
<1>3. said' \in [Guid -> Word] /\ said'[offer.guid[r]] = w
      /\ \A g \in Guid : g # offer.guid[r] => said'[g] = said[g]
  BY <1>1, <1>2 DEF Say
<1>4. w \in Reason \cup {"failed"} /\ offer.guid[r] \in Own => offer.guid[r] \in deaf' \/ ListedTwice(offer.guid[r])
  BY OtherRow
<1>5. \A g \in Guid : ListedTwice(g)' <=> ListedTwice(g)
  BY DEF ListedTwice
<1>6. Own' = Own
  BY DEF Own
<1>7. RowsAreTrue'
  BY <1>3, <1>4, <1>5, <1>6 DEF PageInv, RunTrue, RowsAreTrue
<1> QED BY <1>3, <1>7

(* A step of the run that settles a row, or goes on with it.                *)
LEMMA Spoken ==
  ASSUME PageInv, stage = "importing", stage' = "importing", NEW r \in Lines(offer), NEW w \in Word, Say(r, w),
         own' = own, offer' = offer, wanted' = wanted, deaf \subseteq deaf', told \subseteq told',
         w \in {"saved", "saved, cut"} => [guid |-> offer.guid[r], cut |-> w = "saved, cut"] \in own,
         w \in Reason \cup {"failed"} => ~FiledLine(r) \/ offer.guid[r] \in deaf',
         w \in Reason => w \in told',
         left' = left \ {r}, Working => call.row = r, stop' # "none" => stop' \in told',
         r \in left => offer.guid[r] \in wanted.run,
         \/ call' = NoCall /\ w \notin {"none", "pending", "reading", "saving"}
         \/ /\ call' \in Call /\ call' # NoCall /\ call'.what \in {"assemble", "draft"} /\ call'.row = r
            /\ call'.ans = "none" /\ w = (IF call'.what = "assemble" THEN "reading" ELSE "saving") /\ ~FiledLine(r)
  PROVE  said' \in [Guid -> Word] /\ RunTrue'
<1>1. said' \in [Guid -> Word] /\ RowsAreTrue' /\ said'[offer.guid[r]] = w
      /\ \A g \in Guid : g # offer.guid[r] => said'[g] = said[g]
  BY Saying
<1>2. Working' => call'.row = r /\ call'.ans = "none" /\ ~FiledLine(r)
                  /\ w = (IF call'.what = "assemble" THEN "reading" ELSE "saving")
  BY DEF Working
<1>3. ~Working' => w \notin {"none", "pending", "reading", "saving"}
  BY DEF Working
<1>4. offer # NoOffer /\ left \subseteq Lines(offer) /\ wanted.run \in SUBSET Guid
  BY OfferFacts DEF PageInv, PageTyped, RunTrue, PageWhere
<1>5. PageWhere'
  BY <1>2, <1>4 DEF PageWhere, Lines, Working
<1>6. OwnTrue'
  <2>1. \A n \in Line : FiledLine(n) => FiledLine(n)'
    BY <1>2 DEF FiledLine, Lines
  <2>2. Own' = Own
    BY DEF Own
  <2>3. \A g \in Own' : g \in wanted'.run /\ \E n \in Line : FiledLine(n)' /\ offer'.guid[n] = g
    BY <2>1, <2>2 DEF PageInv, RunTrue, OwnTrue
  <2>4. \A n \in left' : offer'.guid[n] \in wanted'.run
    BY DEF PageInv, RunTrue, OwnTrue
  <2>5. offer.guid[r] \in wanted.run \/ ~Working'
    <3>1. CASE r \in left
      BY <3>1
    <3>2. CASE Working
      BY <3>2 DEF PageInv, RunTrue, OwnTrue
    <3>3. CASE r \notin left /\ ~Working
      BY <1>2, <3>3 DEF FiledLine
    <3> QED BY <3>1, <3>2, <3>3
  <2>6. Working' => offer'.guid[call'.row] \in wanted'.run
    BY <1>2, <2>5
  <2>7. ~(Working' /\ (call'.ans = "ok" \/ call'.ans \in Reason))
    BY <1>2 DEF Reason
  <2> QED BY <2>3, <2>4, <2>6, <2>7 DEF OwnTrue
<1>7. SaidTrue'
  <2>1. Working' => said'[offer'.guid[call'.row]] = (IF call'.what = "assemble" THEN "reading" ELSE "saving")
    BY <1>1, <1>2
  <2>2. ASSUME NEW g \in wanted.run
        PROVE  /\ said'[g] # "none"
               /\ said'[g] = "pending" => \E n \in left' : offer.guid[n] = g
               /\ said'[g] \in {"reading", "saving"} => Working' /\ offer.guid[call'.row] = g
    <3>1. CASE g = offer.guid[r]
      BY <1>1, <1>2, <1>3, <3>1
    <3>2. CASE g # offer.guid[r]
      <4>1. said'[g] = said[g]
        BY <1>1, <1>4, <3>2
      <4>2. said[g] # "none" /\ (said[g] = "pending" => \E n \in left : offer.guid[n] = g)
            /\ (said[g] \in {"reading", "saving"} => Working /\ offer.guid[call.row] = g)
        BY DEF PageInv, RunTrue, SaidTrue
      <4>3. said[g] \notin {"reading", "saving"}
        BY <3>2, <4>2
      <4> QED BY <3>2, <4>1, <4>2, <4>3
    <3> QED BY <3>1, <3>2
  <2> QED BY <2>1, <2>2 DEF SaidTrue
<1> QED BY <1>1, <1>5, <1>6, <1>7 DEF RunTrue

LEMMA WordsSaid ==
  /\ Reason \subseteq Word /\ {"pending", "reading", "saving", "saved", "saved, cut", "failed"} \subseteq Word
  /\ {"none", "pending", "reading", "saving", "saved", "saved, cut", "failed", "ok"} \cap Reason = {}
BY DEF Reason, Word

LEMMA SkipRowKeeps == ASSUME PageInv, SkipRow PROVE PageInv'
<1>1. PICK r : r = FirstLeft
  OBVIOUS
<1>2. /\ UNCHANGED <<filedGuids, room, strays, stage, offer, picked, stop, own, deaf, told, call, aside, visits, wanted>>
      /\ stage = "importing" /\ call = NoCall /\ stop # "none" /\ Say(r, stop) /\ left' = left \ {r} /\ r \in left
  BY <1>1, FirstOfLeft DEF SkipRow, serverVars
<1>3. r \in Lines(offer) /\ ~FiledLine(r) /\ ~Working
  BY <1>2 DEF PageInv, RunTrue, PageWhere, FiledLine, Working
<1>4. stop \in Reason /\ stop \in told /\ offer.guid[r] \in wanted.run
  BY <1>2 DEF PageInv, PageTyped, RunTrue, OwnTrue
<1>5. said' \in [Guid -> Word] /\ RunTrue'
  BY <1>2, <1>3, <1>4, WordsSaid, Spoken
<1>6. PageTyped'
  BY <1>2, <1>5 DEF PageInv, PageTyped
<1> QED BY <1>5, <1>6 DEF PageInv

LEMMA StartRowKeeps == ASSUME PageInv, StartRow PROVE PageInv'
<1>1. PICK r : r = FirstLeft
  OBVIOUS
<1>2. PICK what : what = IF offer.door = "threads" THEN "assemble" ELSE "draft"
  OBVIOUS
<1>3. PICK w : w = IF what = "assemble" THEN "reading" ELSE "saving"
  OBVIOUS
<1>4. /\ UNCHANGED <<filedGuids, room, strays, stage, offer, picked, stop, own, deaf, told, aside, visits, wanted>>
      /\ stage = "importing" /\ call = NoCall /\ stop = "none" /\ Say(r, w) /\ left' = left \ {r} /\ r \in left
      /\ call' = [Still EXCEPT !.what = what, !.row = r]
  BY <1>1, <1>2, <1>3, FirstOfLeft DEF StartRow, serverVars
<1>5. r \in Lines(offer) /\ ~FiledLine(r) /\ ~Working /\ offer.guid[r] \in wanted.run
  BY <1>4 DEF PageInv, RunTrue, PageWhere, OwnTrue, FiledLine, Working
<1>6. r \in 0..LastLine
  BY <1>4, <1>5, OfferFacts, ImportPageAssumption DEF Line
<1>7. call' \in Call /\ call'.what = what /\ call'.row = r /\ call'.ans = "none"
  BY <1>2, <1>4, <1>6 DEF Call, Still
<1>8. call' # NoCall /\ w \in Word /\ what \in {"assemble", "draft"} /\ w \in {"reading", "saving"}
  BY <1>2, <1>3, <1>7, WordsSaid, PageNullsAssumption
<1>9. said' \in [Guid -> Word] /\ RunTrue'
  BY <1>3, <1>4, <1>5, <1>7, <1>8, WordsSaid, Spoken
<1>10. PageTyped'
  BY <1>4, <1>7, <1>9 DEF PageInv, PageTyped
<1> QED BY <1>9, <1>10 DEF PageInv

LEMMA ThreadReadKeeps == ASSUME PageInv, ThreadRead PROVE PageInv'
<1>1. PICK r : r = call.row
  OBVIOUS
<1>2. /\ UNCHANGED <<filedGuids, room, strays, stage, offer, picked, left, own, deaf, visits, wanted>>
      /\ call # NoCall /\ call.what = "assemble"
  BY DEF ThreadRead, serverVars, Calls
<1>3. stage = "importing" /\ r \in Lines(offer) /\ r \notin left /\ Working /\ ~FiledLine(r)
  <2>1. Working
    BY <1>2 DEF Working
  <2>2. call.ans = "none"
    BY <1>2, <2>1 DEF PageInv, RunTrue, PageWhere
  <2> QED BY <1>1, <2>1, <2>2, WorkingFacts DEF FiledLine
<1>4. PICK c \in Call : c = call /\ c.ans = "none" /\ c.row = r
  BY <1>1, <1>2, <1>3, WorkingFacts DEF PageInv, RunTrue, PageWhere
<1>5. left' = left \ {r} /\ (stop # "none" => stop \in told) /\ told \in SUBSET Reason /\ stop \in Reason \cup {"none"}
  BY <1>2, <1>3 DEF PageInv, PageTyped, RunTrue, OwnTrue
<1>6. CASE /\ \E cut \in BOOLEAN : call' = [call EXCEPT !.what = "draft", !.cut = cut]
           /\ Say(call.row, "saving") /\ UNCHANGED <<stop, told, aside>>
  <2>1. PICK cut \in BOOLEAN : call' = [c EXCEPT !.what = "draft", !.cut = cut]
    BY <1>4, <1>6
  <2>2. call' \in Call /\ call'.what = "draft" /\ call'.row = r /\ call'.ans = "none"
    BY <1>4, <2>1 DEF Call
  <2>3. call' # NoCall
    BY <2>2, PageNullsAssumption
  <2>4. Say(r, "saving") /\ UNCHANGED <<stop, told, aside>>
    BY <1>1, <1>6
  <2>5. said' \in [Guid -> Word] /\ RunTrue'
    BY <1>1, <1>2, <1>3, <1>5, <2>2, <2>3, <2>4, WordsSaid, Spoken
  <2>6. PageTyped'
    BY <1>2, <2>2, <2>4, <2>5 DEF PageInv, PageTyped
  <2> QED BY <2>5, <2>6 DEF PageInv
<1>7. CASE /\ Aside /\ call' = NoCall /\ Say(call.row, "failed")
           /\ \/ stop' = "too many threads" /\ told' = told \cup {"too many threads"}
              \/ UNCHANGED <<stop, told>>
  <2>1. Say(r, "failed") /\ aside' \in 0..MaxAside /\ call' = NoCall
    BY <1>1, <1>7, AsideTyped DEF PageInv
  <2>2. told \subseteq told' /\ (stop' # "none" => stop' \in told') /\ told' \in SUBSET Reason
        /\ stop' \in Reason \cup {"none"}
    BY <1>5, <1>7 DEF Reason
  <2>3. said' \in [Guid -> Word] /\ RunTrue'
    BY <1>1, <1>2, <1>3, <1>5, <2>1, <2>2, WordsSaid, Spoken
  <2>4. PageTyped'
    BY <1>2, <2>1, <2>2, <2>3 DEF PageInv, PageTyped
  <2> QED BY <2>3, <2>4 DEF PageInv
<1> QED BY <1>6, <1>7 DEF ThreadRead

LEMMA HandleDraftKeeps == ASSUME PageInv, HandleDraft PROVE PageInv'
<1>1. PICK r : r = call.row
  OBVIOUS
<1>2. UNCHANGED <<strays, stage, offer, picked, said, left, stop, deaf, aside, visits, wanted>>
      /\ call # NoCall /\ call.what = "draft" /\ call.ans = "none"
  BY DEF HandleDraft, Calls
<1>3. Working /\ stage = "importing" /\ r \in Lines(offer) /\ r \notin left /\ ~FiledLine(r) /\ r \in Line
  <2>1. Working
    BY <1>2 DEF Working
  <2> QED BY <1>1, <1>2, <2>1, WorkingFacts, OfferFacts DEF FiledLine
<1>4. PICK g \in Guid : g = offer.guid[r]
  BY <1>1, <1>3, WorkingFacts
<1>5. PICK c \in Call : c = call /\ c.row = r /\ c.what = "draft"
  BY <1>1, <1>2, <1>3, WorkingFacts
<1>6. PICK long \in BOOLEAN : LET v == Verdict(offer.guid[call.row], long)
        IN  /\ Files(offer.guid[call.row], v)
            /\ own' = IF v = "ok" THEN own \cup {[guid |-> offer.guid[call.row], cut |-> call.cut]} ELSE own
            /\ told' = IF v = "ok" THEN told ELSE told \cup {v}
            /\ call' = [call EXCEPT !.ans = v]
  BY DEF HandleDraft
<1>7. PICK v : v = Verdict(g, long)
  OBVIOUS
<1>8. /\ Files(g, v) /\ own' = IF v = "ok" THEN own \cup {[guid |-> g, cut |-> c.cut]} ELSE own
      /\ told' = IF v = "ok" THEN told ELSE told \cup {v}
      /\ call' = [c EXCEPT !.ans = v]
  BY <1>1, <1>4, <1>5, <1>6, <1>7
<1>9. v \in {"ok"} \cup Reason /\ (v = "ok" => room # 0)
  BY <1>7 DEF Verdict, Reason
<1>10. call' \in Call /\ call'.what = "draft" /\ call'.row = r /\ call'.ans = v /\ call'.cut = c.cut /\ c.cut \in BOOLEAN
  BY <1>5, <1>8, <1>9 DEF Call
<1>11. call' # NoCall
  BY <1>10, PageNullsAssumption
<1>12. Working'
  BY <1>10, <1>11 DEF Working
<1>13. PageTyped'
  <2>1. filedGuids' \in SUBSET Guid /\ room' \in 0..RoomAtMost
    BY <1>8, <1>9, ImportPageAssumption DEF PageInv, PageTyped, Files
  <2>2. own' \in SUBSET [guid : Guid, cut : BOOLEAN] /\ told' \in SUBSET Reason
    BY <1>8, <1>9, <1>10 DEF PageInv, PageTyped
  <2> QED BY <1>2, <1>10, <2>1, <2>2 DEF PageInv, PageTyped
<1>14. PageWhere'
  <2>1. offer # NoOffer /\ left \subseteq Lines(offer)
    BY <1>3 DEF PageInv, RunTrue, PageWhere
  <2> QED BY <1>2, <1>3, <1>10, <1>12, <2>1 DEF PageWhere, Lines
<1>15. \A f \in own' : f \in own \/ (v = "ok" /\ f.guid = g)
  BY <1>8
<1>16. Own' \subseteq IF v = "ok" THEN Own \cup {g} ELSE Own
  BY <1>15 DEF Own
<1>17. OwnTrue'
  <2>1. \A n \in Line : FiledLine(n) => FiledLine(n)'
    BY <1>2, <1>3, <1>10 DEF FiledLine, Lines
  <2>2. v = "ok" => FiledLine(r)'
    BY <1>2, <1>3, <1>10 DEF FiledLine, Lines
  <2>3. g \in wanted.run /\ (\A h \in Own : h \in wanted.run /\ \E n \in Line : FiledLine(n) /\ offer.guid[n] = h)
    BY <1>1, <1>3, <1>4 DEF PageInv, RunTrue, OwnTrue
  <2>4. \A h \in Own' : h \in wanted'.run /\ \E n \in Line : FiledLine(n)' /\ offer'.guid[n] = h
    BY <1>2, <1>3, <1>4, <1>16, <2>1, <2>2, <2>3
  <2>5. call'.ans = "ok" => [guid |-> offer'.guid[call'.row], cut |-> call'.cut] \in own'
    BY <1>2, <1>4, <1>8, <1>10
  <2>6. call'.ans \in Reason => call'.ans \in told'
    <3>1. v \in Reason => v # "ok"
      BY DEF Reason
    <3>2. call'.ans = v /\ told' = IF v = "ok" THEN told ELSE told \cup {v}
      BY <1>8, <1>10
    <3> QED BY <3>1, <3>2
  <2>7. told \subseteq told'
    BY <1>8
  <2>8. (stop' # "none" => stop' \in told') /\ (\A n \in left' : offer'.guid[n] \in wanted'.run)
    BY <1>2, <1>3, <2>7 DEF PageInv, RunTrue, OwnTrue
  <2>9. offer'.guid[call'.row] \in wanted'.run
    BY <1>2, <1>4, <1>10, <2>3
  <2> QED BY <2>4, <2>5, <2>6, <2>8, <2>9 DEF OwnTrue
<1>18. said[g] = "saving"
  BY <1>1, <1>2, <1>3, <1>4 DEF PageInv, RunTrue, SaidTrue
<1>19. SaidTrue'
  <2>1. \A h \in wanted.run :
         /\ said[h] # "none" /\ (said[h] = "pending" => \E n \in left : offer.guid[n] = h)
         /\ said[h] \in {"reading", "saving"} => offer.guid[r] = h
    BY <1>1, <1>3 DEF PageInv, RunTrue, SaidTrue
  <2> QED BY <1>2, <1>3, <1>4, <1>10, <1>12, <1>18, <2>1 DEF SaidTrue
<1>20. RowsAreTrue'
  <2>1. \A h \in Guid : ListedTwice(h)' <=> ListedTwice(h)
    BY <1>2 DEF ListedTwice
  <2>2. own \subseteq own' /\ told \subseteq told'
    BY <1>8
  <2>3. ASSUME NEW h \in Guid
        PROVE  /\ said'[h] \in {"saved", "saved, cut"} => [guid |-> h, cut |-> said'[h] = "saved, cut"] \in own'
               /\ said'[h] \in Reason \cup {"failed"} /\ h \in Own' => h \in deaf' \/ ListedTwice(h)'
               /\ said'[h] \in Reason => said'[h] \in told'
    <3>1. CASE h = g
      BY <1>2, <1>18, <3>1, WordsSaid
    <3>2. CASE h # g
      <4>1. h \in Own' => h \in Own
        BY <1>16, <3>2
      <4>2. /\ said[h] \in {"saved", "saved, cut"} => [guid |-> h, cut |-> said[h] = "saved, cut"] \in own
            /\ said[h] \in Reason \cup {"failed"} /\ h \in Own => h \in deaf \/ ListedTwice(h)
            /\ said[h] \in Reason => said[h] \in told
        BY DEF PageInv, RunTrue, RowsAreTrue
      <4> QED BY <1>2, <2>1, <2>2, <4>1, <4>2
    <3> QED BY <3>1, <3>2
  <2> QED BY <2>3 DEF RowsAreTrue
<1> QED BY <1>13, <1>14, <1>17, <1>19, <1>20 DEF PageInv, RunTrue

LEMMA DraftAnsweredKeeps == ASSUME PageInv, DraftAnswered PROVE PageInv'
<1>1. PICK r : r = call.row
  OBVIOUS
<1>2. /\ UNCHANGED <<filedGuids, room, strays, stage, offer, picked, left, own, deaf, told, aside, visits, wanted>>
      /\ call # NoCall /\ call.what = "draft" /\ call.ans # "none" /\ call' = NoCall
      /\ Say(r, Says(call)) /\ stop' = Stops(call.ans)
  BY <1>1 DEF DraftAnswered, serverVars, Calls
<1>3. Working /\ stage = "importing" /\ r \in Lines(offer) /\ r \notin left
  <2>1. Working
    BY <1>2 DEF Working
  <2> QED BY <1>1, <2>1, WorkingFacts
<1>4. PICK c \in Call : c = call /\ c.row = r
  BY <1>1, <1>3, WorkingFacts
<1>5. c.ans \in {"ok"} \cup Reason /\ c.cut \in BOOLEAN
  BY <1>2, <1>4 DEF Call
<1>6. PICK w : w = Says(c)
  OBVIOUS
<1>7. (c.ans = "ok" => [guid |-> offer.guid[r], cut |-> c.cut] \in own) /\ (c.ans \in Reason => c.ans \in told)
  BY <1>1, <1>3, <1>4 DEF PageInv, RunTrue, OwnTrue
<1>8. Say(r, w) /\ w \in Word
  BY <1>2, <1>4, <1>5, <1>6, WordsSaid DEF Says
<1>9. w \in {"saved", "saved, cut"} => [guid |-> offer.guid[r], cut |-> w = "saved, cut"] \in own
  <2>1. CASE c.ans = "ok"
    <3>1. (w = "saved, cut") = c.cut
      BY <1>5, <1>6, <2>1 DEF Says
    <3> QED BY <1>7, <2>1, <3>1
  <2>2. CASE c.ans \in Reason
    BY <1>6, <2>2, WordsSaid DEF Says
  <2> QED BY <1>5, <2>1, <2>2
<1>10. w \in Reason \cup {"failed"} => ~FiledLine(r) /\ w \in told
  <2>1. CASE c.ans = "ok"
    BY <1>5, <1>6, <2>1, WordsSaid DEF Says
  <2>2. CASE c.ans \in Reason
    <3>1. c.ans # "ok" /\ w = c.ans
      BY <1>6, <2>2, WordsSaid DEF Says
    <3> QED BY <1>3, <1>4, <1>7, <2>2, <3>1 DEF FiledLine
  <2> QED BY <1>5, <2>1, <2>2
<1>11. w \notin {"none", "pending", "reading", "saving"}
  BY <1>5, <1>6, WordsSaid DEF Says
<1>12. (stop' # "none" => stop' \in told') /\ stop' \in Reason \cup {"none"} /\ left' = left \ {r}
  BY <1>2, <1>3, <1>4, <1>5, <1>7 DEF Stops, Reason
<1>13. said' \in [Guid -> Word] /\ RunTrue'
  BY <1>1, <1>2, <1>3, <1>8, <1>9, <1>10, <1>11, <1>12, Spoken
<1>14. PageTyped'
  BY <1>2, <1>12, <1>13 DEF PageInv, PageTyped
<1> QED BY <1>13, <1>14 DEF PageInv

LEMMA DraftUnheardKeeps == ASSUME PageInv, DraftUnheard PROVE PageInv'
<1>1. PICK r : r = call.row
  OBVIOUS
<1>2. /\ UNCHANGED <<filedGuids, room, strays, stage, offer, picked, left, stop, own, told, visits, wanted>>
      /\ call # NoCall /\ call.what = "draft" /\ call' = NoCall
      /\ Say(r, "failed") /\ deaf' = deaf \cup {offer.guid[r]} /\ Aside
  BY <1>1 DEF DraftUnheard, serverVars, Calls
<1>3. Working /\ stage = "importing" /\ r \in Lines(offer) /\ r \notin left /\ offer.guid[r] \in Guid
  <2>1. Working
    BY <1>2 DEF Working
  <2> QED BY <1>1, <2>1, WorkingFacts
<1>4. aside' \in 0..MaxAside /\ deaf' \in SUBSET Guid
  BY <1>2, <1>3, AsideTyped DEF PageInv, PageTyped
<1>5. (stop' # "none" => stop' \in told') /\ left' = left \ {r}
  BY <1>2, <1>3 DEF PageInv, RunTrue, OwnTrue
<1>6. said' \in [Guid -> Word] /\ RunTrue'
  BY <1>1, <1>2, <1>3, <1>5, WordsSaid, Spoken
<1>7. PageTyped'
  BY <1>2, <1>4, <1>6 DEF PageInv, PageTyped
<1> QED BY <1>6, <1>7 DEF PageInv

LEMMA PageStart == PageInit => PageInv
<1> SUFFICES ASSUME PageInit PROVE PageInv
  OBVIOUS
<1>1. Silent \in [Guid -> Word] /\ \A g \in Guid : Silent[g] = "none"
  BY DEF Silent, Word
<1>2. {1} \subseteq Guid
  BY ImportPageAssumption DEF Guid, Line
<1>3. PageTyped
  BY <1>1, <1>2, ImportPageAssumption DEF PageInit, PageTyped
<1>4. ~Working
  BY DEF PageInit, Working
<1>5. PageWhere /\ OwnTrue /\ SaidTrue
  BY <1>4 DEF PageInit, PageWhere, OwnTrue, SaidTrue, Own
<1>6. RowsAreTrue
  BY <1>1, WordsSaid DEF PageInit, RowsAreTrue, Own
<1> QED BY <1>3, <1>5, <1>6 DEF PageInv, RunTrue

LEMMA PageStep == PageInv /\ [PageNext]_pageVars => PageInv'
<1> SUFFICES ASSUME PageInv, [PageNext]_pageVars PROVE PageInv'
  OBVIOUS
<1>1. CASE UNCHANGED pageVars
  <2>1. UNCHANGED <<filedGuids, room, stage, offer, picked, said, left, stop, call, strays, aside, visits,
                    own, deaf, told, wanted>>
    BY <1>1 DEF pageVars
  <2>2. RunTrue'
    BY <2>1, RunUntouched DEF PageInv
  <2>3. PageTyped'
    BY <2>1 DEF PageInv, PageTyped
  <2> QED BY <2>2, <2>3 DEF PageInv
<1>2. CASE PageNext
  BY <1>2, OpenPageKeeps, AskForPostsKeeps, FileParsedKeeps, NothingFoundKeeps, ShowPickerKeeps, ToggleKeeps,
     ToggleAllKeeps, AnotherSourceKeeps, RunImportKeeps, SkipRowKeeps, StartRowKeeps, RunDoneKeeps,
     ThreadReadKeeps, HandleDraftKeeps, DraftAnsweredKeeps, DraftUnheardKeeps, LeavePageKeeps,
     StrayHandledKeeps, ElsewhereKeeps DEF PageNext
<1> QED BY <1>1, <1>2

LEMMA PageSays == PageInv => ImportSaysTrue
<1> SUFFICES ASSUME PageInv PROVE ImportSaysTrue
  OBVIOUS
<1>1. RowsAreTrue
  BY DEF PageInv, RunTrue
<1>2. OnlyTheTicked
  <2>1. Own \subseteq wanted.run
    BY DEF PageInv, RunTrue, OwnTrue
  <2>2. ASSUME stage = "pick"
        PROVE  /\ Cardinality(picked \ wanted.hand) <= offer.slots
               /\ \A g \in picked \ wanted.hand :
                    g \notin offer.known /\ \E r \in Lines(offer) \ offer.thin : offer.guid[r] = g
    <3>1. PICK o \in Offer : o = offer
      BY <2>2, OfferFacts
    <3>2. PICK unasked : unasked = picked \ wanted.hand
      OBVIOUS
    <3>3. unasked \subseteq Ticked(o)
      BY <2>2, <3>1, <3>2 DEF PageInv, RunTrue, PageWhere
    <3>4. /\ Ticked(o) \subseteq Listed(o) \ o.known /\ \A g \in Ticked(o) : \E r \in Lines(o) \ o.thin : o.guid[r] = g
          /\ IsFiniteSet(Ticked(o)) /\ Cardinality(Ticked(o)) <= o.slots
      BY TickedFacts
    <3>5. IsFiniteSet(unasked) /\ Cardinality(unasked) <= Cardinality(Ticked(o))
      BY <3>3, <3>4, FS_Subset
    <3>6. o.slots \in Nat
      BY ImportPageAssumption DEF Offer
    <3>7. Cardinality(unasked) \in Nat /\ Cardinality(Ticked(o)) \in Nat
      BY <3>4, <3>5, FS_CardinalityType
    <3>8. Cardinality(unasked) <= o.slots
      BY <3>4, <3>5, <3>6, <3>7
    <3> QED BY <3>1, <3>2, <3>3, <3>4, <3>8
  <2> QED BY <2>1, <2>2 DEF OnlyTheTicked
<1>3. AllSettled
  <2> SUFFICES ASSUME stage = "done", NEW g \in wanted.run
               PROVE  said[g] \notin {"pending", "reading", "saving", "none"}
    BY DEF AllSettled
  <2>1. ~Working
    BY WorkingFacts
  <2> QED BY <2>1 DEF PageInv, RunTrue, SaidTrue
<1> QED BY <1>1, <1>2, <1>3 DEF ImportSaysTrue

(* What the import page holds has its type (routes/import.tsx).             *)
THEOREM PageTypeCorrect == PageSpec => []PageTypeOK
<1>1. PageInv => PageTypeOK
  BY PageTypedCorrect DEF PageInv
<1> QED BY <1>1, PageStart, PageStep, PTL DEF PageSpec

(* What the import page says of every post is so, it brings over what was   *)
(* ticked and no more, and a finished run has settled them all.             *)
THEOREM ImportSaysTrueHolds == PageSpec => []ImportSaysTrue
BY PageStart, PageStep, PageSays, PTL DEF PageSpec

-----------------------------------------------------------------------------
(* Reading a repo.                                                          *)

LEMMA RecordKeys ==
  /\ LastRecord \in Nat /\ RecordKey \subseteq Nat /\ IsFiniteSet(RecordKey)
  /\ \A S \in SUBSET RecordKey : IsFiniteSet(S) /\ Cardinality(S) \in Nat
<1>1. LastRecord \in Nat /\ RecordKey \subseteq Nat
  BY ArchiveAssumption DEF RecordKey
<1>2. IsFiniteSet(RecordKey)
  BY <1>1, FS_Interval DEF RecordKey
<1> QED BY <1>1, <1>2, FS_Subset, FS_CardinalityType

(* The size of a page is a number.                                          *)
LEMMA BytesCount ==
  ASSUME repo \in [RecordKey -> {"none"} \cup DOMAIN Sizes], NEW page \in SUBSET RecordKey,
         \A k \in page : repo[k] # "none"
  PROVE  Bytes(page) \in Nat
<1>1. IsFiniteSet(page)
  BY RecordKeys
<1>2. PICK c : c = [s \in SUBSET page |-> CHOOSE x \in s : TRUE]
  OBVIOUS
<1>3. \A s \in SUBSET page : s # {} => c[s] \in s /\ c[s] = CHOOSE x \in s : TRUE
  BY <1>2
<1>4. PICK w : w = [k \in page |-> Sizes[repo[k]]]
  OBVIOUS
<1>5. w \in [page -> Nat]
  <2>1. \A k \in page : repo[k] \in DOMAIN Sizes
    OBVIOUS
  <2>2. \A d \in DOMAIN Sizes : Sizes[d] \in Nat
    BY ArchiveAssumption DEF Sizes
  <2> QED BY <1>4, <2>1, <2>2
<1>5a. PICK R : \E g \in [SUBSET page -> R] :
               Sums(g, c, w, page)
  <2>1. Picks(c, page)
    BY <1>3 DEF Picks
  <2> QED BY <1>1, <2>1, SumFound
<1>6. PICK g \in [SUBSET page -> R] : Sums(g, c, w, page)
  BY <1>5a
<1>7. \A s \in SUBSET page : s # {} => w[c[s]] = Sizes[repo[CHOOSE x \in s : TRUE]]
  BY <1>3, <1>4
<1>8. \A s \in SUBSET page : g[s] = IF s = {} THEN 0
           ELSE LET x == CHOOSE x \in s : TRUE IN Sizes[repo[x]] + g[s \ {x}]
  <2> SUFFICES ASSUME NEW s \in SUBSET page
               PROVE  g[s] = IF s = {} THEN 0 ELSE LET x == CHOOSE x \in s : TRUE IN Sizes[repo[x]] + g[s \ {x}]
    OBVIOUS
  <2>1. CASE s = {}
    BY <1>6, <2>1 DEF Sums
  <2>2. CASE s # {}
    <3>1. PICK x : x = CHOOSE y \in s : TRUE
      OBVIOUS
    <3>2. c[s] = x /\ w[c[s]] = Sizes[repo[x]]
      BY <1>3, <1>7, <2>2, <3>1
    <3>3. g[s] = Sizes[repo[x]] + g[s \ {x}]
      BY <1>6, <2>2, <3>2 DEF Sums
    <3> QED BY <2>2, <3>1, <3>3
  <2> QED BY <2>1, <2>2
<1> DEFINE Adds(f) == f = [s \in SUBSET page |-> IF s = {} THEN 0
           ELSE LET x == CHOOSE x \in s : TRUE IN Sizes[repo[x]] + f[s \ {x}]]
<1>9. PICK it : it = CHOOSE f : Adds(f)
  OBVIOUS
<1>10. it = [s \in SUBSET page |-> IF s = {} THEN 0
           ELSE LET x == CHOOSE x \in s : TRUE IN Sizes[repo[x]] + it[s \ {x}]]
  <2>1. Adds(g)
    BY <1>6, <1>8
  <2>2. Adds(it)
    <3> HIDE DEF Adds
    <3> QED BY <1>9, <2>1
  <2> QED BY <2>2
<1>11. \A s \in SUBSET page : it[s] = IF s = {} THEN 0 ELSE w[c[s]] + it[s \ {c[s]}]
  <2> SUFFICES ASSUME NEW s \in SUBSET page
               PROVE  it[s] = IF s = {} THEN 0 ELSE w[c[s]] + it[s \ {c[s]}]
    OBVIOUS
  <2>1. it[s] = IF s = {} THEN 0 ELSE LET x == CHOOSE x \in s : TRUE IN Sizes[repo[x]] + it[s \ {x}]
    BY <1>10
  <2>2. CASE s = {}
    BY <2>1, <2>2
  <2>3. CASE s # {}
    <3>1. PICK x : x = CHOOSE y \in s : TRUE
      OBVIOUS
    <3>2. c[s] = x /\ w[c[s]] = Sizes[repo[x]]
      BY <1>3, <1>7, <2>3, <3>1
    <3>3. it[s] = Sizes[repo[x]] + it[s \ {x}]
      BY <2>1, <2>3, <3>1
    <3> QED BY <2>3, <3>2, <3>3
  <2> QED BY <2>2, <2>3
<1>12. it[page] \in Nat
  <2>1. Picks(c, page)
    BY <1>3 DEF Picks
  <2>2. Sums(it, c, w, page)
    BY <1>11 DEF Sums
  <2> QED BY <2>1, <2>2, <1>1, <1>5, SumIsNat
<1>13. Bytes(page) = it[page]
  BY <1>9 DEF Bytes, MapThenSumSet, MapThenFoldSet
<1> QED BY <1>12, <1>13

(* A page is the newest below its cursor; short of its limit, it is all.    *)
LEMMA PageFacts ==
  ASSUME NEW cursor \in Nat, NEW limit \in Nat \ {0}, NEW page, page = Page(cursor, limit)
  PROVE  /\ page \subseteq Below(cursor) /\ page \in SUBSET RecordKey /\ \A k \in page : repo[k] # "none" /\ k < cursor
         /\ \A k \in page, j \in Below(cursor) : j >= k => j \in page
         /\ (page = {} \/ Cardinality(page) < limit => Below(cursor) \subseteq page)
<1>1. PICK below : below = Below(cursor)
  OBVIOUS
<1>2. below \in SUBSET RecordKey /\ \A k \in below : repo[k] # "none" /\ k < cursor
  BY <1>1 DEF Below, Written
<1>3. page = TopOf(below, limit) /\ page \subseteq below
  BY <1>1 DEF Page, TopOf
<1>4. LastRecord \in Nat /\ below \in SUBSET (0..LastRecord)
  BY <1>2, RecordKeys DEF RecordKey
<1>5. WithAllAbove(page, below) /\ (page = {} \/ Cardinality(page) < limit => below \subseteq page)
  BY <1>3, <1>4, TopFacts
<1> QED BY <1>1, <1>2, <1>3, <1>5 DEF WithAllAbove

(* The reading: what was there all along and is not below the cursor has    *)
(* been read, and nothing below it.                                         *)
WalkTrue ==
  walk # NoWalk =>
    /\ walk.through \subseteq WellFormed(Written)
    /\ \A k \in walk.through : k >= walk.cursor => k \in walk.got
    /\ \A k \in walk.got : k >= walk.cursor

ArchInv == ArchTypeOK /\ WalkTrue /\ ArchiveWhole

LEMMA WriteRecordKeeps == ASSUME ArchInv, NEW k \in RecordKey, WriteRecord(k) PROVE ArchInv'
<1>1. UNCHANGED <<walk, listing>> /\ changes' \in 0..MaxChanges /\ repo[k] = "none"
  BY ArchiveAssumption DEF ArchInv, ArchTypeOK, WriteRecord, Change
<1>2. PICK kind \in {"light", "heavy", "huge"} : repo' = [repo EXCEPT ![k] = kind]
  BY DEF WriteRecord
<1>3. repo' \in [RecordKey -> {"none"} \cup DOMAIN Sizes]
  BY <1>2 DEF ArchInv, ArchTypeOK, Sizes
<1>4. \A j \in RecordKey : j # k => repo'[j] = repo[j]
  BY <1>2 DEF ArchInv, ArchTypeOK
<1>5. WellFormed(Written) \subseteq WellFormed(Written)'
  BY <1>1, <1>4 DEF WellFormed, Written
<1>6. WalkTrue' /\ ArchiveWhole'
  BY <1>1, <1>5 DEF ArchInv, WalkTrue, ArchiveWhole
<1> QED BY <1>1, <1>3, <1>6 DEF ArchInv, ArchTypeOK

LEMMA RemoveRecordKeeps == ASSUME ArchInv, NEW k \in RecordKey, RemoveRecord(k) PROVE ArchInv'
<1>1. UNCHANGED listing /\ changes' \in 0..MaxChanges /\ repo' = [repo EXCEPT ![k] = "none"]
      /\ walk' = IF walk = NoWalk THEN walk ELSE [walk EXCEPT !.through = @ \ {k}]
  BY ArchiveAssumption DEF ArchInv, ArchTypeOK, RemoveRecord, Change
<1>2. repo' \in [RecordKey -> {"none"} \cup DOMAIN Sizes] /\ \A j \in RecordKey : j # k => repo'[j] = repo[j]
  BY <1>1 DEF ArchInv, ArchTypeOK
<1>3. WellFormed(Written) \ {k} \subseteq WellFormed(Written)'
  BY <1>2 DEF WellFormed, Written
<1>4. ArchiveWhole'
  BY <1>1 DEF ArchInv, ArchiveWhole
<1>5. CASE walk = NoWalk
  BY <1>1, <1>2, <1>4, <1>5 DEF ArchInv, ArchTypeOK, WalkTrue
<1>6. CASE walk # NoWalk
  <2>1. PICK w \in Walk : w = walk
    BY <1>6 DEF ArchInv, ArchTypeOK
  <2>2. walk' = [w EXCEPT !.through = @ \ {k}]
    BY <1>1, <1>6, <2>1
  <2>3. walk' \in Walk /\ walk'.through = w.through \ {k} /\ walk'.got = w.got /\ walk'.cursor = w.cursor
    BY <2>2 DEF Walk
  <2>4. WalkTrue'
    BY <1>3, <1>6, <2>1, <2>3 DEF ArchInv, WalkTrue
  <2> QED BY <1>1, <1>2, <1>4, <2>3, <2>4 DEF ArchInv, ArchTypeOK
<1> QED BY <1>5, <1>6

LEMMA BeginWalkKeeps == ASSUME ArchInv, BeginWalk PROVE ArchInv'
<1>1. /\ walk' = [cursor |-> LastRecord + 1, limit |-> ListLimit, retried |-> FALSE, page |-> 0,
                  got |-> {}, through |-> WellFormed(Written)]
      /\ listing' = NoListing /\ UNCHANGED <<repo, changes>>
  BY DEF BeginWalk
<1>2. WellFormed(Written) \in SUBSET RecordKey /\ WellFormed(Written)' = WellFormed(Written)
  BY <1>1 DEF WellFormed, Written
<1>3. LastRecord + 1 \in 1..LastRecord + 1 /\ ListLimit \in 1..ListLimit /\ 0 \in 0..ArchivePages - 1
  BY ArchiveAssumption
<1>4. walk' \in Walk /\ walk'.cursor = LastRecord + 1 /\ walk'.got = {} /\ walk'.through = WellFormed(Written)
  BY <1>1, <1>2, <1>3 DEF Walk
<1>5. \A k \in RecordKey : ~(k >= LastRecord + 1)
  BY RecordKeys DEF RecordKey
<1>6. WalkTrue'
  BY <1>2, <1>4, <1>5 DEF WalkTrue
<1> QED BY <1>1, <1>4, <1>6 DEF ArchInv, ArchTypeOK, ArchiveWhole

(* What a walk returns is a listing; one that fails says nothing.           *)
LEMMA ReturnTyped ==
  ASSUME ArchInv, walk # NoWalk, NEW failed \in BOOLEAN, NEW truncated \in BOOLEAN, NEW got \in SUBSET RecordKey,
         Return(failed, truncated, got), UNCHANGED <<repo, changes>>
  PROVE  /\ ArchTypeOK' /\ WalkTrue' /\ listing'.through = walk.through /\ listing'.got = got
         /\ (listing'.failed <=> failed) /\ (listing'.truncated <=> truncated)
<1>1. PICK w \in Walk : w = walk
  BY DEF ArchInv, ArchTypeOK
<1>2. listing' = [failed |-> failed, truncated |-> truncated, got |-> got, through |-> w.through] /\ walk' = NoWalk
  BY <1>1 DEF Return
<1>3. w.through \in SUBSET RecordKey
  BY DEF Walk
<1>4. listing' \in Listing
  BY <1>2, <1>3 DEF Listing
<1>5. listing'.through = w.through /\ listing'.got = got /\ (listing'.failed <=> failed) /\ (listing'.truncated <=> truncated)
  BY <1>2
<1> QED BY <1>1, <1>2, <1>4, <1>5 DEF ArchInv, ArchTypeOK, WalkTrue

LEMMA AskFailsKeeps == ASSUME ArchInv, AskFails PROVE ArchInv'
<1>1. walk # NoWalk /\ Return(TRUE, FALSE, {}) /\ UNCHANGED <<repo, changes>>
  BY DEF AskFails
<1>2. {} \in SUBSET RecordKey
  OBVIOUS
<1>3. ArchTypeOK' /\ WalkTrue' /\ (listing'.failed <=> TRUE)
  BY <1>1, <1>2, ReturnTyped
<1> QED BY <1>3 DEF ArchInv, ArchiveWhole

LEMMA WalkFacts ==
  ASSUME ArchInv, walk # NoWalk
  PROVE  /\ walk \in Walk /\ walk.cursor \in Nat /\ walk.limit \in Nat \ {0} /\ walk.page \in Nat
         /\ walk.got \in SUBSET RecordKey /\ walk.through \in SUBSET RecordKey
         /\ walk.limit <= ListLimit /\ walk.page <= ArchivePages - 1 /\ walk.cursor <= LastRecord + 1
<1>1. walk \in Walk
  BY DEF ArchInv, ArchTypeOK
<1>2. walk.cursor \in 1..LastRecord + 1 /\ walk.limit \in 1..ListLimit /\ walk.page \in 0..ArchivePages - 1
      /\ walk.got \in SUBSET RecordKey /\ walk.through \in SUBSET RecordKey
  BY <1>1 DEF Walk
<1> QED BY <1>1, <1>2, ArchiveAssumption

LEMMA AskOverKeeps == ASSUME ArchInv, AskOver PROVE ArchInv'
<1>1. PICK page : page = Page(walk.cursor, walk.limit)
  OBVIOUS
<1>2. walk # NoWalk /\ Bytes(page) > ByteLimit /\ UNCHANGED <<repo, changes>>
  BY <1>1 DEF AskOver
<1>3. CASE (walk.retried \/ walk.limit = 1) /\ Return(TRUE, FALSE, {})
  <2>1. {} \in SUBSET RecordKey
    OBVIOUS
  <2>2. ArchTypeOK' /\ WalkTrue' /\ (listing'.failed <=> TRUE)
    BY <1>2, <1>3, <2>1, ReturnTyped
  <2> QED BY <2>2 DEF ArchInv, ArchiveWhole
<1>4. ASSUME ~walk.retried, walk.limit > 1, UNCHANGED listing, NEW fit \in Fits(walk.limit, Bytes(page)),
             walk' = [walk EXCEPT !.limit = Smaller(walk.limit, fit), !.retried = TRUE]
      PROVE  ArchInv'
  <2>1. PICK w \in Walk : w = walk
    BY <1>2, WalkFacts
  <2>2. PICK limit \in Nat : limit = w.limit /\ limit > 1 /\ limit <= ListLimit
    BY <1>2, <1>4, <2>1, WalkFacts
  <2>3. PICK bytes \in Nat : bytes = Bytes(page)
    <3>1. page \in SUBSET RecordKey /\ \A k \in page : repo[k] # "none"
      BY <1>1, <1>2, WalkFacts, PageFacts
    <3> QED BY <3>1, BytesCount DEF ArchInv, ArchTypeOK
  <2>4. bytes > 0
    BY <1>2, <2>3, ArchiveAssumption
  <2>5. fit \in Int
    <3>1. PICK top \in Int : top = limit * ByteLimit * 4
      <4>1. limit * ByteLimit \in Int
        BY ArchiveAssumption
      <4> QED BY <4>1
    <3>2. PICK low \in Nat : low = 5 * bytes /\ low > 0
      BY <2>4
    <3>3. top \div low \in Int
      BY <3>2
    <3>4. fit \in {SmallPage, top \div low}
      BY <1>4, <2>1, <2>2, <2>3, <3>1, <3>2 DEF Fits
    <3>5. SmallPage \in Int
      BY ArchiveAssumption
    <3> QED BY <3>3, <3>4, <3>5
  <2>6. PICK less \in Int : less = Min({fit, limit - 1}) /\ less <= limit - 1
    <3>1. limit - 1 \in Int
      OBVIOUS
    <3>2. Min({fit, limit - 1}) = IF fit <= limit - 1 THEN fit ELSE limit - 1
      BY <2>5, <3>1, OfTwo
    <3> QED BY <2>5, <3>1, <3>2
  <2>7. Smaller(limit, fit) \in 1..ListLimit
    <3>1. Smaller(limit, fit) = IF 1 >= less THEN 1 ELSE less
      <4>1. Max({1, less}) = IF 1 >= less THEN 1 ELSE less
        BY OfTwo
      <4> QED BY <2>6, <4>1 DEF Smaller
    <3>2. ListLimit \in Nat
      BY ArchiveAssumption
    <3> QED BY <2>2, <2>6, <3>1, <3>2
  <2>8. walk' = [w EXCEPT !.limit = Smaller(limit, fit), !.retried = TRUE]
    BY <1>4, <2>1, <2>2
  <2>9. walk' \in Walk /\ walk'.cursor = w.cursor /\ walk'.got = w.got /\ walk'.through = w.through
    BY <2>7, <2>8 DEF Walk
  <2>10. WellFormed(Written)' = WellFormed(Written)
    BY <1>2 DEF WellFormed, Written
  <2>11. WalkTrue'
    BY <1>2, <2>1, <2>9, <2>10 DEF ArchInv, WalkTrue
  <2> QED BY <1>2, <1>4, <2>9, <2>11 DEF ArchInv, ArchTypeOK, ArchiveWhole
<1> QED BY <1>1, <1>3, <1>4 DEF AskOver

LEMMA AskFitKeeps == ASSUME ArchInv, AskFit PROVE ArchInv'
<1>1. PICK page : page = Page(walk.cursor, walk.limit)
  OBVIOUS
<1>2. PICK got : got = walk.got \cup WellFormed(page)
  OBVIOUS
<1>3. walk # NoWalk /\ UNCHANGED <<repo, changes>>
  BY DEF AskFit
<1>4. IF ~MoreAfter(page, walk.limit) THEN Return(FALSE, FALSE, got)
      ELSE IF walk.page = ArchivePages - 1 THEN Return(FALSE, TRUE, got)
      ELSE /\ walk' = [walk EXCEPT !.cursor = Min(page), !.page = @ + 1, !.got = got,
                 !.limit = Max({1, Min({@, Cardinality(WellFormed(page))})}), !.retried = FALSE]
           /\ UNCHANGED listing
  BY <1>1, <1>2 DEF AskFit
<1>5. PICK w \in Walk : w = walk
  BY <1>3, WalkFacts
<1>6. /\ w.cursor \in Nat /\ w.limit \in Nat \ {0} /\ w.page \in Nat
      /\ w.got \in SUBSET RecordKey /\ w.through \in SUBSET RecordKey
      /\ w.limit <= ListLimit /\ w.page <= ArchivePages - 1 /\ w.cursor <= LastRecord + 1
  BY <1>3, <1>5, WalkFacts
<1>7. PICK below : below = Below(w.cursor)
  OBVIOUS
<1>8. /\ page \subseteq below /\ page \in SUBSET RecordKey /\ \A k \in page : repo[k] # "none" /\ k < w.cursor
      /\ \A k \in page, j \in below : j >= k => j \in page
      /\ (page = {} \/ Cardinality(page) < w.limit => below \subseteq page)
  BY <1>1, <1>5, <1>6, <1>7, PageFacts
<1>9. IsFiniteSet(page) /\ Cardinality(page) \in Nat /\ page \in SUBSET Nat
  BY <1>8, RecordKeys
<1>10. WellFormed(page) \subseteq page /\ got \in SUBSET RecordKey /\ w.got \subseteq got
  BY <1>2, <1>5, <1>6, <1>8 DEF WellFormed
<1>11. \A k \in w.through : k \in Nat /\ repo[k] # "odd" /\ k \in Written
  BY <1>3, <1>5, <1>6, RecordKeys DEF ArchInv, WalkTrue, WellFormed
<1>12. \A k \in w.through : k \in page => k \in got
  BY <1>2, <1>11 DEF WellFormed
<1>13. \A k \in w.through : k >= w.cursor => k \in got
  BY <1>3, <1>5, <1>10 DEF ArchInv, WalkTrue
<1>14. \A k \in w.through : k \notin got => k \in below
  <2> SUFFICES ASSUME NEW k \in w.through, k \notin got PROVE k \in below
    OBVIOUS
  <2>1. k < w.cursor
    BY <1>6, <1>11, <1>13
  <2> QED BY <1>7, <1>11, <2>1 DEF Below
<1>15. \A g \in w.got : g >= w.cursor /\ g \in Nat
  BY <1>3, <1>5, <1>6, RecordKeys DEF ArchInv, WalkTrue
<1>16. CASE ~MoreAfter(page, walk.limit)
  <2>1. Return(FALSE, FALSE, got)
    BY <1>4, <1>16
  <2>2. page = {} \/ Cardinality(page) < w.limit
    BY <1>5, <1>6, <1>9, <1>16 DEF MoreAfter
  <2>3. w.through \subseteq got
    BY <1>8, <1>12, <1>14, <2>2
  <2>4. ArchTypeOK' /\ WalkTrue' /\ listing'.through = walk.through /\ listing'.got = got
    BY <1>3, <1>10, <2>1, ReturnTyped
  <2>5. ArchiveWhole'
    BY <1>5, <2>3, <2>4 DEF ArchiveWhole
  <2> QED BY <2>4, <2>5 DEF ArchInv
<1>17. CASE MoreAfter(page, walk.limit)
  <2>1. page # {}
    BY <1>17 DEF MoreAfter
  <2>2. PICK m \in page : m = Min(page) /\ \A n \in page : m <= n
    BY <1>9, <2>1, MinOfKeys
  <2>3. m \in Nat /\ m \in RecordKey /\ m < w.cursor
    BY <1>8, <1>9
  <2>4. \A k \in w.through : k \notin got => k < m
    <3> SUFFICES ASSUME NEW k \in w.through, k \notin got PROVE k < m
      OBVIOUS
    <3>1. k \in below /\ k \in Nat /\ k \notin page
      BY <1>11, <1>12, <1>14
    <3>2. ~(k >= m)
      BY <1>8, <3>1
    <3> QED BY <2>3, <3>1, <3>2
  <2>5. \A g \in got : g >= m /\ g \in Nat
    <3> SUFFICES ASSUME NEW g \in got PROVE g >= m /\ g \in Nat
      OBVIOUS
    <3>1. CASE g \in w.got
      BY <1>6, <1>15, <2>3, <3>1
    <3>2. CASE g \in page
      BY <1>9, <2>2, <2>3, <3>2
    <3> QED BY <1>2, <1>5, <1>10, <3>1, <3>2
  <2>6. CASE walk.page = ArchivePages - 1
    <3>1. Return(FALSE, TRUE, got)
      BY <1>4, <1>17, <2>6
    <3>2. ArchTypeOK' /\ WalkTrue' /\ listing'.through = walk.through /\ listing'.got = got
          /\ (listing'.truncated <=> TRUE)
      BY <1>3, <1>10, <3>1, ReturnTyped
    <3>3. \A k \in w.through \ got : \A g \in got : k < g
      BY <1>11, <2>3, <2>4, <2>5
    <3>4. ArchiveWhole'
      BY <1>5, <3>2, <3>3 DEF ArchiveWhole
    <3> QED BY <3>2, <3>4 DEF ArchInv
  <2>7. CASE walk.page # ArchivePages - 1
    <3>1. UNCHANGED listing
      BY <1>4, <1>17, <2>7
    <3>2. PICK n \in Nat : n = Cardinality(WellFormed(page))
      BY <1>8, <1>10, RecordKeys
    <3>3. PICK limit : limit = Max({1, Min({w.limit, n})})
      OBVIOUS
    <3>4. walk' = [w EXCEPT !.cursor = m, !.page = w.page + 1, !.got = got, !.limit = limit, !.retried = FALSE]
      BY <1>4, <1>5, <1>17, <2>2, <2>7, <3>2, <3>3
    <3>5. limit \in 1..ListLimit
      <4>1. PICK a \in Nat : a = w.limit /\ a <= ListLimit
        BY <1>6
      <4>2. PICK less \in Int : less = Min({a, n}) /\ less <= a
        <5>1. Min({a, n}) = IF a <= n THEN a ELSE n
          BY OfTwo
        <5> QED BY <5>1
      <4>3. Max({1, less}) = IF 1 >= less THEN 1 ELSE less
        BY OfTwo
      <4>4. limit = IF 1 >= less THEN 1 ELSE less
        BY <3>3, <4>1, <4>2, <4>3
      <4> QED BY <4>1, <4>2, <4>4, ArchiveAssumption
    <3>6. w.page + 1 \in 0..ArchivePages - 1
      BY <1>5, <1>6, <2>7, ArchiveAssumption
    <3>7. m \in 1..LastRecord + 1
      BY <2>3, RecordKeys DEF RecordKey
    <3>8. walk' \in Walk /\ walk'.cursor = m /\ walk'.got = got /\ walk'.through = w.through
      BY <1>10, <3>4, <3>5, <3>6, <3>7 DEF Walk
    <3>9. WellFormed(Written)' = WellFormed(Written)
      BY <1>3 DEF WellFormed, Written
    <3>10. \A k \in w.through : k >= m => k \in got
      BY <1>11, <2>3, <2>4
    <3>11. WalkTrue'
      BY <1>3, <1>5, <2>5, <3>8, <3>9, <3>10 DEF ArchInv, WalkTrue
    <3> QED BY <1>3, <3>1, <3>8, <3>11 DEF ArchInv, ArchTypeOK, ArchiveWhole
  <2> QED BY <2>6, <2>7
<1> QED BY <1>16, <1>17

LEMMA ArchStart == ArchInit => ArchInv
<1>1. ArchInit => ArchTypeOK
  BY ArchiveAssumption DEF ArchInit, ArchTypeOK, Sizes
<1>2. ArchInit => WalkTrue /\ ArchiveWhole
  BY DEF ArchInit, WalkTrue, ArchiveWhole
<1> QED BY <1>1, <1>2 DEF ArchInv

LEMMA ArchStep == ArchInv /\ [ArchNext]_archVars => ArchInv'
<1> SUFFICES ASSUME ArchInv, [ArchNext]_archVars PROVE ArchInv'
  OBVIOUS
<1>1. CASE UNCHANGED archVars
  <2>1. UNCHANGED <<repo, walk, listing, changes>>
    BY <1>1 DEF archVars
  <2>2. WellFormed(Written)' = WellFormed(Written)
    BY <2>1 DEF WellFormed, Written
  <2>3. ArchTypeOK' /\ ArchiveWhole'
    BY <2>1 DEF ArchInv, ArchTypeOK, ArchiveWhole
  <2>4. WalkTrue'
    BY <2>1, <2>2 DEF ArchInv, WalkTrue
  <2> QED BY <2>3, <2>4 DEF ArchInv
<1>2. CASE ArchNext
  BY <1>2, WriteRecordKeeps, RemoveRecordKeeps, BeginWalkKeeps, AskFailsKeeps, AskOverKeeps, AskFitKeeps DEF ArchNext
<1> QED BY <1>1, <1>2

(* What is read of a repo has its type (lib/atproto-records).               *)
THEOREM ArchTypeCorrect == ArchSpec => []ArchTypeOK
<1>1. ArchInv => ArchTypeOK
  BY DEF ArchInv
<1> QED BY <1>1, ArchStart, ArchStep, PTL DEF ArchSpec

(* A listing of a collection that does not say it was cut is whole, and one *)
(* that does is missing old records only (listRecordPages).                 *)
THEOREM ArchiveWholeHolds == ArchSpec => []ArchiveWhole
<1>1. ArchInv => ArchiveWhole
  BY DEF ArchInv
<1> QED BY <1>1, ArchStart, ArchStep, PTL DEF ArchSpec

-----------------------------------------------------------------------------
(* A writer's threads.                                                      *)

(* Posts are made in order, and answer earlier ones.                        *)
PostsTrue ==
  /\ answers \in [Post -> Post \cup {Opener, Stranger, NoPost}]
  /\ \E n \in 0..LastPost : Made = 1..n
  /\ \A p \in Post : answers[p] \in Post => answers[p] < p
  /\ gone \in SUBSET Made

LEMMA PostFacts ==
  /\ LastPost \in Nat /\ ThreadCap \in Nat /\ 1 < ThreadCap /\ Depth \in Nat /\ ThreadCap <= Depth
  /\ Post \subseteq Nat /\ Post \subseteq 0..LastPost /\ IsFiniteSet(Post)
  /\ \A S \in SUBSET Post : IsFiniteSet(S) /\ Cardinality(S) \in Nat
<1>1. LastPost \in Nat /\ ThreadCap \in Nat /\ 1 < ThreadCap /\ Depth \in Nat /\ ThreadCap <= Depth
  BY ThreadsAssumption
<1>2. Post \subseteq Nat /\ Post \subseteq 0..LastPost
  BY <1>1 DEF Post
<1>3. IsFiniteSet(Post)
  BY <1>1, FS_Interval DEF Post
<1> QED BY <1>1, <1>2, <1>3, FS_Subset, FS_CardinalityType

LEMMA EarliestOf ==
  ASSUME NEW S \in SUBSET Post
  PROVE  (S = {} => Earliest(S) = NoPost) /\ (S # {} => Earliest(S) \in S)
<1>1. S # {} => \E m \in S : \A n \in S : m <= n
  BY PostFacts, LeastOne
<1> QED BY <1>1 DEF Earliest, Min

(* The spine is a walk: each next post answers the one before, as long as   *)
(* there is one.                                                            *)
SpineWalk(to, root, near) ==
  /\ to[1] = root
  /\ \A n \in 1..ThreadCap - 1 :
       /\ to[n] = NoPost => to[n + 1] = NoPost
       /\ to[n] # NoPost /\ {q \in near : answers[q] = to[n]} = {} => to[n + 1] = NoPost
       /\ to[n] # NoPost /\ {q \in near : answers[q] = to[n]} # {} =>
            to[n + 1] \in near /\ answers[to[n + 1]] = to[n]

LEMMA SpineIsWalk ==
  ASSUME NEW root \in Post, NEW near \in SUBSET Post
  PROVE  \E to \in [1..ThreadCap -> Post \cup {NoPost}] :
           SpineWalk(to, root, near) /\ Spine(root, near) = {to[n] : n \in 1..ThreadCap} \ {NoPost}
<1>1. PICK nx : nx = [x \in Post \cup {NoPost} |->
        IF x = NoPost THEN NoPost ELSE Earliest({q \in near : answers[q] = x})]
  OBVIOUS
<1>2. nx \in [Post \cup {NoPost} -> Post \cup {NoPost}]
  <2>1. \A x \in Post : Earliest({q \in near : answers[q] = x}) \in Post \cup {NoPost}
    BY EarliestOf
  <2> QED BY <1>1, <2>1
<1>3. ThreadCap \in Nat /\ root \in Post \cup {NoPost}
  BY PostFacts
<1>4. PICK g \in [1..ThreadCap -> Post \cup {NoPost}] : Walks(g, nx, root, ThreadCap)
  BY <1>2, <1>3, Walked
<1> DEFINE After(x) == IF x = NoPost THEN NoPost ELSE Earliest({q \in near : answers[q] = x})
<1> DEFINE Recurs(f) == f = [n \in 1..ThreadCap |-> IF n = 1 THEN root ELSE After(f[n - 1])]
<1>5. \A n \in 1..ThreadCap : n # 1 => n - 1 \in 1..ThreadCap
  BY <1>3
<1>6. Recurs(g)
  <2>1. \A x \in Post \cup {NoPost} : nx[x] = After(x)
    BY <1>1
  <2> HIDE DEF After
  <2>2. \A n \in 1..ThreadCap : g[n] = IF n = 1 THEN root ELSE After(g[n - 1])
    BY <1>4, <1>5, <2>1 DEF Walks
  <2> QED BY <2>2
<1>7. PICK to : to = CHOOSE f : Recurs(f)
  OBVIOUS
<1>8. Recurs(to)
  <2> HIDE DEF Recurs
  <2> QED BY <1>6, <1>7
<1>9. \A n \in 1..ThreadCap : to[n] = IF n = 1 THEN root ELSE After(to[n - 1])
  <2> HIDE DEF After
  <2> QED BY <1>8
<1>10. \A n \in 1..ThreadCap : to[n] \in Post \cup {NoPost}
  <2>1. PICK ok : ok = {n \in Nat : n \in 1..ThreadCap => to[n] \in Post \cup {NoPost}}
    OBVIOUS
  <2>2. 0 \in ok
    BY <2>1
  <2>3. ASSUME NEW n \in Nat, n \in ok PROVE n + 1 \in ok
    <3> SUFFICES ASSUME n + 1 \in 1..ThreadCap PROVE to[n + 1] \in Post \cup {NoPost}
      BY <2>1
    <3>1. (n + 1) - 1 = n /\ (n + 1 # 1 => n \in 1..ThreadCap)
      BY <1>3
    <3>2. to[n + 1] = IF n + 1 = 1 THEN root ELSE After(to[n])
      <4> HIDE DEF After
      <4> QED BY <1>9, <3>1
    <3>3. Earliest({q \in near : answers[q] = to[n]}) \in Post \cup {NoPost}
      BY EarliestOf
    <3> QED BY <3>2, <3>3
  <2>4. Nat \subseteq ok
    BY <2>2, <2>3, Counting
  <2> QED BY <1>3, <2>1, <2>4
<1>11. to = [n \in 1..ThreadCap |-> to[n]]
  BY <1>8
<1>12. to \in [1..ThreadCap -> Post \cup {NoPost}]
  <2> HIDE DEF Recurs
  <2> QED BY <1>10, <1>11
<1>13. SpineWalk(to, root, near)
  <2>1. to[1] = root
    <3>1. 1 \in 1..ThreadCap
      BY PostFacts
    <3> QED BY <1>9, <3>1
  <2>2. ASSUME NEW n \in 1..ThreadCap - 1
        PROVE  /\ to[n] = NoPost => to[n + 1] = NoPost
               /\ to[n] # NoPost /\ {q \in near : answers[q] = to[n]} = {} => to[n + 1] = NoPost
               /\ to[n] # NoPost /\ {q \in near : answers[q] = to[n]} # {} =>
                    to[n + 1] \in near /\ answers[to[n + 1]] = to[n]
    <3>1. n + 1 \in 1..ThreadCap /\ n + 1 # 1 /\ (n + 1) - 1 = n
      BY <1>3
    <3>2. PICK S \in SUBSET Post : S = {q \in near : answers[q] = to[n]}
      OBVIOUS
    <3>3. to[n + 1] = IF to[n] = NoPost THEN NoPost ELSE Earliest(S)
      <4>1. to[n + 1] = After(to[n])
        <5> HIDE DEF After
        <5> QED BY <1>9, <3>1
      <4> QED BY <3>2, <4>1
    <3>4. (S = {} => Earliest(S) = NoPost) /\ (S # {} => Earliest(S) \in S)
      BY EarliestOf
    <3> QED BY <3>2, <3>3, <3>4
  <2> HIDE DEF Recurs
  <2> QED BY <2>1, <2>2 DEF SpineWalk
<1>14. Spine(root, near) = {to[n] : n \in 1..ThreadCap} \ {NoPost}
  BY <1>7 DEF Spine
<1> HIDE DEF Recurs
<1> QED BY <1>12, <1>13, <1>14

(* It goes forward, and has a last post; short of the cap, nothing answers  *)
(* that one.                                                                *)
LEMMA SpineFacts ==
  ASSUME PostsTrue, NEW root \in Post, NEW near \in SUBSET Post
  PROVE  \E to \in [1..ThreadCap -> Post \cup {NoPost}], k \in 1..ThreadCap :
           /\ Spine(root, near) \in SUBSET Post /\ to[k] \in Post /\ Max(Spine(root, near)) = to[k]
           /\ to[1] = root /\ \A n \in 1..ThreadCap - 1 : n + 1 <= k => to[n] \in Post /\ answers[to[n + 1]] = to[n]
           /\ k = ThreadCap => Cardinality(Spine(root, near)) = ThreadCap
           /\ k < ThreadCap => {q \in near : answers[q] = to[k]} = {}
           /\ {q \in near : answers[q] = root} # {} => Cardinality(Spine(root, near)) >= 2
<1>1. PICK to \in [1..ThreadCap -> Post \cup {NoPost}] :
        SpineWalk(to, root, near) /\ Spine(root, near) = {to[n] : n \in 1..ThreadCap} \ {NoPost}
  BY SpineIsWalk
<1>2. PICK spine : spine = Spine(root, near)
  OBVIOUS
<1>3. spine \in SUBSET Post /\ IsFiniteSet(spine) /\ Cardinality(spine) \in Nat
  BY <1>1, <1>2, PostFacts
<1>4. PICK C \in Nat : C = ThreadCap /\ 1 < C
  BY PostFacts
<1>5. PICK up : up = {n \in 1..C : to[n] \in Post}
  OBVIOUS
<1>6. 1 \in up
  BY <1>1, <1>4, <1>5 DEF SpineWalk
<1>7. PICK k \in up : \A n \in up : n <= k
  <2>1. up \in SUBSET (0..C)
    BY <1>5
  <2> QED BY <1>6, <2>1, GreatestOne
<1>8. k \in 1..C /\ to[k] \in Post
  BY <1>5
<1>9. ASSUME NEW n \in 1..C - 1, to[n + 1] \in Post
      PROVE  to[n] \in Post /\ answers[to[n + 1]] = to[n] /\ to[n] < to[n + 1]
  <2>1. n \in 1..C /\ n + 1 \in 1..C
    OBVIOUS
  <2>2. to[n] # NoPost /\ {q \in near : answers[q] = to[n]} # {}
    BY <1>1, <1>4, <1>9, ThreadsNullsAssumption DEF SpineWalk
  <2>3. to[n] \in Post
    BY <1>1, <1>4, <2>1, <2>2
  <2>4. answers[to[n + 1]] = to[n]
    BY <1>1, <1>4, <2>2 DEF SpineWalk
  <2> QED BY <1>9, <2>3, <2>4 DEF PostsTrue
<1>10. \A n \in 1..C : n <= k => to[n] \in Post /\ to[n] <= to[k]
  <2>1. PICK ok : ok = {j \in Nat : j < k => to[k - j] \in Post /\ to[k - j] <= to[k]}
    OBVIOUS
  <2>2. 0 \in ok
    <3>2. k - 0 = k
      BY <1>8
    <3>3. to[k] \in Nat
      BY <1>8, PostFacts
    <3>1. k - 0 = k /\ to[k] <= to[k]
      BY <3>2, <3>3
    <3> QED BY <1>8, <2>1, <3>1
  <2>3. ASSUME NEW j \in Nat, j \in ok PROVE j + 1 \in ok
    <3> SUFFICES ASSUME j + 1 < k PROVE to[k - (j + 1)] \in Post /\ to[k - (j + 1)] <= to[k]
      BY <2>1
    <3>1. PICK n \in 1..C - 1 : n = k - (j + 1) /\ n + 1 = k - j
      BY <1>8
    <3>2. to[n + 1] \in Post /\ to[n + 1] <= to[k]
      BY <1>8, <2>1, <2>3, <3>1
    <3>3. to[n] \in Post /\ to[n] < to[n + 1]
      BY <1>9, <3>2
    <3>4. to[n] \in Nat /\ to[n + 1] \in Nat /\ to[k] \in Nat
      BY <1>8, <3>2, <3>3, PostFacts
    <3>5. to[n] <= to[k]
      BY <3>2, <3>3, <3>4
    <3> QED BY <3>1, <3>3, <3>5
  <2>4. Nat \subseteq ok
    BY <2>2, <2>3, Counting
  <2>5. ASSUME NEW n \in 1..C, n <= k PROVE to[n] \in Post /\ to[n] <= to[k]
    <3>1. PICK j \in Nat : j = k - n /\ j < k /\ k - j = n
      BY <1>8, <2>5
    <3> QED BY <2>1, <2>4, <3>1
  <2> QED BY <2>5
<1>11. \A n \in 1..C : to[n] \in Post => n <= k
  BY <1>5, <1>7
<1>12. spine = {to[n] : n \in 1..C} \ {NoPost}
  BY <1>1, <1>2, <1>4
<1>13. \A s \in spine : s \in Post /\ s <= to[k]
  <2> SUFFICES ASSUME NEW s \in spine PROVE s \in Post /\ s <= to[k]
    OBVIOUS
  <2>1. PICK n \in 1..C : s = to[n]
    BY <1>12
  <2>2. s \in Post
    BY <1>3
  <2> QED BY <1>10, <1>11, <2>1, <2>2
<1>14. to[k] \in spine
  BY <1>8, <1>12, ThreadsNullsAssumption
<1>15. Max(spine) = to[k]
  <2>1. \A s \in spine : to[k] >= s
    BY <1>8, <1>13, PostFacts
  <2>2. Max(spine) \in spine /\ \A s \in spine : Max(spine) >= s
    BY <1>14, <2>1 DEF Max
  <2>3. Max(spine) \in Nat /\ to[k] \in Nat
    BY <1>8, <2>2, <1>3, PostFacts
  <2>4. Max(spine) >= to[k] /\ to[k] >= Max(spine)
    BY <1>14, <2>1, <2>2
  <2> QED BY <2>3, <2>4
<1>16. \A n \in 1..C - 1 : n + 1 <= k => to[n] \in Post /\ answers[to[n + 1]] = to[n]
  <2> SUFFICES ASSUME NEW n \in 1..C - 1, n + 1 <= k PROVE to[n] \in Post /\ answers[to[n + 1]] = to[n]
    OBVIOUS
  <2>1. n + 1 \in 1..C
    OBVIOUS
  <2> QED BY <1>9, <1>10, <2>1
<1>17. k = C => Cardinality(spine) = C
  <2> SUFFICES ASSUME k = C PROVE Cardinality(spine) = C
    OBVIOUS
  <2>1. \A n \in 1..C : to[n] \in Post
    BY <1>8, <1>10
  <2>2. PICK f : f = [n \in 1..C |-> to[n]]
    OBVIOUS
  <2>3. f \in Surjection(1..C, spine)
    <3>1. spine = {to[n] : n \in 1..C}
      BY <1>12, <2>1, ThreadsNullsAssumption
    <3> QED BY <2>2, <3>1 DEF Surjection
  <2>4. ASSUME NEW m \in 1..C, NEW n \in 1..C, m < n PROVE to[m] < to[n]
    <3>1. PICK ok : ok = {j \in Nat : m + 1 + j <= C => to[m] < to[m + 1 + j]}
      OBVIOUS
    <3>2. 0 \in ok
      <4> SUFFICES ASSUME m + 1 <= C PROVE to[m] < to[m + 1]
        <5>1. m + 1 + 0 = m + 1
          OBVIOUS
        <5> QED BY <3>1, <5>1
      <4>1. m \in 1..C - 1 /\ m + 1 \in 1..C
        OBVIOUS
      <4> QED BY <1>9, <2>1, <4>1
    <3>3. ASSUME NEW j \in Nat, j \in ok PROVE j + 1 \in ok
      <4> SUFFICES ASSUME m + 1 + (j + 1) <= C PROVE to[m] < to[m + 1 + (j + 1)]
        BY <3>1
      <4>1. PICK i \in 1..C - 1 : i = m + 1 + j /\ i + 1 = m + 1 + (j + 1)
        OBVIOUS
      <4>2. i \in 1..C /\ i + 1 \in 1..C
        OBVIOUS
      <4>3. to[m] < to[i]
        BY <3>1, <3>3, <4>1, <4>2
      <4>4. to[i] < to[i + 1]
        BY <1>9, <2>1, <4>1, <4>2
      <4>5. to[m] \in Nat /\ to[i] \in Nat /\ to[i + 1] \in Nat
        BY <2>1, <4>2, PostFacts
      <4>6. to[m] < to[i + 1]
        BY <4>3, <4>4, <4>5
      <4> QED BY <4>1, <4>6
    <3>4. Nat \subseteq ok
      BY <3>2, <3>3, Counting
    <3>5. PICK j \in Nat : j = n - m - 1 /\ n = m + 1 + j /\ m + 1 + j <= C
      BY <2>4
    <3> QED BY <3>1, <3>4, <3>5
  <2>5. f \in Injection(1..C, spine)
    <3>1. ASSUME NEW m \in 1..C, NEW n \in 1..C, f[m] = f[n] PROVE m = n
      <4>1. to[m] = to[n] /\ to[m] \in Nat /\ to[n] \in Nat
        BY <2>1, <2>2, <3>1, PostFacts
      <4>2. ~(m < n) /\ ~(n < m)
        BY <2>4, <4>1
      <4> QED BY <4>2
    <3> QED BY <2>3, <3>1 DEF Surjection, Injection, IsInjective
  <2>6. IsFiniteSet(1..C) /\ Cardinality(1..C) = C
    BY FS_Interval
  <2> QED BY <2>3, <2>5, <2>6, FS_Surjection
<1>18. k < C => {q \in near : answers[q] = to[k]} = {}
  <2> SUFFICES ASSUME k < C, {q \in near : answers[q] = to[k]} # {} PROVE FALSE
    OBVIOUS
  <2>1. k \in 1..C - 1 /\ k + 1 \in 1..C /\ ~(k + 1 <= k)
    BY <1>8
  <2>2. to[k] # NoPost
    BY <1>8, ThreadsNullsAssumption
  <2>3. to[k + 1] \in near
    BY <1>1, <1>4, <2>1, <2>2 DEF SpineWalk
  <2> QED BY <1>11, <2>1, <2>3
<1>19. {q \in near : answers[q] = root} # {} => Cardinality(spine) >= 2
  <2> SUFFICES ASSUME {q \in near : answers[q] = root} # {} PROVE Cardinality(spine) >= 2
    OBVIOUS
  <2>1. 1 \in 1..C - 1 /\ 1 \in 1..C /\ 2 \in 1..C /\ 1 + 1 = 2
    BY <1>4
  <2>2. to[1] = root /\ root # NoPost
    BY <1>1, ThreadsNullsAssumption DEF SpineWalk
  <2>3. to[1 + 1] \in near
    BY <1>1, <1>4, <2>1, <2>2 DEF SpineWalk
  <2>4. PICK second \in Post : second = to[2] /\ to[1] < second
    BY <1>9, <2>1, <2>3
  <2>5. to[1] \in spine /\ second \in spine
    BY <1>12, <2>1, <2>2, <2>4, ThreadsNullsAssumption
  <2>6. root # second
    BY <2>2, <2>4, PostFacts
  <2>7. {root, second} \subseteq spine
    BY <2>2, <2>5
  <2>8. IsFiniteSet({root}) /\ Cardinality({root}) = 1
    BY FS_Singleton
  <2>9. Cardinality({root} \cup {second}) = 2
    <3>1. PICK one : one = {root}
      OBVIOUS
    <3>2. IsFiniteSet(one) /\ Cardinality(one) = 1 /\ second \notin one
      BY <2>6, <2>8, <3>1
    <3>3. Cardinality(one \cup {second}) = IF second \in one THEN Cardinality(one) ELSE Cardinality(one) + 1
      BY <3>2, FS_AddElement
    <3>4. Cardinality(one \cup {second}) = 2
      BY <3>2, <3>3
    <3> QED BY <3>1, <3>4
  <2>10. {root} \cup {second} \in SUBSET spine
    BY <2>7
  <2>11. Cardinality({root} \cup {second}) <= Cardinality(spine)
    BY <1>3, <2>10, FS_Subset
  <2> QED BY <1>3, <2>9, <2>11
<1> QED BY <1>1, <1>2, <1>3, <1>4, <1>8, <1>15, <1>16, <1>17, <1>18, <1>19 DEF SpineWalk

(* How far under its root a post is.                                        *)
LEMMA LevelIs ==
  ASSUME PostsTrue, NEW p \in Post
  PROVE  /\ Level(p) \in Nat
         /\ Level(p) = IF answers[p] \in Post THEN 1 + Level(answers[p]) ELSE 0
<1>1. PICK N \in Nat : N = LastPost
  BY PostFacts
<1>2. Post = 1..N
  BY <1>1 DEF Post
<1>3. PICK par : par = [q \in 1..N |-> IF answers[q] \in Post /\ answers[q] < q THEN answers[q] ELSE 0]
  OBVIOUS
<1>4. par \in [1..N -> Nat] /\ \A q \in 1..N : par[q] < q
  <2> SUFFICES ASSUME NEW q \in 1..N PROVE par[q] \in Nat /\ par[q] < q
    BY <1>3
  <2>1. par[q] = IF answers[q] \in Post /\ answers[q] < q THEN answers[q] ELSE 0
    BY <1>3
  <2>2. answers[q] \in Post => answers[q] \in Nat
    BY PostFacts
  <2> QED BY <2>1, <2>2
<1>5. \A q \in 1..N : (par[q] = 0 <=> answers[q] \notin Post) /\ (par[q] # 0 => par[q] = answers[q])
  <2> SUFFICES ASSUME NEW q \in 1..N
               PROVE  (par[q] = 0 <=> answers[q] \notin Post) /\ (par[q] # 0 => par[q] = answers[q])
    OBVIOUS
  <2>1. par[q] = IF answers[q] \in Post /\ answers[q] < q THEN answers[q] ELSE 0
    BY <1>3
  <2>2. answers[q] \in Post => answers[q] < q /\ answers[q] # 0
    BY <1>2 DEF PostsTrue
  <2> QED BY <2>1, <2>2
<1>6. PICK g \in [1..N -> Nat] : Climbs(g, par, N)
  BY <1>4, Climbed
<1> DEFINE Ups(f) == f = [q \in Post |-> IF answers[q] \in Post /\ answers[q] < q THEN 1 + f[answers[q]] ELSE 0]
<1>7. Ups(g)
  <2>1. \A q \in Post : g[q] = IF answers[q] \in Post /\ answers[q] < q THEN 1 + g[answers[q]] ELSE 0
    <3> SUFFICES ASSUME NEW q \in Post
                 PROVE  g[q] = IF answers[q] \in Post /\ answers[q] < q THEN 1 + g[answers[q]] ELSE 0
      OBVIOUS
    <3>1. g[q] = IF par[q] = 0 THEN 0 ELSE 1 + g[par[q]]
      BY <1>2, <1>6 DEF Climbs
    <3>2. answers[q] \in Post => answers[q] < q
      BY DEF PostsTrue
    <3> QED BY <1>2, <1>5, <3>1, <3>2
  <2> QED BY <1>2, <2>1
<1>8. PICK up : up = CHOOSE f : Ups(f)
  OBVIOUS
<1>9. Ups(up)
  <2> HIDE DEF Ups
  <2> QED BY <1>7, <1>8
<1>10. \A q \in Post : up[q] = IF answers[q] \in Post THEN 1 + up[answers[q]] ELSE 0
  <2> SUFFICES ASSUME NEW q \in Post PROVE up[q] = IF answers[q] \in Post THEN 1 + up[answers[q]] ELSE 0
    OBVIOUS
  <2>1. answers[q] \in Post => answers[q] < q
    BY DEF PostsTrue
  <2>2. up[q] = IF answers[q] \in Post /\ answers[q] < q THEN 1 + up[answers[q]] ELSE 0
    BY <1>9
  <2> QED BY <2>1, <2>2
<1>11. \A q \in Post : Level(q) = up[q]
  BY <1>8 DEF Level
<1>12. \A q \in Post : up[q] \in Nat
  <2>1. PICK ok : ok = {n \in Nat : \A q \in Post : q <= n => up[q] \in Nat}
    OBVIOUS
  <2>2. 0 \in ok
    <3>1. \A q \in Post : ~(q <= 0)
      BY <1>2
    <3> QED BY <2>1, <3>1
  <2>3. ASSUME NEW n \in Nat, n \in ok PROVE n + 1 \in ok
    <3> SUFFICES ASSUME NEW q \in Post, q <= n + 1 PROVE up[q] \in Nat
      BY <2>1
    <3>1. CASE answers[q] \in Post
      <4>1. answers[q] < q /\ answers[q] \in Nat /\ q \in Nat
        BY <3>1, PostFacts DEF PostsTrue
      <4>2. answers[q] <= n
        BY <4>1
      <4>3. up[answers[q]] \in Nat
        BY <2>1, <2>3, <3>1, <4>2
      <4> QED BY <1>10, <3>1, <4>3
    <3>2. CASE answers[q] \notin Post
      BY <1>10, <3>2
    <3> QED BY <3>1, <3>2
  <2>4. Nat \subseteq ok
    BY <2>2, <2>3, Counting
  <2> SUFFICES ASSUME NEW q \in Post PROVE up[q] \in Nat
    OBVIOUS
  <2>5. q \in ok /\ q <= q
    BY <1>2, <2>4
  <2> QED BY <2>1, <2>5
<1> HIDE DEF Ups
<1> QED BY <1>10, <1>11, <1>12

LEMMA NewestFacts ==
  ASSUME NEW s \in SUBSET Post, NEW n \in Nat \ {0}
  PROVE  /\ Newest(s, n) \in SUBSET s
         /\ \A k \in Newest(s, n), j \in s : j >= k => j \in Newest(s, n)
         /\ (Newest(s, n) = {} \/ Cardinality(Newest(s, n)) < n => Newest(s, n) = s)
<1>1. PICK top : top = Newest(s, n)
  OBVIOUS
<1>2. top = TopOf(s, n) /\ top \subseteq s
  BY <1>1 DEF Newest, TopOf
<1>3. LastPost \in Nat /\ s \in SUBSET (0..LastPost)
  BY PostFacts
<1>4. WithAllAbove(top, s) /\ (top = {} \/ Cardinality(top) < n => s \subseteq top)
  BY <1>2, <1>3, TopFacts
<1> QED BY <1>1, <1>2, <1>4 DEF WithAllAbove

(* The last post of a spine, whole: no answer to it is left.                *)
LEMMA AssembledWhole ==
  ASSUME PostsTrue, NEW root \in Post, answers[root] = Opener
  PROVE  Assembled(root) \in Piece /\ (~Assembled(root).cut => Assembled(root).left = {})
<1>1. PICK near : near = {q \in Live : Level(q) <= Depth}
  OBVIOUS
<1>2. near \in SUBSET Post /\ Live \in SUBSET Post /\ Made \in SUBSET Post
  BY <1>1 DEF Live, Made
<1>3. PICK spine : spine = Spine(root, near)
  OBVIOUS
<1>4. PICK to \in [1..ThreadCap -> Post \cup {NoPost}], k \in 1..ThreadCap :
        /\ spine \in SUBSET Post /\ to[k] \in Post /\ Max(spine) = to[k]
        /\ to[1] = root /\ \A n \in 1..ThreadCap - 1 : n + 1 <= k => to[n] \in Post /\ answers[to[n + 1]] = to[n]
        /\ k = ThreadCap => Cardinality(spine) = ThreadCap
        /\ k < ThreadCap => {q \in near : answers[q] = to[k]} = {}
  BY <1>2, <1>3, SpineFacts
<1>5. PICK last \in Post : last = to[k]
  BY <1>4
<1>6. PICK dead : dead = (ShownUnder(last) \cap gone # {})
  OBVIOUS
<1>7. PICK more : more = (Cardinality(spine) = ThreadCap /\ ShownUnder(last) \ gone # {})
  OBVIOUS
<1>7a. PICK cut \in BOOLEAN : cut = (dead \/ more)
  BY <1>6, <1>7
<1>8. Assembled(root) = [spine |-> spine, cut |-> cut, left |-> RepliesTo(last)]
  BY <1>1, <1>3, <1>4, <1>5, <1>6, <1>7, <1>7a DEF Assembled
<1>9. RepliesTo(last) \in SUBSET Post
  BY <1>2 DEF RepliesTo
<1>11. Assembled(root) \in Piece
  BY <1>4, <1>8, <1>9 DEF Piece
<1>12. PICK C \in Nat : C = ThreadCap /\ C <= Depth
  BY PostFacts
<1>13. \A n \in 1..C : n <= k => to[n] \in Post /\ Level(to[n]) = n - 1
  <2>1. PICK ok : ok = {n \in Nat : n \in 1..C /\ n <= k => to[n] \in Post /\ Level(to[n]) = n - 1}
    OBVIOUS
  <2>2. 0 \in ok
    BY <2>1
  <2>3. ASSUME NEW n \in Nat, n \in ok PROVE n + 1 \in ok
    <3> SUFFICES ASSUME n + 1 \in 1..C, n + 1 <= k PROVE to[n + 1] \in Post /\ Level(to[n + 1]) = (n + 1) - 1
      BY <2>1
    <3>1. CASE n = 0
      <4>1. to[n + 1] = root /\ (n + 1) - 1 = 0
        BY <1>4, <3>1
      <4>2. Level(root) = 0
        BY LevelIs, ThreadsNullsAssumption
      <4> QED BY <4>1, <4>2
    <3>2. CASE n # 0
      <4>1. n \in 1..C /\ n \in 1..C - 1 /\ n <= k
        BY <1>4, <1>12, <3>2
      <4>2. to[n] \in Post /\ Level(to[n]) = n - 1
        BY <2>1, <2>3, <4>1
      <4>3. answers[to[n + 1]] = to[n]
        BY <1>4, <1>12, <4>1
      <4>4. to[n + 1] \in Post
        <5>1. CASE n + 1 = k
          BY <1>4, <5>1
        <5>2. CASE n + 1 # k
          <6>1. n + 1 \in 1..C - 1 /\ (n + 1) + 1 <= k
            BY <1>4, <1>12, <5>2
          <6> QED BY <1>4, <1>12, <6>1
        <5> QED BY <5>1, <5>2
      <4>5. Level(to[n + 1]) = 1 + Level(to[n])
        BY <4>2, <4>3, <4>4, LevelIs
      <4> QED BY <4>2, <4>4, <4>5
    <3> QED BY <3>1, <3>2
  <2>4. Nat \subseteq ok
    BY <2>2, <2>3, Counting
  <2> QED BY <2>1, <2>4
<1>14. Level(last) = k - 1 /\ k \in 1..C
  <2>1. k \in 1..C /\ k <= k
    BY <1>4, <1>12
  <2> QED BY <1>5, <1>13, <2>1
<1>15. ASSUME ~dead, ~more, NEW q \in RepliesTo(last) PROVE FALSE
  <2>1. q \in Made /\ q \in Post /\ answers[q] = last
    BY <1>2 DEF RepliesTo
  <2>2. Level(q) = 1 + Level(last)
    BY <2>1, LevelIs
  <2>3. Level(q) <= Depth
    BY <1>12, <1>14, <2>2, PostFacts
  <2>4. q \in ShownUnder(last)
    BY <1>15, <2>3 DEF ShownUnder
  <2>5. q \notin gone
    BY <1>6, <1>15, <2>4
  <2>6. Cardinality(spine) # ThreadCap
    BY <1>7, <1>15, <2>4, <2>5
  <2>7. k < ThreadCap
    BY <1>4, <1>12, <1>14, <2>6
  <2>8. q \in near
    BY <1>1, <2>1, <2>3, <2>5 DEF Live
  <2> QED BY <1>4, <1>5, <2>1, <2>7, <2>8
<1>16. Assembled(root).cut = cut /\ Assembled(root).left = RepliesTo(last)
  BY <1>8
<1> QED BY <1>7a, <1>11, <1>15, <1>16

(* A list shows what it says it shows.                                      *)
ListTrue(list) ==
  list # NoList =>
    /\ list \in List /\ list.through \subseteq Made /\ \A r \in list.roots : answers[r] = Opener
    /\ ~list.cut /\ Cardinality(list.roots) < ListCap =>
         \A p, q \in list.through : answers[p] = Opener /\ answers[q] = p => p \in list.roots

(* What a request read covers what was up all along, down to its cursor.    *)
AskTrue(k) ==
  k # NoAsk =>
    /\ k \in Ask /\ k.through \subseteq Live /\ (k.of \in Post => answers[k.of] = Opener)
    /\ k.at = "thread" => k.of \in Post
    /\ k.at \in {"count", "spend"} => k.cursor = LastPost + 1
    /\ k.at = "feed" => \A p \in k.through : p >= k.cursor => p \in k.seen

AsksTrue == ask \in [Asker -> Ask \cup {NoAsk}] /\ \A a \in Asker : AskTrue(ask[a])
ListsTrue ==
  /\ lists \in [Asker -> List \cup {NoList}] /\ (\A a \in Asker : ListTrue(lists[a]))
  /\ ListTrue(kept) /\ kept \in List \cup {NoList} /\ (kept # NoList => ~kept.partial)

(* Of those who found room, each may still spend.                           *)
Spends(k) == k # NoAsk /\ k.at = "spend"
Spenders == {a \in Asker : Spends(ask[a])}
BudgetTrue == reads \in Nat /\ reads + Cardinality(Spenders) <= HourlyReads + Cardinality(Asker) - 1

PieceTrue == piece \in Piece \cup {NoPiece} /\ PiecesWhole /\ broken \in 0..MaxBroken

ThreadInv == PostsTrue /\ AsksTrue /\ ListsTrue /\ BudgetTrue /\ PieceTrue

LEMMA SpendersCount ==
  /\ IsFiniteSet(Asker) /\ Cardinality(Asker) \in Nat /\ HourlyReads \in Nat \ {0}
  /\ Spenders \in SUBSET Asker /\ \A S \in SUBSET Asker : IsFiniteSet(S) /\ Cardinality(S) \in Nat
                                                           /\ Cardinality(S) <= Cardinality(Asker)
<1>1. IsFiniteSet(Asker) /\ HourlyReads \in Nat \ {0}
  BY ThreadsAssumption
<1>2. Spenders \in SUBSET Asker
  BY DEF Spenders
<1> QED BY <1>1, <1>2, FS_Subset, FS_CardinalityType

(* One request goes on: what is so of the others stays so.                  *)
LEMMA OneAsks ==
  ASSUME ThreadInv, NEW a \in Asker, NEW k, ask' = [ask EXCEPT ![a] = k], UNCHANGED <<answers, gone>>,
         k = NoAsk \/ (k \in Ask /\ AskTrue(k))
  PROVE  AsksTrue' /\ Spenders' = IF Spends(k) THEN Spenders \cup {a} ELSE Spenders \ {a}
<1>1. ask \in [Asker -> Ask \cup {NoAsk}] /\ \A b \in Asker : AskTrue(ask[b])
  BY DEF ThreadInv, AsksTrue
<1>2. ask' \in [Asker -> Ask \cup {NoAsk}] /\ ask'[a] = k /\ \A b \in Asker : b # a => ask'[b] = ask[b]
  BY <1>1
<1>3. AskTrue(k)'
  BY DEF AskTrue, Live, Made
<1>4. \A b \in Asker : AskTrue(ask[b])'
  <2> SUFFICES ASSUME NEW b \in Asker PROVE AskTrue(ask[b])'
    OBVIOUS
  <2>1. CASE b = a
    BY <1>2, <1>3, <2>1 DEF AskTrue, Live, Made
  <2>2. CASE b # a
    BY <1>1, <1>2, <2>2 DEF AskTrue, Live, Made
  <2> QED BY <2>1, <2>2
<1>5. Spenders' = IF Spends(k) THEN Spenders \cup {a} ELSE Spenders \ {a}
  BY <1>2 DEF Spenders, Spends
<1> QED BY <1>2, <1>4, <1>5 DEF AsksTrue

(* It is done, or goes on without a read to spend.                          *)
LEMMA BudgetKept ==
  ASSUME ThreadInv, NEW a \in Asker, UNCHANGED reads, Spenders' \subseteq Spenders
  PROVE  BudgetTrue'
<1>1. PICK n \in Nat : n = Cardinality(Spenders)
  BY SpendersCount
<1>2. PICK m \in Nat : m = Cardinality(Spenders') /\ m <= n
  <2>1. PICK S : S = Spenders'
    OBVIOUS
  <2>2. S \in SUBSET Spenders /\ IsFiniteSet(Spenders)
    BY <2>1, SpendersCount
  <2>3. IsFiniteSet(S) /\ Cardinality(S) <= Cardinality(Spenders)
    BY <2>2, FS_Subset
  <2>4. Cardinality(S) \in Nat
    BY <2>3, FS_CardinalityType
  <2> QED BY <1>1, <2>1, <2>3, <2>4
<1>3. reads \in Nat /\ reads + n <= HourlyReads + Cardinality(Asker) - 1
  BY <1>1 DEF ThreadInv, BudgetTrue
<1>4. reads + m <= HourlyReads + Cardinality(Asker) - 1
  BY <1>2, <1>3, SpendersCount
<1> QED BY <1>2, <1>3, <1>4 DEF BudgetTrue

LEMMA ListsStay == ASSUME ThreadInv, UNCHANGED <<answers, gone, kept, lists>> PROVE ListsTrue'
<1>1. \A a \in Asker : ListTrue(lists[a])'
  BY DEF ThreadInv, ListsTrue, ListTrue, Made
<1>2. ListTrue(kept)'
  BY DEF ThreadInv, ListsTrue, ListTrue, Made
<1> QED BY <1>1, <1>2 DEF ThreadInv, ListsTrue

LEMMA PostsStay == ASSUME ThreadInv, UNCHANGED <<answers, gone>> PROVE PostsTrue' /\ Made' = Made /\ Live' = Live
BY DEF ThreadInv, PostsTrue, Made, Live

LEMMA MakePostKeeps == ASSUME ThreadInv, MakePost PROVE ThreadInv'
<1>1. UNCHANGED <<gone, reads, ask, kept, lists, piece, broken>> /\ Made # Post
  BY DEF MakePost
<1>2. PICK target \in Live \cup {Opener, Stranger} : answers' = [answers EXCEPT ![Cardinality(Made) + 1] = target]
  BY DEF MakePost
<1>3. PICK n \in 0..LastPost : Made = 1..n
  BY DEF ThreadInv, PostsTrue
<1>4. n \in Nat /\ Cardinality(Made) = n /\ n # LastPost /\ LastPost \in Nat
  <2>1. n \in Nat /\ LastPost \in Nat
    BY <1>3, PostFacts
  <2>2. Cardinality(1..n) = n
    BY <2>1, FS_Interval
  <2> QED BY <1>1, <1>3, <2>1, <2>2 DEF Post
<1>5. PICK m \in Post : m = n + 1 /\ m \notin Made
  BY <1>3, <1>4 DEF Post
<1>6. answers' = [answers EXCEPT ![m] = target]
  BY <1>2, <1>4, <1>5
<1>7. target \in Post \cup {Opener, Stranger} /\ target # NoPost /\ (target \in Post => target < m)
  <2>1. Live \subseteq Made /\ Made \subseteq Post
    BY DEF Live, Made
  <2>2. target \in Post => target \in Made
    BY <2>1, ThreadsNullsAssumption
  <2>3. \A q \in Made : q < m
    BY <1>3, <1>4, <1>5
  <2> QED BY <2>1, <2>2, <2>3, ThreadsNullsAssumption
<1>8. answers \in [Post -> Post \cup {Opener, Stranger, NoPost}]
  BY DEF ThreadInv, PostsTrue
<1>9. answers' \in [Post -> Post \cup {Opener, Stranger, NoPost}] /\ answers'[m] = target
      /\ \A q \in Post : q # m => answers'[q] = answers[q]
  BY <1>6, <1>7, <1>8
<1>10. Made' = Made \cup {m}
  BY <1>7, <1>9 DEF Made
<1>11. Made' = 1..n + 1 /\ n + 1 \in 0..LastPost
  BY <1>3, <1>4, <1>5, <1>10
<1>12. \A q \in Made : q \in Post /\ answers'[q] = answers[q]
  BY <1>5, <1>9 DEF Made
<1>13. PostsTrue'
  <2>1. \A p \in Post : answers'[p] \in Post => answers'[p] < p
    BY <1>7, <1>9 DEF ThreadInv, PostsTrue
  <2>2. gone' \in SUBSET Made'
    BY <1>1, <1>10 DEF ThreadInv, PostsTrue
  <2> QED BY <1>9, <1>11, <2>1, <2>2 DEF PostsTrue
<1>14. Live \subseteq Live'
  BY <1>1, <1>10 DEF Live
<1>15. \A q \in Post : answers[q] = Opener => answers'[q] = Opener
  <2>1. \A q \in Post : answers[q] = Opener => q \in Made
    BY ThreadsNullsAssumption DEF Made
  <2> QED BY <1>12, <2>1
<1>16. AsksTrue'
  <2>1. \A a \in Asker : AskTrue(ask[a])'
    BY <1>1, <1>14, <1>15 DEF ThreadInv, AsksTrue, AskTrue
  <2> QED BY <1>1, <2>1 DEF ThreadInv, AsksTrue
<1>17. ASSUME NEW list, ListTrue(list) PROVE ListTrue(list)'
  <2> SUFFICES ASSUME list # NoList
               PROVE  /\ list \in List /\ list.through \subseteq Made' /\ \A r \in list.roots : answers'[r] = Opener
                      /\ ~list.cut /\ Cardinality(list.roots) < ListCap =>
                           \A p, q \in list.through : answers'[p] = Opener /\ answers'[q] = p => p \in list.roots
    BY DEF ListTrue
  <2>1. /\ list \in List /\ list.through \subseteq Made /\ \A r \in list.roots : answers[r] = Opener
        /\ ~list.cut /\ Cardinality(list.roots) < ListCap =>
             \A p, q \in list.through : answers[p] = Opener /\ answers[q] = p => p \in list.roots
    BY <1>17 DEF ListTrue
  <2>2. \A p \in list.through : answers'[p] = answers[p]
    BY <1>12, <2>1
  <2>3. list.roots \in SUBSET Post
    BY <2>1 DEF List
  <2> QED BY <1>10, <1>15, <2>1, <2>2, <2>3
<1>18. ListsTrue'
  <2>1. ASSUME NEW a \in Asker PROVE ListTrue(lists[a])'
    <3>1. PICK list : list = lists[a]
      OBVIOUS
    <3>2. ListTrue(list)
      BY <3>1 DEF ThreadInv, ListsTrue
    <3>3. ListTrue(list)'
      BY <1>17, <3>2
    <3> QED BY <1>1, <3>1, <3>3 DEF ListTrue
  <2>2. ListTrue(kept)'
    <3>1. PICK list : list = kept
      OBVIOUS
    <3>2. ListTrue(list)
      BY <3>1 DEF ThreadInv, ListsTrue
    <3>3. ListTrue(list)'
      BY <1>17, <3>2
    <3> QED BY <1>1, <3>1, <3>3 DEF ListTrue
  <2> QED BY <1>1, <2>1, <2>2 DEF ThreadInv, ListsTrue
<1>19. BudgetTrue' /\ PieceTrue'
  BY <1>1 DEF ThreadInv, BudgetTrue, Spenders, Spends, PieceTrue, PiecesWhole
<1> QED BY <1>13, <1>16, <1>18, <1>19 DEF ThreadInv

LEMMA DeleteOwnKeeps == ASSUME ThreadInv, NEW p \in Post, DeleteOwn(p) PROVE ThreadInv'
<1>1. /\ UNCHANGED <<answers, reads, kept, lists, piece, broken>> /\ p \in Live /\ gone' = gone \cup {p}
      /\ ask' = [a \in Asker |-> IF ask[a] = NoAsk THEN NoAsk ELSE [ask[a] EXCEPT !.through = @ \ {p}]]
  BY DEF DeleteOwn
<1>2. Made' = Made /\ Live' = Live \ {p}
  BY <1>1 DEF Made, Live
<1>3. PostsTrue'
  BY <1>1, <1>2 DEF ThreadInv, PostsTrue, Live
<1>4. ASSUME NEW a \in Asker
      PROVE  ask'[a] \in Ask \cup {NoAsk} /\ AskTrue(ask[a])' /\ (Spends(ask[a])' <=> Spends(ask[a]))
  <2>1. CASE ask[a] = NoAsk
    <3>1. ask'[a] = NoAsk
      BY <1>1, <2>1
    <3> QED BY <2>1, <3>1 DEF AskTrue, Spends
  <2>2. CASE ask[a] # NoAsk
    <3>1. PICK k \in Ask : k = ask[a] /\ AskTrue(k)
      BY <2>2 DEF ThreadInv, AsksTrue
    <3>2. ask'[a] = [k EXCEPT !.through = @ \ {p}]
      BY <1>1, <2>2, <3>1
    <3>3. /\ ask'[a] \in Ask /\ ask'[a].through = k.through \ {p} /\ ask'[a].of = k.of /\ ask'[a].at = k.at
          /\ ask'[a].cursor = k.cursor /\ ask'[a].seen = k.seen
      BY <3>2 DEF Ask
    <3>4. ask'[a] # NoAsk /\ k # NoAsk
      BY <3>3, ThreadsNullsAssumption
    <3>5. AskTrue(ask[a])'
      BY <1>1, <1>2, <3>1, <3>3, <3>4 DEF AskTrue
    <3> QED BY <3>1, <3>3, <3>4, <3>5 DEF Spends
  <2> QED BY <2>1, <2>2
<1>5. AsksTrue'
  <2>1. ask' \in [Asker -> Ask \cup {NoAsk}]
    BY <1>1, <1>4
  <2> QED BY <1>4, <2>1 DEF AsksTrue
<1>6. Spenders' = Spenders
  BY <1>4 DEF Spenders
<1>7. BudgetTrue' /\ PieceTrue'
  BY <1>1, <1>6 DEF ThreadInv, BudgetTrue, PieceTrue, PiecesWhole
<1>8. ListsTrue'
  <2>1. \A a \in Asker : ListTrue(lists[a])'
    BY <1>1, <1>2 DEF ThreadInv, ListsTrue, ListTrue
  <2>2. ListTrue(kept)'
    BY <1>1, <1>2 DEF ThreadInv, ListsTrue, ListTrue
  <2> QED BY <1>1, <2>1, <2>2 DEF ThreadInv, ListsTrue
<1> QED BY <1>3, <1>5, <1>7, <1>8 DEF ThreadInv

(* The asker a's request goes on as k, and nothing it read is shown yet.    *)
LEMMA AskGoesOn ==
  ASSUME ThreadInv, NEW a \in Asker, NEW k, ask' = [ask EXCEPT ![a] = k], UNCHANGED <<answers, gone, reads, kept, lists>>,
         k = NoAsk \/ (k \in Ask /\ AskTrue(k) /\ k.at # "spend"), PieceTrue'
  PROVE  ThreadInv'
<1>1. AsksTrue' /\ Spenders' = IF Spends(k) THEN Spenders \cup {a} ELSE Spenders \ {a}
  BY OneAsks
<1>2. ~Spends(k)
  BY DEF Spends
<1>3. BudgetTrue'
  BY <1>1, <1>2, BudgetKept
<1> QED BY <1>1, <1>3, ListsStay, PostsStay DEF ThreadInv

LEMMA NewAsk ==
  ASSUME NEW of \in Post \cup {NoPost}, of \in Post => answers[of] = Opener,
         NEW k, k = [at |-> "count", of |-> of, cursor |-> LastPost + 1, page |-> 0, seen |-> {}, through |-> {}]
  PROVE  k \in Ask /\ AskTrue(k) /\ k.at = "count"
<1>1. LastPost + 1 \in 1..LastPost + 1 /\ 0 \in 0..FeedPages - 1
  BY ThreadsAssumption
<1>2. k \in Ask
  BY <1>1 DEF Ask
<1>3. k.at = "count" /\ k.of = of /\ k.cursor = LastPost + 1 /\ k.through = {}
  OBVIOUS
<1> QED BY <1>2, <1>3 DEF AskTrue

LEMMA AskListKeeps == ASSUME ThreadInv, NEW a \in Asker, AskList(a) PROVE ThreadInv'
<1>1. UNCHANGED <<answers, gone, reads, kept, broken>> /\ ask[a] = NoAsk /\ piece' = NoPiece
  BY DEF AskList
<1>2. PieceTrue'
  BY <1>1 DEF ThreadInv, PieceTrue, PiecesWhole
<1>3. PostsTrue'
  BY <1>1, PostsStay
<1>4. ASSUME NEW list, list = kept \/ list = NoList, lists' = [lists EXCEPT ![a] = list] PROVE ListsTrue'
  <2>1. ListTrue(list)
    BY <1>4 DEF ThreadInv, ListsTrue, ListTrue
  <2>2. lists' \in [Asker -> List \cup {NoList}] /\ lists'[a] = list /\ \A b \in Asker : b # a => lists'[b] = lists[b]
    BY <1>4 DEF ThreadInv, ListsTrue
  <2>3. ASSUME NEW b \in Asker PROVE ListTrue(lists[b])'
    <3>1. CASE b = a
      BY <1>1, <2>1, <2>2, <3>1 DEF ListTrue, Made
    <3>2. CASE b # a
      BY <1>1, <2>2, <3>2 DEF ThreadInv, ListsTrue, ListTrue, Made
    <3> QED BY <3>1, <3>2
  <2>4. ListTrue(kept)'
    BY <1>1 DEF ThreadInv, ListsTrue, ListTrue, Made
  <2> QED BY <1>1, <2>2, <2>3, <2>4 DEF ThreadInv, ListsTrue
<1>5. CASE kept # NoList
  <2>1. lists' = [lists EXCEPT ![a] = kept] /\ UNCHANGED ask
    BY <1>5 DEF AskList
  <2>2. PICK list : list = kept
    OBVIOUS
  <2>3. ListsTrue'
    BY <1>4, <2>1, <2>2
  <2>4. AsksTrue'
    BY <1>1, <2>1 DEF ThreadInv, AsksTrue, AskTrue, Live, Made
  <2>5. BudgetTrue'
    BY <1>1, <2>1 DEF ThreadInv, BudgetTrue, Spenders, Spends
  <2> QED BY <1>2, <1>3, <2>3, <2>4, <2>5 DEF ThreadInv
<1>6. CASE kept = NoList
  <2>1. PICK k : k = [at |-> "count", of |-> NoPost, cursor |-> LastPost + 1, page |-> 0, seen |-> {}, through |-> {}]
    OBVIOUS
  <2>2. ask' = [ask EXCEPT ![a] = k] /\ lists' = [lists EXCEPT ![a] = NoList]
    BY <1>6, <2>1 DEF AskList
  <2>3. k \in Ask /\ AskTrue(k) /\ k.at = "count"
    BY <2>1, ThreadsNullsAssumption, NewAsk
  <2>4. AsksTrue' /\ Spenders' = IF Spends(k) THEN Spenders \cup {a} ELSE Spenders \ {a}
    BY <1>1, <2>2, <2>3, OneAsks
  <2>5. BudgetTrue'
    BY <1>1, <2>3, <2>4, BudgetKept DEF Spends
  <2>6. ListsTrue'
    BY <1>4, <2>2
  <2> QED BY <1>2, <1>3, <2>4, <2>5, <2>6 DEF ThreadInv
<1> QED BY <1>5, <1>6

LEMMA AskThreadKeeps == ASSUME ThreadInv, NEW a \in Asker, NEW p \in Post, AskThread(a, p) PROVE ThreadInv'
<1>1. PICK k : k = [at |-> "count", of |-> p, cursor |-> LastPost + 1, page |-> 0, seen |-> {}, through |-> {}]
  OBVIOUS
<1>2. /\ UNCHANGED <<answers, gone, reads, kept, lists, broken>> /\ piece' = NoPiece /\ ask' = [ask EXCEPT ![a] = k]
      /\ lists[a] # NoList /\ p \in lists[a].roots
  BY <1>1 DEF AskThread
<1>3. answers[p] = Opener
  BY <1>2 DEF ThreadInv, ListsTrue, ListTrue
<1>4. k \in Ask /\ AskTrue(k) /\ k.at = "count"
  BY <1>1, <1>3, NewAsk
<1>5. PieceTrue'
  BY <1>2 DEF ThreadInv, PieceTrue, PiecesWhole
<1> QED BY <1>2, <1>4, <1>5, AskGoesOn

LEMMA AskFacts ==
  ASSUME ThreadInv, NEW a \in Asker, NEW where, AskAt(a, where)
  PROVE  ask[a] \in Ask /\ AskTrue(ask[a]) /\ ask[a].at = where /\ ask[a] # NoAsk
BY DEF ThreadInv, AsksTrue, AskAt

LEMMA CountReadsKeeps == ASSUME ThreadInv, NEW a \in Asker, CountReads(a) PROVE ThreadInv'
<1>1. UNCHANGED <<answers, gone, reads, kept, lists, piece, broken>> /\ AskAt(a, "count")
  BY DEF CountReads
<1>2. PieceTrue'
  BY <1>1 DEF ThreadInv, PieceTrue, PiecesWhole
<1>3. CASE reads >= HourlyReads
  <2>1. ask' = [ask EXCEPT ![a] = NoAsk]
    BY <1>3 DEF CountReads, Done
  <2> QED BY <1>1, <1>2, <2>1, AskGoesOn
<1>4. CASE ~(reads >= HourlyReads)
  <2>1. PICK k \in Ask : k = ask[a] /\ AskTrue(k) /\ k.at = "count" /\ k # NoAsk
    BY <1>1, AskFacts
  <2>2. PICK m : m = [k EXCEPT !.at = "spend"]
    OBVIOUS
  <2>3. m \in Ask /\ m.at = "spend" /\ m.of = k.of /\ m.cursor = k.cursor /\ m.through = k.through
    BY <2>1, <2>2 DEF Ask
  <2>4. m # NoAsk /\ AskTrue(m) /\ Spends(m)
    BY <2>1, <2>3, ThreadsNullsAssumption DEF AskTrue, Spends
  <2>5. ask' = [ask EXCEPT ![a] = m]
    <3>1. ask' = [ask EXCEPT ![a].at = "spend"]
      BY <1>4 DEF CountReads
    <3> QED BY <2>1, <2>2, <3>1
  <2>6. AsksTrue'
    BY <1>1, <2>3, <2>4, <2>5, OneAsks
  <2>7. BudgetTrue'
    <3>1. PICK S : S = Spenders'
      OBVIOUS
    <3>2. S \in SUBSET Asker
      BY <3>1 DEF Spenders
    <3>3. PICK n \in Nat : n = Cardinality(S) /\ n <= Cardinality(Asker)
      BY <3>2, SpendersCount
    <3>4. reads \in Nat
      BY DEF ThreadInv, BudgetTrue
    <3>5. reads + n <= HourlyReads + Cardinality(Asker) - 1
      BY <1>4, <3>3, <3>4, SpendersCount
    <3> QED BY <1>1, <3>1, <3>3, <3>4, <3>5 DEF BudgetTrue
  <2> QED BY <1>1, <1>2, <2>6, <2>7, ListsStay, PostsStay DEF ThreadInv
<1> QED BY <1>3, <1>4

LEMMA SpendReadKeeps == ASSUME ThreadInv, NEW a \in Asker, SpendRead(a) PROVE ThreadInv'
<1>1. UNCHANGED <<answers, gone, kept, lists, piece, broken>> /\ AskAt(a, "spend") /\ reads' = reads + 1
  BY DEF SpendRead
<1>2. PICK k \in Ask : k = ask[a] /\ AskTrue(k) /\ k.at = "spend" /\ k # NoAsk
  BY <1>1, AskFacts
<1>3. PICK where : where = IF k.of = NoPost THEN "feed" ELSE "thread"
  OBVIOUS
<1>4. PICK m : m = [k EXCEPT !.at = where, !.through = Live]
  OBVIOUS
<1>5. Live \in SUBSET Post
  BY DEF Live, Made
<1>6. m \in Ask /\ m.at = where /\ m.of = k.of /\ m.cursor = k.cursor /\ m.through = Live
  BY <1>2, <1>3, <1>4, <1>5 DEF Ask
<1>7. m # NoAsk /\ AskTrue(m) /\ ~Spends(m)
  <2>1. k.cursor = LastPost + 1 /\ (k.of \in Post => answers[k.of] = Opener) /\ k.of \in Post \cup {NoPost}
    BY <1>2 DEF AskTrue, Ask
  <2>2. \A p \in Live : ~(p >= LastPost + 1)
    BY <1>5, PostFacts DEF Post
  <2>3. m # NoAsk
    BY <1>6, ThreadsNullsAssumption
  <2> QED BY <1>3, <1>6, <2>1, <2>2, <2>3 DEF AskTrue, Spends
<1>8. ask' = [ask EXCEPT ![a] = m]
  <2>1. ask' = [ask EXCEPT ![a].at = IF ask[a].of = NoPost THEN "feed" ELSE "thread", ![a].through = Live]
    BY DEF SpendRead
  <2> QED BY <1>2, <1>3, <1>4, <2>1 DEF ThreadInv, AsksTrue
<1>9. AsksTrue' /\ Spenders' = Spenders \ {a}
  BY <1>1, <1>6, <1>7, <1>8, OneAsks
<1>10. a \in Spenders
  BY <1>2 DEF Spenders, Spends
<1>11. BudgetTrue'
  <2>1. PICK n \in Nat : n = Cardinality(Spenders) /\ IsFiniteSet(Spenders)
    BY SpendersCount
  <2>2. Cardinality(Spenders \ {a}) = n - 1 /\ IsFiniteSet(Spenders \ {a})
    BY <1>10, <2>1, FS_RemoveElement
  <2>3. n - 1 \in Int /\ reads \in Nat /\ reads + n <= HourlyReads + Cardinality(Asker) - 1
    BY <2>1 DEF ThreadInv, BudgetTrue
  <2>4. (reads + 1) + (n - 1) <= HourlyReads + Cardinality(Asker) - 1
    BY <2>1, <2>3
  <2>5. Cardinality(Spenders') = n - 1
    BY <1>9, <2>2
  <2> QED BY <1>1, <2>3, <2>4, <2>5 DEF BudgetTrue
<1>12. PieceTrue'
  BY <1>1 DEF ThreadInv, PieceTrue, PiecesWhole
<1> QED BY <1>1, <1>9, <1>11, <1>12, ListsStay, PostsStay DEF ThreadInv

LEMMA HourPassesKeeps == ASSUME ThreadInv, HourPasses PROVE ThreadInv'
<1>1. UNCHANGED <<answers, gone, ask, kept, lists, piece, broken>> /\ reads' = 0
  BY DEF HourPasses
<1>2. PieceTrue'
  BY <1>1 DEF ThreadInv, PieceTrue, PiecesWhole
<1>3. AsksTrue' /\ Spenders' = Spenders
  BY <1>1 DEF ThreadInv, AsksTrue, AskTrue, Live, Made, Spenders, Spends
<1>4. BudgetTrue'
  <2>1. PICK n \in Nat : n = Cardinality(Spenders) /\ n <= Cardinality(Asker)
    BY SpendersCount
  <2>2. 0 + n <= HourlyReads + Cardinality(Asker) - 1
    BY <2>1, SpendersCount
  <2> QED BY <1>1, <1>3, <2>1, <2>2 DEF BudgetTrue
<1> QED BY <1>1, <1>2, <1>3, <1>4, ListsStay, PostsStay DEF ThreadInv

LEMMA ListExpiresKeeps == ASSUME ThreadInv, ListExpires PROVE ThreadInv'
<1>1. UNCHANGED <<answers, gone, reads, ask, lists, piece, broken>> /\ kept' = NoList
  BY DEF ListExpires
<1>2. PieceTrue'
  BY <1>1 DEF ThreadInv, PieceTrue, PiecesWhole
<1>3. AsksTrue' /\ BudgetTrue'
  BY <1>1 DEF ThreadInv, AsksTrue, AskTrue, Live, Made, Spenders, Spends, BudgetTrue
<1>4. ListsTrue'
  <2>1. \A a \in Asker : ListTrue(lists[a])'
    BY <1>1 DEF ThreadInv, ListsTrue, ListTrue, Made
  <2>2. ListTrue(kept)'
    BY <1>1 DEF ListTrue
  <2> QED BY <1>1, <2>1, <2>2 DEF ThreadInv, ListsTrue
<1> QED BY <1>1, <1>2, <1>3, <1>4, PostsStay DEF ThreadInv

LEMMA BrokenTyped == ASSUME ThreadInv, Broken PROVE broken' \in 0..MaxBroken
BY ThreadsAssumption DEF ThreadInv, PieceTrue, Broken

LEMMA ThreadFailsKeeps == ASSUME ThreadInv, NEW a \in Asker, ThreadFails(a) PROVE ThreadInv'
<1>1. UNCHANGED <<answers, gone, reads, kept, lists, piece>> /\ ask' = [ask EXCEPT ![a] = NoAsk] /\ Broken
  BY DEF ThreadFails, Done
<1>2. PieceTrue'
  BY <1>1, BrokenTyped DEF ThreadInv, PieceTrue, PiecesWhole
<1> QED BY <1>1, <1>2, AskGoesOn

LEMMA AssembleThreadKeeps == ASSUME ThreadInv, NEW a \in Asker, AssembleThread(a) PROVE ThreadInv'
<1>1. /\ UNCHANGED <<answers, gone, reads, kept, lists, broken>> /\ AskAt(a, "thread") /\ ask' = [ask EXCEPT ![a] = NoAsk]
      /\ piece' = NoPiece \/ piece' = Assembled(ask[a].of)
  BY DEF AssembleThread, Done
<1>2. PICK root \in Post : root = ask[a].of /\ answers[root] = Opener
  BY <1>1, AskFacts DEF AskTrue
<1>3. Assembled(root) \in Piece /\ (~Assembled(root).cut => Assembled(root).left = {})
  BY <1>2, AssembledWhole DEF ThreadInv
<1>4. PICK made : made = Assembled(root)
  OBVIOUS
<1>5. piece' = NoPiece \/ piece' = made
  BY <1>1, <1>2, <1>4
<1>6. PieceTrue'
  BY <1>1, <1>3, <1>4, <1>5 DEF ThreadInv, PieceTrue, PiecesWhole
<1> QED BY <1>1, <1>6, AskGoesOn

(* The threads among the posts read: all of them, short of the cap.         *)
LEMMA RootsFacts ==
  ASSUME ThreadInv, NEW seen \in SUBSET Post
  PROVE  /\ Roots(seen) \in SUBSET Post /\ \A r \in Roots(seen) : answers[r] = Opener
         /\ Cardinality(Roots(seen)) < ListCap =>
              \A p, q \in seen : answers[p] = Opener /\ answers[q] = p => p \in Roots(seen)
<1>1. PICK all : all = {p \in seen : answers[p] = Opener /\ Cardinality(Spine(p, seen)) >= 2}
  OBVIOUS
<1>2. all \in SUBSET Post /\ ListCap \in Nat \ {0} /\ Roots(seen) = Newest(all, ListCap)
  BY <1>1, ThreadsAssumption DEF Roots
<1>3. Roots(seen) \in SUBSET all /\ (Cardinality(Roots(seen)) < ListCap => Roots(seen) = all)
  BY <1>2, NewestFacts
<1>4. ASSUME NEW p \in seen, NEW q \in seen, answers[p] = Opener, answers[q] = p PROVE p \in all
  <2>1. {m \in seen : answers[m] = p} # {}
    BY <1>4
  <2>2. p \in Post
    OBVIOUS
  <2>3. Cardinality(Spine(p, seen)) >= 2
    BY <2>1, <2>2, SpineFacts DEF ThreadInv
  <2> QED BY <1>1, <1>4, <2>3
<1> QED BY <1>1, <1>2, <1>3, <1>4

(* A list is handed over, and kept if whole pages made it.                  *)
LEMMA KeepKeeps ==
  ASSUME ThreadInv, NEW a \in Asker, NEW list, ListTrue(list), list \in List, Keep(a, list),
         UNCHANGED <<answers, gone, reads>>, PieceTrue'
  PROVE  ThreadInv'
<1>1. /\ lists' = [lists EXCEPT ![a] = list] /\ kept' = (IF list.partial THEN kept ELSE list)
      /\ ask' = [ask EXCEPT ![a] = NoAsk]
  BY DEF Keep, Done
<1>2. AsksTrue' /\ Spenders' = IF Spends(NoAsk) THEN Spenders \cup {a} ELSE Spenders \ {a}
  BY <1>1, OneAsks
<1>3. BudgetTrue'
  BY <1>2, BudgetKept DEF Spends
<1>4. lists' \in [Asker -> List \cup {NoList}] /\ lists'[a] = list /\ \A b \in Asker : b # a => lists'[b] = lists[b]
  BY <1>1 DEF ThreadInv, ListsTrue
<1>5. ASSUME NEW b \in Asker PROVE ListTrue(lists[b])'
  <2>1. CASE b = a
    BY <1>4, <2>1 DEF ListTrue, Made
  <2>2. CASE b # a
    BY <1>4, <2>2 DEF ThreadInv, ListsTrue, ListTrue, Made
  <2> QED BY <2>1, <2>2
<1>6. ListTrue(kept)' /\ kept' \in List \cup {NoList} /\ (kept' # NoList => ~kept'.partial)
  <2>1. CASE list.partial
    BY <1>1, <2>1 DEF ThreadInv, ListsTrue, ListTrue, Made
  <2>2. CASE ~list.partial
    BY <1>1, <2>2 DEF ListTrue, Made
  <2> QED BY <2>1, <2>2
<1>7. ListsTrue'
  BY <1>4, <1>5, <1>6 DEF ListsTrue
<1> QED BY <1>2, <1>3, <1>7, PostsStay DEF ThreadInv

(* What is found among the posts read.                                      *)
LEMMA FoundTrue ==
  ASSUME ThreadInv, NEW a \in Asker, AskAt(a, "feed"), NEW seen \in SUBSET Post, NEW cut \in BOOLEAN,
         NEW partial \in BOOLEAN, cut \/ ask[a].through \subseteq seen
  PROVE  Found(a, seen, cut, partial) \in List /\ ListTrue(Found(a, seen, cut, partial))
<1>1. PICK list : list = Found(a, seen, cut, partial)
  OBVIOUS
<1>2. PICK k \in Ask : k = ask[a] /\ AskTrue(k) /\ k # NoAsk
  BY AskFacts
<1>3. k.through \in SUBSET Post /\ k.through \subseteq Made
  BY <1>2 DEF Ask, AskTrue, Live
<1>4. PICK roots \in SUBSET Post : roots = Roots(seen)
  BY RootsFacts
<1>5. list = [roots |-> roots, cut |-> cut, partial |-> partial, through |-> k.through]
  BY <1>1, <1>2, <1>4 DEF Found
<1>6. list \in List /\ list.roots = roots /\ list.cut = cut /\ list.through = k.through
  BY <1>3, <1>5 DEF List
<1>7. /\ \A r \in roots : answers[r] = Opener
      /\ Cardinality(roots) < ListCap => \A p, q \in seen : answers[p] = Opener /\ answers[q] = p => p \in roots
  BY <1>4, RootsFacts
<1>8. cut \/ k.through \subseteq seen
  BY <1>2
<1>9. ListTrue(list)
  BY <1>3, <1>6, <1>7, <1>8 DEF ListTrue
<1> QED BY <1>1, <1>6, <1>9

LEMMA FeedFailsKeeps == ASSUME ThreadInv, NEW a \in Asker, FeedFails(a) PROVE ThreadInv'
<1>1. UNCHANGED <<answers, gone, reads, piece>> /\ AskAt(a, "feed") /\ Broken
  BY DEF FeedFails
<1>2. PieceTrue'
  BY <1>1, BrokenTyped DEF ThreadInv, PieceTrue, PiecesWhole
<1>3. CASE ask[a].page = 0
  <2>1. ask' = [ask EXCEPT ![a] = NoAsk] /\ UNCHANGED <<kept, lists>>
    BY <1>3 DEF FeedFails, Done
  <2> QED BY <1>1, <1>2, <2>1, AskGoesOn
<1>4. CASE ask[a].page # 0
  <2>1. Keep(a, Found(a, ask[a].seen, TRUE, TRUE))
    BY <1>4 DEF FeedFails, PageLost
  <2>2. ask[a].seen \in SUBSET Post
    BY <1>1, AskFacts DEF Ask
  <2>3. PICK seen \in SUBSET Post : seen = ask[a].seen
    BY <2>2
  <2>4. Found(a, seen, TRUE, TRUE) \in List /\ ListTrue(Found(a, seen, TRUE, TRUE))
    BY <1>1, FoundTrue
  <2>5. PICK list : list = Found(a, seen, TRUE, TRUE)
    OBVIOUS
  <2>6. Keep(a, list) /\ list \in List /\ ListTrue(list)
    BY <2>1, <2>3, <2>4, <2>5
  <2> QED BY <1>1, <1>2, <2>6, KeepKeeps
<1> QED BY <1>3, <1>4

LEMMA FeedPageKeeps == ASSUME ThreadInv, NEW a \in Asker, FeedPage(a) PROVE ThreadInv'
<1>1. UNCHANGED <<answers, gone, reads, piece, broken>> /\ AskAt(a, "feed")
  BY DEF FeedPage
<1>2. PieceTrue'
  BY <1>1 DEF ThreadInv, PieceTrue, PiecesWhole
<1>3. PICK k \in Ask : k = ask[a] /\ AskTrue(k) /\ k.at = "feed" /\ k # NoAsk
  BY <1>1, AskFacts
<1>4. /\ k.cursor \in 1..LastPost + 1 /\ k.page \in 0..FeedPages - 1 /\ k.seen \in SUBSET Post /\ k.of \in Post \cup {NoPost}
      /\ k.through \in SUBSET Post
  BY DEF Ask
<1>5. PICK older \in SUBSET Post : older = {p \in Live : p < k.cursor}
  BY DEF Live, Made
<1>6. PICK page \in SUBSET Post : page = Newest(older, FeedLimit)
  BY DEF Newest
<1>7. PICK seen \in SUBSET Post : seen = k.seen \cup page
  BY <1>4
<1>8. IF older = page THEN Keep(a, Found(a, seen, FALSE, FALSE))
      ELSE IF k.page = FeedPages - 1 THEN Keep(a, Found(a, seen, TRUE, FALSE))
      ELSE /\ ask' = [ask EXCEPT ![a].cursor = Min(page), ![a].page = @ + 1, ![a].seen = seen]
           /\ UNCHANGED <<kept, lists>>
  BY <1>3, <1>5, <1>6, <1>7 DEF FeedPage
<1>9. /\ page \in SUBSET older /\ \A m \in page, j \in older : j >= m => j \in page
      /\ (page = {} => page = older)
  <2>1. FeedLimit \in Nat \ {0}
    BY ThreadsAssumption
  <2> QED BY <1>6, <2>1, NewestFacts
<1>10. k.cursor \in Nat
  BY <1>4, PostFacts
<1>11. \A p \in k.through : p \in Nat /\ (p \in k.seen \/ p \in older)
  <2> SUFFICES ASSUME NEW p \in k.through PROVE p \in Nat /\ (p \in k.seen \/ p \in older)
    OBVIOUS
  <2>1. p \in Nat /\ p \in Live
    BY <1>3, <1>4, PostFacts DEF AskTrue
  <2>2. CASE p >= k.cursor
    BY <1>3, <2>1, <2>2 DEF AskTrue
  <2>3. CASE ~(p >= k.cursor)
    BY <1>5, <1>10, <2>1, <2>3
  <2> QED BY <2>1, <2>2, <2>3
<1>12. CASE older = page
  <2>1. ask[a].through \subseteq seen
    BY <1>3, <1>7, <1>11, <1>12
  <2>2. Found(a, seen, FALSE, FALSE) \in List /\ ListTrue(Found(a, seen, FALSE, FALSE))
    BY <1>1, <2>1, FoundTrue
  <2>3. PICK list : list = Found(a, seen, FALSE, FALSE)
    OBVIOUS
  <2>4. Keep(a, list) /\ list \in List /\ ListTrue(list)
    BY <1>8, <1>12, <2>2, <2>3
  <2> QED BY <1>1, <1>2, <2>4, KeepKeeps
<1>13. CASE older # page /\ k.page = FeedPages - 1
  <2>2. Found(a, seen, TRUE, FALSE) \in List /\ ListTrue(Found(a, seen, TRUE, FALSE))
    BY <1>1, FoundTrue
  <2>3. PICK list : list = Found(a, seen, TRUE, FALSE)
    OBVIOUS
  <2>4. Keep(a, list) /\ list \in List /\ ListTrue(list)
    BY <1>8, <1>13, <2>2, <2>3
  <2> QED BY <1>1, <1>2, <2>4, KeepKeeps
<1>14. CASE older # page /\ k.page # FeedPages - 1
  <2>1. UNCHANGED <<kept, lists>> /\ ask' = [ask EXCEPT ![a].cursor = Min(page), ![a].page = @ + 1, ![a].seen = seen]
    BY <1>8, <1>14
  <2>2. page # {} /\ page \in SUBSET Nat
    BY <1>9, <1>14, PostFacts
  <2>3. PICK low \in page : low = Min(page) /\ \A n \in page : low <= n
    BY <2>2, MinOfKeys
  <2>4. PICK m : m = [k EXCEPT !.cursor = low, !.page = k.page + 1, !.seen = seen]
    OBVIOUS
  <2>5. low \in 1..LastPost + 1 /\ low \in Nat
    BY <2>2, PostFacts DEF Post
  <2>6. k.page + 1 \in 0..FeedPages - 1
    BY <1>4, <1>14, ThreadsAssumption
  <2>7. m \in Ask /\ m.at = k.at /\ m.of = k.of /\ m.through = k.through /\ m.cursor = low /\ m.seen = seen
    BY <2>4, <2>5, <2>6 DEF Ask
  <2>8. \A p \in k.through : p >= low => p \in seen
    BY <1>7, <1>9, <1>11
  <2>9. AskTrue(m)
    BY <1>3, <2>7, <2>8 DEF AskTrue
  <2>10. ask' = [ask EXCEPT ![a] = m]
    BY <1>3, <2>1, <2>3, <2>4 DEF ThreadInv, AsksTrue
  <2> QED BY <1>1, <1>2, <1>3, <2>1, <2>7, <2>9, <2>10, AskGoesOn
<1> QED BY <1>12, <1>13, <1>14

LEMMA ThreadStart == ThreadInit => ThreadInv
<1> SUFFICES ASSUME ThreadInit PROVE ThreadInv
  OBVIOUS
<1>1. Made = {} /\ Live = {}
  BY DEF ThreadInit, Made, Live
<1>2. PostsTrue
  <2>1. 0 \in 0..LastPost /\ 1..0 = {}
    BY PostFacts
  <2>2. \A p \in Post : answers[p] = NoPost /\ NoPost \notin Post
    BY ThreadsNullsAssumption DEF ThreadInit
  <2> QED BY <1>1, <2>1, <2>2 DEF ThreadInit, PostsTrue
<1>3. AsksTrue /\ Spenders = {}
  BY DEF ThreadInit, AsksTrue, AskTrue, Spenders, Spends
<1>4. ListsTrue
  BY DEF ThreadInit, ListsTrue, ListTrue
<1>5. BudgetTrue
  <2>1. Cardinality(Spenders) = 0
    BY <1>3, FS_EmptySet
  <2>2. 0 + 0 <= HourlyReads + Cardinality(Asker) - 1
    BY SpendersCount
  <2> QED BY <2>1, <2>2 DEF ThreadInit, BudgetTrue
<1>6. PieceTrue
  BY ThreadsAssumption DEF ThreadInit, PieceTrue, PiecesWhole
<1> QED BY <1>2, <1>3, <1>4, <1>5, <1>6 DEF ThreadInv

LEMMA ThreadStep == ThreadInv /\ [ThreadNext]_threadVars => ThreadInv'
<1> SUFFICES ASSUME ThreadInv, [ThreadNext]_threadVars PROVE ThreadInv'
  OBVIOUS
<1>1. CASE UNCHANGED threadVars
  <2>1. UNCHANGED <<answers, gone, reads, ask, kept, lists, piece, broken>>
    BY <1>1 DEF threadVars
  <2>2. AsksTrue' /\ BudgetTrue'
    BY <2>1 DEF ThreadInv, AsksTrue, AskTrue, Live, Made, Spenders, Spends, BudgetTrue
  <2>3. PieceTrue'
    BY <2>1 DEF ThreadInv, PieceTrue, PiecesWhole
  <2> QED BY <2>1, <2>2, <2>3, ListsStay, PostsStay DEF ThreadInv
<1>2. CASE ThreadNext
  BY <1>2, MakePostKeeps, HourPassesKeeps, ListExpiresKeeps, DeleteOwnKeeps, AskListKeeps, CountReadsKeeps,
     SpendReadKeeps, FeedFailsKeeps, FeedPageKeeps, AssembleThreadKeeps, ThreadFailsKeeps, AskThreadKeeps
     DEF ThreadNext
<1> QED BY <1>1, <1>2

LEMMA ThreadTyped == ThreadInv => ThreadTypeOK
<1> SUFFICES ASSUME ThreadInv PROVE ThreadTypeOK
  OBVIOUS
<1>1. reads \in 0..HourlyReads + Cardinality(Asker) - 1
  <2>1. PICK n \in Nat : n = Cardinality(Spenders)
    BY SpendersCount
  <2> QED BY <2>1, SpendersCount DEF ThreadInv, BudgetTrue
<1> QED BY <1>1 DEF ThreadInv, PostsTrue, AsksTrue, ListsTrue, PieceTrue, ThreadTypeOK

LEMMA ThreadsSay == ThreadInv => ThreadsWhole
<1> SUFFICES ASSUME ThreadInv PROVE ThreadsWhole
  OBVIOUS
<1>1. ListsWhole
  BY DEF ThreadInv, ListsTrue, ListTrue, ListsWhole
<1> QED BY <1>1 DEF ThreadInv, PieceTrue, ThreadsWhole

(* What is held of a writer's threads has its type, and the hourly budget   *)
(* is overdrawn by no more than the requests under way (lib/threads).       *)
THEOREM ThreadTypeCorrect == ThreadSpec => []ThreadTypeOK
BY ThreadStart, ThreadStep, ThreadTyped, PTL DEF ThreadSpec

(* A list of threads, and a draft made of one, is whole or says that it is  *)
(* not (discoverAuthorThreads, assembleThread).                             *)
THEOREM ThreadsWholeHolds == ThreadSpec => []ThreadsWhole
BY ThreadStart, ThreadStep, ThreadsSay, PTL DEF ThreadSpec

-----------------------------------------------------------------------------
(* An export file.                                                          *)

Formats == {"substack", "medium", "ghost", "wordpress"}
Held == Candidates(file.format, file.entries)
Few == FewOf(Held, ExportCap)
NamelessOf(places) == {n \in places : file.entries[n].id = NoId}

(* What has been read of a file so far is accounted for, one for one.       *)
Accounted ==
  /\ parse.queue \in SUBSET Few
  /\ parse.listed \in SUBSET (Few \ parse.queue)
  /\ parse.truncated = PastCap(Cardinality(Held))
  /\ Cardinality(parse.listed) + parse.failures + parse.skipped + Cardinality(NamelessOf(Few \ parse.queue))
       = Cardinality(Few \ parse.queue) + SkippedAtOnce(file.format, file.entries)

FileTyped == file.format \in Formats /\ file.entries \in BoundedSeq(EntriesOf(file.format), LastEntry)

Counts ==
  /\ parse.failures \in Nat /\ parse.skipped \in Nat /\ parse.truncated \in Nat /\ parse.slots \in Nat
  /\ parse.left \in 0..TotalBudget

Picked ==
  /\ parse.imported \in SUBSET PostId
  /\ parse.selected \in SUBSET Ids(parse.listed)

Shape == parse = [queue |-> parse.queue, listed |-> parse.listed, failures |-> parse.failures,
                  skipped |-> parse.skipped, truncated |-> parse.truncated, left |-> parse.left,
                  selected |-> parse.selected, imported |-> parse.imported, slots |-> parse.slots]

FileInv ==
  /\ step \in {"source", "reading", "checking", "pick"}
  /\ step = "source" => file = NoneYet /\ parse = NothingRead
  /\ step # "source" => FileTyped /\ Shape /\ Counts /\ Picked /\ Accounted
                        /\ parse.listed \in SUBSET OnlyPosts(file.entries)
                        /\ \A n \in parse.listed : file.entries[n].id \in PostId
  /\ step \in {"checking", "pick"} => parse.queue = {}
  /\ step = "reading" => parse.selected = {}

Kinds(format, entry) ==
  /\ format \in Zips => entry.kind \in {"post", "response"} /\ entry.id \in PostId /\ entry.size \in 0..EntryLimit + 1
  /\ format = "ghost" => /\ entry.kind \in {"noise", "page", "post"} /\ entry.id \in PostId \cup {NoId}
                         /\ entry.kind = "page" => entry.id \in PostId
                         /\ entry.kind = "noise" => entry.id = NoId
  /\ format = "wordpress" => entry.kind = "post" /\ entry.id \in PostId \cup {NoId}

LEMMA FileBounds ==
  /\ LastEntry \in Nat /\ ExportCap \in Nat /\ EntryLimit \in Nat /\ MaxSlots \in Nat
  /\ TotalBudget \in Nat /\ TotalBudget # 0 /\ NoId \notin PostId
  BY ExportFilesAssumption

LEMMA FileOf ==
  ASSUME NEW format \in Formats, NEW entries \in BoundedSeq(EntriesOf(format), LastEntry)
  PROVE  /\ DOMAIN entries \in SUBSET (0..LastEntry)
         /\ IsFiniteSet(DOMAIN entries)
         /\ \A n \in DOMAIN entries : entries[n] \in EntriesOf(format)
<1>1. PICK m \in 0..LastEntry : entries \in [1..m -> EntriesOf(format)]
  BY DEF BoundedSeq, SeqOf
<1>2. DOMAIN entries = 1..m /\ m \in Nat /\ m <= LastEntry
  BY <1>1, FileBounds
<1>3. 1..m \in SUBSET (0..LastEntry)
  BY <1>2, FileBounds
<1>4. IsFiniteSet(1..m)
  BY <1>2, FS_Interval
<1> QED BY <1>1, <1>2, <1>3, <1>4

LEMMA HeldOf ==
  ASSUME NEW format \in Formats, NEW entries \in BoundedSeq(EntriesOf(format), LastEntry)
  PROVE  /\ Candidates(format, entries) \in SUBSET (DOMAIN entries)
         /\ \A n \in Candidates(format, entries) : Kinds(format, entries[n])
<1>1. \A n \in DOMAIN entries : entries[n] \in EntriesOf(format)
  BY FileOf
<1>2. CASE format = "substack"
  <2>1. Candidates(format, entries) \in SUBSET Named(entries) /\ Named(entries) \in SUBSET (DOMAIN entries)
    BY <1>2 DEF Candidates, FirstOfItsId, Named
  <2>2. \A n \in DOMAIN entries : entries[n] \in Noise \cup FileEntry("post", PostId, 0..EntryLimit + 1)
    BY <1>1, <1>2 DEF EntriesOf
  <2>3. \A n \in Named(entries) : Kinds(format, entries[n])
    BY <1>2, <2>2 DEF Named, Kinds, Zips, Noise, FileEntry
  <2> QED BY <2>1, <2>3
<1>3. CASE format = "medium"
  <2>1. Candidates(format, entries) = Named(entries) /\ Named(entries) \in SUBSET (DOMAIN entries)
    BY <1>3 DEF Candidates, Named
  <2>2. \A n \in DOMAIN entries : entries[n] \in Noise \cup FileEntry("post", PostId, 0..EntryLimit + 1)
                                                 \cup FileEntry("response", PostId, {1})
    BY <1>1, <1>3 DEF EntriesOf
  <2>3. 1 \in 0..EntryLimit + 1
    BY FileBounds
  <2>4. \A n \in Named(entries) : Kinds(format, entries[n])
    BY <1>3, <2>2, <2>3 DEF Named, Kinds, Zips, Noise, FileEntry
  <2> QED BY <2>1, <2>4
<1>4. CASE format = "ghost"
  <2>1. Candidates(format, entries) = DOMAIN entries
    BY <1>4 DEF Candidates
  <2>2. \A n \in DOMAIN entries : entries[n] \in Noise \cup FileEntry("page", PostId, {1})
                                                 \cup FileEntry("post", PostId \cup {NoId}, {0, 1})
    BY <1>1, <1>4 DEF EntriesOf
  <2>3. \A n \in DOMAIN entries : Kinds(format, entries[n])
    BY <1>4, <2>2 DEF Kinds, Zips, Noise, FileEntry
  <2> QED BY <2>1, <2>3
<1>5. CASE format = "wordpress"
  <2>1. Candidates(format, entries) = OnlyPosts(entries) /\ OnlyPosts(entries) \in SUBSET (DOMAIN entries)
    BY <1>5 DEF Candidates, OnlyPosts
  <2>2. \A n \in DOMAIN entries : entries[n] \in FileEntry("page", PostId, {1})
                        \cup FileEntry("attachment", PostId, {1}) \cup FileEntry("post", PostId \cup {NoId}, {1})
    BY <1>1, <1>5 DEF EntriesOf
  <2>3. \A n \in OnlyPosts(entries) : Kinds(format, entries[n])
    BY <1>5, <2>2 DEF Kinds, Zips, OnlyPosts, FileEntry
  <2> QED BY <2>1, <2>3
<1> QED BY <1>2, <1>3, <1>4, <1>5 DEF Formats

LEMMA SkippedNat ==
  ASSUME NEW format \in Formats, NEW entries \in BoundedSeq(EntriesOf(format), LastEntry)
  PROVE  SkippedAtOnce(format, entries) \in Nat
<1>1. IsFiniteSet(DOMAIN entries)
  BY FileOf
<1>2. Cardinality(DOMAIN entries \ OnlyPosts(entries)) \in Nat
  BY <1>1, FS_Subset, FS_CardinalityType
<1> QED BY <1>2 DEF SkippedAtOnce

LEMMA PastCapNat == ASSUME NEW n \in Nat PROVE PastCap(n) \in Nat
  BY FileBounds DEF PastCap

LEMMA FileStart == FileInit => FileInv
  BY DEF FileInit, FileInv

LEMMA UploadKeeps == ASSUME Upload PROVE FileInv'
<1> DEFINE MadeOf(format, entries, index) ==
        /\ file' = [format |-> format, entries |-> entries]
        /\ parse' = [NothingRead EXCEPT !.queue = FirstFew(Candidates(format, entries), ExportCap),
                       !.left = TotalBudget - index,
                       !.truncated = PastCap(Cardinality(Candidates(format, entries))),
                       !.skipped = SkippedAtOnce(format, entries)]
<1>a. PICK format \in Formats :
        \E entries \in BoundedSeq(EntriesOf(format), LastEntry), index \in {0, 1} : MadeOf(format, entries, index)
  BY DEF Upload, Formats
<1>b. PICK entries \in BoundedSeq(EntriesOf(format), LastEntry), index \in {0, 1} : MadeOf(format, entries, index)
  BY <1>a
<1>1. MadeOf(format, entries, index)
  BY <1>b
<1>2. step' = "reading"
  BY DEF Upload
<1>3. PICK found : found = Candidates(format, entries)
  OBVIOUS
<1>4. found \in SUBSET (DOMAIN entries) /\ DOMAIN entries \in SUBSET (0..LastEntry)
  BY <1>3, FileOf, HeldOf
<1>5. PICK few : few = FewOf(found, ExportCap)
  OBVIOUS
<1>6. PICK held : held = Cardinality(found)
  OBVIOUS
<1>7. held \in Nat
  <2>1. found \in SUBSET (0..LastEntry)
    BY <1>4
  <2>2. IsFiniteSet(found)
    BY <1>3, <1>4, FileOf, FS_Subset
  <2> QED BY <1>6, <2>2, FS_CardinalityType
<1>8. PICK skip \in Nat : skip = SkippedAtOnce(format, entries)
  BY SkippedNat
<1>9. FirstFew(found, ExportCap) = few
  BY <1>5 DEF FirstFew, FewOf
<1>10. PICK past \in Nat : past = PastCap(held)
  BY <1>7, PastCapNat
<1>11. PICK l \in 0..TotalBudget : l = TotalBudget - index
  BY FileBounds
<1>12. parse' = [queue |-> few, listed |-> {}, failures |-> 0, skipped |-> skip, truncated |-> past,
                 left |-> l, selected |-> {}, imported |-> {}, slots |-> 0]
  BY <1>1, <1>3, <1>6, <1>8, <1>9, <1>10, <1>11 DEF NothingRead
<1>13. /\ parse'.queue = few /\ parse'.listed = {} /\ parse'.failures = 0 /\ parse'.skipped = skip
       /\ parse'.truncated = past /\ parse'.left = l /\ parse'.selected = {} /\ parse'.imported = {} /\ parse'.slots = 0
  BY <1>12
<1>14. file'.format = format /\ file'.entries = entries
  BY <1>1
<1>15. Held' = found /\ Few' = few
  BY <1>3, <1>5, <1>14 DEF Held, Few
<1>16. Accounted'
  <2>1. Few' \ parse'.queue = {} /\ parse'.queue \in SUBSET Few'
    BY <1>13, <1>15
  <2>2. {n \in Few' \ parse'.queue : file'.entries[n].id = NoId} = {}
    BY <2>1
  <2>3. SkippedAtOnce(file'.format, file'.entries) = skip
    BY <1>8, <1>14
  <2>4. PastCap(Cardinality(Held')) = past
    BY <1>6, <1>10, <1>15
  <2>5. Cardinality({}) = 0 /\ 0 + 0 + skip + 0 = 0 + skip
    BY FS_EmptySet
  <2> QED BY <1>13, <2>1, <2>2, <2>3, <2>4, <2>5 DEF Accounted, NamelessOf
<1>17. Shape'
  BY <1>12, <1>13 DEF Shape
<1>18. FileTyped' /\ Counts' /\ Picked'
  BY <1>13, <1>14 DEF FileTyped, Counts, Picked
<1> QED BY <1>2, <1>13, <1>16, <1>17, <1>18 DEF FileInv

LEMMA OverAgain == ASSUME StartOver PROVE FileInv'
  BY DEF StartOver, FileInv

(* What an entry comes to.                                                  *)
Read(n, s, b) ==
  /\ s.queue = parse.queue \ {n} /\ s.truncated = parse.truncated /\ s.slots = parse.slots
  /\ s.selected = parse.selected /\ s.imported = parse.imported /\ s.left = b
  /\ s = [queue |-> s.queue, listed |-> s.listed, failures |-> s.failures,
          skipped |-> s.skipped, truncated |-> s.truncated, left |-> s.left,
          selected |-> s.selected, imported |-> s.imported, slots |-> s.slots]
  /\ \/ /\ file.entries[n].id = NoId
        /\ s.listed = parse.listed /\ s.failures = parse.failures /\ s.skipped = parse.skipped
     \/ /\ file.entries[n].id # NoId
        /\ \/ /\ s.listed = parse.listed \cup {n} /\ s.failures = parse.failures /\ s.skipped = parse.skipped
              /\ file.entries[n].kind = "post" /\ file.entries[n].id \in PostId
           \/ s.listed = parse.listed /\ s.failures = parse.failures + 1 /\ s.skipped = parse.skipped
           \/ s.listed = parse.listed /\ s.failures = parse.failures /\ s.skipped = parse.skipped + 1

LEMMA EntryRead ==
  ASSUME FileTyped, Shape, Counts, parse.queue \in SUBSET Held, ReadEntry
  PROVE  \E n \in parse.queue, b \in 0..TotalBudget : Read(n, parse', b)
<1>1. Held \in SUBSET (DOMAIN file.entries) /\ DOMAIN file.entries \in SUBSET (0..LastEntry)
      /\ \A n \in Held : Kinds(file.format, file.entries[n])
  BY FileOf, HeldOf DEF FileTyped, Held
<1>2. PICK n : n = Min(parse.queue)
  OBVIOUS
<1>3. n \in parse.queue
  <2>1. parse.queue \in SUBSET Nat /\ parse.queue # {}
    BY <1>1 DEF ReadEntry
  <2> QED BY <1>2, <2>1, MinOfKeys
<1>4. PICK read : read = CASE file.format \in Zips -> FromZip(n)
                   [] file.format = "ghost" -> FromGhost(n)
                   [] OTHER -> FromWordPress(n)
  OBVIOUS
<1>5. parse' = [read EXCEPT !.queue = @ \ {n}]
  BY <1>2, <1>4 DEF ReadEntry
<1>6. PICK entry : entry = file.entries[n]
  OBVIOUS
<1>7. Kinds(file.format, entry)
  BY <1>1, <1>3, <1>6
<1>8. PICK b \in 0..TotalBudget : b = parse.left
  BY DEF Counts
<1>9. CASE file.format \in Zips
  <2>1. entry.kind \in {"post", "response"} /\ entry.id \in PostId /\ entry.size \in Nat /\ entry.id # NoId
    BY <1>7, <1>9, FileBounds DEF Kinds
  <2>2. read = FromZip(n)
    <3>1. file.format # "ghost"
      BY <1>9 DEF Zips
    <3> QED BY <1>4, <1>9, <3>1
  <2>3. CASE ~Inflates(entry)
    <3>1. parse' = [[parse EXCEPT !.failures = @ + 1] EXCEPT !.queue = @ \ {n}]
      BY <1>5, <1>6, <2>2, <2>3 DEF FromZip, FailEntry
    <3>2. Read(n, parse', b)
      BY <1>6, <1>8, <2>1, <3>1 DEF Read, Shape
    <3> QED BY <1>3, <3>2
  <2>4. CASE Inflates(entry)
    <3>1. PICK bb \in 0..TotalBudget : bb = parse.left - entry.size
      BY <1>8, <2>1, <2>4, FileBounds DEF Inflates
    <3>2. CASE entry.kind = "response"
      <4>1. parse' = [[[parse EXCEPT !.skipped = @ + 1] EXCEPT !.left = @ - entry.size] EXCEPT !.queue = @ \ {n}]
        BY <1>5, <1>6, <2>2, <2>4, <3>2 DEF FromZip, SkipEntry
      <4>2. Read(n, parse', bb)
        BY <1>6, <2>1, <3>1, <4>1 DEF Read, Shape
      <4> QED BY <1>3, <4>2
    <3>3. CASE entry.kind = "post"
      <4>1. parse' = [[[parse EXCEPT !.listed = @ \cup {n}] EXCEPT !.left = @ - entry.size] EXCEPT !.queue = @ \ {n}]
        BY <1>5, <1>6, <2>2, <2>4, <3>3 DEF FromZip, ListEntry
      <4>2. Read(n, parse', bb)
        BY <1>6, <2>1, <3>1, <3>3, <4>1 DEF Read, Shape
      <4> QED BY <1>3, <4>2
    <3> QED BY <2>1, <3>2, <3>3
  <2> QED BY <2>3, <2>4
<1>10. CASE file.format = "ghost"
  <2>0. file.format \notin Zips
    BY <1>10 DEF Zips
  <2>1. entry.kind \in {"noise", "page", "post"} /\ entry.id \in PostId \cup {NoId}
        /\ (entry.kind = "page" => entry.id \in PostId) /\ (entry.kind = "noise" => entry.id = NoId)
    BY <1>7, <1>10 DEF Kinds
  <2>2. read = FromGhost(n)
    BY <1>4, <1>10, <2>0
  <2>3. CASE entry.kind = "page"
    <3>1. parse' = [[parse EXCEPT !.skipped = @ + 1] EXCEPT !.queue = @ \ {n}]
      BY <1>5, <1>6, <2>2, <2>3 DEF FromGhost, SkipEntry
    <3>2. Read(n, parse', b)
      BY <1>6, <1>8, <2>1, <2>3, <3>1, FileBounds DEF Read, Shape
    <3> QED BY <1>3, <3>2
  <2>4. CASE entry.kind # "page" /\ entry.id = NoId
    <3>1. parse' = [parse EXCEPT !.queue = @ \ {n}]
      BY <1>5, <1>6, <2>2, <2>4 DEF FromGhost
    <3>2. Read(n, parse', b)
      BY <1>6, <1>8, <2>4, <3>1 DEF Read, Shape
    <3> QED BY <1>3, <3>2
  <2>5. CASE entry.kind # "page" /\ entry.id # NoId /\ entry.size = 0
    <3>1. parse' = [[parse EXCEPT !.failures = @ + 1] EXCEPT !.queue = @ \ {n}]
      BY <1>5, <1>6, <2>2, <2>5 DEF FromGhost, FailEntry
    <3>2. Read(n, parse', b)
      BY <1>6, <1>8, <2>5, <3>1 DEF Read, Shape
    <3> QED BY <1>3, <3>2
  <2>6. CASE entry.kind # "page" /\ entry.id # NoId /\ entry.size # 0
    <3>1. parse' = [[parse EXCEPT !.listed = @ \cup {n}] EXCEPT !.queue = @ \ {n}]
      BY <1>5, <1>6, <2>2, <2>6 DEF FromGhost, ListEntry
    <3>2. Read(n, parse', b)
      BY <1>6, <1>8, <2>1, <2>6, <3>1 DEF Read, Shape
    <3> QED BY <1>3, <3>2
  <2> QED BY <2>3, <2>4, <2>5, <2>6
<1>11. CASE file.format = "wordpress"
  <2>0. file.format \notin Zips /\ file.format # "ghost"
    BY <1>11 DEF Zips
  <2>1. entry.kind = "post" /\ entry.id \in PostId \cup {NoId}
    BY <1>7, <1>11 DEF Kinds
  <2>2. read = FromWordPress(n)
    BY <1>4, <2>0
  <2>3. CASE entry.id = NoId
    <3>1. parse' = [parse EXCEPT !.queue = @ \ {n}]
      BY <1>5, <1>6, <2>2, <2>3 DEF FromWordPress
    <3>2. Read(n, parse', b)
      BY <1>6, <1>8, <2>3, <3>1 DEF Read, Shape
    <3> QED BY <1>3, <3>2
  <2>4. CASE entry.id # NoId
    <3>1. parse' = [[parse EXCEPT !.listed = @ \cup {n}] EXCEPT !.queue = @ \ {n}]
      BY <1>5, <1>6, <2>2, <2>4 DEF FromWordPress, ListEntry
    <3>2. Read(n, parse', b)
      BY <1>6, <1>8, <2>1, <2>4, <3>1 DEF Read, Shape
    <3> QED BY <1>3, <3>2
  <2> QED BY <2>3, <2>4
<1> QED BY <1>9, <1>10, <1>11 DEF FileTyped, Formats, Zips

LEMMA FewHeld ==
  ASSUME FileTyped
  PROVE  /\ Held \in SUBSET (DOMAIN file.entries) /\ Held \in SUBSET (0..LastEntry)
         /\ Few \in SUBSET Held /\ IsFiniteSet(Few) /\ IsFiniteSet(Held) /\ Cardinality(Held) \in Nat
         /\ Cardinality(Few) = IF Cardinality(Held) > ExportCap THEN ExportCap ELSE Cardinality(Held)
<1>1. Held \in SUBSET (DOMAIN file.entries) /\ Held \in SUBSET (0..LastEntry) /\ IsFiniteSet(DOMAIN file.entries)
  BY FileOf, HeldOf DEF FileTyped, Held
<1>2. PICK held : held = Held
  OBVIOUS
<1>3. PICK c : c = Cardinality(held)
  OBVIOUS
<1>4. PICK few : few = FewOf(held, ExportCap)
  OBVIOUS
<1>5. few \in SUBSET held /\ c \in Nat /\ Cardinality(few) = IF c > ExportCap THEN ExportCap ELSE c
  <2>1. LastEntry \in Nat /\ ExportCap \in Nat
    BY FileBounds
  <2>2. held \in SUBSET (0..LastEntry)
    BY <1>1, <1>2
  <2>3. FewIs(FewOf(held, ExportCap), held, ExportCap)
    BY <2>1, <2>2, FewFacts
  <2> QED BY <1>3, <1>4, <2>3 DEF FewIs
<1>6. Few = few
  BY <1>2, <1>4 DEF Few
<1>7. IsFiniteSet(held) /\ IsFiniteSet(few)
  BY <1>1, <1>2, <1>5, FS_Subset
<1> QED BY <1>1, <1>2, <1>3, <1>5, <1>6, <1>7

LEMMA ReadKeeps == ASSUME FileInv, ReadEntry PROVE FileInv'
<1>1. step = "reading" /\ UNCHANGED <<step, file>>
  BY DEF ReadEntry
<1>2. /\ FileTyped /\ Shape /\ Counts /\ Picked /\ Accounted /\ parse.listed \in SUBSET OnlyPosts(file.entries)
      /\ \A m \in parse.listed : file.entries[m].id \in PostId
      /\ parse.selected = {}
  BY <1>1 DEF FileInv
<1>3. Few \in SUBSET Held /\ IsFiniteSet(Few) /\ Held \in SUBSET (DOMAIN file.entries)
  BY <1>2, FewHeld
<1>4. PICK n \in parse.queue, b \in 0..TotalBudget : Read(n, parse', b)
  <2>1. parse.queue \in SUBSET Held
    BY <1>2, <1>3 DEF Accounted
  <2> QED BY <1>2, <2>1, EntryRead
<1>5. PICK few, rest, rest2, none, none2, listed, listed2 :
        /\ few = Few /\ rest = few \ parse.queue /\ rest2 = few \ parse'.queue
        /\ none = NamelessOf(rest) /\ none2 = NamelessOf(rest2)
        /\ listed = parse.listed /\ listed2 = parse'.listed
  OBVIOUS
<1>6. n \in few /\ n \notin rest /\ rest2 = rest \cup {n} /\ parse'.queue \in SUBSET few /\ listed \in SUBSET rest
      /\ n \notin listed
  BY <1>2, <1>4, <1>5 DEF Accounted, Read
<1>7. none2 = IF file.entries[n].id = NoId THEN none \cup {n} ELSE none
  BY <1>5, <1>6 DEF NamelessOf
<1>8. none \in SUBSET rest /\ n \notin none
  BY <1>5, <1>6 DEF NamelessOf
<1>9. /\ IsFiniteSet(rest) /\ IsFiniteSet(none) /\ IsFiniteSet(listed)
      /\ Cardinality(rest) \in Nat /\ Cardinality(none) \in Nat /\ Cardinality(listed) \in Nat
  <2>1. IsFiniteSet(rest)
    BY <1>3, <1>5, FS_Subset
  <2>2. IsFiniteSet(none) /\ IsFiniteSet(listed)
    BY <1>6, <1>8, <2>1, FS_Subset
  <2> QED BY <2>1, <2>2, FS_CardinalityType
<1>10. /\ Cardinality(rest \cup {n}) = Cardinality(rest) + 1
       /\ Cardinality(none \cup {n}) = Cardinality(none) + 1
       /\ Cardinality(listed \cup {n}) = Cardinality(listed) + 1
  <2>1. Cardinality(rest \cup {n}) = IF n \in rest THEN Cardinality(rest) ELSE Cardinality(rest) + 1
    BY <1>9, FS_AddElement
  <2>2. Cardinality(none \cup {n}) = IF n \in none THEN Cardinality(none) ELSE Cardinality(none) + 1
    BY <1>9, FS_AddElement
  <2>3. Cardinality(listed \cup {n}) = IF n \in listed THEN Cardinality(listed) ELSE Cardinality(listed) + 1
    BY <1>9, FS_AddElement
  <2> QED BY <1>6, <1>8, <2>1, <2>2, <2>3
<1>11. PICK r \in Nat, q \in Nat, l \in Nat, at \in Nat :
         /\ r = Cardinality(rest) /\ q = Cardinality(none) /\ l = Cardinality(listed)
         /\ at = SkippedAtOnce(file.format, file.entries)
  BY <1>2, <1>9, SkippedNat DEF FileTyped
<1>12. PICK f \in Nat, s \in Nat : f = parse.failures /\ s = parse.skipped
  BY <1>2 DEF Counts
<1>13. l + f + s + q = r + at
  BY <1>2, <1>5, <1>11, <1>12 DEF Accounted
<1>14. /\ parse'.failures \in Nat /\ parse'.skipped \in Nat
       /\ Cardinality(listed2) + parse'.failures + parse'.skipped + Cardinality(none2) = Cardinality(rest2) + at
       /\ listed2 \in SUBSET rest2
  <2>1. Cardinality(rest2) = r + 1
    BY <1>6, <1>10, <1>11
  <2>2. CASE file.entries[n].id = NoId
    <3>1. listed2 = listed /\ parse'.failures = f /\ parse'.skipped = s
      BY <1>4, <1>5, <1>12, <2>2 DEF Read
    <3>2. Cardinality(none2) = q + 1
      BY <1>7, <1>10, <1>11, <2>2
    <3>3. l + f + s + (q + 1) = r + 1 + at
      BY <1>13
    <3> QED BY <1>6, <1>11, <2>1, <3>1, <3>2, <3>3
  <2>3. CASE file.entries[n].id # NoId
    <3>1. Cardinality(none2) = q
      BY <1>7, <1>11, <2>3
    <3>2. CASE listed2 = listed \cup {n} /\ parse'.failures = f /\ parse'.skipped = s
      <4>1. Cardinality(listed2) = l + 1
        BY <1>10, <1>11, <3>2
      <4>2. (l + 1) + f + s + q = r + 1 + at
        BY <1>13
      <4> QED BY <1>6, <2>1, <3>1, <3>2, <4>1, <4>2
    <3>3. CASE listed2 = listed /\ parse'.failures = f + 1 /\ parse'.skipped = s
      <4>1. l + (f + 1) + s + q = r + 1 + at
        BY <1>13
      <4> QED BY <1>6, <1>11, <2>1, <3>1, <3>3, <4>1
    <3>4. CASE listed2 = listed /\ parse'.failures = f /\ parse'.skipped = s + 1
      <4>1. l + f + (s + 1) + q = r + 1 + at
        BY <1>13
      <4> QED BY <1>6, <1>11, <2>1, <3>1, <3>4, <4>1
    <3> QED BY <1>4, <1>5, <1>12, <2>3, <3>2, <3>3, <3>4 DEF Read
  <2> QED BY <2>2, <2>3
<1>15. Held' = Held /\ Few' = Few
  BY <1>1 DEF Held, Few
<1>16. Accounted'
  <2>1. Few' \ parse'.queue = rest2 /\ parse'.queue \in SUBSET Few'
    BY <1>5, <1>6, <1>15
  <2>2. {m \in rest2 : file'.entries[m].id = NoId} = none2
    BY <1>1, <1>5 DEF NamelessOf
  <2>3. SkippedAtOnce(file'.format, file'.entries) = at
    BY <1>1, <1>11
  <2>4. parse'.truncated = PastCap(Cardinality(Held'))
    BY <1>2, <1>4, <1>15 DEF Accounted, Read
  <2>5. parse'.listed = listed2
    BY <1>5
  <2> QED BY <1>14, <2>1, <2>2, <2>3, <2>4, <2>5 DEF Accounted, NamelessOf
<1>17. Shape'
  BY <1>4 DEF Shape, Read
<1>18. FileTyped'
  BY <1>1, <1>2 DEF FileTyped
<1>19. Counts'
  <2>1. parse'.truncated \in Nat /\ parse'.slots \in Nat /\ parse'.left \in 0..TotalBudget
    BY <1>2, <1>4 DEF Counts, Read
  <2> QED BY <1>14, <2>1 DEF Counts
<1>20. Picked' /\ parse'.selected = {}
  BY <1>2, <1>4 DEF Picked, Read
<1>21. parse'.listed \in SUBSET OnlyPosts(file'.entries) /\ \A m \in parse'.listed : file'.entries[m].id \in PostId
  <2>1. listed2 = listed \/ (listed2 = listed \cup {n} /\ file.entries[n].kind = "post" /\ file.entries[n].id \in PostId)
    BY <1>4, <1>5 DEF Read
  <2>2. n \in DOMAIN file.entries
    BY <1>3, <1>5, <1>6
  <2>3. listed \in SUBSET OnlyPosts(file.entries) /\ \A m \in listed : file.entries[m].id \in PostId
    BY <1>2, <1>5
  <2>4. listed2 \in SUBSET OnlyPosts(file.entries)
    BY <2>1, <2>2, <2>3 DEF OnlyPosts
  <2>5. \A m \in listed2 : file.entries[m].id \in PostId
    BY <2>1, <2>3
  <2> QED BY <1>1, <1>5, <2>4, <2>5
<1> QED BY <1>1, <1>16, <1>17, <1>18, <1>19, <1>20, <1>21 DEF FileInv

(* What the steps past the reading leave as it was.                         *)
SameReading(s) ==
  /\ s.queue = parse.queue /\ s.listed = parse.listed /\ s.failures = parse.failures /\ s.skipped = parse.skipped
  /\ s.truncated = parse.truncated /\ s.left = parse.left
  /\ s = [queue |-> s.queue, listed |-> s.listed, failures |-> s.failures,
          skipped |-> s.skipped, truncated |-> s.truncated, left |-> s.left,
          selected |-> s.selected, imported |-> s.imported, slots |-> s.slots]
  /\ s.slots \in Nat /\ s.imported \in SUBSET PostId

LEMMA SameReadingKeeps ==
  ASSUME FileInv, step \in {"reading", "checking", "pick"}, UNCHANGED file, SameReading(parse'),
         parse'.selected \in SUBSET Ids(parse.listed),
         step' \in {"checking", "pick"}, parse.queue = {}
  PROVE  FileInv'
<1>1. /\ FileTyped /\ Shape /\ Counts /\ Accounted /\ parse.listed \in SUBSET OnlyPosts(file.entries)
      /\ \A m \in parse.listed : file.entries[m].id \in PostId
  BY DEF FileInv
<1>2. Held' = Held /\ Few' = Few
  BY DEF Held, Few
<1>3. /\ parse'.queue = parse.queue /\ parse'.listed = parse.listed /\ parse'.failures = parse.failures
      /\ parse'.skipped = parse.skipped /\ parse'.truncated = parse.truncated /\ parse'.left = parse.left
  BY DEF SameReading
<1>4. Accounted'
  BY <1>1, <1>2, <1>3 DEF Accounted, NamelessOf
<1>5. FileTyped' /\ Shape'
  BY <1>1 DEF FileTyped, Shape, SameReading
<1>6. Counts'
  BY <1>1, <1>3 DEF Counts, SameReading
<1>7. Picked'
  BY <1>3 DEF Picked, Ids, SameReading
<1>8. parse'.listed \in SUBSET OnlyPosts(file'.entries) /\ \A m \in parse'.listed : file'.entries[m].id \in PostId
  BY <1>1, <1>3
<1> QED BY <1>3, <1>4, <1>5, <1>6, <1>7, <1>8 DEF FileInv

LEMMA FileStep == FileInv /\ [FileNext]_fileVars => FileInv'
<1> SUFFICES ASSUME FileInv, [FileNext]_fileVars PROVE FileInv'
  OBVIOUS
<1>1. CASE Upload
  BY <1>1, UploadKeeps
<1>2. CASE ReadEntry
  BY <1>2, ReadKeeps
<1>3. CASE GoToCheck
  <2>1. CASE StartOver
    BY <2>1, OverAgain
  <2>2. CASE step' = "checking" /\ UNCHANGED <<file, parse>>
    <3>1. step = "reading" /\ parse.queue = {}
      BY <1>3 DEF GoToCheck
    <3>2. SameReading(parse')
      BY <2>2, <3>1 DEF SameReading, FileInv, Shape, Counts, Picked
    <3>3. parse'.selected \in SUBSET Ids(parse.listed)
      BY <2>2, <3>1 DEF FileInv, Picked
    <3> QED BY <2>2, <3>1, <3>2, <3>3, SameReadingKeeps
  <2> QED BY <1>3, <2>1, <2>2 DEF GoToCheck
<1>4. CASE CheckLedger
  <2>1. CASE StartOver
    BY <2>1, OverAgain
  <2>2. CASE ~StartOver
    <3>1. PICK imported \in SUBSET PostId, previews \in SUBSET PostId, slots \in 0..MaxSlots :
            \E selected \in Checked(imported \cup previews, slots) :
              /\ parse' = [parse EXCEPT !.imported = imported, !.slots = slots, !.selected = selected]
              /\ step' = "pick" /\ UNCHANGED file
      BY <1>4, <2>2 DEF CheckLedger
    <3>2. PICK selected \in Checked(imported \cup previews, slots) :
              /\ parse' = [parse EXCEPT !.imported = imported, !.slots = slots, !.selected = selected]
              /\ step' = "pick" /\ UNCHANGED file
      BY <3>1
    <3>3. step = "checking" /\ parse.queue = {} /\ Shape
      BY <1>4 DEF CheckLedger, FileInv
    <3>4. selected \in SUBSET Ids(parse.listed)
      <4>1. PICK checked : selected = Ids(checked) /\ checked \in SUBSET parse.listed
        BY DEF Checked
      <4> QED BY <4>1 DEF Ids
    <3>5. slots \in Nat
      BY FileBounds
    <3>6. SameReading(parse') /\ parse'.selected = selected
      BY <3>2, <3>3, <3>5 DEF SameReading, Shape
    <3> QED BY <3>2, <3>3, <3>4, <3>6, SameReadingKeeps
  <2> QED BY <2>1, <2>2
<1>5. CASE BackToSource
  BY <1>5, OverAgain DEF BackToSource
<1>6. ASSUME NEW id \in PostId, ToggleItem(id) PROVE FileInv'
  <2>1. step = "pick" /\ id \in Ids(parse.listed) /\ UNCHANGED <<step, file>>
        /\ parse' = [parse EXCEPT !.selected = IF id \in parse.selected THEN parse.selected \ {id}
                                               ELSE parse.selected \cup {id}]
    BY <1>6 DEF ToggleItem
  <2>2. Shape /\ Counts /\ Picked /\ parse.queue = {}
    BY <2>1 DEF FileInv
  <2>3. SameReading(parse')
    BY <2>1, <2>2 DEF SameReading, Shape, Counts, Picked
  <2>4. parse'.selected \in SUBSET Ids(parse.listed)
    BY <2>1, <2>2 DEF Picked, Shape
  <2> QED BY <2>1, <2>2, <2>3, <2>4, SameReadingKeeps
<1>7. CASE UNCHANGED fileVars
  BY <1>7 DEF fileVars, FileInv, FileTyped, Shape, Counts, Picked, Accounted, Held, Few, NamelessOf, Ids
<1> QED BY <1>1, <1>2, <1>3, <1>4, <1>5, <1>6, <1>7 DEF FileNext

LEMMA FileSays == FileInv => FileAccounted
<1> SUFFICES ASSUME FileInv, step \in {"checking", "pick"} PROVE FileAccounted
  BY DEF FileAccounted
<1>1. /\ FileTyped /\ Counts /\ Picked /\ Accounted /\ parse.listed \in SUBSET OnlyPosts(file.entries)
      /\ parse.queue = {}
  BY DEF FileInv
<1>2. PICK few, none : few = Few /\ none = Nameless
  OBVIOUS
<1>3. none = NamelessOf(few \ parse.queue) /\ few \ parse.queue = few
  BY <1>1, <1>2 DEF Nameless, NamelessOf, Few, Held, FewOf, FirstFew
<1>4. Cardinality(parse.listed) + parse.failures + parse.skipped + Cardinality(none)
        = Cardinality(few) + SkippedAtOnce(file.format, file.entries)
  BY <1>1, <1>2, <1>3 DEF Accounted
<1>5. PICK c \in Nat : c = Cardinality(Held) /\ Cardinality(few) = IF c > ExportCap THEN ExportCap ELSE c
  BY <1>1, <1>2, FewHeld
<1>6. parse.truncated = IF c > ExportCap THEN c - ExportCap ELSE 0
  BY <1>1, <1>5 DEF Accounted, PastCap
<1>7. parse.listed \in SUBSET few /\ IsFiniteSet(few) /\ none \in SUBSET few
  BY <1>1, <1>2, <1>3, FewHeld DEF Accounted, NamelessOf
<1>8. PICK l \in Nat, q \in Nat, f \in Nat, s \in Nat, at \in Nat :
        /\ l = Cardinality(parse.listed) /\ q = Cardinality(none) /\ f = parse.failures /\ s = parse.skipped
        /\ at = SkippedAtOnce(file.format, file.entries)
  <2>1. Cardinality(parse.listed) \in Nat /\ Cardinality(none) \in Nat
    BY <1>7, FS_Subset, FS_CardinalityType
  <2> QED BY <1>1, <2>1, SkippedNat DEF Counts, FileTyped
<1>9. l + f + s + parse.truncated + q = c + at
  <2>1. l + f + s + q = (IF c > ExportCap THEN ExportCap ELSE c) + at
    BY <1>4, <1>5, <1>8
  <2> QED BY <1>5, <1>6, <2>1, FileBounds
<1>10. Held = Candidates(file.format, file.entries)
  BY DEF Held
<1> QED BY <1>1, <1>2, <1>5, <1>8, <1>9, <1>10 DEF FileAccounted, Picked

LEMMA FileTypes == FileInv => FileTypeOK
<1> SUFFICES ASSUME FileInv PROVE FileTypeOK
  OBVIOUS
<1>1. CASE step = "source"
  <2>1. step \in {"source", "reading", "checking", "pick"}
    BY DEF FileInv
  <2>2. file = NoneYet /\ parse = NothingRead
    BY <1>1 DEF FileInv
  <2>3. Cardinality({}) = 0 /\ 0 <= ExportCap
    BY FS_EmptySet, FileBounds
  <2>4. TotalBudget \in 0..TotalBudget
    BY FileBounds
  <2> QED BY <2>1, <2>2, <2>3, <2>4 DEF FileTypeOK, NothingRead
<1>2. CASE step # "source"
  <2>1. FileTyped /\ Counts /\ Picked /\ Accounted /\ \A n \in parse.listed : file.entries[n].id \in PostId
    BY <1>2 DEF FileInv
  <2>2. Few \in SUBSET (DOMAIN file.entries) /\ IsFiniteSet(Few) /\ Cardinality(Few) <= ExportCap
    BY <2>1, FewHeld, FileBounds
  <2>3. parse.listed \in SUBSET Few /\ parse.queue \in SUBSET Few
    BY <2>1 DEF Accounted
  <2>4. Cardinality(parse.listed) <= ExportCap
    <3>1. Cardinality(parse.listed) <= Cardinality(Few) /\ IsFiniteSet(parse.listed)
      BY <2>2, <2>3, FS_Subset
    <3>2. Cardinality(parse.listed) \in Nat /\ Cardinality(Few) \in Nat
      BY <2>2, <3>1, FS_CardinalityType
    <3> QED BY <2>2, <3>1, <3>2, FileBounds
  <2>5. parse.selected \in SUBSET PostId /\ parse.imported \in SUBSET PostId
    BY <2>1 DEF Picked, Ids
  <2>6. step \in {"source", "reading", "checking", "pick"}
    BY DEF FileInv
  <2>7. parse.queue \cup parse.listed \subseteq DOMAIN file.entries
    BY <2>2, <2>3
  <2>8. parse.selected \cup parse.imported \subseteq PostId
    BY <2>5
  <2>9. {parse.failures, parse.skipped, parse.truncated, parse.slots} \subseteq Nat /\ parse.left \in 0..TotalBudget
    BY <2>1 DEF Counts
  <2> QED BY <2>1, <2>4, <2>6, <2>7, <2>8, <2>9 DEF FileTypeOK, FileTyped, Formats
<1> QED BY <1>1, <1>2

(* The upload half of the import page keeps its types, and nothing of a     *)
(* file goes missing unsaid, for any file, limits and ids.                  *)
THEOREM FileTypeCorrect == FileSpec => []FileTypeOK
<1>1. FileSpec => []FileInv
  BY FileStart, FileStep, PTL DEF FileSpec
<1> QED BY <1>1, FileTypes, PTL

(* Whatever an export file holds, each of its candidates is listed, failed, *)
(* skipped, cut off or nameless, and only posts are offered                 *)
(* (parseExport and its readers, showPicker).                               *)
THEOREM FileAccountedHolds == FileSpec => []FileAccounted
<1>1. FileSpec => []FileInv
  BY FileStart, FileStep, PTL DEF FileSpec
<1> QED BY <1>1, FileSays, PTL

-----------------------------------------------------------------------------
(* The search for a feed.                                                   *)

LEMMA FeedBounds ==
  /\ UsualPlaces \in Seq(Address) /\ Unfit \subseteq Address /\ Hints \subseteq Seq(Address)
  /\ HopLimit \in Nat /\ RunsPerHour \in Nat /\ MaxRuns \in Nat
  /\ TryCap \in Nat /\ TryCap # 0 /\ ListedAtMost \in Nat /\ ListedAtMost # 0
  BY FeedFetchAssumption

LEMMA CutIs ==
  ASSUME NEW S, NEW s \in Seq(S), NEW n \in Nat
  PROVE  /\ Cut(s, n) \in Seq(S)
         /\ Len(Cut(s, n)) = IF Len(s) < n THEN Len(s) ELSE n
         /\ \A i \in 1..Len(Cut(s, n)) : Cut(s, n)[i] = s[i]
<1>1. PICK l \in Nat : l = IF Len(s) < n THEN Len(s) ELSE n
  OBVIOUS
<1>2. Cut(s, n) = SubSeq(s, 1, l) /\ l <= Len(s)
  BY <1>1 DEF Cut
<1>3. Len(SubSeq(s, 1, l)) = l /\ SubSeq(s, 1, l) \in Seq(S) /\ \A i \in 1..l : SubSeq(s, 1, l)[i] = s[i]
  BY <1>2
<1> QED BY <1>1, <1>2, <1>3

FitPlaces(named, page) ==
  {n \in 1..Len(named) : /\ named[n] \notin Unfit \cup {page}
                         /\ \A k \in 1..n - 1 : named[k] # named[n]}

(* The candidates are the fit places, first named first, until the cap.     *)
Offers(cands, named, page, at, c) ==
  /\ c \in Nat /\ at \in [1..c -> FitPlaces(named, page)]
  /\ \A k \in FitPlaces(named, page) : \E n \in 1..c : at[n] = k
  /\ \A m, n \in 1..c : m < n <=> at[m] < at[n]
  /\ cands \in Seq(Address) /\ Len(cands) = IF c < TryCap THEN c ELSE TryCap
  /\ \A n \in 1..Len(cands) : cands[n] = named[at[n]]

LEMMA ListingOf ==
  ASSUME NEW hints \in Seq(Address), NEW page, NEW named, named = hints \o UsualPlaces,
         NEW cands, cands = PlacesToTry(hints, page)
  PROVE  \E c, at : Offers(cands, named, page, at, c)
<1> DEFINE NamedPlaces == hints \o UsualPlaces
           fit == {n \in 1..Len(NamedPlaces) : /\ NamedPlaces[n] \notin Unfit \cup {page}
                                         /\ \A k \in 1..n - 1 : NamedPlaces[k] # NamedPlaces[n]}
           Nth(n) == CHOOSE k \in fit : Cardinality({j \in fit : j <= k}) = n
<1>a. cands = Cut([n \in 1..Cardinality(fit) |-> NamedPlaces[Nth(n)]], TryCap)
  BY DEF PlacesToTry
<1>b. NamedPlaces = named
  OBVIOUS
<1>2. fit = FitPlaces(named, page)
  BY DEF FitPlaces
<1> HIDE DEF NamedPlaces, fit
<1>1. named \in Seq(Address) /\ Len(named) \in Nat
  BY FeedBounds
<1>3. fit \in SUBSET (0..Len(named)) /\ fit \in SUBSET (1..Len(named))
  BY <1>1, <1>2 DEF FitPlaces
<1>4. PICK r : r = [k \in fit |-> Cardinality({j \in fit : j <= k})]
  OBVIOUS
<1>5. PICK c : c = Cardinality(fit)
  OBVIOUS
<1>6. IsFiniteSet(fit) /\ c \in Nat /\ Placed(r, fit, c)
  BY <1>1, <1>3, <1>4, <1>5, Ranked
<1>7. PICK at : at = [n \in 1..c |-> Nth(n)]
  OBVIOUS
<1>8. ASSUME NEW n \in 1..c PROVE at[n] \in fit /\ r[at[n]] = n
  <2>1. PICK k \in fit : r[k] = n
    BY <1>6 DEF Placed
  <2>2. \E i \in fit : Cardinality({j \in fit : j <= i}) = n
    BY <1>4, <2>1
  <2>3. at[n] = CHOOSE i \in fit : Cardinality({j \in fit : j <= i}) = n
    BY <1>7
  <2>4. at[n] \in fit /\ Cardinality({j \in fit : j <= at[n]}) = n
    BY <2>2, <2>3
  <2> QED BY <1>4, <2>4
<1>9. \A j, k \in fit : j \in Nat /\ k \in Nat /\ r[j] \in 1..c /\ (j < k => r[j] < r[k])
  BY <1>3, <1>6 DEF Placed
<1>10. \A j, k \in fit : r[j] = r[k] => j = k
  <2> SUFFICES ASSUME NEW j \in fit, NEW k \in fit, r[j] = r[k] PROVE j = k
    OBVIOUS
  <2>1. (j < k => r[j] < r[k]) /\ (k < j => r[k] < r[j]) /\ j \in Nat /\ k \in Nat /\ r[j] \in 1..c
    BY <1>9
  <2> QED BY <1>6, <2>1
<1>11. \A k \in fit : \E n \in 1..c : at[n] = k
  <2> SUFFICES ASSUME NEW k \in fit PROVE at[r[k]] = k /\ r[k] \in 1..c
    OBVIOUS
  <2>1. r[k] \in 1..c
    BY <1>9
  <2>2. at[r[k]] \in fit /\ r[at[r[k]]] = r[k]
    BY <1>8, <2>1
  <2> QED BY <1>10, <2>1, <2>2
<1>12. \A m, n \in 1..c : m < n <=> at[m] < at[n]
  <2> SUFFICES ASSUME NEW m \in 1..c, NEW n \in 1..c PROVE m < n <=> at[m] < at[n]
    OBVIOUS
  <2>1. at[m] \in fit /\ r[at[m]] = m /\ at[n] \in fit /\ r[at[n]] = n
    BY <1>8
  <2>2. (at[m] < at[n] => m < n) /\ (at[n] < at[m] => n < m) /\ at[m] \in Nat /\ at[n] \in Nat
    BY <1>9, <2>1
  <2>3. at[m] = at[n] => m = n
    BY <2>1
  <2>4. m \in Nat /\ n \in Nat
    BY <1>6
  <2> QED BY <2>2, <2>3, <2>4
<1>13. PICK all : all = [n \in 1..c |-> named[at[n]]]
  OBVIOUS
<1>14. all \in Seq(Address) /\ Len(all) = c
  <2>1. \A n \in 1..c : named[at[n]] \in Address
    <3> SUFFICES ASSUME NEW n \in 1..c PROVE named[at[n]] \in Address
      OBVIOUS
    <3>1. at[n] \in 1..Len(named)
      BY <1>3, <1>8
    <3> QED BY <1>1, <3>1
  <2>2. all \in [1..c -> Address]
    BY <1>13, <2>1
  <2> QED BY <1>6, <2>2
<1>15. cands = Cut(all, TryCap)
  <2>1. \A n \in 1..c : NamedPlaces[Nth(n)] = named[at[n]]
    <3> SUFFICES ASSUME NEW n \in 1..c PROVE NamedPlaces[Nth(n)] = named[at[n]]
      OBVIOUS
    <3>1. at[n] = Nth(n)
      BY <1>7
    <3> HIDE DEF Nth
    <3> QED BY <1>b, <3>1
  <2> HIDE DEF Nth
  <2>2. [n \in 1..c |-> NamedPlaces[Nth(n)]] = all
    BY <1>13, <2>1
  <2>3. cands = Cut([n \in 1..c |-> NamedPlaces[Nth(n)]], TryCap)
    BY <1>5, <1>a
  <2> QED BY <2>2, <2>3
<1>16. /\ cands \in Seq(Address) /\ Len(cands) = IF c < TryCap THEN c ELSE TryCap
       /\ \A n \in 1..Len(cands) : cands[n] = all[n]
  BY <1>14, <1>15, CutIs, FeedBounds
<1>17. \A n \in 1..Len(cands) : cands[n] = named[at[n]]
  <2>1. \A n \in 1..Len(cands) : n \in 1..c
    BY <1>6, <1>16, FeedBounds
  <2> QED BY <1>13, <1>16, <2>1
<1>18. at \in [1..c -> fit]
  BY <1>7, <1>8
<1>19. Offers(cands, named, page, at, c)
  BY <1>2, <1>6, <1>11, <1>12, <1>16, <1>17, <1>18 DEF Offers
<1> QED BY <1>19

(* What is looked into, when all the candidates were: as many as the cap    *)
(* lets be, or all there are, those the page names first.                   *)
AllOf(cands) == {cands[n] : n \in 1..Len(cands)}
PlacesNear(hints, page) == (Range(hints) \cup Range(UsualPlaces)) \ (Unfit \cup {page})
PlacesGood(hints, page, cands) ==
  /\ cands \in Seq(Address) /\ Len(cands) <= TryCap /\ \A n \in 1..Len(cands) : cands[n] \notin Unfit
  /\ Cardinality(AllOf(cands)) = TryCap \/ AllOf(cands) = PlacesNear(hints, page)
  /\ \/ AllOf(cands) \subseteq PlacesNear(hints, page) \cap Range(hints)
     \/ PlacesNear(hints, page) \cap Range(hints) \subseteq AllOf(cands)

LEMMA PlacesSay ==
  ASSUME NEW hints \in Seq(Address), NEW page
  PROVE  PlacesGood(hints, page, PlacesToTry(hints, page))
<1>a. PICK cands, all, places :
        cands = PlacesToTry(hints, page) /\ all = AllOf(cands) /\ places = PlacesNear(hints, page)
  OBVIOUS
<1> SUFFICES /\ cands \in Seq(Address) /\ Len(cands) <= TryCap /\ \A n \in 1..Len(cands) : cands[n] \notin Unfit
             /\ Cardinality(all) = TryCap \/ all = places
             /\ all \subseteq places \cap Range(hints) \/ places \cap Range(hints) \subseteq all
  BY <1>a DEF PlacesGood
<1>b. cands = PlacesToTry(hints, page)
  BY <1>a
<1>c. all = {cands[n] : n \in 1..Len(cands)}
  BY <1>a DEF AllOf
<1>d. places = (Range(hints) \cup Range(UsualPlaces)) \ (Unfit \cup {page})
  BY <1>a DEF PlacesNear
<1> USE <1>b, <1>c, <1>d
<1>1. PICK named : named = hints \o UsualPlaces
  OBVIOUS
<1>2. PICK c, at : Offers(cands, named, page, at, c)
  BY <1>1, ListingOf
<1>3. /\ named \in Seq(Address) /\ Len(named) = Len(hints) + Len(UsualPlaces)
      /\ Len(hints) \in Nat /\ Len(UsualPlaces) \in Nat
      /\ \A i \in 1..Len(hints) : i \in 1..Len(named) /\ named[i] = hints[i]
      /\ \A i \in 1..Len(UsualPlaces) : Len(hints) + i \in 1..Len(named) /\ named[Len(hints) + i] = UsualPlaces[i]
      /\ \A i \in 1..Len(named) : i > Len(hints) => i - Len(hints) \in 1..Len(UsualPlaces)
  BY <1>1, FeedBounds
<1>4. PICK fit : fit = FitPlaces(named, page)
  OBVIOUS
<1>5. /\ c \in Nat /\ at \in [1..c -> fit] /\ cands \in Seq(Address)
      /\ Len(cands) = IF c < TryCap THEN c ELSE TryCap
      /\ \A k \in fit : \E n \in 1..c : at[n] = k
      /\ \A m, n \in 1..c : m < n <=> at[m] < at[n]
      /\ \A n \in 1..Len(cands) : cands[n] = named[at[n]]
  BY <1>2, <1>4 DEF Offers
<1>6. /\ Len(cands) \in Nat /\ Len(cands) <= c /\ Len(cands) <= TryCap
      /\ \A n \in 1..Len(cands) : n \in 1..c
  BY <1>5, FeedBounds
<1>7. \A k \in fit : /\ k \in 1..Len(named) /\ k \in Nat /\ named[k] \notin Unfit \cup {page}
                     /\ \A j \in 1..k - 1 : named[j] # named[k]
  BY <1>3, <1>4 DEF FitPlaces
<1>8. \A n \in 1..Len(cands) : at[n] \in fit /\ cands[n] \notin Unfit
  BY <1>5, <1>6, <1>7
<1>9. \A k \in 1..Len(named) : named[k] \in Range(hints) \cup Range(UsualPlaces)
  <2> SUFFICES ASSUME NEW k \in 1..Len(named) PROVE named[k] \in Range(hints) \cup Range(UsualPlaces)
    OBVIOUS
  <2>1. CASE k <= Len(hints)
    <3>1. k \in 1..Len(hints) /\ k \in DOMAIN hints
      BY <1>3, <2>1
    <3> QED BY <1>3, <3>1 DEF Range
  <2>2. CASE ~(k <= Len(hints))
    <3>1. PICK i \in 1..Len(UsualPlaces) : i = k - Len(hints)
      <4>1. k \in Nat /\ k > Len(hints)
        BY <1>3, <2>2
      <4>2. k - Len(hints) \in 1..Len(UsualPlaces)
        BY <1>3, <4>1
      <4> QED BY <4>2
    <3>2. named[k] = UsualPlaces[i] /\ i \in DOMAIN UsualPlaces
      BY <1>3, <3>1, FeedBounds
    <3> QED BY <3>2 DEF Range
  <2> QED BY <2>1, <2>2
<1>10. ASSUME NEW x \in places
       PROVE  \E k \in fit : named[k] = x /\ (x \in Range(hints) => k <= Len(hints))
  <2>1. PICK S : S = {k \in 1..Len(named) : named[k] = x}
    OBVIOUS
  <2>2. x \in Range(hints) => \E i \in S : i <= Len(hints)
    <3> SUFFICES ASSUME x \in Range(hints) PROVE \E i \in S : i <= Len(hints)
      OBVIOUS
    <3>1. PICK i \in DOMAIN hints : x = hints[i]
      BY DEF Range
    <3>2. i \in 1..Len(hints)
      OBVIOUS
    <3> QED BY <1>3, <2>1, <3>1, <3>2
  <2>3. S # {}
    <3>1. CASE x \in Range(hints)
      BY <2>2, <3>1
    <3>2. CASE x \in Range(UsualPlaces)
      <4>1. PICK i \in DOMAIN UsualPlaces : x = UsualPlaces[i]
        BY <3>2 DEF Range
      <4>2. i \in 1..Len(UsualPlaces)
        BY FeedBounds
      <4> QED BY <1>3, <2>1, <4>1, <4>2
    <3> QED BY <3>1, <3>2
  <2>4. S \in SUBSET Nat
    BY <1>3, <2>1
  <2>5. PICK k \in S : \A j \in S : k <= j
    BY <2>3, <2>4, LeastOne
  <2>6. k \in 1..Len(named) /\ named[k] = x /\ x \notin Unfit \cup {page}
    BY <2>1
  <2>7. ASSUME NEW j \in 1..k - 1, named[j] = named[k] PROVE FALSE
    <3>1. j \in 1..Len(named) /\ ~(k <= j)
      BY <1>3, <2>6
    <3>2. j \in S
      BY <2>1, <2>6, <2>7, <3>1
    <3> QED BY <2>5, <3>1, <3>2
  <2>8. k \in fit
    BY <1>4, <2>6, <2>7 DEF FitPlaces
  <2>9. x \in Range(hints) => k <= Len(hints)
    BY <1>3, <2>2, <2>4, <2>5
  <2> QED BY <2>6, <2>8, <2>9
<1>11. \A j, k \in fit : named[j] = named[k] => j = k
  <2> SUFFICES ASSUME NEW j \in fit, NEW k \in fit, named[j] = named[k], j # k PROVE FALSE
    OBVIOUS
  <2>1. j \in Nat /\ k \in Nat /\ 1 <= j /\ 1 <= k
    BY <1>7
  <2>2. j < k => j \in 1..k - 1
    BY <2>1
  <2>3. k < j => k \in 1..j - 1
    BY <2>1
  <2> QED BY <1>7, <2>1, <2>2, <2>3
<1>12. Cardinality(all) = Len(cands)
  <2>1. PICK f : f = [n \in 1..Len(cands) |-> cands[n]]
    OBVIOUS
  <2>2. f \in [1..Len(cands) -> all] /\ \A x \in all : \E n \in 1..Len(cands) : f[n] = x
    BY <2>1
  <2>3. ASSUME NEW m \in 1..Len(cands), NEW n \in 1..Len(cands), f[m] = f[n] PROVE m = n
    <3>1. at[m] = at[n]
      BY <1>5, <1>8, <1>11, <2>1, <2>3
    <3>2. m \in 1..c /\ n \in 1..c /\ at[m] \in Nat
      BY <1>6, <1>7, <1>8
    <3>3. ~(m < n) /\ ~(n < m)
      BY <1>5, <3>1, <3>2
    <3> QED BY <1>5, <3>2, <3>3
  <2>4. f \in Bijection(1..Len(cands), all)
    BY <2>2, <2>3 DEF Bijection, Injection, Surjection, IsInjective
  <2>5. ExistsBijection(1..Len(cands), all)
    BY <2>4 DEF ExistsBijection
  <2>6. IsFiniteSet(1..Len(cands)) /\ Cardinality(1..Len(cands)) = Len(cands)
    <3>1. 1 \in Int /\ Len(cands) \in Int
      BY <1>6
    <3>2. Cardinality(1..Len(cands)) = IF 1 > Len(cands) THEN 0 ELSE Len(cands) - 1 + 1
      BY <3>1, FS_Interval
    <3>3. IsFiniteSet(1..Len(cands))
      BY <3>1, FS_Interval
    <3> QED BY <1>6, <3>2, <3>3
  <2>7. Cardinality(all) = Cardinality(1..Len(cands))
    BY <2>5, <2>6, FS_Bijection
  <2> QED BY <2>6, <2>7
<1>13. Cardinality(all) = TryCap \/ all = places
  <2> SUFFICES ASSUME Len(cands) # TryCap PROVE all = places
    BY <1>12
  <2>1. Len(cands) = c
    BY <1>5, FeedBounds
  <2>2. ASSUME NEW x \in all PROVE x \in places
    <3>1. PICK n \in 1..Len(cands) : x = named[at[n]]
      BY <1>5
    <3>2. at[n] \in fit
      BY <1>8
    <3> QED BY <1>7, <1>9, <3>1, <3>2
  <2>3. ASSUME NEW x \in places PROVE x \in all
    <3>1. PICK k \in fit : named[k] = x
      BY <1>10
    <3>2. PICK n \in 1..c : at[n] = k
      BY <1>5
    <3>3. cands[n] = x /\ n \in 1..Len(cands)
      BY <1>5, <2>1, <3>1, <3>2
    <3> QED BY <3>3
  <2> QED BY <2>2, <2>3
<1>14. all \subseteq places \cap Range(hints) \/ places \cap Range(hints) \subseteq all
  <2> SUFFICES ASSUME NEW x \in all, x \notin places \cap Range(hints), NEW y \in places \cap Range(hints) PROVE y \in all
    OBVIOUS
  <2>1. PICK n \in 1..Len(cands) : x = named[at[n]] /\ at[n] \in fit
    BY <1>5, <1>8
  <2>2. x \notin Range(hints)
    BY <1>7, <1>9, <2>1
  <2>3. at[n] > Len(hints)
    <3> SUFFICES ASSUME ~(at[n] > Len(hints)) PROVE FALSE
      OBVIOUS
    <3>1. at[n] \in 1..Len(hints)
      BY <1>3, <1>7, <2>1
    <3>2. x = hints[at[n]] /\ at[n] \in DOMAIN hints
      BY <1>3, <2>1, <3>1
    <3> QED BY <2>2, <3>2 DEF Range
  <2>4. PICK k \in fit : named[k] = y /\ k <= Len(hints)
    BY <1>10
  <2>5. PICK m \in 1..c : at[m] = k
    BY <1>5
  <2>6. m < n
    <3>1. at[m] < at[n]
      BY <1>3, <1>7, <2>1, <2>3, <2>4, <2>5
    <3>2. n \in 1..c
      BY <1>6
    <3> QED BY <1>5, <3>1, <3>2
  <2>7. m \in 1..Len(cands)
    BY <1>5, <1>6, <2>6
  <2>8. cands[m] = y
    BY <1>5, <2>4, <2>5, <2>7
  <2> QED BY <2>7, <2>8
<1> QED BY <1>5, <1>6, <1>8, <1>13, <1>14

(* Where an address sends on to, in h hops, over a web as far as it was     *)
(* asked: what was answered is not answered otherwise later.                *)
Sends(w, a, b) == w[a] # NoReply /\ w[a].kind = "redirect" /\ w[a].to = b
Way(w, p, h) == \A i \in 1..h : Sends(w, p[i - 1], p[i])
Leads(w, a, h, b) == \E p \in [0..h -> Address] : p[0] = a /\ p[h] = b /\ Way(w, p, h)

(* An address that leads to no feed.                                        *)
Spent(w, b, h) ==
  \/ b \in Unfit
  \/ w[b] # NoReply /\ w[b].kind \notin {"redirect", "feed"}
  \/ w[b] # NoReply /\ w[b].kind = "redirect" /\ h = HopLimit
Dead(w, a) == \E h \in 0..HopLimit, b \in Address : Leads(w, a, h, b) /\ Spent(w, b, h)

Grows(w, v) == \A a \in Address : w[a] # NoReply => v[a] = w[a]

LEMMA LeadsGrows ==
  ASSUME NEW w, NEW v, Grows(w, v), NEW a, NEW b, NEW h \in Nat, Leads(w, a, h, b) PROVE Leads(v, a, h, b)
<1>1. PICK p \in [0..h -> Address] : p[0] = a /\ p[h] = b /\ Way(w, p, h)
  BY DEF Leads
<1>2. ASSUME NEW i \in 1..h PROVE Sends(v, p[i - 1], p[i])
  <2>1. i - 1 \in 0..h
    OBVIOUS
  <2>2. p[i - 1] \in Address /\ Sends(w, p[i - 1], p[i])
    BY <1>1, <2>1 DEF Way
  <2> QED BY <2>2 DEF Sends, Grows
<1> QED BY <1>1, <1>2 DEF Leads, Way

LEMMA DeadGrows == ASSUME NEW w, NEW v, Grows(w, v), NEW a, Dead(w, a) PROVE Dead(v, a)
<1>1. PICK h \in 0..HopLimit, b \in Address : Leads(w, a, h, b) /\ Spent(w, b, h)
  BY DEF Dead
<1>2. Leads(v, a, h, b)
  <2>1. h \in Nat
    BY FeedBounds
  <2> QED BY <1>1, <2>1, LeadsGrows
<1>3. Spent(v, b, h)
  BY <1>1 DEF Spent, Grows
<1> QED BY <1>2, <1>3 DEF Dead

LEMMA LeadsHere == ASSUME NEW w, NEW a \in Address PROVE Leads(w, a, 0, a)
<1>1. PICK p : p = [i \in 0..0 |-> a]
  OBVIOUS
<1>2. p \in [0..0 -> Address] /\ p[0] = a /\ Way(w, p, 0)
  BY <1>1 DEF Way
<1> QED BY <1>2 DEF Leads

LEMMA LeadsOn ==
  ASSUME NEW w, NEW a, NEW b, NEW d \in Address, NEW h \in Nat, Leads(w, a, h, b), Sends(w, b, d)
  PROVE  Leads(w, a, h + 1, d)
<1>1. PICK p \in [0..h -> Address] : p[0] = a /\ p[h] = b /\ Way(w, p, h)
  BY DEF Leads
<1>2. PICK q : q = [i \in 0..h + 1 |-> IF i = h + 1 THEN d ELSE p[i]]
  OBVIOUS
<1>3. \A i \in 0..h : q[i] = p[i] /\ i \in 0..h + 1
  BY <1>2
<1>4. q[h + 1] = d /\ q[0] = a /\ q[h] = b
  BY <1>1, <1>2, <1>3
<1>5. q \in [0..h + 1 -> Address]
  BY <1>1, <1>2
<1>6. ASSUME NEW i \in 1..h + 1 PROVE Sends(w, q[i - 1], q[i])
  <2>1. CASE i = h + 1
    <3>1. i - 1 = h
      BY <2>1
    <3> QED BY <1>4, <2>1, <3>1
  <2>2. CASE i # h + 1
    <3>1. i \in 1..h /\ i \in 0..h /\ i - 1 \in 0..h
      BY <2>2
    <3>2. Sends(w, p[i - 1], p[i])
      BY <1>1, <3>1 DEF Way
    <3> QED BY <1>3, <3>1, <3>2
  <2> QED BY <2>1, <2>2
<1>7. Way(w, q, h + 1)
  BY <1>6 DEF Way
<1> QED BY <1>4, <1>5, <1>7 DEF Leads

(* LeadsTo follows the redirects, and stays where there is none.            *)
Follows(it, a) ==
  /\ it[0] = a
  /\ \A n \in 1..HopLimit : it[n] = Step(it[n - 1])

WebTyped(w) == w \in [Address -> Answers \cup {NoReply}]

LEMMA StepTyped == ASSUME WebTyped(web), NEW a \in Address PROVE Step(a) \in Address
<1>1. web[a] \in Answers \cup {NoReply}
  BY DEF WebTyped
<1>2. CASE web[a] # NoReply /\ web[a].kind = "redirect"
  <2>1. web[a].to \in Address
    BY <1>1, <1>2, FeedNullsAssumption DEF Answers, Short
  <2> QED BY <1>2, <2>1 DEF Step
<1>3. CASE ~(web[a] # NoReply /\ web[a].kind = "redirect")
  BY <1>3 DEF Step
<1> QED BY <1>2, <1>3

LEMMA LeadsToIs ==
  ASSUME WebTyped(web), NEW a \in Address
  PROVE  \E it : Follows(it, a) /\ LeadsTo(a) = it[HopLimit]
<1>1. PICK nx : nx = [x \in Address |-> Step(x)]
  OBVIOUS
<1>2. nx \in [Address -> Address]
  BY <1>1, StepTyped
<1>3. PICK N \in Nat : N = HopLimit + 1
  BY FeedBounds
<1>4. PICK g \in [1..N -> Address] : Walks(g, nx, a, N)
  BY <1>2, Walked
<1>5. PICK f : f = [n \in 0..HopLimit |-> g[n + 1]]
  OBVIOUS
<1>6. HopLimit \in Nat
  BY FeedBounds
<1>7. f[0] = a
  <2>1. 1 \in 1..N
    BY <1>3, <1>6
  <2>2. g[1] = a
    BY <1>4, <2>1 DEF Walks
  <2>3. 0 \in 0..HopLimit /\ 0 + 1 = 1
    BY <1>6
  <2> QED BY <1>5, <2>2, <2>3
<1>8. ASSUME NEW n \in 1..HopLimit PROVE f[n] = Step(f[n - 1])
  <2>1. n \in 0..HopLimit /\ n - 1 \in 0..HopLimit /\ (n - 1) + 1 = n /\ n + 1 \in 1..N /\ n \in 1..N
        /\ (n + 1) - 1 = n /\ n + 1 # 1
    BY <1>3, <1>6
  <2>2. f[n] = g[n + 1] /\ f[n - 1] = g[n]
    BY <1>5, <2>1
  <2>3. g[n + 1] = nx[g[n]]
    BY <1>4, <2>1 DEF Walks
  <2>4. g[n] \in Address
    BY <1>4, <2>1
  <2> QED BY <1>1, <2>2, <2>3, <2>4
<1> DEFINE After(x) == Step(x)
<1> DEFINE Recurs(h) == h = [n \in 0..HopLimit |-> IF n = 0 THEN a ELSE After(h[n - 1])]
<1>9. Recurs(f)
  <2>1. \A n \in 1..HopLimit : f[n] = After(f[n - 1])
    BY <1>8
  <2> HIDE DEF After
  <2>2. \A n \in 0..HopLimit : f[n] = IF n = 0 THEN a ELSE After(f[n - 1])
    BY <1>6, <1>7, <2>1
  <2>3. f = [n \in 0..HopLimit |-> f[n]]
    BY <1>5
  <2> QED BY <2>2, <2>3
<1>10. PICK it : it = CHOOSE h : Recurs(h)
  OBVIOUS
<1>11. LeadsTo(a) = it[HopLimit]
  BY <1>10 DEF LeadsTo
<1>12. Recurs(it)
  <2> HIDE DEF Recurs
  <2> QED BY <1>9, <1>10
<1>13. it[0] = a
  BY <1>6, <1>12
<1>14. \A n \in 1..HopLimit : it[n] = After(it[n - 1])
  <2> HIDE DEF After
  <2> SUFFICES ASSUME NEW n \in 1..HopLimit PROVE it[n] = After(it[n - 1])
    OBVIOUS
  <2>1. n \in 0..HopLimit /\ n # 0
    BY <1>6
  <2> QED BY <1>12, <2>1
<1> QED BY <1>11, <1>13, <1>14 DEF Follows

LEMMA DeadSays ==
  ASSUME WebTyped(web), \A u \in Unfit : web[u] = NoReply, NEW a \in Address, Dead(web, a)
  PROVE  web[LeadsTo(a)] = NoReply \/ web[LeadsTo(a)].kind # "feed"
<1>1. PICK h \in 0..HopLimit, b \in Address : Leads(web, a, h, b) /\ Spent(web, b, h)
  BY DEF Dead
<1>2. PICK p \in [0..h -> Address] : p[0] = a /\ p[h] = b /\ Way(web, p, h)
  BY <1>1 DEF Leads
<1>3. PICK it : Follows(it, a) /\ LeadsTo(a) = it[HopLimit]
  BY LeadsToIs
<1>4. HopLimit \in Nat /\ h \in Nat /\ h <= HopLimit
  BY FeedBounds
<1>5. it[h] = b
  <2>1. PICK ok : ok = {n \in Nat : n <= h => it[n] = p[n]}
    OBVIOUS
  <2>2. 0 \in ok
    BY <1>2, <1>3, <2>1 DEF Follows
  <2>3. ASSUME NEW n \in Nat, n \in ok PROVE n + 1 \in ok
    <3> SUFFICES ASSUME n + 1 <= h PROVE it[n + 1] = p[n + 1]
      BY <2>1
    <3>1. n <= h /\ n + 1 \in 1..h /\ n + 1 \in 1..HopLimit /\ (n + 1) - 1 = n
      BY <1>4
    <3>2. it[n] = p[n]
      BY <2>1, <2>3, <3>1
    <3>3. it[n + 1] = Step(it[n])
      BY <1>3, <3>1 DEF Follows
    <3>4. Sends(web, p[n], p[n + 1])
      BY <1>2, <3>1 DEF Way
    <3> QED BY <3>2, <3>3, <3>4 DEF Step, Sends
  <2>4. Nat \subseteq ok
    BY <2>2, <2>3, Counting
  <2> QED BY <1>2, <1>4, <2>1, <2>4
<1>6. CASE h = HopLimit
  BY <1>1, <1>3, <1>5, <1>6 DEF Spent
<1>7. CASE h # HopLimit
  <2>1. Step(b) = b /\ (web[b] = NoReply \/ web[b].kind # "feed")
    BY <1>1, <1>7 DEF Spent, Step
  <2>2. PICK ok : ok = {n \in Nat : h + n <= HopLimit => it[h + n] = b}
    OBVIOUS
  <2>3. 0 \in ok
    BY <1>4, <1>5, <2>2
  <2>4. ASSUME NEW n \in Nat, n \in ok PROVE n + 1 \in ok
    <3> SUFFICES ASSUME h + (n + 1) <= HopLimit PROVE it[h + (n + 1)] = b
      BY <2>2
    <3>1. PICK m \in Nat : m = h + (n + 1)
      BY <1>4
    <3>2. h + n <= HopLimit /\ m \in 1..HopLimit /\ m - 1 = h + n
      BY <1>4, <3>1
    <3>3. it[h + n] = b
      BY <2>2, <2>4, <3>2
    <3>4. it[m] = Step(it[m - 1])
      BY <1>3, <3>2 DEF Follows
    <3> QED BY <2>1, <3>1, <3>2, <3>3, <3>4
  <2>5. Nat \subseteq ok
    BY <2>3, <2>4, Counting
  <2>6. PICK n \in Nat : n = HopLimit - h
    BY <1>4
  <2>7. h + n = HopLimit
    BY <1>4, <2>6
  <2>8. it[HopLimit] = b
    BY <1>4, <2>2, <2>5, <2>7
  <2> QED BY <1>3, <2>1, <2>8
<1> QED BY <1>6, <1>7

First(f) == f.base = NoFetch /\ f.left = <<>> /\ f.tried = {} /\ f.asked = f.hops

SearchAt(w, f, m, cands) ==
  /\ f.base \in Address /\ w[f.base] # NoReply /\ cands = PlacesToTry(w[f.base].hints, f.base)
  /\ m \in 1..Len(cands)
  /\ f.left = SubSeq(cands, m + 1, Len(cands))
  /\ f.tried = {cands[i] : i \in 1..m}
  /\ f.asked <= (HopLimit + 1) * m + f.hops
  /\ Leads(w, cands[m], f.hops, f.at)
  /\ \A i \in 1..m - 1 : Dead(w, cands[i])

(* The run under way: it looks at the pasted address, or at the m-th place  *)
(* to try, and those before led to no feed.                                 *)
Search(w, f) == \E m \in Nat, cands \in Seq(Address) : SearchAt(w, f, m, cands)

Underway(w, f) == f \in Fetch /\ f.at \notin Unfit /\ (First(f) \/ Search(w, f))

Searched(w, r, cands) ==
  /\ r.from \in Address /\ w[r.from] # NoReply /\ cands = PlacesToTry(w[r.from].hints, r.from)
  /\ r.tried = {cands[i] : i \in 1..Len(cands)}
  /\ \A i \in 1..Len(cands) : Dead(w, cands[i])

ToldTrue(w, r) ==
  /\ r \in Reply /\ r.asked <= (HopLimit + 1) * (TryCap + 1)
  /\ r.said = "list" => /\ r.at \in Address /\ w[r.at] # NoReply /\ w[r.at].kind = "feed"
                        /\ r.listed = Cardinality(Posts(w[r.at].entries)) /\ r.total = Len(w[r.at].entries)
  /\ r.said = "not a feed" /\ r.from # NoFetch => \E cands \in Seq(Address) : Searched(w, r, cands)

FeedState(w, f, r) ==
  /\ f # NoFetch => r = NoReply /\ Underway(w, f)
  /\ r # NoReply => ToldTrue(w, r)

FeedInv ==
  /\ WebTyped(web) /\ \A u \in Unfit : web[u] = NoReply
  /\ runs \in 0..RunsPerHour /\ pasted \in 0..MaxRuns
  /\ FeedState(web, fetch, reply)

LEMMA HintsOf ==
  ASSUME NEW w, WebTyped(w), NEW a \in Address, w[a] # NoReply
  PROVE  w[a] \in Answers /\ w[a].hints \in Seq(Address)
<1>1. w[a] \in Answers
  BY DEF WebTyped
<1>2. w[a].hints \in Hints \cup {<<>>}
  BY <1>1 DEF Answers, Short
<1>3. <<>> \in Seq(Address)
  OBVIOUS
<1> QED BY <1>1, <1>2, <1>3, FeedBounds

LEMMA EntriesOfFeed ==
  ASSUME NEW w, WebTyped(w), NEW a \in Address, w[a] # NoReply, w[a].kind = "feed"
  PROVE  /\ w[a].entries \in Seq(EntryKind)
         /\ Posts(w[a].entries) \in SUBSET (1..Len(w[a].entries)) /\ IsFiniteSet(1..Len(w[a].entries))
         /\ Cardinality(1..Len(w[a].entries)) = Len(w[a].entries)
         /\ Cardinality(Posts(w[a].entries)) \in Nat /\ Len(w[a].entries) \in Nat
<1>1. w[a] \in Answers
  BY DEF WebTyped
<1>2. PICK s : s = w[a].entries
  OBVIOUS
<1>3. s \in Seq(EntryKind)
  <2>1. s \in Entries \cup {<<>>}
    BY <1>1, <1>2 DEF Answers, Short
  <2>2. <<>> \in Seq(EntryKind)
    OBVIOUS
  <2>3. Entries \subseteq Seq(EntryKind)
    BY FeedFetchAssumption DEF EntryKind
  <2> QED BY <2>1, <2>2, <2>3
<1>4. Len(s) \in Nat
  BY <1>3
<1>5. Posts(s) \in SUBSET (1..Len(s))
  <2>1. PICK l : l = Cut(s, ListedAtMost)
    OBVIOUS
  <2>2. l \in Seq(EntryKind) /\ Len(l) = IF Len(s) < ListedAtMost THEN Len(s) ELSE ListedAtMost
    BY <1>3, <2>1, CutIs, FeedBounds
  <2>3. DOMAIN l = 1..Len(l)
    BY <2>2
  <2>4. Posts(s) \subseteq 1..Len(l)
    BY <2>1, <2>3 DEF Posts
  <2>5. Len(l) <= Len(s) /\ Len(l) \in Nat
    BY <1>4, <2>2, FeedBounds
  <2> QED BY <1>4, <2>4, <2>5
<1>6. IsFiniteSet(1..Len(s)) /\ Cardinality(1..Len(s)) = Len(s)
  <2>1. 1 \in Int /\ Len(s) \in Int
    BY <1>4
  <2>2. IsFiniteSet(1..Len(s))
    BY <2>1, FS_Interval
  <2>3. Cardinality(1..Len(s)) = IF 1 > Len(s) THEN 0 ELSE Len(s) - 1 + 1
    BY <2>1, FS_Interval
  <2> QED BY <1>4, <2>2, <2>3
<1>7. Cardinality(Posts(s)) \in Nat
  BY <1>5, <1>6, FS_Subset, FS_CardinalityType
<1> QED BY <1>2, <1>3, <1>4, <1>5, <1>6, <1>7

LEMMA PlacesTyped ==
  ASSUME NEW w, WebTyped(w), NEW a \in Address, w[a] # NoReply, NEW cands, cands = PlacesToTry(w[a].hints, a)
  PROVE  cands \in Seq(Address) /\ Len(cands) \in Nat /\ Len(cands) <= TryCap /\ \A n \in 1..Len(cands) : cands[n] \notin Unfit
<1>1. PICK hints \in Seq(Address) : hints = w[a].hints
  BY HintsOf
<1>2. PlacesGood(hints, a, PlacesToTry(hints, a))
  BY PlacesSay
<1>3. PlacesGood(hints, a, cands)
  BY <1>1, <1>2
<1>4. cands \in Seq(Address) /\ Len(cands) <= TryCap /\ \A n \in 1..Len(cands) : cands[n] \notin Unfit
  BY <1>3 DEF PlacesGood
<1>5. Len(cands) \in Nat
  BY <1>4
<1> QED BY <1>4, <1>5

LEMMA Times ==
  ASSUME NEW H \in Nat, NEW m \in Nat
  PROVE  (H + 1) * m \in Nat /\ (H + 1) * (m + 1) = (H + 1) * m + (H + 1)
  OBVIOUS

LEMMA TimesUpTo ==
  ASSUME NEW H \in Nat, NEW m \in Nat, NEW n \in Nat, m <= n
  PROVE  (H + 1) * m + (H + 1) <= (H + 1) * (n + 1)
<1>1. PICK d \in Nat : n = m + d
  <2>1. n - m \in Nat /\ n = m + (n - m)
    OBVIOUS
  <2> QED BY <2>1
<1>2. (H + 1) * (m + d) = (H + 1) * m + (H + 1) * d
  OBVIOUS
<1>3. (H + 1) * d \in Nat /\ (H + 1) * m \in Nat
  BY Times
<1>4. (H + 1) * (n + 1) = (H + 1) * n + (H + 1)
  BY Times
<1> QED BY <1>1, <1>2, <1>3, <1>4

NoneLeft(f) == f.left = <<>>
EndsAs(f, word, r) ==
  r = [said |-> word, at |-> NoFetch, from |-> f.base, listed |-> 0, total |-> 0,
       tried |-> f.tried, asked |-> f.asked + 1]
EndsEmpty(f, r) == EndsAs(f, "not a feed", r)
TurnsTo(f, g) ==
  g = [at |-> Head(f.left), hops |-> 0, base |-> f.base, left |-> Tail(f.left),
       tried |-> f.tried \cup {Head(f.left)}, asked |-> f.asked + 1]

LEMMA FetchTyped ==
  ASSUME NEW f \in Fetch
  PROVE  f.asked \in Nat /\ f.asked + 1 \in Nat /\ f.hops \in Nat /\ f.hops <= HopLimit /\ f.tried \in SUBSET Address
         /\ f.left \in Seq(Address) /\ f.at \in Address
  BY FeedBounds DEF Fetch

(* A search that got to its last place, or that goes on to the next.        *)
LEMMA SearchEnds ==
  ASSUME NEW w, WebTyped(w), NEW f \in Fetch, NEW m \in Nat, NEW cands \in Seq(Address), SearchAt(w, f, m, cands),
         Dead(w, cands[m]), NoneLeft(f),
         NEW r, EndsEmpty(f, r)
  PROVE  ToldTrue(w, r)
<1>1. PICK l \in Nat : l = Len(cands)
  OBVIOUS
<1>2. m \in 1..l /\ f.left = SubSeq(cands, m + 1, l)
  BY <1>1 DEF SearchAt
<1>3. m = l
  <2>1. Len(SubSeq(cands, m + 1, l)) = IF m + 1 <= l THEN l - (m + 1) + 1 ELSE 0
    BY <1>1, <1>2
  <2>2. Len(SubSeq(cands, m + 1, l)) = 0
    <3>1. SubSeq(cands, m + 1, l) = <<>>
      BY <1>2 DEF NoneLeft
    <3>2. Len(<<>>) = 0
      OBVIOUS
    <3> QED BY <3>1, <3>2
  <2> QED BY <1>1, <1>2, <2>1, <2>2
<1>4. \A i \in 1..l : Dead(w, cands[i])
  <2> SUFFICES ASSUME NEW i \in 1..l, i # m PROVE Dead(w, cands[i])
    BY <1>3
  <2>1. i \in 1..m - 1
    BY <1>1, <1>3
  <2> QED BY <2>1 DEF SearchAt
<1>5. f.base \in Address /\ w[f.base] # NoReply /\ cands = PlacesToTry(w[f.base].hints, f.base)
      /\ f.tried = {cands[i] : i \in 1..m}
  BY DEF SearchAt
<1>6. m <= TryCap
  BY <1>1, <1>3, <1>5, PlacesTyped
<1>7. r \in Reply
  <2>1. f.asked + 1 \in Nat /\ f.tried \in SUBSET Address
    BY FetchTyped
  <2> QED BY <1>5, <2>1 DEF Reply, EndsEmpty, EndsAs
<1>8. r.asked <= (HopLimit + 1) * (TryCap + 1)
  <2>1. f.asked \in Nat /\ f.hops \in Nat /\ f.hops <= HopLimit
    BY FetchTyped
  <2>2. f.asked <= (HopLimit + 1) * m + f.hops
    BY DEF SearchAt
  <2>3. (HopLimit + 1) * m \in Nat
    BY Times, FeedBounds
  <2>4. (HopLimit + 1) * m + (HopLimit + 1) <= (HopLimit + 1) * (TryCap + 1)
    BY <1>6, TimesUpTo, FeedBounds
  <2>5. (HopLimit + 1) * (TryCap + 1) \in Nat
    BY FeedBounds, Times
  <2>6. PICK x \in Nat, y \in Nat : x = (HopLimit + 1) * m /\ y = (HopLimit + 1) * (TryCap + 1)
    BY <2>3, <2>5
  <2>7. r.asked = f.asked + 1
    BY DEF EndsEmpty, EndsAs
  <2>8. f.asked <= x + f.hops /\ x + (HopLimit + 1) <= y
    BY <2>2, <2>4, <2>6
  <2>9. f.asked + 1 <= y
    BY <2>1, <2>8, FeedBounds
  <2> QED BY <2>6, <2>7, <2>9
<1>9. Searched(w, r, cands)
  BY <1>1, <1>3, <1>4, <1>5 DEF Searched, EndsEmpty, EndsAs
<1>10. r.said = "not a feed"
  BY DEF EndsEmpty, EndsAs
<1> QED BY <1>7, <1>8, <1>9, <1>10 DEF ToldTrue

LEMMA SearchTurns ==
  ASSUME NEW w, WebTyped(w), NEW f \in Fetch, NEW m \in Nat, NEW cands \in Seq(Address), SearchAt(w, f, m, cands),
         Dead(w, cands[m]), ~NoneLeft(f),
         NEW g, TurnsTo(f, g)
  PROVE  Underway(w, g)
<1>1. PICK l \in Nat : l = Len(cands)
  OBVIOUS
<1>2. m \in 1..l /\ f.left = SubSeq(cands, m + 1, l)
  BY <1>1 DEF SearchAt
<1>3. m + 1 \in 1..l
  <2>1. m + 1 > l => SubSeq(cands, m + 1, l) = <<>>
    BY <1>1, <1>2
  <2> QED BY <1>2, <2>1 DEF NoneLeft
<1>4. Head(f.left) = cands[m + 1] /\ Tail(f.left) = SubSeq(cands, (m + 1) + 1, l)
  BY <1>1, <1>2, <1>3
<1>5. f.base \in Address /\ w[f.base] # NoReply /\ cands = PlacesToTry(w[f.base].hints, f.base)
      /\ f.tried = {cands[i] : i \in 1..m}
  BY DEF SearchAt
<1>6. PICK k \in Nat : k = m + 1
  OBVIOUS
<1>7. cands[k] \in Address /\ cands[k] \notin Unfit
  BY <1>1, <1>3, <1>5, <1>6, PlacesTyped
<1>8. g \in Fetch
  <2>1. f.asked + 1 \in Nat /\ f.tried \in SUBSET Address
    BY FetchTyped
  <2>2. Tail(f.left) \in Seq(Address)
    BY FetchTyped DEF NoneLeft
  <2>3. 0 \in 0..HopLimit
    BY FeedBounds
  <2> QED BY <1>4, <1>5, <1>6, <1>7, <2>1, <2>2, <2>3 DEF Fetch, TurnsTo
<1>9. SearchAt(w, g, k, cands)
  <2>1. g.tried = {cands[i] : i \in 1..k}
    <3>1. 1..k = 1..m \cup {k}
      BY <1>6
    <3> QED BY <1>4, <1>5, <1>6, <3>1 DEF TurnsTo
  <2>2. g.asked <= (HopLimit + 1) * k + g.hops
    <3>1. f.asked \in Nat /\ f.hops \in Nat /\ f.hops <= HopLimit /\ g.asked = f.asked + 1 /\ g.hops = 0
      BY FetchTyped DEF TurnsTo
    <3>2. f.asked <= (HopLimit + 1) * m + f.hops
      BY DEF SearchAt
    <3>3. (HopLimit + 1) * m \in Nat /\ (HopLimit + 1) * k = (HopLimit + 1) * m + (HopLimit + 1)
      BY <1>6, Times, FeedBounds
    <3>4. PICK x \in Nat : x = (HopLimit + 1) * m
      BY <3>3
    <3>5. f.asked + 1 <= x + (HopLimit + 1) + 0
      BY <3>1, <3>2, <3>4, FeedBounds
    <3> QED BY <3>1, <3>3, <3>4, <3>5
  <2>3. Leads(w, cands[k], g.hops, g.at)
    <3>1. g.hops = 0 /\ g.at = cands[k]
      BY <1>4, <1>6 DEF TurnsTo
    <3> QED BY <1>7, <3>1, LeadsHere
  <2>4. \A i \in 1..k - 1 : Dead(w, cands[i])
    <3> SUFFICES ASSUME NEW i \in 1..k - 1 PROVE Dead(w, cands[i])
      OBVIOUS
    <3>1. i \in 1..m - 1 \/ i = m
      BY <1>6
    <3> QED BY <3>1 DEF SearchAt
  <2>5. k \in 1..Len(cands) /\ g.left = SubSeq(cands, k + 1, Len(cands)) /\ g.base = f.base
    BY <1>1, <1>3, <1>4, <1>6 DEF TurnsTo
  <2> QED BY <1>5, <2>1, <2>2, <2>3, <2>4, <2>5 DEF SearchAt
<1>10. g.at \notin Unfit
  BY <1>4, <1>6, <1>7 DEF TurnsTo
<1> QED BY <1>8, <1>9, <1>10 DEF Underway, Search

(* What is told of the pasted address itself.                               *)
Failures == {"blocked", "unreachable", "invalid", "too large", "not a feed"}

LEMMA FirstEnds ==
  ASSUME NEW w, NEW f \in Fetch, First(f), NEW word \in Failures,
         NEW r, EndsAs(f, word, r)
  PROVE  ToldTrue(w, r)
<1>1. f.base = NoFetch /\ f.tried = {} /\ f.asked = f.hops /\ f.hops \in 0..HopLimit
  BY DEF First, Fetch
<1>2. f.asked + 1 \in Nat /\ f.asked + 1 <= HopLimit + 1
  BY <1>1, FeedBounds
<1>3. r \in Reply
  BY <1>1, <1>2 DEF Reply, EndsAs, Failures
<1>4. r.asked <= (HopLimit + 1) * (TryCap + 1)
  <2>1. (HopLimit + 1) * TryCap \in Nat /\ (HopLimit + 1) * (TryCap + 1) = (HopLimit + 1) * TryCap + (HopLimit + 1)
    BY Times, FeedBounds
  <2>2. PICK x \in Nat : x = (HopLimit + 1) * TryCap
    BY <2>1
  <2>3. f.asked + 1 <= x + (HopLimit + 1)
    BY <1>2, <2>2, FeedBounds
  <2>4. r.asked = f.asked + 1
    BY DEF EndsAs
  <2> QED BY <2>1, <2>2, <2>3, <2>4
<1>5. r.from = NoFetch /\ r.said # "list"
  BY <1>1 DEF EndsAs, Failures
<1> QED BY <1>3, <1>4, <1>5 DEF ToldTrue

(* What a larger web says of a run: the same.                               *)
LEMMA StateGrows ==
  ASSUME NEW w, NEW v, Grows(w, v), NEW f, NEW r, FeedState(w, f, r) PROVE FeedState(v, f, r)
<1>1. ASSUME NEW m, NEW cands, SearchAt(w, f, m, cands), f \in Fetch PROVE SearchAt(v, f, m, cands)
  <2>1. v[f.base] = w[f.base]
    BY <1>1 DEF SearchAt, Grows
  <2>2. Leads(v, cands[m], f.hops, f.at)
    <3>1. f.hops \in Nat /\ Leads(w, cands[m], f.hops, f.at)
      BY <1>1, FetchTyped DEF SearchAt
    <3> QED BY <3>1, LeadsGrows
  <2>3. \A i \in 1..m - 1 : Dead(v, cands[i])
    BY <1>1, DeadGrows DEF SearchAt
  <2> QED BY <1>1, <2>1, <2>2, <2>3 DEF SearchAt
<1>2. f # NoFetch => r = NoReply /\ Underway(v, f)
  <2> SUFFICES ASSUME f # NoFetch PROVE Underway(v, f)
    BY DEF FeedState
  <2>1. Underway(w, f)
    BY DEF FeedState
  <2> QED BY <1>1, <2>1 DEF Underway, Search
<1>3. ASSUME NEW cands, Searched(w, r, cands) PROVE Searched(v, r, cands)
  <2>1. v[r.from] = w[r.from]
    BY <1>3 DEF Searched, Grows
  <2>2. \A i \in 1..Len(cands) : Dead(v, cands[i])
    BY <1>3, DeadGrows DEF Searched
  <2> QED BY <1>3, <2>1, <2>2 DEF Searched
<1>4. r # NoReply => ToldTrue(v, r)
  <2> SUFFICES ASSUME r # NoReply PROVE ToldTrue(v, r)
    OBVIOUS
  <2>1. ToldTrue(w, r)
    BY DEF FeedState
  <2>2. r.said = "list" => v[r.at] = w[r.at]
    BY <2>1 DEF ToldTrue, Grows
  <2> QED BY <1>3, <2>1, <2>2 DEF ToldTrue
<1> QED BY <1>2, <1>4 DEF FeedState

(* The look under way found nothing.                                        *)
Over(w, f) == First(f) \/ \E m \in Nat, cands \in Seq(Address) : SearchAt(w, f, m, cands) /\ Dead(w, cands[m])

FailsTo(f, word, g, r) ==
  IF f.base = NoFetch THEN g = NoFetch /\ EndsAs(f, word, r)
  ELSE IF NoneLeft(f) THEN g = NoFetch /\ EndsEmpty(f, r)
  ELSE TurnsTo(f, g) /\ r = NoReply

LEMMA FailsGoesOn ==
  ASSUME NEW w, WebTyped(w), NEW f \in Fetch, Over(w, f), NEW word \in Failures,
         NEW g, NEW r, FailsTo(f, word, g, r)
  PROVE  FeedState(w, g, r)
<1>1. CASE First(f)
  <2>1. g = NoFetch /\ EndsAs(f, word, r)
    BY <1>1 DEF First, FailsTo
  <2>2. ToldTrue(w, r)
    BY <1>1, <2>1, FirstEnds
  <2> QED BY <2>1, <2>2 DEF FeedState
<1>2. CASE ~First(f)
  <2>1. PICK m \in Nat, cands \in Seq(Address) : SearchAt(w, f, m, cands) /\ Dead(w, cands[m])
    BY <1>2 DEF Over
  <2>2. f.base # NoFetch
    BY <2>1, FeedNullsAssumption DEF SearchAt
  <2>3. CASE NoneLeft(f)
    <3>1. g = NoFetch /\ EndsEmpty(f, r)
      BY <2>2, <2>3 DEF FailsTo
    <3>2. ToldTrue(w, r)
      BY <2>1, <2>3, <3>1, SearchEnds
    <3> QED BY <3>1, <3>2 DEF FeedState
  <2>4. CASE ~NoneLeft(f)
    <3>1. TurnsTo(f, g) /\ r = NoReply
      BY <2>2, <2>4 DEF FailsTo
    <3>2. Underway(w, g)
      BY <2>1, <2>4, <3>1, SearchTurns
    <3> QED BY <3>1, <3>2 DEF FeedState
  <2> QED BY <2>3, <2>4
<1> QED BY <1>1, <1>2

LEMMA SpentHere ==
  ASSUME NEW w, NEW f, Underway(w, f), Spent(w, f.at, f.hops) PROVE Over(w, f)
<1>1. SUFFICES ASSUME NEW m \in Nat, NEW cands \in Seq(Address), SearchAt(w, f, m, cands) PROVE Dead(w, cands[m])
  BY DEF Underway, Search, Over
<1>2. Leads(w, cands[m], f.hops, f.at)
  BY <1>1 DEF SearchAt
<1>3. f.hops \in 0..HopLimit /\ f.at \in Address
  BY DEF Underway, Fetch
<1> QED BY <1>2, <1>3 DEF Dead

LEMMA SentAway ==
  ASSUME NEW w, NEW f, Underway(w, f), NEW b \in Unfit, Sends(w, f.at, b) PROVE Over(w, f)
<1>1. CASE f.hops = HopLimit
  <2>1. Spent(w, f.at, f.hops)
    BY <1>1 DEF Sends, Spent
  <2> QED BY <2>1, SpentHere
<1>2. CASE f.hops # HopLimit
  <2>1. SUFFICES ASSUME NEW m \in Nat, NEW cands \in Seq(Address), SearchAt(w, f, m, cands) PROVE Dead(w, cands[m])
    BY DEF Underway, Search, Over
  <2>2. PICK h \in Nat : h = f.hops
    BY FetchTyped DEF Underway
  <2>3. h + 1 \in 0..HopLimit /\ b \in Address
    BY <1>2, <2>2, FetchTyped, FeedBounds DEF Underway
  <2>4. Leads(w, cands[m], h, f.at)
    BY <2>1, <2>2 DEF SearchAt
  <2>5. Leads(w, cands[m], h + 1, b)
    BY <2>3, <2>4, LeadsOn
  <2>6. Spent(w, b, h + 1)
    BY DEF Spent
  <2> QED BY <2>3, <2>5, <2>6 DEF Dead
<1> QED BY <1>1, <1>2

HopsTo(f, b, g) ==
  g = [at |-> b, hops |-> f.hops + 1, base |-> f.base, left |-> f.left, tried |-> f.tried, asked |-> f.asked + 1]

LEMMA HopGoesOn ==
  ASSUME NEW w, NEW f, Underway(w, f), NEW b \in Address, b \notin Unfit, Sends(w, f.at, b),
         f.hops # HopLimit, NEW g, HopsTo(f, b, g)
  PROVE  Underway(w, g)
<1>1. f \in Fetch
  BY DEF Underway
<1>2. g \in Fetch
  <2>1. f.asked + 1 \in Nat /\ f.hops + 1 \in 0..HopLimit /\ f.tried \in SUBSET Address /\ f.left \in Seq(Address)
    BY <1>1, FetchTyped, FeedBounds
  <2>2. f.base \in Address \cup {NoFetch}
    BY <1>1 DEF Fetch
  <2> QED BY <2>1, <2>2 DEF HopsTo, Fetch
<1>3. /\ g.at = b /\ g.hops = f.hops + 1 /\ g.base = f.base /\ g.left = f.left /\ g.tried = f.tried
      /\ g.asked = f.asked + 1
  BY DEF HopsTo
<1>4. First(f) => First(g)
  BY <1>3 DEF First
<1>5. ASSUME NEW m \in Nat, NEW cands \in Seq(Address), SearchAt(w, f, m, cands) PROVE SearchAt(w, g, m, cands)
  <2>1. g.asked <= (HopLimit + 1) * m + g.hops
    <3>1. f.asked \in Nat /\ f.hops \in Nat
      BY <1>1, FetchTyped
    <3>2. f.asked <= (HopLimit + 1) * m + f.hops
      BY <1>5 DEF SearchAt
    <3>3. PICK x \in Nat : x = (HopLimit + 1) * m
      BY Times, FeedBounds
    <3>4. f.asked + 1 <= x + (f.hops + 1)
      BY <3>1, <3>2, <3>3
    <3> QED BY <1>3, <3>3, <3>4
  <2>2. Leads(w, cands[m], g.hops, g.at)
    <3>1. PICK h \in Nat : h = f.hops
      BY <1>1, FetchTyped
    <3>2. Leads(w, cands[m], h, f.at)
      BY <1>5, <3>1 DEF SearchAt
    <3>3. Leads(w, cands[m], h + 1, b)
      BY <3>2, LeadsOn
    <3> QED BY <1>3, <3>1, <3>3
  <2> QED BY <1>3, <1>5, <2>1, <2>2 DEF SearchAt
<1> QED BY <1>2, <1>3, <1>4, <1>5 DEF Underway, Search

(* From the page the pasted address came to, to the first place to try.     *)
LooksFrom(f, cands, g) ==
  g = [at |-> Head(cands), hops |-> 0, base |-> f.at, left |-> Tail(cands),
       tried |-> f.tried \cup {Head(cands)}, asked |-> f.asked + 1]

LEMMA LookGoesOn ==
  ASSUME NEW w, WebTyped(w), NEW f \in Fetch, First(f), w[f.at] # NoReply,
         NEW cands, cands = PlacesToTry(w[f.at].hints, f.at), Len(cands) # 0,
         NEW g, LooksFrom(f, cands, g)
  PROVE  Underway(w, g)
<1>1. f.at \in Address /\ f.tried = {} /\ f.asked = f.hops
  BY FetchTyped DEF First
<1>2. cands \in Seq(Address) /\ Len(cands) \in Nat /\ \A n \in 1..Len(cands) : cands[n] \notin Unfit
  BY <1>1, PlacesTyped
<1>3. PICK l \in Nat : l = Len(cands)
  BY <1>2
<1>4. 1 \in 1..l
  BY <1>3
<1>5. Head(cands) = cands[1] /\ Tail(cands) = SubSeq(cands, 2, l) /\ cands[1] \in Address /\ Tail(cands) \in Seq(Address)
  BY <1>2, <1>3, <1>4
<1>6. PICK c : c = cands[1]
  OBVIOUS
<1>7. /\ g.at = c /\ g.hops = 0 /\ g.base = f.at /\ g.left = SubSeq(cands, 2, l) /\ g.tried = {c}
      /\ g.asked = f.asked + 1
  BY <1>1, <1>5, <1>6 DEF LooksFrom
<1>8. g \in Fetch
  <2>1. f.asked + 1 \in Nat /\ 0 \in 0..HopLimit
    BY FetchTyped, FeedBounds
  <2>2. f.tried \cup {Head(cands)} \in SUBSET Address /\ Head(cands) \in Address
    BY <1>1, <1>5
  <2> QED BY <1>1, <1>5, <2>1, <2>2 DEF LooksFrom, Fetch
<1>9. SearchAt(w, g, 1, cands)
  <2>1. g.tried = {cands[i] : i \in 1..1}
    <3>1. 1..1 = {1}
      OBVIOUS
    <3> QED BY <1>6, <1>7, <3>1
  <2>2. g.asked <= (HopLimit + 1) * 1 + g.hops
    <3>1. f.hops \in Nat /\ f.hops <= HopLimit
      BY FetchTyped
    <3> QED BY <1>1, <1>7, <3>1, FeedBounds
  <2>3. Leads(w, c, 0, c)
    BY <1>5, <1>6, LeadsHere
  <2>4. \A i \in 1..1 - 1 : Dead(w, cands[i])
    OBVIOUS
  <2>5. g.left = SubSeq(cands, 1 + 1, Len(cands))
    BY <1>3, <1>7
  <2> QED BY <1>1, <1>3, <1>4, <1>6, <1>7, <2>1, <2>2, <2>3, <2>4, <2>5 DEF SearchAt
<1>10. g.at \notin Unfit
  BY <1>2, <1>3, <1>4, <1>6, <1>7
<1> QED BY <1>2, <1>8, <1>9, <1>10 DEF Underway, Search

(* However a run ends, what it took is within the limits.                   *)
LEMMA AskedWithin ==
  ASSUME NEW w, WebTyped(w), NEW f, Underway(w, f)
  PROVE  f.asked + 1 \in Nat /\ f.asked + 1 <= (HopLimit + 1) * (TryCap + 1)
<1>1. f.asked \in Nat /\ f.hops \in Nat /\ f.hops <= HopLimit
  BY FetchTyped DEF Underway
<1>2. (HopLimit + 1) * (TryCap + 1) \in Nat
  BY Times, FeedBounds
<1>3. PICK m \in Nat : m <= TryCap /\ f.asked <= (HopLimit + 1) * m + f.hops
  <2>1. CASE First(f)
    <3>1. (HopLimit + 1) * 0 = 0
      BY FeedBounds
    <3>2. f.asked <= (HopLimit + 1) * 0 + f.hops
      BY <1>1, <2>1, <3>1 DEF First
    <3>3. 0 \in Nat /\ 0 <= TryCap
      BY FeedBounds
    <3> QED BY <3>2, <3>3
  <2>2. CASE Search(w, f)
    <3>1. PICK m \in Nat, cands \in Seq(Address) : SearchAt(w, f, m, cands)
      BY <2>2 DEF Search
    <3>2. f.base \in Address /\ w[f.base] # NoReply /\ cands = PlacesToTry(w[f.base].hints, f.base)
          /\ m \in 1..Len(cands) /\ f.asked <= (HopLimit + 1) * m + f.hops
      BY <3>1 DEF SearchAt
    <3>3. Len(cands) \in Nat /\ Len(cands) <= TryCap
      BY <3>2, PlacesTyped
    <3>4. m <= TryCap
      BY <3>2, <3>3, FeedBounds
    <3> QED BY <3>2, <3>4
  <2> QED BY <2>1, <2>2 DEF Underway
<1>4. (HopLimit + 1) * m + (HopLimit + 1) <= (HopLimit + 1) * (TryCap + 1)
  BY <1>3, TimesUpTo, FeedBounds
<1>5. PICK x \in Nat, y \in Nat : x = (HopLimit + 1) * m /\ y = (HopLimit + 1) * (TryCap + 1)
  BY <1>2, Times, FeedBounds
<1>6. f.asked <= x + f.hops /\ x + (HopLimit + 1) <= y
  BY <1>3, <1>4, <1>5
<1>7. f.asked + 1 <= y
  BY <1>1, <1>6, FeedBounds
<1> QED BY <1>1, <1>5, <1>7

ListsAs(w, f, r) ==
  r = [said |-> "list", at |-> f.at, from |-> f.base, listed |-> Cardinality(Posts(w[f.at].entries)),
       total |-> Len(w[f.at].entries), tried |-> f.tried, asked |-> f.asked + 1]

LEMMA ListIsTrue ==
  ASSUME NEW w, WebTyped(w), NEW f, Underway(w, f), w[f.at] # NoReply, w[f.at].kind = "feed",
         NEW r, ListsAs(w, f, r)
  PROVE  ToldTrue(w, r)
<1>1. f \in Fetch /\ f.at \in Address /\ f.tried \in SUBSET Address /\ f.base \in Address \cup {NoFetch}
  BY FetchTyped DEF Underway, Fetch
<1>2. f.asked + 1 \in Nat /\ f.asked + 1 <= (HopLimit + 1) * (TryCap + 1)
  BY AskedWithin
<1>3. PICK n, t : n = Cardinality(Posts(w[f.at].entries)) /\ t = Len(w[f.at].entries)
  OBVIOUS
<1>4. n \in Nat /\ t \in Nat
  BY <1>1, <1>3, EntriesOfFeed
<1>5. r \in Reply
  BY <1>1, <1>2, <1>3, <1>4 DEF ListsAs, Reply
<1>6. r.said = "list" /\ r.at = f.at /\ r.listed = n /\ r.total = t /\ r.asked = f.asked + 1
  BY <1>3 DEF ListsAs
<1> QED BY <1>1, <1>2, <1>3, <1>5, <1>6 DEF ToldTrue

-----------------------------------------------------------------------------
(* The run of a feed.                                                       *)

LEMMA FeedStart == FeedInit => FeedInv
<1> SUFFICES ASSUME FeedInit PROVE FeedInv
  OBVIOUS
<1>1. WebTyped(web) /\ \A u \in Unfit : web[u] = NoReply
  BY FeedBounds DEF FeedInit, WebTyped
<1>2. runs \in 0..RunsPerHour /\ pasted \in 0..MaxRuns
  BY FeedBounds DEF FeedInit
<1>3. FeedState(web, fetch, reply)
  BY DEF FeedInit, FeedState
<1> QED BY <1>1, <1>2, <1>3 DEF FeedInv

(* The parts of a fetch, of what Hear makes of the answer.                  *)
LEMMA FailsIs ==
  ASSUME fetch \in Fetch, reply = NoReply, NEW word, Fails(word)
  PROVE  FailsTo(fetch, word, fetch', reply')
<1>1. CASE fetch.base = NoFetch
  BY <1>1 DEF Fails, End, Told, FailsTo, EndsAs
<1>2. CASE fetch.base # NoFetch /\ NoneLeft(fetch)
  BY <1>2 DEF Fails, End, Told, FailsTo, EndsAs, EndsEmpty, NoneLeft
<1>3. CASE fetch.base # NoFetch /\ ~NoneLeft(fetch)
  <2>1. Turn(fetch.base, fetch.left)
    BY <1>3 DEF Fails, NoneLeft
  <2>2. TurnsTo(fetch, fetch')
    BY <2>1 DEF Turn, TurnsTo, Fetch
  <2>3. reply' = NoReply
    BY <2>1 DEF Turn
  <2> QED BY <1>3, <2>2, <2>3 DEF FailsTo
<1> QED BY <1>1, <1>2, <1>3

LEMMA FailsKeeps ==
  ASSUME WebTyped(web'), fetch \in Fetch, reply = NoReply, Over(web', fetch), NEW word \in Failures, Fails(word)
  PROVE  FeedState(web', fetch', reply')
<1>1. FailsTo(fetch, word, fetch', reply')
  BY FailsIs
<1> QED BY <1>1, FailsGoesOn

LEMMA FollowKeeps ==
  ASSUME WebTyped(web'), Underway(web', fetch), reply = NoReply, NEW a \in Address, Sends(web', fetch.at, a),
         Follow(a)
  PROVE  FeedState(web', fetch', reply')
<1>1. fetch \in Fetch
  BY DEF Underway
<1>2. CASE a \in Unfit
  <2>1. Fails("invalid")
    BY <1>2 DEF Follow
  <2>2. Over(web', fetch)
    BY <1>2, SentAway
  <2>3. "invalid" \in Failures
    BY DEF Failures
  <2> QED BY <1>1, <2>1, <2>2, <2>3, FailsKeeps
<1>3. CASE a \notin Unfit /\ fetch.hops = HopLimit
  <2>1. Fails("unreachable")
    BY <1>3 DEF Follow
  <2>2. Over(web', fetch)
    <3>1. Spent(web', fetch.at, fetch.hops)
      BY <1>3 DEF Spent, Sends
    <3> QED BY <3>1, SpentHere
  <2>3. "unreachable" \in Failures
    BY DEF Failures
  <2> QED BY <1>1, <2>1, <2>2, <2>3, FailsKeeps
<1>4. CASE a \notin Unfit /\ fetch.hops # HopLimit
  <2>1. fetch' = [fetch EXCEPT !.at = a, !.hops = @ + 1, !.asked = @ + 1] /\ reply' = NoReply
    BY <1>4 DEF Follow
  <2>2. HopsTo(fetch, a, fetch')
    BY <1>1, <2>1 DEF HopsTo, Fetch
  <2>3. Underway(web', fetch')
    BY <1>4, <2>2, HopGoesOn
  <2> QED BY <2>1, <2>3 DEF FeedState
<1> QED BY <1>2, <1>3, <1>4

LEMMA LookKeeps ==
  ASSUME WebTyped(web'), Underway(web', fetch), reply = NoReply, web'[fetch.at] # NoReply,
         Spent(web', fetch.at, fetch.hops), LookInto(fetch.at)
  PROVE  FeedState(web', fetch', reply')
<1>1. fetch \in Fetch /\ Over(web', fetch)
  BY SpentHere DEF Underway
<1>2. "not a feed" \in Failures
  BY DEF Failures
<1>3. PICK cands : cands = PlacesToTry(web'[fetch.at].hints, fetch.at)
  OBVIOUS
<1>4. CASE fetch.base # NoFetch
  <2>1. Fails("not a feed")
    BY <1>4 DEF LookInto
  <2> QED BY <1>1, <1>2, <2>1, FailsKeeps
<1>5. CASE fetch.base = NoFetch /\ cands = <<>>
  <2>1. End("not a feed")
    BY <1>3, <1>5 DEF LookInto
  <2>2. FailsTo(fetch, "not a feed", fetch', reply')
    BY <1>5, <2>1 DEF End, Told, FailsTo, EndsAs
  <2> QED BY <1>1, <1>2, <2>2, FailsGoesOn
<1>6. CASE fetch.base = NoFetch /\ cands # <<>>
  <2>1. Turn(fetch.at, cands)
    BY <1>3, <1>6 DEF LookInto
  <2>2. LooksFrom(fetch, cands, fetch')
    BY <1>1, <2>1 DEF Turn, LooksFrom, Fetch
  <2>3. First(fetch)
    <3>1. ASSUME Search(web', fetch) PROVE FALSE
      BY <1>6, <3>1, FeedNullsAssumption DEF Search, SearchAt
    <3> QED BY <3>1 DEF Underway
  <2>4. Len(cands) # 0
    <3>1. fetch.at \in Address
      BY <1>1, FetchTyped
    <3>2. cands \in Seq(Address)
      BY <1>3, <3>1, PlacesTyped
    <3> QED BY <1>6, <3>2
  <2>5. Underway(web', fetch')
    BY <1>1, <1>3, <2>2, <2>3, <2>4, LookGoesOn
  <2>6. reply' = NoReply
    BY <2>1 DEF Turn
  <2> QED BY <2>5, <2>6 DEF FeedState
<1> QED BY <1>4, <1>5, <1>6

LEMMA ListKeeps ==
  ASSUME WebTyped(web'), Underway(web', fetch), web'[fetch.at] # NoReply, web'[fetch.at].kind = "feed",
         ListFeed(fetch.at)
  PROVE  FeedState(web', fetch', reply')
<1>1. fetch' = NoFetch
  BY DEF ListFeed
<1>2. ListsAs(web', fetch, reply')
  BY DEF ListFeed, ListsAs, Told, TotalOf
<1>3. ToldTrue(web', reply')
  BY <1>2, ListIsTrue
<1> QED BY <1>1, <1>3 DEF FeedState

LEMMA KindsOf ==
  ASSUME NEW answer \in Answers
  PROVE  /\ answer.kind \in {"busy", "broken", "large", "other", "redirect", "page", "feed"}
         /\ answer.kind = "redirect" => answer.to \in Address
<1>1. CASE \E kind \in {"busy", "broken", "large", "other"} : answer = Short(kind)
  BY <1>1 DEF Short
<1>2. CASE \E a \in Address : answer = [Short("redirect") EXCEPT !.to = a]
  BY <1>2 DEF Short
<1>3. CASE \E h \in Hints : answer = [Short("page") EXCEPT !.hints = h]
  BY <1>3 DEF Short
<1>4. CASE \E e \in Entries : answer = [Short("feed") EXCEPT !.entries = e]
  BY <1>4 DEF Short
<1> QED BY <1>1, <1>2, <1>3, <1>4 DEF Answers

LEMMA HearKeeps ==
  ASSUME WebTyped(web'), Underway(web', fetch), reply = NoReply, web'[fetch.at] \in Answers,
         Hear(web'[fetch.at].kind)
  PROVE  FeedState(web', fetch', reply')
<1>1. fetch \in Fetch
  BY DEF Underway
<1>2. PICK kind : kind = web'[fetch.at].kind
  OBVIOUS
<1>3. Hear(kind)
  BY <1>2
<1>4. web'[fetch.at] # NoReply
  BY FeedNullsAssumption
<1>5. /\ kind \in {"busy", "broken", "large", "other", "redirect", "page", "feed"}
      /\ kind = "redirect" => web'[fetch.at].to \in Address
  BY <1>2, KindsOf
<1>7. kind \notin {"redirect", "feed"} => Over(web', fetch) /\ Spent(web', fetch.at, fetch.hops)
  BY <1>2, <1>4, SpentHere DEF Spent
<1>8. ASSUME NEW word \in Failures, Fails(word), kind \notin {"redirect", "feed"}
      PROVE  FeedState(web', fetch', reply')
  BY <1>1, <1>7, <1>8, FailsKeeps
<1>9. CASE kind \in {"busy", "broken", "large", "other"}
  <2>1. \E word \in Failures : Fails(word)
    BY <1>3, <1>9 DEF Hear, Failures
  <2> QED BY <1>8, <1>9, <2>1
<1>10. CASE kind = "redirect"
  <2>1. PICK a \in Address : a = web'[fetch.at].to
    BY <1>5, <1>10
  <2>2. Follow(a)
    BY <1>3, <1>10, <2>1 DEF Hear
  <2>3. Sends(web', fetch.at, a)
    BY <1>2, <1>4, <1>10, <2>1 DEF Sends
  <2> QED BY <2>2, <2>3, FollowKeeps
<1>11. CASE kind = "page"
  <2>1. LookInto(fetch.at)
    BY <1>3, <1>11 DEF Hear
  <2> QED BY <1>4, <1>7, <1>11, <2>1, LookKeeps
<1>12. CASE kind = "feed"
  <2>1. ListFeed(fetch.at)
    BY <1>3, <1>12 DEF Hear
  <2> QED BY <1>2, <1>4, <1>12, <2>1, ListKeeps
<1> QED BY <1>5, <1>9, <1>10, <1>11, <1>12

LEMMA FetchedKeeps == FeedInv /\ Fetched => FeedInv'
<1> SUFFICES ASSUME FeedInv, Fetched PROVE FeedInv'
  OBVIOUS
<1>1. fetch # NoFetch /\ reply = NoReply /\ Underway(web, fetch)
  BY DEF Fetched, FeedInv, FeedState
<1>2. fetch.at \in Address /\ fetch.at \notin Unfit
  BY <1>1, FetchTyped DEF Underway
<1>3. web \in [Address -> Answers \cup {NoReply}]
  BY DEF FeedInv, WebTyped
<1>4. /\ WebTyped(web') /\ Grows(web, web') /\ web'[fetch.at] \in Answers
      /\ \A u \in Unfit : web'[u] = NoReply
  <2>1. CASE web[fetch.at] = NoReply
    <3>1. PICK answer \in Answers : web' = [web EXCEPT ![fetch.at] = answer]
      BY <2>1 DEF Fetched
    <3>2. WebTyped(web') /\ web'[fetch.at] = answer
      BY <1>2, <1>3, <3>1 DEF WebTyped
    <3>3. Grows(web, web')
      BY <1>3, <2>1, <3>1 DEF Grows
    <3>4. \A u \in Unfit : web'[u] = NoReply
      BY <1>2, <1>3, <3>1, FeedBounds DEF FeedInv
    <3> QED BY <3>1, <3>2, <3>3, <3>4
  <2>2. CASE web[fetch.at] # NoReply
    <3>1. web' = web
      BY <2>2 DEF Fetched
    <3> QED BY <1>2, <1>3, <2>2, <3>1 DEF WebTyped, Grows, FeedInv
  <2> QED BY <2>1, <2>2
<1>5. FeedState(web', fetch, reply)
  BY <1>4, StateGrows DEF FeedInv
<1>6. Underway(web', fetch)
  BY <1>1, <1>5 DEF FeedState
<1>7. Hear(web'[fetch.at].kind)
  BY DEF Fetched
<1>8. FeedState(web', fetch', reply')
  BY <1>1, <1>4, <1>6, <1>7, HearKeeps
<1>9. runs' \in 0..RunsPerHour /\ pasted' \in 0..MaxRuns
  BY DEF Fetched, FeedInv
<1> QED BY <1>4, <1>8, <1>9 DEF FeedInv

(* What is said of an address that is not fetched.                          *)
RefusedAs(word, r) ==
  r = [said |-> word, at |-> NoFetch, from |-> NoFetch, listed |-> 0, total |-> 0,
       tried |-> {}, asked |-> 0]
Refusals == {"invalid", "rate limited"}

LEMMA RefusedIsTrue ==
  ASSUME NEW w, NEW word \in Refusals, NEW r, RefusedAs(word, r) PROVE ToldTrue(w, r)
<1>1. r \in Reply
  BY DEF Reply, RefusedAs, Refusals
<1>2. 0 <= (HopLimit + 1) * (TryCap + 1)
  <2>1. (HopLimit + 1) * (TryCap + 1) \in Nat
    BY Times, FeedBounds
  <2>2. PICK y \in Nat : y = (HopLimit + 1) * (TryCap + 1)
    BY <2>1
  <2> QED BY <2>2
<1>3. r.asked = 0 /\ r.said \notin {"list", "not a feed"}
  BY DEF RefusedAs, Refusals
<1> QED BY <1>1, <1>2, <1>3 DEF ToldTrue

PastedTo(a, g) == g = [at |-> a, hops |-> 0, base |-> NoFetch, left |-> <<>>, tried |-> {}, asked |-> 0]

LEMMA PastedGoesOn ==
  ASSUME NEW w, NEW a \in Address, a \notin Unfit, NEW g, PastedTo(a, g) PROVE Underway(w, g)
<1>1. <<>> \in Seq(Address) /\ 0 \in 0..HopLimit
  BY FeedBounds
<1>2. g \in Fetch
  BY <1>1 DEF PastedTo, Fetch
<1>3. First(g) /\ g.at = a
  BY DEF PastedTo, First
<1> QED BY <1>2, <1>3 DEF Underway

LEMMA PasteKeeps == ASSUME FeedInv, NEW a \in Address, Paste(a) PROVE FeedInv'
<1>1. web' = web /\ fetch = NoFetch
  BY DEF Paste
<1>2. WebTyped(web') /\ \A u \in Unfit : web'[u] = NoReply
  BY <1>1 DEF FeedInv
<1>3. runs' \in 0..RunsPerHour /\ pasted' \in 0..MaxRuns
  <2>1. runs \in 0..RunsPerHour /\ pasted \in 0..MaxRuns
    BY DEF FeedInv
  <2>2. pasted < MaxRuns /\ pasted' = pasted + 1
    BY DEF Paste
  <2>3. runs' = runs \/ (~(runs >= RunsPerHour) /\ runs' = runs + 1)
    BY DEF Paste
  <2> QED BY <2>1, <2>2, <2>3, FeedBounds
<1>4. CASE runs >= RunsPerHour
  <2>1. fetch' = NoFetch /\ ToldTrue(web', reply')
    BY <1>1, <1>4, RefusedIsTrue DEF Paste, RefusedAs, Refusals
  <2> QED BY <1>2, <1>3, <2>1 DEF FeedInv, FeedState
<1>5. CASE ~(runs >= RunsPerHour) /\ a \in Unfit
  <2>1. fetch' = NoFetch /\ ToldTrue(web', reply')
    BY <1>5, RefusedIsTrue DEF Paste, RefusedAs, Refusals
  <2> QED BY <1>2, <1>3, <2>1 DEF FeedInv, FeedState
<1>6. CASE ~(runs >= RunsPerHour) /\ a \notin Unfit
  <2>1. reply' = NoReply /\ PastedTo(a, fetch')
    BY <1>6 DEF Paste, PastedTo
  <2>2. Underway(web', fetch')
    BY <1>6, <2>1, PastedGoesOn
  <2> QED BY <1>2, <1>3, <2>1, <2>2 DEF FeedInv, FeedState
<1> QED BY <1>4, <1>5, <1>6

LEMMA FeedStep == FeedInv /\ [FeedNext]_feedVars => FeedInv'
<1> SUFFICES ASSUME FeedInv, [FeedNext]_feedVars PROVE FeedInv'
  OBVIOUS
<1>1. ASSUME NEW a \in Address, Paste(a) PROVE FeedInv'
  BY <1>1, PasteKeeps
<1>2. CASE HourOver
  <2>1. runs' \in 0..RunsPerHour
    BY <1>2, FeedBounds DEF HourOver
  <2> QED BY <1>2, <2>1 DEF HourOver, FeedInv
<1>3. CASE Fetched
  BY <1>3, FetchedKeeps
<1>4. CASE UNCHANGED feedVars
  BY <1>4 DEF feedVars, FeedInv
<1> QED BY <1>1, <1>2, <1>3, <1>4 DEF FeedNext

LEMMA FeedTypes == FeedInv => FeedTypeOK
<1> SUFFICES ASSUME FeedInv PROVE FeedTypeOK
  OBVIOUS
<1>1. fetch \in Fetch \cup {NoFetch}
  BY DEF FeedInv, FeedState, Underway
<1>2. reply \in Reply \cup {NoReply}
  BY DEF FeedInv, FeedState, ToldTrue
<1> QED BY <1>1, <1>2 DEF FeedInv, WebTyped, FeedTypeOK

LEMMA SearchedSays ==
  ASSUME FeedInv, reply \in Reply, NEW cands \in Seq(Address), Searched(web, reply, cands)
  PROVE  LET named == Places \cap Range(web[reply.from].hints)
         IN  /\ Cardinality(reply.tried) = TryCap \/ reply.tried = Places
             /\ reply.tried \subseteq named \/ named \subseteq reply.tried
             /\ \A a \in reply.tried : web[LeadsTo(a)] = NoReply \/ web[LeadsTo(a)].kind # "feed"
<1>1. PICK page, hints : page = reply.from /\ hints = web[reply.from].hints
  OBVIOUS
<1>2. page \in Address /\ web[page] # NoReply /\ WebTyped(web)
  BY <1>1 DEF Searched, FeedInv
<1>3. hints \in Seq(Address)
  BY <1>1, <1>2, HintsOf
<1>4. PlacesGood(hints, page, cands)
  BY <1>1, <1>3, PlacesSay DEF Searched
<1>5. Places = PlacesNear(hints, page)
  BY <1>1 DEF Places, PlacesNear
<1>6. reply.tried = AllOf(cands)
  BY DEF Searched, AllOf
<1>7. /\ Cardinality(reply.tried) = TryCap \/ reply.tried = Places
      /\ \/ reply.tried \subseteq Places \cap Range(hints)
         \/ Places \cap Range(hints) \subseteq reply.tried
  BY <1>4, <1>5, <1>6 DEF PlacesGood
<1>8. ASSUME NEW a \in reply.tried PROVE web[LeadsTo(a)] = NoReply \/ web[LeadsTo(a)].kind # "feed"
  <2>1. a \in Address /\ Dead(web, a)
    <3>1. PICK i \in 1..Len(cands) : a = cands[i]
      BY <1>8 DEF Searched
    <3>2. cands[i] \in Address /\ Dead(web, cands[i])
      BY DEF Searched
    <3> QED BY <3>1, <3>2
  <2> QED BY <1>2, <2>1, DeadSays DEF FeedInv
<1> QED BY <1>1, <1>7, <1>8

LEMMA FeedSays == FeedInv => FeedFound
<1> SUFFICES ASSUME FeedInv PROVE FeedFound
  OBVIOUS
<1>1. reply # NoReply => ToldTrue(web, reply)
  BY DEF FeedInv, FeedState
<1>2. ASSUME reply # NoReply, reply.said = "list", NEW entries, entries = web[reply.at].entries
      PROVE  web[reply.at].kind = "feed" /\ (reply.listed >= reply.total => Posts(entries) = DOMAIN entries)
  <2>1. /\ reply.at \in Address /\ web[reply.at] # NoReply /\ web[reply.at].kind = "feed"
        /\ reply.listed = Cardinality(Posts(entries)) /\ reply.total = Len(entries)
    BY <1>1, <1>2 DEF ToldTrue
  <2>2. /\ entries \in Seq(EntryKind)
        /\ Posts(entries) \in SUBSET (1..Len(entries)) /\ IsFiniteSet(1..Len(entries))
        /\ Cardinality(1..Len(entries)) = Len(entries)
        /\ Cardinality(Posts(entries)) \in Nat /\ Len(entries) \in Nat
    BY <1>2, <2>1, EntriesOfFeed DEF FeedInv
  <2>3. ASSUME reply.listed >= reply.total PROVE Posts(entries) = DOMAIN entries
    <3>1. PICK all, carried : all = 1..Len(entries) /\ carried = Posts(entries)
      OBVIOUS
    <3>2. /\ IsFiniteSet(all) /\ carried \in SUBSET all /\ Cardinality(carried) <= Cardinality(all)
          /\ (Cardinality(carried) = Cardinality(all) => carried = all)
      BY <2>2, <3>1, FS_Subset
    <3>3. Cardinality(carried) = Cardinality(all)
      BY <2>1, <2>2, <2>3, <3>1, <3>2
    <3>4. DOMAIN entries = 1..Len(entries)
      BY <2>2
    <3> QED BY <3>1, <3>2, <3>3, <3>4
  <2> QED BY <2>1, <2>3
<1>3. ASSUME reply # NoReply, reply.said = "not a feed", reply.from # NoFetch
      PROVE  LET named == Places \cap Range(web[reply.from].hints)
             IN  /\ Cardinality(reply.tried) = TryCap \/ reply.tried = Places
                 /\ reply.tried \subseteq named \/ named \subseteq reply.tried
                 /\ \A a \in reply.tried : web[LeadsTo(a)] = NoReply \/ web[LeadsTo(a)].kind # "feed"
  <2>1. PICK cands \in Seq(Address) : Searched(web, reply, cands) /\ reply \in Reply
    BY <1>1, <1>3 DEF ToldTrue
  <2> QED BY <2>1, SearchedSays
<1>4. reply # NoReply => reply.asked <= (HopLimit + 1) * (TryCap + 1)
  BY <1>1 DEF ToldTrue
<1>5. \A a \in Unfit : web[a] = NoReply
  BY DEF FeedInv
<1> QED BY <1>2, <1>3, <1>4, <1>5 DEF FeedFound

(* Type correctness of the feed's fetch.                                    *)
THEOREM FeedTypeCorrect == FeedSpec => []FeedTypeOK
<1>1. FeedSpec => []FeedInv
  BY FeedStart, FeedStep, PTL DEF FeedSpec
<1> QED BY <1>1, FeedTypes, PTL

(* No feed is missed and none is made up, and no address is asked that may  *)
(* not be, whatever the web answers (resolveFeed, fetchImportable).         *)
THEOREM FeedFoundHolds == FeedSpec => []FeedFound
<1>1. FeedSpec => []FeedInv
  BY FeedStart, FeedStep, PTL DEF FeedSpec
<1> QED BY <1>1, FeedSays, PTL

-----------------------------------------------------------------------------
(* The stores together: each part keeps its own invariant, whoever's step   *)
(* it is.                                                                   *)

Parts == {"sessions", "pages", "publishes", "cron", "archive", "thread", "threads", "files",
          "feed", "import"}

StoresInv ==
  /\ part \in Parts
  /\ SessInv /\ ImpInv /\ CronInv /\ ArchInv /\ ThreadInv /\ FileInv /\ FeedInv /\ PageInv

LEMMA StoresStart == StoresInit => StoresInv
<1> SUFFICES ASSUME StoresInit PROVE StoresInv
  OBVIOUS
<1>1. part \in Parts
  BY DEF StoresInit, Parts
<1>2. SessInit /\ ImpInit /\ CronInit /\ ArchInit /\ ThreadInit /\ FileInit /\ FeedInit /\ PageInit
  BY DEF StoresInit
<1> QED BY <1>1, <1>2, SessInitInv, ImpInitInv, CronInitInv, ArchStart, ThreadStart, FileStart, FeedStart,
           PageStart DEF StoresInv

(* A step of the stores is a step of one part, and the others stand still.  *)
StoreSteps ==
  /\ [SessNext]_sessVars /\ [ImpNext]_impVars /\ [CronNext]_cronVars /\ [ArchNext]_archVars
  /\ [ThreadNext]_threadVars /\ [FileNext]_fileVars /\ [FeedNext]_feedVars /\ [PageNext]_pageVars
  /\ part' = part

LEMMA StoresStepIs ==
  [StoresNext]_<<sessVars, impVars, cronVars, archVars, threadVars, fileVars, feedVars, pageVars, part>>
    => StoreSteps
<1>1. StoresNext => StoreSteps
  BY DEF StoresNext, StoreSteps, TwoPages, TwoPublishes, OneAsker, TwoAskers
<1>2. UNCHANGED <<sessVars, impVars, cronVars, archVars, threadVars, fileVars, feedVars, pageVars, part>>
        => StoreSteps
  BY DEF StoreSteps
<1> QED BY <1>1, <1>2

LEMMA StoresStep == StoresInv /\ StoreSteps => StoresInv'
  BY SessNextInv, ImpNextInv, CronNextInv, ArchStep, ThreadStep, FileStep, FeedStep, PageStep
     DEF StoresInv, StoreSteps

LEMMA StoresTyped == StoresInv => StoresTypeOK
<1> SUFFICES ASSUME StoresInv PROVE StoresTypeOK
  OBVIOUS
<1>1. SessTypeOK /\ ImpTypeOK /\ CronTypeOK
  BY DEF StoresInv, SessInv, ImpInv, CronInv
<1>2. ArchTypeOK /\ ThreadTypeOK /\ FileTypeOK /\ FeedTypeOK /\ PageTypeOK
  BY FeedTypes, FileTypes, ThreadTyped, PageTypedCorrect DEF StoresInv, ArchInv, PageInv
<1> QED BY <1>1, <1>2 DEF StoresTypeOK, StoresInv, Parts

LEMMA StoresSay == StoresInv => WholeOrSaid
  BY ThreadsSay, FileSays, FeedSays, PageSays DEF StoresInv, ArchInv, WholeOrSaid

LEMMA StoresKeep == StoresSpec => []StoresInv
<1>1. StoresInv
        /\ [StoresNext]_<<sessVars, impVars, cronVars, archVars, threadVars, fileVars, feedVars, pageVars, part>>
        => StoresInv'
  BY StoresStepIs, StoresStep
<1> QED BY <1>1, StoresStart, PTL DEF StoresSpec

(* Every table, cookie, request, tick, walk, list and entry has its type.   *)
THEOREM StoresTypeCorrect == StoresSpec => []StoresTypeOK
  BY StoresKeep, StoresTyped, PTL

(* Whatever the app reads of a repo, of a writer's threads, of an export    *)
(* file or of a feed it reads whole, or says that it did not.               *)
THEOREM WholeOrSaidHolds == StoresSpec => []WholeOrSaid
  BY StoresKeep, StoresSay, PTL
(* What each part keeps by itself it keeps in the composition too: ended    *)
(* sessions, a scheduled post's session, a deleted account, the ledger of   *)
(* imports, alerts sent before they are stamped and the day's samples.      *)
THEOREM StoresKeepTheirs ==
  StoresSpec => []( /\ EndedStaysEnded /\ KeptForSchedule /\ ClosedIsEmpty
                    /\ ImportedOnce /\ LedgerIsTrue /\ ToldBeforeStamped /\ DayIsSampled)
<1>1. StoresInv => /\ EndedStaysEnded /\ KeptForSchedule /\ ClosedIsEmpty
                   /\ ImportedOnce /\ LedgerIsTrue /\ ToldBeforeStamped
  <2> SUFFICES ASSUME StoresInv
               PROVE  /\ EndedStaysEnded /\ KeptForSchedule /\ ClosedIsEmpty
                      /\ ImportedOnce /\ LedgerIsTrue /\ ToldBeforeStamped
    OBVIOUS
  <2>1. SessInv /\ ImpInv /\ CronInv
    BY DEF StoresInv
  <2>2. ClosedIsEmpty
    BY <2>1 DEF SessInv, ClosedIsOver, ClosedIsEmpty
  <2> QED BY <2>1, <2>2, ImpInvSays DEF SessInv, CronInv
<1>2. StoresInit => SampleInv
  BY SampleInitInv DEF StoresInit
<1>3. SampleInv
        /\ [StoresNext]_<<sessVars, impVars, cronVars, archVars, threadVars, fileVars, feedVars, pageVars, part>>
        => SampleInv'
  BY StoresStepIs, SampleNextInv DEF StoreSteps
<1> QED BY <1>1, <1>2, <1>3, StoresKeep, SampleInvSays, PTL DEF StoresSpec
=============================================================================
