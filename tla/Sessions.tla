------------------------------ MODULE Sessions ------------------------------
(***************************************************************************)
(* One writer's session: the row the OAuth library's tokens are kept in,   *)
(* the cookies that name it, and what slides, ends, purges and outlives    *)
(* it: sign-ins, requests, token refreshes, sign-outs, schedules, the      *)
(* hourly cron, and the deletion of the account.                           *)
(*                                                                         *)
(* Every step is one D1 statement; the steps of requests interleave.       *)
(***************************************************************************)
EXTENDS Integers, FiniteSets

CONSTANTS
  Browser,
  Cron,      \* the scheduled handler, which publishes with the session
  IdleTime,  \* SESSION_IDLE_MS
  TouchTime, \* TOUCH_AFTER_MS
  MaxTime,   \* bound: the clock
  MaxSids,   \* bound: sign-ins
  MaxJobs,   \* bound: requests
  NoSession, NoCookie, NoJob, Unset

Worker == Browser \cup {Cron}
Sid == 0..MaxSids
Expiry == 0..(MaxTime + 2 * IdleTime)
Due == 0..MaxTime

ASSUME SessionsAssumption ==
  /\ {IdleTime, MaxTime, MaxSids, MaxJobs} \subseteq Nat \ {0}
  /\ TouchTime \in 0..IdleTime /\ Cron \notin Browser /\ Unset \notin Expiry

VARIABLES
  session, \* the oauth_kv row
  cookie,  \* each browser's cookie
  sids,    \* session ids handed out
  now,
  due,     \* the last pending schedule's due time; 0 when none is pending
  stored,  \* whether any of the account's other rows are there
  job,     \* each worker's request
  jobs,    \* requests started
  ended,   \* history: session ids whose row was deleted or lapsed
  closed,  \* history: the account was deleted and not signed in to since
  astray   \* history: see KeptForSchedule and ClosedIsEmpty

sessVars == <<session, cookie, sids, now, due, stored, job, jobs, ended, closed, astray>>

(* Rows from before sids carry 0, the null; so do their cookies.            *)
SessionRow == [sid: Sid, expires: Expiry \cup {Unset}]
Cookie == [sid: Sid, until: Expiry]

(* at: the statement the job is about to run.  due: a schedule's time.      *)
(* sid: the session it extended.  early: history, it began before the       *)
(* account was deleted.                                                     *)
Job == [kind: {"signin", "use", "schedule", "logout", "close"},
        at: {"slide", "get", "drop", "set", "sid", "write", "extend", "upsert", "clear", "delete"},
        due: Due, sid: Sid, early: BOOLEAN]

SessInit ==
  /\ session \in {NoSession, [sid |-> 0, expires |-> Unset]}
  /\ cookie = [b \in Browser |->
       IF session = NoSession THEN NoCookie ELSE [sid |-> 0, until |-> IdleTime]]
  /\ sids = 0 /\ now = 0 /\ due = 0 /\ stored = FALSE
  /\ job = [w \in Worker |-> NoJob]
  /\ jobs = 0
  /\ ended = {} /\ closed = FALSE /\ astray = {}

LargerOf(a, b) == IF a > b THEN a ELSE b

Lapsed == session # NoSession /\ session.expires # Unset /\ session.expires <= now
Alive == session # NoSession /\ ~Lapsed

(* Slip: idle time is counted from now and the due time together. *)
SummedFloor == now + due + IdleTime

(* sessionExpiryFloor *)
Floor == LargerOf(now, due) + IdleTime

Begin(w, kind, at, d) ==
  /\ job[w] = NoJob /\ jobs < MaxJobs
  /\ jobs' = jobs + 1
  /\ job' = [job EXCEPT ![w] = [kind |-> kind, at |-> at, due |-> d, sid |-> 0, early |-> FALSE]]

At(w, at) == job[w] # NoJob /\ job[w].at = at
Goes(w, at) == job' = [job EXCEPT ![w].at = at] /\ UNCHANGED jobs
Ends(w) == job' = [job EXCEPT ![w] = NoJob] /\ UNCHANGED jobs

(* The row goes; whoever held its session id is signed out.                 *)
RemoveSession ==
  /\ session' = NoSession
  /\ ended' = IF session = NoSession THEN ended ELSE ended \cup {session.sid}

Extended(until) == [session EXCEPT !.expires = until]

-----------------------------------------------------------------------------
(* Reading a session.                                                       *)

(* readLiveSessionDid's answer. *)
Accepted(b) ==
  /\ cookie[b] # NoCookie /\ now < cookie[b].until
  /\ Alive /\ session.sid # 0 /\ session.sid = cookie[b].sid

NeedsSlide == session.expires = Unset \/ session.expires < now + IdleTime - TouchTime

(* A request that uses the tokens; one that schedules a post (d is its due  *)
(* time); one that deletes the account.                                     *)
StartRequest(b) ==
  /\ Accepted(b)
  /\ \/ Begin(b, "use", IF NeedsSlide THEN "slide" ELSE "get", 0)
     \/ \E d \in (now + 1)..MaxTime : Begin(b, "schedule", "extend", d)
     \/ Begin(b, "close", "clear", 0)
  /\ UNCHANGED <<session, cookie, sids, now, due, stored, ended, closed, astray>>

(* extendSessionRow: only a live row, and only forward. *)
ExtendRow(until) ==
  session' = IF Alive /\ (session.expires = Unset \/ session.expires < until)
             THEN Extended(LargerOf(until, Floor)) ELSE session

Slide(w) ==
  /\ At(w, "slide")
  /\ ExtendRow(now + IdleTime)
  /\ Goes(w, "get")
  /\ UNCHANGED <<cookie, sids, now, due, stored, ended, closed, astray>>

(* D1Store.get, at restore: a lapsed row is deleted by its key, a statement *)
(* later.  Otherwise the tokens may be refreshed before they are used.      *)
GetSession(w) ==
  /\ At(w, "get")
  /\ CASE session = NoSession -> Ends(w)
       [] Lapsed -> Goes(w, "drop")
       [] OTHER -> Goes(w, "set") \/ Goes(w, "write")
  /\ UNCHANGED <<session, cookie, sids, now, due, stored, ended, closed, astray>>

DropLapsed(w) ==
  /\ At(w, "drop")
  /\ RemoveSession /\ Ends(w)
  /\ UNCHANGED <<cookie, sids, now, due, stored, closed, astray>>

(* Slip: a refresh writes the row it read, whether or not it is there.      *)
RefreshUpserts ==
  IF session = NoSession THEN [sid |-> sids, expires |-> Floor]
  ELSE Extended(LargerOf(session.expires, Floor))

(* D1SessionStore.set outside sign-in: an update of a live row. *)
Refreshed ==
  IF ~Alive THEN session
  ELSE Extended(IF session.expires = Unset THEN Floor ELSE LargerOf(session.expires, Floor))

SetRefreshed(w) ==
  /\ At(w, "set") /\ job[w].kind # "signin"
  /\ session' = Refreshed
  /\ Goes(w, "write")
  /\ UNCHANGED <<cookie, sids, now, due, stored, ended, closed, astray>>

(* A job that began before an account's deletion was through. *)
Overtaken(w) == job[w].early \/ \E b \in Browser : At(b, "delete") /\ job[b].kind = "close"

(* What the request was for: rows of ours beside the writer's records; the  *)
(* cron's publish settles the schedule.                                     *)
WriteRows(w) ==
  /\ At(w, "write")
  /\ stored' = TRUE
  /\ due' \in (IF w = Cron THEN {0} ELSE {due})
  /\ astray' = IF Overtaken(w) THEN astray \cup {"close"} ELSE astray
  /\ Ends(w)
  /\ UNCHANGED <<session, cookie, sids, now, ended, closed>>

-----------------------------------------------------------------------------
(* Signing in and out.                                                      *)

(* Any browser, at any time; the callback's token exchange is behind it. *)
SignIn(b) ==
  /\ sids < MaxSids
  /\ Begin(b, "signin", "set", 0)
  /\ UNCHANGED <<session, cookie, sids, now, due, stored, ended, closed, astray>>

(* A session id is replaced only when there is none or it has lapsed. *)
KeepsSid == session.sid # 0 /\ ~Lapsed

SetSignedIn(b) ==
  /\ At(b, "set") /\ job[b].kind = "signin" /\ sids < MaxSids
  /\ sids' = sids + 1
  /\ session' =
       IF session = NoSession THEN [sid |-> sids', expires |-> Floor]
       ELSE [sid |-> IF KeepsSid THEN session.sid ELSE sids',
             expires |-> IF session.expires = Unset THEN Floor
                         ELSE LargerOf(session.expires, Floor)]
  /\ closed' = FALSE
  /\ Goes(b, "sid")
  /\ UNCHANGED <<cookie, now, due, stored, ended, astray>>

(* readSessionRowSid, and the cookie signed with it. *)
SetCookie(b) ==
  /\ At(b, "sid")
  /\ cookie' = [cookie EXCEPT ![b] =
       IF session = NoSession \/ session.sid = 0 THEN @
       ELSE [sid |-> session.sid, until |-> now + IdleTime]]
  /\ Ends(b)
  /\ UNCHANGED <<session, sids, now, due, stored, ended, closed, astray>>

(* readSessionToEnd: only the session the cookie names is ended. *)
SignOut(b) ==
  /\ cookie[b] # NoCookie
  /\ IF session # NoSession /\ session.sid = cookie[b].sid
     THEN Begin(b, "logout", "delete", 0) /\ UNCHANGED cookie
     ELSE cookie' = [cookie EXCEPT ![b] = NoCookie] /\ UNCHANGED <<job, jobs>>
  /\ UNCHANGED <<session, sids, now, due, stored, ended, closed, astray>>

(* revoke(), which may fail, and deleteOAuthSessionForDid. *)
DeleteSession(b) ==
  /\ At(b, "delete")
  /\ RemoveSession
  /\ cookie' = [cookie EXCEPT ![b] = NoCookie]
  /\ closed' = (closed \/ job[b].kind = "close")
  /\ job' = [w \in Worker |->
       IF w = b \/ job[w] = NoJob THEN NoJob
       ELSE [job[w] EXCEPT !.early = @ \/ job[b].kind = "close"]]
  /\ UNCHANGED <<sids, now, due, stored, jobs, astray>>

(* The row cannot be deleted: a sign-out clears its cookie all the same, an  *)
(* account's deletion is refused.                                           *)
DeleteFails(b) ==
  /\ At(b, "delete")
  /\ cookie' = [cookie EXCEPT ![b] = IF job[b].kind = "logout" THEN NoCookie ELSE @]
  /\ Ends(b)
  /\ UNCHANGED <<session, sids, now, due, stored, ended, closed, astray>>

-----------------------------------------------------------------------------
(* Schedules, the account's deletion, and the cron.                         *)

(* Slip: the session is left as it is. *)
ExtendNothing(d) == UNCHANGED session

ExtendFor(d) == ExtendRow(d + IdleTime)

(* scheduleDraft: the session is made to outlive the due time, then the row *)
(* is written.                                                              *)
ExtendForSchedule(b) ==
  /\ At(b, "extend")
  /\ ExtendFor(job[b].due)
  /\ job' = [job EXCEPT ![b].at = "upsert",
                        ![b].sid = IF Alive THEN session.sid ELSE 0]
  /\ UNCHANGED <<cookie, sids, now, due, stored, jobs, ended, closed, astray>>

UpsertDue(b) ==
  /\ At(b, "upsert")
  /\ due' = job[b].due
  /\ astray' = astray \cup (IF Overtaken(b) THEN {"close"} ELSE {})
                      \cup (IF Alive /\ session.sid = job[b].sid THEN {} ELSE {"schedule"})
  /\ Ends(b)
  /\ UNCHANGED <<session, cookie, sids, now, stored, ended, closed>>

Unschedule ==
  /\ due # 0 /\ \E b \in Browser : Accepted(b)
  /\ due' = 0
  /\ UNCHANGED <<session, cookie, sids, now, stored, job, jobs, ended, closed, astray>>

(* Slip: the schedules are forgotten. *)
ClearedDrafts == stored' = FALSE /\ UNCHANGED due

(* The ten deletes; jobs under way may write after them.                    *)
ClearedRows == stored' = FALSE /\ due' = 0

ClearRows(b) ==
  /\ At(b, "clear")
  /\ ClearedRows
  /\ job' = [w \in Worker |->
       IF job[w] = NoJob THEN NoJob
       ELSE IF w = b THEN [job[w] EXCEPT !.at = "delete"]
       ELSE [job[w] EXCEPT !.early = TRUE]]
  /\ astray' = astray \ {"close"}
  /\ UNCHANGED <<session, cookie, sids, now, jobs, ended, closed>>

CronPublish ==
  /\ due # 0 /\ due <= now
  /\ Begin(Cron, "use", "get", 0)
  /\ UNCHANGED <<session, cookie, sids, now, due, stored, ended, closed, astray>>

(* backfillSessionExpiry, purgeExpiredOauthKv *)
BackfillExpiry ==
  /\ session # NoSession /\ session.expires = Unset
  /\ session' = Extended(Floor)
  /\ UNCHANGED <<cookie, sids, now, due, stored, job, jobs, ended, closed, astray>>

PurgeExpired ==
  /\ Lapsed
  /\ RemoveSession
  /\ UNCHANGED <<cookie, sids, now, due, stored, job, jobs, closed, astray>>

ClockTicks ==
  /\ now < MaxTime
  /\ now' = now + 1
  /\ ended' = IF session # NoSession /\ session.expires # Unset /\ session.expires <= now'
              THEN ended \cup {session.sid} ELSE ended
  /\ UNCHANGED <<session, cookie, sids, due, stored, job, jobs, closed, astray>>

SessNext ==
  \/ \E b \in Browser : StartRequest(b) \/ SignIn(b) \/ SetSignedIn(b) \/ SetCookie(b)
       \/ SignOut(b) \/ DeleteSession(b) \/ DeleteFails(b) \/ ExtendForSchedule(b) \/ UpsertDue(b) \/ ClearRows(b)
  \/ \E w \in Worker : Slide(w) \/ GetSession(w) \/ DropLapsed(w) \/ SetRefreshed(w) \/ WriteRows(w)
  \/ Unschedule \/ CronPublish \/ BackfillExpiry \/ PurgeExpired \/ ClockTicks

SessSpec == SessInit /\ [][SessNext]_sessVars

-----------------------------------------------------------------------------
SessTypeOK ==
  /\ session \in SessionRow \cup {NoSession}
  /\ cookie \in [Browser -> Cookie \cup {NoCookie}]
  /\ sids \in Sid /\ now \in 0..MaxTime /\ due \in Due /\ stored \in BOOLEAN
  /\ job \in [Worker -> Job \cup {NoJob}]
  /\ jobs \in 0..MaxJobs
  /\ ended \subseteq Sid /\ closed \in BOOLEAN /\ astray \subseteq {"schedule", "close"}

(* A session that was signed out, lapsed or was replaced stays over: no     *)
(* refresh that finishes late, slide, sign-in elsewhere or cron step makes  *)
(* a row its cookies are accepted for.                                      *)
EndedStaysEnded == Alive /\ session.sid # 0 => session.sid \notin ended

(* The session a post was scheduled with is there, unless the writer signs  *)
(* out, until its due time and IdleTime past it (a schedule written after   *)
(* the session it extended was ended has nothing of its own to keep).       *)
KeptForSchedule ==
  Alive /\ session.expires # Unset /\ due # 0 /\ "schedule" \notin astray =>
    session.expires >= due + IdleTime

(* Of a deleted account nothing is left, and nothing comes back but what a  *)
(* request already under way writes.                                        *)
ClosedIsEmpty ==
  closed /\ "close" \notin astray => session = NoSession /\ ~stored /\ due = 0
=============================================================================
