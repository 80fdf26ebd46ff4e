# Goldroad in TLA+

Goldroad is a publishing front end for the AT Protocol. A writer signs in with
OAuth; their posts are records in their own repo, on their own PDS; Goldroad keeps
only what the repo cannot hold: drafts, a schedule of posts to publish, sessions,
a search index, caches. It runs on Cloudflare Workers over one D1 (SQLite)
database, with one hourly cron. There is no server process and no transaction that
spans two statements: every request and every cron tick is a series of `await`s,
any number of them run at once, each may die between two awaits, and each call to a
PDS may fail with its work done or not. That is what the modules here are about.

Paths below are relative to the repository root (`src/lib/...`).

## 1. Inventory

What each part keeps, does, and talks to; what is hard about it; what makes it
correct; and the module that models it.

| Part | State | Operations | Hard, and what must hold | Module |
|---|---|---|---|---|
| **Schedule table** `lib/scheduled-posts.ts`, `db/schema.ts` | `scheduled_posts`: draft, dueAt, status, claimedAt (a lease), attempts, rkey, announce, lastError; one pending row per draft | due lookup, claim, published, failed, retry, release stale; upsert, cancel, delete by draft, delete unclaimed | Every statement is atomic, nothing else is. A row is worked on by one pass; its key never changes. | ScheduleTable |
| **Scheduled publish pass** `runScheduledPublishPass`, `lib/scheduled.ts` | none of its own | hourly: release stale leases, read due posts, claim and publish each | Passes overlap and die. No post is worked on twice at once, retried for ever or stranded. | SchedulePass |
| **Due-post publisher** `lib/scheduled-publish.ts` | none | restore the session, read the draft, look for an earlier attempt's record, publish, announce | Each verdict (ok, retry, fail) must be true of what happened. | ScheduledPublishing |
| **Stored-draft publish** `lib/publish-document.ts` | records in the writer's repo | find or make the publication, write the document, read back and replace, then clear the draft and its rows | A write whose answer is lost; a write met again by a retry; the cleanup that half fails. | ScheduledPublishing, PublicationRecord |
| **Announcements** `lib/announce-document.ts` | Bluesky posts; `bskyPostRef` on the document | read the document, post, write the ref back (compare and swap) | Posted once, noted once, and the note never undone. | ScheduledPublishing, Documents |
| **Publish requests** `routes/api.publish.ts` | none | schedule, unschedule, publish, publish now, edit, delete, announce, settings, theme, migrate, subscribe | The same rows and records as the cron, at the same moment. | one intent each in the module of what it writes |
| **Drafts** `lib/drafts.ts`, `routes/api.drafts.ts` | `drafts` | create under a cap, autosave, delete (and unschedule) | Words are never lost: not by a publish, not by a late save. | Editor, ScheduledPublishing |
| **Editor page** `routes/write.tsx` | the page's refs and timers | autosave, flush before a publish, forced save before a schedule, resume | A save under way while the form goes out; what the page takes for stored. | Editor |
| **Sessions** `lib/oauth.ts`, `lib/live-session.ts` | `oauth_kv`: sealed session, expiry, sid | sign in, refresh, read, extend for a schedule, backfill, purge, revoke | A session outlives the schedules that need it; what ended stays over. | Sessions |
| **Account deletion** `routes/api.account.delete.ts` | every table | delete the writer's rows, revoke | Nothing of the writer comes back. | Sessions |
| **Publication record** `lib/publish-document.ts`, `lib/theme.ts`, `routes/api.publish.ts` | one record in the repo | find, create, settings, theme, migrate | Two first publishes; two saves of different fields. | PublicationRecord |
| **Pictures** `lib/inline-images.ts`, `lib/share-card.ts`, `routes/api.publish.ts` | blobs on the PDS, references in drafts and records | upload, list, copy, leave out, card | A blob that no record names is let go; a draft, a retry and an edit must each keep naming it. | PostPictures, Editor |
| **Documents and search index** `routes/api.publish.ts`, `lib/search.ts` | document records; `search_documents`, backfill cursor | edit, delete, announce; index, unindex, backfill a page a step | A page read before a delete is indexed after it. | Documents |
| **Reader pages, read cache, takedown** `components/document-article.tsx`, `lib/read-cache.ts`, `lib/moderation.ts` | pages at the edge, the hide list, cached PDS addresses | render, fill, serve, purge | A stale fill after a purge; a PDS remembered from before a move. | ReaderPages |
| **Reader conversation** `lib/comments.ts` | replies at the edge | read, gate, cap, keep | A reply taken down is kept by two caches, one inside the other. | Conversation |
| **Counts** `lib/engagement.ts` | counts at the edge | batch, join by URI, keep | A batch that fails; a post that does not come back. | Engagement |
| **Subscriptions** `routes/api.publish.ts`, `lib/subscription.ts`, the control | records in the reader's repo | ask, subscribe, unsubscribe | A flaked lookup leaves two; a control that shows what is not so. | Subscriptions |
| **Import** `routes/import.tsx`, `routes/api.import.draft.ts`, `lib/import-store.ts` | one row per imported item | file, revive, note the key, clear, adopt | Never here twice, never lost, through a publish or a deletion meanwhile. | Imports |
| **Import pages** `routes/import.tsx`, `routes/import_.threads.tsx` | what is offered, ticked, filed, said | pick, run, stop, say | A row's answer is lost, two rows are one item, the drafts run out. | ImportPage |
| **Feed search** `routes/api.import.ts`, `lib/import.ts` | an hourly budget | redirects, hints, usual places, entries | An address that leads elsewhere, or nowhere in time. | FeedFetch |
| **Export files** `routes/import.tsx`, `lib/import-*.ts`, `lib/zip-safety.ts` | the page's steps | read entries under caps, check the ledger, pick | Nothing of a file goes missing unsaid. | ExportFiles |
| **Threads** `lib/threads.ts`, `routes/api.threads*.ts` | a cached list, an hourly budget | page the feed, find the roots, assemble one | A page lost halfway; a partial list kept. | Threads |
| **Archive reading** `lib/atproto.ts` (`listRecordPages`) | none | page a collection, shrink a page that is too large | A listing that is short without saying so. | Archive |
| **Report alerts** `lib/reports.ts` | `reports.notifiedAt` | select, post to a webhook, stamp | Never stamped unposted. | CronPasses |
| **Follower snapshots** `lib/follower-snapshots.ts` | one row per writer and day | choose a batch, fetch, record, prune | Everyone's turn comes. | CronPasses |
| **Cron orchestration** `lib/scheduled.ts` | none | runs the jobs of a tick | Ticks overlap and die. | SchedulePass, Sessions, CronPasses |
| **Stats** `routes/api.stats.ts`, `lib/stats*.ts`, `routes/stats.tsx` | four cached sections | query, join, sum, sort; ask anew per range | A number of another range, of another post, or of nothing known; a section that fails alone. | StatsNumbers, StatsPage |
| **Dashboard** `routes/dashboard.tsx`, `lib/dashboard.ts` | the URL's outcome | read three lists apart, forms on rows, notices | A list that could not be read shown as empty; an outcome told twice, or of something else. | PostsManager |
| **Overview** `routes/home.tsx` | none | read drafts, records and publication apart, ask for stats | A welcome for a writer who has posts. | HomePage |
| **Writer's archive and feed** `routes/@{$handle}.index.tsx`, `.rss.xml.ts`, `lib/archive.ts` | pages at the edge | list, shrink, search, feed | A post taken down listed again, or an unread archive kept as an empty one. | WriterArchive |
| **Former handles** `lib/handle-history.ts`, `lib/atproto.ts` | `handle_history`; handles at the edge | note after a publish, verify, redirect | A handle that has a new holder. | FormerHandles |
| **Reader forms** `components/reader-email-capture.tsx`, `turnstile.tsx`, `routes/index.tsx`, `routes/report.tsx` and their endpoints | addresses, launch list, reports | challenge, submit, insert, answer | A single-use token; an answer that is lost; no JavaScript. | ReaderForms |
| **Settings page** `routes/settings.tsx`, `components/theme-editor.tsx` | the form | load, pick and square an icon, colours, save | A page that posts every field whole over a record it read earlier. | SettingsPage |
| Schedule times, rendering, embeds | none | parse, compute, render | see section 6 | none |

Who meets whom. The cron pass and the writer's requests share the schedule table,
the drafts table and the writer's repo, and nothing orders them; a pass calls the
publisher, which calls the stored-draft publish, which a request ("Publish now")
calls too; the editor's Publish button writes to the repo by a path of its own
(`publishDocument`). This meeting is where most of the code's comments argue about
safety, and it is modelled in most detail. A publish then writes to the search index,
the import ledger and the caches, best effort; a page reads the repo through the
caches; the import page files drafts that the editor opens; a schedule extends the
session; a settings page saves the record that a publish attaches to, and a dashboard
shows what all of them left. Each meeting that can go wrong is inside one module; where
one side of it is another module's matter, it is a step done whole (a row of PostsManager
is published in one action, ScheduledPublishing has the steps).

`PROJECT.json` lists the hazards, each at the line where it bites, with the
properties that cover it.

## 2. The modules

```
ScheduleTable        the table and its statements       lib/scheduled-posts.ts
SchedulePass         the queue: passes, clock, writer   runScheduledPublishPass, scheduled.ts
ScheduledPublishing  publishes, step by step            scheduled-publish, publish-document,
   |                                                    announce-document, api.publish, api.drafts
   +-- implements SchedulePass (QueueSpec) and PublishedOnce (PublishesOnce)

MCRecords  --+-- Documents          records, index, backfill     api.publish, search.ts
             +-- ReaderPages        the reading page, its cache  document-article.tsx, read-cache.ts
             +-- PublicationRecord  the publication              api.publish, publish.ts
             +-- Subscriptions      a reader's subscription      subscribe-control.tsx, api.subscription
             +-- Editor             one tab, with pictures       write.tsx, api.drafts, drafts.ts
             +-- Conversation       the replies under a post     comments.ts
             +-- Engagement         the counts beside one        engagement.ts

MCStores   --+-- Sessions           session, cookies, deletion   oauth.ts, live-session.ts
             +-- Imports            the import ledger            api.import.draft, import-store.ts
             +-- ImportPage         the two import pages         import.tsx, import_.threads.tsx
             +-- FeedFetch          a feed found by its address  api.import.ts, import.ts
             +-- ExportFiles        export files                 import.tsx, import-*.ts
             +-- CronPasses         alerts, follower samples     reports.ts, follower-snapshots.ts
             +-- Archive            listRecordPages              atproto.ts
             +-- Threads            Bluesky threads              threads.ts, api.threads*

MCSurfaces --+-- Editor             two tabs on one's drafts
             +-- StatsNumbers       the numbers                  api.stats, stats.ts, engagement.ts
             +-- StatsPage          the page's requests          stats.tsx, api.stats
             +-- PostPictures       pictures, cover, card        inline-images.ts, publish.ts
             +-- PostsManager       the dashboard                dashboard.tsx
             +-- HomePage           the overview                 home.tsx
             +-- SettingsPage       the settings                 settings.tsx, theme-editor.tsx
             +-- WriterArchive      a writer's page and feed     @{$handle}.index.tsx, rss
             +-- FormerHandles      links to a former handle     handle-history.ts
             +-- ReaderForms        addresses and reports        turnstile.tsx and three forms

MCSchedulePass, MCScheduledPublishing: symmetry for TLC.

SchedulePass_proofs          the statements of the table, the queue
ScheduledPublishing_proofs   types, that publishing implements the queue and PublishedOnce, and
                             what is under a key
Documents_proofs             documents, index and backfill
Records_proofs               the other parts of MCRecords but the editor, and their composition
Editor_proofs                the editor
Stores_proofs                all parts of MCStores, and their composition
StatsNumbers_proofs          sums and sorted rows, and the numbers of the stats page
Surfaces_proofs              the other parts of MCSurfaces but the editor, and their composition
```

**ScheduleTable** has no variables. Each statement is an operator from a table to the
table it leaves: `ClaimDuePost`, `MarkFailed`, `ReleaseForRetry`,
`ReleaseStaleClaims`, `UpsertSchedule` with its partial-index conflict, the DELETEs.
Their WHERE clauses are operators of their own (`Claimable`, `Stale`,
`UnclaimedOf`). SQL's NULL in a comparison is spelt out where it decides (`Stale`).
`SelectDuePosts` is the *set* of answers the lookup may give: posts due at the same
instant come in any order, since the tie-breaker is a random UUID.

**SchedulePass** has a process per running pass. `pc` is where it is; `passNow` is
the `now` it read once at the start and uses for everything; `queue` is what the due
lookup returned and may be stale when claimed; `job` is the claimed post; `verdict`
what its publish reported. One action per `await`: `ReleaseStale`, `ReadDue`,
`Claim` / `Contended` / `ClaimErrs`, `Report`. The publish is abstract here: it
lands (`Land`: and clears the rows, best effort) and reports (`Answer`). A D1 call
that rejects is a disjunct of its action; for the claim, the rejection comes before
or after the update. `Die` ends a pass anywhere. The writer's requests are
`Schedule` (also a move), `Cancel`, `CancelForDraft`, `TakeOver`. The clock counts
hours; `fired` says that this hour's tick has been fired; more may be.
`lost`, `torn` and `reserved` are history.

**ScheduledPublishing** replaces the abstract publish by its steps. `att[p]` is where
a publisher `p` (a pass or a request) is: restore the session, read the draft, probe
the repo, resolve, create, read back, replace, clean up, announce, note. What it read
is in the attempt (`ver`, `seen`), so that it can be stale. `repo` is the writer's
repo: external, one record per key, refusing to create over a record and comparing
`swapRecord`. A network fault is refused, unreachable, or done with the answer lost.
Requests: autosave, schedule (two steps: the checks, then the upsert), unschedule,
delete the draft, "Publish now" (release, look for a pass in flight, load, publish)
and the editor's Publish. Two deletes that the code starts together
(`Promise.allSettled`) happen in either order (`todo`).

**PublishedOnce** is what the writer is promised, without passes, leases, keys or
attempts: a draft goes live once, under one key; what is live may be updated but
never disappears; a draft is cleared only once it is live, or by the writer.

**Editor** is a set of tabs and the drafts handler behind them. A tab runs one event at
a time (a keystroke, the timer, an answer, a button) and keeps what the page's refs
keep: the document, whether it is dirty, whether drafts are tracked, the save under way
(`savingRef`) and what is to follow it (`goal`: the flush of a publish, the forced save
of a schedule). The handler's steps are its awaits (`UpdateDraft`, `CountDrafts`,
`InsertDraft`), so the cap's count and insert race. Any request or answer may be lost.

**Documents** has the requests on documents that are already live: edit, delete,
announce, with the read, the `swapRecord` write and the index write as steps, and the
backfill that any number of dashboard tabs drive page by page under one cursor.

**ReaderPages** is one document's page, per data center and per spelling of its address:
the loader's awaits (hide list, the writer's PDS, the record), the put that may come
after a purge, expiry, the purges by a write and by the takedown hook, and a writer who
moves to another PDS while its address is cached.

**PublicationRecord** is the read-then-write of every request that touches the one
publication record: the first publish, which makes one, and settings, theme and move,
which put it without `swapRecord`. `crossed` is history: a request wrote over one it
had not read; `SettingsKept` is what holds otherwise, and the hazard list says where it
does not.

**Subscriptions** is the control on open pages, the state it asked for, and the lookup
and write behind a press. **Conversation** and **Engagement** are the two readings of
the network that are kept: the replies are kept at the edge and again inside the page,
the counts one entry per announcement and joined to posts by URI, batch by batch.

**Sessions** is the `oauth_kv` row of one writer with the statements that touch it, one
each: extend (only a live row, only forward), refresh (an update, never an insert),
sign-in (an upsert that keeps a live sid), the read that drops a lapsed row by key a
statement after it read it, backfill, purge, revocation, and the account's deletion.
Requests under way keep going; `early` is history, for those that began before a
deletion.

**Imports** is the filing of an item, step by step (lookup, count, insert or revive,
draft), under pages that walk their items one request at a time, and what a publish, a
deletion, an adoption and a discard do to the ledger row. **ImportPage** is the pages
themselves: what they offer and tick, the run, its end, and what each row says of itself
when answers are lost or guids repeat. **FeedFetch** is the search behind the page: the
redirects and their limit, the feeds a page names, the usual places, the tries and the
hourly budget, the entries of the feed found. **ExportFiles** is the other source: the
candidates of each of the four formats, as sets of places in the file read from the
first to the last, the inflation under a cap per entry and a budget for all, the failures,
the ledger check and the choice (the newest posts the drafts have room for: their times are
left out, so it is any that many).

**CronPasses** is a tick through the alert and the sample passes; ticks overlap, die, and
lose calls. **Archive** is the walk over a collection's pages while its owner writes to
it. **Threads** is the walk over a feed, the hourly budget, the list kept at the edge and
the assembly of one thread.

**StatsNumbers** computes the figures of `/api/stats` from the rows its upstreams return
while readers come, days pass and posts change; **StatsPage** has the requests, the
ranges and the sections, each cached and failing on its own. **PostPictures** follows a
picture from its upload or import through drafts, publishes, copies and edits to the
records that name it, with a PDS that in time lets go of what none names.

**PostsManager** is the dashboard: a loader whose three reads fail apart, the three lists,
the buttons, each a form post that leaves the page and returns to a URL that tells the
outcome, and the effect that reads that URL once and strips it. **HomePage** is the
overview with reads that fail apart and stats that arrive late. **SettingsPage** is the
form and the record under it: an icon's pick and processing race the save, and the saves
put together what the page has and what the record has by then.

**WriterArchive** settles, in the loader's order, a takedown list, a directory, an index
and a listing, any of which may fail, refuse, or be remembered from before a move; what
is kept at the edge of the answer; and the feed beside it. **FormerHandles** is a network
whose handles change hands, the cache of resolved handles, the note a publish takes in its
`finally`, and the lookup of an old link with its verification. **ReaderForms** is a form,
the single-use challenge, the endpoint's checks and insert, and answers that are lost.

Abstractions common to all. A draft id determines its writer (ids are UUIDs), so
`did` is left out. Content is a save number or a keystroke's number. A record's cid is
its content. Error sentences are names. Times are ticks; the limits keep their order
(`TickLife` and `StaleAge`, `TouchTime` and `IdleTime`). A PDS, the AppView, the
browser and the platform are external: they are modelled as the code uses them, and
`map` marks those definitions so. Variables whose comment begins with *history* are read
by nothing in the system; they remember what a property speaks of.

Operators whose comment begins with *Slip* are not part of the model: they are how
the definition that follows could plausibly have been got wrong, and each property
is shown to notice one of them (`mutants` in `PROJECT.json`).

## 3. The runs

| Run | Instance | Shows |
|---|---|---|
| `queue_safety` | 2 passes, 2 drafts, 2 rows, 2 keys, 2 posts a pass, 2 attempts, 1 fault, 4 hours | `LeaseExclusive`, `OneKeyPerRow`, `AttemptCeiling`, `FailedForCause` |
| `queue_live` | 1 pass, 2 drafts, 1 post a pass, 8 hours, 1 fault, `FairSpec` | `Settles`: every scheduled post is some hour published, failed or cancelled |
| `passes_only` | 2 passes, 1 draft, 2 saves, 1 crash, 1 net fault; the writer saves, schedules, moves, deletes | `PublishesOnce` (implements PublishedOnce), `NeverGoesBack`, `DraftGoneIsTrue`, `AnnouncesUnnoted` |
| `writer_and_pass` | 1 pass, 1 request at a time, every operation of the writer, 1 crash, 1 net fault | `QueueSpec` (implements SchedulePass), `WordsKept`, `ReleasedIsOwned`, `RefKept` |
| `surfaces` | the parts of MCSurfaces, one at a time | `WordsStored`, `CompletedStaysGone`, `CapSlack` (editor: 2 tabs, cap 1, 2 keystrokes, 1 lost call, 2 pages opened); `PicturesLast`; `ShownIsTrue` (numbers, stats page, dashboard, overview, settings, archive, links, forms) |
| `records` | the seven parts of MCRecords, one at a time | `SearchIsTrue`, `NothingUndone` (documents); `PurgedIsFresh`, `MissingIsTrue`, `PagesSettle` (pages); `OnePublication`, `SettingsKept`; `ControlIsTrue`; `PicturesKept`, `EditsGetSaved` (editor); `ReadsAreTheirs` (replies, counts) |
| `stores` | the parts of MCStores, one at a time | `EndedStaysEnded`, `KeptForSchedule`, `ClosedIsEmpty` (sessions); `ImportedOnce`, `LedgerIsTrue`; `ToldBeforeStamped`, `DayIsSampled`; `WholeOrSaid` (archive, threads, files, feed, import pages) |
| `crash_loop` | the real limits (3 attempts, 2-hour lease) | *violated:* `AttemptsBounded` |
| `moved_mid_attempt` | the real limits, no fault | *violated:* `FailedRowWasTried` |
| `again_after_failure` | the real limits | *violated:* `OneRecordPerDraft` |
| `saved_mid_publish` | the real limits, no fault | *violated:* `LastSavePublished` |
| `orphan_draft` | 1 tab, nothing lost | *violated:* `NoOrphan` |

**Parts.** The components of MCRecords, of MCStores and of MCSurfaces do not touch each
other's state, so a product of them would add states and show nothing. `part`, chosen in the
first state, says which of them moves; the others stand still. Where one component needs
two instances of different shape it is two parts: the imports as two picker pages over
two items (`pages`) and as two publishes of one item at once (`publishes`); the threads
as one page over four posts and as two pages, which share a budget, over two; the editor
with two drafts and everything a tab does (`writing`), and with three, which the cap is
about, when no tab submits or deletes (`racing`). What a part shows is one conjunct of
the run's property (`ShownIsTrue`, `WholeOrSaid`), stated in the part's own module. Each
run has one type invariant, of the part that moves. The type
invariants are by part. The symmetry of `stores` permutes ticks and two of the writers,
that of `surfaces` the tabs and two of the drafts; no other constant of it is symmetric,
since the parts restrict single members of the sets by name.

Why the bounds are enough. Two passes are what a lease is about; a third adds no
interleaving of two on one row. Two drafts and a cap of one or two make a queue that
is left behind and one whose second post waits (and goes stale) behind the first. Two
rows are a failed row and its successor, or two drafts' rows; two keys are one each.
With two attempts the first is not the last, and the last is reached within the
clock's bound. A lease of one hour with passes that live for one hour is the edge
`TickLife = StaleAge` that the code's limits stay inside of, and the four hours hold
a claim, the stale release and a second claim. In `queue_live` eight hours hold two
posts, two attempts each, and a dead lease for each. One fault of each kind may come
anywhere; the violation runs show what takes more. The clock stops at `MaxClock`:
there the system does nothing more unless the writer or a fault does, so a liveness
property holds only because it was met before.

For the rest. Two tabs and a cap of one are a race past the cap. Two requests at once on
one record are every crossing of two; the number of requests (2 to 4) is what it takes
for a third to meet the result. Two edges and two spellings of a page's address are a
purge that reaches one and not another. Times kept of one tick, in a clock of two, have
an entry that is written, served and run out. In the sessions a clock of four with an
idle time of two holds a schedule that extends a session and a slide that would not
reach as far; two sids are a session and the one that replaces it. Two ticks a day and
two reports against a batch of one overlap, leave one behind and pass the day's end.
Five records against pages of three and a response that carries four shrink a page once
and end by the page limit. Four posts, a thread of two, pages of one, two of them, are a
thread that spans pages and one that is cut. Three entries against a cap of two and a
budget of three reach every reason an entry is left out.

For the surfaces. A page of one row with two pieces has a next page; four
forms, reloads and turns are an outcome told, read, and met again by Back. One read that fails,
with three reads, is every list unread beside two that are. Three record keys against an
archive page of two and a feed of two are a full page, an older one and a post past the
feed; of the records the newest carries the searched word in its title, the second may
be untitled, too wide, or carry it in its body. Two handles and two accounts, with two changes, are a
handle given up and taken by another. Three tokens and three submits with two mishaps are
a token spent unheard, a retry and a duplicate. Two swatches and two touches of the
settings are an icon picked and one picked over it, or picked and taken off. Three
pictures against a cap of two on pictures are one too many. Four days and a range of two
have days before it and the range before that; two rows of days and one of sources are
lists that are cut.
In `stores` the import page has two lines and `MaxAside = 1`: one thing happens to an
item elsewhere, which is what a run may meet; `MaxTrouble = 1` is one lost or refused call
in the cron's passes, each of which makes at most three.

Deadlock is checked in the runs of the queue and of publishing, where a pass can always
be fired or take its next step. The others stop by their bounds on requests, keystrokes
and faults with nothing under way, which is no deadlock of the system, so their
configurations say `CHECK_DEADLOCK FALSE`.

**Fairness.** `FairSpec` assumes that the clock advances, that the cron fires each
hour, and that a pass that has not died takes its next step: the platform's schedule
(`"0 * * * *"` in `wrangler.jsonc`) and an event loop. Nothing is assumed of the
writer, and nothing of faults. That the clock waits for a running pass (`Advance`) is
the platform's limit on the run time of an invocation: a pass that exceeds it is
killed, which is `Die`.

`PageFairness` assumes that a reader's request that has begun goes on and that a stored
page's time runs out (`max-age`); nothing of writers, purges or readers' arrivals.
`EdFairness` assumes that a timer that is set fires, that an answer that came is taken,
and that the handler goes on with a request it has. Typing is not assumed to stop, nor
requests to get through.

**What "torn" excludes.** A writer may move a post while a pass is publishing it. The
move clears the lease (`upsertSchedule` sets `claimed_at` to null), the row can be
claimed again, and two passes can then be publishing it. The code accepts this and
relies on the reserved key: both write to one record. So `LeaseExclusive`,
`NeverGoesBack`, `AnnouncesUnnoted` and others are stated for rows that were not
moved while held, and `OneKeyPerRow` and `PublishesOnce`, the protection that
remains, for all.

The other exemptions are of the same kind, and each is a race the code accepts, named in
its comments or in the hazard list: `murky` (an index row whose write was lost or
crossed), `late` and `owed` (a page put by a render that a purge overtook, or under a
spelling no purge names), `crossed`, `doubled` (a subscribe that went ahead blind),
`raced` (two runs that revive one item at once), `astray` (a row written after the
deletion, or a schedule after its session's end).

## 4. Where the code does not do what it says

Five runs end in a violation, each of something a comment or the interface says; the
quotations are under `findings`.

1. `crash_loop`: the number of attempts is compared with the ceiling only when an
   attempt reports. An attempt that dies does not report, the stale release hands the
   row back, and neither the due lookup nor the claim looks at the count.
2. `moved_mid_attempt`: the bookkeeping finds its row by id only. A move keeps the
   id, so an attempt from before the move fails, releases or deletes the moved row.
3. `again_after_failure`: a failed row keeps the key its write may have landed under;
   scheduling the draft again inserts a row without it. If the write had landed, the
   draft goes live a second time.
4. `saved_mid_publish`: a save between the publisher's read of the draft and its
   delete of the draft is in neither.
5. `orphan_draft`: `saveDraft` replaces `saveInFlightRef` with every run, also with one
   that refuses at once because a save is under way. A publish that waits for the ref
   does not wait for the first autosave, whose draft then outlives it.

The same model shows more, not kept as runs. With `Ops = {"schedule",
"publishNow"}` and no fault `OneRecordPerDraft` fails when a pass has cleared the rows
and not yet the draft and "Publish now" finds no row in flight; with `Ops =
{"schedule", "publishForm"}`, when the editor's Publish looks the schedule up before
the claim reserves a key. A second announcement is possible when the
first was posted and its note failed; the model states what does hold
(`AnnouncesUnnoted`). A row can fail with "session lost" though
an earlier attempt is live. A post moved to a later hour after the due lookup and
before its claim is published at the earlier one.

The parts of `stores` and `surfaces` had to leave out, or state more weakly, what the code
does against its own words or a reader's expectation. None is a run of its own; each is
visible in the module named.

- *Dashboard* (PostsManager). "Cancel" on a row that is no longer there reports that the
  post is a draft again, though it may be live. The first-run page looks neither at the
  cursor nor at an unread queue, so a page past the last post says "No posts yet". The
  notices of a deletion, a cancel or an error are not among the parameters stripped and
  return with Back or a reload.
- *Stats* (StatsNumbers, StatsPage). Over all time the cap on day rows cuts off the newest
  days. Views and sources come from one query but are cached apart, and can be of different
  moments. A post deleted from Bluesky is said not to have been answered for.
- *Import* (ImportPage). Two rows of one guid end as "1 of 2"; a row that failed is counted
  with those skipped; a lost status call is said to be an unreadable file.
- *Pictures* (PostPictures). Past the limit of a post's pictures one loses its reference,
  and with it in time its blob. An imported draft published by the schedule or by "Publish
  now" keeps pointing at the pictures' old home. After the retry without missing pictures,
  the index gets the record as it was before it.
- *Archive* (WriterArchive). The page and its title search ask the takedown list for the
  writer only, so a post taken down by itself stays listed there; the feed and the indexed
  search leave it out, and the feed's comment speaks of the same policy. A last page
  exactly full offers an empty older page. A writer whose repo has moved, and whose old
  PDS refuses, is once shown "Nothing published yet".
- *Forms* (ReaderForms). Once a token has come, the form's promise stays resolved: after a
  failed submit a quick retry goes out before the new token and is refused. A report
  whose answer is lost is stored twice by the retry.
- *Settings* (SettingsPage). A file that is no image, picked after a good one, empties the
  input and leaves the good one's preview: the save keeps the old icon. Two picks that
  overlap can leave the preview of the one not in the input. A page opened before another
  tab's save posts its own fields whole over it.
- *Former handles* (FormerHandles). Two publishes on either side of a transfer can note the
  handle's holders in the wrong order, and for ten minutes a resolved handle may be the
  former holder's.

## 5. What is proved

For any sets of drafts, rows, keys, passes, requests, browsers, ticks, posts, pieces and
pictures, any caps, leases, expiries and clocks, any number of faults:

| Theorem | Says |
|---|---|
| `TypeCorrect` | `Spec => []TypeOK` |
| `KeysHold`, `LeasesHold`, `CeilingHolds`, `FailuresHaveCause` | `Spec =>` always `OneKeyPerRow`, `LeaseExclusive`, `AttemptCeiling`, `FailedForCause` |
| `PubTypeCorrect` | `PubSpec => []PubTypeOK` |
| `ImplementsQueue`, `PublishingKeepsTheQueue` | `PubSpec => QueueSpec`; the four invariants of the queue hold of `PubSpec` |
| `RefsKept` | `PubSpec => RefKept` |
| `WordsKeptHolds`, `ReleasedIsOwnedHolds` | `PubSpec => []WordsKept`, `PubSpec => []ReleasedIsOwned` |
| `NeverGoesBackHolds`, `AnnouncesUnnotedHolds`, `DraftGoneIsTrueHolds` | the three properties of `PubSpec`, if `"publishForm" \notin Ops` |
| `PublishesOnceHolds` | `PubSpec => PublishesOnce` (implements PublishedOnce), if only passes publish and a draft keeps one row |
| `SearchHolds`, `SearchIsTrueHolds`, `NothingUndoneHolds` | documents, index and backfill, alone and in the composition |
| `RecTypeCorrect`, `OnePublicationHolds`, `SettingsKeptHolds` | the publication record |
| `PurgedIsFreshHolds`, `MissingIsTrueHolds`, `ControlIsTrueHolds` | the reading page, the subscription control |
| `HiddenStaysHiddenHolds`, `CountsAreTheirsHolds`, `ReadsAreTheirsHolds` | the replies, the counts; both, in the composition |
| `RecordsTypeHolds` | `RecordsSpec => []RecordsTypeOK` |
| `RecordsKeepTheirs`, `RecordsStepsKeepTheirs` | `RecordsSpec` has the other properties of its parts |
| `EdTypeHolds`, `PicturesKeptHolds`, `WordsStoredHolds`, `CompletedStaysGoneHolds`, `CapSlackHolds` | the editor, with any number of tabs |
| `SessTypeCorrect`, `EndedStaysEndedHolds`, `KeptForScheduleHolds`, `ClosedIsEmptyHolds` | the session and the deletion of the account |
| `ImpTypeCorrect`, `ImportedOnceHolds`, `LedgerIsTrueHolds` | the import ledger |
| `CronTypeCorrect`, `ToldBeforeStampedHolds`, `DayIsSampledHolds` | the report alerts and the follower samples |
| `ImportSaysTrueHolds`, `ArchiveWholeHolds`, `ThreadsWholeHolds`, `FileAccountedHolds`, `FeedFoundHolds` | the conjuncts of `WholeOrSaid`: the import page, the reading of a repo, threads, export files, the search for a feed |
| `PageTypeCorrect`, `ArchTypeCorrect`, `ThreadTypeCorrect`, `FileTypeCorrect`, `FeedTypeCorrect` | the types of the same |
| `StoresTypeCorrect`, `WholeOrSaidHolds` | `StoresSpec => []StoresTypeOK`, `StoresSpec => []WholeOrSaid`: all parts of MCStores in their composition |
| `StoresKeepTheirs` | `StoresSpec` has the other properties of its parts |
| `PicturesLastHolds` | the pictures of a post |
| `NumbersAreTheirsHolds`, `ManagerIsTrueHolds`, `OverviewIsTrueHolds`, `ArchiveIsTrueHolds`, `LinksLeadHomeHolds`, `FormsAreTrueHolds`, `SettingsAreTrueHolds` | the conjuncts of `ShownIsTrue` of the stats page, the dashboard, the overview, the archive, the former handles, the forms and the settings |
| `SurfacesKeepTheirs` | `SurfacesSpec` has the properties of the editor and of the pictures |
| `SurfacesTypeCorrect`, `ShownIsTrueHolds` | `SurfacesSpec => []SurfacesTypeOK`, `SurfacesSpec => []ShownIsTrue`: all parts of MCSurfaces in their composition, the stats page's numbers among them |

**SchedulePass_proofs** begins with a lemma per statement of ScheduleTable: what it does to
the rows and that it leaves a table. It then builds one inductive invariant on top of
another:

- `TypeOK` is inductive as it stands because it includes that a pass in its loop has
  a post to handle, and that it has a job exactly while in flight: `Head(queue[t])`
  and `job[t].id` would be arbitrary values without them.
- `KeyInv` is for the keys. `OneKeyPerRow` alone is not inductive: a fresh key is new
  only if every reserved key is among the minted ones, and a new row has no reserved
  key only if its id was never minted.
- `LeaseInv` is for the leases. A running pass is younger than `TickLife`, and a row
  it works on, unless torn, carries the pass's own `now` as its lease. A row with a
  lease cannot be claimed, so the only way in is the stale release, which frees
  leases older than another pass's `now - StaleAge`; with `TickLife <= StaleAge` no
  running pass's lease is that old.
- `AttemptsInv` is for the counts: a row in nobody's hand has an attempt left beyond those
  lost; one in hand may just have had its last one counted; a pass knows the count of the
  row it holds; a verdict that is not "ok" has a reason. It needs the leases: without them
  another pass's claim could change the count under an attempt.

**ScheduledPublishing_proofs** goes through the steps of a publisher. `PubInv` adds to
the types that a publisher has a key before it turns to the repo and has seen a
record where it is about to replace one. Each step is then one of `SchedulePass` (a
`Land`, an `Answer`, a `Cancel`...) or leaves the queue alone. The refinement mapping
is the identity on the queue's variables: the detailed module carries them.

The second half of **ScheduledPublishing_proofs** is about what is under a key. Its base
(`BaseInv`) puts every publisher where its pass or request can be. On top of it:

- `Owners`: whose a key is. A key that was minted is of one draft for good, whatever becomes
  of the row; so what is live under a row's key is that row's draft, and a publisher that
  cleans up has put it there (`CleanLive`). Hence `WordsKept`.
- `ReleasedKeys`: a row that "Publish now" has released is nobody's, and passes that still
  work under its key hold a row that was moved. It stays so since no row gets a minted key.
- `OwnKeys`: where no editor publishes, requests never share a key. With the two above, a key
  has one publisher at a time unless its row was moved; so what a publisher has read is not
  overtaken (`SavesOf`, `NewerSave`, `Unnoted`), and a row that fails as "draft gone" has
  nothing live (`GoneReported`, `GoneFailed`).
- For `PublishesOnce`, that requests hold no key (`NoRequestKey`), and a mapping under which
  what is live is the versions under a draft's keys (`LiveOf`).

The hypotheses are those of the runs. `NoForm` (`"publishForm" \notin Ops`) and
`PassesPublish` with one row per draft are met by `passes_only`; without them the code
does otherwise, as `again_after_failure` and the paragraph after the findings show.

**Documents_proofs**: `MergeInv` has what a request under way read and who may still publish
(`PublishAlone`); `NothingUndone` follows. For search, `RowSound` says for each key who may
still correct the row, and that the row is the record's otherwise; `WalkSound` says which
documents a walk has left behind it, and that these have a row.

**Records_proofs** has the other parts of MCRecords, and the composition.

- The publication: `RequestsKnow` says what a request under way may rely on though others ran
  since it read: a record is never taken away, so what was there when it began is there; one
  that means to make a record began when there was none. That "the oldest record" exists when
  there is any is the well-foundedness of the numbers. `SettingsInv` adds that keys come in
  order, that nothing is wanted before there is a record, and that uncrossed requests make one.
- The reading page: a render under way is as fresh as what it read unless a purge or a move
  excuses it (`RenderFresh`, `RenderSound`).
- The control: uncrossed, there is one record, and a call under way knows it (`CallSound`);
  what a control shows is what the last answer said.
- The replies: the bound is split over the two caches. A row of a kept conversation that was
  taken down at time `h` is kept until `h + RepliesTTL` at most, since it was up when it was
  read; a page rendered from it before then, until `PageTTL` later.
- The counts: `lastTrue` never goes back and is now for whatever is up; what is kept was right
  while its listing was under way, and what is listed was right when it was kept.
- The composition's steps are steps of each part or leave it alone.

**Editor_proofs**: `EditorInv` is what a page is like in itself (`PageWell`: the shape of its
state, of the save under way and of the goal behind it; that the pictures of a body are
referenced; that the words on their way are carried by the save or the form) and what the
table has of it (`PageTrue`: what it takes for stored is stored, an answer on its way is true,
the form it sent is stored, its draft is known for its own, a completed one is gone). A
page's own step keeps both; of the others, each row is as it was, is gone, or was
written by another tab, which the property excuses (`Stood`). `CapInv` counts the rows and
the tabs that have counted and not yet inserted: together they are fewer than the cap and
the tabs.

**Stores_proofs** has the parts of MCStores one after the other, then all of them.

- Sessions. `SessInv` adds to the three properties that session ids are spent in
  order (`SidsSpent`), that a schedule between its extension and its insert still has the
  session it extended (`ExtendedFor`), that a session without an id schedules nothing, and
  for deletion that whatever is still under way afterwards began before it
  (`ClosedIsOver`), and that between the deletion of the rows and that of the session
  nothing is written unnoticed (`Closing`).
- Imports. `ImpInv`: a run that found an entry found one without a key, whose draft is gone for
  good by the time it revives it (`RunKnows`); a draft and a key are one item's (`MintedOnce`);
  and of every item on which no runs raced the ledger names the draft that is filed and the
  post that is up, or a publish that has written it is about to say so (`ItemIsKnown`).
- The cron's passes. A tick about to stamp holds a batch that was taken (`StampedIsHeard`).
  For the samples `SampleInv` counts: of a day, the ticks that are done are the hours struck
  less those wasted and those on their way; each that is done has added `SampleCap` writers
  less the unreadable ones, or has everyone. The property's arithmetic is the lemma on
  `Enough`.
- Numbers. What the models count, order and sum is data, and a recursive definition of it is
  beyond the prover. Two ways around that are taken. Induction over numbers is done once, for
  a *set* of them (`Counting`, from the well-foundedness of the order), and each use names the
  set of numbers for which what it needs is so: a least and a greatest element exist
  (`LeastOne`, `GreatestOne`), a finite set of numbers has an element of each rank (`Ranked`)
  and a first few of each length (`FewFacts`), a sum over a set is found and is a number
  (`SumFound`, `SumIsNat`), a walk of so many hops has a value of its type (`Walked`,
  `Climbed`). Or a recursive function is given by its equation, and the lemma is about any
  function with that equation.
- The import page. `PageInv`: before a run the page has done nothing (`PageWhere`); what was
  filed is of a row the run is done with, and was ticked (`OwnTrue`); a row that is not
  settled is still to come or the one under way (`SaidTrue`); and of each row that says
  something it is known why (`RowsAreTrue`).
- Reading a repo. `ArchInv` adds to `ArchiveWhole` what a walk under way holds (`WalkTrue`):
  it has got every record that was there throughout and is above its cursor, and none
  below.
- Threads. `ThreadInv`: a request has seen of the feed what was up all along, down to its cursor
  (`AskTrue`); a list, kept or shown, has every thread among that, or says it was cut
  (`ListTrue`); of those who found room in the budget each may still spend, so the reads are
  over it by less than the askers (`BudgetTrue`). A draft of a thread is a walk down the
  opener's own replies (`SpineIsWalk`, `LevelIs`, `AssembledWhole`): for any depth no smaller
  than the cap it is the thread, or says what is left.
- Export files. `FileInv`: of the places read so far each is listed, failed, skipped or
  nameless, one for one (`Accounted`), whatever the limits; what is listed is a post.
- The search for a feed. `FeedInv`: a run looks at the address pasted or at the m-th place to
  try, and those before led to no feed (`SearchAt`); they never will, since what
  an address answers is settled once it is asked (`DeadGrows`); it has asked no more than the hops of m places; and an answer
  given is true (`ToldTrue`). `LeadsToIs` and `DeadSays` relate the run's hops to `LeadsTo`,
  which the property is stated with.
- The composition. `StoresInv` is the conjunction of the eight invariants. A step of
  MCStores is a step of each part or leaves it alone (`StoresStepIs`).

**Surfaces_proofs** has a part of MCSurfaces at a time.

- Pictures (`PicInv`): what a body shows from the writer's repo is listed where it was
  uploaded, or by the live record, or was over the cap of one (`Carried`); the counts a publish
  carries are of what went missing since it was asked for and of what stayed where it was
  (`JobTrue`).
- The stats page (`StatInv`): the results of a request are of its own range and days, and so
  is what is kept at the edge under a range's key.
- The dashboard (`ManInv`): pieces go out once each, in the order of their ranks; a list is
  true of every piece nobody stirred since it was read; an outcome is of a piece that went
  out, and says what its publish said; an outcome not yet read is ahead of the page or behind
  it in the history, never both, and has not been captured (`EventsTrue`).
- The overview (`HomeInv`): a list is true of the pieces untouched since, and one that did
  not fill its page is all there was.
- The archive (`ArchInv`): a page kept, or being read, is of its place: its posts are older
  than its cursor and no older than the next page's, with every titled post between that nobody
  touched while it was read, unless the PDS failed (`PagesTrue`, `ListPageTrue`).
  Who walks has seen all that lies above where they are, and nothing below it (`WalkTrue`); what
  a request has learnt is so of the posts not touched since (`VisitTrue`).
- Former handles (`HandleInv`): whoever is noted, resolved or about to be answered with has
  held the handle.
- Forms (`FormsInv`): an entry is on the way from the page that sent it, which still waits,
  or the page is gone (`EntryTrue`); the ledger has what was inserted, once for an address.
- Settings (`SetInv`): the page's fields are those of the record it was opened on but for
  what the writer meant to change (`FieldsTrue`); unless a pick failed or ran into another, at
  most one icon is being prepared, and input and removal say what was meant (`IconTrue`).
- The composition. `SurfacesInv` is the conjunction of the parts' invariants, the editor's and
  the numbers' among them; a step of MCSurfaces is a step of each part or leaves it alone
  (`SurfacesStepIs`). The editor's three properties and the pictures' hold there too
  (`SurfacesKeepTheirs`).

**StatsNumbers_proofs** first says what the sums and the sorted rows are, whatever the numbers.

- A sum over a set is, in the library, a function on the set's subsets that takes out one chosen
  element at a time. Its equation is all that is used: the set of subsets for which a fact is
  so holds the empty one, and any one whose smaller ones it holds, so it holds them all
  (`BySubsets`). Hence a sum is found and a number (`SumFound`, `SumIsNat`), may start with
  any element (`AnyFirst`), adds up over disjoint sets (`SumAdds`), and may be taken kind by
  kind (`SumByKind`): the total of a table's rows is the total of what they count.
- That rows can be put in order (`Sortable`) goes the same way, so that the choice of
  an order in `SortedCells` is of something that exists, with every row in it once
  (`AllInRows`).
- `NumInv`: what was viewed is a bag of finitely many kinds, each counted so many times, and
  so is what a request was told of it. The five conjuncts of `NumbersAreTrue` then follow for any
  request, one at a time: the total and the one before it (`Tiles`), the sources (`Sources`), the
  charts' points and breaks (`Gaps`), the likes of a cut or unanswered request (`Partial`), and
  the table of posts (`TableHolds`).

Assumptions. Bounds are numbers, and caps and times kept are positive (the
`...Assumption` of each module). `LeaseAssumption` is `TickLife <= StaleAge`, the code's own
argument for its two hours; `KeyAssumption` is that requests and claims never mint the same
key, since both are random; `EditorAssumption` and `CronPassesAssumption` have finite sets of
tabs, writers and ticks; `ReasonAssumption` has the reasons the code gives among the values of
`Reason`. `ThreadsAssumption` has a finite set of askers and `1 < ThreadCap <= Depth`: the
code asks for a thread as deep as the posts it keeps (`THREAD_DEPTH`, `MAX_THREAD_POSTS`;
threads.ts:61, 66). `NumbersAssumption` has something happen at all, and that "gone" and
"unknown" are no counts. The others say that NULL, "none" and the names of outcomes are not
values of the type beside them (`NullAssumption`, `NullRecordAssumption`,
`NoAttAssumption`, `NoRowAssumption`, `NoJobAssumption`,
`NoPubAssumption`, `AnswersAssumption`, `NoCallAssumption`, `NoTickAssumption`,
`NoRecordAssumption`, `NoCountAssumption`, and the `...NullsAssumption` of Documents, Editor,
Imports, StatsPage, PostsManager, FormerHandles, ReaderForms, SettingsPage, Archive, Threads,
FeedFetch and ImportPage): they are about
how the model writes such a value. TLC evaluates every one of them in the runs.

Only model-checked: `Settles`, `PagesSettle` and `EditsGetSaved`, since liveness is out of the
prover's reach, as is ENABLED. Every invariant and action property of the passing runs is
proved, each for the specification its run checks; those of `PubSpec` that need a hypothesis,
under that hypothesis. The library's induction takes an operator as a parameter, which no
backend can instantiate; the modules proved about therefore have no RECURSIVE operator, and the
inductions here are over a set: of numbers (`Counting`) or of the subsets of a finite set
(`BySubsets`).

## 6. What is not modelled

The map covers about three tenths of the implementation's lines. The modules stand for what
changes state, waits, races or fails, and for what a page says of it. Most of the rest is
markup and layout (the routes' and components' JSX, the public marketing pages, the
charts), generated code (`routeTree.gen.ts`), and functions from a value to a value:

- **Rendering** (`lib/markdown-html.ts`, `json-ld.ts`, the feed's XML, related posts, heads):
  they turn a record into text and keep nothing.
- **Schedule times** (`lib/schedule-time.ts`): calendar arithmetic on one value, whose
  cases are the JavaScript engine's time zones.
- **Embeds, alt texts, the decoding and drawing of pictures and share cards**: parsing and
  encoding, with no state of their own.
- **The OAuth exchange** (state rows, DPoP keys, token endpoints): the library's. What the
  code does with a session is modelled.
- **The parsing of posts into Markdown** and of entries into drafts: which entries are read,
  refused or counted is modelled, what they turn into is not.
- **Self-check and backup heartbeat** of the cron, error tracking and analytics: they read,
  count and alert.
- **The search's ranking** (FTS), the sorting and search within the dashboard's loaded rows.
- On the settings page: the data export (a read), the dialog of an account's deletion (its
  handler is in Sessions), the theme's preview and its contrast warnings. On the archive:
  the grouping by month.

Limits of the modules. The AppView's answer to one conversation read is one step;
answers to replies are not read. A list of threads longer than `MAX_THREADS_LISTED` is
cut without saying so, and an export's entries without an id are dropped without being
counted: the properties leave both out, since the code does not promise otherwise. The
ten tables of an account's deletion are one flag, the schedules another. In
ScheduledPublishing the publication is found before it begins; the first one is
PublicationRecord's. A second tab that publishes a draft published meanwhile does so
again: Editor reaches it, and nothing in the code says it should not.
