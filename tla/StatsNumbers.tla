----------------------------- MODULE StatsNumbers -----------------------------
(***************************************************************************)
(* The writer's numbers: how /api/stats makes its four sections of the     *)
(* rows its upstreams return, and what the stats page makes of those, while *)
(* readers come, days pass and posts are published, announced and liked.   *)
(*                                                                         *)
(* The days are asked for first; everything else is read when the answer   *)
(* is put together, after whatever happened meanwhile.                      *)
(***************************************************************************)
EXTENDS Integers, FiniteSets, FiniteSetsExt, Sequences, SequencesExt

CONSTANTS
  Domain,       \* referring domains
  OtherSite,    \* those of them in no named bucket
  LastStatPost, \* bound: posts are 1..LastStatPost, newest last
  FinalDay,     \* bound: the last day
  RangeDays,    \* RANGE_DAYS of a range with an end
  DayRowCap,    \* MAX_DAY_ROWS
  RowCap,       \* MAX_REFERRER_ROWS
  EnoughViews,  \* MIN_VIEWS_FOR_SOURCES
  PostBatch,    \* MAX_GET_POSTS_BATCH
  BatchBudget,  \* MAX_ENGAGEMENT_BATCHES
  MaxHappened,  \* bound: views, readings, posts, announcements, likes
  NoPost, NoReading, NotShared, Gone, Unknown, NoInquiry

ASSUME NumbersAssumption ==
  /\ OtherSite \subseteq Domain
  /\ {RangeDays, DayRowCap, RowCap, PostBatch, BatchBudget, MaxHappened} \subseteq Nat \ {0}
  /\ {LastStatPost, FinalDay, EnoughViews} \subseteq Nat
  /\ Gone \notin Nat /\ Unknown \notin Nat

Day == 0..FinalDay
StatPost == 1..LastStatPost
Path == 0..LastStatPost  \* 0 is the publication's own page
RangeKind == {"fixed", "all"}

VARIABLES
  today,    \* the day, UTC
  viewed,   \* the pageviews counted, a bag: their day, referring domain and path
  reading,  \* the follower count read on each day
  earned,   \* each post's likes: NoPost, NotShared, Gone or how many
  dated,    \* each post's day of publication
  inquiry,  \* the request under way: range, day, and the views there were
  happened  \* events so far

numVars == <<today, viewed, reading, earned, dated, inquiry, happened>>

NumInit ==
  /\ today = 0 /\ inquiry = NoInquiry
  /\ viewed = EmptyBag
  /\ reading = [d \in Day |-> NoReading]
  /\ \/ earned = [p \in StatPost |-> NoPost] /\ happened = 0
     \/ earned = [p \in StatPost |-> 0] /\ happened = 1  \* posts of before count as one event
  /\ dated = [p \in StatPost |-> 0]

-----------------------------------------------------------------------------
(* Meanwhile.                                                               *)

Happen == happened < MaxHappened /\ happened' = happened + 1

View(domain, path) ==
  /\ Happen /\ (path \in StatPost => earned[path] # NoPost)
  /\ viewed' = viewed (+) SetToBag({<<today, domain, path>>})
  /\ UNCHANGED <<today, reading, earned, dated, inquiry>>

(* The day's sample, once a day. *)
Sample(n) ==
  /\ Happen /\ reading[today] = NoReading
  /\ reading' = [reading EXCEPT ![today] = n]
  /\ UNCHANGED <<today, viewed, earned, dated, inquiry>>

Post(p) ==
  /\ Happen /\ earned[p] = NoPost /\ \A q \in StatPost : q < p => earned[q] # NoPost
  /\ earned' = [earned EXCEPT ![p] = NotShared] /\ dated' = [dated EXCEPT ![p] = today]
  /\ UNCHANGED <<today, viewed, reading, inquiry>>

(* Announced, liked, and its announcement deleted. *)
Share(p) ==
  /\ Happen
  /\ \/ earned[p] = NotShared /\ earned' = [earned EXCEPT ![p] = 0]
     \/ earned[p] \in Nat /\ \E n \in {earned[p] + 1, Gone} : earned' = [earned EXCEPT ![p] = n]
  /\ UNCHANGED <<today, viewed, reading, dated, inquiry>>

NextDay ==
  /\ today < FinalDay /\ today' = today + 1
  /\ UNCHANGED <<viewed, reading, earned, dated, inquiry, happened>>

(* GET: the range and the day are fixed, and the day query answers. *)
AskDays ==
  /\ inquiry = NoInquiry
  /\ \E range \in RangeKind : inquiry' = [range |-> range, day |-> today, counted |-> viewed]
  /\ UNCHANGED <<today, viewed, reading, earned, dated, happened>>

Reckoned ==
  /\ inquiry # NoInquiry /\ inquiry' = NoInquiry
  /\ UNCHANGED <<today, viewed, reading, earned, dated, happened>>

NumNext ==
  \/ \E domain \in Domain, path \in Path : View(domain, path)
  \/ \E n \in 1..2 : Sample(n)
  \/ \E p \in StatPost : Post(p) \/ Share(p)
  \/ NextDay \/ AskDays \/ Reckoned

-----------------------------------------------------------------------------
(* Windows and rows.                                                        *)

(* Slip: the windows share a day. *)
OverlappingWindow(range, day) ==
  IF range = "all" THEN [days |-> 0..day, previous |-> {}]
  ELSE [days |-> day - RangeDays + 1..day, previous |-> day - 2 * RangeDays + 1..day - RangeDays + 1]

(* rangeWindow: there is no previous all time. *)
RangeWindow(range, day) ==
  IF range = "all" THEN [days |-> 0..day, previous |-> {}]
  ELSE [days |-> day - RangeDays + 1..day, previous |-> day - 2 * RangeDays + 1..day - RangeDays]

(* Slip: no day before the windows is asked for. *)
WindowFloor(range, day) == IF range = "all" THEN 0 ELSE day - 2 * RangeDays + 1

(* queryFloorDay *)
QueryFloor(range, day) == IF range = "all" THEN 0 ELSE day - 2 * RangeDays

Sum(count, over) == MapThenSumSet(LAMBDA v : count[v], over)

(* The views of a set of days, of domains and of paths. *)
ViewsIn(count, days, domains, paths) ==
  Sum(count, {v \in DOMAIN count : v[1] \in days /\ v[2] \in domains /\ v[3] \in paths})

(* buildDailyViewsQuery, mapDayRows: a row a day that had a view, oldest    *)
(* first, so many of them.                                                  *)
DayRows(count, floor) ==
  LET views(d) == ViewsIn(count, {d}, Domain, Path)
      days     == {d \in Day : d >= floor /\ views(d) > 0}
  IN  [d \in {d \in days : Cardinality({e \in days : e <= d}) <= DayRowCap} |-> views(d)]

(* buildReferrerQuery, mapDomainRows: the domains with most views; which of  *)
(* two that tie is PostHog's to say.                                        *)
DomainRows(count, days) ==
  LET views(s) == ViewsIn(count, days, {s}, Path)
      seen     == {s \in Domain : views(s) > 0}
  IN  {[s \in kept |-> views(s)] : kept \in
         {kept \in SUBSET seen :
            /\ Cardinality(kept) = Min({RowCap, Cardinality(seen)})
            /\ \A s \in kept, t \in seen \ kept : views(s) >= views(t)}}

(* buildStatsQuery, mapPathRows *)
PathRows(count, days) ==
  LET views(p) == ViewsIn(count, days, Domain, {p}) IN
  [p \in {p \in Path : views(p) > 0} |-> views(p)]

-----------------------------------------------------------------------------
(* Sections, of an inquiry.                                                 *)

Unavailable == [status |-> "unavailable"]
RowsOf(i) == DayRows(i.counted, QueryFloor(i.range, i.day))
WindowOf(i) == RangeWindow(i.range, i.day)
SumOf(rows, days) == Sum(rows, DOMAIN rows \cap days)

(* viewsSection *)
ViewsSection(i) ==
  LET rows   == RowsOf(i)
      window == WindowOf(i)
  IN  [status     |-> IF rows = <<>> THEN "empty" ELSE "ok",
       total      |-> SumOf(rows, window.days),
       previous   |-> SumOf(rows, window.previous),
       comparable |-> /\ SumOf(rows, window.previous) > 0
                      /\ Min(DOMAIN rows) <= Min(window.previous),
       series     |-> [d \in DOMAIN rows \cap window.days |-> rows[d]],
       paths      |-> PathRows(viewed, window.days)]

(* bucketForReferrer *)
Bucket(domain) == IF domain \in OtherSite THEN "other" ELSE domain

(* Slip: the domains past the cap are dropped. *)
BucketRows(rows, total) ==
  [b \in {Bucket(s) : s \in DOMAIN rows} |-> Sum(rows, {s \in DOMAIN rows : Bucket(s) = b})]

(* bucketReferrers: what has no row is of other sites too. *)
BucketReferrers(rows, total) ==
  LET tail == Max({0, total - Sum(rows, DOMAIN rows)}) IN
  [b \in {Bucket(s) : s \in DOMAIN rows} \cup (IF tail > 0 THEN {"other"} ELSE {}) |->
     Sum(rows, {s \in DOMAIN rows : Bucket(s) = b}) + IF b = "other" THEN tail ELSE 0]

(* sourcesSection, of some rows the referrer query may return. *)
SourcesSection(i, domains) ==
  LET total == SumOf(RowsOf(i), WindowOf(i).days) IN
  IF total = 0 THEN [status |-> "empty", total |-> 0]
  ELSE IF total < EnoughViews THEN [status |-> "insufficient_history", total |-> total]
  ELSE [status |-> "ok", total |-> total, buckets |-> BucketReferrers(domains, total)]

(* snapshotSeries, followersSection *)
FollowersSection(i) ==
  LET days == {d \in WindowOf(i).days \cap Day : reading[d] # NoReading} IN
  IF days = {} THEN [status |-> "empty"]
  ELSE IF Cardinality(days) = 1
    THEN [status |-> "insufficient_history", current |-> reading[Max(days)], on |-> Max(days)]
  ELSE [status  |-> "ok", current |-> reading[Max(days)], on |-> Max(days),
        net     |-> reading[Max(days)] - reading[Min(days)],
        missing |-> Max(days) - Min(days) + 1 - Cardinality(days),
        series  |-> [d \in days |-> reading[d]]]

(* The announced posts of a range, newest first, as many as the budget lets *)
(* ask for, and the batches they are asked for in.                          *)
Announced(i) ==
  {p \in StatPost : earned[p] \notin {NoPost, NotShared} /\ dated[p] \in WindowOf(i).days}
Newer(posts, p) == Cardinality({q \in posts : q > p})
InBudget(i) == {p \in Announced(i) : Newer(Announced(i), p) < PostBatch * BatchBudget}
BatchOf(i, p) == Newer(Announced(i), p) \div PostBatch
Batches(i) == {BatchOf(i, p) : p \in InBudget(i)}

(* Slip: a post whose announcement is gone is counted. *)
CountedAnyway(i, answered) == {p \in InBudget(i) : BatchOf(i, p) \in answered}

CountedPosts(i, answered) == {p \in InBudget(i) : BatchOf(i, p) \in answered /\ earned[p] # Gone}

(* fetchEngagementBatches, engagementSection: some of the batches answer. *)
EngagementSection(i, answered) ==
  LET counted == CountedPosts(i, answered) IN
  IF InBudget(i) = {} THEN [status |-> "empty"]
  ELSE IF answered = {} THEN Unavailable
  ELSE [status  |-> "ok",
        total   |-> Sum(earned, {p \in counted : earned[p] \in Nat}),
        counted |-> Cardinality(counted), requested |-> Cardinality(InBudget(i)),
        posts   |-> [p \in InBudget(i) |->
                       IF BatchOf(i, p) \in answered THEN earned[p] ELSE Unknown]]

-----------------------------------------------------------------------------
(* The page.                                                                *)

(* Slip: a day with no row is a zero whichever the series. *)
PlotZeros(series, missing) ==
  [d \in Min(DOMAIN series)..Max(DOMAIN series) |-> IF d \in DOMAIN series THEN series[d] ELSE 0]

(* chartWindow, densifySeries: a point a day from the first row to the last. *)
Plot(series, missing) ==
  [d \in Min(DOMAIN series)..Max(DOMAIN series) |->
     IF d \in DOMAIN series THEN series[d] ELSE missing]

(* seriesSummary and the caption: the days the line breaks on, and how many *)
(* are said to be missing.                                                  *)
Broken(points) == {d \in DOMAIN points : points[d] = NoReading}

(* The line is drawn of two readings or more; of fewer there is a sentence. *)
Drawn(series) == Cardinality(DOMAIN series) >= 2

(* StatCards: a number, a dash with its reason, and what it is compared to. *)
ViewsCard(section) ==
  IF section.status = "unavailable" THEN "failed"
  ELSE IF section.total = 0 THEN "none"
  ELSE IF section.comparable THEN "compared" ELSE "alone"

LikesCard(section) ==
  IF section.status = "unavailable" THEN "failed"
  ELSE IF section.status = "empty" THEN "unshared" ELSE "counted"

(* joinMetricsToRows: a cell for every post the loader listed. *)
ViewsCell(section) ==
  [p \in {p \in StatPost : earned[p] # NoPost} |->
     IF p \in DOMAIN section.paths THEN section.paths[p] ELSE Unknown]
LikesCell(section) ==
  [p \in {p \in StatPost : earned[p] # NoPost} |->
     IF section.status = "ok" /\ p \in DOMAIN section.posts /\ section.posts[p] \in Nat
     THEN section.posts[p] ELSE Unknown]

(* Slip: what is unknown is a zero to the sort. *)
SortedAsZero(cells, up) ==
  LET weight(p) == IF cells[p] = Unknown THEN 0 ELSE cells[p]
      before(p, q) == IF weight(p) = weight(q) THEN p < q
                      ELSE IF up THEN weight(p) < weight(q) ELSE weight(p) > weight(q)
  IN  CHOOSE rows \in [1..Cardinality(DOMAIN cells) -> DOMAIN cells] :
        \A m, n \in DOMAIN rows : m < n => before(rows[m], rows[n])

(* sortPostMetrics: unknown last, in both directions; ties by key. *)
SortsBefore(cells, up, p, q) ==
  IF cells[p] = cells[q] THEN p < q
  ELSE IF Unknown \in {cells[p], cells[q]} THEN cells[q] = Unknown
  ELSE IF up THEN cells[p] < cells[q] ELSE cells[p] > cells[q]

SortedCells(cells, up) ==
  CHOOSE rows \in [1..Cardinality(DOMAIN cells) -> DOMAIN cells] :
    \A m, n \in DOMAIN rows : m < n => SortsBefore(cells, up, rows[m], rows[n])

(* The most read: of the listed posts, the newest with the most views. *)
TopPost(section) ==
  LET read == {p \in StatPost : earned[p] # NoPost /\ p \in DOMAIN section.paths} IN
  IF read = {} THEN NoPost ELSE Max({p \in read : \A q \in read : section.paths[q] <= section.paths[p]})

-----------------------------------------------------------------------------
NumTypeOK ==
  /\ today \in Day /\ happened \in 0..MaxHappened
  /\ IsABag(viewed) /\ DOMAIN viewed \subseteq Day \X Domain \X Path
  /\ reading \in [Day -> Nat \cup {NoReading}]
  /\ earned \in [StatPost -> Nat \cup {NoPost, NotShared, Gone}]
  /\ dated \in [StatPost -> Day]
  /\ inquiry # NoInquiry =>
       inquiry.range \in RangeKind /\ inquiry.day <= today /\ inquiry.counted \sqsubseteq viewed

(* The day query was not cut short: only all time can be.                    *)
Uncut(i) ==
  Cardinality({d \in Day : d >= QueryFloor(i.range, i.day) /\ ViewsIn(i.counted, {d}, Domain, Path) > 0})
    <= DayRowCap

(* The total is the range's views and the one before it the views of as many *)
(* days before, none in both; they are compared exactly when readers were    *)
(* counted as far back as the earlier window, or the day before it, and in   *)
(* it; and 'no views' is said of none.                                       *)
TotalsTile(i) ==
  LET s == ViewsSection(i)
      w == WindowOf(i)
      counted(days) == ViewsIn(i.counted, days, Domain, Path)
  IN
  Uncut(i) =>
    /\ s.total = counted(w.days)
    /\ i.range = "fixed" => s.total + s.previous = counted(w.days \cup w.previous)
    /\ s.comparable <=>
         /\ i.range = "fixed" /\ counted(w.previous) > 0
         /\ counted({Min(w.previous) - 1, Min(w.previous)}) > 0
    /\ ViewsCard(s) = "none" <=> counted(w.days) = 0

(* The sources add up to the total, and over it only by the views that came  *)
(* between the two queries; no named source is given what it did not send.   *)
SourcesAddUp(i) ==
  LET w == WindowOf(i) IN
  \A rows \in DomainRows(viewed, w.days) :
    LET s == SourcesSection(i, rows)
        reached == Sum(s.buckets, DOMAIN s.buckets)
        sent(bucket) == ViewsIn(viewed, w.days, {d \in Domain : Bucket(d) = bucket}, Path)
    IN
    s.status = "ok" =>
      /\ reached >= s.total
      /\ Uncut(i) => reached <= ViewsIn(viewed, w.days, Domain, Path)
      /\ \A b \in DOMAIN s.buckets \ {"other"} : s.buckets[b] <= sent(b)

(* A chart has a point for a day exactly when it was read, says how often it *)
(* was not, and no day of views is left out between the first and the last.  *)
GapsAreGaps(i) ==
  LET f == FollowersSection(i)
      v == ViewsSection(i).series
  IN
  /\ f.status = "ok" =>
       LET points == Plot(f.series, NoReading) IN
       /\ Drawn(f.series) /\ Cardinality(Broken(points)) = f.missing
       /\ \A d \in DOMAIN points : points[d] = reading[d]
  /\ Drawn(v) => \A d \in DOMAIN Plot(v, 0) :
       Uncut(i) => Plot(v, 0)[d] = ViewsIn(i.counted, {d}, Domain, Path)

(* Likes said to be of so many posts are of those; a sum that does not say   *)
(* it is partial is of every post it was asked about.                        *)
PartialIsSaid(i) ==
  \A answered \in SUBSET Batches(i) :
    LET s == EngagementSection(i, answered) IN
    LikesCard(s) = "counted" =>
      /\ s.counted = Cardinality({p \in DOMAIN s.posts : s.posts[p] \in Nat})
      /\ s.total = Sum(s.posts, {p \in DOMAIN s.posts : s.posts[p] \in Nat})
      /\ s.counted = s.requested =>
           \A p \in Announced(i) : earned[p] \in Nat \/ Newer(Announced(i), p) >= PostBatch * BatchBudget

(* The table lists every post, whatever is known of it, and those whose      *)
(* number is not known come last, whichever way it is sorted; the most read  *)
(* post is read as much as the first of the table is.                        *)
UnknownIsLast(i) ==
  /\ LET s == ViewsSection(i)
         rows == SortedCells(ViewsCell(s), FALSE)
     IN  TopPost(s) # NoPost => s.paths[TopPost(s)] = ViewsCell(s)[rows[1]]
  /\ \A cells \in {ViewsCell(ViewsSection(i)), LikesCell(EngagementSection(i, Batches(i)))}, up \in BOOLEAN :
       LET rows == SortedCells(cells, up) IN
       /\ Len(rows) = Cardinality(DOMAIN cells)
       /\ \A m, n \in 1..Len(rows) :
            m < n /\ cells[rows[n]] # Unknown =>
              /\ cells[rows[m]] # Unknown
              /\ IF up THEN cells[rows[m]] <= cells[rows[n]] ELSE cells[rows[m]] >= cells[rows[n]]

(* The figures of a range (rangeWindow, the sections, the series, the table  *)
(* of posts) agree with one another and show what is not known as unknown.   *)
NumbersAreTrue ==
  inquiry # NoInquiry =>
    TotalsTile(inquiry) /\ SourcesAddUp(inquiry) /\ GapsAreGaps(inquiry) /\ PartialIsSaid(inquiry) /\ UnknownIsLast(inquiry)
=============================================================================
