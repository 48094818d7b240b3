------------------------------ MODULE Rankings ------------------------------
(***************************************************************************)
(* The rankings that Redis holds: the cron job of every minute, the fill   *)
(* at the start of the server and the requests that miss compute rankings  *)
(* while work is recorded and time passes, and each of them overwrites     *)
(* what the others wrote.                                                  *)
(*                                                                         *)
(* A Fiber is one execution of the cron job, of the fill at the start or   *)
(* of a request.  There is one action for each awaited operation with the  *)
(* synchronous code after it.  Time is counted in days.  What is cached is *)
(* modelled as totals by content; their order is that of the difficulty,   *)
(* and the content types that are looked up for them are left out.         *)
(***************************************************************************)
EXTENDS BoostQueries

CONSTANTS
  Work,        \* rows that boost_job_proofs will get
  Posted,      \* rows of boost_jobs that nobody mines
  Contract,    \* rows of SmartContracts
  Contents,    \* rows of Contents
  Frame,       \* the timeframes in use
  Span,        \* [Frame -> Nat], how many days each of them goes back
  Days,        \* days of the feed, 7 in the code
  Kept,        \* entries a cached ranking keeps, 100 in the code
  Fiber,       \* runs of the cron job and requests that may overlap
  LastDay,     \* bound of the clock
  Failures,    \* bound of the operations that reject, or processes that stop
  Price,       \* [currencies -> Nat], what a service says a unit is worth
  Rate,        \* satoshis for a unit of difficulty
  Missing

AnyTimeframe == {"last-hour", "last-day", "2-days", "3-days", "last-week", "last-month",
                 "last-year", "all-time"}

ASSUME RankingsAssumption ==
  /\ Frame \subseteq AnyTimeframe
  /\ Span \in [Frame -> Nat]
  /\ LastDay \in Nat /\ Days \in 1 .. LastDay /\ Kept \in Nat \ {0}
  /\ Failures \in Nat /\ Rate \in Nat \ {0}
  /\ Missing \notin Frame

\* What the migrations make of the columns; a tag is a string, and the rows of
\* Contents have a unique index on txid.
ASSUME TablesAssumption ==
  /\ IsFiniteSet(Work) /\ IsFiniteSet(Posted)
  /\ \A row \in Work \cup Posted :
       /\ {"difficulty", "profitability", "script", "createdAt", "bitcoin_signed_message_address"} \subseteq DOMAIN row
       /\ row.timestamp \in Int /\ row.createdAt \in Int
       /\ row.difficulty \in Nat /\ row.profitability \in Int /\ row.tag # 0
  /\ \A c, d \in Contents : c.txid = d.txid => c = d
  /\ Price \in [DOMAIN Price -> Nat]

VARIABLES
  now,       \* the clock
  works,     \* boost_job_proofs
  redis,     \* what is cached under each key
  pc,        \* the operation each fiber awaits
  visits,    \* the fibers that serve a request
  todo,      \* keys it still has to refresh, the one at work first
  window,    \* the period it is ranking
  found,     \* the totals it has read
  segments,  \* the days of the feed it has ranked
  known,     \* work that was recorded when it began the feed
  failures   \* operations that have failed

tables == <<now, works>>
world  == <<tables, failures>>
fibers == <<pc, visits, todo, window, found, segments, known>>
vars   == <<world, redis, fibers>>

Feed  == "multi_day_feed"
Key   == Frame \cup {Feed}

NoWindow == [start_date |-> 0]
Cached(key) == redis[key] # Missing

Init ==
  /\ now = Days
  /\ works = {row \in Work : row.timestamp < Days}
  /\ redis = [key \in Key |-> Missing]
  /\ pc = [f \in Fiber |-> "idle"]
  /\ visits = {}
  /\ failures = 0
  /\ todo = [f \in Fiber |-> <<>>]
  /\ window = [f \in Fiber |-> NoWindow]
  /\ found = [f \in Fiber |-> {}]
  /\ segments = [f \in Fiber |-> <<>>]
  /\ known = [f \in Fiber |-> {}]

-----------------------------------------------------------------------------
(* The world: time passes and work is recorded.                            *)

Tick ==
  /\ now < LastDay
  /\ now' = now + 1
  /\ UNCHANGED <<works, failures, redis, fibers>>

\* Work has the time of its transaction, and may be recorded much later.
RecordWork(row) ==
  /\ row \notin works
  /\ row.timestamp <= now
  /\ works' = works \cup {row}
  /\ UNCHANGED <<now, failures, redis, fibers>>

-----------------------------------------------------------------------------
(* Computing and caching one key.                                          *)

\* Broken: the days of the feed leave out the instant where one ends.
WindowOfOpen(key, done) ==
  IF key = Feed
  THEN [start_date |-> now - done, end_date |-> now - done]
  ELSE [start_date |-> now - Span[key]]

\* The period that is ranked next for a key, given how many days are done.
WindowOf(key, done) ==
  IF key = Feed
  THEN [start_date |-> now - (done + 1), end_date |-> now - done]
  ELSE [start_date |-> now - Span[key]]

\* Broken: the days of an earlier feed are kept.
TurnKeepingDays(f, keys) ==
  /\ todo' = [todo EXCEPT ![f] = keys]
  /\ pc' = [pc EXCEPT ![f] = IF keys = <<>> THEN "idle" ELSE "rank"]
  /\ window' = [window EXCEPT ![f] = IF keys = <<>> THEN NoWindow ELSE WindowOf(Head(keys), 0)]
  /\ found' = [found EXCEPT ![f] = {}]
  /\ known' = [known EXCEPT ![f] = IF keys # <<>> /\ Head(keys) = Feed THEN works ELSE {}]
  /\ UNCHANGED segments

\* Start with these keys, or become idle.
Turn(f, keys) ==
  /\ todo' = [todo EXCEPT ![f] = keys]
  /\ pc' = [pc EXCEPT ![f] = IF keys = <<>> THEN "idle" ELSE "rank"]
  /\ window' = [window EXCEPT ![f] = IF keys = <<>> THEN NoWindow ELSE WindowOf(Head(keys), 0)]
  /\ found' = [found EXCEPT ![f] = {}]
  /\ segments' = [segments EXCEPT ![f] = <<>>]
  /\ known' = [known EXCEPT ![f] = IF keys # <<>> /\ Head(keys) = Feed THEN works ELSE {}]

\* The timeframes that start() fills, and those that the cron job refreshes.
InUse(frame) == IF frame \in Frame THEN <<frame>> ELSE <<>>
Filled ==
  InUse("last-day") \o InUse("last-week") \o InUse("last-month") \o InUse("last-year") \o InUse("all-time")
Refreshed == InUse("last-hour") \o Filled

\* Broken: the cron job calls cacheAllTimeframes, which awaits the members of a
\* function instead of calling it.
CronFiresAll(f) ==
  /\ pc[f] = "idle"
  /\ Turn(f, <<Feed>>)
  /\ UNCHANGED <<world, redis, visits>>

\* The cron job refreshes every timeframe but 2-days and 3-days, then the feed.
CronFires(f) ==
  /\ pc[f] = "idle"
  /\ Turn(f, Append(Refreshed, Feed))
  /\ UNCHANGED <<world, redis, visits>>

\* start() fills all but the last hour once, besides the cron job.
ServerStarts(f) ==
  /\ pc[f] = "idle"
  /\ Filled # <<>>
  /\ Turn(f, Filled)
  /\ UNCHANGED <<world, redis, visits>>

\* The first await of rankContent.
FindWork(f) ==
  /\ pc[f] = "rank"
  /\ found' = [found EXCEPT ![f] = WorkByContent(works, window[f])]
  /\ pc' = [pc EXCEPT ![f] = "types"]
  /\ UNCHANGED <<world, redis, visits, todo, window, segments, known>>

\* The second await of rankContent, for a timeframe.
TypeRanking(f) ==
  /\ pc[f] = "types" /\ Head(todo[f]) # Feed
  /\ pc' = [pc EXCEPT ![f] = "set"]
  /\ window' = [window EXCEPT ![f] = NoWindow]
  /\ UNCHANGED <<world, redis, visits, todo, found, segments, known>>

Shown(f) == {r.content_txid : r \in UNION Range(segments[f])}

\* What a day adds to the feed: content that no later day has shown.
Fresh(f) == {r \in found[f] : r.content_txid \notin Shown(f)}

\* ... and for a day of the feed; the next window is taken from the clock again.
TypeDay(f) ==
  /\ pc[f] = "types" /\ Head(todo[f]) = Feed
  /\ LET done == Len(segments[f]) + 1 IN
       /\ segments' = [segments EXCEPT ![f] = Append(@, Fresh(f))]
       /\ pc' = [pc EXCEPT ![f] = IF done = Days THEN "set" ELSE "rank"]
       /\ window' = [window EXCEPT ![f] = IF done = Days THEN NoWindow ELSE WindowOf(Feed, done)]
  /\ found' = [found EXCEPT ![f] = {}]
  /\ UNCHANGED <<world, redis, visits, todo, known>>

\* redis.set, without an expiry; a run goes on to its next key.
SetKey(f) ==
  /\ pc[f] = "set"
  /\ LET key == Head(todo[f]) IN
       \/ /\ key = Feed
          /\ redis' = [redis EXCEPT ![key] = segments[f]]
       \/ /\ key # Feed
          /\ \E top \in Firsts(found[f], "difficulty", "desc", Kept) : redis' = [redis EXCEPT ![key] = top]
  /\ UNCHANGED world

RunOn(f) == f \notin visits /\ SetKey(f) /\ Turn(f, Tail(todo[f])) /\ UNCHANGED visits

-----------------------------------------------------------------------------
(* Requests.  A visitor ends answered or empty handed and is then idle.    *)

Answered == {"hit", "computed", "nothing"}

Answer(f, how) ==
  /\ pc' = [pc EXCEPT ![f] = how]
  /\ UNCHANGED <<visits, todo, window, found, segments, known>>

\* GET /boost/rankings/{timeframe} and GET /powco/feeds/multi-day.
Ask(f, key) ==
  /\ pc[f] = "idle"
  /\ pc' = [pc EXCEPT ![f] = "get"]
  /\ visits' = visits \cup {f}
  /\ todo' = [todo EXCEPT ![f] = <<key>>]
  /\ UNCHANGED <<world, redis, window, found, segments, known>>

\* redis.get: a hit is answered, a miss is computed.
Get(f) ==
  /\ pc[f] = "get"
  /\ \/ Cached(Head(todo[f])) /\ Answer(f, "hit")
     \/ ~Cached(Head(todo[f])) /\ Turn(f, todo[f]) /\ UNCHANGED visits
  /\ UNCHANGED <<world, redis>>

\* A visitor who computed a ranking gets all of it; one who computed the
\* feed reads it again, into a variable nobody looks at.
VisitorSet(f) ==
  /\ f \in visits
  /\ SetKey(f)
  /\ Answer(f, IF Head(todo[f]) = Feed THEN "again" ELSE "computed")

GetAgain(f) ==
  /\ pc[f] = "again"
  /\ Answer(f, "nothing")
  /\ UNCHANGED <<world, redis>>

Leave(f) ==
  /\ pc[f] \in Answered
  /\ Turn(f, <<>>)
  /\ visits' = visits \ {f}
  /\ UNCHANGED <<world, redis>>

\* A query or Redis rejects: the cron job logs it and waits for the next
\* minute, a request fails.  A process that stops drops its fibers as well.
Fail(f) ==
  /\ failures < Failures /\ pc[f] \notin Answered \cup {"idle"}
  /\ failures' = failures + 1
  /\ Turn(f, <<>>)
  /\ visits' = visits \ {f}
  /\ UNCHANGED <<tables, redis>>

Advance(f) ==
  \/ FindWork(f) \/ TypeRanking(f) \/ TypeDay(f)
  \/ RunOn(f) \/ Get(f) \/ VisitorSet(f) \/ GetAgain(f) \/ Leave(f)

Next ==
  \/ Tick
  \/ \E row \in Work : RecordWork(row)
  \/ \E f \in Fiber : \/ CronFires(f) \/ ServerStarts(f)
                      \/ \E key \in Key : Ask(f, key)
                      \/ Advance(f) \/ Fail(f)

Spec == Init /\ [][Next]_vars

\* Each awaited operation ends, and node-cron fires every minute.  Requests never
\* keep it from firing in the code: strong fairness makes up for the fibers, which
\* the model bounds.
Fairness ==
  /\ SF_vars(\E f \in Fiber : CronFires(f))
  /\ \A f \in Fiber : WF_vars(Advance(f))

FairSpec == Spec /\ Fairness

-----------------------------------------------------------------------------
(* Properties of the cache.                                                *)

TypeOK ==
  /\ now \in 0 .. LastDay
  /\ works \subseteq Work
  /\ DOMAIN redis = Key
  /\ failures \in 0 .. Failures
  /\ visits \subseteq Fiber
  /\ pc \in [Fiber -> {"idle", "rank", "types", "set", "get", "again"} \cup Answered]
  /\ \A f \in Fiber :
       /\ todo[f] \in Seq(Key)
       /\ Len(segments[f]) <= Days
       /\ known[f] \subseteq works
       /\ pc[f] = "idle" <=> todo[f] = <<>>

BeginsFeed(f) == pc[f] = "set" /\ Head(todo[f]) = Feed

\* Although the clock moves on between the days it ranks, no content boosted within
\* the last Days days, by work known when the feed was begun, falls between two windows.
FeedMissesNothing(f) ==
  BeginsFeed(f) =>
    \A w \in known[f] :
      w.timestamp >= now - Days =>
        \E day \in DOMAIN segments[f] :
          \E ranking \in segments[f][day] : ranking.content_txid = w.content

\* A segment shows what was boosted in its day "but not the past 24 hours"
\* before it: content with later work is in an earlier segment, and in one only.
FeedNewestFirst(f) ==
  \A day \in DOMAIN segments[f] : \A ranking \in segments[f][day] :
    /\ \A w \in known[f] :
         w.content = ranking.content_txid /\ day > 1 => w.timestamp < now - (day - 1)
    /\ \A other \in DOMAIN segments[f] : \A again \in segments[f][other] :
         again.content_txid = ranking.content_txid => other = day

\* A feed shows each content of its days once, on the latest day it was boosted on.
FeedIsTheDays == \A f \in Fiber : FeedMissesNothing(f) /\ FeedNewestFirst(f)

\* The ranking of a timeframe as of now, cut to what is kept.
Current(frame) ==
  Firsts(WorkByContent(works, WindowOf(frame, 0)), "difficulty", "desc", Kept)

\* Once nothing more is recorded the rankings of the timeframes that the cron
\* job refreshes become current and stay so, although overlapping runs and
\* visitors may overwrite a newer ranking by an older one on the way.
CacheCatchesUp ==
  \A key \in Range(Refreshed) :
    <>[](Cached(key) /\ redis[key] \in Current(key))

-----------------------------------------------------------------------------
(* Properties of the queries.  A query reads the table once, so it is      *)
(* enough to ask in the states where nothing else is in flight.            *)

Quiet == \A f \in Fiber : pc[f] = "idle"

Bound         == 0 .. LastDay
PeriodQueries == UNION {[names -> Bound] : names \in SUBSET Period}
Within(w, query) ==
  /\ Given(query, "start_date") => w.timestamp >= query["start_date"]
  /\ Given(query, "end_date") => w.timestamp <= query["end_date"]

\* The part of a period that is left where its end replaces its start.
Reached(query) == IF Given(query, "end_date") THEN Restrict(query, {"end_date"}) ELSE query

SumOf(entries) == MapThenSumSet(LAMBDA e : e.difficulty, entries)

\* A row, or a query, with one more column.
With(row, column, value) ==
  [c \in DOMAIN row \cup {column} |-> IF c = column THEN value ELSE row[c]]

\* Tags and miners (with the work of unknown miners) add up to the ranking of content: for
\* a period with one bound to that of the period, for one with both to that of all
\* work up to its end.
TotalsAgree ==
  \A query \in PeriodQueries :
    LET total == SumOf(RankingsIndex(works, Contents, Reached(query))) IN
      /\ SumOf(RankingsTags(works, query)) = total
      /\ SumOf(MinersIndex(works, query))
         + TotalDifficulty({w \in works : w.minerPubKey = Null /\ Within(w, Reached(query))}) = total

\* ... and /boost/work lists, where its limit allows, the work they add up.
WorkIsListed ==
  \A start, end \in Bound :
    UNION BoostWorkIndex(works, [start |-> start, end |-> end, limit |-> Cardinality(works) + 1])
      = {w \in works : Within(w, Reached([start_date |-> start, end_date |-> end]))}

\* The ranking, the page of a content, the replies to it and the contracts deployed
\* at it show the same difficulty for one txid.
EndpointsAgree ==
  \A ranking \in RankingsIndex(works, Contents, Everything) :
    LET txid == ranking.content_txid IN
      /\ SumOf(ContentTags(works, txid)) = ranking.difficulty
      /\ \A c \in Contents : c.txid = txid /\ c.context_txid # Null =>
           [txid |-> txid, difficulty |-> ranking.difficulty]
             \in RepliesIndex(works, Contents, c.context_txid)
      /\ \A s \in Contract : s.origin_txid = txid /\ s.class_name \in {"Issue", "Meeting"} =>
           [origin |-> s.origin, difficulty |-> ranking.difficulty]
             \in RankingsIssues(works, Contract) \cup RankingsMeetings(works, Contract)

\* The ranking of a period and a tag is made of the work of that period and tag,
\* whichever bounds are given, and the images are the part of it that are images.
PeriodsAreRanked ==
  \A period \in PeriodQueries : \A tag \in {w.tag : w \in works} :
    LET query == With(period, "tag", tag)
        all   == RankingsIndex(works, Contents, query)
        work  == {w \in works : w.tag = tag /\ Within(w, period)}
    IN /\ {r.content_txid : r \in all} = {w.content : w \in work}
       /\ SumOf(all) = TotalDifficulty(work)
       /\ RankingsImages(works, Contents, query) = {r \in all : r.content_type = "image"}

\* The jobs: those that are mined are spent.
Jobs == {With(row, "spent", row \in works) : row \in Work \cup Posted}
AuthorsJobs == {j \in Jobs : j.bitcoin_signed_message_address = "author"}

WalkSkipsNothing(rows, PageAt(_, _)) ==
  \A later \in rows : \A row \in rows \ {later} : \A pages \in 0 .. Cardinality(rows) - 1 :
    \/ \E i \in 0 .. (pages - 1) : row \in PageAt(rows \ {later}, i)
    \/ \E i \in pages .. Cardinality(rows) - 1 : row \in PageAt(rows, i)

WorkAt(rows, offset) == UNION BoostWorkIndex(rows, [limit |-> 1, offset |-> offset])
JobsAt(rows, offset) == UNION AuthorsShow(rows, "author", [limit |-> 1, offset |-> offset])

\* Where no two rows have one time, walking a list by limit and offset skips nothing
\* while a row is added on the way, wherever its time puts it, in /boost/work (the oldest first) and in the jobs
\* of an author (the latest first): what is not on one of the first pages, read
\* before, is on one of the others, read after it.
PagesSkipNothing ==
  /\ (\A v, w \in works : v.timestamp = w.timestamp => v = w) => WalkSkipsNothing(works, WorkAt)
  /\ (\A i, j \in AuthorsJobs : i.createdAt = j.createdAt => i = j) => WalkSkipsNothing(AuthorsJobs, JobsAt)

\* A page of jobs for a range of difficulty holds only unmined jobs of that range,
\* and none that is left out is more profitable.
JobsAreInRange ==
  \A least, most \in 0 .. 2 :
    \A page \in BoostJobsIndex(Jobs, [minDifficulty |-> least, maxDifficulty |-> most, limit |-> 1]) :
      LET Fits(j) == /\ ~j.spent /\ j.profitability > 0 /\ j.script # Null
                     /\ least <= j.difficulty /\ (most = 0 \/ j.difficulty <= most)
      IN /\ \A j \in page : Fits(j)
         /\ \A j \in Jobs \ page : Fits(j) =>
              \E listed \in page : listed.profitability >= j.profitability

\* Every piece of work and every job counts once wherever it is totalled, listed or
\* paged: endpoints that describe the same rows from different sides do not
\* contradict each other, but for the start of a period with both bounds, which only
\* the ranking of content keeps, and pages of rows with equal times.
AnswersAgree ==
  Quiet => TotalsAgree /\ WorkIsListed /\ EndpointsAgree /\ PeriodsAreRanked
           /\ PagesSkipNothing /\ JobsAreInRange

\* A quote pays what its difficulty costs, unless the request itself names
\* both a price and a difficulty.
QuotePays(query) ==
  LET quote == QuoteDifficulty(query, Price, Rate)
  IN quote.ok /\ ~ (Given(query, "value") /\ Given(query, "difficulty")) =>
       quote.satoshis \in quote.difficulty * Rate .. (quote.difficulty + 1) * Rate - 1

\* So it is for small prices and difficulties, with and without a currency.
QuoteQueries == UNION {[names -> 0 .. 2] : names \in SUBSET {"value", "difficulty"}}
QuotesPayForDifficulty ==
  \A query \in QuoteQueries : /\ QuotePays(query)
                             /\ \A currency \in DOMAIN Price : QuotePays(With(query, "currency", currency))
=============================================================================
