--------------------------- MODULE RankingsProofs ---------------------------
(***************************************************************************)
(* Theorems about Rankings, for any work, timeframes, number of days of    *)
(* the feed, runs and requests that overlap, and failures, and about the   *)
(* queries of BoostQueries, for any tables.                                *)
(***************************************************************************)
EXTENDS Rankings, FiniteSetTheorems, WellFoundedInduction, TLAPS

\* What a ranking may hold, and the window of a feed that ends at e.
Totals == {[content_txid |-> c, difficulty |-> TotalDifficulty(rows), count |-> Cardinality(rows)] :
             c \in {w.content : w \in Work}, rows \in SUBSET Work}
Day(e) == [start_date |-> e - 1, end_date |-> e]

Steps    == {"idle", "rank", "types", "set", "get", "again"} \cup Answered
Feeds(f) == pc[f] \in {"rank", "types"} /\ Head(todo[f]) = Feed
Ends(f)  == window[f].end_date

\* While a feed is ranked: its windows meet, since the clock does not go back, so
\* all that was boosted after the window at work began is shown, and the days that
\* are ranked are over.
FeedAtWork(f) ==
  /\ Ends(f) \in Int /\ window[f] = Day(Ends(f))
  /\ Ends(f) + Len(segments[f]) <= now /\ Len(segments[f]) < Days
  /\ \A w \in known[f] :
       /\ w.timestamp > Ends(f) \/ (w.timestamp = Ends(f) /\ segments[f] # <<>>)
            => w.content \in Shown(f)
       /\ pc[f] = "types" /\ w.timestamp \in Ends(f) - 1 .. Ends(f)
            => w.content \in {r.content_txid : r \in found[f]}

FiberTyped(f) ==
  /\ pc[f] \in Steps /\ todo[f] \in Seq(Key) /\ found[f] \in SUBSET Totals
  /\ segments[f] \in Seq(SUBSET Totals) /\ known[f] \in SUBSET works
  /\ pc[f] = "idle" <=> todo[f] = <<>>
  /\ Len(segments[f]) <= Days

FiberInv(f) ==
  /\ FiberTyped(f)
  /\ pc[f] \in {"idle", "get"} \/ Head(todo[f]) # Feed => segments[f] = <<>> /\ known[f] = {}
  /\ Feeds(f) => FeedAtWork(f)
  /\ BeginsFeed(f) =>
       \A w \in known[f] : w.timestamp >= now - Days => w.content \in Shown(f)
  /\ FeedNewestFirst(f)

Shaped ==
  /\ pc = [f \in Fiber |-> pc[f]] /\ todo = [f \in Fiber |-> todo[f]]
  /\ window = [f \in Fiber |-> window[f]] /\ found = [f \in Fiber |-> found[f]]
  /\ segments = [f \in Fiber |-> segments[f]] /\ known = [f \in Fiber |-> known[f]]

IInv ==
  /\ now \in 0 .. LastDay /\ works \subseteq Work /\ DOMAIN redis = Key
  /\ failures \in 0 .. Failures /\ visits \subseteq Fiber
  /\ \A w \in works : w.timestamp <= now
  /\ Shaped
  /\ \A f \in Fiber : FiberInv(f)

\* A step of one fiber.
OneMoves(f) ==
  /\ pc' = [pc EXCEPT ![f] = pc'[f]] /\ todo' = [todo EXCEPT ![f] = todo'[f]]
  /\ window' = [window EXCEPT ![f] = window'[f]] /\ found' = [found EXCEPT ![f] = found'[f]]
  /\ segments' = [segments EXCEPT ![f] = segments'[f]] /\ known' = [known EXCEPT ![f] = known'[f]]

LEMMA ConstantFacts ==
  /\ Days \in Nat /\ Days > 0 /\ LastDay \in Nat /\ Days <= LastDay /\ Failures \in Nat
  /\ \A row \in Work : row.timestamp \in Int
  /\ Feed \notin Frame /\ Feed \in Key /\ Frame \subseteq Key
  BY RankingsAssumption, TablesAssumption DEF AnyTimeframe, Feed, Key

-----------------------------------------------------------------------------
(* What a query finds.                                                     *)

LEMMA FoundAreTotals ==
  ASSUME NEW rows \in SUBSET Work, NEW query
  PROVE  WorkByContent(rows, query) \in SUBSET Totals
<1>1. FindAll(rows, RankContentWhere(query)) \subseteq Work
  BY DEF FindAll
<1> DEFINE all   == FindAll(rows, RankContentWhere(query))
           Of(c) == {w \in all : w.content = c}
           Sum(c) == [content_txid |-> c, difficulty |-> TotalDifficulty(Of(c)),
                      count |-> Cardinality(Of(c))]
<1>2. WorkByContent(rows, query) = {Sum(c) : c \in {w.content : w \in all}}
  BY DEF WorkByContent
<1>3. \A c \in {w.content : w \in all} : Sum(c) \in Totals
  <2>1. \A c : Of(c) \in SUBSET Work
    BY <1>1
  <2>2. \A c \in {w.content : w \in all} : c \in {w.content : w \in Work}
    BY <1>1
  <2> HIDE DEF Of, all
  <2>3. QED
    BY <2>1, <2>2 DEF Totals
<1> HIDE DEF Sum, all
<1>4. QED
  BY <1>2, <1>3

\* The where clause of a day asks for no more than the two bounds of the day.
LEMMA DayFinds ==
  ASSUME NEW rows \in SUBSET Work, NEW e \in Int, NEW w \in rows, w.timestamp \in e - 1 .. e
  PROVE  w.content \in {r.content_txid : r \in WorkByContent(rows, Day(e))}
<1>1. w.timestamp \in Int
  BY ConstantFacts
<1>2. ~Given(Day(e), "tag") /\ Day(e)["start_date"] = e - 1 /\ Day(e)["end_date"] = e
  BY DEF Given, Day
<1>3. PICK since : since = When(Given(Day(e), "start_date"), Everything,
                                Extend(Everything, "timestamp", "gte", e - 1))
  OBVIOUS
<1>4. /\ DOMAIN since \subseteq {"timestamp"}
      /\ \A c \in DOMAIN since : \A condition \in since[c] :
           condition = [op |-> "gte", value |-> e - 1]
  BY <1>3 DEF When, Everything, Extend, Assign
<1>5. RankContentWhere(Day(e)) = When(Given(Day(e), "end_date"), since,
                                      Extend(since, "timestamp", "lte", e))
  BY <1>2, <1>3 DEF RankContentWhere, When
<1>6. \A c \in DOMAIN RankContentWhere(Day(e)) :
        /\ c = "timestamp"
        /\ \A condition \in RankContentWhere(Day(e))[c] :
             condition \in {[op |-> "gte", value |-> e - 1], [op |-> "lte", value |-> e]}
  <2>1. CASE Given(Day(e), "end_date")
    <3>1. CASE "timestamp" \in DOMAIN since
      BY <1>4, <1>5, <2>1, <3>1 DEF When, Extend
    <3>2. CASE "timestamp" \notin DOMAIN since
      BY <1>4, <1>5, <2>1, <3>2 DEF When, Extend, Assign
    <3>3. QED
      BY <3>1, <3>2
  <2>2. CASE ~Given(Day(e), "end_date")
    BY <1>4, <1>5, <2>2 DEF When
  <2>3. QED
    BY <2>1, <2>2
<1>7. /\ Satisfies(w.timestamp, [op |-> "gte", value |-> e - 1])
      /\ Satisfies(w.timestamp, [op |-> "lte", value |-> e])
  BY <1>1 DEF Satisfies
<1>8. w["timestamp"] = w.timestamp
  OBVIOUS
<1>9. w \in FindAll(rows, RankContentWhere(Day(e)))
  BY <1>6, <1>7, <1>8 DEF FindAll
<1> DEFINE all   == FindAll(rows, RankContentWhere(Day(e)))
           Sum(c) == [content_txid |-> c, difficulty |-> TotalDifficulty({v \in all : v.content = c}),
                      count |-> Cardinality({v \in all : v.content = c})]
<1>10. WorkByContent(rows, Day(e)) = {Sum(c) : c \in {v.content : v \in all}}
  BY DEF WorkByContent
<1>11. Sum(w.content).content_txid = w.content
  OBVIOUS
<1> HIDE DEF Sum
<1>12. QED
  BY <1>9, <1>10, <1>11

-----------------------------------------------------------------------------
(* The fibers that do not move, and those that turn to other keys.         *)

\* What every step does to the clock and the tables.
WorldKeeps ==
  /\ now \in Int /\ now' \in Int /\ now <= now' /\ works \subseteq works'

LEMMA OthersKeep ==
  ASSUME WorldKeeps, works \subseteq Work, NEW f \in Fiber, FiberInv(f),
         pc'[f] = pc[f], todo'[f] = todo[f], window'[f] = window[f], found'[f] = found[f],
         segments'[f] = segments[f], known'[f] = known[f]
  PROVE  FiberInv(f)'
<1>1. FiberTyped(f)'
  BY DEF FiberInv, FiberTyped, WorldKeeps
<1>2. Shown(f)' = Shown(f)
  BY DEF Shown
<1>3. /\ Len(segments[f]) \in Nat /\ \A w \in known[f] : w.timestamp \in Int
      /\ DOMAIN segments[f] \subseteq Nat
  BY ConstantFacts DEF FiberInv, FiberTyped
<1>4. Feeds(f)' => FeedAtWork(f)'
  <2>1. Feeds(f)' <=> Feeds(f)
    BY DEF Feeds
  <2>2. FeedAtWork(f) => FeedAtWork(f)'
    BY <1>2, <1>3 DEF FeedAtWork, Ends, WorldKeeps
  <2>3. QED
    BY <2>1, <2>2 DEF FiberInv
<1>5. ASSUME BeginsFeed(f)', NEW w \in known'[f], w.timestamp >= now' - Days
      PROVE  w.content \in Shown(f)'
  <2>1. BeginsFeed(f) /\ w \in known[f] /\ w.timestamp >= now - Days
    BY <1>3, <1>5, ConstantFacts DEF BeginsFeed, WorldKeeps
  <2>2. QED
    BY <1>2, <2>1 DEF FiberInv
<1>6. FeedNewestFirst(f)'
  BY <1>3 DEF FiberInv, FeedNewestFirst, WorldKeeps
<1>7. QED
  BY <1>1, <1>4, <1>5, <1>6 DEF FiberInv

\* A fiber moves alone.
LEMMA FiberSteps ==
  ASSUME IInv, WorldKeeps, NEW f \in Fiber, OneMoves(f), FiberInv(f)'
  PROVE  Shaped' /\ \A g \in Fiber : FiberInv(g)'
<1>1. Shaped /\ works \subseteq Work /\ \A g \in Fiber : FiberInv(g)
  BY DEF IInv
<1>2. Shaped'
  BY <1>1 DEF Shaped, OneMoves
<1>3. ASSUME NEW g \in Fiber, g # f PROVE FiberInv(g)'
  <2>1. /\ pc'[g] = pc[g] /\ todo'[g] = todo[g] /\ window'[g] = window[g]
        /\ found'[g] = found[g] /\ segments'[g] = segments[g] /\ known'[g] = known[g]
    BY <1>1, <1>3 DEF Shaped, OneMoves
  <2>2. QED
    BY <1>1, <2>1, OthersKeep
<1>4. QED
  BY <1>2, <1>3

\* A fiber without segments has shown nothing.
LEMMA NothingShown ==
  ASSUME NEW f \in Fiber, segments[f] = <<>>
  PROVE  Shown(f) = {} /\ FeedNewestFirst(f)
  BY DEF Shown, Range, FeedNewestFirst

\* A fiber that starts with other keys has segments of none of them.
LEMMA TurnSteps ==
  ASSUME IInv, UNCHANGED tables, NEW f \in Fiber, NEW keys \in Seq(Key), Turn(f, keys)
  PROVE  OneMoves(f) /\ FiberInv(f)'
<1>1. /\ Shaped /\ works' = works /\ now' = now /\ now \in Int
      /\ \A w \in works : w.timestamp <= now
  BY DEF IInv, tables
<1>2. /\ OneMoves(f) /\ todo'[f] = keys /\ pc'[f] = (IF keys = <<>> THEN "idle" ELSE "rank")
      /\ window'[f] = (IF keys = <<>> THEN NoWindow ELSE WindowOf(Head(keys), 0))
      /\ found'[f] = {} /\ segments'[f] = <<>>
      /\ known'[f] = (IF keys # <<>> /\ Head(keys) = Feed THEN works ELSE {})
  BY <1>1 DEF Turn, OneMoves, Shaped
<1>3. FiberTyped(f)'
  BY <1>1, <1>2, ConstantFacts DEF FiberTyped, Steps
<1>4. Feeds(f)' => FeedAtWork(f)'
  <2>1. ASSUME Feeds(f)'
        PROVE  window'[f] = Day(now) /\ known'[f] = works
    <3>1. keys # <<>> /\ Head(keys) = Feed
      BY <1>2, <2>1 DEF Feeds
    <3>2. WindowOf(Feed, 0) = Day(now)
      BY <1>1 DEF WindowOf, Day
    <3>3. QED
      BY <1>2, <3>1, <3>2
  <2>2. ASSUME Feeds(f)' PROVE Ends(f)' = now
    BY <2>1, <2>2 DEF Ends, Day
  <2>3. Len(segments'[f]) = 0
    BY <1>2
  <2>4. \A w \in works : w.timestamp \in Int
    BY ConstantFacts DEF IInv
  <2>5. Feeds(f)' => pc'[f] = "rank"
    BY <1>2 DEF Feeds
  <2>6. QED
    BY <1>1, <1>2, <2>1, <2>2, <2>3, <2>4, <2>5, ConstantFacts DEF FeedAtWork
<1>5. ~BeginsFeed(f)'
  BY <1>2 DEF BeginsFeed
<1>6. FeedNewestFirst(f)'
  BY <1>2 DEF FeedNewestFirst
<1>7. pc'[f] \in {"idle", "get"} \/ Head(todo'[f]) # Feed => segments'[f] = <<>> /\ known'[f] = {}
  BY <1>2
<1>8. QED
  BY <1>2, <1>3, <1>4, <1>5, <1>6, <1>7 DEF FiberInv

\* A step of one fiber that leaves the tables alone.
LEMMA FiberKeepsIInv ==
  ASSUME IInv, UNCHANGED tables, NEW f \in Fiber, OneMoves(f), FiberInv(f)',
         DOMAIN redis' = Key, failures' \in 0 .. Failures, visits' \subseteq Fiber
  PROVE  IInv'
<1>1. WorldKeeps
  BY ConstantFacts DEF IInv, tables, WorldKeeps
<1>2. Shaped' /\ \A g \in Fiber : FiberInv(g)'
  BY <1>1, FiberSteps
<1>3. QED
  BY <1>2 DEF IInv, tables

-----------------------------------------------------------------------------
(* The cron job and the requests.                                          *)

LEMMA KeysAreTyped ==
  /\ Filled \in Seq(Key) /\ Append(Refreshed, Feed) \in Seq(Key)
<1>1. \A k : InUse(k) \in Seq(Key)
  BY ConstantFacts DEF InUse
<1>2. Filled \in Seq(Key)
  <2>1. InUse("last-day") \o InUse("last-week") \in Seq(Key)
    BY <1>1
  <2>2. InUse("last-day") \o InUse("last-week") \o InUse("last-month") \in Seq(Key)
    BY <1>1, <2>1
  <2>3. InUse("last-day") \o InUse("last-week") \o InUse("last-month") \o InUse("last-year") \in Seq(Key)
    BY <1>1, <2>2
  <2>4. QED
    BY <1>1, <2>3 DEF Filled
<1>3. Refreshed \in Seq(Key)
  BY <1>1, <1>2 DEF Refreshed
<1>4. QED
  BY <1>2, <1>3, ConstantFacts

LEMMA TurningSteps ==
  ASSUME IInv, NEW f \in Fiber,
         CronFires(f) \/ ServerStarts(f) \/ RunOn(f) \/ Leave(f) \/ Fail(f)
  PROVE  IInv'
<1> USE DEF world
<1>1. FiberTyped(f) /\ failures \in 0 .. Failures /\ visits \subseteq Fiber /\ DOMAIN redis = Key
  BY DEF IInv, FiberInv
<1>2. UNCHANGED tables /\ failures' \in 0 .. Failures /\ visits' \subseteq Fiber /\ DOMAIN redis' = Key
  BY <1>1, ConstantFacts DEF CronFires, ServerStarts, RunOn, SetKey, Leave, Fail
<1>3. RunOn(f) => Tail(todo[f]) \in Seq(Key)
  BY <1>1 DEF RunOn, SetKey, FiberTyped
<1>4. \E keys \in Seq(Key) : Turn(f, keys)
  <2>1. <<>> \in Seq(Key)
    OBVIOUS
  <2>2. QED
    BY <1>3, <2>1, KeysAreTyped DEF CronFires, ServerStarts, RunOn, Leave, Fail
<1>5. OneMoves(f) /\ FiberInv(f)'
  BY <1>2, <1>4, TurnSteps
<1>6. QED
  BY <1>2, <1>5, FiberKeepsIInv

LEMMA AskSteps ==
  ASSUME IInv, NEW f \in Fiber, NEW key \in Key, Ask(f, key)
  PROVE  IInv'
<1> USE DEF Ask, world
<1>1. Shaped /\ FiberInv(f) /\ FiberTyped(f)
  BY DEF IInv, FiberInv
<1>2. segments[f] = <<>> /\ known[f] = {} /\ found[f] \in SUBSET Totals
  BY <1>1 DEF FiberInv, FiberTyped
<1>3. /\ OneMoves(f) /\ pc'[f] = "get" /\ todo'[f] = <<key>> /\ segments'[f] = <<>>
      /\ known'[f] = {} /\ found'[f] = found[f]
  BY <1>1, <1>2 DEF Shaped, OneMoves
<1>4. FiberTyped(f)'
  <2>1. <<key>> \in Seq(Key) /\ <<key>> # <<>> /\ <<>> \in Seq(SUBSET Totals) /\ Len(<<>>) <= Days
    BY ConstantFacts
  <2>2. QED
    BY <1>2, <1>3, <2>1 DEF FiberTyped, Steps
<1>5. FiberInv(f)'
  BY <1>3, <1>4 DEF FiberInv, Feeds, BeginsFeed, FeedNewestFirst
<1>6. QED
  BY <1>3, <1>5, FiberKeepsIInv DEF IInv

\* A visitor that is answered keeps what it has computed.
LEMMA AnswerSteps ==
  ASSUME IInv, NEW f \in Fiber, UNCHANGED <<world, visits>>, DOMAIN redis' = Key,
         NEW how \in Answered \cup {"again"}, Answer(f, how), pc[f] # "idle",
         how \in {"hit"} \/ pc[f] # "get"
  PROVE  IInv'
<1> USE DEF Answer
<1>1. Shaped /\ FiberInv(f) /\ FiberTyped(f) /\ now' = now /\ works' = works
  BY DEF IInv, FiberInv, world, tables
<1>2. /\ OneMoves(f) /\ pc'[f] = how /\ todo'[f] = todo[f] /\ segments'[f] = segments[f]
      /\ known'[f] = known[f] /\ found'[f] = found[f]
  BY <1>1 DEF Shaped, OneMoves
<1>3. how \notin {"idle", "get", "rank", "types", "set"}
  BY DEF Answered
<1>4. FiberTyped(f)'
  BY <1>1, <1>2, <1>3 DEF FiberTyped, Steps
<1>5. FiberInv(f)'
  BY <1>1, <1>2, <1>3, <1>4 DEF FiberInv, Feeds, BeginsFeed, FeedNewestFirst
<1>6. QED
  BY <1>2, <1>5, FiberKeepsIInv DEF IInv, world, tables

LEMMA VisitorSteps ==
  ASSUME IInv, NEW f \in Fiber, Get(f) \/ VisitorSet(f) \/ GetAgain(f)
  PROVE  IInv'
<1>1. FiberTyped(f) /\ DOMAIN redis = Key /\ failures \in 0 .. Failures /\ visits \subseteq Fiber
  BY DEF IInv, FiberInv
<1>2. CASE Get(f) /\ Answer(f, "hit")
  BY <1>1, <1>2, AnswerSteps DEF Get, Answer, Answered
<1>3. CASE Get(f) /\ Turn(f, todo[f]) /\ UNCHANGED visits
  <2>1. OneMoves(f) /\ FiberInv(f)'
    BY <1>1, <1>3, TurnSteps DEF Get, world, FiberTyped
  <2>2. QED
    BY <1>1, <1>3, <2>1, FiberKeepsIInv DEF Get, world
<1>4. CASE VisitorSet(f)
  <2>1. PICK how \in {"again", "computed"} : Answer(f, how)
    BY <1>4 DEF VisitorSet
  <2>2. DOMAIN redis' = Key /\ pc[f] = "set" /\ UNCHANGED <<world, visits>>
    BY <1>1, <1>4 DEF VisitorSet, SetKey, Answer
  <2>3. QED
    BY <2>1, <2>2, AnswerSteps DEF Answered
<1>5. CASE GetAgain(f)
  BY <1>1, <1>5, AnswerSteps DEF GetAgain, Answer, Answered
<1>6. QED
  BY <1>2, <1>3, <1>4, <1>5 DEF Get

-----------------------------------------------------------------------------
(* Ranking.                                                                *)

LEMMA FindWorkSteps ==
  ASSUME IInv, NEW f \in Fiber, FindWork(f)
  PROVE  IInv'
<1> USE DEF FindWork, world
<1>1. Shaped /\ FiberInv(f) /\ FiberTyped(f) /\ now' = now /\ works' = works /\ works \in SUBSET Work
  BY DEF IInv, FiberInv, tables
<1>2. PICK new : new = WorkByContent(works, window[f])
  OBVIOUS
<1>3. /\ OneMoves(f) /\ pc[f] = "rank" /\ pc'[f] = "types" /\ todo'[f] = todo[f]
      /\ segments'[f] = segments[f] /\ known'[f] = known[f] /\ found'[f] = new
      /\ window'[f] = window[f]
  BY <1>1, <1>2 DEF Shaped, OneMoves
<1>4. new \in SUBSET Totals
  BY <1>1, <1>2, FoundAreTotals
<1>5. FiberTyped(f)'
  BY <1>1, <1>3, <1>4 DEF FiberTyped, Steps
<1>6. ASSUME Feeds(f)' PROVE FeedAtWork(f)'
  <2>1. FeedAtWork(f)
    BY <1>1, <1>3, <1>6 DEF FiberInv, Feeds
  <2>2. Shown(f)' = Shown(f) /\ Ends(f)' = Ends(f)
    BY <1>3 DEF Shown, Ends
  <2>3. new = WorkByContent(works, Day(Ends(f))) /\ Ends(f) \in Int
    BY <1>2, <2>1 DEF FeedAtWork
  <2>4. \A w \in known[f] : w.timestamp \in Ends(f) - 1 .. Ends(f)
                             => w.content \in {r.content_txid : r \in new}
    BY <1>1, <2>3, DayFinds DEF FiberTyped
  <2>5. QED
    BY <1>1, <1>3, <2>1, <2>2, <2>4 DEF FeedAtWork
<1>7. FeedNewestFirst(f)'
  BY <1>1, <1>3 DEF FiberInv, FeedNewestFirst
<1>8. FiberInv(f)'
  BY <1>1, <1>3, <1>5, <1>6, <1>7 DEF FiberInv, BeginsFeed
<1>9. QED
  BY <1>3, <1>8, FiberKeepsIInv DEF IInv

LEMMA TypeRankingSteps ==
  ASSUME IInv, NEW f \in Fiber, TypeRanking(f)
  PROVE  IInv'
<1> USE DEF TypeRanking, world
<1>1. Shaped /\ FiberInv(f) /\ FiberTyped(f) /\ now' = now /\ works' = works
  BY DEF IInv, FiberInv, tables
<1>2. /\ OneMoves(f) /\ pc[f] = "types" /\ pc'[f] = "set" /\ todo'[f] = todo[f]
      /\ segments'[f] = segments[f] /\ known'[f] = known[f] /\ found'[f] = found[f]
  BY <1>1 DEF Shaped, OneMoves
<1>3. FiberTyped(f)'
  BY <1>1, <1>2 DEF FiberTyped, Steps
<1>4. FiberInv(f)'
  BY <1>1, <1>2, <1>3 DEF FiberInv, Feeds, BeginsFeed, FeedNewestFirst
<1>5. QED
  BY <1>2, <1>4, FiberKeepsIInv DEF IInv

\* A day shows what it found and no later day has shown, so everything boosted since
\* that day began is shown; the next day begins no earlier than this one did, and no
\* later than a whole day before now.
LEMMA TypeDaySteps ==
  ASSUME IInv, NEW f \in Fiber, TypeDay(f)
  PROVE  IInv'
<1> USE DEF TypeDay, world
<1>1. /\ Shaped /\ FiberInv(f) /\ FiberTyped(f) /\ now' = now /\ works' = works
      /\ works \in SUBSET Work /\ now \in Int
  BY DEF IInv, FiberInv, tables
<1>2. PICK n, e, fresh : n = Len(segments[f]) /\ e = Ends(f) /\ fresh = Fresh(f)
  OBVIOUS
<1>3. pc[f] = "types" /\ Head(todo[f]) = Feed /\ FeedAtWork(f)
  BY <1>1 DEF FiberInv, Feeds
<1>4. /\ e \in Int /\ n \in Nat /\ e + n <= now /\ n < Days
      /\ segments[f] \in Seq(SUBSET Totals) /\ fresh \in SUBSET Totals
  BY <1>1, <1>2, <1>3 DEF FeedAtWork, FiberTyped, Fresh
<1>5. /\ OneMoves(f) /\ todo'[f] = todo[f] /\ known'[f] = known[f] /\ found'[f] = {}
      /\ segments'[f] = Append(segments[f], fresh)
      /\ pc'[f] = (IF n + 1 = Days THEN "set" ELSE "rank")
      /\ window'[f] = (IF n + 1 = Days THEN NoWindow ELSE WindowOf(Feed, n + 1))
  BY <1>1, <1>2 DEF Shaped, OneMoves
<1>6. /\ segments'[f] \in Seq(SUBSET Totals) /\ Len(segments'[f]) = n + 1
      /\ DOMAIN segments[f] = 1 .. n /\ DOMAIN segments'[f] = 1 .. (n + 1)
      /\ segments'[f][n + 1] = fresh
      /\ \A day \in 1 .. n : segments'[f][day] = segments[f][day]
  BY <1>2, <1>4, <1>5
<1>7. FiberTyped(f)'
  BY <1>1, <1>4, <1>5, <1>6, ConstantFacts DEF FiberTyped, Steps
<1>8. \A c : c \in Shown(f) <=> \E day \in 1 .. n : \E r \in segments[f][day] : r.content_txid = c
  BY <1>6 DEF Shown, Range
<1>9. \A c : c \in Shown(f)' <=> \E day \in 1 .. (n + 1) : \E r \in segments'[f][day] : r.content_txid = c
  BY <1>6 DEF Shown, Range
<1>10. \A c : c \in Shown(f) \/ c \in {r.content_txid : r \in found[f]} => c \in Shown(f)'
  <2>1. \A c \in Shown(f) : c \in Shown(f)'
    BY <1>4, <1>6, <1>8, <1>9
  <2>2. \A r \in fresh : r.content_txid \in Shown(f)'
    BY <1>4, <1>6, <1>9
  <2>3. \A r \in found[f] : r.content_txid \in Shown(f) \/ r \in fresh
    BY <1>2 DEF Fresh
  <2>4. QED
    BY <2>1, <2>2, <2>3
<1>11. ASSUME NEW w \in known[f], w.timestamp >= e - 1 PROVE w.content \in Shown(f)'
  <2>1. w.timestamp \in Int
    BY <1>1, ConstantFacts DEF FiberTyped
  <2>2. CASE w.timestamp > e
    BY <1>2, <1>3, <1>10, <2>2 DEF FeedAtWork
  <2>3. CASE w.timestamp \in e - 1 .. e
    BY <1>2, <1>3, <1>10, <2>3 DEF FeedAtWork
  <2>4. QED
    BY <1>4, <1>11, <2>1, <2>2, <2>3
<1>12. ASSUME Feeds(f)' PROVE FeedAtWork(f)'
  <2>1. pc'[f] = "rank" /\ n + 1 # Days /\ window'[f] = WindowOf(Feed, n + 1)
    BY <1>5, <1>12 DEF Feeds
  <2>2. PICK next : next = now - (n + 1)
    OBVIOUS
  <2>3. next \in Int /\ next + (n + 1) = now /\ next >= e - 1 /\ n + 1 < Days
    BY <1>1, <1>4, <2>1, <2>2, ConstantFacts
  <2>4. window'[f] = Day(next)
    BY <1>1, <1>4, <2>1, <2>2 DEF WindowOf, Day
  <2>5. Ends(f)' = next
    BY <2>4 DEF Ends, Day
  <2>6. \A w \in known[f] : w.timestamp \in Int
    BY <1>1, ConstantFacts DEF FiberTyped
  <2>7. \A w \in known'[f] : w.timestamp >= next => w.content \in Shown(f)'
    BY <1>4, <1>5, <1>11, <2>3, <2>6
  <2>8. \A w \in known'[f] :
          w.timestamp > next \/ (w.timestamp = next /\ segments'[f] # <<>>) => w.content \in Shown(f)'
    BY <1>5, <2>3, <2>6, <2>7
  <2>9. QED
    BY <1>1, <1>6, <2>1, <2>3, <2>4, <2>5, <2>8 DEF FeedAtWork
<1>13. ASSUME BeginsFeed(f)', NEW w \in known'[f], w.timestamp >= now' - Days
       PROVE  w.content \in Shown(f)'
  <2>1. n + 1 = Days
    BY <1>5, <1>13 DEF BeginsFeed
  <2>2. w \in known[f] /\ w.timestamp \in Int
    BY <1>1, <1>5, ConstantFacts DEF FiberTyped
  <2>3. w.timestamp >= e - 1
    BY <1>1, <1>4, <1>13, <2>1, <2>2, ConstantFacts
  <2>4. QED
    BY <1>11, <2>2, <2>3
<1>14. FeedNewestFirst(f)'
  <2>1. FeedNewestFirst(f)
    BY <1>1 DEF FiberInv
  <2>2. ASSUME NEW day \in 1 .. (n + 1), NEW r \in segments'[f][day], NEW w \in known[f],
               w.content = r.content_txid, day > 1
        PROVE  w.timestamp < now - (day - 1)
    <3>1. CASE day \in 1 .. n
      BY <1>6, <2>1, <2>2, <3>1 DEF FeedNewestFirst
    <3>2. CASE day = n + 1
      <4>1. r \in found[f] /\ r.content_txid \notin Shown(f)
        BY <1>2, <1>6, <3>2 DEF Fresh
      <4>2. segments[f] # <<>> /\ w.timestamp \in Int
        BY <1>1, <1>2, <1>4, <2>2, <3>2, ConstantFacts DEF FiberTyped
      <4>3. ~(w.timestamp > e) /\ w.timestamp # e
        BY <1>2, <1>3, <2>2, <4>1, <4>2 DEF FeedAtWork
      <4>4. w.timestamp < e
        BY <1>1, <1>4, <4>2, <4>3
      <4>5. e <= now - n /\ n = day - 1 /\ e \in Int /\ now \in Int
        BY <1>1, <1>4, <3>2
      <4>6. QED
        BY <4>2, <4>4, <4>5
    <3>3. QED
      BY <1>4, <3>1, <3>2
  <2>3. ASSUME NEW day \in 1 .. (n + 1), NEW r \in segments'[f][day],
               NEW other \in 1 .. (n + 1), NEW again \in segments'[f][other],
               again.content_txid = r.content_txid
        PROVE  other = day
    <3>1. \A d \in 1 .. n : \A s \in segments'[f][d] : s.content_txid \in Shown(f)
      BY <1>6, <1>8
    <3>2. \A s \in segments'[f][n + 1] : s.content_txid \notin Shown(f)
      BY <1>2, <1>6 DEF Fresh
    <3>3. CASE day \in 1 .. n /\ other \in 1 .. n
      BY <1>6, <2>1, <2>3, <3>3 DEF FeedNewestFirst
    <3>4. CASE day = n + 1 /\ other \in 1 .. n
      BY <2>3, <3>1, <3>2, <3>4
    <3>5. CASE day \in 1 .. n /\ other = n + 1
      BY <2>3, <3>1, <3>2, <3>5
    <3>6. day \in 1 .. n \/ day = n + 1
      BY <1>4
    <3>7. other \in 1 .. n \/ other = n + 1
      BY <1>4
    <3>8. QED
      BY <3>3, <3>4, <3>5, <3>6, <3>7
  <2>4. QED
    BY <1>1, <1>5, <1>6, <2>2, <2>3 DEF FeedNewestFirst
<1>15. pc'[f] \notin {"idle", "get"} /\ Head(todo'[f]) = Feed
  BY <1>3, <1>5
<1>16. FiberInv(f)'
  BY <1>7, <1>12, <1>13, <1>14, <1>15 DEF FiberInv
<1>17. QED
  BY <1>5, <1>16, FiberKeepsIInv DEF IInv

-----------------------------------------------------------------------------
(* The world, and all steps together.                                      *)

LEMMA WorldSteps ==
  ASSUME IInv, Tick \/ (\E row \in Work : RecordWork(row)) \/ UNCHANGED vars
  PROVE  IInv'
<1> USE DEF Tick, RecordWork, vars, world, tables, fibers
<1>1. now \in Int /\ works \subseteq Work /\ now \in 0 .. LastDay /\ \A w \in Work : w.timestamp \in Int
  BY ConstantFacts DEF IInv
<1>2. WorldKeeps /\ now' \in 0 .. LastDay /\ works' \subseteq Work /\ UNCHANGED <<redis, visits, failures>>
  BY <1>1, ConstantFacts DEF WorldKeeps
<1>3. \A w \in works' : w.timestamp <= now'
  BY <1>1 DEF IInv
<1>4. \A f \in Fiber : FiberInv(f)'
  BY <1>1, <1>2, OthersKeep DEF IInv
<1>5. Shaped'
  BY DEF IInv, Shaped
<1>6. QED
  BY <1>2, <1>3, <1>4, <1>5 DEF IInv

LEMMA InitIInv == Init => IInv
<1> SUFFICES ASSUME Init PROVE IInv
  OBVIOUS
<1> USE DEF Init
<1>1. Shaped
  BY DEF Shaped
<1>2. /\ now \in 0 .. LastDay /\ works \subseteq Work /\ DOMAIN redis = Key
      /\ failures \in 0 .. Failures /\ visits \subseteq Fiber
  BY ConstantFacts
<1>3. \A w \in works : w.timestamp <= now
  BY ConstantFacts
<1>4. \A f \in Fiber : FiberInv(f)
  <2>1. <<>> \in Seq(Key) /\ <<>> \in Seq(SUBSET Totals) /\ Len(<<>>) <= Days
    BY ConstantFacts
  <2>2. QED
    BY <2>1 DEF FiberInv, FiberTyped, Steps, Feeds, BeginsFeed, FeedNewestFirst
<1>5. QED
  BY <1>1, <1>2, <1>3, <1>4 DEF IInv

LEMMA EveryStep == IInv /\ [Next]_vars => IInv'
<1> SUFFICES ASSUME IInv, [Next]_vars PROVE IInv'
  OBVIOUS
<1>1. CASE Tick \/ (\E row \in Work : RecordWork(row)) \/ UNCHANGED vars
  BY <1>1, WorldSteps
<1>2. ASSUME NEW f \in Fiber, CronFires(f) \/ ServerStarts(f) \/ Fail(f) PROVE IInv'
  BY <1>2, TurningSteps
<1>3. ASSUME NEW f \in Fiber, NEW key \in Key, Ask(f, key) PROVE IInv'
  BY <1>3, AskSteps
<1>4. ASSUME NEW f \in Fiber, Advance(f) PROVE IInv'
  BY <1>4, FindWorkSteps, TypeRankingSteps, TypeDaySteps, TurningSteps, VisitorSteps DEF Advance
<1>5. QED
  BY <1>1, <1>2, <1>3, <1>4 DEF Next

LEMMA Invariance == Spec => []IInv
  BY InitIInv, EveryStep, PTL DEF Spec

\* The clock, the tables and the fibers keep their shape, for any number of keys,
\* days and fibers; a fiber has no more segments than the feed has days.
THEOREM RankingsTypeCorrect == Spec => []TypeOK
<1>1. ASSUME IInv PROVE TypeOK
  <2>1. pc \in [Fiber -> Steps]
    BY <1>1 DEF IInv, Shaped, FiberInv, FiberTyped
  <2>2. QED
    BY <1>1, <2>1 DEF IInv, FiberInv, FiberTyped, Steps, TypeOK
<1>2. QED
  BY <1>1, Invariance, PTL

\* However the clock moves while a feed is computed, and whatever is recorded by
\* then, the feed shows each content of its days, once, on the latest day it was
\* boosted on.
THEOREM FeedsAreTheDays == Spec => []FeedIsTheDays
<1>1. ASSUME IInv, NEW f \in Fiber PROVE FeedMissesNothing(f) /\ FeedNewestFirst(f)
  <2>1. FiberInv(f)
    BY <1>1 DEF IInv
  <2>2. \A c \in Shown(f) : \E day \in DOMAIN segments[f] : \E r \in segments[f][day] : r.content_txid = c
    BY DEF Shown, Range
  <2>3. QED
    BY <2>1, <2>2 DEF FiberInv, FeedMissesNothing
<1>2. IInv => FeedIsTheDays
  BY <1>1 DEF FeedIsTheDays
<1>3. QED
  BY <1>2, Invariance, PTL

-----------------------------------------------------------------------------
(* Induction.  The induction theorems of the library are about an operator,*)
(* which no prover can instantiate; these are about a set.                 *)

\* A set that holds 0, and the successor of each of its numbers, holds them all.
LEMMA NatIsInductive ==
  ASSUME NEW T \in SUBSET Nat, 0 \in T, \A n \in T : n + 1 \in T
  PROVE  T = Nat
<1> DEFINE R == {p \in Nat \X Nat : p[1] < p[2]}
<1> SUFFICES ASSUME Nat \ T # {} PROVE FALSE
  OBVIOUS
<1>1. \E m \in Nat \ T : \A n \in Nat \ T : n >= m
  <2>1. IsWellFoundedOn(OpToRel(<, Nat), Nat)
    BY NatLessThanWellFounded
  <2> DEFINE Out == Nat \ T
  <2>2. Out \subseteq Nat /\ Out # {}
    OBVIOUS
  <2> HIDE DEF Out
  <2>3. PICK m \in Out : \A n \in Out : ~(<<n, m>> \in OpToRel(<, Nat))
    BY <2>1, <2>2, WFMin
  <2>4. \A n \in Out : ~(n < m)
    BY <2>2, <2>3 DEF OpToRel
  <2>5. \A n \in Out : n >= m
    BY <2>2, <2>4
  <2>6. QED
    BY <2>5 DEF Out
<1>2. PICK m \in Nat \ T : \A n \in Nat \ T : n >= m
  BY <1>1
<1>3. m # 0 /\ m - 1 \in Nat /\ m - 1 < m
  OBVIOUS
<1>4. m - 1 \in T
  BY <1>2, <1>3
<1>5. m - 1 + 1 \in T
  BY <1>4
<1>6. m - 1 + 1 = m
  OBVIOUS
<1>7. QED
  BY <1>5, <1>6

\* Induction on the subsets of a finite set.
LEMMA SubsetsAreInductive ==
  ASSUME NEW S, IsFiniteSet(S), NEW C \in SUBSET (SUBSET S), {} \in C,
         \A T \in C : \A x \in S \ T : T \cup {x} \in C
  PROVE  C = SUBSET S
<1> DEFINE N == {n \in Nat : \A T \in SUBSET S : Cardinality(T) = n => T \in C}
<1>1. \A T \in SUBSET S : IsFiniteSet(T) /\ Cardinality(T) \in Nat
  BY FS_Subset, FS_CardinalityType
<1>2. 0 \in N
  <2>1. \A T \in SUBSET S : Cardinality(T) = 0 => T = {}
    BY <1>1, FS_EmptySet
  <2>2. QED
    BY <2>1
<1>3. ASSUME NEW n \in N PROVE n + 1 \in N
  <2>1. n \in Nat /\ \A T \in SUBSET S : Cardinality(T) = n => T \in C
    OBVIOUS
  <2>2. ASSUME NEW T \in SUBSET S, Cardinality(T) = n + 1 PROVE T \in C
    <3>1. T # {}
      <4>1. Cardinality({}) = 0
        BY FS_EmptySet
      <4>2. QED
        BY <2>1, <2>2, <4>1
    <3>2. PICK x \in T : TRUE
      BY <3>1
    <3> DEFINE U == T \ {x}
    <3>3. Cardinality(U) = n
      BY <1>1, <2>1, <2>2, FS_RemoveElement
    <3>4. U \in SUBSET S /\ U \in C /\ x \in S \ U /\ U \cup {x} = T
      BY <2>1, <3>3
    <3> HIDE DEF U
    <3>5. QED
      BY <3>4
  <2>3. QED
    BY <2>1, <2>2
<1>4. N = Nat
  <2> HIDE DEF N
  <2>1. N \in SUBSET Nat
    BY DEF N
  <2>2. QED
    BY <1>2, <1>3, <2>1, NatIsInductive
<1>5. QED
  BY <1>1, <1>4
-----------------------------------------------------------------------------
(* Sums over finite sets.                                                  *)

\* The function by which a sum over the subsets of S is computed.
Sums(g, S, iter) ==
  iter = [s \in SUBSET S |-> IF s = {} THEN 0
                             ELSE LET x == CHOOSE x \in s : TRUE IN g[x] + iter[s \ {x}]]

Sum(g, S) == (CHOOSE iter : Sums(g, S, iter))[S]

\* It exists.
LEMMA SumsExist ==
  ASSUME NEW S, IsFiniteSet(S), NEW g
  PROVE  \E iter : Sums(g, S, iter)
<1> DEFINE Upto(n) == {s \in SUBSET S : Cardinality(s) <= n}
           First(s) == CHOOSE x \in s : TRUE
           Good(h, n) == /\ h = [s \in Upto(n) |-> h[s]]
                         /\ \A s \in Upto(n) : h[s] = IF s = {} THEN 0 ELSE g[First(s)] + h[s \ {First(s)}]
           N == {n \in Nat : \E h : Good(h, n)}
<1>1. \A s \in SUBSET S : IsFiniteSet(s) /\ Cardinality(s) \in Nat /\ (Cardinality(s) = 0 <=> s = {})
  BY FS_Subset, FS_CardinalityType, FS_EmptySet
<1>2. ASSUME NEW s \in SUBSET S, s # {}
      PROVE  /\ First(s) \in s /\ s \ {First(s)} \in SUBSET S
             /\ Cardinality(s \ {First(s)}) = Cardinality(s) - 1
  <2>1. First(s) \in s
    BY <1>2
  <2> HIDE DEF First
  <2>2. QED
    BY <1>1, <2>1, FS_RemoveElement
<1>3. 0 \in N
  <2> DEFINE h == [s \in Upto(0) |-> 0]
  <2>1. \A s \in Upto(0) : s = {}
    BY <1>1
  <2>2. Good(h, 0)
    BY <2>1
  <2>3. QED
    BY <2>2
<1>4. ASSUME NEW n \in N PROVE n + 1 \in N
  <2>1. PICK h : Good(h, n)
    OBVIOUS
  <2> DEFINE k == [s \in Upto(n + 1) |-> IF s = {} THEN 0 ELSE g[First(s)] + h[s \ {First(s)}]]
  <2>2. n \in Nat
    OBVIOUS
  <2> HIDE DEF First
  <2>3. ASSUME NEW s \in Upto(n) PROVE k[s] = h[s] /\ s \in Upto(n + 1)
    <3>1. s \in Upto(n + 1)
      BY <1>1, <2>2
    <3>2. h[s] = IF s = {} THEN 0 ELSE g[First(s)] + h[s \ {First(s)}]
      BY <2>1
    <3> HIDE DEF Upto
    <3>3. QED
      BY <3>1, <3>2
  <2>4. ASSUME NEW s \in Upto(n + 1), s # {} PROVE k[s] = g[First(s)] + k[s \ {First(s)}]
    <3>1. s \ {First(s)} \in Upto(n)
      BY <1>1, <1>2, <2>2, <2>4
    <3>2. k[s] = g[First(s)] + h[s \ {First(s)}]
      BY <2>4
    <3>3. k[s \ {First(s)}] = h[s \ {First(s)}]
      BY <2>3, <3>1
    <3> HIDE DEF k
    <3>4. QED
      BY <3>2, <3>3
  <2>5. Good(k, n + 1)
    BY <2>4
  <2>6. n + 1 \in Nat
    BY <2>2
  <2> HIDE DEF Good, k
  <2>7. QED
    BY <2>5, <2>6
<1>5. Cardinality(S) \in N
  <2> HIDE DEF N
  <2>1. N \in SUBSET Nat
    BY DEF N
  <2>2. N = Nat
    BY <1>3, <1>4, <2>1, NatIsInductive
  <2>3. QED
    BY <1>1, <2>2
<1>6. PICK h : Good(h, Cardinality(S))
  BY <1>5
<1>7. Upto(Cardinality(S)) = SUBSET S
  BY <1>1, FS_Subset
<1>8. Sums(g, S, h)
  BY <1>6, <1>7 DEF Sums
<1>9. QED
  BY <1>8

LEMMA SumIterates ==
  ASSUME NEW S, IsFiniteSet(S), NEW g, NEW iter, Sums(g, S, iter), NEW T \in SUBSET S, T # {}
  PROVE  \E x \in T : iter[T] = g[x] + iter[T \ {x}]
BY DEF Sums

\* The sums add up, in whatever order the elements are taken.
Additive(g, S, iter) ==
  /\ iter \in [SUBSET S -> Int] /\ iter[{}] = 0
  /\ \A T \in SUBSET S, x \in S : x \notin T => iter[T \cup {x}] = g[x] + iter[T]

LEMMA SumAdds ==
  ASSUME NEW S, IsFiniteSet(S), NEW g \in [S -> Int], NEW iter, Sums(g, S, iter)
  PROVE  Additive(g, S, iter)
<1>1. iter[{}] = 0 /\ iter = [s \in SUBSET S |-> iter[s]]
  BY DEF Sums
<1>2. \A s \in SUBSET S : IsFiniteSet(s) /\ Cardinality(s) \in Nat /\ (Cardinality(s) = 0 <=> s = {})
  BY FS_Subset, FS_CardinalityType, FS_EmptySet
<1>3. \A s \in SUBSET S : \A x \in s : Cardinality(s \ {x}) = Cardinality(s) - 1
  BY <1>2, FS_RemoveElement
<1> DEFINE Adds(s) == iter[s] \in Int /\ \A x \in s : iter[s] = g[x] + iter[s \ {x}]
           N == {n \in Nat : \A s \in SUBSET S : Cardinality(s) <= n => Adds(s)}
<1>4. 0 \in N
  <2>1. \A s \in SUBSET S : Cardinality(s) <= 0 => s = {}
    BY <1>2
  <2>2. Adds({})
    BY <1>1
  <2> HIDE DEF Adds
  <2>3. QED
    BY <2>1, <2>2
<1>5. ASSUME NEW n \in N PROVE n + 1 \in N
  <2>1. n \in Nat /\ n + 1 \in Nat /\ \A s \in SUBSET S : Cardinality(s) <= n => Adds(s)
    OBVIOUS
  <2>2. ASSUME NEW s \in SUBSET S, Cardinality(s) <= n + 1, s # {} PROVE Adds(s)
    <3>1. PICK y \in s : iter[s] = g[y] + iter[s \ {y}]
      BY <2>2, SumIterates
    <3>2. ASSUME NEW x \in s PROVE s \ {x} \in SUBSET S /\ Cardinality(s \ {x}) <= n /\ Adds(s \ {x})
      <4>1. s \ {x} \in SUBSET S
        OBVIOUS
      <4>2. Cardinality(s \ {x}) <= n
        BY <1>2, <1>3, <2>1, <2>2
      <4> HIDE DEF Adds
      <4>3. QED
        BY <2>1, <4>1, <4>2
    <3>3. iter[s] \in Int
      BY <3>1, <3>2
    <3>4. ASSUME NEW x \in s, x # y PROVE iter[s] = g[x] + iter[s \ {x}]
      <4>1. x \in s \ {y} /\ y \in s \ {x} /\ (s \ {y}) \ {x} = (s \ {x}) \ {y}
        BY <3>4
      <4>2. iter[s \ {y}] = g[x] + iter[(s \ {y}) \ {x}]
        BY <3>2, <4>1
      <4>3. iter[s \ {x}] = g[y] + iter[(s \ {x}) \ {y}]
        BY <3>2, <4>1
      <4>4. g[x] \in Int /\ g[y] \in Int /\ iter[(s \ {x}) \ {y}] \in Int
        <5>1. x \in S /\ y \in S /\ (s \ {x}) \ {y} \in SUBSET S
          OBVIOUS
        <5>2. Cardinality((s \ {x}) \ {y}) <= n
          <6> DEFINE t == s \ {x}
          <6>1. t \in SUBSET S /\ Cardinality(t) <= n /\ y \in t
            BY <3>2, <4>1
          <6> HIDE DEF t, Adds
          <6>2. Cardinality(t \ {y}) = Cardinality(t) - 1 /\ Cardinality(t) \in Nat
            BY <1>2, <1>3, <6>1
          <6>3. Cardinality(t \ {y}) <= n
            BY <2>1, <6>1, <6>2
          <6>4. QED
            BY <6>3 DEF t
        <5> HIDE DEF Adds
        <5>3. Adds((s \ {x}) \ {y})
          BY <2>1, <5>1, <5>2
        <5>4. QED
          BY <5>1, <5>3 DEF Adds
      <4> DEFINE rest == iter[(s \ {x}) \ {y}]
      <4>5. /\ iter[s] = g[y] + iter[s \ {y}] /\ iter[s \ {y}] = g[x] + rest
            /\ iter[s \ {x}] = g[y] + rest /\ rest \in Int
        BY <3>1, <4>1, <4>2, <4>3, <4>4
      <4> HIDE DEF rest
      <4>6. QED
        BY <4>4, <4>5
    <3>5. QED
      BY <3>1, <3>3, <3>4
  <2>3. Adds({})
    BY <1>1
  <2> HIDE DEF Adds
  <2>4. QED
    BY <2>1, <2>2, <2>3
<1>6. N = Nat
  <2> HIDE DEF N
  <2>1. N \in SUBSET Nat
    BY DEF N
  <2>2. QED
    BY <1>4, <1>5, <2>1, NatIsInductive
<1>7. \A s \in SUBSET S : Adds(s)
  BY <1>2, <1>6
<1>8. ASSUME NEW T \in SUBSET S, NEW x \in S, x \notin T PROVE iter[T \cup {x}] = g[x] + iter[T]
  <2>1. T \cup {x} \in SUBSET S /\ x \in T \cup {x} /\ (T \cup {x}) \ {x} = T
    BY <1>8
  <2>2. Adds(T \cup {x})
    BY <1>7, <2>1
  <2>3. QED
    BY <2>1, <2>2
<1>9. QED
  BY <1>1, <1>7, <1>8 DEF Additive

\* A total of difficulties is such a sum.
LEMMA TotalIsSum ==
  ASSUME NEW rows, IsFiniteSet(rows)
  PROVE  \E iter : Sums([r \in rows |-> r.difficulty], rows, iter) /\ TotalDifficulty(rows) = iter[rows]
<1> DEFINE g == [r \in rows |-> r.difficulty]
           Body(iter) == [s \in SUBSET rows |->
                            IF s = {} THEN 0
                            ELSE (CHOOSE x \in s : TRUE).difficulty + iter[s \ {CHOOSE x \in s : TRUE}]]
           total == CHOOSE iter : iter = Body(iter)
<1>1. TotalDifficulty(rows) = total[rows]
  BY DEF TotalDifficulty, MapThenSumSet, MapThenFoldSet
<1>2. \A iter : Sums(g, rows, iter) <=> iter = Body(iter)
  <2>1. \A s \in SUBSET rows : s # {} => (CHOOSE x \in s : TRUE) \in rows
    OBVIOUS
  <2>2. QED
    BY <2>1 DEF Sums
<1> HIDE DEF Body, g
<1>3. \E iter : iter = Body(iter)
  BY <1>2, SumsExist
<1>4. total = Body(total)
  BY <1>3
<1>5. QED
  BY <1>1, <1>2, <1>4 DEF g

\* A table of which some rows are totalled.
Measured(rows) == IsFiniteSet(rows) /\ \A r \in rows : r.difficulty \in Int

\* What the sum over a set says of the sets within it.
LEMMA TotalWithin ==
  ASSUME NEW rows, Measured(rows), NEW part \in SUBSET rows, NEW iter,
         Sums([r \in rows |-> r.difficulty], rows, iter)
  PROVE  TotalDifficulty(part) = iter[part]
<1> DEFINE g == [r \in rows |-> r.difficulty]
           h == [r \in part |-> r.difficulty]
<1>1. g \in [rows -> Int] /\ h \in [part -> Int] /\ IsFiniteSet(part) /\ IsFiniteSet(rows)
  BY FS_Subset DEF Measured
<1>2. PICK own : Sums(h, part, own) /\ TotalDifficulty(part) = own[part]
  BY <1>1, TotalIsSum
<1>3. \A r \in part : g[r] = h[r]
  OBVIOUS
<1>4. Sums(g, rows, iter)
  OBVIOUS
<1> HIDE DEF g, h
<1>5. /\ iter[{}] = 0
      /\ \A T \in SUBSET rows, x \in rows : x \notin T => iter[T \cup {x}] = g[x] + iter[T]
  <2>1. Additive(g, rows, iter)
    BY <1>1, <1>4, SumAdds
  <2>2. QED
    BY <2>1 DEF Additive
<1>6. /\ own[{}] = 0
      /\ \A T \in SUBSET part, x \in part : x \notin T => own[T \cup {x}] = h[x] + own[T]
  <2>1. Additive(h, part, own)
    BY <1>1, <1>2, SumAdds
  <2>2. QED
    BY <2>1 DEF Additive
<1> DEFINE C == {T \in SUBSET part : iter[T] = own[T]}
<1>7. {} \in C
  BY <1>5, <1>6
<1>8. ASSUME NEW T \in C, NEW x \in part \ T PROVE T \cup {x} \in C
  <2>1. T \in SUBSET part /\ T \in SUBSET rows /\ x \in rows /\ x \in part /\ x \notin T /\ iter[T] = own[T]
    OBVIOUS
  <2>2. iter[T \cup {x}] = g[x] + iter[T] /\ own[T \cup {x}] = h[x] + own[T]
    BY <1>5, <1>6, <2>1
  <2>3. T \cup {x} \in SUBSET part
    BY <2>1
  <2>4. QED
    BY <1>3, <2>1, <2>2, <2>3
<1>9. C = SUBSET part
  <2> HIDE DEF C
  <2>1. C \in SUBSET (SUBSET part)
    BY DEF C
  <2>2. QED
    BY <1>1, <1>7, <1>8, <2>1, SubsetsAreInductive
<1>10. QED
  BY <1>2, <1>9

\* A total adds up, row by row.
LEMMA TotalAdds ==
  ASSUME NEW rows, Measured(rows)
  PROVE  /\ TotalDifficulty({}) = 0
         /\ \A T \in SUBSET rows : TotalDifficulty(T) \in Int
         /\ \A T \in SUBSET rows, r \in rows :
              r \notin T => TotalDifficulty(T \cup {r}) = r.difficulty + TotalDifficulty(T)
<1> DEFINE g == [r \in rows |-> r.difficulty]
<1>1. g \in [rows -> Int] /\ IsFiniteSet(rows) /\ \A r \in rows : g[r] = r.difficulty
  BY DEF Measured
<1>2. PICK iter : Sums(g, rows, iter)
  BY <1>1, SumsExist
<1>3. \A T \in SUBSET rows : TotalDifficulty(T) = iter[T]
  BY <1>2, TotalWithin
<1> HIDE DEF g
<1>4. /\ iter \in [SUBSET rows -> Int] /\ iter[{}] = 0
      /\ \A T \in SUBSET rows, x \in rows : x \notin T => iter[T \cup {x}] = g[x] + iter[T]
  <2>1. Additive(g, rows, iter)
    BY <1>1, <1>2, SumAdds
  <2>2. QED
    BY <2>1 DEF Additive
<1>5. ASSUME NEW T \in SUBSET rows, NEW r \in rows, r \notin T
      PROVE  TotalDifficulty(T \cup {r}) = r.difficulty + TotalDifficulty(T)
  <2>1. T \cup {r} \in SUBSET rows
    OBVIOUS
  <2>2. QED
    BY <1>1, <1>3, <1>4, <1>5, <2>1
<1>6. \A T \in SUBSET rows : TotalDifficulty(T) \in Int
  BY <1>3, <1>4
<1>7. TotalDifficulty({}) = 0
  <2>1. {} \in SUBSET rows
    OBVIOUS
  <2>2. QED
    BY <1>3, <1>4, <2>1
<1>8. QED
  BY <1>5, <1>6, <1>7

\* Two totals of different rows are the total of both.
LEMMA TotalsAddUp ==
  ASSUME NEW rows, Measured(rows), NEW T \in SUBSET rows, NEW U \in SUBSET rows, T \cap U = {}
  PROVE  TotalDifficulty(T \cup U) = TotalDifficulty(T) + TotalDifficulty(U)
<1> DEFINE C == {V \in SUBSET U : TotalDifficulty(T \cup V) = TotalDifficulty(T) + TotalDifficulty(V)}
<1>1. /\ TotalDifficulty({}) = 0
      /\ \A V \in SUBSET rows : TotalDifficulty(V) \in Int
      /\ \A V \in SUBSET rows, r \in rows :
           r \notin V => TotalDifficulty(V \cup {r}) = r.difficulty + TotalDifficulty(V)
  BY TotalAdds
<1>2. {} \in C
  <2>1. T \cup {} = T
    OBVIOUS
  <2>2. QED
    BY <1>1, <2>1
<1>3. ASSUME NEW V \in C, NEW r \in U \ V PROVE V \cup {r} \in C
  <2>1. /\ V \in SUBSET rows /\ T \cup V \in SUBSET rows /\ r \in rows /\ r \notin V /\ r \notin T \cup V
        /\ V \cup {r} \in SUBSET U /\ T \cup (V \cup {r}) = (T \cup V) \cup {r}
        /\ TotalDifficulty(T \cup V) = TotalDifficulty(T) + TotalDifficulty(V)
    OBVIOUS
  <2>2. /\ TotalDifficulty((T \cup V) \cup {r}) = r.difficulty + TotalDifficulty(T \cup V)
        /\ TotalDifficulty(V \cup {r}) = r.difficulty + TotalDifficulty(V)
    BY <1>1, <2>1
  <2>3. TotalDifficulty(V) \in Int /\ TotalDifficulty(T) \in Int /\ r.difficulty \in Int
    BY <1>1, <2>1 DEF Measured
  <2>4. TotalDifficulty(T \cup (V \cup {r})) = TotalDifficulty(T) + TotalDifficulty(V \cup {r})
    <3> DEFINE both == TotalDifficulty(T \cup V)
               t == TotalDifficulty(T)
               v == TotalDifficulty(V)
               more == TotalDifficulty(V \cup {r})
               all == TotalDifficulty(T \cup (V \cup {r}))
               d == r.difficulty
    <3>1. all = d + both /\ more = d + v /\ both = t + v /\ v \in Int /\ t \in Int /\ d \in Int
      BY <2>1, <2>2, <2>3
    <3> HIDE DEF both, t, v, more, all, d
    <3>2. all = t + more
      BY <3>1
    <3>3. QED
      BY <3>2 DEF all, t, more
  <2>5. QED
    BY <2>1, <2>4
<1>4. C = SUBSET U
  <2>1. IsFiniteSet(U)
    BY FS_Subset DEF Measured
  <2> HIDE DEF C
  <2>2. C \in SUBSET (SUBSET U)
    BY DEF C
  <2>3. QED
    BY <1>2, <1>3, <2>1, <2>2, SubsetsAreInductive
<1>5. QED
  BY <1>4

\* What groups of the rows add up to, where a total is kept of each.
LEMMA GroupsAddUp ==
  ASSUME NEW rows, Measured(rows), NEW groups, IsFiniteSet(groups), NEW part \in [groups -> SUBSET rows],
         \A e \in groups : e.difficulty = TotalDifficulty(part[e]),
         \A d, e \in groups : d # e => part[d] \cap part[e] = {}
  PROVE  TotalDifficulty(groups) = TotalDifficulty(UNION {part[e] : e \in groups})
<1> DEFINE Of(G) == UNION {part[e] : e \in G}
           C == {G \in SUBSET groups : TotalDifficulty(G) = TotalDifficulty(Of(G))}
<1>1. TotalDifficulty({}) = 0 /\ \A V \in SUBSET rows : TotalDifficulty(V) \in Int
  BY TotalAdds
<1>2. Measured(groups)
  BY <1>1 DEF Measured
<1>3. \A G \in SUBSET groups, e \in groups :
        e \notin G => TotalDifficulty(G \cup {e}) = e.difficulty + TotalDifficulty(G)
  BY <1>2, TotalAdds
<1>4. {} \in C
  <2>1. Of({}) = {}
    OBVIOUS
  <2>2. QED
    BY <2>1
<1>5. ASSUME NEW G \in C, NEW e \in groups \ G PROVE G \cup {e} \in C
  <2>1. /\ G \in SUBSET groups /\ G \cup {e} \in SUBSET groups /\ e \in groups /\ e \notin G
        /\ TotalDifficulty(G) = TotalDifficulty(Of(G))
    OBVIOUS
  <2>2. Of(G) \in SUBSET rows /\ part[e] \in SUBSET rows /\ Of(G) \cap part[e] = {}
    OBVIOUS
  <2>3. Of(G \cup {e}) = Of(G) \cup part[e]
    OBVIOUS
  <2> HIDE DEF Of
  <2>4. TotalDifficulty(Of(G) \cup part[e]) = TotalDifficulty(Of(G)) + TotalDifficulty(part[e])
    BY <2>2, TotalsAddUp
  <2>5. TotalDifficulty(G \cup {e}) = e.difficulty + TotalDifficulty(G)
    BY <1>3, <2>1
  <2>6. TotalDifficulty(Of(G)) \in Int /\ TotalDifficulty(part[e]) \in Int
    BY <1>1, <2>2
  <2>7. TotalDifficulty(G \cup {e}) = TotalDifficulty(Of(G) \cup part[e])
    BY <2>1, <2>4, <2>5, <2>6
  <2>8. QED
    BY <2>1, <2>3, <2>7
<1>6. C = SUBSET groups
  <2> HIDE DEF C
  <2>1. C \in SUBSET (SUBSET groups)
    BY DEF C
  <2>2. QED
    BY <1>4, <1>5, <2>1, SubsetsAreInductive
<1>7. QED
  BY <1>6

-----------------------------------------------------------------------------
(* What a where clause finds.                                              *)

LEMMA AssignFinds ==
  ASSUME NEW rows, NEW where, NEW column, column \notin DOMAIN where, NEW op, NEW value
  PROVE  FindAll(rows, Assign(where, column, op, value))
           = {r \in FindAll(rows, where) : Satisfies(r[column], [op |-> op, value |-> value])}
<1> DEFINE condition == [op |-> op, value |-> value]
           more == Assign(where, column, op, value)
<1>1. /\ DOMAIN more = DOMAIN where \cup {column} /\ more[column] = {condition}
      /\ \A c \in DOMAIN where : more[c] = where[c]
  BY DEF Assign
<1> HIDE DEF condition, more
<1>2. ASSUME NEW r \in rows
      PROVE  (\A c \in DOMAIN more : \A cond \in more[c] : Satisfies(r[c], cond))
               <=> /\ \A c \in DOMAIN where : \A cond \in where[c] : Satisfies(r[c], cond)
                   /\ Satisfies(r[column], condition)
  BY <1>1
<1>3. FindAll(rows, more) = {r \in FindAll(rows, where) : Satisfies(r[column], condition)}
  BY <1>2 DEF FindAll
<1>4. QED
  BY <1>3 DEF condition, more

LEMMA ExtendFinds ==
  ASSUME NEW rows, NEW where, NEW column, NEW op, NEW value, where = [c \in DOMAIN where |-> where[c]]
  PROVE  FindAll(rows, Extend(where, column, op, value))
           = {r \in FindAll(rows, where) : Satisfies(r[column], [op |-> op, value |-> value])}
<1> DEFINE condition == [op |-> op, value |-> value]
           more == [where EXCEPT ![column] = where[column] \cup {condition}]
<1>1. CASE column \in DOMAIN where
  <2>1. /\ DOMAIN more = DOMAIN where /\ more[column] = where[column] \cup {condition}
        /\ \A c \in DOMAIN where : c # column => more[c] = where[c]
    BY <1>1
  <2>2. Extend(where, column, op, value) = more
    BY <1>1 DEF Extend
  <2> HIDE DEF condition, more
  <2>3. ASSUME NEW r \in rows
        PROVE  (\A c \in DOMAIN more : \A cond \in more[c] : Satisfies(r[c], cond))
                 <=> /\ \A c \in DOMAIN where : \A cond \in where[c] : Satisfies(r[c], cond)
                     /\ Satisfies(r[column], condition)
    BY <1>1, <2>1
  <2>4. FindAll(rows, more) = {r \in FindAll(rows, where) : Satisfies(r[column], condition)}
    BY <2>3 DEF FindAll
  <2>5. QED
    BY <2>2, <2>4 DEF condition
<1>2. CASE column \notin DOMAIN where
  BY <1>2, AssignFinds DEF Extend
<1>3. QED
  BY <1>1, <1>2

LEMMA EverythingFinds ==
  ASSUME NEW rows
  PROVE  FindAll(rows, Everything) = rows /\ DOMAIN Everything = {} /\ Everything = [c \in DOMAIN Everything |-> Everything[c]]
BY DEF FindAll, Everything

\* A schema that knows the parameters of a query strips nothing it is asked for.
LEMMA StripKeeps ==
  ASSUME NEW query, NEW names
  PROVE  /\ DOMAIN Strip(query, names) = DOMAIN query \cap names
         /\ \A n \in names : /\ Given(Strip(query, names), n) <=> Given(query, n)
                             /\ n \in DOMAIN query => Strip(query, names)[n] = query[n]
BY DEF Strip, Restrict, Given

\* The rows of a period, where its end replaces its start.
BoundBy(query, where) ==
  LET started == When(Given(query, "start_date"), where,
                      Assign(where, "timestamp", "gte", query["start_date"]))
  IN When(Given(query, "end_date"), started,
          Assign(started, "timestamp", "lte", query["end_date"]))

LEMMA BoundFinds ==
  ASSUME NEW rows, NEW query, NEW where, "timestamp" \notin DOMAIN where
  PROVE  FindAll(rows, BoundBy(query, where)) = {r \in FindAll(rows, where) : Within(r, Reached(query))}
<1>1. CASE ~Given(query, "start_date") /\ ~Given(query, "end_date")
  BY <1>1 DEF BoundBy, When, Within, Reached
<1>2. CASE Given(query, "start_date") /\ ~Given(query, "end_date")
  <2>1. BoundBy(query, where) = Assign(where, "timestamp", "gte", query["start_date"])
    BY <1>2 DEF BoundBy, When
  <2>2. FindAll(rows, Assign(where, "timestamp", "gte", query["start_date"]))
          = {r \in FindAll(rows, where) :
               Satisfies(r["timestamp"], [op |-> "gte", value |-> query["start_date"]])}
    BY AssignFinds
  <2>3. \A r : Satisfies(r["timestamp"], [op |-> "gte", value |-> query["start_date"]]) <=> Within(r, Reached(query))
    BY <1>2 DEF Satisfies, Within, Reached
  <2>4. QED
    BY <2>1, <2>2, <2>3
<1>3. CASE Given(query, "end_date")
  <2>1. BoundBy(query, where) = Assign(where, "timestamp", "lte", query["end_date"])
    <3>1. \A op, value : Assign(Assign(where, "timestamp", op, value), "timestamp", "lte", query["end_date"])
                           = Assign(where, "timestamp", "lte", query["end_date"])
      BY DEF Assign
    <3>2. QED
      BY <1>3, <3>1 DEF BoundBy, When
  <2>2. FindAll(rows, BoundBy(query, where))
          = {r \in FindAll(rows, where) :
               Satisfies(r["timestamp"], [op |-> "lte", value |-> query["end_date"]])}
    BY <2>1, AssignFinds
  <2>3. \A r : Satisfies(r["timestamp"], [op |-> "lte", value |-> query["end_date"]])
                 <=> Within(r, Reached(query))
    <3>1. "end_date" \in DOMAIN query /\ query["end_date"] # 0
      BY <1>3 DEF Given
    <3>2. /\ DOMAIN Reached(query) = {"end_date"} /\ Reached(query)["end_date"] = query["end_date"]
      BY <1>3, <3>1 DEF Reached, Restrict
    <3>3. ~Given(Reached(query), "start_date") /\ Given(Reached(query), "end_date")
      BY <3>1, <3>2 DEF Given
    <3>4. QED
      BY <3>2, <3>3 DEF Satisfies, Within
  <2>4. QED
    BY <2>2, <2>3
<1>4. QED
  BY <1>1, <1>2, <1>3

\* What is left of a period is a period, and the same for a schema that knows its names.
LEMMA ReachedIs ==
  ASSUME NEW query, DOMAIN query \subseteq Period, NEW asked, DOMAIN asked \subseteq Period,
         \A n \in Period : Given(asked, n) <=> Given(query, n),
         \A n \in Period : n \in DOMAIN query => asked[n] = query[n]
  PROVE  /\ DOMAIN Reached(query) \subseteq Period
         /\ \A w : Within(w, Reached(asked)) <=> Within(w, Reached(query))
<1>1. CASE Given(query, "end_date")
  <2>1. "end_date" \in Period /\ "end_date" \in DOMAIN query
    BY <1>1 DEF Period, Given
  <2>2. Given(asked, "end_date") /\ "end_date" \in DOMAIN asked /\ asked["end_date"] = query["end_date"]
    BY <1>1, <2>1 DEF Given
  <2>3. /\ DOMAIN Reached(query) = {"end_date"} /\ Reached(query)["end_date"] = query["end_date"]
        /\ DOMAIN Reached(asked) = {"end_date"} /\ Reached(asked)["end_date"] = query["end_date"]
    BY <1>1, <2>1, <2>2 DEF Reached, Restrict
  <2>4. QED
    BY <2>1, <2>3 DEF Within, Given
<1>2. CASE ~Given(query, "end_date")
  <2>1. Reached(query) = query /\ Reached(asked) = asked
    BY <1>2 DEF Reached, Period
  <2>2. QED
    BY <2>1 DEF Within, Given, Period
<1>3. QED
  BY <1>1, <1>2

\* The where clause of the rankings of content takes both bounds, and a tag.
Tagged(r, query) == Given(query, "tag") => r.tag = query["tag"]

LEMMA RankingFinds ==
  ASSUME NEW rows, NEW query
  PROVE  FindAll(rows, RankContentWhere(query)) = {r \in rows : Within(r, query) /\ Tagged(r, query)}
<1> DEFINE started == When(Given(query, "start_date"), Everything,
                           Extend(Everything, "timestamp", "gte", query["start_date"]))
           ended   == When(Given(query, "end_date"), started,
                           Extend(started, "timestamp", "lte", query["end_date"]))
           After(r)  == Given(query, "start_date") => r.timestamp >= query["start_date"]
           Before(r) == Given(query, "end_date") => r.timestamp <= query["end_date"]
<1>1. /\ FindAll(rows, started) = {r \in rows : After(r)}
      /\ started = [c \in DOMAIN started |-> started[c]] /\ DOMAIN started \subseteq {"timestamp"}
  <2>1. CASE Given(query, "start_date")
    <3>1. started = Extend(Everything, "timestamp", "gte", query["start_date"])
      BY <2>1 DEF When
    <3>2. FindAll(rows, started)
            = {r \in FindAll(rows, Everything) :
                 Satisfies(r["timestamp"], [op |-> "gte", value |-> query["start_date"]])}
      BY <3>1, EverythingFinds, ExtendFinds
    <3>3. \A r : Satisfies(r["timestamp"], [op |-> "gte", value |-> query["start_date"]]) <=> After(r)
      BY <2>1 DEF Satisfies
    <3>4. started = [c \in DOMAIN started |-> started[c]] /\ DOMAIN started \subseteq {"timestamp"}
      <4>1. DOMAIN Everything = {}
        BY EverythingFinds
      <4>2. started = Assign(Everything, "timestamp", "gte", query["start_date"])
        BY <3>1, <4>1 DEF Extend
      <4> HIDE DEF started
      <4>3. QED
        BY <4>1, <4>2 DEF Assign
    <3>5. QED
      BY <3>2, <3>3, <3>4, EverythingFinds
  <2>2. CASE ~Given(query, "start_date")
    BY <2>2, EverythingFinds DEF When
  <2>3. QED
    BY <2>1, <2>2
<1> HIDE DEF started
<1>2. /\ FindAll(rows, ended) = {r \in rows : After(r) /\ Before(r)}
      /\ DOMAIN ended \subseteq {"timestamp"}
  <2>1. CASE Given(query, "end_date")
    <3>1. ended = Extend(started, "timestamp", "lte", query["end_date"])
      BY <2>1 DEF When
    <3>2. FindAll(rows, ended)
            = {r \in FindAll(rows, started) :
                 Satisfies(r["timestamp"], [op |-> "lte", value |-> query["end_date"]])}
      BY <1>1, <3>1, ExtendFinds
    <3>3. \A r : Satisfies(r["timestamp"], [op |-> "lte", value |-> query["end_date"]]) <=> Before(r)
      BY <2>1 DEF Satisfies
    <3>4. DOMAIN ended \subseteq {"timestamp"}
      BY <1>1, <3>1 DEF Extend, Assign
    <3>5. QED
      BY <1>1, <3>2, <3>3, <3>4
  <2>2. CASE ~Given(query, "end_date")
    BY <1>1, <2>2 DEF When
  <2>3. QED
    BY <2>1, <2>2
<1>3. RankContentWhere(query)
        = When(Given(query, "tag"), ended, Assign(ended, "tag", "eq", query["tag"]))
  BY DEF RankContentWhere, started
<1> HIDE DEF ended
<1>4. CASE Given(query, "tag")
  <2>1. FindAll(rows, RankContentWhere(query))
          = {r \in FindAll(rows, ended) : Satisfies(r["tag"], [op |-> "eq", value |-> query["tag"]])}
    <3>1. "tag" \notin DOMAIN ended
      BY <1>2
    <3>2. RankContentWhere(query) = Assign(ended, "tag", "eq", query["tag"])
      BY <1>3, <1>4 DEF When
    <3>3. QED
      BY <3>1, <3>2, AssignFinds
  <2>2. \A r : Satisfies(r["tag"], [op |-> "eq", value |-> query["tag"]]) <=> Tagged(r, query)
    BY <1>4 DEF Satisfies, Tagged
  <2>3. QED
    BY <1>2, <2>1, <2>2 DEF Within
<1>5. CASE ~Given(query, "tag")
  BY <1>2, <1>3, <1>5 DEF When, Within, Tagged
<1>6. QED
  BY <1>4, <1>5

-----------------------------------------------------------------------------
(* Totals by a column.                                                     *)

LEMMA SumIsTotal == ASSUME NEW entries PROVE SumOf(entries) = TotalDifficulty(entries)
BY DEF SumOf, TotalDifficulty

\* Rows each of which has an entry, that totals the rows with the same entry, add up
\* to what the entries add up to.
LEMMA EntriesAddUp ==
  ASSUME NEW rows, Measured(rows), NEW groups, NEW entry \in Surjection(rows, groups),
         NEW part \in [rows -> SUBSET rows],
         \A r \in rows : entry[r].difficulty = TotalDifficulty(part[r]),
         \A r, s \in rows : s \in part[r] <=> entry[s] = entry[r]
  PROVE  TotalDifficulty(groups) = TotalDifficulty(rows)
<1> DEFINE of == [e \in groups |-> {r \in rows : entry[r] = e}]
<1>1. of \in [groups -> SUBSET rows] /\ \A e \in groups : of[e] = {r \in rows : entry[r] = e}
  OBVIOUS
<1>2. /\ \A r \in rows : entry[r] \in groups
      /\ \A e \in groups : \E r \in rows : entry[r] = e
  BY DEF Surjection
<1>3. IsFiniteSet(groups)
  BY FS_Surjection DEF Measured
<1> HIDE DEF of
<1>4. UNION {of[e] : e \in groups} = rows
  <2>1. \A r \in rows : entry[r] \in groups /\ r \in of[entry[r]]
    BY <1>1, <1>2
  <2>2. QED
    BY <1>1, <2>1
<1>5. ASSUME NEW e \in groups PROVE e.difficulty = TotalDifficulty(of[e])
  <2>1. PICK r \in rows : e = entry[r]
    BY <1>2
  <2>2. of[e] = part[r]
    <3>1. \A s \in rows : s \in of[e] <=> s \in part[r]
      BY <1>1, <2>1
    <3>2. of[e] \subseteq rows /\ part[r] \subseteq rows
      BY <1>1
    <3>3. QED
      BY <3>1, <3>2
  <2>3. QED
    BY <2>1, <2>2
<1>6. \A d, e \in groups : d # e => of[d] \cap of[e] = {}
  BY <1>1
<1>7. TotalDifficulty(groups) = TotalDifficulty(UNION {of[e] : e \in groups})
  BY <1>1, <1>3, <1>5, <1>6, GroupsAddUp
<1>8. QED
  BY <1>4, <1>7

LEMMA WorksAreMeasured ==
  ASSUME works \subseteq Work, NEW rows \in SUBSET works
  PROVE  Measured(rows)
<1>1. IsFiniteSet(rows)
  BY TablesAssumption, FS_Subset
<1>2. QED
  BY <1>1, TablesAssumption DEF Measured

LEMMA TagsAddUp ==
  ASSUME works \subseteq Work, NEW query, DOMAIN query \subseteq Period
  PROVE  SumOf(RankingsTags(works, query)) = TotalDifficulty({w \in works : Within(w, Reached(query))})
<1> DEFINE asked == Strip(query, RankingRoutes.tags)
           matched == {w \in works : Within(w, Reached(query))}
           Of(tag) == {w \in matched : w.tag = tag}
           Group(tag) == [tag |-> tag, difficulty |-> TotalDifficulty(Of(tag)), count |-> Cardinality(Of(tag))]
           groups == {Group(tag) : tag \in {w.tag : w \in matched}}
<1>1. /\ \A n \in Period : Given(asked, n) <=> Given(query, n)
      /\ \A n \in Period : n \in DOMAIN query => asked[n] = query[n]
  BY StripKeeps DEF RankingRoutes
<1>2. \A w : Within(w, Reached(asked)) <=> Within(w, Reached(query))
  <2>1. DOMAIN asked \subseteq Period
    BY StripKeeps
  <2> HIDE DEF asked
  <2>2. QED
    BY <1>1, <2>1, ReachedIs
<1> HIDE DEF asked
<1>3. FindAll(works, BoundBy(asked, Everything)) = matched
  BY <1>2, BoundFinds, EverythingFinds
<1>4. RankingsTags(works, query) = groups
  <2>1. RankingsTags(works, query) = RankTags(works, asked)
    BY DEF RankingsTags, asked
  <2>2. RankTags(works, asked) =
          LET Own(tag) == {w \in FindAll(works, BoundBy(asked, Everything)) : w.tag = tag}
          IN {[tag |-> tag, difficulty |-> TotalDifficulty(Own(tag)), count |-> Cardinality(Own(tag))] :
                tag \in {w.tag : w \in FindAll(works, BoundBy(asked, Everything))}}
    BY DEF RankTags, BoundBy
  <2>3. QED
    BY <1>3, <2>1, <2>2
<1>5. Measured(matched)
  BY WorksAreMeasured
<1> DEFINE entry == [r \in matched |-> Group(r.tag)]
           part  == [r \in matched |-> Of(r.tag)]
<1>6. \A tag : Group(tag).tag = tag /\ Group(tag).difficulty = TotalDifficulty(Of(tag))
  OBVIOUS
<1>7. entry \in Surjection(matched, groups) /\ part \in [matched -> SUBSET matched]
  <2>1. \A r \in matched : Of(r.tag) \in SUBSET matched
    OBVIOUS
  <2> HIDE DEF Group, matched, Of
  <2>2. \A r \in matched : entry[r] \in groups
    OBVIOUS
  <2>3. \A t \in groups : \E r \in matched : entry[r] = t
    OBVIOUS
  <2>4. entry \in [matched -> groups]
    BY <2>2
  <2>5. part \in [matched -> SUBSET matched]
    BY <2>1
  <2> HIDE DEF entry, groups
  <2>6. QED
    BY <2>3, <2>4, <2>5 DEF Surjection
<1>8. TotalDifficulty(groups) = TotalDifficulty(matched)
  <2> HIDE DEF Group, matched, groups
  <2>1. \A r \in matched : entry[r].difficulty = TotalDifficulty(part[r])
    BY <1>6
  <2>2. \A r, s \in matched : s \in part[r] <=> entry[s] = entry[r]
    BY <1>6
  <2> HIDE DEF entry, part
  <2>3. QED
    BY <1>5, <1>7, <2>1, <2>2, EntriesAddUp
<1>9. SumOf(groups) = TotalDifficulty(matched)
  BY <1>8, SumIsTotal
<1>10. QED
  BY <1>4, <1>9 DEF matched

\* What a ranking of content is.
Matching(query)   == {w \in works : Within(w, query) /\ Tagged(w, query)}
ContentOf(rows, c) == {w \in rows : w.content = c}
Type(contents, images, t) ==
  LET typed == {c \in contents : /\ c.content_type # Null
                                 /\ images => c.content_type = "image"}
  IN IF \E c \in typed : c.txid = t
     THEN (CHOOSE c \in typed : c.txid = t).content_type ELSE Null
Entry(rows, type, c) ==
  [content_txid |-> c, content_type |-> type,
   difficulty |-> TotalDifficulty(ContentOf(rows, c)), count |-> Cardinality(ContentOf(rows, c))]
RankedContent(rows, images) ==
  {c \in {w.content : w \in rows} : images => Type(Contents, images, c) = "image"}

LEMMA RankingIs ==
  ASSUME NEW query, NEW images
  PROVE  RankContent(works, Contents, query, images)
           = {Entry(Matching(query), Type(Contents, images, c), c) : c \in RankedContent(Matching(query), images)}
<1> DEFINE rows == Matching(query)
           Group(c) == [content_txid |-> c, difficulty |-> TotalDifficulty(ContentOf(rows, c)),
                        count |-> Cardinality(ContentOf(rows, c))]
           groups == {Group(c) : c \in {w.content : w \in rows}}
           Typed(g) == [content_txid |-> g.content_txid, content_type |-> Type(Contents, images, g.content_txid),
                        difficulty |-> g.difficulty, count |-> g.count]
<1>1. WorkByContent(works, query) = groups
  <2>1. FindAll(works, RankContentWhere(query)) = rows
    BY RankingFinds DEF Matching
  <2>2. WorkByContent(works, query) =
          LET Of(c) == {w \in FindAll(works, RankContentWhere(query)) : w.content = c}
          IN {[content_txid |-> c, difficulty |-> TotalDifficulty(Of(c)), count |-> Cardinality(Of(c))] :
                c \in {w.content : w \in FindAll(works, RankContentWhere(query))}}
    BY DEF WorkByContent
  <2>3. QED
    BY <2>1, <2>2 DEF ContentOf
<1>2. RankContent(works, Contents, query, images)
        = {Typed(g) : g \in {h \in groups : images => Type(Contents, images, h.content_txid) = "image"}}
  BY <1>1 DEF RankContent, WithTypes, Type
<1>3. \A c : /\ Group(c).content_txid = c
             /\ Typed(Group(c)) = Entry(rows, Type(Contents, images, c), c)
  BY DEF Entry
<1> HIDE DEF rows, Group, Typed
<1>4. QED
  BY <1>2, <1>3 DEF RankedContent, rows

LEMMA ContentAddsUp ==
  ASSUME works \subseteq Work, NEW query
  PROVE  SumOf(RankContent(works, Contents, query, FALSE)) = TotalDifficulty(Matching(query))
<1> DEFINE rows == Matching(query)
           EntryOf(c) == Entry(rows, Type(Contents, FALSE, c), c)
           groups == {EntryOf(c) : c \in {w.content : w \in rows}}
           entry == [r \in rows |-> EntryOf(r.content)]
           part  == [r \in rows |-> ContentOf(rows, r.content)]
<1>1. RankContent(works, Contents, query, FALSE) = groups
  <2>1. RankedContent(rows, FALSE) = {w.content : w \in rows}
    BY DEF RankedContent
  <2>2. RankContent(works, Contents, query, FALSE) = {EntryOf(c) : c \in RankedContent(rows, FALSE)}
    BY RankingIs
  <2> HIDE DEF rows, EntryOf
  <2>3. QED
    BY <2>1, <2>2
<1>2. Measured(rows)
  BY WorksAreMeasured DEF Matching
<1>3. \A c : EntryOf(c).content_txid = c /\ EntryOf(c).difficulty = TotalDifficulty(ContentOf(rows, c))
  BY DEF Entry
<1>4. entry \in Surjection(rows, groups) /\ part \in [rows -> SUBSET rows]
  BY DEF Surjection, ContentOf
<1>5. TotalDifficulty(groups) = TotalDifficulty(rows)
  <2> HIDE DEF EntryOf, rows, groups
  <2>1. \A r \in rows : entry[r].difficulty = TotalDifficulty(part[r])
    BY <1>3
  <2>2. \A r, s \in rows : s \in part[r] <=> entry[s] = entry[r]
    BY <1>3 DEF ContentOf
  <2> HIDE DEF entry, part
  <2>3. QED
    BY <1>2, <1>4, <2>1, <2>2, EntriesAddUp
<1>6. QED
  BY <1>1, <1>5, SumIsTotal

LEMMA MinersAddUp ==
  ASSUME works \subseteq Work, NEW query, DOMAIN query \subseteq Period
  PROVE  SumOf(MinersIndex(works, query))
           = TotalDifficulty({w \in works : w.minerPubKey # Null /\ Within(w, Reached(query))})
<1> DEFINE asked == Strip(query, MinersRoute)
           named == Assign(Everything, "minerPubKey", "ne", Null)
           matched == {w \in works : w.minerPubKey # Null /\ Within(w, Reached(query))}
           Of(m) == {w \in matched : w.minerPubKey = m}
           Group(m) == [minerPubKey |-> m, count |-> Cardinality(Of(m)),
                        difficulty |-> TotalDifficulty(Of(m)), satoshis |-> TotalValue(Of(m))]
           groups == {Group(m) : m \in {w.minerPubKey : w \in matched}}
           entry == [r \in matched |-> Group(r.minerPubKey)]
           part  == [r \in matched |-> Of(r.minerPubKey)]
<1>1. /\ \A n \in Period : Given(asked, n) <=> Given(query, n)
      /\ \A n \in Period : n \in DOMAIN query => asked[n] = query[n]
  BY StripKeeps DEF MinersRoute
<1>2. \A w : Within(w, Reached(asked)) <=> Within(w, Reached(query))
  <2>1. DOMAIN asked \subseteq Period
    BY StripKeeps
  <2> HIDE DEF asked
  <2>2. QED
    BY <1>1, <2>1, ReachedIs
<1> HIDE DEF asked
<1>3. FindAll(works, BoundBy(asked, named)) = matched
  <2>1. DOMAIN Everything = {} /\ FindAll(works, Everything) = works
    BY EverythingFinds
  <2>2. "timestamp" \notin DOMAIN named
    BY <2>1 DEF Assign
  <2>3. "minerPubKey" \notin DOMAIN Everything
    BY <2>1
  <2>4. FindAll(works, named) = {w \in FindAll(works, Everything) :
                                  Satisfies(w["minerPubKey"], [op |-> "ne", value |-> Null])}
    BY <2>3, AssignFinds
  <2>5. \A w : Satisfies(w["minerPubKey"], [op |-> "ne", value |-> Null]) <=> w.minerPubKey # Null
    BY DEF Satisfies
  <2> HIDE DEF named
  <2>6. FindAll(works, BoundBy(asked, named)) = {w \in FindAll(works, named) : Within(w, Reached(asked))}
    BY <1>2, <2>2, BoundFinds
  <2>7. QED
    BY <1>2, <2>1, <2>4, <2>5, <2>6
<1>4. MinersIndex(works, query) = groups
  <2>1. MinersIndex(works, query) = ListMiners(works, asked)
    BY DEF MinersIndex, asked
  <2>2. ListMiners(works, asked) =
          LET all == FindAll(works, BoundBy(asked, named))
              Own(m) == {w \in all : w.minerPubKey = m}
          IN {[minerPubKey |-> m, count |-> Cardinality(Own(m)),
               difficulty |-> TotalDifficulty(Own(m)), satoshis |-> TotalValue(Own(m))] :
                m \in {w.minerPubKey : w \in all}}
    BY DEF ListMiners, BoundBy
  <2>3. QED
    BY <1>3, <2>1, <2>2
<1>5. Measured(matched)
  BY WorksAreMeasured
<1>6. \A m : Group(m).minerPubKey = m /\ Group(m).difficulty = TotalDifficulty(Of(m))
  OBVIOUS
<1>7. entry \in Surjection(matched, groups) /\ part \in [matched -> SUBSET matched]
  <2>1. \A r \in matched : Of(r.minerPubKey) \in SUBSET matched
    OBVIOUS
  <2> HIDE DEF Group, matched, Of
  <2>2. \A r \in matched : entry[r] \in groups
    OBVIOUS
  <2>3. \A t \in groups : \E r \in matched : entry[r] = t
    OBVIOUS
  <2>4. entry \in [matched -> groups]
    BY <2>2
  <2>5. part \in [matched -> SUBSET matched]
    BY <2>1
  <2> HIDE DEF entry, groups
  <2>6. QED
    BY <2>3, <2>4, <2>5 DEF Surjection
<1>8. TotalDifficulty(groups) = TotalDifficulty(matched)
  <2> HIDE DEF Group, matched, groups
  <2>1. \A r \in matched : entry[r].difficulty = TotalDifficulty(part[r])
    BY <1>6
  <2>2. \A r, s \in matched : s \in part[r] <=> entry[s] = entry[r]
    BY <1>6
  <2> HIDE DEF entry, part
  <2>3. QED
    BY <1>5, <1>7, <2>1, <2>2, EntriesAddUp
<1>9. SumOf(groups) = TotalDifficulty(matched)
  BY <1>8, SumIsTotal
<1>10. QED
  BY <1>4, <1>9 DEF matched

LEMMA PeriodQuery ==
  ASSUME NEW query \in PeriodQueries
  PROVE  DOMAIN query \subseteq Period
BY DEF PeriodQueries

LEMMA IndexIs ==
  ASSUME NEW query, DOMAIN query \subseteq Period \cup {"tag"}
  PROVE  \E asked : /\ RankingsIndex(works, Contents, query) = RankContent(works, Contents, asked, FALSE)
                    /\ RankingsImages(works, Contents, query) = RankContent(works, Contents, asked, TRUE)
                    /\ Matching(asked) = Matching(query)
<1> DEFINE asked == Strip(query, RankingRoutes.rankings)
<1>1. RankingRoutes.rankings = Period \cup {"tag"} /\ RankingRoutes.images = Period \cup {"tag"}
  BY DEF RankingRoutes
<1>2. /\ \A n \in Period \cup {"tag"} : Given(asked, n) <=> Given(query, n)
      /\ \A n \in Period \cup {"tag"} : n \in DOMAIN query => asked[n] = query[n]
  BY <1>1, StripKeeps
<1>3. /\ RankingsIndex(works, Contents, query) = RankContent(works, Contents, asked, FALSE)
      /\ RankingsImages(works, Contents, query) = RankContent(works, Contents, asked, TRUE)
  BY <1>1 DEF RankingsIndex, RankingsImages
<1> HIDE DEF asked
<1>4. \A w : Within(w, asked) /\ Tagged(w, asked) <=> Within(w, query) /\ Tagged(w, query)
  BY <1>2 DEF Within, Tagged, Given, Period
<1>5. Matching(asked) = Matching(query)
  BY <1>4 DEF Matching
<1>6. QED
  BY <1>3, <1>5

LEMMA TotalsAlwaysAgree ==
  ASSUME works \subseteq Work
  PROVE  TotalsAgree
<1> SUFFICES ASSUME NEW query \in PeriodQueries
             PROVE  /\ SumOf(RankingsIndex(works, Contents, Reached(query))) = SumOf(RankingsTags(works, query))
                    /\ SumOf(MinersIndex(works, query))
                         + TotalDifficulty({w \in works : w.minerPubKey = Null /\ Within(w, Reached(query))})
                         = SumOf(RankingsTags(works, query))
  BY DEF TotalsAgree
<1> DEFINE left == Reached(query)
           matched   == {w \in works : Within(w, left)}
           named   == {w \in works : w.minerPubKey # Null /\ Within(w, left)}
           unnamed == {w \in works : w.minerPubKey = Null /\ Within(w, left)}
<1>1. DOMAIN query \subseteq Period /\ DOMAIN left \subseteq Period
  BY PeriodQuery, ReachedIs
<1> HIDE DEF left
<1>2. SumOf(RankingsTags(works, query)) = TotalDifficulty(matched)
  BY <1>1, TagsAddUp DEF left
<1>3. SumOf(MinersIndex(works, query)) = TotalDifficulty(named)
  BY <1>1, MinersAddUp DEF left
<1>4. SumOf(RankingsIndex(works, Contents, left)) = TotalDifficulty(matched)
  <2>1. PICK asked : /\ RankingsIndex(works, Contents, left) = RankContent(works, Contents, asked, FALSE)
                     /\ Matching(asked) = Matching(left)
    BY <1>1, IndexIs
  <2>2. ~Given(left, "tag")
    BY <1>1 DEF Given, Period
  <2>3. Matching(left) = matched
    BY <2>2 DEF Matching, Tagged
  <2>4. QED
    BY <2>1, <2>3, ContentAddsUp
<1>5. /\ Measured(works) /\ named \in SUBSET works /\ unnamed \in SUBSET works
      /\ named \cap unnamed = {} /\ named \cup unnamed = matched
  BY WorksAreMeasured
<1> HIDE DEF matched, named, unnamed
<1>6. TotalDifficulty(matched) = TotalDifficulty(named) + TotalDifficulty(unnamed)
  BY <1>5, TotalsAddUp
<1>7. QED
  BY <1>2, <1>3, <1>4, <1>6 DEF unnamed, left

LEMMA EndpointsAlwaysAgree ==
  ASSUME works \subseteq Work
  PROVE  EndpointsAgree
<1> DEFINE DifficultyOf(txid) == TotalDifficulty(ContentOf(works, txid))
<1>1. PICK asked : /\ RankingsIndex(works, Contents, Everything) = RankContent(works, Contents, asked, FALSE)
                   /\ Matching(asked) = Matching(Everything)
  BY EverythingFinds, IndexIs
<1>2. Matching(Everything) = works
  BY EverythingFinds DEF Matching, Within, Tagged, Given
<1> SUFFICES ASSUME NEW ranking \in RankingsIndex(works, Contents, Everything), NEW txid, txid = ranking.content_txid
             PROVE  /\ SumOf(ContentTags(works, txid)) = ranking.difficulty
                    /\ \A c \in Contents : c.txid = txid /\ c.context_txid # Null =>
                         [txid |-> txid, difficulty |-> ranking.difficulty]
                           \in RepliesIndex(works, Contents, c.context_txid)
                    /\ \A s \in Contract : s.origin_txid = txid /\ s.class_name \in {"Issue", "Meeting"} =>
                         [origin |-> s.origin, difficulty |-> ranking.difficulty]
                           \in RankingsIssues(works, Contract) \cup RankingsMeetings(works, Contract)
  BY DEF EndpointsAgree
<1>3. ranking.difficulty = DifficultyOf(txid) /\ \E w \in works : w.content = txid
  <2>1. PICK c \in RankedContent(works, FALSE) : ranking = Entry(works, Type(Contents, FALSE, c), c)
    <3>1. RankContent(works, Contents, asked, FALSE)
            = {Entry(Matching(asked), Type(Contents, FALSE, c), c) : c \in RankedContent(Matching(asked), FALSE)}
      BY RankingIs
    <3>2. RankContent(works, Contents, asked, FALSE)
            = {Entry(works, Type(Contents, FALSE, c), c) : c \in RankedContent(works, FALSE)}
      BY <1>1, <1>2, <3>1
    <3>3. QED
      BY <1>1, <3>2
  <2>2. ranking.content_txid = c /\ ranking.difficulty = DifficultyOf(c)
    BY <2>1 DEF Entry
  <2>3. QED
    BY <2>1, <2>2 DEF RankedContent
<1>4. SumOf(ContentTags(works, txid)) = DifficultyOf(txid)
  <2> DEFINE matched == ContentOf(works, txid)
             Of(tag) == {w \in works : w.content = txid /\ w.tag = tag}
             Group(tag) == [tag |-> tag, difficulty |-> TotalDifficulty(Of(tag))]
             groups == {Group(tag) : tag \in {w.tag : w \in matched}}
             entry == [r \in matched |-> Group(r.tag)]
             part  == [r \in matched |-> Of(r.tag)]
  <2>1. ContentTags(works, txid) = groups
    BY DEF ContentTags, ContentOf
  <2>2. Measured(matched)
    BY WorksAreMeasured DEF ContentOf
  <2>3. \A tag : Group(tag).tag = tag /\ Group(tag).difficulty = TotalDifficulty(Of(tag))
    OBVIOUS
  <2>4. entry \in Surjection(matched, groups) /\ part \in [matched -> SUBSET matched]
    <3>1. \A tag : Of(tag) \subseteq matched
      BY DEF ContentOf
    <3> HIDE DEF matched, Of
    <3>2. part \in [matched -> SUBSET matched]
      BY <3>1
    <3> HIDE DEF Group
    <3>3. entry \in Surjection(matched, groups)
      BY DEF Surjection
    <3>4. QED
      BY <3>2, <3>3
  <2>5. \A r, s \in matched : r \in works /\ r.content = txid
    BY DEF ContentOf
  <2>6. TotalDifficulty(groups) = TotalDifficulty(matched)
    <3> HIDE DEF Group, matched, groups
    <3>1. \A r \in matched : entry[r].difficulty = TotalDifficulty(part[r])
      BY <2>3
    <3>2. \A r, s \in matched : s \in part[r] <=> entry[s] = entry[r]
      BY <2>3, <2>5
    <3> HIDE DEF entry, part
    <3>3. QED
      BY <2>2, <2>4, <3>1, <3>2, EntriesAddUp
  <2>7. QED
    BY <2>1, <2>6, SumIsTotal
<1>5. ASSUME NEW c \in Contents, c.txid = txid, c.context_txid # Null
      PROVE  [txid |-> txid, difficulty |-> DifficultyOf(txid)] \in RepliesIndex(works, Contents, c.context_txid)
  BY <1>5 DEF RepliesIndex, ContentOf
<1>6. ASSUME NEW s \in Contract, s.origin_txid = txid, s.class_name \in {"Issue", "Meeting"}
      PROVE  [origin |-> s.origin, difficulty |-> DifficultyOf(txid)]
               \in RankingsIssues(works, Contract) \cup RankingsMeetings(works, Contract)
  <2>1. {w \in works : w.content = s.origin_txid} # {}
    BY <1>3, <1>6
  <2>2. [origin |-> s.origin, difficulty |-> DifficultyOf(txid)]
          \in RankSmartContracts(works, Contract, s.class_name)
    BY <1>6, <2>1 DEF RankSmartContracts, ContentOf
  <2>3. QED
    BY <1>6, <2>2 DEF RankingsIssues, RankingsMeetings
<1> HIDE DEF DifficultyOf
<1>7. QED
  BY <1>3, <1>4, <1>5, <1>6

\* A row of Contents is found whether or not images are asked for.
LEMMA TypesAgree ==
  ASSUME NEW t
  PROVE  Type(Contents, TRUE, t) = "image" <=> Type(Contents, FALSE, t) = "image"
<1> DEFINE Typed(images) == {c \in Contents : c.content_type # Null /\ (images => c.content_type = "image")}
           At(images) == CHOOSE c \in Typed(images) : c.txid = t
<1>1. \A images : Type(Contents, images, t)
                   = IF \E c \in Typed(images) : c.txid = t THEN At(images).content_type ELSE Null
  BY DEF Type
<1>2. \A c, d \in Contents : c.txid = d.txid => c = d
  BY TablesAssumption
<1>3. \A images : (\E c \in Typed(images) : c.txid = t) => At(images) \in Typed(images) /\ At(images).txid = t
  OBVIOUS
<1>4. /\ Typed(TRUE) \subseteq Contents /\ Typed(FALSE) \subseteq Contents
      /\ \A c : c \in Typed(TRUE) <=> c \in Typed(FALSE) /\ c.content_type = "image"
  BY DEF Null
<1> HIDE DEF Typed, At
<1>5. ASSUME Type(Contents, TRUE, t) = "image" PROVE Type(Contents, FALSE, t) = "image"
  <2>1. /\ At(TRUE) \in Typed(TRUE) /\ At(TRUE).txid = t /\ At(TRUE).content_type = "image"
    BY <1>1, <1>3, <1>5 DEF Null
  <2>2. At(TRUE) \in Typed(FALSE)
    BY <1>4, <2>1
  <2>3. At(FALSE) \in Typed(FALSE) /\ At(FALSE).txid = t
    BY <1>3, <2>1, <2>2
  <2>4. At(FALSE) = At(TRUE)
    BY <1>2, <1>4, <2>1, <2>3
  <2>5. QED
    BY <1>1, <2>1, <2>2, <2>4
<1>6. ASSUME Type(Contents, FALSE, t) = "image" PROVE Type(Contents, TRUE, t) = "image"
  <2>1. /\ At(FALSE) \in Typed(FALSE) /\ At(FALSE).txid = t /\ At(FALSE).content_type = "image"
    BY <1>1, <1>3, <1>6 DEF Null
  <2>2. At(FALSE) \in Typed(TRUE)
    BY <1>4, <2>1
  <2>3. At(TRUE) \in Typed(TRUE) /\ At(TRUE).txid = t
    BY <1>3, <2>1, <2>2
  <2>4. At(FALSE) = At(TRUE)
    BY <1>2, <1>4, <2>1, <2>3
  <2>5. QED
    BY <1>1, <2>1, <2>2, <2>4
<1>7. QED
  BY <1>5, <1>6

LEMMA PeriodsAreAlwaysRanked ==
  ASSUME works \subseteq Work
  PROVE  PeriodsAreRanked
<1> SUFFICES ASSUME NEW period \in PeriodQueries, NEW tag \in {w.tag : w \in works}
             PROVE  LET query == With(period, "tag", tag)
                        all   == RankingsIndex(works, Contents, query)
                        work  == {w \in works : w.tag = tag /\ Within(w, period)}
                    IN /\ {r.content_txid : r \in all} = {w.content : w \in work}
                       /\ SumOf(all) = TotalDifficulty(work)
                       /\ RankingsImages(works, Contents, query) = {r \in all : r.content_type = "image"}
  BY DEF PeriodsAreRanked
<1> DEFINE query == With(period, "tag", tag)
           all   == RankingsIndex(works, Contents, query)
           work  == {w \in works : w.tag = tag /\ Within(w, period)}
<1>1. /\ DOMAIN query \subseteq Period \cup {"tag"} /\ Given(query, "tag") /\ query["tag"] = tag
      /\ \A n \in Period : (n \in DOMAIN query <=> n \in DOMAIN period) /\ (n \in DOMAIN period => query[n] = period[n])
  BY PeriodQuery, TablesAssumption DEF With, Given, Period
<1> HIDE DEF query
<1>2. Matching(query) = work
  <2>1. \A w \in works : Tagged(w, query) <=> w.tag = tag
    BY <1>1 DEF Tagged
  <2>2. \A w \in works : Within(w, query) <=> Within(w, period)
    BY <1>1 DEF Within, Given, Period
  <2>3. QED
    BY <2>1, <2>2 DEF Matching
<1>3. PICK asked : /\ all = RankContent(works, Contents, asked, FALSE)
                   /\ RankingsImages(works, Contents, query) = RankContent(works, Contents, asked, TRUE)
                   /\ Matching(asked) = work
  BY <1>1, <1>2, IndexIs
<1> DEFINE Of(images) == {Entry(work, Type(Contents, images, c), c) : c \in RankedContent(work, images)}
<1> HIDE DEF all, work
<1>4. all = Of(FALSE) /\ RankingsImages(works, Contents, query) = Of(TRUE)
  <2>1. RankContent(works, Contents, asked, FALSE)
          = {Entry(Matching(asked), Type(Contents, FALSE, c), c) : c \in RankedContent(Matching(asked), FALSE)}
    BY RankingIs
  <2>2. RankContent(works, Contents, asked, TRUE)
          = {Entry(Matching(asked), Type(Contents, TRUE, c), c) : c \in RankedContent(Matching(asked), TRUE)}
    BY RankingIs
  <2>3. RankContent(works, Contents, asked, FALSE) = Of(FALSE)
    BY <1>3, <2>1
  <2>4. RankContent(works, Contents, asked, TRUE) = Of(TRUE)
    BY <1>3, <2>2
  <2>5. QED
    BY <1>3, <2>3, <2>4
<1>5. \A type, c : Entry(work, type, c).content_txid = c /\ Entry(work, type, c).content_type = type
  BY DEF Entry
<1>6. {r.content_txid : r \in all} = {w.content : w \in work}
  <2>1. RankedContent(work, FALSE) = {w.content : w \in work}
    BY DEF RankedContent
  <2>2. {r.content_txid : r \in all} = RankedContent(work, FALSE)
    <3>1. ASSUME NEW c \in RankedContent(work, FALSE) PROVE \E r \in all : r.content_txid = c
      <4>1. Entry(work, Type(Contents, FALSE, c), c) \in all
        BY <1>4
      <4>2. QED
        BY <1>5, <4>1
    <3>2. ASSUME NEW r \in all PROVE r.content_txid \in RankedContent(work, FALSE)
      <4>1. PICK c \in RankedContent(work, FALSE) : r = Entry(work, Type(Contents, FALSE, c), c)
        BY <1>4
      <4>2. QED
        BY <1>5, <4>1
    <3>3. QED
      BY <3>1, <3>2
  <2>3. QED
    BY <2>1, <2>2
<1>7. SumOf(all) = TotalDifficulty(work)
  BY <1>3, ContentAddsUp
<1>8. Of(TRUE) = {r \in Of(FALSE) : r.content_type = "image"}
  <2>1. \A c \in RankedContent(work, FALSE) : c \in RankedContent(work, TRUE) <=> Type(Contents, FALSE, c) = "image"
    BY TypesAgree DEF RankedContent
  <2>2. RankedContent(work, TRUE) \subseteq RankedContent(work, FALSE)
    BY DEF RankedContent
  <2>3. \A c \in RankedContent(work, TRUE) : Type(Contents, TRUE, c) = "image"
    BY DEF RankedContent
  <2>4. \A c \in RankedContent(work, TRUE) :
          Entry(work, Type(Contents, TRUE, c), c) = Entry(work, Type(Contents, FALSE, c), c)
    BY <2>2, <2>3, TypesAgree
  <2>5. ASSUME NEW r PROVE r \in Of(TRUE) <=> r \in Of(FALSE) /\ r.content_type = "image"
    <3>1. ASSUME r \in Of(TRUE) PROVE r \in Of(FALSE) /\ r.content_type = "image"
      <4>1. PICK c \in RankedContent(work, TRUE) : r = Entry(work, Type(Contents, TRUE, c), c)
        BY <3>1
      <4>2. r = Entry(work, Type(Contents, FALSE, c), c) /\ c \in RankedContent(work, FALSE)
        BY <2>2, <2>4, <4>1
      <4>3. r.content_type = "image"
        BY <1>5, <2>3, <4>1
      <4>4. QED
        BY <4>2, <4>3
    <3>2. ASSUME r \in Of(FALSE), r.content_type = "image" PROVE r \in Of(TRUE)
      <4>1. PICK c \in RankedContent(work, FALSE) : r = Entry(work, Type(Contents, FALSE, c), c)
        BY <3>2
      <4>2. c \in RankedContent(work, TRUE)
        BY <1>5, <2>1, <3>2, <4>1
      <4>3. QED
        BY <2>4, <4>1, <4>2
    <3>3. QED
      BY <3>1, <3>2
  <2> HIDE DEF Of
  <2>6. QED
    BY <2>5
<1>9. QED
  BY <1>4, <1>6, <1>7, <1>8 DEF query, all, work

-----------------------------------------------------------------------------
(* Lists with limits and offsets.                                          *)

LEMMA JobsAreTyped ==
  ASSUME works \subseteq Work
  PROVE  /\ IsFiniteSet(Jobs)
         /\ \A j \in Jobs : /\ j.spent \in BOOLEAN /\ j.difficulty \in Nat
                            /\ j.profitability \in Int /\ j.createdAt \in Int
<1> DEFINE rows == Work \cup Posted
           job == [row \in rows |-> With(row, "spent", row \in works)]
<1>1. job \in Surjection(rows, Jobs)
  BY DEF Jobs, Surjection
<1>2. IsFiniteSet(rows)
  BY TablesAssumption, FS_Union
<1>3. IsFiniteSet(Jobs)
  BY <1>1, <1>2, FS_Surjection
<1>4. ASSUME NEW row \in rows, NEW j, j = With(row, "spent", row \in works)
      PROVE  /\ j.spent \in BOOLEAN /\ j.difficulty \in Nat
             /\ j.profitability \in Int /\ j.createdAt \in Int
  BY <1>4, TablesAssumption DEF With
<1>5. QED
  BY <1>3, <1>4 DEF Jobs

LEMMA JobsAreAlwaysInRange ==
  ASSUME works \subseteq Work
  PROVE  JobsAreInRange
<1> SUFFICES ASSUME NEW least \in 0 .. 2, NEW most \in 0 .. 2,
                    NEW page \in BoostJobsIndex(Jobs, [minDifficulty |-> least, maxDifficulty |-> most, limit |-> 1])
             PROVE  LET Fits(j) == /\ ~j.spent /\ j.profitability > 0 /\ j.script # Null
                                   /\ least <= j.difficulty /\ (most = 0 \/ j.difficulty <= most)
                    IN /\ \A j \in page : Fits(j)
                       /\ \A j \in Jobs \ page : Fits(j) =>
                            \E listed \in page : listed.profitability >= j.profitability
  BY DEF JobsAreInRange
<1> DEFINE request == [minDifficulty |-> least, maxDifficulty |-> most, limit |-> 1]
           query == Strip(request, JobsRoute)
           Fits(j) == /\ ~j.spent /\ j.profitability > 0 /\ j.script # Null
                      /\ least <= j.difficulty /\ (most = 0 \/ j.difficulty <= most)
           matched == FindAll(Jobs, JobsWhere(query))
           unspent == Assign(Everything, "spent", "eq", FALSE)
           scripted == Assign(unspent, "script", "ne", Null)
           open == Assign(scripted, "profitability", "gt", 0)
           below == When(most # 0, open, Assign(open, "difficulty", "lte", most))
<1>1. /\ ~Given(query, "tag") /\ Given(query, "limit") /\ query["limit"] = 1
      /\ Given(query, "maxDifficulty") <=> most # 0
      /\ Given(query, "minDifficulty") <=> least # 0
      /\ query["maxDifficulty"] = most /\ query["minDifficulty"] = least
  BY DEF Strip, Restrict, Given, JobsRoute
<1>2. page \in Firsts(matched, "profitability", "desc", 1)
  BY <1>1 DEF BoostJobsIndex
<1> HIDE DEF query
<1>3. JobsWhere(query) = When(least # 0, below, Extend(below, "difficulty", "gte", least))
  BY <1>1 DEF JobsWhere, When
<1>4. DOMAIN unspent = {"spent"} /\ FindAll(Jobs, unspent) = {j \in Jobs : j.spent = FALSE}
  <2>1. "spent" \notin DOMAIN Everything /\ FindAll(Jobs, Everything) = Jobs
    BY EverythingFinds
  <2>2. FindAll(Jobs, unspent) = {j \in FindAll(Jobs, Everything) :
                                    Satisfies(j["spent"], [op |-> "eq", value |-> FALSE])}
    <3>1. ASSUME NEW no
          PROVE  FindAll(Jobs, Assign(Everything, "spent", "eq", no))
                   = {j \in FindAll(Jobs, Everything) : Satisfies(j["spent"], [op |-> "eq", value |-> no])}
      BY <2>1, AssignFinds
    <3>2. QED
      BY <3>1
  <2>3. \A j : Satisfies(j["spent"], [op |-> "eq", value |-> FALSE]) <=> j.spent = FALSE
    BY DEF Satisfies
  <2>4. QED
    BY <2>1, <2>2, <2>3, EverythingFinds DEF Assign
<1> HIDE DEF unspent
<1>5. DOMAIN scripted = {"spent", "script"} /\ FindAll(Jobs, scripted) = {j \in Jobs : j.spent = FALSE /\ j.script # Null}
  <2>1. FindAll(Jobs, scripted) = {j \in FindAll(Jobs, unspent) :
                                     Satisfies(j["script"], [op |-> "ne", value |-> Null])}
    <3>1. "script" \notin DOMAIN unspent
      BY <1>4
    <3>2. QED
      BY <3>1, AssignFinds
  <2>2. \A j : Satisfies(j["script"], [op |-> "ne", value |-> Null]) <=> j.script # Null
    BY DEF Satisfies
  <2>3. QED
    BY <1>4, <2>1, <2>2 DEF Assign
<1> HIDE DEF scripted
<1>6. /\ DOMAIN open = {"spent", "script", "profitability"}
      /\ FindAll(Jobs, open) = {j \in Jobs : j.spent = FALSE /\ j.script # Null /\ j.profitability > 0}
      /\ open = [c \in DOMAIN open |-> open[c]]
  <2>1. FindAll(Jobs, open) = {j \in FindAll(Jobs, scripted) :
                                 Satisfies(j["profitability"], [op |-> "gt", value |-> 0])}
    <3>1. "profitability" \notin DOMAIN scripted
      BY <1>5
    <3>2. QED
      BY <3>1, AssignFinds
  <2>2. \A j : Satisfies(j["profitability"], [op |-> "gt", value |-> 0]) <=> j.profitability > 0
    BY DEF Satisfies
  <2>3. DOMAIN open = {"spent", "script", "profitability"} /\ open = [c \in DOMAIN open |-> open[c]]
    BY <1>5 DEF Assign
  <2> HIDE DEF open
  <2>4. QED
    BY <1>5, <2>1, <2>2, <2>3
<1> HIDE DEF open
<1>7. /\ FindAll(Jobs, below) = {j \in Jobs : /\ j.spent = FALSE /\ j.script # Null /\ j.profitability > 0
                                              /\ most = 0 \/ j.difficulty <= most}
      /\ below = [c \in DOMAIN below |-> below[c]]
  <2>1. CASE most = 0
    BY <1>6, <2>1 DEF When
  <2>2. CASE most # 0
    <3>1. below = Assign(open, "difficulty", "lte", most)
      BY <2>2 DEF When
    <3>2. FindAll(Jobs, below) = {j \in FindAll(Jobs, open) :
                                    Satisfies(j["difficulty"], [op |-> "lte", value |-> most])}
      <4>1. "difficulty" \notin DOMAIN open
        BY <1>6
      <4>2. QED
        BY <3>1, <4>1, AssignFinds
    <3>3. \A j : Satisfies(j["difficulty"], [op |-> "lte", value |-> most]) <=> j.difficulty <= most
      BY DEF Satisfies
    <3>4. below = [c \in DOMAIN below |-> below[c]]
      BY <3>1 DEF Assign
    <3> HIDE DEF below
    <3>5. QED
      BY <1>6, <2>2, <3>2, <3>3, <3>4
  <2>3. QED
    BY <2>1, <2>2
<1> HIDE DEF below
<1>8. matched = {j \in Jobs : Fits(j)}
  <2>1. CASE least = 0
    <3>1. matched = FindAll(Jobs, below)
      BY <1>3, <2>1 DEF When
    <3>2. \A j \in Jobs : least <= j.difficulty /\ j.spent \in BOOLEAN
      BY <2>1, JobsAreTyped
    <3> HIDE DEF matched
    <3>3. QED
      BY <1>7, <3>1, <3>2
  <2>2. CASE least # 0
    <3>1. matched = {j \in FindAll(Jobs, below) : Satisfies(j["difficulty"], [op |-> "gte", value |-> least])}
      BY <1>3, <1>7, <2>2, ExtendFinds DEF When
    <3>2. \A j : Satisfies(j["difficulty"], [op |-> "gte", value |-> least]) <=> j.difficulty >= least
      BY DEF Satisfies
    <3>3. \A j \in Jobs : j.spent \in BOOLEAN /\ j.difficulty \in Nat
      BY JobsAreTyped
    <3> HIDE DEF matched
    <3>4. QED
      BY <1>7, <3>1, <3>2, <3>3
  <2>3. QED
    BY <2>1, <2>2
<1> HIDE DEF matched, Fits
<1>9. /\ page \subseteq matched
      /\ Cardinality(page) = IF 1 < Cardinality(matched) THEN 1 ELSE Cardinality(matched)
      /\ \A p \in page, r \in matched \ page : p["profitability"] >= r["profitability"]
  BY <1>2 DEF Firsts, kSubset
<1>10. ASSUME NEW j \in matched PROVE page # {}
  <2>1. IsFiniteSet(matched) /\ matched # {}
    BY <1>8, JobsAreTyped, FS_Subset
  <2>2. Cardinality(matched) \in Nat /\ Cardinality(matched) # 0 /\ Cardinality({}) = 0
    BY <2>1, FS_CardinalityType, FS_EmptySet
  <2>3. QED
    BY <1>9, <2>2
<1>11. /\ \A j \in page : Fits(j)
       /\ \A j \in Jobs \ page : Fits(j) =>
            \E listed \in page : listed.profitability >= j.profitability
  BY <1>8, <1>9, <1>10
<1>12. QED
  BY <1>11 DEF Fits

\* The rows that an order may put before a row, wherever it breaks a tie.
Ahead(rows, column, order, row) ==
  {r \in rows \ {row} : IF order = "desc" THEN r[column] >= row[column] ELSE r[column] <= row[column]}

\* A row is on the page after them.
LEMMA OnItsPage ==
  ASSUME NEW rows, IsFiniteSet(rows), NEW column, NEW order, \A r \in rows : r[column] \in Int,
         NEW row \in rows
  PROVE  LET place == Cardinality(Ahead(rows, column, order, row)) IN
         place \in 0 .. Cardinality(rows) - 1 /\ row \in UNION Pages(rows, column, order, 1, place)
<1> DEFINE ahead == Ahead(rows, column, order, row)
           place == Cardinality(ahead)
           rest  == rows \ ahead
<1>1. ahead \in SUBSET rows /\ row \in rest
  BY DEF Ahead
<1>2. \A p \in ahead, r \in rest : IF order = "desc" THEN p[column] >= r[column] ELSE p[column] <= r[column]
  BY DEF Ahead
<1>3. \A r \in rest : IF order = "desc" THEN row[column] >= r[column] ELSE row[column] <= r[column]
  BY DEF Ahead
<1> HIDE DEF ahead
<1>4. /\ IsFiniteSet(ahead) /\ place \in Nat /\ Cardinality(rows) \in Nat /\ place < Cardinality(rows)
      /\ IsFiniteSet(rest) /\ Cardinality(rest) \in Nat /\ Cardinality(rest) # 0
  <2>1. IsFiniteSet(ahead) /\ place <= Cardinality(rows) /\ (place = Cardinality(rows) => ahead = rows)
    BY <1>1, FS_Subset
  <2>2. ahead # rows /\ rest # {} /\ IsFiniteSet(rest)
    BY <1>1, FS_Difference
  <2> HIDE DEF rest
  <2>3. place \in Nat /\ Cardinality(rows) \in Nat /\ Cardinality(rest) \in Nat /\ Cardinality(rest) # 0
    BY <2>1, <2>2, FS_CardinalityType, FS_EmptySet
  <2>4. QED
    BY <2>1, <2>2, <2>3
<1>5. ahead \in Firsts(rows, column, order, place)
  <2>1. place = IF place < Cardinality(rows) THEN place ELSE Cardinality(rows)
    BY <1>4
  <2>2. ahead \in kSubset(IF place < Cardinality(rows) THEN place ELSE Cardinality(rows), rows)
    BY <1>1, <2>1 DEF kSubset
  <2>3. QED
    BY <1>2, <2>2 DEF Firsts
<1>6. {row} \in Firsts(rest, column, order, 1)
  <2>1. Cardinality({row}) = 1
    BY FS_Singleton
  <2>2. 1 = IF 1 < Cardinality(rest) THEN 1 ELSE Cardinality(rest)
    BY <1>4
  <2>3. {row} \in kSubset(IF 1 < Cardinality(rest) THEN 1 ELSE Cardinality(rest), rest)
    BY <1>1, <2>1, <2>2 DEF kSubset
  <2>4. \A p \in {row}, r \in rest \ {row} : IF order = "desc" THEN p[column] >= r[column] ELSE p[column] <= r[column]
    BY <1>3
  <2> HIDE DEF rest
  <2>5. QED
    BY <2>3, <2>4 DEF Firsts
<1>7. {row} \in Pages(rows, column, order, 1, place)
  BY <1>5, <1>6 DEF Pages
<1>8. QED
  BY <1>4, <1>7 DEF ahead

\* A row that is added moves others by one page at most, and to later ones only.
LEMMA WalkFindsAll ==
  ASSUME NEW rows, IsFiniteSet(rows), NEW column, NEW order, \A r \in rows : r[column] \in Int,
         NEW later \in rows, NEW row \in rows \ {later}, NEW pages \in 0 .. Cardinality(rows) - 1
  PROVE  \/ \E i \in 0 .. (pages - 1) : row \in UNION Pages(rows \ {later}, column, order, 1, i)
         \/ \E i \in pages .. Cardinality(rows) - 1 : row \in UNION Pages(rows, column, order, 1, i)
<1> DEFINE fewer  == rows \ {later}
           before == Cardinality(Ahead(fewer, column, order, row))
           after  == Cardinality(Ahead(rows, column, order, row))
<1>1. IsFiniteSet(fewer) /\ row \in fewer /\ row \in rows /\ \A r \in fewer : r[column] \in Int
  BY FS_RemoveElement
<1>2. after \in 0 .. Cardinality(rows) - 1 /\ row \in UNION Pages(rows, column, order, 1, after)
  BY <1>1, OnItsPage
<1>3. before \in 0 .. Cardinality(fewer) - 1 /\ row \in UNION Pages(fewer, column, order, 1, before)
  <2> HIDE DEF fewer
  <2>1. QED
    BY <1>1, OnItsPage
<1>4. before <= after
  <2>1. Ahead(fewer, column, order, row) \subseteq Ahead(rows, column, order, row)
    BY DEF Ahead
  <2>2. IsFiniteSet(Ahead(rows, column, order, row))
    BY FS_Subset DEF Ahead
  <2>3. QED
    BY <2>1, <2>2, FS_Subset
<1>5. Cardinality(rows) \in Nat /\ Cardinality(fewer) \in Nat
  BY <1>1, FS_CardinalityType
<1> HIDE DEF fewer, before, after
<1>6. CASE after >= pages
  <2>1. after \in pages .. Cardinality(rows) - 1
    BY <1>2, <1>5, <1>6
  <2>2. QED
    BY <1>2, <2>1
<1>7. CASE after < pages
  <2>1. before \in 0 .. (pages - 1)
    BY <1>2, <1>3, <1>4, <1>5, <1>7
  <2>2. QED
    BY <1>3, <2>1 DEF fewer
<1>8. after >= pages \/ after < pages
  BY <1>2, <1>5
<1>9. QED
  BY <1>6, <1>7, <1>8

\* A limit above the number of rows leaves nothing out.
LEMMA FirstsAreAll ==
  ASSUME NEW rows, IsFiniteSet(rows), NEW column, NEW order, NEW n \in Nat, n > Cardinality(rows)
  PROVE  UNION Pages(rows, column, order, n, 0) = rows
<1>1. Cardinality(rows) \in Nat /\ Cardinality({}) = 0 /\ IsFiniteSet({})
  BY FS_CardinalityType, FS_EmptySet
<1>2. Firsts(rows, column, order, 0) = {{}}
  <2>1. 0 = IF 0 < Cardinality(rows) THEN 0 ELSE Cardinality(rows)
    BY <1>1
  <2>2. ASSUME NEW page \in Firsts(rows, column, order, 0) PROVE page = {}
    <3>1. page \subseteq rows /\ Cardinality(page) = 0
      BY <2>1 DEF Firsts, kSubset
    <3>2. IsFiniteSet(page)
      BY <3>1, FS_Subset
    <3>3. QED
      BY <3>1, <3>2, FS_EmptySet
  <2>3. {} \in Firsts(rows, column, order, 0)
    BY <1>1, <2>1 DEF Firsts, kSubset
  <2>4. QED
    BY <2>2, <2>3
<1>3. Firsts(rows, column, order, n) = {rows}
  <2>1. Cardinality(rows) = IF n < Cardinality(rows) THEN n ELSE Cardinality(rows)
    BY <1>1
  <2>2. ASSUME NEW page \in Firsts(rows, column, order, n) PROVE page = rows
    <3>1. page \subseteq rows /\ Cardinality(page) = Cardinality(rows)
      BY <2>1 DEF Firsts, kSubset
    <3>2. QED
      BY <3>1, FS_Subset
  <2>3. rows \in Firsts(rows, column, order, n)
    BY <1>1, <2>1 DEF Firsts, kSubset
  <2>4. QED
    BY <2>2, <2>3
<1>4. rows \ {} = rows
  OBVIOUS
<1>5. Pages(rows, column, order, n, 0) = {rows}
  BY <1>2, <1>3, <1>4 DEF Pages
<1>6. QED
  BY <1>5

LEMMA WorkIsAlwaysListed ==
  ASSUME works \subseteq Work
  PROVE  WorkIsListed
<1> SUFFICES ASSUME NEW start \in Bound, NEW end \in Bound
             PROVE  UNION BoostWorkIndex(works, [start |-> start, end |-> end, limit |-> Cardinality(works) + 1])
                      = {w \in works : Within(w, Reached([start_date |-> start, end_date |-> end]))}
  BY DEF WorkIsListed
<1> DEFINE query  == [start |-> start, end |-> end, limit |-> Cardinality(works) + 1]
           period == [start_date |-> start, end_date |-> end]
           inside == {w \in works : Within(w, Reached(period))}
<1>1. /\ ~Given(query, "tag") /\ ~Given(query, "offset")
      /\ Given(query, "start") <=> Given(period, "start_date")
      /\ Given(query, "end") <=> Given(period, "end_date")
      /\ query["start"] = period["start_date"] /\ query["end"] = period["end_date"]
      /\ query["limit"] = Cardinality(works) + 1
  BY DEF Given
<1>2. IsFiniteSet(works) /\ Cardinality(works) \in Nat
  BY TablesAssumption, FS_Subset, FS_CardinalityType
<1>3. Given(query, "limit")
  BY <1>2 DEF Given
<1> HIDE DEF query, period
<1>4. FindAll(works, BoundBy(period, Everything)) = inside
  BY BoundFinds, EverythingFinds
<1>5. BoostWorkIndex(works, query)
        = Pages(FindAll(works, BoundBy(period, Everything)), "timestamp", "asc", query["limit"], 0)
  BY <1>1, <1>3 DEF BoostWorkIndex, BoundBy, When
<1>6. IsFiniteSet(inside) /\ Cardinality(inside) \in Nat /\ Cardinality(inside) <= Cardinality(works)
  BY <1>2, FS_Subset, FS_CardinalityType
<1> HIDE DEF inside
<1>7. UNION Pages(inside, "timestamp", "asc", Cardinality(works) + 1, 0) = inside
  BY <1>2, <1>6, FirstsAreAll
<1>8. UNION BoostWorkIndex(works, query) = inside
  BY <1>1, <1>4, <1>5, <1>7
<1>9. QED
  BY <1>8 DEF query, period, inside

LEMMA WorkPages ==
  ASSUME NEW rows, NEW offset \in Nat
  PROVE  WorkAt(rows, offset) = UNION Pages(rows, "timestamp", "asc", 1, offset)
<1> DEFINE query == [limit |-> 1, offset |-> offset]
<1>1. /\ ~Given(query, "tag") /\ ~Given(query, "start") /\ ~Given(query, "end")
      /\ Given(query, "limit") /\ query["limit"] = 1
      /\ (IF Given(query, "offset") THEN query["offset"] ELSE 0) = offset
  BY DEF Given
<1> HIDE DEF query
<1>2. BoostWorkIndex(rows, query) = Pages(FindAll(rows, Everything), "timestamp", "asc", 1, offset)
  BY <1>1 DEF BoostWorkIndex, When
<1>3. QED
  BY <1>2, EverythingFinds DEF WorkAt, query

LEMMA JobPages ==
  ASSUME NEW rows \in SUBSET AuthorsJobs, NEW offset \in Nat
  PROVE  JobsAt(rows, offset) = UNION Pages(rows, "createdAt", "desc", 1, offset)
<1> DEFINE request == [limit |-> 1, offset |-> offset]
           query == Strip(request, AuthorsRoute)
           own == Assign(Everything, "bitcoin_signed_message_address", "eq", "author")
<1>1. /\ "spent" \notin DOMAIN query
      /\ Given(query, "limit") /\ query["limit"] = 1
      /\ (IF Given(query, "offset") THEN query["offset"] ELSE 0) = offset
  BY DEF Given, Strip, Restrict, AuthorsRoute
<1>2. FindAll(rows, own) = rows
  <2>1. "bitcoin_signed_message_address" \notin DOMAIN Everything /\ FindAll(rows, Everything) = rows
    BY EverythingFinds
  <2>2. FindAll(rows, own) = {r \in FindAll(rows, Everything) :
          Satisfies(r["bitcoin_signed_message_address"], [op |-> "eq", value |-> "author"])}
    BY <2>1, AssignFinds
  <2>3. \A r \in rows : Satisfies(r["bitcoin_signed_message_address"], [op |-> "eq", value |-> "author"])
    BY DEF Satisfies, AuthorsJobs
  <2> HIDE DEF own
  <2>4. QED
    BY <2>1, <2>2, <2>3
<1> HIDE DEF query, own
<1>3. AuthorsShow(rows, "author", request) = Pages(FindAll(rows, own), "createdAt", "desc", 1, offset)
  BY <1>1 DEF AuthorsShow, When, query, own
<1>4. QED
  BY <1>2, <1>3 DEF JobsAt

LEMMA PagesAlwaysSkipNothing ==
  ASSUME works \subseteq Work
  PROVE  PagesSkipNothing
<1>1. IsFiniteSet(works) /\ \A w \in works : w["timestamp"] \in Int
  BY TablesAssumption, FS_Subset
<1>2. IsFiniteSet(AuthorsJobs) /\ \A j \in AuthorsJobs : j["createdAt"] \in Int
  BY JobsAreTyped, FS_Subset DEF AuthorsJobs
<1>3. WalkSkipsNothing(works, WorkAt)
  <2> SUFFICES ASSUME NEW later \in works, NEW row \in works \ {later}, NEW pages \in 0 .. Cardinality(works) - 1
               PROVE  \/ \E i \in 0 .. (pages - 1) : row \in WorkAt(works \ {later}, i)
                      \/ \E i \in pages .. Cardinality(works) - 1 : row \in WorkAt(works, i)
    BY DEF WalkSkipsNothing
  <2>1. Cardinality(works) \in Nat
    BY <1>1, FS_CardinalityType
  <2>2. \/ \E i \in 0 .. (pages - 1) : row \in UNION Pages(works \ {later}, "timestamp", "asc", 1, i)
        \/ \E i \in pages .. Cardinality(works) - 1 : row \in UNION Pages(works, "timestamp", "asc", 1, i)
    BY <1>1, WalkFindsAll
  <2>3. \A i \in 0 .. (pages - 1) \cup pages .. Cardinality(works) - 1 : i \in Nat
    BY <2>1
  <2>4. QED
    BY <2>2, <2>3, WorkPages
<1>4. WalkSkipsNothing(AuthorsJobs, JobsAt)
  <2> SUFFICES ASSUME NEW later \in AuthorsJobs, NEW row \in AuthorsJobs \ {later},
                      NEW pages \in 0 .. Cardinality(AuthorsJobs) - 1
               PROVE  \/ \E i \in 0 .. (pages - 1) : row \in JobsAt(AuthorsJobs \ {later}, i)
                      \/ \E i \in pages .. Cardinality(AuthorsJobs) - 1 : row \in JobsAt(AuthorsJobs, i)
    BY DEF WalkSkipsNothing
  <2>1. Cardinality(AuthorsJobs) \in Nat
    BY <1>2, FS_CardinalityType
  <2>2. \/ \E i \in 0 .. (pages - 1) : row \in UNION Pages(AuthorsJobs \ {later}, "createdAt", "desc", 1, i)
        \/ \E i \in pages .. Cardinality(AuthorsJobs) - 1 : row \in UNION Pages(AuthorsJobs, "createdAt", "desc", 1, i)
    BY <1>2, WalkFindsAll
  <2>3. \A i \in 0 .. (pages - 1) \cup pages .. Cardinality(AuthorsJobs) - 1 : i \in Nat
    BY <2>1
  <2>4. AuthorsJobs \ {later} \in SUBSET AuthorsJobs /\ AuthorsJobs \in SUBSET AuthorsJobs
    OBVIOUS
  <2>5. QED
    BY <2>2, <2>3, <2>4, JobPages
<1>5. QED
  BY <1>3, <1>4 DEF PagesSkipNothing

\* Endpoints that describe the same rows from different sides do not contradict each
\* other, for any tables: the ranking of content selects the period and the tag it is
\* asked for, and a content has one difficulty everywhere; tags, miners and /boost/work add up
\* to that ranking for a period with one bound, and for one with both bounds to the ranking of
\* its end alone; a walk by limit and offset over rows with distinct times, and a list
\* of jobs in a range, leave nothing out.
THEOREM AnswersAlwaysAgree == Spec => []AnswersAgree
<1>1. IInv => AnswersAgree
  <2> SUFFICES ASSUME IInv PROVE AnswersAgree
    OBVIOUS
  <2>1. works \subseteq Work
    BY DEF IInv
  <2>2. QED
    BY <2>1, TotalsAlwaysAgree, WorkIsAlwaysListed, EndpointsAlwaysAgree, PeriodsAreAlwaysRanked, PagesAlwaysSkipNothing,
       JobsAreAlwaysInRange DEF AnswersAgree
<1>2. QED
  BY <1>1, Invariance, PTL

-----------------------------------------------------------------------------
(* Quotes.                                                                 *)

LEMMA DivisionBounds ==
  ASSUME NEW a \in Nat, NEW r \in Nat \ {0}
  PROVE  (a \div r) \in Nat /\ (a \div r) * r <= a /\ a <= ((a \div r) + 1) * r - 1
  OBVIOUS

\* A query of quoteDifficulty: whole amounts, in a currency that has a price if in any.
QuoteQuery(query) ==
  /\ \A param \in {"value", "difficulty"} : param \in DOMAIN query => query[param] \in Nat
  /\ Given(query, "currency") => query["currency"] \in DOMAIN Price

\* A quote pays what its difficulty costs, for any amounts, prices and rate: the division
\* that turns a price into a difficulty rounds down, so it never asks for more than is paid.
THEOREM QuotesAlwaysPay == \A query : QuoteQuery(query) => QuotePays(query)
<1> SUFFICES ASSUME NEW query, QuoteQuery(query) PROVE QuotePays(query)
  OBVIOUS
<1> DEFINE plain  == ~Given(query, "currency") /\ ~Given(query, "value")
           lonely == Given(query, "currency") # Given(query, "value")
           amount == IF plain THEN query["difficulty"] * Rate
                     ELSE query["value"] * Price[query["currency"]]
           quote  == QuoteDifficulty(query, Price, Rate)
<1>1. Rate \in Nat \ {0} /\ \A c \in DOMAIN Price : Price[c] \in Nat
  BY RankingsAssumption, TablesAssumption
<1>2. /\ Given(query, "value") => query["value"] \in Nat
      /\ Given(query, "difficulty") => query["difficulty"] \in Nat
      /\ Given(query, "currency") => query["currency"] \in DOMAIN Price
  BY DEF QuoteQuery, Given
<1>3. CASE lonely \/ (plain /\ ~Given(query, "difficulty"))
  BY <1>3 DEF QuotePays, QuoteDifficulty, NoQuote
<1>4. CASE plain /\ Given(query, "difficulty")
  <2>1. quote.satoshis = query["difficulty"] * Rate /\ quote.difficulty = query["difficulty"]
    <3>1. Given(query, "currency") = FALSE /\ Given(query, "value") = FALSE
      BY <1>4 DEF Given
    <3>2. ~lonely
      BY <3>1
    <3>3. ~(lonely \/ (plain /\ ~Given(query, "difficulty")))
      BY <1>4, <3>2
    <3>4. quote = [ok |-> TRUE, satoshis |-> amount,
                   difficulty |-> IF Given(query, "difficulty") THEN query["difficulty"] ELSE amount \div Rate]
      BY <3>3, Zenon DEF QuoteDifficulty
    <3> HIDE DEF lonely, quote
    <3>5. QED
      BY <1>4, <3>4
  <2>2. PICK d \in Nat : d = query["difficulty"]
    BY <1>2, <1>4
  <2>3. d * Rate \in d * Rate .. (d + 1) * Rate - 1
    BY <1>1
  <2>4. QED
    BY <2>1, <2>2, <2>3 DEF QuotePays
<1>5. CASE Given(query, "currency") /\ Given(query, "value") /\ ~Given(query, "difficulty")
  <2>1. PICK a : a = query["value"] * Price[query["currency"]]
    OBVIOUS
  <2>2. quote.satoshis = a /\ quote.difficulty = a \div Rate
    BY <1>5, <2>1 DEF QuoteDifficulty
  <2>3. a \in Nat
    BY <1>1, <1>2, <1>5, <2>1
  <2>4. a \in (a \div Rate) * Rate .. ((a \div Rate) + 1) * Rate - 1
    BY <1>1, <2>3, DivisionBounds
  <2>5. QED
    BY <2>2, <2>4 DEF QuotePays
<1>6. CASE Given(query, "value") /\ Given(query, "difficulty")
  BY <1>6 DEF QuotePays
<1>7. QED
  BY <1>3, <1>4, <1>5, <1>6
=============================================================================
