---------------------------- MODULE BoostQueries ----------------------------
(***************************************************************************)
(* The queries of the HTTP API: which parameters a route lets through, the *)
(* where clause its handler builds from them, and what is answered from    *)
(* the rows.  All of them are operators on tables given as sets of rows.   *)
(*                                                                         *)
(* A query is a function from the names of the parameters of a request to  *)
(* their values.  Sequelize leaves the order of equals open, so a route    *)
(* with a limit has a set of possible answers.                             *)
(***************************************************************************)
EXTENDS Integers, Sequences, FiniteSets, FiniteSetsExt, Functions, TLC

Null == "null"

\* if (query.param): zero counts as not given.
Given(query, param) == param \in DOMAIN query /\ query[param] # 0

\* stripUnknown: a handler sees only the parameters its route's schema names.
Strip(query, names) == Restrict(query, DOMAIN query \cap names)

Period == {"start_date", "end_date"}

RankingRoutes == [
  rankings |-> Period \cup {"tag"}, meetings |-> Period \cup {"tag"},
  issues   |-> Period \cup {"tag"}, images   |-> Period \cup {"tag"},
  tags     |-> Period]
MinersRoute  == Period
JobsRoute    == {"limit", "content", "tag", "maxDifficulty", "minDifficulty"}
WorkRoute    == {"limit", "tag", "offset", "start", "end"}
AuthorsRoute == {"limit", "offset", "spent"}

-----------------------------------------------------------------------------
(* Where clauses: a function from columns to sets of conditions.           *)

Everything == [column \in {} |-> {}]

\* where[column] = ..., which forgets an earlier condition on the column.
Assign(where, column, op, value) ==
  [c \in DOMAIN where \cup {column} |-> IF c = column THEN {[op |-> op, value |-> value]} ELSE where[c]]

\* where[column][op] = ..., which keeps it.
Extend(where, column, op, value) ==
  IF column \in DOMAIN where
  THEN [where EXCEPT ![column] = @ \cup {[op |-> op, value |-> value]}]
  ELSE Assign(where, column, op, value)

Satisfies(value, condition) ==
  \/ condition.op = "eq"  /\ value = condition.value
  \/ condition.op = "ne"  /\ value # condition.value
  \/ condition.op = "gt"  /\ value > condition.value
  \/ condition.op = "gte" /\ value >= condition.value
  \/ condition.op = "lte" /\ value <= condition.value

FindAll(rows, where) ==
  {r \in rows : \A column \in DOMAIN where :
                  \A condition \in where[column] : Satisfies(r[column], condition)}

\* An optional clause: if (given) where = clause.
When(given, where, clause) == IF given THEN clause ELSE where

\* The first n rows in the order of a column, one set for each way to break ties.
Firsts(rows, column, order, n) ==
  {page \in kSubset(IF n < Cardinality(rows) THEN n ELSE Cardinality(rows), rows) :
     \A p \in page, r \in rows \ page :
       IF order = "desc" THEN p[column] >= r[column] ELSE p[column] <= r[column]}

\* What an order leaves for offset and limit.
Pages(rows, column, order, limit, offset) ==
  UNION {Firsts(rows \ skipped, column, order, limit) :
           skipped \in Firsts(rows, column, order, offset)}

TotalDifficulty(rows) == MapThenSumSet(LAMBDA r : r.difficulty, rows)
TotalValue(rows)      == MapThenSumSet(LAMBDA r : r.value, rows)

-----------------------------------------------------------------------------
(* Rankings of content, tags, contracts and miners over boost_job_proofs.  *)

\* Broken: the end of the period replaces its start.
RankContentWhereLast(query) ==
  LET started == When(Given(query, "start_date"), Everything,
                      Assign(Everything, "timestamp", "gte", query["start_date"]))
      ended   == When(Given(query, "end_date"), started,
                      Assign(started, "timestamp", "lte", query["end_date"]))
  IN When(Given(query, "tag"), ended, Assign(ended, "tag", "eq", query["tag"]))

RankContentWhere(query) ==
  LET started == When(Given(query, "start_date"), Everything,
                      Extend(Everything, "timestamp", "gte", query["start_date"]))
      ended   == When(Given(query, "end_date"), started,
                      Extend(started, "timestamp", "lte", query["end_date"]))
  IN When(Given(query, "tag"), ended, Assign(ended, "tag", "eq", query["tag"]))

\* findAll of work grouped by content; the answer is in order of difficulty.
WorkByContent(works, query) ==
  LET found == FindAll(works, RankContentWhere(query))
      Of(c) == {w \in found : w.content = c}
  IN {[content_txid |-> c, difficulty |-> TotalDifficulty(Of(c)), count |-> Cardinality(Of(c))] :
        c \in {w.content : w \in found}}

\* The content types of the rows of Contents that are looked up next.
WithTypes(groups, contents, images) ==
  LET typed  == {c \in contents : /\ c.content_type # Null
                                  /\ images => c.content_type = "image"}
      Type(t) == IF \E c \in typed : c.txid = t
                 THEN (CHOOSE c \in typed : c.txid = t).content_type ELSE Null
  IN {[content_txid |-> g.content_txid, content_type |-> Type(g.content_txid),
       difficulty |-> g.difficulty, count |-> g.count] :
        g \in {h \in groups : images => Type(h.content_txid) = "image"}}

RankContent(works, contents, query, images) ==
  WithTypes(WorkByContent(works, query), contents, images)

RankTags(works, query) ==
  LET started == When(Given(query, "start_date"), Everything,
                      Assign(Everything, "timestamp", "gte", query["start_date"]))
      ended   == When(Given(query, "end_date"), started,
                      Assign(started, "timestamp", "lte", query["end_date"]))
      Of(tag) == {w \in FindAll(works, ended) : w.tag = tag}
  IN {[tag |-> tag, difficulty |-> TotalDifficulty(Of(tag)), count |-> Cardinality(Of(tag))] :
        tag \in {w.tag : w \in FindAll(works, ended)}}

\* The join ignores the dates it is given; content is compared to a prefix of the origin.
RankSmartContracts(works, contracts, class) ==
  LET Of(s) == {w \in works : w.content = s.origin_txid}
  IN {[origin |-> s.origin, difficulty |-> TotalDifficulty(Of(s))] :
        s \in {t \in contracts : t.class_name = class /\ Of(t) # {}}}

ListMiners(works, query) ==
  LET known   == Assign(Everything, "minerPubKey", "ne", Null)
      started == When(Given(query, "start_date"), known,
                      Assign(known, "timestamp", "gte", query["start_date"]))
      ended   == When(Given(query, "end_date"), started,
                      Assign(started, "timestamp", "lte", query["end_date"]))
      found   == FindAll(works, ended)
      Of(m)   == {w \in found : w.minerPubKey = m}
  IN {[minerPubKey |-> m, count |-> Cardinality(Of(m)),
       difficulty |-> TotalDifficulty(Of(m)), satoshis |-> TotalValue(Of(m))] :
        m \in {w.minerPubKey : w \in found}}

RankingsIndex(works, contents, request) ==
  RankContent(works, contents, Strip(request, RankingRoutes.rankings), FALSE)
RankingsImages(works, contents, request) ==
  RankContent(works, contents, Strip(request, RankingRoutes.images), TRUE)
RankingsTags(works, request) == RankTags(works, Strip(request, RankingRoutes.tags))
RankingsIssues(works, contracts)   == RankSmartContracts(works, contracts, "Issue")
RankingsMeetings(works, contracts) == RankSmartContracts(works, contracts, "Meeting")
MinersIndex(works, request) == ListMiners(works, Strip(request, MinersRoute))

-----------------------------------------------------------------------------
(* Lists of work, jobs and replies.                                        *)

\* GET /boost/work; GET /boost/proofs has no schema and strips nothing.
BoostWorkIndex(works, query) ==
  LET tagged  == When(Given(query, "tag"), Everything,
                      Assign(Everything, "tag", "eq", query["tag"]))
      started == When(Given(query, "start"), tagged,
                      Assign(tagged, "timestamp", "gte", query["start"]))
      ended   == When(Given(query, "end"), started,
                      Assign(started, "timestamp", "lte", query["end"]))
  IN Pages(FindAll(works, ended), "timestamp", "asc",
           IF Given(query, "limit") THEN query["limit"] ELSE 25,
           IF Given(query, "offset") THEN query["offset"] ELSE 0)

JobsWhere(query) ==
  LET open    == Assign(Assign(Assign(Everything, "spent", "eq", FALSE), "script", "ne", Null),
                        "profitability", "gt", 0)
      tagged  == When(Given(query, "tag"), open, Assign(open, "tag", "eq", query["tag"]))
      below   == When(Given(query, "maxDifficulty"), tagged,
                      Assign(tagged, "difficulty", "lte", query["maxDifficulty"]))
  IN When(Given(query, "minDifficulty"), below,
          Extend(below, "difficulty", "gte", query["minDifficulty"]))

BoostJobsIndex(jobs, request) ==
  LET query == Strip(request, JobsRoute)
  IN Firsts(FindAll(jobs, JobsWhere(query)), "profitability", "desc",
          IF Given(query, "limit") THEN query["limit"] ELSE 25)

\* GET /authors/{address}/jobs, the latest first; spent=false asks for nothing.
AuthorsShow(jobs, address, request) ==
  LET query == Strip(request, AuthorsRoute)
      own   == Assign(Everything, "bitcoin_signed_message_address", "eq", address)
      found == FindAll(jobs, When("spent" \in DOMAIN query /\ query["spent"], own,
                                  Assign(own, "spent", "eq", TRUE)))
  IN Pages(found, "createdAt", "desc",
           IF Given(query, "limit") THEN query["limit"] ELSE Cardinality(found),
           IF Given(query, "offset") THEN query["offset"] ELSE 0)

\* The totals by tag that GET /content/{txid} adds to the content.
ContentTags(works, txid) ==
  LET Of(tag) == {w \in works : w.content = txid /\ w.tag = tag}
  IN {[tag |-> tag, difficulty |-> TotalDifficulty(Of(tag))] :
        tag \in {w.tag : w \in {v \in works : v.content = txid}}}

\* GET /content/{txid}/replies: the replies with the work done for each of them.
RepliesIndex(works, contents, txid) ==
  {[txid |-> c.txid, difficulty |-> TotalDifficulty({w \in works : w.content = c.txid})] :
     c \in {r \in contents : r.context_txid = txid}}

-----------------------------------------------------------------------------
(* Quotes for a new job.                                                   *)

NoQuote == [ok |-> FALSE, satoshis |-> 0, difficulty |-> 0]

\* The price of a difficulty, or the difficulty for a price.  A value without a
\* currency passes the guard and is rejected by the service that converts it.
QuoteDifficulty(query, price, rate) ==
  LET plain  == ~Given(query, "currency") /\ ~Given(query, "value")
      lonely == Given(query, "currency") # Given(query, "value")
      amount == IF plain THEN query["difficulty"] * rate
                ELSE query["value"] * price[query["currency"]]
  IN IF lonely \/ (plain /\ ~Given(query, "difficulty"))
     THEN NoQuote
     ELSE [ok |-> TRUE, satoshis |-> amount,
           difficulty |-> IF Given(query, "difficulty") THEN query["difficulty"]
                          ELSE amount \div rate]
=============================================================================
