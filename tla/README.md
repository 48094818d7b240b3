# A TLA+ model of the Boost POW API

The repository indexes *boost jobs* (outputs that lock satoshis to a piece of content until somebody
finds a proof of work for it) and *boost proofs* (the transactions that redeem them). It is a Node.js 16
application: a hapi HTTP API, websocket servers, workers fed by AMQP, a p2p listener and planaria (bitbus)
crawlers. All of them write the same Postgres tables through Sequelize. There are no transactions and no
locks in the code. Concurrency is of two kinds: async functions that interleave at every `await` inside a
process, and processes that share the database, Redis and the message exchange.

This directory models the parts where that concurrency matters, checks them with TLC and proves their
main invariants with TLAPS.

## Inventory

| Part | State | Operations | What is hard | What makes it correct |
|---|---|---|---|---|
| Importer (`src/boost.ts`) | `boost_jobs`, `boost_job_proofs`, instances held over awaits | import a job or a proof by txid, from hex, from a posted transaction, detached | lookup, HTTP request, insert; two saves; fan-out with `Promise.all`; stops in between | spent jobs have proofs, proofs have jobs, retries repair, events follow rows |
| Entry points (`server/handlers`, `bsv_spv/listener.ts`, `actors/import_boost_job`) | none | start imports, list, show | the same transaction from several of them at once | any mixture of them leaves consistent tables |
| Crawlers (`planaria/crawler.ts`, `src/crawlers.ts`, `src/crawlers/boostpow_*_onchain.ts`) | `planaria_syncs`, `latestBlock`, fastq queue | poll, read a chunk, save the block, look up and import | un-awaited saves, a cursor ahead of the queue, several messages for one transaction, imports that record nothing, restarts, requests that hang | nothing is worked twice, and a row is lost only by a stop, a hung request or a sibling taken for it |
| Content cache (`src/content.ts`, `bmap`) | `Contents`, `ChatChannels` | fetch, parse, create, index, publish | create races, a stop between create and index | a message is announced once, links are sound, the actor repairs |
| Rankings (`src/rankings.ts`, `feeds`, list handlers) | Redis keys | compute, cache, answer | overlapping runs, a clock read between awaits, filters written out again in each handler | the cache catches up, the feed has no gap, totals of the same rows agree where the filters do |
| Personal interests | `PersonalInterests` | import, find removal, remove, correct old rows | lookups held over HTTP, a stop between a save and its event, no unique index | a removal is real and is kept, repeats need overlap, losses need a failure each |
| Websockets (`ws`, `socket.io`), Slack and ingestion actors | AMQP queues and consumers, listeners | connect, deliver, acknowledge, close | close while connecting; shared queues; stops before an acknowledgement | nothing is sent twice or left out of a stream, every event is handled |
| Finding proofs (`bitsocket.ts`, `importer.ts`, `spends.ts`, `find_all_missing_proofs.ts`, `find_spend_transaction.ts`) | unspent jobs in memory, lists of a run | load once, match, post, sweep, repair | stale map, load that fails, requests that hang, a query that selects other transactions | the right spend closes a job |
| Script shortcodes (`script_shortcodes.ts`) | `ScriptShortcodes` | find or create, show | a lookup and an insert without a unique index | a uid that was answered resolves, twins need overlap |
| Lockups | none: its model is not loaded | none that succeeds | see "Not modelled" | |
| Block processor, prices | `Blocks`, none | poll, query, convert | none of note | see "Not modelled" |

`PROJECT.json` lists each part with its sources and status, and under `hazards` each of these
difficulties at its line.

How the parts interact: the crawlers, the listener, the actors, the bitsocket process and the handlers call
the exported functions of `src/boost.ts`; these write the tables and publish `boostpow.job.created`,
`boostpow.proof.created` and `boostpow.job.completed` on the exchange `powco`; the websocket servers and
the notification actors consume them; the content cache publishes the messages of chat channels on the
same exchange; rankings, miners and feeds sum over `boost_job_proofs` and keep their answers in Redis.

## Modules

| Module | What it is |
|---|---|
| `BoostImport` | the importer with all its entry points |
| `JobLedger` | the abstract specification: what the two tables promise their readers |
| `Crawler` | one planaria crawler with its queue and worker |
| `ContentCache` | `cacheContent` and the bmap actor that calls it |
| `BoostQueries` | the queries of the HTTP API, as operators on sets of rows |
| `Rankings` | the cron job, the fill at the start and the requests over Redis; it extends `BoostQueries` |
| `PersonalInterests` | imports, removals and the script that corrects old rows |
| `EventBus` | the exchange, the shared and the private queues, the sockets |
| `ProofSearch` | the listener, the sweep and the repair script that look for proofs |
| `Shortcodes` | short links for scripts |
| `MC...` | the instances of each for TLC |
| `BoostImportProofs` | theorems about `BoostImport`: its tables, the refinement of `JobLedger`, its calls, its duplicates |
| `CrawlerProofs`, `ContentCacheProofs`, `PersonalInterestsProofs`, `ProofSearchProofs`, `RankingsProofs`, `EventBusProofs`, `ShortcodesProofs` | theorems about the module each is named after |

Definitions that begin with a comment `Broken:` are wrong variants of the definition below them. No
specification uses them. Each is a bug somebody could make in that piece of code, and replacing the
definition by it makes TLC find the property `PROJECT.json` pairs it with violated.

### BoostImport

A `Call` is one run of an exported import function. Nothing is shared between calls but the database,
the exchange and the network, so there is an action for each awaited operation, with the synchronous code
up to the next one. `pc[c]` names the operation a call awaits:

    JobByTxid                                  -> fetchJobTx -> import
    JobByHex                                   -> import
    PostJob      -> lookupJob                  -> fetchJobTx or import
    ProofByTxid  -> fetchProof -> findJob
    ProofByHex   -> findJob
    SubmitProof  -> checkChain -> [broadcast] -> findJob, and a second, detached, call -> fetchProof

    import: a fiber per output  find -> findTx -> time -> create -> publish -> done
    findJob -> [fetchJobTx -> import -> findJobAgain] -> findProof
            -> [createProof -> saveJob] -> healFind -> healSave -> recorded

A call ends `imported`, `recorded`, `gaveUp` (importBoostProof returned undefined) or `failed`. The
`Promise.all` over the outputs of a transaction is a family of fibers; when one fails the call fails at
once and the other fibers go on, as promises do. An instance read by `findOne` is the index of its row
(`job`) and the `spent_txid` it showed (`seen`): `save()` writes the attributes that differ from what was
read, so a stale save leaves alone what it did not change. `findOne` has no order and may return any twin.

Abstracted: the columns that are only copied (content, tag, difficulty, hex), the time of a transaction
(the request for it can fail, its value does not matter), wording of events. `POST /boost/jobs` is one
call per output; the handler only collects them. A rejection that nobody handles (the detached import
of a submitted proof) ends a Node 16 process: the call fails and `Crash` may follow.

The environment: `Appear` lets others broadcast a transaction, and the network never takes a proof whose
job transaction it does not know. `Crash` drops everything a process had in memory.

### JobLedger

`recorded`, `proved` and `closed` are sets; a step records a job, records a proof of a recorded job, or
closes a recorded and proved job. `BoostImport!Ledger` maps the rows, seen without duplicates, to it.

### Crawler

Transactions that match the query are numbered in chain order and have heights. `Ask` takes everything
mined above `latest`; `Read` is one chunk with its `onTransaction`, the `latestBlock` event and the launch of
the save, which are synchronous; `SaveLands` is a save arriving in Postgres, in any order. bitbus is assumed to publish whole blocks
in ascending order. `Hang` is a request or a stream that fails: the promise the loop awaits is never settled.

`onTransaction` pushes a message for each matching output, so a transaction carries none, one or several: messages are numbered
too, and those of transaction `n` are `Upto[n-1]+1 .. Upto[n]`. A message names a transaction (`Names`, the one in its value or its
own) and points at an output of it (`Points`), which may be the wrong one since `value.tx_index || tx_index` takes an index of 0 for
none. A row is a job, or a proof in the twin; `imported` counts how often each was written. The worker of fastq takes one
message at a time: `Take -> Lookup ->` done if the row it points to is there, else the import of all rows of the transaction it names,
each with `Check` (is there a row with this `Key`?) and `Create`, in any order, until `Done`. The key is what the importer looks for
before it inserts: the txid of a job, so that a sibling counts; the spent output of a proof. `GiveUp` is an import of a proof whose
job stays missing (`Orphans`). So an import may resolve with several rows, with one, or with none. `OtherChecks` and `OtherCreates` are
the listener or the API recording the same row.
`Reject` is a failing import or a value that cannot be parsed, an unhandled rejection that ends the process. The same model serves the job and
the proof crawler, whose code differs in the table and the import function only; `MCCrawler` has an instance of each.

### ContentCache

A `Call` is a run of `cacheContent`, alone (API, crawler of all content) or inside the handler of the actor
`ingest_bmap_transactions` (`actor[c]`). As in the importer, `pc[c]` names the awaited operation:

    [ingest -> original ->] find -> cached                       the row is there
      find -> fetch -> createB, createEvent                      what the outputs parse as
                    or askVideo -> createVideo -> askMeeting -> createMeeting -> askFile -> createFile
           -> setBmap -> [findOriginal -> setContext] or [setChannel -> findChannel -> createChannel]
      [-> actorContext, actorBmap]                               only in the actor

`Contents.txid` has a unique index, so of two creates one rejects: in `createB`, `createEvent` and `createFile` the
call fails, in `createVideo` and `createMeeting` the rejection is logged and the next source is asked.
`ChatChannels` has no index: two calls can make two rows of one channel. `chatChannel.save()` is not awaited, so it
is an element of `saves` that lands later, in any order, or is lost. `knows[c]` are the attributes that the instance
the actor got back shows; the actor decides by them and not by the row. `Reply` and `ChannelOf` say what bmap finds
in a transaction: at most one of them, since the code looks for a channel only when there is no reply.

Abstracted: the HEAD and the GET of a file are one step, findOrCreate of a bmap transaction is one step, and content, sizes and
times are left out. A transaction that bmap cannot parse counts as one with neither reply nor channel; `SetBmap` stores a bmap for it
too, which the code does not; no guard reads that column, and of such a row nothing is claimed but that the column is not taken back.
The process of one call stops with `Crash`; a process that runs several stops them one after the other.

### BoostQueries

A request is a function from parameter names to values. `Strip` is joi's `stripUnknown`: a handler sees what the schema of
its route names, which for several routes is less than what it reads. A where clause is a function from columns to sets of
conditions; `Assign` is `where[column] = ...`, which forgets an earlier condition, and `Extend` is `where[column][op] = ...`,
which keeps it: the handlers use the one or the other for the same pair of dates. The answers are sets of records;
a route with a limit has a set of possible answers, since Sequelize leaves the order of equals open. Zero counts as
not given, as it does in JavaScript.

Modelled: the rankings of content, images, tags, issues and meetings, miners, work, open jobs, the jobs of an author, the
replies to a content and its tags, and `quoteDifficulty`. Abstracted: columns that are only copied, and the BigNumber
arithmetic of prices, which is whole numbers over one table of prices.

### Rankings

A `Fiber` is a run of the cron job, of the fill at the start or of a request. `todo[f]` are the keys it still refreshes; for
each of them `rank -> types -> set` are the two queries of `rankContent` and `redis.set`, with `WindowOf` taking the window from
the clock when a key, or a day of the feed, is begun. `Turn` goes on to the next key. A visitor starts with `get`: a hit is
answered, a miss computes the key and, for the feed, reads it again. Time is counted in days, work has the time of its
transaction and may be recorded much later, and a cached ranking is a set of totals by content. `Kept`, `Days` and the spans of
the timeframes are constants. `Fail` is a rejection or a stop at any await.

### PersonalInterests

A `Fiber` is a call of `findOrImportPersonalInterests`, of `removeInterest` or a run of `get_script_hashes.ts`:

    Import     findAll -> fetch -> create, once per interest of the transaction
                       or fetchAgain, once per row without a script hash
    Remove     findOne -> history -> transactions -> save -> publish
    FixHashes  findUnhashed -> fixFetch -> fixSave, once per row

The table has no unique index, so a row is its place in the table; no query has an order, so a run takes the rows it read in any
order and `findOne` may return any row at a location. A location is a transaction with or without the index of an output, as
in the data: `At` says which output it points at, `Place` what the correct location of an output is. Which outputs of a
transaction hold an interest (`Detected`) is a constant: scrypt-ts decides it, outside of this code. Removals that spend
one output exclude each other on chain. `Fail` is a rejection or a stop at any await: the save of a removal and its event are two steps,
and a stop between them leaves a removal nobody will announce (`Silent`), as one between two creates leaves a location with some of
its interests (`Partial`).

### EventBus

An event is copied to every queue bound to its key. The named queues are shared: one of the processes gets each event, holds up to
`Prefetch` unacknowledged deliveries in `unacked[p][a]`, runs the handlers in the order of delivery and acknowledges
after the handler. `Actors`, `IoActors`, `SlackActors` and `IngestActors` name for each consumer its key, its queue and the sockets its
handler reaches. A socket of the chat or of bmap has a private queue: `Connect` leaves it `pending` until `getChannel()`
resolves, `GotChannel` binds it whether or not the socket is still open, and `Close` deletes only one that is bound.
`Crash` closes the sockets of a process and gives back what was not acknowledged; a private queue that is not `autoDelete` stays
as an `orphan` that fills for ever. That RabbitMQ delivers again in the order of publication is modelled from its documented
behaviour; bodies of events and replies to clients are left out. When a queue is deleted the broker delivers null to its consumer: the
consumer of a channel returns (`ws/plugin.ts:43`), those of the chat and of bmap read `msg.content` (`:75`, `:121`), which throws and ends the
process if nothing catches it: that stop is `Crash`, which may come after any `Close`.

### ProofSearch

Three processes over the same rows, beside imports of jobs by any of the ways of `BoostImport`. Outputs have a transaction and an
index (`Tx`, `Index`), some are jobs; a transaction spends a set of them and, if it is a proof, is imported as the proof of the job
of its first input that is one (`Proves`). `bitsocket.ts` loads the unspent jobs once (`Load`, or `LoadFails` after which it polls
for ever) and posts a transaction for each job of the map it spends when it is broadcast. `find_all_missing_proofs.ts` lists the open
jobs and asks the index of mined spends for each. The query names `in.e.h` and `in.e.i`, which may hold of different inputs
(`Matches`), the first transaction selected decides (`FirstResult` is `result[0]`), and one that does not spend the job is taken for
no spend at all; a request that fails hangs the run. `find_spend_transaction.ts` walks outpoints known to be redeemed; it looks the job up
by transaction only, takes any transaction of the script history with an input from that transaction, and records it as the
proof (`repaired` are the jobs it did that for).

The import of a proof is one step here, with the outcomes a call can have: it writes the proof and closes the job, or stops in
between, or writes nothing; when the job is missing its transaction is imported first, which records none of its jobs if a
sibling has a row and any part of them otherwise (`WritesBoth`). The awaits inside it are the subject of `BoostImport`.

### Shortcodes

A request is a record that says where it is: `Create` parses the script, `Find` and `Insert` are the two operations of Sequelize's
findOrCreate, which is no transaction the table could decide without an index, and `Answer` gives the client the uid. The
uid of a row is its place in the table. `since` is how many rows there were when the request began: no code keeps it, it says
which requests overlap. `FailCall` is a rejection or a stop at any await.

## Runs

Each run asks a distinct question; the cfg gives the bounds.

| Run | Instance | Shows |
|---|---|---|
| `ImportRaces` | two calls of every entry, one job, a double spend, rejections, crashes | `TypeOK`, `ProofsMatchJobs`, `EventsFollowTheChain`, `ReturnedProofClosesJob`, `DuplicatesBounded`, `SavesKeepWhatWasSaved`, `ImplementsLedger` |
| `ImportSettles` | two calls of every entry, two jobs in a transaction, unique index, fairness, no faults | `JobsAreAnnounced`, `GiveUpIsJustified`, `ImportsSettle` |
| `CrawlerRestarts` | jobs: five transactions in three blocks, five messages, two of them in one transaction and one with index 0, a row recorded elsewhere, failures, restarts, fairness | `TypeOK`, `WorkedOnce`, `CursorIsBehind`, `OnlyStopsOrSiblingsLose`, `WantedIsSettled` |
| `ProofCrawler` | proofs: three transactions, two proofs of one job, one of a job that cannot be recorded, failures, restarts | `OnlyStopsOrSiblingsLose` |
| `ContentTalks` | two calls, two messages in two channels, a hosted reply, failures, stops | `TypeOK`, `AnnouncedOnce`, `LinksAreSound`, `ActorRepairs`, `RowsOnlyGain` |
| `ContentSettles` | two calls, three messages of two channels, fairness, no faults | `BestSourceWins`, `MessagesSurface` |
| `RankingsRefresh` | two fibers, three pieces of work, two days of feed, a clock of three days, one failure, fairness | `TypeOK`, `FeedIsTheDays`, `AnswersAgree`, `CacheCatchesUp` |
| `Interests` | two fibers, three interests in two transactions, an old row of each, two removals, one failure | `RemovalsAreOnChain`, `RepeatsNeedOverlap`, `FailuresLoseOneEach`, `RemovalsStick` |
| `Events` | two processes, a client of a chat channel, two jobs and two messages of the channel, one crash, fairness | `TypeOK`, `SentOnceInOrder`, `StreamsHaveNoGaps`, `EventsArrive` |
| `Searches` | two jobs of a transaction and another output, four spends, two failures | `TypeOK`, `ProofsRedeemTheirJobs`, `SweepsCloseWhatTheyPass` |
| `Links` | three requests at a time, two scripts and one that does not parse, one failure | `LinksResolve`, `TwinsNeedOverlap` |
| `ImportLosesSibling` | two calls, two jobs in a transaction | `ImportIndexesEveryJob` is violated (finding) |

Bounds. Two concurrent calls reach every race of a lookup with an insert or a save; a third only adds twins
of the same kind, and since a call is released and may start again the number of calls over time is not
bounded. Posting a proof takes two calls of one process, the second detached, so the calls of `ImportRaces` share one; each may
be rejected on its own at any await, which leaves in the tables what a stop of its process alone would, and `Crash` stops both.
Rows are bounded by the code: a lookup that starts after an insert finds it (`DuplicatesBounded`,
`RepeatsNeedOverlap`, `TwinsNeedOverlap`), so these runs need no state constraint; three requests for a shortcode make a script
of three rows, which only some of the requests may have overlapped with. Two proofs of one job are the smallest double spend, and two jobs in one
transaction the smallest fan-out with a sibling. One transaction of jobs is enough because transactions share nothing.
In the crawler, blocks of two, two and one transactions have an inner boundary, an outer boundary and a block that is overtaken
by a later save; a transaction announces both its jobs, one announces nothing, and one names a transaction that was read before with the
index that looks up nothing. The proofs have the two ways an import resolves without a row. In the content cache two messages of one channel race for its row and for its last message, and in
`ContentSettles` the second channel shows a mix-up. In `RankingsRefresh` two days of feed have one boundary, the clock moves over it once, and
one content is boosted on both sides of it; the queries are asked of every table the run reaches, with no bound, a start, an end and both.
In `Events` one shared queue stands for all of them, since they share nothing, and one stop redelivers to the other
process; two messages of the channel are the least stream that can have a gap.
In `Searches` the third output has the index of the first job, so that the spend of the second job which spends it too is selected
for the first. One failure in `Interests` shows
each kind of loss.
`MaxFails`, `Failures` and `MaxCrashes` bound faults where they are counted; in the importer, the crawler and the content cache faults are not bounded.
Symmetry over calls is used only where no liveness is checked and the calls are interchangeable.

Fairness. `BoostImport!Fairness` is weak fairness of each call and each fiber: the event loop runs every
continuation, and each awaited operation resolves or rejects. Nothing is assumed of callers, of peers or of
`Release`. `Crawler!FairSpec` adds that timers fire, saves land and blocks go on being mined, and
`WantedIsSettled` leaves out behaviours in which the loop does not stay up, and the rows that `OnlyStopsOrSiblingsLose` accounts for. `ContentCache!Fairness` adds that saves nobody
awaits arrive. `Rankings!Fairness` is that node-cron fires again and again and each awaited operation ends; it is strong for the cron
job because the model has few fibers and requests can keep them busy, which they cannot in the code. `EventBus!FairSpec` has the broker
deliver and the callbacks run; nobody has to connect, publish, stop or restart. Of `ProofSearch` no
liveness is claimed: nothing in `main.ts`, `package.json` or the units of `devops/systemd` runs the sweep or the script, so the code gives
no reason to assume that they run. Nothing is assumed of the callers of `Shortcodes` and `PersonalInterests` either.

## Findings

- `ImportLosesSibling`: `persistBoostJob` looks up by txid only and skips a job when a sibling output is recorded.

Divergences that the models follow and no run is spent on:

- The migration of 2023-07-13 asks for a unique index with an option Sequelize 6 does not have, so concurrent imports double a
  job; `DuplicatesBounded` says by how much, and `ImportSettles` runs with the index the migration intends.
- Asked for a period with a start and an end, the rankings of miners and tags and the list of work let the end replace the
  start (`miners.ts:47`, `rankings.ts:202-216`, `boost_work.ts:43`), although `server.ts:313` documents a period "within start_date and
  end_date"; the ranking of content keeps both. `AnswersAgree` says what each of them answers.
- The query of `spends.ts:43` names `in.e.h` and `in.e.i`, which different inputs may match: a transaction that does and comes first hides the
  true spend. `SweepsCloseWhatTheyPass` promises nothing of a job that is hidden so.
- The list of the interests of an owner puts its filter beside the where clause (`personal_interests.ts:59-61`), where Sequelize ignores
  it, and goes on listing what was removed.
- The comment of `POST /boost/jobs` (`boost_jobs.ts:161`) promises a broadcast the code does not make.
- The rankings `2-days` and `3-days` are filled by the first request and by nothing else, without an expiry (`rankings.ts:246`, `:321`).
- The first visitor of an empty feed is answered null, and the first of an empty ranking more entries than any other; a
  ranking by timeframe ignores its tag.
- `/boost/work` documents recent work and answers the oldest first.
- A chat channel may be listed without a last message while, or after, the save that adds it is under way or lost.
- A removal takes any row at the location: of a transaction with several interests it may mark the wrong one.
- A socket that closes while it connects leaves its queue and consumer behind. socket.io emits questions under the name of
  jobs, and takes them from the queue the websockets use.
- The crawlers take the index 0 in the value of an output for a missing one (`boostpow_jobs_onchain.ts:16`) and look up another output.
- A removal whose process stops before the event is never announced (`personal_interests/index.ts:187`, `:197`).
- The interests of a transaction whose import stops half way are never completed (`personal_interests/index.ts:43`).
- `find_spend_transaction.ts` looks a job up by transaction and takes a spend of any of its outputs. `GET /spends` always answers `spent: false`.

## Proofs

TLAPS proves for every value of the constants (any number of transactions, outputs, calls, processes, sockets and rows,
unique index or not, faults and crashes or not). The assumptions are those the modules name: the types of the constants, the order
of the chain, and

- `CallsAreFinite`, `InterestAssumption`, `ShortcodeAssumption`: calls, fibers and requests are finitely many where they are counted;
- `RowAssumption`: a message points into the transaction it names, and the rows of a transaction have one key;
- `InterestAssumption`: a location belongs to the transaction it names, and an output is detected in it once;
- `SearchAssumption`: a proof spends the job it is imported for;
- `RankingsAssumption`: the feed reaches back no further than the days the clock can count;
- `TablesAssumption`: the tables are finite, have the columns the migrations give them, hold whole numbers where the queries compare or add, and `Contents` has one row per txid; prices are whole numbers;
- `BusAssumption`, `StartedAssumption`: events have a key, sockets a home and a URL, and the consumers are among those of the code.

The theorems of each module:

- `BoostImportProofs`: `TypeCorrect`, `ProofsAndJobsMatch`, `ReturnedProofsCloseJobs`. Type correctness is not inductive alone: a step
  appends a row for `out[c]` or saves row `job[c]`, so the invariant also says that a call in the proof half has its proof and
  the output it redeems (`CallsAreAbout`) and that a call past its lookup holds a row of that output (`CallsHoldRows`). The other two
  follow together from `SpentInv`, which adds that a call past `findProof` knows of a recorded proof (`CallsAreProved`). Rows
  only grow and never change their output, so what a call learned at a lookup stays true over its awaits: that is the whole
  reason the unguarded saves are safe, and `LateStepKeeps` and `QuietKeeps` are that argument.
- also in `BoostImportProofs`: `EventsAndRowsFollow`, `SavesKeepRows`, `ImporterImplementsLedger`. `ChainInv` adds that a call past its
  broadcast or its fetch holds a proof the network knows (`ProofsAreKnown`), that a fiber about to insert knows its transaction on the
  network and one about to publish has its row (`FibersAreSure`) and that a proof names the job it redeems (`WorkMatches`). Every step of the importer does one of a few things to the
  tables: nothing, append an open row, append a proof of a recorded job, or mark a proved row spent. Each of these keeps what was saved and maps to
  one step of the ledger or to a stutter; two rows of one output map to the same element, which is why duplicates do not show.
- and there: `GivingUpIsJustified`, `RecordedJobsAreAnnounced`. `CallStep` lists the eight things a step can do to one call, and every
  step does one of them to every call (`NextSteps`). `CallsInv` adds that fibers run only for a call that awaits or has failed (`FibersBelong`), that
  a fiber ends well only when a row of its transaction is there (`DoneIsRecorded`) and that the import of a proof's job has a fiber for the
  redeemed output (`ImportCovers`). With rejections or stops a job may stay unannounced, so the second theorem assumes that
  there are none; it needs no assumption about the index.
- and, last, `DuplicatesAreBounded`. The invariant is a count (`CountInv`): the rows of an output and the calls that looked for one in vain
  and may yet write one are together no more than the calls, since a lookup that finds a row sends nobody on and a call writes once for each time it looked.
- `CrawlerProofs`: `CrawlerTypeCorrect`, `NothingWorkedTwice`, `CursorNeverAhead`, `OnlyStopsOrSiblingsLoseRows`. The invariant `IInv` says
  where the response stands relative to `latest` (`ReadingInv`: neither the chain nor a response ends inside a block) and that the
  queue ascends and holds only messages of what has been read (`QueueInv`; `PushFacts` is what appending the messages of one transaction does to
  it). `RowInv` counts: a row was written once, and once more if another path did it too, and a row the import goes on to create
  only by that path, since its check by key sees all that the worker, which has one message at a time, wrote before. For the last theorem,
  reading loses nothing (`ReadLosesNothing`) and of the worker's steps only those do that leave a hidden row (`WorkLosesHidden`).
- `ContentCacheProofs`: `ContentTypeCorrect`, `MessagesAnnouncedOnce`, `LinksStaySound`, `ActorRepairsReplies`, `NothingIsTakenBack`,
  `BestSourcesWin`. `IInv` adds to the types what a call knows at each step (`CallInv`), that of the calls about a transaction only
  the one whose create succeeded is between that create and the announcement (`NewsInv`: the unique index gives each
  transaction one such call ever), and that launched saves carry a message of the row's channel (`ChannelInv`). `GoodRows` is
  stable because rows only gain (`Gain`), and a row keeps its values because each column of it is only ever written with one value, or while the row is not there (`Writes`).
  `SourcesInv` says that a call asks a lesser source only if the better ones do not know the transaction or its row is there already;
  it needs that no request fails, and the property says so.
- `PersonalInterestsProofs`: `InterestsTypeCorrect`, `RemovalsAreReal`, `RemovalsAreKept`, `RepeatsAreBounded`, `LossesNeedFailures`. `IInv` adds that spends on chain do not conflict
  (`ChainApart`), that a removed row has its script hash (`RemovedAreHashed`) and what a fiber that is about to save knows of its row
  (`FiberKnows`): a row whose script is known stays where it is, so the removal that is saved spends the output at its location, and a
  late save of the script writes the location that is there. Two removals of one row in flight are the same transaction because
  of `ChainApart`, so the second save changes nothing. `TableKeeps` is what every step does to the table. `RepeatsAreBounded` counts as
  `DuplicatesAreBounded` does: the rows of an output at a location, with the fibers
  that found none and may yet write one (`RowsRepeat`), and its removals with the fibers that may yet announce one (`RemovalsRepeat`),
  are no more than the fibers. `LossesNeedFailures` counts the silent removals and the partial locations against the failures: a
  fiber that is creating carries all the outputs that its location still lacks (`CarriesAll`), so no step but a failure adds to either
  (`SilentStays`, `PartialStays`), and a failure ends one fiber and so adds one (`FailLosesOne`).
- `ProofSearchProofs`: `SearchTypeCorrect`, `ProofsAreOfTheirJobs`, `SweepsClose`. `IInv` adds what the sweep and the script hold between
  awaits (`Shapes`; `FoundSpends`: what the script is about to write spends an output of the transaction of its row) and
  what a sweep has left behind (`Passed`: a job whose proof came first is still to be asked, is being imported, or is spent). Rows only gain
  (`RowsGain`) and the first match among what was mined stays the first whatever is mined after it, so both stay true over the awaits.
- `RankingsProofs`: `RankingsTypeCorrect`, `FeedsAreTheDays`. A feed is built a day per await while the clock moves on, so a day that ends at
  the clock of its own turn could overlap or leave a gap to the day before. `FeedAtWork` says how the days read so far, the one at
  work and those to come meet: each starts where another ends, whatever the clock did in between.
- and there: `AnswersAlwaysAgree`, an induction over the rows of a table. The induction theorems of the library take an operator, which no
  prover here can instantiate, so induction is stated over sets: a set of numbers with 0 and each successor is `Nat`
  (`NatIsInductive`), a set of subsets that is closed under one more element has them all (`SubsetsAreInductive`). With it a
  total does not depend on the order in which it is added (`TotalAdds`), and the totals of groups that split a table add up to the total
  of the table (`EntriesAddUp`). What each filter selects is shown clause by clause (`AssignFinds`, `ExtendFinds`, `BoundFinds`), so that
  for a period with one bound the endpoints sum the same rows, and for one with two those that drop the start sum the rows up to the end
  (`TotalsAlwaysAgree`). For paging, over rows with different times, every row is on a page (`OnItsPage`) that a walk reaches (`WalkFindsAll`).
- and, last, `QuotesAlwaysPay`: what `QuotesPayForDifficulty` says of small amounts, for all of them (TLC evaluates the small ones in `MCRankings`; the theorem rests on the bounds of a division, `DivisionBounds`).
- `EventBusProofs`: `BusTypeCorrect`, `EventsAreSentOnce`, `StreamsAreWhole`. `IInv` says that an event has one copy in a shared queue,
  ready, unacknowledged or acknowledged (`OneCopy`); that what an open client was sent by a consumer is acknowledged, or is
  the delivery that consumer is about to acknowledge (`SentBy`); that a private queue with what its client got is what was published under
  its key since it was bound (`Stream`); and, until a process stops, that each shared queue and each consumer keeps the order of the log
  (`QueuesInOrder`, `InOrderBy`). A delivery given back breaks only the last, and goes to clients of another process, since the stop
  closed those that had seen it.
- `ShortcodesProofs`: `LinksTypeCorrect`, `LinksAlwaysResolve`, `TwinsAlwaysOverlap`. A request that is about to insert began before
  its script had any row (`CallKnows`), so the rows of a script stand in the order that the property asks for; and once a script has a row, its
  rows with the requests about to insert one are no more than the requests (`Few`).

Only model-checked. Liveness (`ImportsSettle`, `WantedIsSettled`, `MessagesSurface`, `CacheCatchesUp`, `EventsArrive`) is out of
the prover's reach. The property whose violation a run shows has no theorem. Every other property of a run is a theorem.

## Not modelled, and why

- Lockups and smart contracts. `models/index.ts:38-49` loads only `.js` files, and `smart_contract.ts` is none: `models.SmartContract` is
  undefined. The rankings of lockups reject at their first query and are answered with an error, `show` is mounted by no route, and no
  row is ever written, so there is no state to model.
- Block processor: a loop of one request and one `findOrCreate` into a table nobody reads.
- Actors on the exchange `proofofwork`, to which no code publishes, and those that read models that do not exist (`BoostProof`,
  `Thresholds`, `Webhook`). The bodies of the Slack actors format a message; their queues are in `EventBus`.
- Handlers that only read and format (`show`, `build`), configuration, logging, the API client.
- Clients of chain services: requests that may fail, in every module that uses one. The zeromq actor forwards what the node says.
- The width of `value`, a 32-bit column: the rejected insert is an outcome of `BoostImport!FiberRejects`.
- Conversion of currencies: a table of whole numbers.
- `utils/remove_duplicates.ts`, a script that is run once; generated documentation, artifacts and data.

What could follow: a composition of `Crawler` with `BoostImport` in place of its one-step worker.
