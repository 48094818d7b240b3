------------------------------ MODULE Crawler ------------------------------
(***************************************************************************)
(* A crawler of the boostpow chain: startCrawler of src/crawlers.ts runs   *)
(* the Crawler of planaria/crawler.ts, which polls bitbus for the          *)
(* transactions above the last block it has read, hands each one to the    *)
(* onTransaction of src/crawlers/boostpow_jobs_onchain.ts (or its twin for *)
(* proofs) and saves the block in planaria_syncs.  onTransaction pushes a  *)
(* message for every matching output to an in-memory queue with a single   *)
(* worker.  The worker looks up the row that the message points to and, if *)
(* it is not there, imports the transaction that the message names, which  *)
(* may record several rows, one or none.  Neither the save nor the worker  *)
(* is awaited by the loop.  A row is a job, or a proof for the twin.       *)
(***************************************************************************)
EXTENDS Naturals, Sequences

CONSTANTS
  Last,      \* the transactions that match the query are 1..Last, in chain order
  Height,    \* [1..Last -> Nat], the block of each
  Upto,      \* [0..Last -> Nat], the messages of transactions 1..n are 1..Upto[n]
  Txid,      \* the transactions that messages name
  Row,       \* the rows that imports of them may record
  NoRow,
  Names,     \* the transaction a message names, its value's tx_id or its own
  Points,    \* the row at the index a message looks up, or NoRow
  Of,        \* the transaction of a row
  Key,       \* what the importer finds a row by before it creates one: the txid
             \* of a job, the output that a proof spends
  Orphans,   \* rows whose import may give up: proofs of a job that is not recorded
  Others,    \* rows that another path of the importer may record
  MayFail,   \* may a request, a stream or an import fail?
  MayStop    \* may the process stop and start again?

Item    == 1..Last
Message == 1..Upto[Last]
Nobody  == 0

ASSUME CrawlerAssumption ==
  /\ Last \in Nat
  /\ Height \in [Item -> Nat \ {0}]
  /\ \A m, n \in Item : m <= n => Height[m] <= Height[n]
  /\ Upto \in [0..Last -> Nat] /\ Upto[0] = 0
  /\ \A m, n \in 0..Last : m <= n => Upto[m] <= Upto[n]
  /\ MayFail \in BOOLEAN /\ MayStop \in BOOLEAN

\* A message points into the transaction it names, and the rows of a transaction
\* are found by one key: its jobs by their txid, and it has one proof.
ASSUME RowAssumption ==
  /\ NoRow \notin Row
  /\ Of \in [Row -> Txid] /\ Names \in [Message -> Txid]
  /\ Points \in [Message -> Row \cup {NoRow}]
  /\ \A m \in Message : Points[m] # NoRow => Of[Points[m]] = Names[m]
  /\ \A r, s \in Row : Of[r] = Of[s] => Key[r] = Key[s]
  /\ Orphans \subseteq Row /\ Others \subseteq Row

VARIABLES
  mined,     \* how many of the transactions are in a block that bitbus has
  cursor,    \* planaria_syncs.block_index
  saves,     \* heights that un-awaited saves of the sync record carry
  latest,    \* latestBlock.i, or block_index_start before the first chunk
  loop,      \* where the polling loop is
  pos, end,  \* the transactions of the response that are left: pos..end
  queue,     \* the fastq queue of messages
  busy,      \* the message the worker has
  stage,     \* what the worker awaits
  todo,      \* rows of the import that are still to be looked up
  making,    \* rows it found missing and goes on to create
  imported,  \* how often each row was recorded in the database
  other      \* where another path is that records one of Others

database == <<cursor, imported>>
reading  == <<latest, loop, pos, end>>
worker   == <<busy, stage, todo, making>>
world    == <<mined, other>>
vars     == <<world, cursor, saves, reading, queue, worker, imported>>

LoopPc  == {"off", "ask", "read", "wait", "hung"}
StagePc == {"none", "lookup", "import"}
OtherPc == {"idle", "create", "done"}

Recorded(key) == \E r \in Row : Key[r] = key /\ imported[r] > 0

\* The messages that onTransaction pushes for transaction n, in output order.
Carried(n)  == (Upto[n - 1] + 1)..Upto[n]
Messages(n) == [k \in 1..(Upto[n] - Upto[n - 1]) |-> Upto[n - 1] + k]

Init ==
  /\ mined = 0
  /\ cursor = 0 /\ saves = {}
  /\ latest = 0 /\ loop = "off" /\ pos = 1 /\ end = 0
  /\ queue = <<>> /\ busy = Nobody /\ stage = "none"
  /\ todo = {} /\ making = {}
  /\ imported = [r \in Row |-> 0]
  /\ other = [r \in Others |-> "idle"]

-----------------------------------------------------------------------------
(* The polling loop.                                                       *)

\* Broken: the saved block is not handed to the crawler.
StartFromZero ==
  /\ loop = "off"
  /\ loop' = "ask"
  /\ UNCHANGED <<world, database, saves, latest, pos, end, queue, worker>>

\* startCrawler: findOrCreate of the sync record, then crawler.start().
StartCrawler ==
  /\ loop = "off"
  /\ loop' = "ask"
  /\ latest' = cursor
  /\ UNCHANGED <<world, database, saves, pos, end, queue, worker>>

\* runOnceFromStart: the answer to the POST has what is mined above the block.
Ask ==
  /\ loop = "ask"
  /\ loop' = "read"
  /\ pos' \in 1..(Last + 1)
  /\ \A n \in Item : n < pos' <=> Height[n] <= latest
  /\ end' = mined
  /\ UNCHANGED <<world, database, saves, latest, queue, worker>>

\* Broken: only the transaction that opens a block is queued.
ReadFirstOfBlock ==
  /\ loop = "read" /\ pos <= end
  /\ queue' = IF Height[pos] # latest THEN queue \o Messages(pos) ELSE queue
  /\ latest' = Height[pos]
  /\ saves' = saves \cup {Height[pos]}
  /\ pos' = pos + 1
  /\ UNCHANGED <<world, database, loop, end, worker>>

\* One chunk: onTransaction pushes a message per matching output, then the
\* latestBlock event, whose listener sets block_index and saves the sync record
\* if that changed it.
Read ==
  /\ loop = "read" /\ pos <= end
  /\ queue' = queue \o Messages(pos)
  /\ latest' = Height[pos]
  /\ saves' = IF Height[pos] # latest THEN saves \cup {Height[pos]} ELSE saves
  /\ pos' = pos + 1
  /\ UNCHANGED <<world, database, loop, end, worker>>

Finish ==
  /\ loop = "read" /\ pos > end
  /\ loop' = "wait"
  /\ UNCHANGED <<world, database, saves, latest, pos, end, queue, worker>>

Delay ==
  /\ loop = "wait"
  /\ loop' = "ask"
  /\ UNCHANGED <<world, database, saves, latest, pos, end, queue, worker>>

\* The catch of a failed POST settles no promise, and nothing listens to an error
\* of the response stream: the loop awaits for ever.
Hang ==
  /\ MayFail /\ loop \in {"ask", "read"}
  /\ loop' = "hung"
  /\ UNCHANGED <<world, database, saves, latest, pos, end, queue, worker>>

\* The saves use several connections, so they land in any order.
SaveLands ==
  \E h \in saves : /\ cursor' = h
                   /\ saves' = saves \ {h}
                   /\ UNCHANGED <<world, reading, queue, worker, imported>>

-----------------------------------------------------------------------------
(* The worker.                                                             *)

Rest == busy' = Nobody /\ stage' = "none"

Take ==
  /\ busy = Nobody /\ queue # <<>>
  /\ busy' = Head(queue) /\ queue' = Tail(queue)
  /\ stage' = "lookup"
  /\ UNCHANGED <<world, database, saves, reading, todo, making>>

Found(m) == Points[m] # NoRow /\ imported[Points[m]] > 0

\* Broken: the callback is called only after an import, so the queue waits for ever.
LookupSticks ==
  /\ stage = "lookup" /\ ~Found(busy)
  /\ stage' = "import"
  /\ todo' = {r \in Row : Of[r] = Names[busy]}
  /\ UNCHANGED <<world, database, saves, reading, queue, busy, making>>

\* The findOne of the row at (tx_id, tx_index).  An index of 0 in the value is
\* falsy, so that the index of the carrying output stands in for it.  If nothing
\* is found, the import fetches the transaction and starts on its rows.
Lookup ==
  /\ stage = "lookup"
  /\ IF Found(busy)
     THEN Rest /\ UNCHANGED todo
     ELSE /\ stage' = "import"
          /\ todo' = {r \in Row : Of[r] = Names[busy]}
          /\ UNCHANGED busy
  /\ UNCHANGED <<world, database, saves, reading, queue, making>>

\* Broken: every row of the transaction is created, found or not.
CheckNothing(r) ==
  /\ stage = "import" /\ r \in todo
  /\ todo' = todo \ {r}
  /\ making' = making \cup {r}
  /\ UNCHANGED <<world, database, saves, reading, queue, busy, stage>>

\* persistBoostJob or importBoostProof: a row with the key is returned as it is.
Check(r) ==
  /\ stage = "import" /\ r \in todo
  /\ todo' = todo \ {r}
  /\ making' = IF Recorded(Key[r]) THEN making ELSE making \cup {r}
  /\ UNCHANGED <<world, database, saves, reading, queue, busy, stage>>

\* importBoostProof returns when the job is missing even after its import.
GiveUp(r) ==
  /\ stage = "import" /\ r \in todo \cap Orphans
  /\ todo' = todo \ {r}
  /\ UNCHANGED <<world, database, saves, reading, queue, busy, stage, making>>

Create(r) ==
  /\ r \in making
  /\ imported' = [imported EXCEPT ![r] = @ + 1]
  /\ making' = making \ {r}
  /\ UNCHANGED <<world, cursor, saves, reading, queue, busy, stage, todo>>

\* Broken: the callback does not wait for the rows that are being created.
DoneEarly ==
  /\ stage = "import" /\ todo = {}
  /\ Rest
  /\ UNCHANGED <<world, database, saves, reading, queue, todo, making>>

\* The import has resolved, whatever it recorded, and the callback is called.
Done ==
  /\ stage = "import" /\ todo = {} /\ making = {}
  /\ Rest
  /\ UNCHANGED <<world, database, saves, reading, queue, todo, making>>

-----------------------------------------------------------------------------
(* The environment.                                                        *)

\* bitbus has one more block.
Mine ==
  /\ mined < Last
  /\ mined' \in Item
  /\ \A n \in Item : n <= mined' <=> Height[n] <= Height[mined + 1]
  /\ UNCHANGED <<other, database, saves, reading, queue, worker>>

\* The listener or the API looks for the same row, finds none, and creates it.
OtherChecks(r) ==
  /\ other[r] = "idle" /\ ~Recorded(Key[r])
  /\ other' = [other EXCEPT ![r] = "create"]
  /\ UNCHANGED <<mined, database, saves, reading, queue, worker>>

OtherCreates(r) ==
  /\ other[r] = "create"
  /\ other' = [other EXCEPT ![r] = "done"]
  /\ imported' = [imported EXCEPT ![r] = @ + 1]
  /\ UNCHANGED <<mined, cursor, saves, reading, queue, worker>>

\* The process stops: a save in flight, the queue and the worker are gone.
Stop ==
  /\ loop' = "off" /\ latest' = 0 /\ pos' = 1 /\ end' = 0
  /\ saves' = {} /\ queue' = <<>> /\ Rest /\ todo' = {} /\ making' = {}
  /\ UNCHANGED <<world, database>>

Crash == MayStop /\ loop # "off" /\ Stop

\* Nobody handles the rejection of the worker, nor that of an onTransaction which
\* cannot parse a value: either ends the process on Node 16.
Reject == MayFail /\ (busy # Nobody \/ loop = "read") /\ Stop

-----------------------------------------------------------------------------
Loop  == StartCrawler \/ Ask \/ Read \/ Finish \/ Delay
Work  == \/ Take \/ Lookup \/ Done
         \/ \E r \in Row : Check(r) \/ GiveUp(r) \/ Create(r)
Other == \E r \in Others : OtherChecks(r) \/ OtherCreates(r)

Next ==
  \/ Loop \/ Hang \/ SaveLands \/ Work
  \/ Mine \/ Other \/ Crash \/ Reject

Spec == Init /\ [][Next]_vars

\* Answers, timers and database operations arrive, and the miners go on.
FairSpec == Spec /\ WF_vars(Loop) /\ WF_vars(Work) /\ WF_vars(SaveLands) /\ WF_vars(Mine)

-----------------------------------------------------------------------------
(* Properties.                                                             *)

\* Every variable keeps its shape: the worker has a stage when it has a message,
\* and rows in hand only while it imports the transaction that the message names.
TypeOK ==
  /\ mined \in 0..Last
  /\ cursor \in Nat /\ latest \in Nat /\ saves \in SUBSET Nat
  /\ loop \in LoopPc
  /\ pos \in 1..(Last + 1) /\ end \in 0..Last
  /\ queue \in Seq(Message)
  /\ busy \in Message \cup {Nobody} /\ stage \in StagePc
  /\ busy = Nobody <=> stage = "none"
  /\ \A r \in todo \cup making : r \in Row /\ stage = "import" /\ Of[r] = Names[busy]
  /\ imported \in [Row -> Nat]
  /\ other \in [Others -> OtherPc]

Unread == IF loop = "read" THEN UNION {Carried(n) : n \in pos..end} ELSE {}
ReadTo == IF loop = "off" THEN cursor ELSE latest
Queued == {queue[i] : i \in DOMAIN queue}
InHand == IF stage = "lookup" THEN {busy} ELSE {}

\* Rows that something in memory will still look for.
Pending(r) == \/ r \in todo \cup making
              \/ \E m \in Queued \cup InHand \cup Unread : Names[m] = Of[r]

\* Rows that a transaction at or below the block the crawler will ask above named,
\* which are not in the database and which nothing in memory will bring there.
Passed(n) == Height[n] <= ReadTo
Lost == {r \in Row : /\ imported[r] = 0 /\ ~Pending(r)
                     /\ \E n \in Item : /\ Passed(n)
                                        /\ \E m \in Carried(n) : Names[m] = Of[r]}

\* A row that the importer will not create: another one is found by the same key,
\* a job of the same transaction or a proof that spends the same output, or the
\* job of the proof may be missing.
Hidden(r) == r \in Orphans \/ Recorded(Key[r])

\* While the crawler goes on, latestBlock passes no transaction whose messages are
\* not queued, in hand or still in the response, although the block is taken as
\* read at its first transaction and the request asks strictly above it; and no
\* lookup of the worker drops a row that is not recorded.  A row is lost by a stop,
\* by a hung request, or because the importer takes another row for it.
OnlyStopsOrSiblingsLose ==
  [][loop' \in {"off", "hung"} \/ \A r \in Lost' \ Lost : Hidden(r)']_vars

\* A message is handed to the worker once in the life of a process and in chain
\* order, whatever the polls overlap with.
QueuedOnce ==
  /\ \A i, j \in DOMAIN queue : i < j => queue[i] < queue[j]
  /\ \A i \in DOMAIN queue : busy < queue[i]

\* Several messages name one transaction, a lookup by the wrong index finds
\* nothing, and saves that land out of order make a restart read blocks again:
\* still the crawler never records a row twice, because the import looks again;
\* only one that another path creates after looking comes out double.
ImportedOnce ==
  \A r \in Row : imported[r] <= IF r \in Others THEN 2 ELSE 1

\* No message is worked on twice by a process, and no row is recorded twice by any.
WorkedOnce == QueuedOnce /\ ImportedOnce

\* The cursor never gets ahead of what this process has read, or of what the one
\* before it saved.
CursorIsBehind == loop # "off" => \A h \in saves \cup {cursor} : h <= latest

Wanted == {r \in Row : \E m \in Message : Names[m] = Of[r]}

\* Once the process stays up, every row that a mined message names is either
\* recorded in the end or one of those that OnlyStopsOrSiblingsLose accounts for:
\* no message sticks in the queue or with the worker.
WantedIsSettled ==
  \A r \in Wanted : <>[](loop \notin {"off", "hung"}) => <>[](imported[r] > 0 \/ r \in Lost)
=============================================================================
