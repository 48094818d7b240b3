---------------------------- MODULE BoostImport ----------------------------
(***************************************************************************)
(* The importer of src/boost.ts: every path by which a boost job (an       *)
(* output of a transaction) or a boost proof (the transaction that redeems *)
(* such an output) becomes a row of boost_jobs or boost_job_proofs.        *)
(*                                                                         *)
(* A Call is one run of an exported import function.  All calls interleave *)
(* at their awaits and share nothing but the database, so there is one     *)
(* action for each awaited operation together with the synchronous code    *)
(* that follows it.  The fan-out over the outputs of a transaction         *)
(* (Promise.all) is a family of fibers, one per output, owned by the call. *)
(***************************************************************************)
EXTENDS Naturals, Sequences, FiniteSets

EntryPoint == {"jobByTxid", "jobByHex", "postJob",
               "proofByTxid", "proofByHex", "submitProof"}

CONSTANTS
  JobTx,       \* transactions that carry boost outputs
  Outpoint,    \* outputs of those transactions
  JobOut,      \* the outputs that parse as a boost job
  TxOf,        \* [Outpoint -> JobTx], the transaction of an output
  ProofTx,     \* transactions that redeem an output with a proof
  Spends,      \* [ProofTx -> Outpoint], spentTxid and spentVout of the proof
  Call,        \* calls that may be in flight at one time
  Process,     \* operating system processes that run the importer
  Home,        \* [Call -> Process], the process that runs the call
  Entry,       \* the entry points a deployment has switched on
  UniqueJobs,  \* is the index on boost_jobs(txid, vout) unique?
  MayFail,     \* may an HTTP, database or AMQP operation reject?
  MayCrash,    \* may a process stop and start again?
  None

ASSUME ImportAssumption ==
  /\ JobOut \subseteq Outpoint
  /\ TxOf \in [Outpoint -> JobTx]
  /\ Spends \in [ProofTx -> Outpoint]
  /\ Home \in [Call -> Process]
  /\ Entry \subseteq EntryPoint
  /\ UniqueJobs \in BOOLEAN /\ MayFail \in BOOLEAN /\ MayCrash \in BOOLEAN
  /\ None \notin JobTx \cup Outpoint \cup ProofTx

\* Only so many calls fit in the memory of the processes.
ASSUME CallsAreFinite == IsFiniteSet(Call)

VARIABLES
  network,  \* transactions the chain services and peers know of
  jobs,     \* boost_jobs, in the order of insertion
  work,     \* boost_job_proofs, in the order of insertion
  events,   \* events published on the "powco" exchange
  pc,       \* where each call is: the operation it awaits
  tx,       \* the job transaction the call imports
  out,      \* the output the call is about
  proof,    \* the proof the call imports
  job,      \* index of the boost_jobs row whose instance the call holds
  seen,     \* spent_txid of that instance when it was read
  fib       \* the fan-out: where the fiber of each output is

tables == <<network, jobs, work, events>>
locals == <<tx, out, proof, job, seen>>
vars   == <<tables, pc, locals, fib>>

OutputsOf(t) == {o \in JobOut : TxOf[o] = t}
Rows(o)      == {i \in DOMAIN jobs : jobs[i].out = o}
RowsOfTx(t)  == {i \in DOMAIN jobs : TxOf[jobs[i].out] = t}
Proofs(o)    == {i \in DOMAIN work : work[i].job = o}

Settled    == {"imported", "recorded", "gaveUp", "failed"}
JobSteps   == {"lookupJob", "fetchJobTx", "import"}
ProofSteps == {"detached", "checkChain", "broadcast", "fetchProof", "findJob",
               "findJobAgain", "findProof", "createProof", "saveJob",
               "healFind", "healSave"}
DbSteps    == {"lookupJob", "findJob", "findJobAgain", "findProof",
               "createProof", "saveJob", "healFind", "healSave"}
FiberPc    == {"off", "find", "findTx", "time", "create", "publish",
               "done", "fail"}
AllOff     == [o \in JobOut |-> "off"]

JobRow   == [out: JobOut, spent: BOOLEAN, spent_txid: ProofTx \cup {None}]
WorkRow  == [job: JobOut, spend_txid: ProofTx]
Event    == [topic: {"job.created", "proof.created", "job.completed"},
             job: JobOut, proof: ProofTx \cup {None}]
Publish(topic, o, p) ==
  events' = events \cup {[topic |-> topic, job |-> o, proof |-> p]}

Init ==
  /\ network = {}
  /\ jobs = <<>>
  /\ work = <<>>
  /\ events = {}
  /\ pc    = [c \in Call |-> "idle"]
  /\ tx    = [c \in Call |-> None]
  /\ out   = [c \in Call |-> None]
  /\ proof = [c \in Call |-> None]
  /\ job   = [c \in Call |-> 0]
  /\ seen  = [c \in Call |-> None]
  /\ fib   = [c \in Call |-> AllOff]

-----------------------------------------------------------------------------
(* Entering the importer.                                                  *)

Goto(c, step) == pc' = [pc EXCEPT ![c] = step]

FanOut(c, t) ==
  /\ Goto(c, "import")
  /\ fib' = [fib EXCEPT ![c] =
               [o \in JobOut |-> IF o \in OutputsOf(t) THEN "find" ELSE "off"]]

Idle(c) == pc[c] = "idle"

About(c, t, o, p) ==
  /\ tx'    = [tx EXCEPT ![c] = t]
  /\ out'   = [out EXCEPT ![c] = o]
  /\ proof' = [proof EXCEPT ![c] = p]
  /\ UNCHANGED <<tables, job, seen>>

AboutProof(c, p) == About(c, TxOf[Spends[p]], Spends[p], p)

\* importBoostJobFromTxid: HTTP, the import_boost_job actor, the crawler.
JobByTxid(c, t) ==
  /\ "jobByTxid" \in Entry /\ Idle(c)
  /\ Goto(c, "fetchJobTx")
  /\ About(c, t, None, None)
  /\ UNCHANGED fib

\* importBoostJobFromTxHex: the listener, for a transaction it saw in the
\* mempool.
JobByHex(c, t) ==
  /\ "jobByHex" \in Entry /\ Idle(c) /\ t \in network
  /\ FanOut(c, t)
  /\ About(c, t, None, None)

\* importBoostJob: POST /boost/jobs makes one such call per output of the
\* transaction it was given.
PostJob(c, o) ==
  /\ "postJob" \in Entry /\ Idle(c)
  /\ Goto(c, "lookupJob")
  /\ About(c, TxOf[o], o, None)
  /\ UNCHANGED fib

ProofByTxid(c, p) ==
  /\ "proofByTxid" \in Entry /\ Idle(c)
  /\ Goto(c, "fetchProof")
  /\ AboutProof(c, p)
  /\ UNCHANGED fib

\* importBoostProofFromTxHexListener: trusted, so it is not broadcast.
ProofByHex(c, p) ==
  /\ "proofByHex" \in Entry /\ Idle(c) /\ p \in network
  /\ Goto(c, "findJob")
  /\ AboutProof(c, p)
  /\ UNCHANGED fib

\* importBoostProofFromTxHex: call d is the import by txid that the untrusted
\* path launches without awaiting it.  Nobody handles its rejection, which on
\* Node 16 ends the process: d fails and then the process may Crash.
SubmitProof(c, d, p) ==
  /\ "submitProof" \in Entry /\ Idle(c) /\ Idle(d)
  /\ c # d /\ Home[c] = Home[d]
  /\ pc'    = [pc EXCEPT ![c] = "checkChain", ![d] = "detached"]
  /\ tx'    = [tx EXCEPT ![c] = TxOf[Spends[p]], ![d] = TxOf[Spends[p]]]
  /\ out'   = [out EXCEPT ![c] = Spends[p], ![d] = Spends[p]]
  /\ proof' = [proof EXCEPT ![c] = p, ![d] = p]
  /\ UNCHANGED <<tables, job, seen, fib>>

-----------------------------------------------------------------------------
(* The job half.                                                           *)

LookupJob(c) ==
  /\ pc[c] = "lookupJob"
  /\ \/ Rows(out[c]) # {} /\ Goto(c, "imported") /\ UNCHANGED fib
     \/ Rows(out[c]) = {} /\ FanOut(c, tx[c])
     \/ Rows(out[c]) = {} /\ Goto(c, "fetchJobTx") /\ UNCHANGED fib
  /\ UNCHANGED <<tables, locals>>

FetchJobTx(c) ==
  /\ pc[c] = "fetchJobTx"
  /\ \/ tx[c] \in network /\ FanOut(c, tx[c])
     \/ (tx[c] \notin network \/ MayFail) /\ Goto(c, "failed") /\ UNCHANGED fib
  /\ UNCHANGED <<tables, locals>>

Move(c, o, step) == fib' = [fib EXCEPT ![c][o] = step]

FiberFind(c, o) ==
  /\ fib[c][o] = "find"
  /\ Move(c, o, IF Rows(o) # {} THEN "done" ELSE "findTx")
  /\ UNCHANGED <<tables, pc, locals>>

\* The lookup of persistBoostJob, by transaction alone.
FiberFindTx(c, o) ==
  /\ fib[c][o] = "findTx"
  /\ Move(c, o, IF RowsOfTx(TxOf[o]) # {} THEN "done" ELSE "time")
  /\ UNCHANGED <<tables, pc, locals>>

FiberTime(c, o) ==
  /\ fib[c][o] = "time"
  /\ \/ TxOf[o] \in network /\ Move(c, o, "create")
     \/ (TxOf[o] \notin network \/ MayFail) /\ Move(c, o, "fail")
  /\ UNCHANGED <<tables, pc, locals>>

Insert(c, o, spent, step) ==
  /\ Move(c, o, step)
  /\ jobs' = Append(jobs, [out |-> o, spent |-> spent, spent_txid |-> None])

\* Broken: the default of spent is missing; the record is
\* returned before it is announced.
FiberCreateNull(c, o) ==
  /\ fib[c][o] = "create" /\ Insert(c, o, None, "publish")
  /\ UNCHANGED <<network, work, events, pc, locals>>
FiberCreateSilent(c, o) ==
  /\ fib[c][o] = "create" /\ Insert(c, o, FALSE, "done")
  /\ UNCHANGED <<network, work, events, pc, locals>>

FiberCreate(c, o) ==
  /\ fib[c][o] = "create"
  /\ IF UniqueJobs /\ Rows(o) # {}
     THEN Move(c, o, "fail") /\ UNCHANGED jobs
     ELSE Insert(c, o, FALSE, "publish")
  /\ UNCHANGED <<network, work, events, pc, locals>>

FiberPublish(c, o) ==
  /\ fib[c][o] = "publish"
  /\ Move(c, o, "done")
  /\ Publish("job.created", o, None)
  /\ UNCHANGED <<network, jobs, work, pc, locals>>

Fiber(c, o) ==
  \/ FiberFind(c, o) \/ FiberFindTx(c, o) \/ FiberTime(c, o)
  \/ FiberCreate(c, o) \/ FiberPublish(c, o)

FiberRejects(c, o) ==
  /\ MayFail /\ fib[c][o] \in {"find", "findTx", "create", "publish"}
  /\ Move(c, o, "fail")
  /\ UNCHANGED <<tables, pc, locals>>

ImportDone(c) ==
  /\ pc[c] = "import"
  /\ \A o \in JobOut : fib[c][o] \in {"off", "done"}
  /\ Goto(c, IF proof[c] = None THEN "imported" ELSE "findJobAgain")
  /\ fib' = [fib EXCEPT ![c] = AllOff]
  /\ UNCHANGED <<tables, locals>>

\* Promise.all rejects with the first fiber that does; the others go on.
ImportRejected(c) ==
  /\ pc[c] = "import"
  /\ \E o \in JobOut : fib[c][o] = "fail"
  /\ Goto(c, "failed")
  /\ UNCHANGED <<tables, locals, fib>>

-----------------------------------------------------------------------------
(* The proof half.                                                         *)

\* After the transaction is known to be broadcast, _importBoostProofFromTxHex
\* starts the import by txid and goes on without waiting for it.
Launch(c) ==
  \E d \in Call : /\ pc[d] = "detached" /\ proof[d] = proof[c] /\ Home[d] = Home[c]
                  /\ pc' = [pc EXCEPT ![c] = "findJob", ![d] = "fetchProof"]

CheckChain(c) ==
  /\ pc[c] = "checkChain"
  /\ \/ proof[c] \in network /\ Launch(c)
     \/ (proof[c] \notin network \/ MayFail) /\ Goto(c, "broadcast")
  /\ UNCHANGED <<tables, locals, fib>>

\* Broken: the error of the broadcast is logged and the import goes on.
BroadcastIgnored(c) ==
  /\ pc[c] = "broadcast" /\ Launch(c)
  /\ UNCHANGED <<tables, locals, fib>>

Broadcast(c) ==
  /\ pc[c] = "broadcast"
  /\ \/ /\ tx[c] \in network
        /\ network' = network \cup {proof[c]}
        /\ Launch(c)
     \/ /\ \E d \in Call :
             /\ pc[d] = "detached" /\ proof[d] = proof[c] /\ Home[d] = Home[c]
             /\ pc' = [pc EXCEPT ![c] = "failed", ![d] = "failed"]
        /\ UNCHANGED network
  /\ UNCHANGED <<jobs, work, events, locals, fib>>

FetchProof(c) ==
  /\ pc[c] = "fetchProof"
  /\ \/ proof[c] \in network /\ Goto(c, "findJob")
     \/ (proof[c] \notin network \/ MayFail) /\ Goto(c, "failed")
  /\ UNCHANGED <<tables, locals, fib>>

\* findOne without an order: any row of the output may be the one returned.
Hold(c, i) ==
  /\ job'  = [job EXCEPT ![c] = i]
  /\ seen' = [seen EXCEPT ![c] = jobs[i].spent_txid]

FindJobOr(c, step, missing) ==
  /\ pc[c] = step
  /\ \/ /\ \E i \in Rows(out[c]) : Hold(c, i)
        /\ Goto(c, "findProof")
     \/ /\ Rows(out[c]) = {}
        /\ Goto(c, missing)
        /\ UNCHANGED <<job, seen>>
  /\ UNCHANGED <<tables, tx, out, proof, fib>>

\* Broken: a missing job is not imported.
FindJobOnce(c) == FindJobOr(c, "findJob", "gaveUp")

FindJob(c)      == FindJobOr(c, "findJob", "fetchJobTx")
FindJobAgain(c) == FindJobOr(c, "findJobAgain", "gaveUp")

FindProofOr(c, found, missing) ==
  /\ pc[c] = "findProof"
  /\ Goto(c, IF Proofs(out[c]) = {} THEN missing ELSE found)
  /\ UNCHANGED <<tables, locals, fib>>

\* Broken: a proof is written whatever the lookup finds; only when it finds one;
\* a proof that is found is returned even if its job is not marked spent.
FindProofUnchecked(c) == FindProofOr(c, "createProof", "createProof")
FindProofInverted(c)  == FindProofOr(c, "createProof", "healFind")
FindProofEarly(c)     == FindProofOr(c, "recorded", "createProof")

\* found never ends the call: job.spend_txid of line 318 is no column.
FindProof(c) == FindProofOr(c, "healFind", "createProof")

InsertProof(c, topic, step) ==
  /\ pc[c] = "createProof"
  /\ Goto(c, step)
  /\ work' = Append(work, [job |-> out[c], spend_txid |-> proof[c]])
  /\ Publish(topic, out[c], proof[c])
  /\ UNCHANGED <<network, jobs, locals, fib>>

\* Broken: the job is not saved.
CreateProofReturns(c) == InsertProof(c, "proof.created", "recorded")

CreateProof(c) == InsertProof(c, "proof.created", "saveJob")

Spent(i, txid) == [jobs[i] EXCEPT !.spent = TRUE, !.spent_txid = txid]
MarkSpent(i, txid) == jobs' = [jobs EXCEPT ![i] = Spent(i, txid)]

\* save() writes the attributes that differ from the instance as it was read.
SaveJob(c) ==
  /\ pc[c] = "saveJob"
  /\ Goto(c, "healFind")
  /\ MarkSpent(job[c], IF seen[c] = proof[c] THEN jobs[job[c]].spent_txid ELSE proof[c])
  /\ Publish("job.completed", out[c], proof[c])
  /\ UNCHANGED <<network, work, locals, fib>>

HealFind(c) ==
  /\ pc[c] = "healFind"
  /\ \E i \in Rows(out[c]) : Hold(c, i)
  /\ Goto(c, "healSave")
  /\ UNCHANGED <<tables, tx, out, proof, fib>>

\* Broken: the save writes every attribute as it was read.
HealSaveStale(c) ==
  /\ pc[c] = "healSave"
  /\ Goto(c, "recorded")
  /\ MarkSpent(job[c], seen[c])
  /\ UNCHANGED <<network, work, events, locals, fib>>

\* spend_txid and spend_vout are no columns of boost_jobs: only spent is saved.
HealSave(c) ==
  /\ pc[c] = "healSave"
  /\ Goto(c, "recorded")
  /\ MarkSpent(job[c], jobs[job[c]].spent_txid)
  /\ UNCHANGED <<network, work, events, locals, fib>>

\* A database operation that the call awaits rejects, and so does the call.
StepRejects(c) ==
  /\ MayFail /\ pc[c] \in DbSteps
  /\ Goto(c, "failed")
  /\ UNCHANGED <<tables, locals, fib>>

-----------------------------------------------------------------------------
(* The environment.                                                        *)

\* Somebody else broadcasts the transaction.  The network takes no transaction
\* that spends an output it does not know.
Appear(t) ==
  /\ t \notin network
  /\ t \in ProofTx => TxOf[Spends[t]] \in network
  /\ network' = network \cup {t}
  /\ UNCHANGED <<jobs, work, events, pc, locals, fib>>

Forget(S) ==
  /\ pc'    = [c \in Call |-> IF c \in S THEN "idle" ELSE pc[c]]
  /\ tx'    = [c \in Call |-> IF c \in S THEN None ELSE tx[c]]
  /\ out'   = [c \in Call |-> IF c \in S THEN None ELSE out[c]]
  /\ proof' = [c \in Call |-> IF c \in S THEN None ELSE proof[c]]
  /\ job'   = [c \in Call |-> IF c \in S THEN 0 ELSE job[c]]
  /\ seen'  = [c \in Call |-> IF c \in S THEN None ELSE seen[c]]
  /\ fib'   = [c \in Call |-> IF c \in S THEN AllOff ELSE fib[c]]
  /\ UNCHANGED tables

\* The caller has its answer, and no fiber of a rejected import still runs.
Release(c) ==
  /\ pc[c] \in Settled
  /\ \A o \in JobOut : fib[c][o] \in {"off", "done", "fail"}
  /\ Forget({c})

\* A process stops: what its calls had in memory is gone, the rows stay.
Crash(q) ==
  /\ MayCrash
  /\ \E c \in Call : Home[c] = q /\ ~Idle(c)
  /\ Forget({c \in Call : Home[c] = q})

-----------------------------------------------------------------------------
Start(c) ==
  \/ \E t \in JobTx : JobByTxid(c, t) \/ JobByHex(c, t)
  \/ \E o \in JobOut : PostJob(c, o)
  \/ \E p \in ProofTx : ProofByTxid(c, p) \/ ProofByHex(c, p)
  \/ \E p \in ProofTx, d \in Call : SubmitProof(c, d, p)

Step(c) ==
  \/ LookupJob(c) \/ FetchJobTx(c) \/ ImportDone(c) \/ ImportRejected(c)
  \/ CheckChain(c) \/ Broadcast(c) \/ FetchProof(c)
  \/ FindJob(c) \/ FindJobAgain(c) \/ FindProof(c)
  \/ CreateProof(c) \/ SaveJob(c) \/ HealFind(c) \/ HealSave(c)

Next ==
  \/ \E c \in Call : Start(c) \/ Step(c) \/ StepRejects(c) \/ Release(c)
  \/ \E c \in Call, o \in JobOut : Fiber(c, o) \/ FiberRejects(c, o)
  \/ \E t \in JobTx \cup ProofTx : Appear(t)
  \/ \E q \in Process : Crash(q)

Spec == Init /\ [][Next]_vars

\* The event loop runs every continuation, and every awaited operation
\* resolves or rejects; nothing is assumed of callers, peers or crashes.
Fairness ==
  /\ \A c \in Call : WF_vars(Step(c))
  /\ \A c \in Call, o \in JobOut : WF_vars(Fiber(c, o))

FairSpec == Spec /\ Fairness

-----------------------------------------------------------------------------
(* Properties.                                                             *)

\* Every variable keeps its shape; a call in the proof half carries its proof,
\* the redeemed output and that output's transaction, and one past its job
\* lookup holds an instance of a row of that output.
TypeOK ==
  /\ network \in SUBSET (JobTx \cup ProofTx)
  /\ jobs \in Seq(JobRow)
  /\ work \in Seq(WorkRow)
  /\ events \in SUBSET Event
  /\ pc \in [Call -> {"idle"} \cup JobSteps \cup ProofSteps \cup Settled]
  /\ tx \in [Call -> JobTx \cup {None}]
  /\ out \in [Call -> Outpoint \cup {None}]
  /\ proof \in [Call -> ProofTx \cup {None}]
  /\ job \in [Call -> Nat]
  /\ seen \in [Call -> ProofTx \cup {None}]
  /\ fib \in [Call -> [JobOut -> FiberPc]]

\* A job is marked spent only when a proof of that very output is recorded, and
\* the spent_txid it shows is the transaction of such a proof, whatever order
\* concurrent imports, double spends and crashes put the two saves of
\* importBoostProof in.
SpentJobHasProof ==
  \A i \in DOMAIN jobs :
    /\ jobs[i].spent => Proofs(jobs[i].out) # {}
    /\ jobs[i].spent_txid # None =>
         /\ jobs[i].spent
         /\ \E w \in Proofs(jobs[i].out) : work[w].spend_txid = jobs[i].spent_txid

\* No proof is recorded for an output that has no job row: importBoostProof
\* imports the job first, or gives up.
ProofHasJob == \A w \in DOMAIN work : Rows(work[w].job) # {}

\* Proofs and jobs account for each other: a proof always has the row of its job.
ProofsMatchJobs == SpentJobHasProof /\ ProofHasJob

\* Only transactions the network knows are recorded, although POST /boost/jobs
\* takes raw transactions from anyone and never broadcasts them, and POST
\* /boost/proofs takes proofs that are not broadcast yet.
RowsAreOnChain ==
  /\ \A i \in DOMAIN jobs : TxOf[jobs[i].out] \in network
  /\ \A w \in DOMAIN work : work[w].spend_txid \in network

\* When importBoostProof resolves to a record, the output has a recorded proof
\* and a job row that is marked spent: a retry repairs what a crash or a failed
\* save left open.
ReturnedProofClosesJob ==
  \A c \in Call : pc[c] = "recorded" =>
    /\ Proofs(out[c]) # {}
    /\ \E i \in Rows(out[c]) : jobs[i].spent

\* importBoostProof drops a proof silently only if what it redeems is not a
\* job, or if the job was left out because another output of its transaction
\* had been recorded before it.
GiveUpIsJustified ==
  \A c \in Call : pc[c] = "gaveUp" =>
    \/ out[c] \notin JobOut
    \/ \E i \in RowsOfTx(tx[c]) : jobs[i].out # out[c]

\* Subscribers never hear of something that is not in the database: a created
\* event follows its row, a completed event follows the recorded proof and a
\* job row marked spent.
EventsFollowRows ==
  \A e \in events :
    /\ Rows(e.job) # {}
    /\ e.topic # "job.created" =>
         \E w \in Proofs(e.job) : work[w].spend_txid = e.proof
    /\ e.topic = "job.completed" => \E i \in Rows(e.job) : jobs[i].spent

\* What a subscriber hears of is in the database, and what is in the database is
\* on the network, in whatever order imports, broadcasts and crashes come.
EventsFollowTheChain == EventsFollowRows /\ RowsAreOnChain

\* Check-then-create lets concurrent calls record an output more than once, but
\* never more often than there are calls: once a row is there, a lookup that
\* starts later finds it.
DuplicatesBounded ==
  \A o \in JobOut : /\ Cardinality(Rows(o)) <= Cardinality(Call)
                    /\ Cardinality(Proofs(o)) <= Cardinality(Call)

\* A save from a stale instance takes nothing back: rows stay, a spent job stays
\* spent, and a spent_txid that was saved is never erased.
SavesKeepWhatWasSaved ==
  [][\A i \in DOMAIN jobs :
       /\ i \in DOMAIN jobs' /\ jobs'[i].out = jobs[i].out
       /\ jobs[i].spent => jobs'[i].spent
       /\ jobs[i].spent_txid # None => jobs'[i].spent_txid # None]_vars

\* Each job that is recorded is announced, or a call is about to announce it.
JobsAreAnnounced ==
  \A o \in JobOut : Rows(o) # {} =>
    \/ \E e \in events : e.topic = "job.created" /\ e.job = o
    \/ \E c \in Call : fib[c][o] = "publish"

\* An import by txid or of a raw transaction that succeeds has indexed every
\* job of the transaction.
ImportIndexesEveryJob ==
  \A c \in Call : pc[c] = "imported" => \A o \in OutputsOf(tx[c]) : Rows(o) # {}

\* Every import is answered, and a job with a recorded proof is marked spent in
\* the end, also one whose proof arrived before the job was known.
ImportsSettle ==
  /\ \A c \in Call : ~Idle(c) ~> (Idle(c) \/ pc[c] \in Settled)
  /\ \A o \in JobOut : Proofs(o) # {} ~> \E i \in Rows(o) : jobs[i].spent

\* The tables, seen without duplicates, behave as the ledger does.
Ledger == INSTANCE JobLedger WITH
  recorded <- {jobs[i].out : i \in DOMAIN jobs},
  proved   <- {work[w].spend_txid : w \in DOMAIN work},
  closed   <- {jobs[i].out : i \in {k \in DOMAIN jobs : jobs[k].spent}}

\* Whatever the interleaving, a step of the importer records one job, records
\* one proof of a recorded job, closes one job that has a recorded proof, or
\* leaves the ledger as it is.
ImplementsLedger == Ledger!LedgerSpec
=============================================================================
