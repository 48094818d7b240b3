-------------------------- MODULE BoostImportProofs --------------------------
(***************************************************************************)
(* Theorems about BoostImport, for every value of its constants.  First,   *)
(* its tables; then what the network, the tables and the events keep of    *)
(* each other, and that the importer implements JobLedger; then its calls: *)
(* an import gives up only with cause, every job is announced unless       *)
(* something fails, and how many duplicates a race can leave.              *)
(***************************************************************************)
EXTENDS BoostImport, SequenceTheorems, FiniteSetTheorems, TLAPS

-----------------------------------------------------------------------------
(* Rows.                                                                   *)

\* The columns of a row have their types.
RowsAreTyped ==
  /\ \A i \in DOMAIN jobs :
       /\ i \in Nat /\ jobs[i].out \in JobOut /\ jobs[i].spent \in BOOLEAN
       /\ jobs[i].spent_txid \in ProofTx \cup {None}
  /\ \A w \in DOMAIN work :
       w \in Nat /\ work[w].job \in JobOut /\ work[w].spend_txid \in ProofTx

LEMMA RowFacts == TypeOK => RowsAreTyped
  <1> SUFFICES ASSUME TypeOK PROVE RowsAreTyped
    OBVIOUS
  <1>1. \A i \in DOMAIN jobs : i \in Nat /\ jobs[i] \in JobRow
    BY DEF TypeOK
  <1>2. \A i \in DOMAIN work : i \in Nat /\ work[i] \in WorkRow
    BY DEF TypeOK
  <1>3. QED
    BY <1>1, <1>2 DEF JobRow, WorkRow, RowsAreTyped

\* Appending a row keeps the rows that are there.
LEMMA AppendRow ==
  ASSUME NEW S, NEW s \in Seq(S), NEW e \in S
  PROVE  /\ Append(s, e) \in Seq(S)
         /\ DOMAIN Append(s, e) = DOMAIN s \cup {Len(s) + 1}
         /\ \A i \in DOMAIN s : Append(s, e)[i] = s[i]
         /\ Append(s, e)[Len(s) + 1] = e
  OBVIOUS

\* Saving a row changes that row only.
LEMMA SaveRow ==
  ASSUME NEW S, NEW s \in Seq(S), NEW k \in DOMAIN s, NEW e \in S
  PROVE  /\ [s EXCEPT ![k] = e] \in Seq(S)
         /\ DOMAIN [s EXCEPT ![k] = e] = DOMAIN s
         /\ \A i \in DOMAIN s : [s EXCEPT ![k] = e][i] = IF i = k THEN e ELSE s[i]
  BY ExceptSeq

\* What a save leaves behind: row k is spent and shows t, all else is as before.
JobsSaved(k, t) ==
  /\ jobs' \in Seq(JobRow)
  /\ DOMAIN jobs' = DOMAIN jobs
  /\ jobs'[k].spent /\ jobs'[k].spent_txid = t
  /\ \A i \in DOMAIN jobs :
       /\ jobs'[i].out = jobs[i].out
       /\ i # k => jobs'[i] = jobs[i]

LEMMA MarkedRow ==
  ASSUME TypeOK, NEW k \in DOMAIN jobs, NEW t \in ProofTx \cup {None}, MarkSpent(k, t)
  PROVE  JobsSaved(k, t)
  <1>1. jobs \in Seq(JobRow) /\ jobs[k] \in JobRow
    BY DEF TypeOK
  <1>2. /\ Spent(k, t) \in JobRow /\ Spent(k, t).out = jobs[k].out
        /\ Spent(k, t).spent /\ Spent(k, t).spent_txid = t
    BY <1>1 DEF JobRow, Spent
  <1>3. /\ jobs' \in Seq(JobRow) /\ DOMAIN jobs' = DOMAIN jobs
        /\ \A i \in DOMAIN jobs : jobs'[i] = IF i = k THEN Spent(k, t) ELSE jobs[i]
    BY <1>1, <1>2, SaveRow DEF MarkSpent
  <1>4. QED
    BY <1>2, <1>3 DEF JobsSaved

\* Creating a job adds at most one row, and that row is open.
LEMMA CreateAppends ==
  ASSUME TypeOK, NEW c \in Call, NEW o \in JobOut, FiberCreate(c, o)
  PROVE  /\ jobs' \in Seq(JobRow)
         /\ \A i \in DOMAIN jobs : i \in DOMAIN jobs' /\ jobs'[i] = jobs[i]
         /\ \A i \in DOMAIN jobs' :
              i \in DOMAIN jobs \/ (~jobs'[i].spent /\ jobs'[i].spent_txid = None)
  <1> DEFINE row == [out |-> o, spent |-> FALSE, spent_txid |-> None]
  <1>1. row \in JobRow /\ ~row.spent /\ row.spent_txid = None
    BY DEF JobRow
  <1>2. jobs' = jobs \/ jobs' = Append(jobs, row)
    BY DEF FiberCreate, Insert
  <1> HIDE DEF row
  <1>3. jobs \in Seq(JobRow)
    BY DEF TypeOK
  <1>4. CASE jobs' = jobs
    BY <1>3, <1>4
  <1>5. CASE jobs' = Append(jobs, row)
    BY <1>1, <1>3, <1>5, AppendRow
  <1>6. QED
    BY <1>2, <1>4, <1>5

\* A published event has the shape of one.
LEMMA PublishTyped ==
  ASSUME TypeOK, NEW o \in JobOut, NEW p \in ProofTx \cup {None},
         NEW topic \in {"job.created", "proof.created", "job.completed"},
         Publish(topic, o, p)
  PROVE  events' \in SUBSET Event
  BY DEF TypeOK, Publish, Event

-----------------------------------------------------------------------------
(* What a call carries.                                                    *)

HoldSteps   == {"findProof", "createProof", "saveJob", "healSave"}
ProofCalls  == ProofSteps \cup {"recorded", "gaveUp"}

\* A call in the proof half carries its proof, and every call that carries a
\* proof is about the output it redeems; a call in the job half knows its
\* transaction.
CallsAreAbout ==
  \A c \in Call :
    /\ proof[c] # None => out[c] = Spends[proof[c]] /\ tx[c] = TxOf[out[c]]
    /\ pc[c] \in ProofCalls => proof[c] # None
    /\ pc[c] \in JobSteps => tx[c] \in JobTx
    /\ pc[c] = "lookupJob" => out[c] \in JobOut

\* A call past a job lookup holds an instance of a row of its output.
CallsHoldRows ==
  \A c \in Call : pc[c] \in HoldSteps =>
    job[c] \in DOMAIN jobs /\ jobs[job[c]].out = out[c]

Typed == TypeOK /\ CallsAreAbout /\ CallsHoldRows

\* What the assumptions say of outputs and proofs.
LEMMA ConstantFacts ==
  /\ \A o \in JobOut : o \in Outpoint /\ TxOf[o] \in JobTx
  /\ \A p \in ProofTx : Spends[p] \in Outpoint /\ TxOf[Spends[p]] \in JobTx /\ p # None
  BY ImportAssumption

\* The fan-out starts fibers of the right shape.
LEMMA FanOutTyped ==
  ASSUME TypeOK, NEW c \in Call, NEW t, FanOut(c, t)
  PROVE  /\ fib' \in [Call -> [JobOut -> FiberPc]]
         /\ pc' = [pc EXCEPT ![c] = "import"]
  <1>1. [o \in JobOut |-> IF o \in OutputsOf(t) THEN "find" ELSE "off"] \in [JobOut -> FiberPc]
    BY DEF FiberPc
  <1>2. QED
    BY <1>1 DEF FanOut, Goto, TypeOK

\* Launching moves the call and its detached lane on, and nobody else.
LEMMA LaunchTyped ==
  ASSUME Typed, NEW c \in Call, pc[c] \in {"checkChain", "broadcast"}, Launch(c),
         UNCHANGED <<jobs, locals>>
  PROVE  /\ pc' \in [Call -> {"idle"} \cup JobSteps \cup ProofSteps \cup Settled]
         /\ CallsAreAbout' /\ CallsHoldRows'
  <1> PICK d \in Call :
        /\ pc[d] = "detached"
        /\ pc' = [pc EXCEPT ![c] = "findJob", ![d] = "fetchProof"]
    BY DEF Launch
  <1>1. pc' \in [Call -> {"idle"} \cup JobSteps \cup ProofSteps \cup Settled]
    BY DEF Typed, TypeOK, ProofSteps
  <1>2. \A b \in Call : \/ pc'[b] = pc[b]
                        \/ b \in {c, d} /\ pc'[b] \in {"findJob", "fetchProof"}
    BY DEF Typed, TypeOK
  <1>3. /\ \A b \in Call : pc'[b] \in ProofCalls => pc[b] \in ProofCalls
        /\ \A b \in Call : pc'[b] \in JobSteps \cup HoldSteps => pc'[b] = pc[b]
    BY <1>2 DEF ProofCalls, ProofSteps, JobSteps, HoldSteps
  <1>4. CallsAreAbout'
    BY <1>3 DEF Typed, CallsAreAbout, locals, JobSteps
  <1>5. CallsHoldRows'
    BY <1>3 DEF Typed, CallsHoldRows, locals
  <1>6. QED
    BY <1>1, <1>4, <1>5

LEMMA InitTyped == Init => Typed
  BY ImportAssumption
  DEF Init, Typed, TypeOK, CallsAreAbout, CallsHoldRows, JobRow, WorkRow, AllOff,
      FiberPc, ProofCalls, ProofSteps, JobSteps, HoldSteps

LEMMA StartTyped ==
  ASSUME Typed, NEW c \in Call, Start(c)
  PROVE  Typed'
  <1> USE ConstantFacts DEF ProofSteps, JobSteps, ProofCalls, Settled, tables, locals, Goto, RowsAreTyped, Idle, About, AboutProof
  <1>a. TypeOK /\ CallsAreAbout /\ CallsHoldRows /\ RowsAreTyped
    BY RowFacts DEF Typed
  <1> USE <1>a
  <1>1. CASE \E t \in JobTx : JobByTxid(c, t)
    <2>1. TypeOK'
      BY <1>1 DEF TypeOK, JobByTxid
    <2>2. CallsAreAbout'
      BY <1>1 DEF TypeOK, CallsAreAbout, JobByTxid
    <2>3. CallsHoldRows'
      BY <1>1 DEF TypeOK, CallsAreAbout, CallsHoldRows, HoldSteps, JobByTxid
    <2>4. QED
      BY <2>1, <2>2, <2>3 DEF Typed
  <1>2. CASE \E t \in JobTx : JobByHex(c, t)
    <2> PICK t \in JobTx : JobByHex(c, t)
      BY <1>2
    <2>a. /\ fib' \in [Call -> [JobOut -> FiberPc]]
          /\ pc' = [pc EXCEPT ![c] = "import"]
      BY FanOutTyped DEF JobByHex
    <2>1. TypeOK'
      BY <1>2, <2>a DEF TypeOK, JobByHex
    <2>2. CallsAreAbout'
      BY <1>2, <2>a DEF TypeOK, CallsAreAbout, JobByHex
    <2>3. CallsHoldRows'
      BY <1>2, <2>a DEF TypeOK, CallsAreAbout, CallsHoldRows, HoldSteps, JobByHex
    <2>4. QED
      BY <2>1, <2>2, <2>3 DEF Typed
  <1>3. CASE \E o \in JobOut : PostJob(c, o)
    <2>1. TypeOK'
      BY <1>3 DEF TypeOK, PostJob
    <2>2. CallsAreAbout'
      BY <1>3 DEF TypeOK, CallsAreAbout, PostJob
    <2>3. CallsHoldRows'
      BY <1>3 DEF TypeOK, CallsAreAbout, CallsHoldRows, HoldSteps, PostJob
    <2>4. QED
      BY <2>1, <2>2, <2>3 DEF Typed
  <1>4. CASE \E p \in ProofTx : ProofByTxid(c, p)
    <2>1. TypeOK'
      BY <1>4 DEF TypeOK, ProofByTxid
    <2>2. CallsAreAbout'
      BY <1>4 DEF TypeOK, CallsAreAbout, ProofByTxid
    <2>3. CallsHoldRows'
      BY <1>4 DEF TypeOK, CallsAreAbout, CallsHoldRows, HoldSteps, ProofByTxid
    <2>4. QED
      BY <2>1, <2>2, <2>3 DEF Typed
  <1>5. CASE \E p \in ProofTx : ProofByHex(c, p)
    <2>1. TypeOK'
      BY <1>5 DEF TypeOK, ProofByHex
    <2>2. CallsAreAbout'
      BY <1>5 DEF TypeOK, CallsAreAbout, ProofByHex
    <2>3. CallsHoldRows'
      BY <1>5 DEF TypeOK, CallsAreAbout, CallsHoldRows, HoldSteps, ProofByHex
    <2>4. QED
      BY <2>1, <2>2, <2>3 DEF Typed
  <1>6. CASE \E p \in ProofTx, d \in Call : SubmitProof(c, d, p)
    <2> PICK p \in ProofTx, d \in Call : SubmitProof(c, d, p)
      BY <1>6
    <2>a. /\ pc' \in [Call -> {"idle"} \cup JobSteps \cup ProofSteps \cup Settled]
          /\ tx' \in [Call -> JobTx \cup {None}]
          /\ out' \in [Call -> Outpoint \cup {None}]
          /\ proof' \in [Call -> ProofTx \cup {None}]
      BY DEF SubmitProof, TypeOK, ProofSteps
    <2>1. TypeOK'
      BY <1>6, <2>a DEF TypeOK, SubmitProof
    <2>b. /\ \A e \in Call \ {c, d} : /\ pc'[e] = pc[e] /\ tx'[e] = tx[e]
                                     /\ out'[e] = out[e] /\ proof'[e] = proof[e]
          /\ \A e \in {c, d} : /\ pc'[e] \in {"checkChain", "detached"}
                               /\ proof'[e] = p /\ out'[e] = Spends[p]
                               /\ tx'[e] = TxOf[Spends[p]]
      BY DEF SubmitProof, TypeOK
    <2>c. p # None
      BY ConstantFacts
    <2>2. CallsAreAbout'
      BY <2>b, <2>c DEF CallsAreAbout, JobSteps
    <2>3. CallsHoldRows'
      BY <1>6, <2>a DEF TypeOK, CallsAreAbout, CallsHoldRows, HoldSteps, SubmitProof
    <2>4. QED
      BY <2>1, <2>2, <2>3 DEF Typed
  <1>7. QED
    BY <1>1, <1>2, <1>3, <1>4, <1>5, <1>6 DEF Start

LEMMA StepTyped ==
  ASSUME Typed, NEW c \in Call, Step(c)
  PROVE  Typed'
  <1> USE ConstantFacts DEF ProofSteps, JobSteps, ProofCalls, Settled, tables, locals, Goto, RowsAreTyped
  <1>a. TypeOK /\ CallsAreAbout /\ CallsHoldRows /\ RowsAreTyped
    BY RowFacts DEF Typed
  <1> USE <1>a
  <1>1. CASE LookupJob(c)
    <2>1. TypeOK'
      BY <1>1, FanOutTyped DEF TypeOK, LookupJob
    <2>2. CallsAreAbout'
      BY <1>1, FanOutTyped DEF TypeOK, CallsAreAbout, LookupJob
    <2>3. CallsHoldRows'
      BY <1>1, FanOutTyped DEF TypeOK, CallsAreAbout, CallsHoldRows, HoldSteps, LookupJob
    <2>4. QED
      BY <2>1, <2>2, <2>3 DEF Typed
  <1>2. CASE FetchJobTx(c)
    <2>1. TypeOK'
      BY <1>2, FanOutTyped DEF TypeOK, FetchJobTx
    <2>2. CallsAreAbout'
      BY <1>2, FanOutTyped DEF TypeOK, CallsAreAbout, FetchJobTx
    <2>3. CallsHoldRows'
      BY <1>2, FanOutTyped DEF TypeOK, CallsAreAbout, CallsHoldRows, HoldSteps, FetchJobTx
    <2>4. QED
      BY <2>1, <2>2, <2>3 DEF Typed
  <1>3. CASE ImportDone(c)
    <2>1. TypeOK'
      BY <1>3 DEF TypeOK, ImportDone, AllOff, FiberPc
    <2>2. CallsAreAbout'
      BY <1>3 DEF TypeOK, CallsAreAbout, ImportDone, AllOff, FiberPc
    <2>3. CallsHoldRows'
      BY <1>3 DEF TypeOK, CallsAreAbout, CallsHoldRows, HoldSteps, ImportDone, AllOff, FiberPc
    <2>4. QED
      BY <2>1, <2>2, <2>3 DEF Typed
  <1>4. CASE ImportRejected(c)
    <2>1. TypeOK'
      BY <1>4 DEF TypeOK, ImportRejected
    <2>2. CallsAreAbout'
      BY <1>4 DEF TypeOK, CallsAreAbout, ImportRejected
    <2>3. CallsHoldRows'
      BY <1>4 DEF TypeOK, CallsAreAbout, CallsHoldRows, HoldSteps, ImportRejected
    <2>4. QED
      BY <2>1, <2>2, <2>3 DEF Typed
  <1>5. CASE CheckChain(c)
    <2>1. CASE Launch(c)
      <3>1. pc[c] = "checkChain" /\ UNCHANGED <<tables, locals, fib>>
        BY <1>5 DEF CheckChain
      <3>2. QED
        BY <2>1, <3>1, LaunchTyped DEF Typed, TypeOK
    <2>2. CASE Goto(c, "broadcast")
      <3>1. TypeOK'
        BY <1>5, <2>2 DEF TypeOK, CheckChain
      <3>2. CallsAreAbout'
        BY <1>5, <2>2 DEF TypeOK, CallsAreAbout, CheckChain
      <3>3. CallsHoldRows'
        BY <1>5, <2>2 DEF TypeOK, CallsHoldRows, HoldSteps, CheckChain
      <3>4. QED
        BY <3>1, <3>2, <3>3 DEF Typed
    <2>3. QED
      BY <1>5, <2>1, <2>2 DEF CheckChain
  <1>6. CASE Broadcast(c)
    <2>1. pc[c] = "broadcast" /\ UNCHANGED <<jobs, work, events, locals, fib>>
      BY <1>6 DEF Broadcast
    <2>2. CASE Launch(c) /\ network' = network \cup {proof[c]}
      <3>1. proof[c] \in ProofTx
        BY <2>1 DEF TypeOK, CallsAreAbout
      <3>2. QED
        BY <2>1, <2>2, <3>1, LaunchTyped DEF Typed, TypeOK
    <2>3. CASE /\ \E d \in Call : pc' = [pc EXCEPT ![c] = "failed", ![d] = "failed"]
               /\ network' = network
      <3> PICK d \in Call : pc' = [pc EXCEPT ![c] = "failed", ![d] = "failed"]
        BY <2>3
      <3>1. network' = network
        BY <2>3
      <3>2. \A b \in Call : pc'[b] = pc[b] \/ pc'[b] = "failed"
        BY DEF TypeOK
      <3>3. TypeOK'
        BY <2>1, <3>1 DEF TypeOK
      <3>4. CallsAreAbout'
        BY <2>1, <3>2 DEF CallsAreAbout
      <3>5. CallsHoldRows'
        BY <2>1, <3>2 DEF CallsHoldRows, HoldSteps
      <3>6. QED
        BY <3>3, <3>4, <3>5 DEF Typed
    <2>4. QED
      BY <1>6, <2>2, <2>3 DEF Broadcast
  <1>7. CASE FetchProof(c)
    <2>1. TypeOK'
      BY <1>7 DEF TypeOK, FetchProof
    <2>2. CallsAreAbout'
      BY <1>7 DEF TypeOK, CallsAreAbout, FetchProof
    <2>3. CallsHoldRows'
      BY <1>7 DEF TypeOK, CallsAreAbout, CallsHoldRows, HoldSteps, FetchProof
    <2>4. QED
      BY <2>1, <2>2, <2>3 DEF Typed
  <1>8. CASE FindJob(c)
    <2>a. UNCHANGED <<network, jobs, work, events, tx, out, proof, fib>>
      BY <1>8 DEF FindJob, FindJobOr, tables
    <2>b. pc' \in [Call -> {"idle"} \cup JobSteps \cup ProofSteps \cup Settled]
      BY <1>8 DEF TypeOK, FindJob, FindJobOr, Goto, JobSteps, ProofSteps, Settled
    <2>c. job' \in [Call -> Nat] /\ seen' \in [Call -> ProofTx \cup {None}]
      <3>1. CASE \E i \in Rows(out[c]) : Hold(c, i)
        <4>1. PICK i \in Rows(out[c]) : Hold(c, i)
          BY <3>1
        <4>2. i \in Nat /\ jobs[i].spent_txid \in ProofTx \cup {None}
          BY DEF Rows, TypeOK, JobRow
        <4>3. QED
          BY <4>1, <4>2 DEF Hold, TypeOK
      <3>2. CASE UNCHANGED <<job, seen>>
        BY <3>2 DEF TypeOK
      <3>3. QED
        BY <1>8, <3>1, <3>2 DEF FindJob, FindJobOr
    <2>1. TypeOK'
      BY <2>a, <2>b, <2>c DEF TypeOK
    <2>2. CallsAreAbout'
      BY <1>8 DEF TypeOK, CallsAreAbout, FindJob, FindJobOr, Hold, Rows
    <2>3. CallsHoldRows'
      BY <1>8 DEF TypeOK, CallsAreAbout, CallsHoldRows, HoldSteps, FindJob, FindJobOr, Hold, Rows
    <2>4. QED
      BY <2>1, <2>2, <2>3 DEF Typed
  <1>9. CASE FindJobAgain(c)
    <2>a. UNCHANGED <<network, jobs, work, events, tx, out, proof, fib>>
      BY <1>9 DEF FindJobAgain, FindJobOr, tables
    <2>b. pc' \in [Call -> {"idle"} \cup JobSteps \cup ProofSteps \cup Settled]
      BY <1>9 DEF TypeOK, FindJobAgain, FindJobOr, Goto, JobSteps, ProofSteps, Settled
    <2>c. job' \in [Call -> Nat] /\ seen' \in [Call -> ProofTx \cup {None}]
      <3>1. CASE \E i \in Rows(out[c]) : Hold(c, i)
        <4>1. PICK i \in Rows(out[c]) : Hold(c, i)
          BY <3>1
        <4>2. i \in Nat /\ jobs[i].spent_txid \in ProofTx \cup {None}
          BY DEF Rows, TypeOK, JobRow
        <4>3. QED
          BY <4>1, <4>2 DEF Hold, TypeOK
      <3>2. CASE UNCHANGED <<job, seen>>
        BY <3>2 DEF TypeOK
      <3>3. QED
        BY <1>9, <3>1, <3>2 DEF FindJobAgain, FindJobOr
    <2>1. TypeOK'
      BY <2>a, <2>b, <2>c DEF TypeOK
    <2>2. CallsAreAbout'
      BY <1>9 DEF TypeOK, CallsAreAbout, FindJobAgain, FindJobOr, Hold, Rows
    <2>3. CallsHoldRows'
      BY <1>9 DEF TypeOK, CallsAreAbout, CallsHoldRows, HoldSteps, FindJobAgain, FindJobOr, Hold, Rows
    <2>4. QED
      BY <2>1, <2>2, <2>3 DEF Typed
  <1>10. CASE FindProof(c)
    <2>1. TypeOK'
      BY <1>10 DEF TypeOK, FindProof, FindProofOr
    <2>2. CallsAreAbout'
      BY <1>10 DEF TypeOK, CallsAreAbout, FindProof, FindProofOr
    <2>3. CallsHoldRows'
      BY <1>10 DEF TypeOK, CallsAreAbout, CallsHoldRows, HoldSteps, FindProof, FindProofOr
    <2>4. QED
      BY <2>1, <2>2, <2>3 DEF Typed
  <1>11. CASE CreateProof(c)
    <2>a. job[c] \in DOMAIN jobs /\ out[c] \in JobOut /\ proof[c] \in ProofTx
      <3>1. pc[c] = "createProof"
        BY <1>11 DEF CreateProof, InsertProof
      <3>2. job[c] \in DOMAIN jobs /\ jobs[job[c]].out = out[c]
        BY <3>1 DEF CallsHoldRows, HoldSteps
      <3>3. proof[c] \in ProofTx
        BY <3>1 DEF TypeOK, CallsAreAbout
      <3>4. QED
        BY <3>2, <3>3
    <2>b. work' \in Seq(WorkRow)
      BY <1>11, <2>a, AppendRow DEF CreateProof, InsertProof, TypeOK, WorkRow
    <2>c. events' \in SUBSET Event
      BY <1>11, <2>a, PublishTyped DEF CreateProof, InsertProof
    <2>1. TypeOK'
      BY <1>11, <2>b, <2>c DEF TypeOK, CreateProof, InsertProof
    <2>2. CallsAreAbout'
      BY <1>11, <2>b, <2>c DEF TypeOK, CallsAreAbout, CreateProof, InsertProof
    <2>3. CallsHoldRows'
      BY <1>11, <2>b, <2>c DEF TypeOK, CallsAreAbout, CallsHoldRows, HoldSteps, CreateProof, InsertProof
    <2>4. QED
      BY <2>1, <2>2, <2>3 DEF Typed
  <1>12. CASE SaveJob(c)
    <2>a. /\ job[c] \in DOMAIN jobs /\ proof[c] \in ProofTx /\ out[c] \in JobOut
          /\ jobs[job[c]].spent_txid \in ProofTx \cup {None}
      BY <1>12 DEF SaveJob, TypeOK, CallsAreAbout, CallsHoldRows, HoldSteps
    <2>b. JobsSaved(job[c], IF seen[c] = proof[c] THEN jobs[job[c]].spent_txid ELSE proof[c])
      BY <1>12, <2>a, MarkedRow DEF SaveJob
    <2>c. events' \in SUBSET Event
      BY <1>12, <2>a, PublishTyped DEF SaveJob
    <2>1. TypeOK'
      BY <1>12, <2>b, <2>c DEF TypeOK, SaveJob, JobsSaved
    <2>2. CallsAreAbout'
      BY <1>12, <2>b, <2>c DEF TypeOK, CallsAreAbout, SaveJob, JobsSaved
    <2>d. /\ pc' = [pc EXCEPT ![c] = "healFind"]
          /\ UNCHANGED <<work, tx, out, proof, job, seen, fib>>
          /\ DOMAIN jobs' = DOMAIN jobs
          /\ \A i \in DOMAIN jobs : jobs'[i].out = jobs[i].out
      BY <1>12, <2>b DEF SaveJob, JobsSaved
    <2>3. CallsHoldRows'
      BY <2>d DEF TypeOK, CallsHoldRows, HoldSteps
    <2>4. QED
      BY <2>1, <2>2, <2>3 DEF Typed
  <1>13. CASE HealFind(c)
    <2>1. TypeOK'
      BY <1>13 DEF TypeOK, HealFind, Hold, Rows
    <2>2. CallsAreAbout'
      BY <1>13 DEF TypeOK, CallsAreAbout, HealFind, Hold, Rows
    <2>3. CallsHoldRows'
      BY <1>13 DEF TypeOK, CallsAreAbout, CallsHoldRows, HoldSteps, HealFind, Hold, Rows
    <2>4. QED
      BY <2>1, <2>2, <2>3 DEF Typed
  <1>14. CASE HealSave(c)
    <2>a. JobsSaved(job[c], jobs[job[c]].spent_txid)
      BY <1>14, MarkedRow DEF HealSave, CallsHoldRows, HoldSteps
    <2>1. TypeOK'
      BY <1>14, <2>a DEF TypeOK, HealSave, JobsSaved
    <2>2. CallsAreAbout'
      BY <1>14, <2>a DEF TypeOK, CallsAreAbout, HealSave, JobsSaved
    <2>b. /\ UNCHANGED <<out, job>>
          /\ pc' = [pc EXCEPT ![c] = "recorded"]
          /\ DOMAIN jobs' = DOMAIN jobs
          /\ \A i \in DOMAIN jobs : jobs'[i].out = jobs[i].out
      BY <1>14, <2>a DEF HealSave, JobsSaved
    <2>3. CallsHoldRows'
      BY <2>b DEF TypeOK, CallsHoldRows, HoldSteps
    <2>4. QED
      BY <2>1, <2>2, <2>3 DEF Typed
  <1>15. QED
    BY <1>1, <1>2, <1>3, <1>4, <1>5, <1>6, <1>7, <1>8, <1>9, <1>10, <1>11, <1>12, <1>13, <1>14 DEF Step

LEMMA FiberTyped ==
  ASSUME Typed, NEW c \in Call, NEW o \in JobOut, Fiber(c, o) \/ FiberRejects(c, o)
  PROVE  Typed'
  <1> USE ConstantFacts DEF ProofSteps, JobSteps, ProofCalls, Settled, tables, locals, Move, FiberPc
  <1>a. TypeOK /\ CallsAreAbout /\ CallsHoldRows /\ RowsAreTyped
    BY RowFacts DEF Typed
  <1> USE <1>a
  <1>1. CASE FiberFind(c, o)
    <2>1. TypeOK'
      BY <1>1 DEF TypeOK, FiberFind
    <2>2. CallsAreAbout'
      BY <1>1 DEF TypeOK, CallsAreAbout, FiberFind
    <2>3. CallsHoldRows'
      BY <1>1 DEF TypeOK, CallsAreAbout, CallsHoldRows, HoldSteps, FiberFind
    <2>4. QED
      BY <2>1, <2>2, <2>3 DEF Typed
  <1>2. CASE FiberFindTx(c, o)
    <2>1. TypeOK'
      BY <1>2 DEF TypeOK, FiberFindTx
    <2>2. CallsAreAbout'
      BY <1>2 DEF TypeOK, CallsAreAbout, FiberFindTx
    <2>3. CallsHoldRows'
      BY <1>2 DEF TypeOK, CallsAreAbout, CallsHoldRows, HoldSteps, FiberFindTx
    <2>4. QED
      BY <2>1, <2>2, <2>3 DEF Typed
  <1>3. CASE FiberTime(c, o)
    <2>a. fib' \in [Call -> [JobOut -> FiberPc]]
      <3>1. \E s \in FiberPc : Move(c, o, s)
        BY <1>3 DEF FiberTime
      <3>2. QED
        BY <3>1 DEF TypeOK
    <2>1. TypeOK'
      BY <1>3, <2>a DEF TypeOK, FiberTime
    <2>2. CallsAreAbout'
      BY <1>3, <2>a DEF TypeOK, CallsAreAbout, FiberTime
    <2>3. CallsHoldRows'
      BY <1>3, <2>a DEF TypeOK, CallsAreAbout, CallsHoldRows, HoldSteps, FiberTime
    <2>4. QED
      BY <2>1, <2>2, <2>3 DEF Typed
  <1>4. CASE FiberCreate(c, o)
    <2>a. jobs' \in Seq(JobRow) /\ \A i \in DOMAIN jobs : i \in DOMAIN jobs' /\ jobs'[i] = jobs[i]
      BY <1>4, CreateAppends
    <2>b. fib' \in [Call -> [JobOut -> FiberPc]]
      <3>1. \E s \in FiberPc : Move(c, o, s)
        BY <1>4 DEF FiberCreate, Insert
      <3>2. QED
        BY <3>1 DEF TypeOK
    <2>1. TypeOK'
      BY <1>4, <2>a, <2>b DEF TypeOK, FiberCreate, Insert
    <2>2. CallsAreAbout'
      BY <1>4, <2>a, <2>b DEF TypeOK, CallsAreAbout, FiberCreate, Insert
    <2>3. CallsHoldRows'
      BY <1>4, <2>a, <2>b DEF TypeOK, CallsAreAbout, CallsHoldRows, HoldSteps, FiberCreate, Insert
    <2>4. QED
      BY <2>1, <2>2, <2>3 DEF Typed
  <1>5. CASE FiberPublish(c, o)
    <2>a. events' \in SUBSET Event
      BY <1>5, PublishTyped DEF FiberPublish
    <2>1. TypeOK'
      BY <1>5, <2>a DEF TypeOK, FiberPublish
    <2>2. CallsAreAbout'
      BY <1>5, <2>a DEF TypeOK, CallsAreAbout, FiberPublish
    <2>3. CallsHoldRows'
      BY <1>5, <2>a DEF TypeOK, CallsAreAbout, CallsHoldRows, HoldSteps, FiberPublish
    <2>4. QED
      BY <2>1, <2>2, <2>3 DEF Typed
  <1>6. CASE FiberRejects(c, o)
    <2>1. TypeOK'
      BY <1>6 DEF TypeOK, FiberRejects
    <2>2. CallsAreAbout'
      BY <1>6 DEF TypeOK, CallsAreAbout, FiberRejects
    <2>3. CallsHoldRows'
      BY <1>6 DEF TypeOK, CallsAreAbout, CallsHoldRows, HoldSteps, FiberRejects
    <2>4. QED
      BY <2>1, <2>2, <2>3 DEF Typed
  <1>7. QED
    BY <1>1, <1>2, <1>3, <1>4, <1>5, <1>6 DEF Fiber

LEMMA OtherTyped ==
  ASSUME Typed,
         \/ \E c \in Call : StepRejects(c) \/ Release(c)
         \/ \E t \in JobTx \cup ProofTx : Appear(t)
         \/ \E q \in Process : Crash(q)
         \/ UNCHANGED vars
  PROVE  Typed'
  <1> USE ConstantFacts DEF ProofSteps, JobSteps, ProofCalls, Settled, tables, locals, Goto, Forget, AllOff, FiberPc
  <1>a. TypeOK /\ CallsAreAbout /\ CallsHoldRows /\ RowsAreTyped
    BY RowFacts DEF Typed
  <1> USE <1>a
  <1>1. CASE \E c \in Call : StepRejects(c)
    <2>1. TypeOK'
      BY <1>1 DEF TypeOK, StepRejects, DbSteps
    <2>2. CallsAreAbout'
      BY <1>1 DEF TypeOK, CallsAreAbout, StepRejects, DbSteps
    <2>3. CallsHoldRows'
      BY <1>1 DEF TypeOK, CallsAreAbout, CallsHoldRows, HoldSteps, StepRejects, DbSteps
    <2>4. QED
      BY <2>1, <2>2, <2>3 DEF Typed
  <1>2. CASE \E c \in Call : Release(c)
    <2>1. TypeOK'
      BY <1>2 DEF TypeOK, Release
    <2>2. CallsAreAbout'
      BY <1>2 DEF TypeOK, CallsAreAbout, Release
    <2>3. CallsHoldRows'
      BY <1>2 DEF TypeOK, CallsAreAbout, CallsHoldRows, HoldSteps, Release
    <2>4. QED
      BY <2>1, <2>2, <2>3 DEF Typed
  <1>3. CASE \E t \in JobTx \cup ProofTx : Appear(t)
    <2>1. TypeOK'
      BY <1>3 DEF TypeOK, Appear
    <2>2. CallsAreAbout'
      BY <1>3 DEF TypeOK, CallsAreAbout, Appear
    <2>3. CallsHoldRows'
      BY <1>3 DEF TypeOK, CallsAreAbout, CallsHoldRows, HoldSteps, Appear
    <2>4. QED
      BY <2>1, <2>2, <2>3 DEF Typed
  <1>4. CASE \E q \in Process : Crash(q)
    <2>1. TypeOK'
      BY <1>4 DEF TypeOK, Crash
    <2>2. CallsAreAbout'
      BY <1>4 DEF TypeOK, CallsAreAbout, Crash
    <2>3. CallsHoldRows'
      BY <1>4 DEF TypeOK, CallsAreAbout, CallsHoldRows, HoldSteps, Crash
    <2>4. QED
      BY <2>1, <2>2, <2>3 DEF Typed
  <1>5. CASE UNCHANGED vars
    <2>1. TypeOK'
      BY <1>5 DEF TypeOK, vars
    <2>2. CallsAreAbout'
      BY <1>5 DEF TypeOK, CallsAreAbout, vars
    <2>3. CallsHoldRows'
      BY <1>5 DEF TypeOK, CallsAreAbout, CallsHoldRows, HoldSteps, vars
    <2>4. QED
      BY <2>1, <2>2, <2>3 DEF Typed
  <1>6. QED
    BY <1>1, <1>2, <1>3, <1>4, <1>5

-----------------------------------------------------------------------------

LEMMA NextTyped == Typed /\ [Next]_vars => Typed'
  BY StartTyped, StepTyped, FiberTyped, OtherTyped DEF Next

LEMMA TypedAlways == Spec => []Typed
  BY InitTyped, NextTyped, PTL DEF Spec

\* Type correctness, for any number of calls, transactions and processes.
THEOREM TypeCorrect == Spec => []TypeOK
  BY TypedAlways, PTL DEF Typed

-----------------------------------------------------------------------------
(* A spent job has a proof.                                                *)

ProvedSteps == {"saveJob", "healFind", "healSave", "recorded"}

\* From the creation of the proof row on, a call knows its output is proved, and
\* the one that created the row that it is its own proof.
CallsAreProved ==
  \A c \in Call :
    /\ pc[c] \in ProvedSteps => Proofs(out[c]) # {}
    /\ pc[c] = "saveJob" => \E w \in Proofs(out[c]) : work[w].spend_txid = proof[c]

SpentInv == SpentJobHasProof /\ CallsAreProved /\ ProofHasJob /\ ReturnedProofClosesJob

\* What most steps do to the rows and to the calls that matter here: at most an
\* open row is added, and no call enters the steps that follow the proof row.
Quiet ==
  /\ work' = work
  /\ \A i \in DOMAIN jobs : i \in DOMAIN jobs' /\ jobs'[i] = jobs[i]
  /\ \A i \in DOMAIN jobs' :
       i \in DOMAIN jobs \/ (~jobs'[i].spent /\ jobs'[i].spent_txid = None)
  /\ \A b \in Call : pc'[b] \in ProvedSteps =>
       pc'[b] = pc[b] /\ out'[b] = out[b] /\ proof'[b] = proof[b]

LEMMA QuietKeeps == SpentInv /\ Quiet => SpentInv'
  <1> SUFFICES ASSUME SpentInv, Quiet PROVE SpentInv'
    OBVIOUS
  <1> USE DEF SpentInv, Quiet, Proofs, Rows, ProvedSteps
  <1>1. SpentJobHasProof'
    BY DEF SpentJobHasProof
  <1>2. CallsAreProved'
    BY DEF CallsAreProved
  <1>3. ProofHasJob'
    BY DEF ProofHasJob
  <1>4. ReturnedProofClosesJob'
    BY DEF ReturnedProofClosesJob
  <1>5. QED
    BY <1>1, <1>2, <1>3, <1>4

LEMMA StartIsQuiet ==
  ASSUME Typed, NEW c \in Call, Start(c)
  PROVE  Quiet
  <1> USE DEF Quiet, ProvedSteps, tables, locals, Goto, Idle, About, AboutProof
  <1>a. TypeOK
    BY DEF Typed
  <1>1. CASE \E t \in JobTx : JobByTxid(c, t)
    BY <1>a, <1>1 DEF TypeOK, JobByTxid
  <1>2. CASE \E t \in JobTx : JobByHex(c, t)
    BY <1>a, <1>2 DEF TypeOK, JobByHex, FanOut
  <1>3. CASE \E o \in JobOut : PostJob(c, o)
    BY <1>a, <1>3 DEF TypeOK, PostJob
  <1>4. CASE \E p \in ProofTx : ProofByTxid(c, p)
    BY <1>a, <1>4 DEF TypeOK, ProofByTxid
  <1>5. CASE \E p \in ProofTx : ProofByHex(c, p)
    BY <1>a, <1>5 DEF TypeOK, ProofByHex
  <1>6. CASE \E p \in ProofTx, d \in Call : SubmitProof(c, d, p)
    BY <1>a, <1>6 DEF TypeOK, SubmitProof
  <1>7. QED
    BY <1>1, <1>2, <1>3, <1>4, <1>5, <1>6 DEF Start

LEMMA FiberIsQuiet ==
  ASSUME Typed, NEW c \in Call, NEW o \in JobOut, Fiber(c, o) \/ FiberRejects(c, o)
  PROVE  Quiet
  <1> USE DEF Quiet, ProvedSteps, tables, locals, Goto, Move
  <1>a. TypeOK
    BY DEF Typed
  <1>1. CASE FiberFind(c, o)
    BY <1>a, <1>1 DEF TypeOK, FiberFind
  <1>2. CASE FiberFindTx(c, o)
    BY <1>a, <1>2 DEF TypeOK, FiberFindTx
  <1>3. CASE FiberTime(c, o)
    BY <1>a, <1>3 DEF TypeOK, FiberTime
  <1>4. CASE FiberCreate(c, o)
    BY <1>a, <1>4, CreateAppends DEF TypeOK, FiberCreate, Insert
  <1>5. CASE FiberPublish(c, o)
    BY <1>a, <1>5 DEF TypeOK, FiberPublish
  <1>6. CASE FiberRejects(c, o)
    BY <1>a, <1>6 DEF TypeOK, FiberRejects
  <1>7. QED
    BY <1>1, <1>2, <1>3, <1>4, <1>5, <1>6 DEF Fiber

LEMMA OtherIsQuiet ==
  ASSUME Typed, 
         \/ \E c \in Call : StepRejects(c) \/ Release(c)
         \/ \E t \in JobTx \cup ProofTx : Appear(t)
         \/ \E q \in Process : Crash(q)
         \/ UNCHANGED vars
  PROVE  Quiet
  <1> USE DEF Quiet, ProvedSteps, tables, locals, Goto, Forget
  <1>a. TypeOK
    BY DEF Typed
  <1>1. CASE \E c \in Call : StepRejects(c)
    BY <1>a, <1>1 DEF TypeOK, StepRejects
  <1>2. CASE \E c \in Call : Release(c)
    BY <1>a, <1>2 DEF TypeOK, Release
  <1>3. CASE \E t \in JobTx \cup ProofTx : Appear(t)
    BY <1>a, <1>3 DEF TypeOK, Appear
  <1>4. CASE \E q \in Process : Crash(q)
    BY <1>a, <1>4 DEF TypeOK, Crash
  <1>5. CASE UNCHANGED vars
    BY <1>a, <1>5 DEF TypeOK, vars
  <1>6. QED
    BY <1>1, <1>2, <1>3, <1>4, <1>5

LEMMA EarlyStepIsQuiet ==
  ASSUME Typed, NEW c \in Call,
         LookupJob(c) \/ FetchJobTx(c) \/ ImportDone(c) \/ ImportRejected(c) \/ CheckChain(c)
         \/ Broadcast(c) \/ FetchProof(c) \/ FindJob(c) \/ FindJobAgain(c)
  PROVE  Quiet
  <1> USE DEF Quiet, ProvedSteps, tables, locals, Goto
  <1>a. TypeOK
    BY DEF Typed
  <1>1. CASE LookupJob(c)
    BY <1>a, <1>1 DEF TypeOK, LookupJob, FanOut
  <1>2. CASE FetchJobTx(c)
    BY <1>a, <1>2 DEF TypeOK, FetchJobTx, FanOut
  <1>3. CASE ImportDone(c)
    BY <1>a, <1>3 DEF TypeOK, ImportDone
  <1>4. CASE ImportRejected(c)
    BY <1>a, <1>4 DEF TypeOK, ImportRejected
  <1>5. CASE CheckChain(c)
    BY <1>a, <1>5 DEF TypeOK, CheckChain, Launch
  <1>6. CASE Broadcast(c)
    BY <1>a, <1>6 DEF TypeOK, Broadcast, Launch
  <1>7. CASE FetchProof(c)
    BY <1>a, <1>7 DEF TypeOK, FetchProof
  <1>8. CASE FindJob(c)
    BY <1>a, <1>8 DEF TypeOK, FindJob, FindJobOr
  <1>9. CASE FindJobAgain(c)
    BY <1>a, <1>9 DEF TypeOK, FindJobAgain, FindJobOr
  <1>10. QED
    BY <1>1, <1>2, <1>3, <1>4, <1>5, <1>6, <1>7, <1>8, <1>9

\* The steps around the proof row.
LEMMA LateStepKeeps ==
  ASSUME Typed, SpentInv, NEW c \in Call,
         FindProof(c) \/ CreateProof(c) \/ SaveJob(c) \/ HealFind(c) \/ HealSave(c)
  PROVE  SpentInv'
  <1> USE DEF Proofs, Rows, ProvedSteps, tables, locals, Goto
  <1>a. /\ TypeOK /\ CallsAreAbout /\ CallsHoldRows
        /\ SpentJobHasProof /\ CallsAreProved /\ ProofHasJob /\ ReturnedProofClosesJob
    BY DEF Typed, SpentInv
  <1>b. pc \in [Call -> {"idle"} \cup JobSteps \cup ProofSteps \cup Settled]
    BY <1>a DEF TypeOK
  <1>1. CASE FindProof(c)
    <2>1. CallsAreProved'
      BY <1>a, <1>b, <1>1 DEF FindProof, FindProofOr, CallsAreProved
    <2>2. SpentJobHasProof' /\ ProofHasJob'
      BY <1>a, <1>1 DEF FindProof, FindProofOr, SpentJobHasProof, ProofHasJob
    <2>3. ReturnedProofClosesJob'
      BY <1>a, <1>b, <1>1 DEF FindProof, FindProofOr, ReturnedProofClosesJob
    <2>4. QED
      BY <2>1, <2>2, <2>3 DEF SpentInv
  <1>2. CASE CreateProof(c)
    <2> DEFINE row == [job |-> out[c], spend_txid |-> proof[c]]
    <2>a. /\ pc[c] = "createProof" /\ pc' = [pc EXCEPT ![c] = "saveJob"]
          /\ work' = Append(work, row) /\ UNCHANGED <<jobs, out, proof>>
      BY <1>2 DEF CreateProof, InsertProof
    <2>b. job[c] \in DOMAIN jobs /\ jobs[job[c]].out = out[c] /\ out[c] \in JobOut
      BY <1>a, <2>a, RowFacts DEF CallsHoldRows, HoldSteps, RowsAreTyped
    <2>c. proof[c] \in ProofTx
      BY <1>a, <2>a DEF TypeOK, CallsAreAbout, ProofCalls, ProofSteps
    <2>d. row \in WorkRow /\ row.job = out[c] /\ row.spend_txid = proof[c]
      BY <2>b, <2>c DEF WorkRow
    <2> HIDE DEF row
    <2>e. /\ DOMAIN work' = DOMAIN work \cup {Len(work) + 1}
          /\ \A w \in DOMAIN work : work'[w] = work[w]
          /\ work'[Len(work) + 1] = row
      BY <1>a, <2>a, <2>d, AppendRow DEF TypeOK
    <2>1. CallsAreProved'
      BY <1>a, <1>b, <2>a, <2>d, <2>e DEF CallsAreProved
    <2>2. SpentJobHasProof'
      BY <1>a, <2>a, <2>e DEF SpentJobHasProof
    <2>3. ProofHasJob'
      BY <1>a, <2>a, <2>b, <2>d, <2>e DEF ProofHasJob
    <2>4. ReturnedProofClosesJob'
      BY <1>a, <1>b, <2>a, <2>e DEF ReturnedProofClosesJob
    <2>5. QED
      BY <2>1, <2>2, <2>3, <2>4 DEF SpentInv
  <1>3. CASE SaveJob(c)
    <2>a. /\ pc[c] = "saveJob" /\ pc' = [pc EXCEPT ![c] = "healFind"]
          /\ UNCHANGED <<work, out, proof>>
      BY <1>3 DEF SaveJob
    <2> DEFINE t == IF seen[c] = proof[c] THEN jobs[job[c]].spent_txid ELSE proof[c]
    <2>b. job[c] \in DOMAIN jobs /\ jobs[job[c]].out = out[c]
      BY <1>a, <2>a DEF CallsHoldRows, HoldSteps
    <2>c. t \in ProofTx \cup {None} /\ t \in {jobs[job[c]].spent_txid, proof[c]}
      BY <1>a, <2>b, RowFacts DEF TypeOK, RowsAreTyped
    <2>d. MarkSpent(job[c], t)
      BY <1>3 DEF SaveJob
    <2> HIDE DEF t
    <2>e. JobsSaved(job[c], t)
      BY <1>a, <2>b, <2>c, <2>d, MarkedRow
    <2>f. \E w \in Proofs(out[c]) : work[w].spend_txid = proof[c]
      BY <1>a, <2>a DEF CallsAreProved
    <2>1. CallsAreProved'
      BY <1>a, <1>b, <2>a DEF CallsAreProved
    <2>2. SpentJobHasProof'
      BY <1>a, <2>a, <2>b, <2>c, <2>e, <2>f DEF SpentJobHasProof, JobsSaved
    <2>3. ProofHasJob'
      BY <1>a, <2>a, <2>e DEF ProofHasJob, JobsSaved
    <2>4. ReturnedProofClosesJob'
      BY <1>a, <1>b, <2>a, <2>b, <2>e DEF ReturnedProofClosesJob, JobsSaved
    <2>5. QED
      BY <2>1, <2>2, <2>3, <2>4 DEF SpentInv
  <1>4. CASE HealFind(c)
    <2>1. CallsAreProved'
      BY <1>a, <1>b, <1>4 DEF HealFind, CallsAreProved
    <2>2. SpentJobHasProof' /\ ProofHasJob'
      BY <1>a, <1>4 DEF HealFind, SpentJobHasProof, ProofHasJob
    <2>3. ReturnedProofClosesJob'
      BY <1>a, <1>b, <1>4 DEF HealFind, ReturnedProofClosesJob
    <2>4. QED
      BY <2>1, <2>2, <2>3 DEF SpentInv
  <1>5. CASE HealSave(c)
    <2>a. /\ pc[c] = "healSave" /\ pc' = [pc EXCEPT ![c] = "recorded"]
          /\ UNCHANGED <<work, out, proof>>
      BY <1>5 DEF HealSave
    <2>b. job[c] \in DOMAIN jobs /\ jobs[job[c]].out = out[c]
          /\ jobs[job[c]].spent_txid \in ProofTx \cup {None}
      BY <1>a, <2>a, RowFacts DEF CallsHoldRows, HoldSteps, RowsAreTyped
    <2>c. JobsSaved(job[c], jobs[job[c]].spent_txid)
      BY <1>a, <1>5, <2>b, MarkedRow DEF HealSave
    <2>d. Proofs(out[c]) # {}
      BY <1>a, <2>a DEF CallsAreProved
    <2>1. CallsAreProved'
      BY <1>a, <1>b, <2>a DEF CallsAreProved
    <2>2. SpentJobHasProof'
      BY <1>a, <2>a, <2>b, <2>c, <2>d DEF SpentJobHasProof, JobsSaved
    <2>3. ProofHasJob'
      BY <1>a, <2>a, <2>c DEF ProofHasJob, JobsSaved
    <2>4. ReturnedProofClosesJob'
      BY <1>a, <1>b, <2>a, <2>b, <2>c, <2>d DEF ReturnedProofClosesJob, JobsSaved
    <2>5. QED
      BY <2>1, <2>2, <2>3, <2>4 DEF SpentInv
  <1>6. QED
    BY <1>1, <1>2, <1>3, <1>4, <1>5

LEMMA InitSpent == Init => SpentInv
  BY DEF Init, SpentInv, SpentJobHasProof, CallsAreProved, ProofHasJob,
     ReturnedProofClosesJob, Proofs, Rows, ProvedSteps

LEMMA NextSpent == Typed /\ SpentInv /\ [Next]_vars => SpentInv'
  <1> SUFFICES ASSUME Typed, SpentInv, [Next]_vars PROVE SpentInv'
    OBVIOUS
  <1>1. ASSUME NEW c \in Call, Start(c) PROVE SpentInv'
    BY <1>1, StartIsQuiet, QuietKeeps
  <1>2. ASSUME NEW c \in Call, Step(c) PROVE SpentInv'
    BY <1>2, EarlyStepIsQuiet, LateStepKeeps, QuietKeeps DEF Step
  <1>3. ASSUME NEW c \in Call, NEW o \in JobOut, Fiber(c, o) \/ FiberRejects(c, o)
        PROVE  SpentInv'
    BY <1>3, FiberIsQuiet, QuietKeeps
  <1>4. ASSUME \/ \E c \in Call : StepRejects(c) \/ Release(c)
               \/ \E t \in JobTx \cup ProofTx : Appear(t)
               \/ \E q \in Process : Crash(q)
               \/ UNCHANGED vars
        PROVE  SpentInv'
    BY <1>4, OtherIsQuiet, QuietKeeps
  <1>5. QED
    BY <1>1, <1>2, <1>3, <1>4 DEF Next

LEMMA SpentInvAlways == Spec => []SpentInv
  BY InitSpent, NextSpent, TypedAlways, PTL DEF Spec

\* A job is marked spent only once a proof of that output is recorded, its
\* spent_txid is the transaction of a recorded proof, and every proof has the row
\* of its job: for any number of concurrent imports, double spends, duplicates,
\* rejections and crashes.
THEOREM ProofsAndJobsMatch == Spec => []ProofsMatchJobs
<1>1. SpentInv => ProofsMatchJobs
  BY DEF SpentInv, ProofsMatchJobs
<1>2. QED
  BY <1>1, SpentInvAlways, PTL

\* A proof import that resolves to a record leaves a closed job behind.
THEOREM ReturnedProofsCloseJobs == Spec => []ReturnedProofClosesJob
  BY SpentInvAlways, PTL DEF SpentInv

-----------------------------------------------------------------------------
(***************************************************************************)
(* The network, the tables and the events; the refinement of JobLedger.    *)
(***************************************************************************)

-----------------------------------------------------------------------------
(* The inductive invariant.                                                *)

KnownSteps == JobSteps \cup (ProofSteps \ {"detached", "checkChain", "broadcast", "fetchProof"})

\* A call that is past its broadcast or its fetch has a proof the network knows.
ProofsAreKnown ==
  \A c \in Call : pc[c] \in KnownSteps => proof[c] \in network \cup {None}

\* A fiber that has the time of its transaction knows it is on the network, and
\* one that is about to announce a job has made its row.
FibersAreSure ==
  \A c \in Call, o \in JobOut :
    /\ fib[c][o] = "create"  => TxOf[o] \in network
    /\ fib[c][o] = "publish" => Rows(o) # {}

\* A proof is recorded under the output it redeems.
WorkMatches == \A w \in DOMAIN work : Spends[work[w].spend_txid] = work[w].job

ChainInv == ProofsAreKnown /\ FibersAreSure /\ WorkMatches /\ RowsAreOnChain /\ EventsFollowRows

LEMMA InitChain == Init => ChainInv
  BY DEF Init, ChainInv, ProofsAreKnown, FibersAreSure, WorkMatches, RowsAreOnChain,
         EventsFollowRows, KnownSteps, JobSteps, ProofSteps, AllOff

-----------------------------------------------------------------------------
(* Steps that leave the rows and the events alone.                         *)

Calm ==
  /\ network \subseteq network' /\ UNCHANGED <<jobs, work, events>>
  /\ \A c \in Call, o \in JobOut :
       fib'[c][o] \in {"create", "publish"} => fib'[c][o] = fib[c][o]
  /\ \A c \in Call : pc'[c] \in KnownSteps => proof'[c] \in network' \cup {None}

LEMMA CalmKeeps == ChainInv /\ Calm => ChainInv'
<1> SUFFICES ASSUME ChainInv, Calm PROVE ChainInv'
  OBVIOUS
<1> USE DEF ChainInv, Calm, Rows, Proofs
<1>1. ProofsAreKnown' /\ WorkMatches'
  BY DEF ProofsAreKnown, WorkMatches
<1>2. FibersAreSure'
  BY DEF FibersAreSure
<1>3. RowsAreOnChain' /\ EventsFollowRows'
  BY DEF RowsAreOnChain, EventsFollowRows
<1>4. QED
  BY <1>1, <1>2, <1>3

LEMMA StartIsCalm ==
  ASSUME Typed, ChainInv, NEW c \in Call, Start(c)
  PROVE  Calm
<1> USE DEF Calm, tables, Goto, Idle, About, AboutProof, KnownSteps, JobSteps, ProofSteps
<1>a. TypeOK /\ ProofsAreKnown
  BY DEF Typed, ChainInv
<1>1. CASE \E t \in JobTx : JobByTxid(c, t)
  BY <1>a, <1>1 DEF TypeOK, JobByTxid, ProofsAreKnown
<1>2. CASE \E t \in JobTx : JobByHex(c, t)
  BY <1>a, <1>2 DEF TypeOK, JobByHex, FanOut, ProofsAreKnown
<1>3. CASE \E o \in JobOut : PostJob(c, o)
  BY <1>a, <1>3 DEF TypeOK, PostJob, ProofsAreKnown
<1>4. CASE \E p \in ProofTx : ProofByTxid(c, p)
  BY <1>a, <1>4 DEF TypeOK, ProofByTxid, ProofsAreKnown
<1>5. CASE \E p \in ProofTx : ProofByHex(c, p)
  BY <1>a, <1>5 DEF TypeOK, ProofByHex, ProofsAreKnown
<1>6. CASE \E p \in ProofTx, d \in Call : SubmitProof(c, d, p)
  <2>1. PICK p \in ProofTx, d \in Call : SubmitProof(c, d, p)
    BY <1>6
  <2>2. /\ UNCHANGED <<network, jobs, work, events, fib>>
        /\ pc' = [pc EXCEPT ![c] = "checkChain", ![d] = "detached"]
        /\ proof' = [proof EXCEPT ![c] = p, ![d] = p]
    BY <2>1 DEF SubmitProof
  <2>3. \A b \in Call : pc'[b] \in KnownSteps =>
          pc'[b] = pc[b] /\ proof'[b] = proof[b]
    BY <1>a, <2>2 DEF TypeOK
  <2>4. QED
    BY <1>a, <2>2, <2>3 DEF ProofsAreKnown
<1>7. QED
  BY <1>1, <1>2, <1>3, <1>4, <1>5, <1>6 DEF Start

LEMMA FiberIsCalm ==
  ASSUME Typed, ChainInv, NEW c \in Call, NEW o \in JobOut,
         FiberFind(c, o) \/ FiberFindTx(c, o) \/ FiberRejects(c, o)
  PROVE  Calm
<1> USE DEF Calm, tables, locals, Goto, Move
<1>a. TypeOK /\ ProofsAreKnown
  BY DEF Typed, ChainInv
<1>1. CASE FiberFind(c, o)
  BY <1>a, <1>1 DEF TypeOK, FiberFind, ProofsAreKnown
<1>2. CASE FiberFindTx(c, o)
  BY <1>a, <1>2 DEF TypeOK, FiberFindTx, ProofsAreKnown
<1>3. CASE FiberRejects(c, o)
  BY <1>a, <1>3 DEF TypeOK, FiberRejects, ProofsAreKnown
<1>4. QED
  BY <1>1, <1>2, <1>3

LEMMA OtherIsCalm ==
  ASSUME Typed, ChainInv,
         \/ \E c \in Call : StepRejects(c) \/ Release(c)
         \/ \E t \in JobTx \cup ProofTx : Appear(t)
         \/ \E q \in Process : Crash(q)
         \/ UNCHANGED vars
  PROVE  Calm
<1> USE DEF Calm, tables, locals, Goto, Forget, AllOff, KnownSteps, JobSteps, ProofSteps
<1>a. TypeOK /\ ProofsAreKnown
  BY DEF Typed, ChainInv
<1>1. CASE \E c \in Call : StepRejects(c)
  BY <1>a, <1>1 DEF TypeOK, StepRejects, ProofsAreKnown
<1>2. CASE \E c \in Call : Release(c)
  BY <1>a, <1>2 DEF TypeOK, Release, ProofsAreKnown
<1>3. CASE \E t \in JobTx \cup ProofTx : Appear(t)
  BY <1>a, <1>3 DEF TypeOK, Appear, ProofsAreKnown
<1>4. CASE \E q \in Process : Crash(q)
  BY <1>a, <1>4 DEF TypeOK, Crash, ProofsAreKnown
<1>5. CASE UNCHANGED vars
  BY <1>a, <1>5 DEF TypeOK, vars, ProofsAreKnown
<1>6. QED
  BY <1>1, <1>2, <1>3, <1>4, <1>5

\* A fan-out starts all fibers at their first lookup.
LEMMA FanOutIsCalm ==
  ASSUME TypeOK, NEW c \in Call, NEW t, FanOut(c, t)
  PROVE  /\ pc' = [pc EXCEPT ![c] = "import"]
         /\ \A b \in Call, o \in JobOut :
              fib'[b][o] \in {"create", "publish"} => fib'[b][o] = fib[b][o]
<1> DEFINE start == [o \in JobOut |-> IF o \in OutputsOf(t) THEN "find" ELSE "off"]
<1>1. fib' = [fib EXCEPT ![c] = start] /\ pc' = [pc EXCEPT ![c] = "import"]
  BY DEF FanOut, Goto
<1>2. \A o \in JobOut : start[o] \notin {"create", "publish"}
  OBVIOUS
<1> HIDE DEF start
<1>3. QED
  BY <1>1, <1>2 DEF TypeOK

\* A step that only moves calls is calm if each call it brings to a known step
\* comes from one or has a proof that is on the network.
LEMMA CallsMoveCalmly ==
  ASSUME ProofsAreKnown, network \subseteq network',
         UNCHANGED <<jobs, work, events, fib, proof>>,
         \A b \in Call : pc'[b] \in KnownSteps =>
           \/ pc[b] \in KnownSteps
           \/ proof[b] \in network' \cup {None}
  PROVE  Calm
<1>1. \A b \in Call : pc'[b] \in KnownSteps => proof'[b] \in network' \cup {None}
  BY DEF ProofsAreKnown
<1>2. QED
  BY <1>1 DEF Calm

\* A call that moves alone: the same, said of that call.
LEMMA CallMovesCalmly ==
  ASSUME TypeOK, ProofsAreKnown, NEW c \in Call, NEW step,
         pc' = [pc EXCEPT ![c] = step],
         UNCHANGED <<network, jobs, work, events, fib, proof>>,
         step \in KnownSteps => pc[c] \in KnownSteps \/ proof[c] \in network \cup {None}
  PROVE  Calm
<1>1. \A b \in Call : pc'[b] = IF b = c THEN step ELSE pc[b]
  BY DEF TypeOK
<1>2. QED
  BY <1>1, CallsMoveCalmly

\* Only a call with a proof the network knows launches the import by txid.
LEMMA LaunchIsCalm ==
  ASSUME TypeOK, ProofsAreKnown, NEW c \in Call, Launch(c),
         proof[c] \in network', network \subseteq network',
         UNCHANGED <<jobs, work, events, fib, proof>>
  PROVE  Calm
<1>1. PICK d \in Call : /\ proof[d] = proof[c]
                        /\ pc' = [pc EXCEPT ![c] = "findJob", ![d] = "fetchProof"]
  BY DEF Launch
<1>2. \A b \in Call : pc'[b] # pc[b] => b \in {c, d}
  BY <1>1 DEF TypeOK
<1>3. \A b \in Call : pc'[b] \in KnownSteps =>
        \/ pc[b] \in KnownSteps
        \/ proof[b] \in network' \cup {None}
  BY <1>1, <1>2
<1>4. QED
  BY <1>3, CallsMoveCalmly

LEMMA FanOutMovesCalmly ==
  ASSUME TypeOK, ProofsAreKnown, NEW c \in Call, pc[c] \in JobSteps, NEW t, FanOut(c, t),
         UNCHANGED <<network, jobs, work, events, proof>>
  PROVE  Calm
<1> USE FanOutIsCalm DEF JobSteps, KnownSteps
<1>1. \A b \in Call : pc'[b] = IF b = c THEN "import" ELSE pc[b]
  BY DEF TypeOK
<1>2. \A b \in Call : pc'[b] \in KnownSteps => pc[b] \in KnownSteps
  BY <1>1
<1>3. \A b \in Call : pc'[b] \in KnownSteps => proof'[b] \in network' \cup {None}
  BY <1>2 DEF ProofsAreKnown
<1>4. QED
  BY <1>3 DEF Calm

LEMMA EarlyStepIsCalm ==
  ASSUME Typed, ChainInv, NEW c \in Call,
         LookupJob(c) \/ FetchJobTx(c) \/ ImportDone(c) \/ ImportRejected(c) \/ CheckChain(c)
         \/ Broadcast(c) \/ FetchProof(c) \/ FindJob(c) \/ FindJobAgain(c)
         \/ FindProof(c) \/ HealFind(c)
  PROVE  Calm
<1> USE DEF Calm, tables, locals, Goto, KnownSteps, JobSteps, ProofSteps
<1>a. TypeOK /\ ProofsAreKnown
  BY DEF Typed, ChainInv
<1>1. CASE LookupJob(c)
  <2>1. /\ pc[c] = "lookupJob" /\ UNCHANGED <<network, jobs, work, events, proof>>
        /\ \/ pc' = [pc EXCEPT ![c] = "imported"] /\ fib' = fib
           \/ pc' = [pc EXCEPT ![c] = "fetchJobTx"] /\ fib' = fib
           \/ FanOut(c, tx[c])
    BY <1>1 DEF LookupJob
  <2>2. CASE FanOut(c, tx[c])
    BY <1>a, <2>1, <2>2, FanOutMovesCalmly
  <2>3. CASE fib' = fib /\ \E step \in {"imported", "fetchJobTx"} : pc' = [pc EXCEPT ![c] = step]
    BY <1>a, <2>1, <2>3, CallMovesCalmly
  <2>4. QED
    BY <2>1, <2>2, <2>3
<1>2. CASE FetchJobTx(c)
  <2>1. /\ pc[c] = "fetchJobTx" /\ UNCHANGED <<network, jobs, work, events, proof>>
        /\ \/ pc' = [pc EXCEPT ![c] = "failed"] /\ fib' = fib
           \/ FanOut(c, tx[c])
    BY <1>2 DEF FetchJobTx
  <2>2. CASE FanOut(c, tx[c])
    BY <1>a, <2>1, <2>2, FanOutMovesCalmly
  <2>3. CASE pc' = [pc EXCEPT ![c] = "failed"] /\ fib' = fib
    BY <1>a, <2>1, <2>3, CallMovesCalmly
  <2>4. QED
    BY <2>1, <2>2, <2>3
<1>3. CASE ImportDone(c)
  BY <1>a, <1>3 DEF TypeOK, ImportDone, AllOff, ProofsAreKnown
<1>4. CASE ImportRejected(c)
  BY <1>a, <1>4 DEF TypeOK, ImportRejected, ProofsAreKnown
<1>5. CASE CheckChain(c)
  <2>1. UNCHANGED <<network, jobs, work, events, fib, proof>>
    BY <1>5 DEF CheckChain
  <2>2. CASE proof[c] \in network /\ Launch(c)
    BY <1>a, <2>1, <2>2, LaunchIsCalm
  <2>3. CASE pc' = [pc EXCEPT ![c] = "broadcast"]
    BY <1>a, <2>1, <2>3, CallMovesCalmly
  <2>4. QED
    BY <1>5, <2>2, <2>3 DEF CheckChain
<1>6. CASE Broadcast(c)
  <2>1. UNCHANGED <<jobs, work, events, fib, proof>>
    BY <1>6 DEF Broadcast
  <2>2. CASE network' = network \cup {proof[c]} /\ Launch(c)
    BY <1>a, <2>1, <2>2, LaunchIsCalm
  <2>3. CASE /\ UNCHANGED network
             /\ \E d \in Call : pc' = [pc EXCEPT ![c] = "failed", ![d] = "failed"]
    <3>1. \A b \in Call : pc'[b] \in KnownSteps => pc'[b] = pc[b]
      BY <1>a, <2>3 DEF TypeOK
    <3>2. QED
      BY <1>a, <2>1, <2>3, <3>1, CallsMoveCalmly
  <2>4. QED
    BY <1>6, <2>2, <2>3 DEF Broadcast
<1>7. CASE FetchProof(c)
  <2>1. UNCHANGED <<network, jobs, work, events, fib, proof>>
    BY <1>7 DEF FetchProof
  <2>2. \/ proof[c] \in network /\ pc' = [pc EXCEPT ![c] = "findJob"]
        \/ pc' = [pc EXCEPT ![c] = "failed"]
    BY <1>7 DEF FetchProof
  <2>3. QED
    BY <1>a, <2>1, <2>2, CallMovesCalmly
<1>8. CASE FindJob(c)
  BY <1>a, <1>8 DEF TypeOK, FindJob, FindJobOr, ProofsAreKnown
<1>9. CASE FindJobAgain(c)
  BY <1>a, <1>9 DEF TypeOK, FindJobAgain, FindJobOr, ProofsAreKnown
<1>10. CASE FindProof(c)
  BY <1>a, <1>10 DEF TypeOK, FindProof, FindProofOr, ProofsAreKnown
<1>11. CASE HealFind(c)
  BY <1>a, <1>11 DEF TypeOK, HealFind, ProofsAreKnown
<1>12. QED
  BY <1>1, <1>2, <1>3, <1>4, <1>5, <1>6, <1>7, <1>8, <1>9, <1>10, <1>11

-----------------------------------------------------------------------------
(* Steps that write a row or an event.                                     *)

LEMMA OneFiberMoves ==
  ASSUME TypeOK, NEW c \in Call, NEW o \in JobOut, NEW step,
         fib' = [fib EXCEPT ![c][o] = step]
  PROVE  \A b \in Call, u \in JobOut :
           fib'[b][u] = IF b = c /\ u = o THEN step ELSE fib[b][u]
  BY DEF TypeOK

LEMMA TimeKeeps ==
  ASSUME Typed, ChainInv, NEW c \in Call, NEW o \in JobOut, FiberTime(c, o)
  PROVE  ChainInv'
<1> USE DEF Rows, Proofs, tables, locals, Move
<1>1. /\ UNCHANGED <<network, jobs, work, events, pc, proof>>
      /\ \/ TxOf[o] \in network /\ fib' = [fib EXCEPT ![c][o] = "create"]
         \/ fib' = [fib EXCEPT ![c][o] = "fail"]
  BY DEF FiberTime
<1>2. ProofsAreKnown' /\ WorkMatches' /\ RowsAreOnChain' /\ EventsFollowRows'
  BY <1>1 DEF ChainInv, ProofsAreKnown, WorkMatches, RowsAreOnChain, EventsFollowRows
<1>3. FibersAreSure'
  <2>1. TypeOK /\ FibersAreSure
    BY DEF Typed, ChainInv
  <2>2. CASE TxOf[o] \in network /\ fib' = [fib EXCEPT ![c][o] = "create"]
    BY <1>1, <2>1, <2>2, OneFiberMoves DEF FibersAreSure
  <2>3. CASE fib' = [fib EXCEPT ![c][o] = "fail"]
    BY <1>1, <2>1, <2>3, OneFiberMoves DEF FibersAreSure
  <2>4. QED
    BY <1>1, <2>2, <2>3
<1>4. QED
  BY <1>2, <1>3 DEF ChainInv

OpenRow(o) == [out |-> o, spent |-> FALSE, spent_txid |-> None]

\* A create adds an open row of its output at the end, or none.
LEMMA CreateAdds ==
  ASSUME Typed, ChainInv, NEW c \in Call, NEW o \in JobOut, FiberCreate(c, o)
  PROVE  /\ TxOf[o] \in network
         /\ UNCHANGED <<network, work, events, pc, proof>>
         /\ \/ jobs' = jobs /\ fib' = [fib EXCEPT ![c][o] = "fail"]
            \/ /\ fib' = [fib EXCEPT ![c][o] = "publish"]
               /\ DOMAIN jobs' = DOMAIN jobs \cup {Len(jobs) + 1}
               /\ Len(jobs) + 1 \notin DOMAIN jobs
               /\ \A i \in DOMAIN jobs : jobs'[i] = jobs[i]
               /\ jobs'[Len(jobs) + 1].out = o /\ ~jobs'[Len(jobs) + 1].spent
<1>1. TxOf[o] \in network
  BY DEF ChainInv, FibersAreSure, FiberCreate
<1>2. /\ UNCHANGED <<network, work, events, pc, proof>>
      /\ \/ jobs' = jobs /\ fib' = [fib EXCEPT ![c][o] = "fail"]
         \/ fib' = [fib EXCEPT ![c][o] = "publish"] /\ jobs' = Append(jobs, OpenRow(o))
  BY DEF FiberCreate, Insert, Move, locals, OpenRow
<1>3. OpenRow(o) \in JobRow /\ OpenRow(o).out = o /\ ~OpenRow(o).spent
  BY DEF OpenRow, JobRow
<1>4. jobs \in Seq(JobRow)
  BY DEF Typed, TypeOK
<1>5. Len(jobs) + 1 \notin DOMAIN jobs
  BY <1>4
<1>6. /\ DOMAIN Append(jobs, OpenRow(o)) = DOMAIN jobs \cup {Len(jobs) + 1}
      /\ \A i \in DOMAIN jobs : Append(jobs, OpenRow(o))[i] = jobs[i]
      /\ Append(jobs, OpenRow(o))[Len(jobs) + 1] = OpenRow(o)
  BY <1>3, <1>4, AppendRow
<1> HIDE DEF OpenRow
<1>7. QED
  BY <1>1, <1>2, <1>3, <1>5, <1>6

LEMMA CreateKeeps ==
  ASSUME Typed, ChainInv, NEW c \in Call, NEW o \in JobOut, FiberCreate(c, o)
  PROVE  ChainInv'
<1> USE DEF Rows, Proofs
<1>1. /\ TxOf[o] \in network
      /\ UNCHANGED <<network, work, events, pc, proof>>
      /\ \/ jobs' = jobs /\ fib' = [fib EXCEPT ![c][o] = "fail"]
         \/ /\ fib' = [fib EXCEPT ![c][o] = "publish"]
            /\ DOMAIN jobs' = DOMAIN jobs \cup {Len(jobs) + 1}
            /\ \A i \in DOMAIN jobs : jobs'[i] = jobs[i]
            /\ jobs'[Len(jobs) + 1].out = o
  BY CreateAdds
<1>2. ProofsAreKnown' /\ WorkMatches'
  BY <1>1 DEF ChainInv, ProofsAreKnown, WorkMatches
<1>3. RowsAreOnChain' /\ EventsFollowRows'
  BY <1>1 DEF ChainInv, RowsAreOnChain, EventsFollowRows
<1>4. FibersAreSure'
  <2>1. TypeOK /\ FibersAreSure
    BY DEF Typed, ChainInv
  <2>2. CASE jobs' = jobs /\ fib' = [fib EXCEPT ![c][o] = "fail"]
    BY <1>1, <2>1, <2>2, OneFiberMoves DEF FibersAreSure
  <2>3. CASE /\ fib' = [fib EXCEPT ![c][o] = "publish"]
             /\ DOMAIN jobs' = DOMAIN jobs \cup {Len(jobs) + 1}
             /\ \A i \in DOMAIN jobs : jobs'[i] = jobs[i]
             /\ jobs'[Len(jobs) + 1].out = o
    BY <1>1, <2>1, <2>3, OneFiberMoves DEF FibersAreSure
  <2>4. QED
    BY <1>1, <2>2, <2>3
<1>5. QED
  BY <1>2, <1>3, <1>4 DEF ChainInv

LEMMA PublishKeeps ==
  ASSUME Typed, ChainInv, NEW c \in Call, NEW o \in JobOut, FiberPublish(c, o)
  PROVE  ChainInv'
<1> USE DEF Rows, Proofs
<1> DEFINE news == [topic |-> "job.created", job |-> o, proof |-> None]
<1>1. /\ UNCHANGED <<network, jobs, work, pc, proof>>
      /\ events' = events \cup {news} /\ fib' = [fib EXCEPT ![c][o] = "done"]
      /\ fib[c][o] = "publish"
  BY DEF FiberPublish, Publish, Move, locals
<1>2. news.topic = "job.created" /\ news.job = o
  OBVIOUS
<1> HIDE DEF news
<1>3. Rows(o) # {}
  BY <1>1 DEF ChainInv, FibersAreSure
<1>4. ProofsAreKnown' /\ WorkMatches' /\ RowsAreOnChain'
  BY <1>1 DEF ChainInv, ProofsAreKnown, WorkMatches, RowsAreOnChain
<1>5. EventsFollowRows'
  BY <1>1, <1>2, <1>3 DEF ChainInv, EventsFollowRows
<1>6. FibersAreSure'
  BY <1>1 DEF ChainInv, FibersAreSure, Typed, TypeOK
<1>7. QED
  BY <1>4, <1>5, <1>6 DEF ChainInv

\* What creating a proof writes.
LEMMA ProofAdds ==
  ASSUME Typed, ChainInv, NEW c \in Call, CreateProof(c)
  PROVE  /\ proof[c] \in ProofTx \cap network /\ out[c] = Spends[proof[c]]
         /\ Rows(out[c]) # {}
         /\ DOMAIN work' = DOMAIN work \cup {Len(work) + 1}
         /\ \A w \in DOMAIN work : work'[w] = work[w]
         /\ work'[Len(work) + 1].job = out[c]
         /\ work'[Len(work) + 1].spend_txid = proof[c]
         /\ UNCHANGED <<network, jobs, fib, proof>>
         /\ pc' = [pc EXCEPT ![c] = "saveJob"]
<1> DEFINE row == [job |-> out[c], spend_txid |-> proof[c]]
<1>1. /\ pc[c] = "createProof" /\ pc' = [pc EXCEPT ![c] = "saveJob"]
      /\ work' = Append(work, row) /\ UNCHANGED <<network, jobs, fib, proof>>
  BY DEF CreateProof, InsertProof, Goto, locals
<1>2. job[c] \in DOMAIN jobs /\ jobs[job[c]].out = out[c] /\ out[c] \in JobOut
  BY <1>1, RowFacts DEF Typed, CallsHoldRows, HoldSteps, RowsAreTyped
<1>3. proof[c] # None /\ proof[c] \in ProofTx /\ out[c] = Spends[proof[c]]
  BY <1>1 DEF Typed, TypeOK, CallsAreAbout, ProofCalls, ProofSteps
<1>4. proof[c] \in network
  BY <1>1, <1>3 DEF ChainInv, ProofsAreKnown, KnownSteps, ProofSteps
<1>5. row \in WorkRow /\ row.job = out[c] /\ row.spend_txid = proof[c]
  BY <1>2, <1>3 DEF WorkRow
<1> HIDE DEF row
<1>6. work \in Seq(WorkRow)
  BY DEF Typed, TypeOK
<1>7. /\ DOMAIN Append(work, row) = DOMAIN work \cup {Len(work) + 1}
      /\ \A w \in DOMAIN work : Append(work, row)[w] = work[w]
      /\ Append(work, row)[Len(work) + 1] = row
  BY <1>5, <1>6, AppendRow
<1>8. Rows(out[c]) # {}
  BY <1>2 DEF Rows
<1>9. QED
  BY <1>1, <1>3, <1>4, <1>5, <1>7, <1>8

LEMMA ProofKeeps ==
  ASSUME Typed, ChainInv, NEW c \in Call, CreateProof(c)
  PROVE  ChainInv'
<1> DEFINE news == [topic |-> "proof.created", job |-> out[c], proof |-> proof[c]]
<1>1. events' = events \cup {news}
  BY DEF CreateProof, InsertProof, Publish
<1>2. news.topic = "proof.created" /\ news.job = out[c] /\ news.proof = proof[c]
  OBVIOUS
<1> HIDE DEF news
<1>3. /\ proof[c] \in network /\ out[c] = Spends[proof[c]]
      /\ Rows(out[c]) # {}
      /\ DOMAIN work' = DOMAIN work \cup {Len(work) + 1}
      /\ \A w \in DOMAIN work : work'[w] = work[w]
      /\ work'[Len(work) + 1].job = out[c]
      /\ work'[Len(work) + 1].spend_txid = proof[c]
      /\ UNCHANGED <<network, jobs, fib, proof>>
      /\ pc' = [pc EXCEPT ![c] = "saveJob"]
  BY ProofAdds
<1>4. FibersAreSure' /\ RowsAreOnChain' /\ WorkMatches'
  BY <1>3 DEF ChainInv, FibersAreSure, RowsAreOnChain, WorkMatches, Rows
<1>5. ProofsAreKnown'
  BY <1>3 DEF ChainInv, ProofsAreKnown, Typed, TypeOK
<1>6. EventsFollowRows'
  BY <1>1, <1>2, <1>3 DEF ChainInv, EventsFollowRows, Rows, Proofs
<1>7. QED
  BY <1>4, <1>5, <1>6 DEF ChainInv

\* What the two saves of importBoostProof write: they close a job that is proved.
LEMMA SavesClose ==
  ASSUME Typed, SpentInv, NEW c \in Call, SaveJob(c) \/ HealSave(c)
  PROVE  /\ job[c] \in DOMAIN jobs /\ jobs[job[c]].out = out[c]
         /\ Proofs(out[c]) # {}
         /\ \E t \in ProofTx \cup {None} :
              /\ JobsSaved(job[c], t)
              /\ t = jobs[job[c]].spent_txid \/ t # None
         /\ UNCHANGED <<network, work, proof, fib>>
         /\ \A b \in Call : pc'[b] \in KnownSteps => pc[b] \in KnownSteps
<1>a. TypeOK /\ CallsHoldRows /\ CallsAreAbout /\ CallsAreProved
  BY DEF Typed, SpentInv
<1>1. pc[c] \in {"saveJob", "healSave"} /\ UNCHANGED <<network, work, proof, fib>>
  BY DEF SaveJob, HealSave, locals
<1>2. job[c] \in DOMAIN jobs /\ jobs[job[c]].out = out[c] /\ Proofs(out[c]) # {}
  BY <1>a, <1>1 DEF CallsHoldRows, HoldSteps, CallsAreProved, ProvedSteps
<1>3. proof[c] \in ProofTx /\ proof[c] # None /\ jobs[job[c]].spent_txid \in ProofTx \cup {None}
  BY <1>a, <1>1, <1>2, RowFacts DEF TypeOK, CallsAreAbout, ProofCalls, ProofSteps, RowsAreTyped
<1>4. \E t \in {proof[c], jobs[job[c]].spent_txid} : MarkSpent(job[c], t)
  BY DEF SaveJob, HealSave
<1>5. PICK t \in {proof[c], jobs[job[c]].spent_txid} : MarkSpent(job[c], t)
  BY <1>4
<1>6. t \in ProofTx \cup {None} /\ (t = jobs[job[c]].spent_txid \/ t # None)
  BY <1>3
<1>7. JobsSaved(job[c], t)
  BY <1>a, <1>2, <1>5, <1>6, MarkedRow
<1>8. \A b \in Call : pc'[b] \in KnownSteps => pc[b] \in KnownSteps
  BY <1>a DEF SaveJob, HealSave, Goto, TypeOK, KnownSteps, JobSteps, ProofSteps
<1>9. QED
  BY <1>1, <1>2, <1>6, <1>7, <1>8

LEMMA SavesKeep ==
  ASSUME Typed, SpentInv, ChainInv, NEW c \in Call, SaveJob(c) \/ HealSave(c)
  PROVE  ChainInv'
<1>1. /\ job[c] \in DOMAIN jobs /\ jobs[job[c]].out = out[c]
      /\ UNCHANGED <<network, work, proof, fib>>
      /\ \A b \in Call : pc'[b] \in KnownSteps => pc[b] \in KnownSteps
  BY SavesClose
<1>2. /\ DOMAIN jobs' = DOMAIN jobs /\ jobs'[job[c]].spent
      /\ \A i \in DOMAIN jobs : /\ jobs'[i].out = jobs[i].out
                                /\ jobs[i].spent => jobs'[i].spent
  BY SavesClose DEF JobsSaved
<1>3. ProofsAreKnown' /\ WorkMatches'
  BY <1>1 DEF ChainInv, ProofsAreKnown, WorkMatches
<1>4. FibersAreSure' /\ RowsAreOnChain'
  BY <1>1, <1>2 DEF ChainInv, FibersAreSure, RowsAreOnChain, Rows
<1>5. \A e \in events' :
        \/ e \in events
        \/ /\ e.topic = "job.completed" /\ e.job = out[c]
           /\ \E w \in Proofs(out[c]) : work[w].spend_txid = e.proof
  <2>1. CASE HealSave(c)
    BY <2>1 DEF HealSave
  <2>2. CASE SaveJob(c)
    <3>1. pc[c] = "saveJob"
      BY <2>2 DEF SaveJob
    <3>2. \E w \in Proofs(out[c]) : work[w].spend_txid = proof[c]
      BY <3>1 DEF SpentInv, CallsAreProved
    <3>3. events' = events \cup {[topic |-> "job.completed", job |-> out[c], proof |-> proof[c]]}
      BY <2>2 DEF SaveJob, Publish
    <3>4. QED
      BY <3>2, <3>3
  <2>3. QED
    BY <2>1, <2>2
<1>6. EventsFollowRows'
  BY <1>1, <1>2, <1>5 DEF ChainInv, EventsFollowRows, Rows, Proofs
<1>7. QED
  BY <1>3, <1>4, <1>6 DEF ChainInv

-----------------------------------------------------------------------------

LEMMA NextChain == Typed /\ SpentInv /\ ChainInv /\ [Next]_vars => ChainInv'
<1> SUFFICES ASSUME Typed, SpentInv, ChainInv, [Next]_vars PROVE ChainInv'
  OBVIOUS
<1>1. ASSUME NEW c \in Call, Start(c) PROVE ChainInv'
  BY <1>1, StartIsCalm, CalmKeeps
<1>2. ASSUME NEW c \in Call, Step(c) PROVE ChainInv'
  BY <1>2, EarlyStepIsCalm, CalmKeeps, ProofKeeps, SavesKeep DEF Step
<1>3. ASSUME NEW c \in Call, NEW o \in JobOut, Fiber(c, o) \/ FiberRejects(c, o)
      PROVE  ChainInv'
  BY <1>3, FiberIsCalm, CalmKeeps, TimeKeeps, CreateKeeps, PublishKeeps DEF Fiber
<1>4. ASSUME \/ \E c \in Call : StepRejects(c) \/ Release(c)
             \/ \E t \in JobTx \cup ProofTx : Appear(t)
             \/ \E q \in Process : Crash(q)
             \/ UNCHANGED vars
      PROVE  ChainInv'
  BY <1>4, OtherIsCalm, CalmKeeps
<1>5. QED
  BY <1>1, <1>2, <1>3, <1>4 DEF Next

LEMMA ChainInvAlways == Spec => []ChainInv
  BY InitChain, NextChain, TypedAlways, SpentInvAlways, PTL DEF Spec

\* Subscribers hear only of what is in the tables, and the tables hold only what
\* the network knows, for any number of calls, rejections and crashes.
THEOREM EventsAndRowsFollow == Spec => []EventsFollowTheChain
<1>1. ChainInv => EventsFollowTheChain
  BY DEF ChainInv, EventsFollowTheChain
<1>2. QED
  BY <1>1, ChainInvAlways, PTL

-----------------------------------------------------------------------------
(* Steps of the tables, and the ledger.                                    *)

\* Every step leaves both tables alone, adds an open job, adds a proof of a job
\* that has a row, or closes a job that has a proof.
JobAdded(o) ==
  /\ work' = work
  /\ DOMAIN jobs' = DOMAIN jobs \cup {Len(jobs) + 1} /\ Len(jobs) + 1 \notin DOMAIN jobs
  /\ \A i \in DOMAIN jobs : jobs'[i] = jobs[i]
  /\ jobs'[Len(jobs) + 1].out = o /\ ~jobs'[Len(jobs) + 1].spent

ProofAdded(p) ==
  /\ jobs' = jobs
  /\ Rows(Spends[p]) # {}
  /\ DOMAIN work' = DOMAIN work \cup {Len(work) + 1}
  /\ \A w \in DOMAIN work : work'[w] = work[w]
  /\ work'[Len(work) + 1].spend_txid = p

JobClosed(k) ==
  /\ work' = work
  /\ Proofs(jobs[k].out) # {}
  /\ \E t \in ProofTx \cup {None} : JobsSaved(k, t) /\ (t = jobs[k].spent_txid \/ t # None)

LEMMA TableSteps ==
  Typed /\ SpentInv /\ ChainInv /\ [Next]_vars =>
    \/ UNCHANGED <<jobs, work>>
    \/ \E o \in JobOut : JobAdded(o)
    \/ \E p \in ProofTx : ProofAdded(p)
    \/ \E k \in DOMAIN jobs : JobClosed(k)
<1> DEFINE Goal == \/ UNCHANGED <<jobs, work>>
                   \/ \E o \in JobOut : JobAdded(o)
                   \/ \E p \in ProofTx : ProofAdded(p)
                   \/ \E k \in DOMAIN jobs : JobClosed(k)
<1> SUFFICES ASSUME Typed, SpentInv, ChainInv, [Next]_vars PROVE Goal
  OBVIOUS
<1>1. Calm => Goal
  BY DEF Calm
<1>2. ASSUME NEW c \in Call, NEW o \in JobOut, FiberCreate(c, o) PROVE Goal
  BY <1>2, CreateAdds DEF JobAdded
<1>3. ASSUME NEW c \in Call, NEW o \in JobOut, FiberTime(c, o) \/ FiberPublish(c, o) PROVE Goal
  BY <1>3 DEF FiberTime, FiberPublish, tables
<1>4. ASSUME NEW c \in Call, CreateProof(c) PROVE Goal
  BY <1>4, ProofAdds DEF ProofAdded
<1>5. ASSUME NEW c \in Call, SaveJob(c) \/ HealSave(c) PROVE Goal
  BY <1>5, SavesClose DEF JobClosed
<1> HIDE DEF Goal
<1>6. ASSUME NEW c \in Call, Step(c) PROVE Goal
  BY <1>1, <1>4, <1>5, <1>6, EarlyStepIsCalm DEF Step
<1>7. ASSUME NEW c \in Call, NEW o \in JobOut, Fiber(c, o) \/ FiberRejects(c, o) PROVE Goal
  BY <1>1, <1>2, <1>3, <1>7, FiberIsCalm DEF Fiber
<1>8. QED
  BY <1>1, <1>6, <1>7, StartIsCalm, OtherIsCalm DEF Next

\* No save from a stale instance takes anything back.
THEOREM SavesKeepRows == Spec => SavesKeepWhatWasSaved
<1> DEFINE Kept == \A i \in DOMAIN jobs :
       /\ i \in DOMAIN jobs' /\ jobs'[i].out = jobs[i].out
       /\ jobs[i].spent => jobs'[i].spent
       /\ jobs[i].spent_txid # None => jobs'[i].spent_txid # None
<1>1. Typed /\ SpentInv /\ ChainInv /\ [Next]_vars => Kept
  <2> SUFFICES ASSUME Typed, SpentInv, ChainInv, [Next]_vars PROVE Kept
    OBVIOUS
  <2>1. CASE UNCHANGED <<jobs, work>>
    BY <2>1
  <2>2. ASSUME NEW o \in JobOut, JobAdded(o) PROVE Kept
    BY <2>2 DEF JobAdded
  <2>3. ASSUME NEW p \in ProofTx, ProofAdded(p) PROVE Kept
    BY <2>3 DEF ProofAdded
  <2>4. ASSUME NEW k \in DOMAIN jobs, JobClosed(k) PROVE Kept
    BY <2>4 DEF JobClosed, JobsSaved
  <2>5. QED
    BY <2>1, <2>2, <2>3, <2>4, TableSteps
<1>2. Typed /\ SpentInv /\ ChainInv /\ [Next]_vars => [Kept]_vars
  BY <1>1
<1>3. QED
  BY <1>2, TypedAlways, SpentInvAlways, ChainInvAlways, PTL DEF Spec, SavesKeepWhatWasSaved

\* Seen without duplicates, every step of the importer is a step of the ledger.
THEOREM ImporterImplementsLedger == Spec => ImplementsLedger
<1>1. Init => Ledger!LedgerInit
  BY DEF Init, Ledger!LedgerInit
<1>2. Typed /\ SpentInv /\ ChainInv /\ [Next]_vars => [Ledger!LedgerNext]_(Ledger!ledger)
  <2> SUFFICES ASSUME Typed, SpentInv, ChainInv, [Next]_vars
               PROVE  [Ledger!LedgerNext]_(Ledger!ledger)
    OBVIOUS
  <2> DEFINE recorded == {jobs[i].out : i \in DOMAIN jobs}
             proved   == {work[w].spend_txid : w \in DOMAIN work}
             closed   == {jobs[i].out : i \in {k \in DOMAIN jobs : jobs[k].spent}}
  <2>1. CASE UNCHANGED <<jobs, work>>
    BY <2>1 DEF Ledger!ledger
  <2>2. ASSUME NEW o \in JobOut, JobAdded(o) PROVE Ledger!LedgerNext
    <3>1. recorded' = recorded \cup {o} /\ proved' = proved /\ closed' = closed
      BY <2>2 DEF JobAdded
    <3>2. Ledger!RecordJob(o)
      BY <3>1 DEF Ledger!RecordJob
    <3>3. QED
      BY <3>2 DEF Ledger!LedgerNext
  <2>3. ASSUME NEW p \in ProofTx, ProofAdded(p) PROVE Ledger!LedgerNext
    <3>1. recorded' = recorded /\ proved' = proved \cup {p} /\ closed' = closed
      BY <2>3 DEF ProofAdded
    <3>2. Spends[p] \in recorded
      BY <2>3 DEF ProofAdded, Rows
    <3>3. Ledger!RecordProof(p)
      BY <3>1, <3>2 DEF Ledger!RecordProof
    <3>4. QED
      BY <3>3 DEF Ledger!LedgerNext
  <2>4. ASSUME NEW k \in DOMAIN jobs, JobClosed(k) PROVE Ledger!LedgerNext
    <3>1. /\ DOMAIN jobs' = DOMAIN jobs /\ jobs'[k].spent /\ work' = work
          /\ \A i \in DOMAIN jobs : /\ jobs'[i].out = jobs[i].out
                                    /\ i # k => jobs'[i] = jobs[i]
      BY <2>4 DEF JobClosed, JobsSaved
    <3>2. /\ recorded' = recorded /\ proved' = proved
          /\ closed' = closed \cup {jobs[k].out}
      BY <3>1
    <3>3. PICK o \in JobOut : o = jobs[k].out
      BY RowFacts DEF Typed, RowsAreTyped
    <3>4. o \in recorded
      BY <3>3
    <3>5. \E p \in proved : Spends[p] = o
      <4>1. PICK w \in DOMAIN work : work[w].job = o
        BY <2>4, <3>3 DEF JobClosed, Proofs
      <4>2. Spends[work[w].spend_txid] = o
        BY <4>1 DEF ChainInv, WorkMatches
      <4>3. QED
        BY <4>1, <4>2
    <3>6. Ledger!CloseJob(o)
      BY <3>2, <3>3, <3>4, <3>5 DEF Ledger!CloseJob, Ledger!IsProved
    <3>7. QED
      BY <3>6 DEF Ledger!LedgerNext
  <2>5. QED
    BY <2>1, <2>2, <2>3, <2>4, TableSteps
<1>3. QED
  BY <1>1, <1>2, TypedAlways, SpentInvAlways, ChainInvAlways, PTL
     DEF Spec, ImplementsLedger, Ledger!LedgerSpec

-----------------------------------------------------------------------------
(***************************************************************************)
(* The calls.                                                              *)
(***************************************************************************)

-----------------------------------------------------------------------------
(* The inductive invariant.                                                *)

Running == {"find", "findTx", "time", "create", "publish"}

\* Where a fiber that found no row of its output is until it creates one.
Looks == {"findTx", "time", "create"}

\* Fibers run for a call that awaits them, or that failed before they ended.
FibersBelong ==
  \A c \in Call, o \in JobOut : fib[c][o] \in Running => pc[c] \in {"import", "failed"}

\* A fiber ends well only when some row of its transaction is there.
DoneIsRecorded ==
  \A c \in Call, o \in JobOut : fib[c][o] = "done" => RowsOfTx(TxOf[o]) # {}

\* The import of a proof's job has a fiber for the redeemed output, and once it is
\* done the transaction of the job has a row.
ImportCovers(c) ==
  /\ pc[c] = "import" /\ proof[c] # None /\ out[c] \in JobOut => fib[c][out[c]] # "off"
  /\ pc[c] = "findJobAgain" /\ out[c] \in JobOut => RowsOfTx(tx[c]) # {}

CallsInv ==
  /\ FibersBelong /\ DoneIsRecorded /\ GiveUpIsJustified
  /\ \A c \in Call : ImportCovers(c)

-----------------------------------------------------------------------------
(* What a step does to one call.                                           *)

Carries(b) == tx'[b] = tx[b] /\ out'[b] = out[b] /\ proof'[b] = proof[b]

Stays(b) == Carries(b) /\ pc'[b] = pc[b] /\ fib'[b] = fib[b]

\* Steps outside of the import of a job.
Moves(b) ==
  /\ pc[b] \notin {"import", "failed"}
  /\ pc'[b] \notin {"import", "findJobAgain", "gaveUp", "createProof"}
  /\ fib'[b] = fib[b]

\* A call is to write a proof if its lookup found none.
Finds(b) ==
  /\ Carries(b) /\ pc[b] = "findProof" /\ pc'[b] = "createProof" /\ Proofs(out[b]) = {}
  /\ fib'[b] = fib[b]

Fans(b) ==
  /\ pc[b] \notin {"import", "failed"} /\ pc'[b] = "import"
  /\ fib'[b] = [o \in JobOut |-> IF o \in OutputsOf(tx'[b]) THEN "find" ELSE "off"]

Gathers(b) ==
  /\ Carries(b) /\ pc[b] = "import" /\ pc'[b] \in {"imported", "findJobAgain"}
  /\ \A o \in JobOut : fib[b][o] \in {"off", "done"}
  /\ pc'[b] = "findJobAgain" => proof[b] # None
  /\ fib'[b] = AllOff

Rejects(b) == Carries(b) /\ pc[b] = "import" /\ pc'[b] = "failed" /\ fib'[b] = fib[b]

GivesUp(b) ==
  /\ Carries(b) /\ pc[b] = "findJobAgain" /\ pc'[b] = "gaveUp" /\ Rows(out[b]) = {}
  /\ fib'[b] = fib[b]

\* The fiber of o goes on; it is done when a row is there, and gets past its first
\* lookup when none is.
Runs(b) ==
  \E o \in JobOut, step \in FiberPc :
    /\ Carries(b) /\ pc'[b] = pc[b]
    /\ fib[b][o] \in Running /\ fib'[b] = [fib[b] EXCEPT ![o] = step]
    /\ step # "off"
    /\ step = "done" => RowsOfTx(TxOf[o])' # {}
    /\ step \in Looks => fib[b][o] \in Looks \/ Rows(o) = {}
    /\ fib[b][o] = "publish" => MayFail \/ \E e \in events' : e.topic = "job.created" /\ e.job = o

Ends(b) ==
  /\ pc'[b] = "idle" /\ fib'[b] = AllOff
  /\ MayCrash \/ \A o \in JobOut : fib[b][o] # "publish"

CallStep(b) ==
  \/ Stays(b) \/ Moves(b) \/ Fans(b) \/ Gathers(b) \/ Rejects(b) \/ GivesUp(b)
  \/ Finds(b) \/ Runs(b) \/ Ends(b)

-----------------------------------------------------------------------------
(* Every step does one of these to every call.                             *)

LEMMA FanOutFans ==
  ASSUME TypeOK, NEW c \in Call, NEW t, FanOut(c, t), pc[c] \notin {"import", "failed"},
         tx' = [tx EXCEPT ![c] = t], \A b \in Call : b # c => Carries(b)
  PROVE  \A b \in Call : CallStep(b)
<1> DEFINE start == [o \in JobOut |-> IF o \in OutputsOf(t) THEN "find" ELSE "off"]
<1>1. /\ pc' = [pc EXCEPT ![c] = "import"] /\ fib' = [fib EXCEPT ![c] = start]
  BY DEF FanOut, Goto
<1>2. tx'[c] = t
  BY DEF TypeOK
<1> HIDE DEF start
<1>3. pc'[c] = "import" /\ fib'[c] = start
  BY <1>1 DEF TypeOK
<1>4. Fans(c)
  BY <1>2, <1>3 DEF Fans, start
<1>5. ASSUME NEW b \in Call, b # c PROVE Stays(b)
  BY <1>1, <1>5 DEF Stays, TypeOK
<1>6. QED
  BY <1>4, <1>5 DEF CallStep

LEMMA StartSteps ==
  ASSUME TypeOK, NEW c \in Call, Start(c)
  PROVE  \A b \in Call : CallStep(b)
<1> USE DEF Idle, Goto
<1>1. CASE \E t \in JobTx : JobByHex(c, t)
  <2>1. PICK t \in JobTx : JobByHex(c, t)
    BY <1>1
  <2>2. /\ FanOut(c, t) /\ pc[c] = "idle"
        /\ tx' = [tx EXCEPT ![c] = t] /\ \A b \in Call : b # c => Carries(b)
    BY <2>1 DEF JobByHex, About, Carries, TypeOK
  <2>3. QED
    BY <2>2, FanOutFans
<1>2. CASE \E p \in ProofTx, d \in Call : SubmitProof(c, d, p)
  <2>1. PICK p \in ProofTx, d \in Call : SubmitProof(c, d, p)
    BY <1>2
  <2>2. /\ pc[c] = "idle" /\ pc[d] = "idle" /\ c # d /\ fib' = fib
        /\ pc' = [pc EXCEPT ![c] = "checkChain", ![d] = "detached"]
        /\ \A b \in Call : b \notin {c, d} => Carries(b)
    BY <2>1 DEF SubmitProof, Carries, TypeOK
  <2>3. Moves(c) /\ Moves(d) /\ \A b \in Call : b \notin {c, d} => Stays(b)
    BY <2>2 DEF Moves, Stays, TypeOK
  <2>4. QED
    BY <2>3 DEF CallStep
<1>3. ASSUME \/ \E t \in JobTx : JobByTxid(c, t)
             \/ \E o \in JobOut : PostJob(c, o)
             \/ \E p \in ProofTx : ProofByTxid(c, p) \/ ProofByHex(c, p)
      PROVE  \A b \in Call : CallStep(b)
  <2>1. PICK step \in {"fetchJobTx", "lookupJob", "fetchProof", "findJob"} :
          /\ pc[c] = "idle" /\ pc' = [pc EXCEPT ![c] = step] /\ fib' = fib
          /\ \A b \in Call : b # c => Carries(b)
    BY <1>3 DEF JobByTxid, PostJob, ProofByTxid, ProofByHex, About, AboutProof, Carries, TypeOK
  <2>2. Moves(c) /\ \A b \in Call : b # c => Stays(b)
    BY <2>1 DEF Moves, Stays, TypeOK
  <2>3. QED
    BY <2>2 DEF CallStep
<1>4. QED
  BY <1>1, <1>2, <1>3 DEF Start

\* A call moves on alone, and carries what it did.
LEMMA OneMoves ==
  ASSUME TypeOK, NEW c \in Call, NEW step, pc' = [pc EXCEPT ![c] = step],
         UNCHANGED <<tx, out, proof, fib>>
  PROVE  /\ pc'[c] = step /\ fib'[c] = fib[c] /\ Carries(c)
         /\ \A b \in Call : b # c => Stays(b)
  BY DEF Stays, Carries, TypeOK

LEMMA LaunchMoves ==
  ASSUME TypeOK, NEW c \in Call, NEW d \in Call, NEW step, NEW other,
         pc[c] \in {"checkChain", "broadcast"}, pc[d] = "detached",
         pc' = [pc EXCEPT ![c] = step, ![d] = other],
         {step, other} \subseteq {"findJob", "fetchProof", "failed"},
         UNCHANGED <<tx, out, proof, fib>>
  PROVE  \A b \in Call : CallStep(b)
<1>1. pc'[c] = step /\ pc'[d] = other /\ c # d
  BY DEF TypeOK
<1>2. Moves(c) /\ Moves(d)
  BY <1>1 DEF Moves
<1>3. \A b \in Call : b \notin {c, d} => Stays(b)
  BY DEF Stays, Carries, TypeOK
<1>4. QED
  BY <1>2, <1>3 DEF CallStep

LEMMA StepSteps ==
  ASSUME Typed, NEW c \in Call, Step(c) \/ StepRejects(c)
  PROVE  \A b \in Call : CallStep(b)
<1>a. TypeOK
  BY DEF Typed
<1> USE DEF Goto, locals, tables
<1>1. ASSUME NEW step, UNCHANGED <<tx, out, proof, fib>>, pc' = [pc EXCEPT ![c] = step],
             pc[c] \notin {"import", "failed"},
             step \notin {"import", "findJobAgain", "gaveUp", "createProof"}
      PROVE  \A b \in Call : CallStep(b)
  BY <1>a, <1>1, OneMoves DEF CallStep, Moves
<1>2. CASE LookupJob(c)
  <2>1. /\ pc[c] = "lookupJob" /\ UNCHANGED <<tx, out, proof>>
        /\ \/ \E step \in {"imported", "fetchJobTx"} :
                pc' = [pc EXCEPT ![c] = step] /\ fib' = fib
           \/ FanOut(c, tx[c])
    BY <1>2 DEF LookupJob
  <2>2. CASE FanOut(c, tx[c])
    <3>1. tx' = [tx EXCEPT ![c] = tx[c]] /\ \A b \in Call : Carries(b)
      BY <1>a, <2>1 DEF TypeOK, Carries
    <3>2. QED
      BY <1>a, <2>1, <2>2, <3>1, FanOutFans
  <2>3. QED
    BY <1>1, <2>1, <2>2
<1>3. CASE FetchJobTx(c)
  <2>1. /\ pc[c] = "fetchJobTx" /\ UNCHANGED <<tx, out, proof>>
        /\ \/ pc' = [pc EXCEPT ![c] = "failed"] /\ fib' = fib
           \/ FanOut(c, tx[c])
    BY <1>3 DEF FetchJobTx
  <2>2. CASE FanOut(c, tx[c])
    <3>1. tx' = [tx EXCEPT ![c] = tx[c]] /\ \A b \in Call : Carries(b)
      BY <1>a, <2>1 DEF TypeOK, Carries
    <3>2. QED
      BY <1>a, <2>1, <2>2, <3>1, FanOutFans
  <2>3. QED
    BY <1>1, <2>1, <2>2
<1>4. CASE ImportDone(c)
  <2>1. /\ pc[c] = "import" /\ \A o \in JobOut : fib[c][o] \in {"off", "done"}
        /\ UNCHANGED <<tx, out, proof>> /\ fib' = [fib EXCEPT ![c] = AllOff]
        /\ \E step \in {"imported", "findJobAgain"} :
             pc' = [pc EXCEPT ![c] = step] /\ (step = "findJobAgain" => proof[c] # None)
    BY <1>4 DEF ImportDone
  <2>2. fib'[c] = AllOff /\ \A b \in Call : b # c => Stays(b)
    BY <1>a, <2>1 DEF TypeOK, Stays, Carries
  <2>3. Gathers(c)
    BY <1>a, <2>1, <2>2 DEF Gathers, Carries, TypeOK
  <2>4. QED
    BY <2>2, <2>3 DEF CallStep
<1>5. CASE ImportRejected(c)
  <2>1. /\ pc[c] = "import" /\ pc' = [pc EXCEPT ![c] = "failed"]
        /\ UNCHANGED <<tx, out, proof, fib>>
    BY <1>5 DEF ImportRejected
  <2>2. QED
    BY <1>a, <2>1, OneMoves DEF CallStep, Rejects
<1>6. CASE CheckChain(c)
  <2>1. /\ pc[c] = "checkChain" /\ UNCHANGED <<tx, out, proof, fib>>
        /\ Launch(c) \/ pc' = [pc EXCEPT ![c] = "broadcast"]
    BY <1>6 DEF CheckChain
  <2>2. QED
    BY <1>1, <1>a, <2>1, LaunchMoves DEF Launch
<1>7. CASE Broadcast(c)
  <2>1. /\ pc[c] = "broadcast" /\ UNCHANGED <<tx, out, proof, fib>>
        /\ \/ Launch(c)
           \/ \E d \in Call : /\ pc[d] = "detached"
                              /\ pc' = [pc EXCEPT ![c] = "failed", ![d] = "failed"]
    BY <1>7 DEF Broadcast
  <2>2. QED
    BY <1>a, <2>1, LaunchMoves DEF Launch
<1>8. CASE FindJobAgain(c)
  <2>1. /\ pc[c] = "findJobAgain" /\ UNCHANGED <<tx, out, proof, fib>>
        /\ \/ pc' = [pc EXCEPT ![c] = "findProof"]
           \/ Rows(out[c]) = {} /\ pc' = [pc EXCEPT ![c] = "gaveUp"]
    BY <1>8 DEF FindJobAgain, FindJobOr
  <2>2. CASE Rows(out[c]) = {} /\ pc' = [pc EXCEPT ![c] = "gaveUp"]
    BY <1>a, <2>1, <2>2, OneMoves DEF CallStep, GivesUp
  <2>3. QED
    BY <1>1, <2>1, <2>2
<1>9. CASE FindProof(c)
  <2>1. /\ pc[c] = "findProof" /\ UNCHANGED <<tx, out, proof, fib>>
        /\ \/ pc' = [pc EXCEPT ![c] = "healFind"]
           \/ Proofs(out[c]) = {} /\ pc' = [pc EXCEPT ![c] = "createProof"]
    BY <1>9 DEF FindProof, FindProofOr
  <2>2. CASE Proofs(out[c]) = {} /\ pc' = [pc EXCEPT ![c] = "createProof"]
    BY <1>a, <2>1, <2>2, OneMoves DEF CallStep, Finds
  <2>3. QED
    BY <1>1, <2>1, <2>2
<1>10. CASE \/ FetchProof(c) \/ FindJob(c) \/ CreateProof(c)
            \/ SaveJob(c) \/ HealFind(c) \/ HealSave(c) \/ StepRejects(c)
  <2>1. /\ UNCHANGED <<tx, out, proof, fib>> /\ pc[c] \in ProofSteps \cup {"lookupJob"}
        /\ \E step \in {"findJob", "findProof", "saveJob", "healFind", "healSave", "failed",
                        "fetchJobTx", "recorded"} : pc' = [pc EXCEPT ![c] = step]
    BY <1>10 DEF FetchProof, FindJob, FindJobOr, CreateProof, InsertProof,
                 SaveJob, HealFind, HealSave, StepRejects, ProofSteps, DbSteps
  <2>2. QED
    BY <1>1, <2>1 DEF ProofSteps
<1>11. QED
  BY <1>2, <1>3, <1>4, <1>5, <1>6, <1>7, <1>8, <1>9, <1>10 DEF Step

\* The fiber of one output goes on.
LEMMA OneFiberSteps ==
  ASSUME TypeOK, NEW c \in Call, NEW o \in JobOut, NEW step \in FiberPc \ {"off"},
         UNCHANGED <<pc, tx, out, proof>>, fib[c][o] \in Running,
         fib' = [fib EXCEPT ![c][o] = step],
         step = "done" => RowsOfTx(TxOf[o])' # {},
         step \in Looks => fib[c][o] \in Looks \/ Rows(o) = {},
         fib[c][o] = "publish" => MayFail \/ \E e \in events' : e.topic = "job.created" /\ e.job = o
  PROVE  \A b \in Call : CallStep(b)
<1>1. fib'[c] = [fib[c] EXCEPT ![o] = step] /\ \A b \in Call : b # c => fib'[b] = fib[b]
  BY DEF TypeOK
<1>2. \A b \in Call : Carries(b) /\ pc'[b] = pc[b]
  BY DEF Carries
<1>3. Runs(c)
  BY <1>1, <1>2 DEF Runs
<1>4. QED
  BY <1>1, <1>2, <1>3 DEF CallStep, Stays

LEMMA FiberSteps ==
  ASSUME Typed, ChainInv, NEW c \in Call, NEW o \in JobOut, Fiber(c, o) \/ FiberRejects(c, o)
  PROVE  \A b \in Call : CallStep(b)
<1>a. TypeOK
  BY DEF Typed
<1> USE DEF Move, locals, tables, Running, Looks, FiberPc
<1>1. CASE FiberFind(c, o)
  <2>1. /\ UNCHANGED <<jobs, pc, tx, out, proof>> /\ fib[c][o] = "find"
        /\ \E step \in {"done", "findTx"} :
             fib' = [fib EXCEPT ![c][o] = step] /\ (step = "done" <=> Rows(o) # {})
    BY <1>1 DEF FiberFind
  <2>2. Rows(o) # {} => RowsOfTx(TxOf[o])' # {}
    BY <2>1 DEF Rows, RowsOfTx
  <2>3. QED
    BY <1>a, <2>1, <2>2, OneFiberSteps
<1>2. CASE FiberFindTx(c, o)
  <2>1. /\ UNCHANGED <<jobs, pc, tx, out, proof>> /\ fib[c][o] = "findTx"
        /\ \E step \in {"done", "time"} :
             fib' = [fib EXCEPT ![c][o] = step] /\ (step = "done" => RowsOfTx(TxOf[o]) # {})
    BY <1>2 DEF FiberFindTx
  <2>2. RowsOfTx(TxOf[o]) # {} => RowsOfTx(TxOf[o])' # {}
    BY <2>1 DEF RowsOfTx
  <2>3. QED
    BY <1>a, <2>1, <2>2, OneFiberSteps
<1>3. CASE FiberTime(c, o)
  <2>1. /\ UNCHANGED <<pc, tx, out, proof>> /\ fib[c][o] = "time"
        /\ \E step \in {"create", "fail"} : fib' = [fib EXCEPT ![c][o] = step]
    BY <1>3 DEF FiberTime
  <2>2. QED
    BY <1>a, <2>1, OneFiberSteps
<1>4. CASE FiberCreate(c, o)
  <2>1. /\ UNCHANGED <<pc, tx, out, proof>> /\ fib[c][o] = "create"
        /\ \E step \in {"publish", "fail"} : fib' = [fib EXCEPT ![c][o] = step]
    BY <1>4 DEF FiberCreate, Insert
  <2>2. QED
    BY <1>a, <2>1, OneFiberSteps
<1>5. CASE FiberPublish(c, o)
  <2>1. /\ UNCHANGED <<jobs, pc, tx, out, proof>> /\ fib[c][o] = "publish"
        /\ fib' = [fib EXCEPT ![c][o] = "done"]
        /\ [topic |-> "job.created", job |-> o, proof |-> None] \in events'
    BY <1>5 DEF FiberPublish, Publish
  <2>2. \E e \in events' : e.topic = "job.created" /\ e.job = o
    BY <2>1
  <2>3. RowsOfTx(TxOf[o])' # {}
    BY <2>1 DEF ChainInv, FibersAreSure, Rows, RowsOfTx
  <2>4. QED
    BY <1>a, <2>1, <2>2, <2>3, OneFiberSteps
<1>6. CASE FiberRejects(c, o)
  <2>1. /\ UNCHANGED <<pc, tx, out, proof>> /\ fib[c][o] \in Running /\ MayFail
        /\ fib' = [fib EXCEPT ![c][o] = "fail"]
    BY <1>6 DEF FiberRejects
  <2>2. QED
    BY <1>a, <2>1, OneFiberSteps
<1>7. QED
  BY <1>1, <1>2, <1>3, <1>4, <1>5, <1>6 DEF Fiber

LEMMA OtherSteps ==
  ASSUME TypeOK,
         \/ \E c \in Call : Release(c)
         \/ \E t \in JobTx \cup ProofTx : Appear(t)
         \/ \E q \in Process : Crash(q)
         \/ UNCHANGED vars
  PROVE  \A b \in Call : CallStep(b)
<1> USE DEF CallStep, Stays, Carries, Ends, Forget
<1>1. CASE \E c \in Call : Release(c)
  BY <1>1 DEF Release
<1>2. CASE \E t \in JobTx \cup ProofTx : Appear(t)
  BY <1>2 DEF Appear, locals
<1>3. CASE \E q \in Process : Crash(q)
  BY <1>3 DEF Crash
<1>4. CASE UNCHANGED vars
  BY <1>4 DEF vars, locals
<1>5. QED
  BY <1>1, <1>2, <1>3, <1>4

LEMMA NextSteps ==
  Typed /\ ChainInv /\ [Next]_vars => \A b \in Call : CallStep(b)
<1> SUFFICES ASSUME Typed, ChainInv, [Next]_vars PROVE \A b \in Call : CallStep(b)
  OBVIOUS
<1>1. TypeOK
  BY DEF Typed
<1>2. QED
  BY <1>1, StartSteps, StepSteps, FiberSteps, OtherSteps DEF Next

-----------------------------------------------------------------------------
(* What a step does to the tables and the events.                          *)

\* Rows keep their outputs; only a fiber that creates one adds a job, and only a
\* call that creates one a proof.
RowsStay == DOMAIN jobs' = DOMAIN jobs /\ \A i \in DOMAIN jobs : jobs'[i].out = jobs[i].out

RowsGrow == \A i \in DOMAIN jobs : i \in DOMAIN jobs' /\ jobs'[i].out = jobs[i].out

LEMMA TablesGrow ==
  Typed /\ SpentInv /\ ChainInv /\ [Next]_vars =>
    /\ events \subseteq events'
    /\ RowsStay \/ \E c \in Call, o \in JobOut : FiberCreate(c, o)
    /\ work' = work \/ \E c \in Call : CreateProof(c)
<1> DEFINE Goal == /\ events \subseteq events'
                   /\ RowsStay \/ \E c \in Call, o \in JobOut : FiberCreate(c, o)
                   /\ work' = work \/ \E c \in Call : CreateProof(c)
<1> SUFFICES ASSUME Typed, SpentInv, ChainInv, [Next]_vars PROVE Goal
  OBVIOUS
<1>1. Calm => Goal
  BY DEF Calm, RowsStay
<1>2. ASSUME NEW c \in Call, NEW o \in JobOut, FiberTime(c, o) \/ FiberPublish(c, o) PROVE Goal
  BY <1>2 DEF FiberTime, FiberPublish, Publish, tables, RowsStay
<1>3. ASSUME NEW c \in Call, NEW o \in JobOut, FiberCreate(c, o) PROVE Goal
  BY <1>3 DEF FiberCreate
<1>4. ASSUME NEW c \in Call, CreateProof(c) PROVE Goal
  BY <1>4 DEF CreateProof, InsertProof, Publish, RowsStay
<1>5. ASSUME NEW c \in Call, SaveJob(c) \/ HealSave(c) PROVE Goal
  <2>1. RowsStay
    BY <1>5, SavesClose DEF JobsSaved, RowsStay
  <2>2. events \subseteq events' /\ work' = work
    BY <1>5 DEF SaveJob, HealSave, Publish
  <2>3. QED
    BY <2>1, <2>2
<1> HIDE DEF Goal
<1>6. ASSUME NEW c \in Call, Step(c) PROVE Goal
  BY <1>1, <1>4, <1>5, <1>6, EarlyStepIsCalm DEF Step
<1>7. ASSUME NEW c \in Call, NEW o \in JobOut, Fiber(c, o) \/ FiberRejects(c, o) PROVE Goal
  BY <1>1, <1>2, <1>3, <1>7, FiberIsCalm DEF Fiber
<1>8. QED
  BY <1>1, <1>6, <1>7, StartIsCalm, OtherIsCalm DEF Next

\* Rows are never removed.
LEMMA RowsOnlyGrow ==
  Typed /\ SpentInv /\ ChainInv /\ [Next]_vars => RowsGrow
<1> SUFFICES ASSUME Typed, SpentInv, ChainInv, [Next]_vars PROVE RowsGrow
  OBVIOUS
<1>1. CASE RowsStay
  BY <1>1 DEF RowsStay, RowsGrow
<1>2. ASSUME NEW c \in Call, NEW o \in JobOut, FiberCreate(c, o) PROVE RowsGrow
  BY <1>2, CreateAdds DEF RowsGrow
<1>3. QED
  BY <1>1, <1>2, TablesGrow

-----------------------------------------------------------------------------
(* An import gives up only with cause.                                     *)

LEMMA InitCalls == Init => CallsInv
<1> SUFFICES ASSUME Init PROVE CallsInv
  OBVIOUS
<1>1. \A c \in Call : pc[c] = "idle" /\ \A o \in JobOut : fib[c][o] = "off"
  BY DEF Init, AllOff
<1>2. QED
  BY <1>1 DEF CallsInv, FibersBelong, DoneIsRecorded, GiveUpIsJustified, ImportCovers, Running

\* What a step of one call leaves true of its fibers and of the call itself.
LEMMA OneCallKeeps ==
  ASSUME Typed, Typed', CallsInv, RowsGrow, NEW b \in Call, CallStep(b)
  PROVE  /\ \A o \in JobOut : fib'[b][o] \in Running => pc'[b] \in {"import", "failed"}
         /\ \A o \in JobOut : fib'[b][o] = "done" => RowsOfTx(TxOf[o])' # {}
         /\ pc'[b] = "gaveUp" => \/ out'[b] \notin JobOut
                                 \/ \E i \in RowsOfTx(tx[b])' : jobs'[i].out # out'[b]
         /\ ImportCovers(b)'
<1>a. fib[b] \in [JobOut -> FiberPc]
  BY DEF Typed, TypeOK
<1>b. \A t : RowsOfTx(t) # {} => RowsOfTx(t)' # {}
  BY DEF RowsGrow, RowsOfTx
<1>c. /\ \A o \in JobOut : fib[b][o] \in Running => pc[b] \in {"import", "failed"}
      /\ \A o \in JobOut : fib[b][o] = "done" => RowsOfTx(TxOf[o]) # {}
      /\ pc[b] = "gaveUp" => out[b] \notin JobOut \/ \E i \in RowsOfTx(tx[b]) : jobs[i].out # out[b]
      /\ ImportCovers(b)
  BY DEF CallsInv, FibersBelong, DoneIsRecorded, GiveUpIsJustified
<1>d. pc[b] \in {"import", "findJobAgain", "gaveUp"} /\ proof[b] # None => tx[b] = TxOf[out[b]]
  BY DEF Typed, CallsAreAbout
<1>1. CASE Stays(b)
  BY <1>1, <1>b, <1>c DEF Stays, Carries, ImportCovers, RowsOfTx, RowsGrow
<1>2. CASE Moves(b)
  BY <1>2, <1>b, <1>c DEF Moves, ImportCovers
<1>3. CASE Fans(b)
  <2>1. /\ pc'[b] = "import" /\ \A o \in JobOut : fib'[b][o] \in {"find", "off"}
        /\ \A o \in JobOut : TxOf[o] = tx'[b] => fib'[b][o] = "find"
    BY <1>3 DEF Fans, OutputsOf
  <2>2. proof'[b] # None => tx'[b] = TxOf[out'[b]]
    BY DEF Typed, CallsAreAbout
  <2>3. QED
    BY <2>1, <2>2 DEF ImportCovers, Running
<1>4. CASE Gathers(b)
  <2>1. /\ \A o \in JobOut : fib'[b][o] = "off"
        /\ pc'[b] \in {"imported", "findJobAgain"}
    BY <1>4 DEF Gathers, AllOff
  <2>2. ASSUME pc'[b] = "findJobAgain", out'[b] \in JobOut
        PROVE  RowsOfTx(tx[b])' # {}
    <3>1. /\ pc[b] = "import" /\ proof[b] # None /\ out[b] \in JobOut
          /\ out'[b] = out[b] /\ tx'[b] = tx[b] /\ fib[b][out[b]] \in {"off", "done"}
      BY <1>4, <2>2 DEF Gathers, Carries
    <3>2. fib[b][out[b]] = "done" /\ tx[b] = TxOf[out[b]]
      BY <1>c, <1>d, <3>1 DEF ImportCovers
    <3>3. RowsOfTx(tx[b]) # {}
      BY <1>c, <3>1, <3>2
    <3>4. QED
      BY <3>1, <3>3 DEF RowsGrow, RowsOfTx
  <2>3. QED
    BY <2>1, <2>2 DEF ImportCovers, Running
<1>5. CASE Rejects(b)
  BY <1>5, <1>b, <1>c DEF Rejects, Carries, ImportCovers
<1>6. CASE GivesUp(b)
  <2>1. /\ pc[b] = "findJobAgain" /\ pc'[b] = "gaveUp" /\ Rows(out[b]) = {}
        /\ fib'[b] = fib[b] /\ out'[b] = out[b] /\ tx'[b] = tx[b]
    BY <1>6 DEF GivesUp, Carries
  <2>2. ASSUME out[b] \in JobOut
        PROVE  \E i \in RowsOfTx(tx[b])' : jobs'[i].out # out[b]
    <3>1. PICK i \in RowsOfTx(tx[b]) : TRUE
      BY <1>c, <2>1, <2>2 DEF ImportCovers
    <3>2. jobs[i].out # out[b]
      BY <2>1, <3>1 DEF RowsOfTx, Rows
    <3>3. i \in RowsOfTx(tx[b])' /\ jobs'[i].out = jobs[i].out
      BY <2>1, <3>1 DEF RowsOfTx, RowsGrow
    <3>4. QED
      BY <3>2, <3>3
  <2>3. QED
    BY <1>b, <1>c, <2>1, <2>2 DEF ImportCovers, Running
<1>7. CASE Runs(b)
  <2>1. PICK o \in JobOut, step \in FiberPc :
          /\ Carries(b) /\ pc'[b] = pc[b]
          /\ fib[b][o] \in Running /\ fib'[b] = [fib[b] EXCEPT ![o] = step]
          /\ step # "off" /\ (step = "done" => RowsOfTx(TxOf[o])' # {})
    BY <1>7 DEF Runs
  <2>2. \A u \in JobOut : fib'[b][u] = IF u = o THEN step ELSE fib[b][u]
    BY <1>a, <2>1
  <2>3. pc[b] \in {"import", "failed"}
    BY <1>c, <2>1
  <2>4. QED
    BY <1>b, <1>c, <2>1, <2>2, <2>3 DEF ImportCovers, Carries
<1>8. CASE Ends(b)
  BY <1>8 DEF Ends, AllOff, Running, ImportCovers
<1>9. CASE Finds(b)
  BY <1>9, <1>b, <1>c DEF Finds, Carries, ImportCovers
<1>10. QED
  BY <1>1, <1>2, <1>3, <1>4, <1>5, <1>6, <1>7, <1>8, <1>9 DEF CallStep

LEMMA NextCalls ==
  Typed /\ Typed' /\ SpentInv /\ ChainInv /\ CallsInv /\ [Next]_vars => CallsInv'
<1> SUFFICES ASSUME Typed, Typed', SpentInv, ChainInv, CallsInv, [Next]_vars PROVE CallsInv'
  OBVIOUS
<1>1. RowsGrow /\ \A b \in Call : CallStep(b)
  BY RowsOnlyGrow, NextSteps
<1>2. \A b \in Call :
        /\ \A o \in JobOut : fib'[b][o] \in Running => pc'[b] \in {"import", "failed"}
        /\ \A o \in JobOut : fib'[b][o] = "done" => RowsOfTx(TxOf[o])' # {}
        /\ pc'[b] = "gaveUp" => \/ out'[b] \notin JobOut
                                \/ \E i \in RowsOfTx(tx[b])' : jobs'[i].out # out'[b]
        /\ ImportCovers(b)'
  BY <1>1, OneCallKeeps
<1>3. FibersBelong'
  BY <1>2 DEF FibersBelong
<1>4. DoneIsRecorded'
  BY <1>2 DEF DoneIsRecorded
<1>5. GiveUpIsJustified'
  BY <1>2 DEF GiveUpIsJustified
<1>6. QED
  BY <1>2, <1>3, <1>4, <1>5 DEF CallsInv

LEMMA CallsInvAlways == Spec => []CallsInv
  BY InitCalls, NextCalls, TypedAlways, SpentInvAlways, ChainInvAlways, PTL DEF Spec

\* importBoostProof drops a proof only if its output is no job, or was left out
\* because a sibling is recorded: for any number of calls, whatever rejects or stops.
THEOREM GivingUpIsJustified == Spec => []GiveUpIsJustified
<1>1. CallsInv => GiveUpIsJustified
  BY DEF CallsInv
<1>2. QED
  BY <1>1, CallsInvAlways, PTL

-----------------------------------------------------------------------------
(* Every job is announced.                                                 *)

\* A fiber that is to announce a job does so, unless its publish is rejected or its
\* process stops.
LEMMA NewsArrive ==
  ASSUME Typed, CallsInv, ~MayFail, ~MayCrash, NEW b \in Call, CallStep(b), NEW o \in JobOut,
         fib[b][o] = "publish"
  PROVE  \/ fib'[b][o] = "publish"
         \/ \E e \in events' : e.topic = "job.created" /\ e.job = o
<1>1. fib[b] \in [JobOut -> FiberPc] /\ pc[b] \in {"import", "failed"}
  BY DEF Typed, TypeOK, CallsInv, FibersBelong, Running
<1>2. CASE Runs(b)
  BY <1>1, <1>2 DEF Runs
<1>3. QED
  BY <1>1, <1>2 DEF CallStep, Stays, Moves, Fans, Gathers, Rejects, GivesUp, Finds, Ends

LEMMA NextAnnounces ==
  Typed /\ SpentInv /\ ChainInv /\ CallsInv /\ JobsAreAnnounced /\ ~MayFail /\ ~MayCrash
    /\ [Next]_vars => JobsAreAnnounced'
<1> SUFFICES ASSUME Typed, SpentInv, ChainInv, CallsInv, JobsAreAnnounced, ~MayFail, ~MayCrash,
                    [Next]_vars, NEW o \in JobOut, Rows(o)' # {}
             PROVE  \/ \E e \in events' : e.topic = "job.created" /\ e.job = o
                    \/ \E c \in Call : fib'[c][o] = "publish"
  BY DEF JobsAreAnnounced
<1>1. events \subseteq events'
  BY TablesGrow
<1>2. CASE Rows(o) # {}
  <2>1. CASE \E e \in events : e.topic = "job.created" /\ e.job = o
    BY <1>1, <2>1
  <2>2. ASSUME NEW c \in Call, fib[c][o] = "publish"
        PROVE  \/ \E e \in events' : e.topic = "job.created" /\ e.job = o
               \/ fib'[c][o] = "publish"
    BY <2>2, NextSteps, NewsArrive
  <2>3. QED
    BY <1>2, <2>1, <2>2 DEF JobsAreAnnounced
<1>3. CASE Rows(o) = {}
  <2>1. PICK c \in Call, u \in JobOut : FiberCreate(c, u)
    BY <1>3, TablesGrow DEF RowsStay, Rows
  <2>2. /\ fib' = [fib EXCEPT ![c][u] = "publish"]
        /\ \A i \in DOMAIN jobs' : jobs'[i].out = u \/ (i \in DOMAIN jobs /\ jobs'[i] = jobs[i])
    BY <1>3, <2>1, CreateAdds DEF Rows
  <2>3. u = o
    BY <1>3, <2>2 DEF Rows
  <2>4. fib'[c][o] = "publish"
    BY <2>2, <2>3 DEF Typed, TypeOK
  <2>5. QED
    BY <2>4
<1>4. QED
  BY <1>2, <1>3

\* Every recorded job is announced, or about to be, as long as no operation rejects
\* and no process stops: for any number of calls that race for it, with the unique
\* index or without it.
THEOREM RecordedJobsAreAnnounced == ~MayFail /\ ~MayCrash /\ Spec => []JobsAreAnnounced
<1> SUFFICES ASSUME ~MayFail, ~MayCrash PROVE Spec => []JobsAreAnnounced
  OBVIOUS
<1>1. Init => JobsAreAnnounced
  BY DEF Init, JobsAreAnnounced, Rows
<1>2. Typed /\ SpentInv /\ ChainInv /\ CallsInv /\ JobsAreAnnounced /\ [Next]_vars
        => JobsAreAnnounced'
  BY NextAnnounces
<1>3. QED
  BY <1>1, <1>2, TypedAlways, SpentInvAlways, ChainInvAlways, CallsInvAlways, PTL DEF Spec

-----------------------------------------------------------------------------
(* How often an output is recorded.                                        *)

\* Calls that found no row of the output, and may still write one.
Looking(o) == {c \in Call : fib[c][o] \in Looks}
Writing(o) == {c \in Call : pc[c] = "createProof" /\ out[c] = o}

Fits(rows, calls) == Cardinality(rows) + Cardinality(calls) <= Cardinality(Call)

\* Rows that are there and rows that may come are together no more than the calls:
\* a lookup sends nobody on once there is a row.
CountInv ==
  \A o \in JobOut : Fits(Rows(o), Looking(o)) /\ Fits(Proofs(o), Writing(o))

LEMMA RowsAreFinite ==
  ASSUME TypeOK, NEW o
  PROVE  IsFiniteSet(Rows(o)) /\ IsFiniteSet(Proofs(o))
<1>1. DOMAIN jobs = 1..Len(jobs) /\ Len(jobs) \in Nat /\ DOMAIN work = 1..Len(work) /\ Len(work) \in Nat
  BY DEF TypeOK
<1>2. IsFiniteSet(DOMAIN jobs) /\ IsFiniteSet(DOMAIN work)
  BY <1>1, FS_Interval
<1>3. Rows(o) \subseteq DOMAIN jobs /\ Proofs(o) \subseteq DOMAIN work
  BY DEF Rows, Proofs
<1>4. QED
  BY <1>2, <1>3, FS_Subset

\* Where no row comes, nobody may be sent on unless there is none at all.
LEMMA FitsStill ==
  ASSUME NEW rows, NEW P, NEW Q, P \subseteq Call, Q \subseteq Call,
         IsFiniteSet(rows), Fits(rows, P), Q \subseteq P \/ rows = {}
  PROVE  Fits(rows, Q)
<1>1. /\ Cardinality(rows) \in Nat /\ Cardinality(P) \in Nat /\ Cardinality(Q) \in Nat
      /\ Cardinality(Call) \in Nat /\ Cardinality(Q) <= Cardinality(Call)
  BY CallsAreFinite, FS_Subset, FS_CardinalityType
<1>2. CASE Q \subseteq P
  <2>1. Cardinality(Q) <= Cardinality(P)
    BY <1>2, CallsAreFinite, FS_Subset
  <2>2. QED
    BY <1>1, <2>1 DEF Fits
<1>3. CASE rows = {}
  BY <1>1, <1>3, FS_EmptySet DEF Fits
<1>4. QED
  BY <1>2, <1>3

\* A call that writes a row is no longer one that may.
LEMMA FitsTaken ==
  ASSUME NEW rows, NEW P, NEW Q, NEW c \in P, NEW i, P \subseteq Call, Q \subseteq P \ {c},
         IsFiniteSet(rows), Fits(rows, P)
  PROVE  Fits(rows \cup {i}, Q)
<1>1. IsFiniteSet(P) /\ IsFiniteSet(P \ {c}) /\ IsFiniteSet(Q)
  BY CallsAreFinite, FS_Subset
<1>2. /\ Cardinality(rows) \in Nat /\ Cardinality(P) \in Nat /\ Cardinality(Q) \in Nat
      /\ Cardinality(Call) \in Nat /\ Cardinality(P \ {c}) \in Nat
      /\ Cardinality(rows \cup {i}) \in Nat
  BY <1>1, CallsAreFinite, FS_AddElement, FS_CardinalityType
<1>3. Cardinality(Q) <= Cardinality(P \ {c}) /\ Cardinality(P \ {c}) = Cardinality(P) - 1
  BY <1>1, FS_Subset, FS_RemoveElement
<1>4. Cardinality(rows \cup {i}) <= Cardinality(rows) + 1
  BY <1>2, FS_AddElement
<1>5. QED
  BY <1>2, <1>3, <1>4 DEF Fits

LEMMA InitCounts == Init => CountInv
<1> SUFFICES ASSUME Init, NEW o \in JobOut
             PROVE  Fits(Rows(o), Looking(o)) /\ Fits(Proofs(o), Writing(o))
  BY DEF CountInv
<1>1. Rows(o) = {} /\ Proofs(o) = {} /\ Looking(o) = {} /\ Writing(o) = {}
  BY DEF Init, Rows, Proofs, Looking, Writing, AllOff, Looks
<1>2. Cardinality(Call) \in Nat
  BY CallsAreFinite, FS_CardinalityType
<1>3. QED
  BY <1>1, <1>2, FS_EmptySet DEF Fits

\* Whom a step sends on has found no row.
LEMMA SentOnFoundNone ==
  ASSUME Typed, NEW b \in Call, CallStep(b), NEW o \in JobOut
  PROVE  /\ fib'[b][o] \in Looks => fib[b][o] \in Looks \/ Rows(o) = {}
         /\ pc'[b] = "createProof" /\ out'[b] = o =>
              (pc[b] = "createProof" /\ out[b] = o) \/ Proofs(o) = {}
<1> USE DEF Carries, Looks
<1>1. CASE Runs(b)
  <2>1. PICK u \in JobOut, step \in FiberPc :
          /\ Carries(b) /\ pc'[b] = pc[b] /\ fib'[b] = [fib[b] EXCEPT ![u] = step]
          /\ step \in Looks => fib[b][u] \in Looks \/ Rows(u) = {}
    BY <1>1 DEF Runs
  <2>2. fib'[b][o] = IF o = u THEN step ELSE fib[b][o]
    BY <2>1 DEF Typed, TypeOK
  <2>3. QED
    BY <2>1, <2>2
<1>2. CASE Stays(b) \/ Moves(b) \/ Finds(b)
  BY <1>2 DEF Stays, Moves, Finds
<1>3. CASE Fans(b) \/ Gathers(b) \/ Ends(b)
  BY <1>3 DEF Fans, Gathers, Ends, AllOff
<1>4. CASE Rejects(b) \/ GivesUp(b)
  BY <1>4 DEF Rejects, GivesUp
<1>5. QED
  BY <1>1, <1>2, <1>3, <1>4 DEF CallStep

LEMMA JobsStillFit ==
  ASSUME Typed, SpentInv, ChainInv, CountInv, [Next]_vars, NEW o \in JobOut
  PROVE  Fits(Rows(o), Looking(o))'
<1>1. IsFiniteSet(Rows(o)) /\ Fits(Rows(o), Looking(o))
  BY RowsAreFinite DEF Typed, CountInv
<1>2. Looking(o) \subseteq Call /\ Looking(o)' \subseteq Call
  BY DEF Looking
<1>3. Looking(o)' \subseteq Looking(o) \/ Rows(o) = {}
  BY NextSteps, SentOnFoundNone DEF Looking
<1>4. CASE Rows(o)' = Rows(o)
  BY <1>1, <1>2, <1>3, <1>4, FitsStill
<1>5. CASE Rows(o)' # Rows(o)
  <2>1. PICK c \in Call, u \in JobOut : FiberCreate(c, u)
    BY <1>5, TablesGrow DEF RowsStay, Rows
  <2>2. /\ fib' = [fib EXCEPT ![c][u] = "publish"]
        /\ DOMAIN jobs' = DOMAIN jobs \cup {Len(jobs) + 1}
        /\ \A i \in DOMAIN jobs : jobs'[i] = jobs[i]
        /\ jobs'[Len(jobs) + 1].out = u
    BY <1>5, <2>1, CreateAdds DEF Rows
  <2>3. u = o /\ Rows(o)' = Rows(o) \cup {Len(jobs) + 1}
    BY <1>5, <2>2 DEF Rows
  <2>4. c \in Looking(o)
    BY <2>1, <2>3 DEF FiberCreate, Looking, Looks
  <2>5. Looking(o)' \subseteq Looking(o) \ {c}
    BY <2>2, <2>3 DEF Typed, TypeOK, Looking, Looks
  <2>6. Fits(Rows(o) \cup {Len(jobs) + 1}, Looking(o)')
    BY <1>1, <1>2, <2>4, <2>5, FitsTaken
  <2>7. QED
    BY <2>3, <2>6
<1>6. QED
  BY <1>4, <1>5

LEMMA ProofsStillFit ==
  ASSUME Typed, SpentInv, ChainInv, CountInv, [Next]_vars, NEW o \in JobOut
  PROVE  Fits(Proofs(o), Writing(o))'
<1>1. IsFiniteSet(Proofs(o)) /\ Fits(Proofs(o), Writing(o))
  BY RowsAreFinite DEF Typed, CountInv
<1>2. Writing(o) \subseteq Call /\ Writing(o)' \subseteq Call
  BY DEF Writing
<1>3. Writing(o)' \subseteq Writing(o) \/ Proofs(o) = {}
  BY NextSteps, SentOnFoundNone DEF Writing
<1>4. CASE Proofs(o)' = Proofs(o)
  BY <1>1, <1>2, <1>3, <1>4, FitsStill
<1>5. CASE Proofs(o)' # Proofs(o)
  <2>1. PICK c \in Call : CreateProof(c)
    BY <1>5, TablesGrow DEF Proofs
  <2>2. /\ DOMAIN work' = DOMAIN work \cup {Len(work) + 1}
        /\ \A w \in DOMAIN work : work'[w] = work[w]
        /\ work'[Len(work) + 1].job = out[c]
        /\ pc' = [pc EXCEPT ![c] = "saveJob"]
    BY <2>1, ProofAdds
  <2>3. out[c] = o /\ Proofs(o)' = Proofs(o) \cup {Len(work) + 1}
    BY <1>5, <2>2 DEF Proofs
  <2>4. c \in Writing(o) /\ out' = out
    BY <2>1, <2>3 DEF CreateProof, InsertProof, Writing, locals
  <2>5. Writing(o)' \subseteq Writing(o) \ {c}
    BY <2>2, <2>4 DEF Typed, TypeOK, Writing
  <2>6. Fits(Proofs(o) \cup {Len(work) + 1}, Writing(o)')
    BY <1>1, <1>2, <2>4, <2>5, FitsTaken
  <2>7. QED
    BY <2>3, <2>6
<1>6. QED
  BY <1>4, <1>5

LEMMA CountInvAlways == Spec => []CountInv
<1>1. Typed /\ SpentInv /\ ChainInv /\ CountInv /\ [Next]_vars => CountInv'
  BY JobsStillFit, ProofsStillFit DEF CountInv
<1>2. QED
  BY <1>1, InitCounts, TypedAlways, SpentInvAlways, ChainInvAlways, PTL DEF Spec

\* However many imports follow each other, an output is recorded, and proved, no more
\* often than there are calls at one time: repeats need calls that overlap.
THEOREM DuplicatesAreBounded == Spec => []DuplicatesBounded
<1>1. Typed /\ CountInv => DuplicatesBounded
  <2> SUFFICES ASSUME Typed, CountInv, NEW o \in JobOut
               PROVE  /\ Cardinality(Rows(o)) <= Cardinality(Call)
                      /\ Cardinality(Proofs(o)) <= Cardinality(Call)
    BY DEF DuplicatesBounded
  <2>1. /\ IsFiniteSet(Rows(o)) /\ IsFiniteSet(Proofs(o))
        /\ IsFiniteSet(Looking(o)) /\ IsFiniteSet(Writing(o))
    BY RowsAreFinite, CallsAreFinite, FS_Subset DEF Typed, Looking, Writing
  <2>2. /\ Cardinality(Rows(o)) \in Nat /\ Cardinality(Proofs(o)) \in Nat
        /\ Cardinality(Looking(o)) \in Nat /\ Cardinality(Writing(o)) \in Nat
        /\ Cardinality(Call) \in Nat
    BY <2>1, CallsAreFinite, FS_CardinalityType
  <2>3. QED
    BY <2>2 DEF CountInv, Fits
<1>2. QED
  BY <1>1, TypedAlways, CountInvAlways, PTL
=============================================================================
