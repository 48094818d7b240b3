----------------------------- MODULE ProofSearch -----------------------------
(***************************************************************************)
(* How the proof of a job is found when nobody submits it.                 *)
(*   - src/bitsocket.ts listens to every transaction and posts the ones    *)
(*     that spend a job of the map src/importer.ts loaded when it started; *)
(*   - src/crawlers/find_all_missing_proofs.ts lists the unspent jobs and  *)
(*     asks the Planaria index (src/spends.ts) for the spend of each; it   *)
(*     runs when somebody starts it, no process or timer does;             *)
(*   - find_spend_transaction.ts walks a list of outpoints known to be     *)
(*     redeemed and looks for their spends in the script history.          *)
(* The import of a proof is BoostImport.tla's: here one step with the      *)
(* outcomes a call can have, a rejection and a stop between its writes     *)
(* included.                                                               *)
(***************************************************************************)
EXTENDS Naturals, FiniteSets, Sequences

CONSTANTS Output,     \* outputs of transactions
          Job,        \* those that are jobs
          Tx, Index,  \* Tx[o], Index[o]: the transaction and the index of an output
          Spend,      \* transactions that may spend some
          Inputs,     \* Inputs[s]: the outputs s spends
          Proof,      \* the spends that are proofs of work
          Proves,     \* Proves[s]: the job of the first input that is a proof
          MaxFails    \* bound: failed calls, stops and killed scripts

ASSUME SearchAssumption ==
  /\ Job \subseteq Output /\ Inputs \in [Spend -> SUBSET Output]
  /\ Proof \subseteq Spend /\ Proves \in [Proof -> Job]
  /\ \A s \in Proof : Proves[s] \in Inputs[s]
  /\ MaxFails \in Nat

VARIABLES
  chain,    \* the spends on the chain: those "seen" in the mempool, "mined" ones in order
  row,      \* row[j]: the boost_jobs row, "none", "open" or "spent"
  proofs,   \* proofs[j]: the spends its boost_job_proofs rows name
  repaired, \* the jobs whose proof find_spend_transaction.ts wrote
  watch,    \* the process of bitsocket.ts and its map of jobs
  posting,  \* <<s, j>>: it posts the spend s, which has the job j as an input
  sweep,    \* the run of find_all_missing_proofs.ts
  script,   \* the run of find_spend_transaction.ts
  fails

vars == <<chain, row, proofs, repaired, watch, posting, sweep, script, fails>>
rows == <<row, proofs, repaired>>

Open     == {j \in Job : row[j] = "open"}
Mined    == {chain.mined[i] : i \in DOMAIN chain.mined}
OnChain  == chain.seen \union Mined
Siblings(j) == {k \in Job : Tx[k] = Tx[j]}
Idle     == [pc |-> "off", map |-> {}]
SweepOff == [pc |-> "off", jobs |-> {}, todo |-> {}, spend |-> {}, from |-> 0]
NextRedemption == [pc |-> "next", out |-> {}, job |-> {}, spend |-> {}]

Init ==
  /\ chain = [seen |-> {}, mined |-> <<>>]
  /\ row = [j \in Job |-> "none"]
  /\ proofs = [j \in Job |-> {}] /\ repaired = {}
  /\ watch = Idle /\ posting = {}
  /\ sweep = SweepOff /\ script = NextRedemption
  /\ fails = 0

Fail == fails < MaxFails /\ fails' = fails + 1

-----------------------------------------------------------------------------
(* The chain, the imports of jobs, and the import of a proof. *)

(* A row of a job appears through any of the ways of BoostImport.tla. *)
JobImported(j) ==
  /\ row[j] = "none"
  /\ row' = [row EXCEPT ![j] = "open"]
  /\ UNCHANGED <<chain, proofs, repaired, watch, posting, sweep, script, fails>>

Mine(s) ==
  /\ s \in chain.seen
  /\ chain' = [seen |-> chain.seen \ {s}, mined |-> Append(chain.mined, s)]
  /\ UNCHANGED <<rows, watch, posting, sweep, script, fails>>

Closed(j) == row' = [row EXCEPT ![j] = "spent"]

(* importBoostProof() of a job that has a row: it creates the proof unless *)
(* there is one, and closes the job; a stop after the insert leaves it     *)
(* open, a rejection comes before it.                                      *)
WritesProof(s, j) ==
  /\ proofs' = [proofs EXCEPT ![j] = IF @ = {} THEN {s} ELSE @]
  /\ \/ Closed(j) /\ UNCHANGED fails
     \/ Fail /\ UNCHANGED row

(* The job is missing: its transaction is imported first, which records    *)
(* nothing once any job of it has a row, and some of them otherwise.       *)
WritesBoth(s, j) ==
  \E found \in SUBSET Siblings(j) :
    /\ found # {} <=> \A k \in Siblings(j) : row[k] = "none"
    /\ IF j \in found
       THEN proofs' = [proofs EXCEPT ![j] = {s}] /\ UNCHANGED fails
       ELSE UNCHANGED <<proofs, fails>>
    /\ row' = [k \in Job |-> IF k \notin found THEN row[k] ELSE IF k = j THEN "spent" ELSE "open"]

(* Broken: the proof is recorded for any of the jobs that are spent. *)
ImportsForAny(s) ==
  /\ s \in Proof /\ UNCHANGED repaired
  /\ \E j \in Inputs[s] \intersect Job :
       IF row[j] = "none" THEN WritesBoth(s, j) ELSE WritesProof(s, j)

(* importBoostProofByTxid(): a transaction stands for its first proof only. *)
Imports(s) ==
  /\ s \in Proof /\ UNCHANGED repaired
  /\ IF row[Proves[s]] = "none" THEN WritesBoth(s, Proves[s]) ELSE WritesProof(s, Proves[s])

ImportNothing(s) ==
  /\ UNCHANGED rows
  /\ \/ s \notin Proof /\ UNCHANGED fails
     \/ s \in Proof /\ Fail

-----------------------------------------------------------------------------
(* importer.ts and bitsocket.ts. *)

(* loadFromDatabase(), when the module is imported. *)
Load ==
  /\ watch.pc = "off"
  /\ watch' = [pc |-> "loaded", map |-> Open]
  /\ UNCHANGED <<chain, rows, posting, sweep, script, fails>>

(* The query rejects: loaded stays false and start() polls for ever. *)
LoadFails ==
  /\ watch.pc = "off" /\ Fail
  /\ watch' = [Idle EXCEPT !.pc = "polling"]
  /\ UNCHANGED <<chain, rows, posting, sweep, script>>

Subscribe ==
  /\ watch.pc = "loaded"
  /\ watch' = [watch EXCEPT !.pc = "on"]
  /\ UNCHANGED <<chain, rows, posting, sweep, script, fails>>

(* A spend is broadcast, no output twice; onmessage() posts it for every   *)
(* input that is a job of the map, which is as it was when it was loaded.  *)
Broadcast(s) ==
  /\ s \notin OnChain /\ \A t \in OnChain : Inputs[t] \intersect Inputs[s] = {}
  /\ chain' = [chain EXCEPT !.seen = @ \union {s}]
  /\ posting' = posting \union (IF watch.pc = "on" THEN {s} \X (Inputs[s] \intersect watch.map) ELSE {})
  /\ UNCHANGED <<rows, watch, sweep, script, fails>>

(* The POST to /boost/proofs/{txid} answers or fails; an error is logged. *)
Posted(s, j) ==
  /\ <<s, j>> \in posting
  /\ posting' = posting \ {<<s, j>>}
  /\ Imports(s) \/ ImportNothing(s)
  /\ UNCHANGED <<chain, watch, sweep, script>>

(* The process stops, for good or to be started again. *)
StopWatch ==
  /\ watch.pc # "off" /\ Fail
  /\ watch' = Idle /\ posting' = {}
  /\ UNCHANGED <<chain, rows, sweep, script>>

-----------------------------------------------------------------------------
(* find_all_missing_proofs.ts and spends.ts. *)

(* "from" is how much was mined by then; the code keeps no such number. *)
StartSweep ==
  /\ sweep.pc = "off"
  /\ sweep' = [pc |-> "look", jobs |-> Open, todo |-> Open, spend |-> {}, from |-> Len(chain.mined)]
  /\ UNCHANGED <<chain, rows, watch, posting, script, fails>>

EndSweep ==
  /\ sweep.pc = "look" /\ sweep.todo = {}
  /\ sweep' = SweepOff
  /\ UNCHANGED <<chain, rows, watch, posting, script, fails>>

(* in.e.h and in.e.i of the query: some input names the transaction of j   *)
(* and some input, the same or another, has its index.                     *)
Matches(j, s) ==
  /\ \E o \in Inputs[s] : Tx[o] = Tx[j]
  /\ \E o \in Inputs[s] : Index[o] = Index[j]

(* Broken: the last result is taken, not the first. *)
LastResult(j) ==
  LET found == {i \in DOMAIN chain.mined : Matches(j, chain.mined[i])}
  IN {chain.mined[i] : i \in {m \in found : \A n \in found : n <= m}}

(* The first transaction the query selects; the index streams the mined    *)
(* ones in the order of their blocks.                                      *)
FirstResult(j) ==
  LET found == {i \in DOMAIN chain.mined : Matches(j, chain.mined[i])}
  IN {chain.mined[i] : i \in {m \in found : \A n \in found : m <= n}}

(* getSpendingTransaction() of the next job: result[0] is undefined, which *)
(* is taken for an output that is unspent, when the first transaction the  *)
(* query selects does not spend j, whatever comes after it.                *)
GetSpendingTransaction(j) ==
  LET result == {s \in FirstResult(j) : j \in Inputs[s]} IN
  /\ sweep.pc = "look" /\ j \in sweep.todo
  /\ sweep' = [sweep EXCEPT !.pc = IF result = {} THEN "look" ELSE "import",
                            !.todo = @ \ {j}, !.spend = result]
  /\ UNCHANGED <<chain, rows, watch, posting, script, fails>>

(* The request fails: the promise of runOnceFromStart() never settles. *)
GetSpendingHangs ==
  /\ sweep.pc = "look" /\ sweep.todo # {} /\ Fail
  /\ sweep' = [sweep EXCEPT !.pc = "hung"]
  /\ UNCHANGED <<chain, rows, watch, posting, script>>

KillSweep ==
  /\ sweep.pc = "hung"
  /\ sweep' = SweepOff
  /\ UNCHANGED <<chain, rows, watch, posting, script, fails>>

(* importBoostProofByTxid(): a rejection is not caught and ends the run. *)
ImportFound(s) ==
  /\ sweep.pc = "import" /\ s \in sweep.spend
  /\ Imports(s) \/ ImportNothing(s)
  /\ sweep' = IF fails' # fails THEN SweepOff ELSE [sweep EXCEPT !.pc = "look", !.spend = {}]
  /\ UNCHANGED <<chain, watch, posting, script>>

-----------------------------------------------------------------------------
(* find_spend_transaction.ts: its list names outputs that are redeemed. *)

(* Broken: the row is not looked at before it is worked on. *)
FindAnyJob(j) ==
  /\ script.pc = "next" /\ \E s \in OnChain : j \in Inputs[s]
  /\ \E k \in Siblings(j) : script' = [script EXCEPT !.pc = "proof", !.out = {j}, !.job = {k}]
  /\ UNCHANGED <<chain, rows, watch, posting, sweep, fails>>

(* The next redeemed output of the list.  Its row is looked up by the      *)
(* transaction alone: it may be the row of another output; one that is     *)
(* spent, or missing, is skipped.                                          *)
FindJob(j) ==
  /\ script.pc = "next" /\ \E s \in OnChain : j \in Inputs[s]
  /\ \E k \in Siblings(j) \intersect Open :
       script' = [script EXCEPT !.pc = "proof", !.out = {j}, !.job = {k}]
  /\ UNCHANGED <<chain, rows, watch, posting, sweep, fails>>

FindProof(k) ==
  /\ script.pc = "proof" /\ k \in script.job
  /\ script' = [script EXCEPT !.pc = IF proofs[k] # {} THEN "close" ELSE "spend"]
  /\ UNCHANGED <<chain, rows, watch, posting, sweep, fails>>

(* A job that has a proof is closed, whatever closed it meanwhile; an      *)
(* error is logged and the next redemption taken.                          *)
SaveJob(k) ==
  /\ script.pc = "close" /\ k \in script.job
  /\ Closed(k) \/ UNCHANGED row
  /\ script' = NextRedemption
  /\ UNCHANGED <<chain, proofs, repaired, watch, posting, sweep, fails>>

SpendsOutputOf(j, s) == s \in OnChain /\ \E o \in Inputs[s] : Tx[o] = Tx[j]

(* findSpendTransaction() of the redeemed output, not of the row's: some   *)
(* transaction of the history of its script with an input from its         *)
(* transaction, whichever of the outputs that spends.                      *)
FindSpend(k) ==
  /\ script.pc = "spend" /\ k \in script.job
  /\ \/ \E j \in script.out, s \in Spend :
          SpendsOutputOf(j, s) /\ script' = [script EXCEPT !.pc = "create", !.spend = {s}]
     \/ script' = NextRedemption       \* nothing is found, or a request fails
  /\ UNCHANGED <<chain, rows, watch, posting, sweep, fails>>

(* findOrCreate() of the proof; the job stays open until the next run. *)
CreateProof(k) ==
  /\ script.pc = "create" /\ k \in script.job
  /\ IF proofs[k] = {}
     THEN proofs' = [proofs EXCEPT ![k] = script.spend] /\ repaired' = repaired \union {k}
     ELSE UNCHANGED <<proofs, repaired>>
  /\ script' = NextRedemption
  /\ UNCHANGED <<chain, row, watch, posting, sweep, fails>>

(* getTimestamp() or fetch() fails before it. *)
CreateFails ==
  /\ script.pc = "create"
  /\ script' = NextRedemption
  /\ UNCHANGED <<chain, rows, watch, posting, sweep, fails>>

-----------------------------------------------------------------------------
Sweeping ==
  \/ StartSweep \/ EndSweep \/ GetSpendingHangs \/ KillSweep
  \/ \E j \in Job : GetSpendingTransaction(j)
  \/ \E s \in Spend : ImportFound(s)

Repairing ==
  \/ \E j \in Job : FindJob(j) \/ FindProof(j) \/ SaveJob(j) \/ FindSpend(j) \/ CreateProof(j)
  \/ CreateFails

Next ==
  \/ \E j \in Job : JobImported(j)
  \/ \E s \in Spend : Broadcast(s) \/ Mine(s)
  \/ \E s \in Spend, j \in Job : Posted(s, j)
  \/ Load \/ LoadFails \/ Subscribe \/ StopWatch
  \/ Sweeping
  \/ Repairing

Spec == Init /\ [][Next]_vars

-----------------------------------------------------------------------------
(* Properties. *)

(* A proof is named only by a job that has a row, the map of the listener  *)
(* holds jobs that have one, only spends that are on the chain are posted  *)
(* or found, and the script writes no proof of a job it did not find open. *)
TypeOK ==
  /\ chain.seen \subseteq Spend /\ chain.mined \in Seq(Spend)
  /\ row \in [Job -> {"none", "open", "spent"}]
  /\ \A j \in Job : proofs[j] \subseteq Spend /\ (proofs[j] # {} => row[j] # "none")
  /\ repaired \subseteq {j \in Job : proofs[j] # {}}
  /\ watch.pc \in {"off", "loaded", "polling", "on"}
  /\ sweep.todo \subseteq sweep.jobs
  /\ \A j \in watch.map \union sweep.jobs \union script.job : row[j] # "none"
  /\ \A p \in posting : p[1] \in OnChain /\ p[2] \in Inputs[p[1]]
  /\ sweep.spend \union script.spend \subseteq OnChain
  /\ sweep.pc \in {"off", "look", "import", "hung"} /\ sweep.from \in 0..Len(chain.mined)
  /\ script.pc \in {"next", "proof", "close", "spend", "create"}
  /\ fails \in 0..MaxFails

(* Whoever found it, the proof of a job is on the chain, and a spent job   *)
(* has one.  What the listener, the sweep or an import wrote proves that   *)
(* very job; only the script of the faulty jobs writes a spend of another  *)
(* output, and then one of the same transaction.                           *)
ProofsRedeemTheirJobs ==
  \A j \in Job :
    /\ row[j] = "spent" => proofs[j] # {}
    /\ \A s \in proofs[j] :
         /\ s \in OnChain
         /\ j \notin repaired => s \in Proof /\ Proves[s] = j
         /\ \E o \in Inputs[s] : Tx[o] = Tx[j]

(* A sweep that goes on has closed every job it passed whose proof was     *)
(* mined before it started and is the first transaction the query selects  *)
(* - whatever was mined, imported, posted, left half done or written by    *)
(* the other two in the meantime.                                          *)
SweepsCloseWhatTheyPass ==
  sweep.pc = "look" =>
    \A i \in 1..sweep.from, j \in sweep.jobs \ sweep.todo :
      (/\ chain.mined[i] \in Proof /\ Proves[chain.mined[i]] = j
       /\ \A n \in 1..(i - 1) : ~Matches(j, chain.mined[n]))
      => row[j] = "spent"
=============================================================================
