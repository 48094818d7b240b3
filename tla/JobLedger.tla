----------------------------- MODULE JobLedger -----------------------------
(***************************************************************************)
(* What the tables boost_jobs and boost_job_proofs promise to the readers  *)
(* of the API, without calls, instances, duplicates or events: a job is    *)
(* recorded, then a proof of it, then it is closed (listed as spent), and  *)
(* nothing is ever taken back.                                             *)
(***************************************************************************)
CONSTANTS JobOut,   \* job outputs
          ProofTx,  \* proof transactions
          Spends    \* [ProofTx -> output], what a proof redeems

VARIABLES recorded,  \* jobs with a row
          proved,    \* proofs with a row
          closed     \* jobs with a row that is marked spent

ledger == <<recorded, proved, closed>>

IsProved(o) == \E p \in proved : Spends[p] = o

LedgerInit == recorded = {} /\ proved = {} /\ closed = {}

RecordJob(o) ==
  /\ recorded' = recorded \cup {o}
  /\ UNCHANGED <<proved, closed>>

RecordProof(p) ==
  /\ Spends[p] \in recorded
  /\ proved' = proved \cup {p}
  /\ UNCHANGED <<recorded, closed>>

CloseJob(o) ==
  /\ o \in recorded /\ IsProved(o)
  /\ closed' = closed \cup {o}
  /\ UNCHANGED <<recorded, proved>>

LedgerNext ==
  \/ \E o \in JobOut : RecordJob(o) \/ CloseJob(o)
  \/ \E p \in ProofTx : RecordProof(p)

LedgerSpec == LedgerInit /\ [][LedgerNext]_ledger
=============================================================================
