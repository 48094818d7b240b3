--------------------------- MODULE MCBoostImport ---------------------------
(* Instances of BoostImport for TLC. *)
EXTENDS BoostImport, TLC

CONSTANTS t1, o1, o2, p1, p2, c1, c2, host

\* Two jobs in one transaction.
TwoOutputs == (o1 :> t1) @@ (o2 :> t1)
OneOutput  == (o1 :> t1)

\* One proof; two proofs of one job (a double spend).
OneProof    == (p1 :> o1)
DoubleSpend == (p1 :> o1) @@ (p2 :> o1)

OneHost  == [c \in Call |-> host]

AllEntries == EntryPoint
JobEntries == {"jobByTxid", "jobByHex", "postJob"}
=============================================================================
