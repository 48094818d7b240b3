--------------------------- MODULE MCProofSearch ----------------------------
(* Two jobs of one transaction, which one spend may redeem together, and   *)
(* an output of another transaction with the index of the first job: the   *)
(* spend of the second job that has it among its inputs matches the query  *)
(* for the first.                                                          *)
EXTENDS ProofSearch, TLC

CONSTANTS a0, a1, o, ta, tb, proof, other, both, reclaim

MCTx     == a0 :> ta @@ a1 :> ta @@ o :> tb
MCIndex  == a0 :> 0 @@ a1 :> 1 @@ o :> 0
MCInputs == proof :> {a0} @@ other :> {a1, o} @@ both :> {a0, a1} @@ reclaim :> {a1}
MCProves == proof :> a0 @@ other :> a1 @@ both :> a0
=============================================================================
