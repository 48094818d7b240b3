----------------------------- MODULE MCCrawler -----------------------------
(* Instances of Crawler for TLC. *)
EXTENDS Crawler, TLC

\* Jobs: two blocks of two transactions and one of one.  The first announces both
\* jobs of A, the second one of B, the third has no matching output, the fourth
\* names A with an index of 0 that is taken for its own, the last one is of C.
TwoTwoOne == <<1, 1, 2, 2, 3>>
JobsUpto  == 0 :> 0 @@ 1 :> 2 @@ 2 :> 3 @@ 3 :> 3 @@ 4 :> 4 @@ 5 :> 5
JobNames  == <<"A", "A", "B", "A", "C">>
JobPoints == <<"a1", "a2", "b", NoRow, "c">>
JobOf     == "a1" :> "A" @@ "a2" :> "A" @@ "b" :> "B" @@ "c" :> "C"
NoOrphan  == {}

\* Proofs: A and B spend the same job, the job that D spends cannot be recorded.
\* The lookup compares the index of an output with that of the spending input.
OneTwo      == <<1, 2, 2>>
ProofsUpto  == 0 :> 0 @@ 1 :> 2 @@ 2 :> 3 @@ 3 :> 5
ProofNames  == <<"A", "D", "B", "C", "A">>
ProofPoints == <<"a", NoRow, NoRow, "c", NoRow>>
ProofOf     == "a" :> "A" @@ "b" :> "B" @@ "c" :> "C" @@ "d" :> "D"
ProofKey    == "a" :> 1 @@ "b" :> 1 @@ "c" :> 2 @@ "d" :> 3
=============================================================================
