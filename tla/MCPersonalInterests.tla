------------------------- MODULE MCPersonalInterests -------------------------
(***************************************************************************)
(* A small instance of PersonalInterests for TLC.                          *)
(***************************************************************************)
EXTENDS PersonalInterests, TLC

CONSTANTS old, first, second, f1, f2, r1, r2

\* A transaction with a single interest, known without its vout, and one with two.
Detections == ("s" :> <<old>>) @@ ("d" :> <<first, second>>)
Locations  == {"s", "s_0", "d_0", "d_1"}
TheTx      == ("s" :> "s") @@ ("s_0" :> "s") @@ ("d_0" :> "d") @@ ("d_1" :> "d")
TheOutput  == ("s" :> None) @@ ("s_0" :> old) @@ ("d_0" :> first) @@ ("d_1" :> second)
ThePlace   == (old :> "s_0") @@ (first :> "d_0") @@ (second :> "d_1")

\* Each has a row from before script hashes were recorded, at the location that was
\* asked for: those of one transaction share it, and it is right for one of them only.
OldRow(output, location) ==
  [out |-> output, origin |-> location, location |-> location, hashed |-> FALSE,
   removal_location |-> None, active |-> TRUE]
OldRows == <<OldRow(old, "s"), OldRow(first, "d_1"), OldRow(second, "d_1")>>

\* One removal spends the old interest; the other spends the second of the two and
\* pays to the script of the old one again.
Spent == (r1 :> {old}) @@ (r2 :> {second})
Paid  == (r1 :> {}) @@ (r2 :> {old})

Interchangeable == Permutations(Fiber)
=============================================================================
